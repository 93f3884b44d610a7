------------------------- MODULE AgentQueueProofs -------------------------
(***************************************************************************)
(* What AgentQueue guarantees for any number of producers, any limits and  *)
(* any sizes.  The argument: the table, the calls and the uploader stay in *)
(* their types; a row an evictor selected is Low or Normal and, because    *)
(* ids are never reused, so is whatever the DELETE by id finds.  Hence     *)
(* every way a row can leave the table is one of three: an ack, a legacy   *)
(* eviction, or an eviction transaction.                                   *)
(* An eviction goes by priority and age, and takes no row it need not;     *)
(* no row leaves unaccounted, and the hard limit is overrun by one event   *)
(* of each further thread at most.                                         *)
(* Beside it, of the same run: what Access guarantees for any life of a    *)
(* token and any roles at Keycloak, and what TenantLimiter and             *)
(* StreamLimiter do for any rates, bursts, sweeps and ends of streams.     *)
(***************************************************************************)
EXTENDS AgentQueue, Access, Sequences, FiniteSetTheorems, WellFoundedInduction, TLAPS

IInv == TableOK /\ CallsOK /\ UploaderOK /\ VictimsEvictable /\ AggressiveForCritical

\* A deletion touches no other row.
LEMMA DeleteRows ==
    ASSUME NEW t, NEW S
    PROVE  /\ DOMAIN Delete(t, S) = DOMAIN t \ S
           /\ \A i \in DOMAIN t \ S : Delete(t, S)[i] = t[i]
BY DEF Delete, Restrict

\* An eviction pass takes pending rows of its levels only.
LEMMA VictimsOfLevels ==
    ASSUME NEW t, NEW levels, NEW target, NEW i \in Victims(t, levels, target)
    PROVE  i \in DOMAIN t /\ t[i].status = "pending" /\ t[i].prio \in levels
BY DEF Victims, Pending

LEMMA InitIInv == Init => IInv
<1> SUFFICES ASSUME Init PROVE IInv
  OBVIOUS
<1>1. TableOK
  BY DEF Init, TableOK, NoRows, Ids, Row
<1>2. CallsOK
  BY DEF Init, CallsOK, NoEvent, Event, NoScan, Scan, Ids, Priority, Low, Normal
<1>3. UploaderOK
  BY DEF Init, UploaderOK, Ids
<1>4. VictimsEvictable /\ AggressiveForCritical
  BY DEF Init, VictimsEvictable, AggressiveForCritical, NoRows, NoScan
<1> QED BY <1>1, <1>2, <1>3, <1>4 DEF IInv

\* The statements that only delete rows keep the table and the victims sound.
LEMMA DeleteKeeps ==
    ASSUME IInv, NEW S, rows' = Delete(rows, S), nextId' = nextId
    PROVE  /\ TableOK'
           /\ \A p \in Producers : \A v \in scan[p].victims :
                v.id \in DOMAIN rows' => rows'[v.id].prio \in {Low, Normal}
<1>1. DOMAIN rows' = DOMAIN rows \ S /\ \A i \in DOMAIN rows' : rows'[i] = rows[i]
  BY DEF Delete, Restrict
<1>2. rows' \in [DOMAIN rows' -> Row]
  BY <1>1 DEF IInv, TableOK, Delete, Restrict
<1>3. TableOK'
  BY <1>1, <1>2 DEF IInv, TableOK, Ids
<1> QED BY <1>1, <1>3 DEF IInv, VictimsEvictable

\* The statements that only rewrite the status and batch of rows do too.
LEMMA RewriteKeeps ==
    ASSUME IInv, NEW S, NEW st \in Status, NEW b \in Nat, nextId' = nextId,
           rows' = [i \in DOMAIN rows |->
                      IF i \in S THEN [rows[i] EXCEPT !.status = st, !.batch = b] ELSE rows[i]]
    PROVE  /\ TableOK'
           /\ \A p \in Producers : \A v \in scan[p].victims :
                v.id \in DOMAIN rows' => rows'[v.id].prio \in {Low, Normal}
<1>1. \A i \in DOMAIN rows : rows[i] \in Row
  BY DEF IInv, TableOK
<1>2. DOMAIN rows' = DOMAIN rows /\ \A i \in DOMAIN rows : rows'[i] \in Row /\ rows'[i].prio = rows[i].prio
  BY <1>1 DEF Row
<1>3. rows' \in [DOMAIN rows' -> Row]
  BY <1>2
<1>4. TableOK'
  BY <1>2, <1>3 DEF IInv, TableOK, Ids
<1> QED BY <1>2, <1>4 DEF IInv, VictimsEvictable

\* What a returning call leaves behind.
LEMMA ReturnKeeps ==
    ASSUME IInv, NEW p \in Producers, Return(p), Ids \subseteq Ids'
    PROVE  /\ CallsOK'
           /\ \A q \in Producers : scan'[q].victims \subseteq scan[q].victims
           /\ \A q \in Producers : pc'[q] = "evict_all" => pc[q] = "evict_all" /\ job'[q] = job[q]
<1>1. NoEvent \in Event /\ NoScan \in Scan'
  BY DEF NoEvent, Event, NoScan, Scan, Priority, Low, Normal
<1>2. CallsOK'
  BY <1>1 DEF IInv, CallsOK, Return, Scan
<1> QED BY <1>2 DEF IInv, CallsOK, Return, NoScan

\* A call goes on from its eviction, its count or its check.
LEMMA StageKeeps ==
    ASSUME IInv, NEW p \in Producers, job' = job, scan' = scan, nextId' = nextId, NEW n,
           n \in {"insert", "stats", "recheck", "refuse", "count_ln", "count_all", "count_floor"},
           pc' = [pc EXCEPT ![p] = n]
    PROVE  CallsOK' /\ AggressiveForCritical'
BY DEF IInv, CallsOK, AggressiveForCritical, Ids, Scan

\* The transactions of enqueue_with_pressure.
LEMMA PressureKeeps ==
    ASSUME IInv, NEW p \in Producers,
           \/ EvictLowAndNormal(p) \/ CheckHardLimit(p) \/ EvictAll(p)
           \/ CountEvicted(p) \/ RecheckHardLimit(p) \/ Refuse(p)
    PROVE  IInv'
<1> USE DEF callerVars
<1>1. ASSUME EvictLowAndNormal(p) \/ EvictAll(p) PROVE IInv'
  <2>1. PICK victims : rows' = Delete(rows, victims)
    BY <1>1 DEF EvictLowAndNormal, EvictAll, EvictTx
  <2>2. nextId' = nextId /\ scan' = scan /\ job' = job /\ UNCHANGED callerVars
    BY <1>1 DEF EvictLowAndNormal, EvictAll
  <2>3. TableOK' /\ VictimsEvictable'
    BY <2>1, <2>2, DeleteKeeps DEF VictimsEvictable
  <2>4. \E n \in {"stats", "recheck", "refuse", "count_ln", "count_all", "count_floor"} : pc' = [pc EXCEPT ![p] = n]
    BY <1>1, Zenon DEF EvictLowAndNormal, EvictAll, Counting, AfterCount
  <2>5. UploaderOK'
    BY <2>2 DEF IInv, UploaderOK, Ids
  <2> QED BY <2>2, <2>3, <2>4, <2>5, StageKeeps DEF IInv
<1>2. CASE CheckHardLimit(p)
  <2>1. TableOK' /\ UploaderOK'
    BY <1>2 DEF CheckHardLimit, IInv, TableOK, UploaderOK, Ids
  <2>2. CASE Return(p)
    BY <1>2, <2>1, <2>2, ReturnKeeps DEF CheckHardLimit, IInv, VictimsEvictable, AggressiveForCritical, Ids
  <2>3. CASE ~Return(p)
    BY <1>2, <2>1, <2>3 DEF CheckHardLimit, IInv, CallsOK, VictimsEvictable, AggressiveForCritical, Ids, Scan
  <2> QED BY <2>2, <2>3
<1>3. ASSUME CountEvicted(p) \/ RecheckHardLimit(p) PROVE IInv'
  <2>1. rows' = rows /\ nextId' = nextId /\ scan' = scan /\ job' = job /\ UNCHANGED callerVars
    BY <1>3 DEF CountEvicted, RecheckHardLimit
  <2>2. \E n \in {"insert", "stats", "recheck", "refuse", "count_ln", "count_all", "count_floor"} : pc' = [pc EXCEPT ![p] = n]
    <3>1. CASE CountEvicted(p)
      <4>1. pc[p] \in {"count_ln", "count_all", "count_floor"} /\ AfterCount[pc[p]] \in {"stats", "recheck", "refuse"}
        BY <3>1 DEF CountEvicted, AfterCount
      <4>2. pc' = [pc EXCEPT ![p] = pc[p]] \/ pc' = [pc EXCEPT ![p] = AfterCount[pc[p]]]
        BY <3>1 DEF CountEvicted
      <4> QED BY <4>1, <4>2
    <3>2. CASE RecheckHardLimit(p)
      BY <3>2, Zenon DEF RecheckHardLimit
    <3> QED BY <1>3, <3>1, <3>2
  <2>3. TableOK' /\ UploaderOK' /\ VictimsEvictable'
    BY <2>1 DEF IInv, TableOK, UploaderOK, VictimsEvictable, Ids
  <2> QED BY <2>1, <2>2, <2>3, StageKeeps DEF IInv
<1>4. CASE Refuse(p)
  <2>1. TableOK' /\ UploaderOK'
    BY <1>4 DEF Refuse, IInv, TableOK, UploaderOK, Ids
  <2> QED BY <1>4, <2>1, ReturnKeeps DEF Refuse, IInv, VictimsEvictable, AggressiveForCritical, Ids
<1> QED BY <1>1, <1>2, <1>3, <1>4

\* The start of either enqueue.
LEMMA StartKeeps ==
    ASSUME IInv, NEW p \in Producers, NEW e \in Events,
           Enqueue(p, e) \/ EnqueueWithPressure(p, e)
    PROVE  IInv'
<1> USE DEF callerVars
<1>1. e \in Event
  BY PriosAssumption, SizesAssumption DEF Events, Event
<1>2. TableOK' /\ UploaderOK' /\ VictimsEvictable'
  BY DEF Enqueue, EnqueueWithPressure, IInv, TableOK, UploaderOK, VictimsEvictable, Ids
<1>3. pc[p] = "idle" /\ job' = [job EXCEPT ![p] = e] /\ scan' = scan /\ nextId' = nextId
  BY DEF Enqueue, EnqueueWithPressure, Start
<1>4. \E n \in {"select", "insert", "evict_ln", "stats"} : pc' = [pc EXCEPT ![p] = n]
  BY Zenon DEF Enqueue, EnqueueWithPressure, Start
<1>5. CallsOK'
  BY <1>1, <1>3, <1>4 DEF IInv, CallsOK, Ids, Scan
<1>6. AggressiveForCritical'
  BY <1>3, <1>4 DEF IInv, CallsOK, AggressiveForCritical
<1> QED BY <1>2, <1>5, <1>6 DEF IInv

\* The SELECT and DELETE of evict_inner.
LEMMA LegacyEvictKeeps ==
    ASSUME IInv, NEW p \in Producers, EvictSelect(p) \/ EvictDelete(p)
    PROVE  IInv'
<1> USE DEF callerVars
<1>1. CASE EvictSelect(p)
  <2> DEFINE oldest == {i \in {k \in Pending(rows) : rows[k].prio = scan[p].level} :
                 Cardinality({j \in {k \in Pending(rows) : rows[k].prio = scan[p].level} : j < i}) < EvictChunk}
             chosen == {[id |-> i, size |-> rows[i].size] : i \in oldest}
             level  == IF oldest = {} THEN Normal ELSE scan[p].level
  <2>1. TableOK' /\ UploaderOK'
    BY <1>1 DEF EvictSelect, IInv, TableOK, UploaderOK, Ids
  <2>2. /\ scan' = [scan EXCEPT ![p].victims = chosen, ![p].level = level]
        /\ rows' = rows /\ nextId' = nextId /\ job' = job
    BY <1>1 DEF EvictSelect
  <2>3. \A v \in chosen : /\ v \in [id : Ids, size : Nat]
                          /\ rows[v.id].prio = scan[p].level
    <3>1. \A i \in oldest : i \in DOMAIN rows /\ rows[i].prio = scan[p].level
      BY DEF Pending
    <3>2. \A i \in DOMAIN rows : i \in Ids /\ rows[i].size \in Nat
      BY DEF IInv, TableOK, Row
    <3> HIDE DEF oldest
    <3> QED BY <3>1, <3>2
  <2>4. scan[p].level \in {Low, Normal} /\ level \in {Low, Normal}
    BY DEF IInv, CallsOK, Scan
  <2>5. \E n \in {"select", "delete", "insert"} : pc' = [pc EXCEPT ![p] = n]
    BY <1>1, Zenon DEF EvictSelect
  <2> HIDE DEF chosen, level, oldest
  <2>6. scan' \in [Producers -> Scan']
    <3>1. chosen \in SUBSET [id : Ids, size : Nat] /\ Scan' = Scan
      BY <2>2, <2>3 DEF Scan, Ids
    <3>2. [scan[p] EXCEPT !.victims = chosen, !.level = level] \in Scan
      BY <2>4, <3>1 DEF IInv, CallsOK, Scan
    <3>3. scan' = [scan EXCEPT ![p] = [scan[p] EXCEPT !.victims = chosen, !.level = level]]
      BY <2>2 DEF IInv, CallsOK, Scan
    <3> QED BY <3>1, <3>2, <3>3 DEF IInv, CallsOK
  <2>7. CallsOK'
    BY <2>2, <2>5, <2>6 DEF IInv, CallsOK
  <2>8. VictimsEvictable'
    BY <2>2, <2>3, <2>4 DEF IInv, CallsOK, VictimsEvictable
  <2>9. AggressiveForCritical'
    BY <2>2, <2>5 DEF IInv, CallsOK, AggressiveForCritical
  <2> QED BY <2>1, <2>7, <2>8, <2>9 DEF IInv
<1>2. CASE EvictDelete(p)
  <2>1. PICK v \in scan[p].victims, f \in {TRUE, FALSE} :
            /\ rows' = Delete(rows, {v.id})
            /\ scan' = [scan EXCEPT ![p].freed = scan[p].freed + v.size,
                                    ![p].victims = scan[p].victims \ {v},
                                    ![p].level = IF f THEN Normal ELSE @]
            /\ nextId' = nextId /\ job' = job
    BY <1>2 DEF EvictDelete
  <2>2. \E n \in {"select", "delete", "insert"} : pc' = [pc EXCEPT ![p] = n]
    BY <1>2, Zenon DEF EvictDelete
  <2>3. TableOK' /\ \A q \in Producers : \A w \in scan[q].victims :
            w.id \in DOMAIN rows' => rows'[w.id].prio \in {Low, Normal}
    BY <2>1, DeleteKeeps
  <2>4. scan' \in [Producers -> Scan']
    BY <2>1 DEF IInv, CallsOK, Scan, Ids
  <2>5. CallsOK' /\ AggressiveForCritical'
    BY <2>1, <2>2, <2>4 DEF IInv, CallsOK, AggressiveForCritical
  <2>6. VictimsEvictable'
    <3>1. \A q \in Producers : scan'[q].victims \subseteq scan[q].victims
      BY <2>1 DEF IInv, CallsOK, Scan
    <3> QED BY <2>3, <3>1 DEF VictimsEvictable
  <2>7. UploaderOK'
    BY <1>2 DEF EvictDelete, IInv, UploaderOK, Ids
  <2> QED BY <2>3, <2>5, <2>6, <2>7 DEF IInv
<1> QED BY <1>1, <1>2

\* The INSERT takes an id no victim has.
LEMMA InsertKeeps ==
    ASSUME IInv, NEW p \in Producers, InsertEvent(p)
    PROVE  IInv'
<1> USE DEF callerVars
<1>1. job[p].prio \in Priority /\ job[p].size \in Nat
  BY DEF IInv, CallsOK, Event
<1>2. /\ DOMAIN rows' = DOMAIN rows \cup {nextId}
      /\ \A i \in DOMAIN rows : i # nextId => rows'[i] = rows[i]
      /\ rows'[nextId] \in Row
  BY <1>1 DEF InsertEvent, Insert, Row, Status
<1>3. nextId \notin Ids /\ Ids' = Ids \cup {nextId} /\ nextId' \in Nat \ {0}
  BY DEF InsertEvent, IInv, TableOK, Ids
<1>4. rows' \in [DOMAIN rows' -> Row]
  BY <1>2 DEF IInv, TableOK, InsertEvent, Insert
<1>5. TableOK'
  BY <1>2, <1>3, <1>4 DEF IInv, TableOK
<1>6. /\ CallsOK'
      /\ \A q \in Producers : scan'[q].victims \subseteq scan[q].victims
      /\ \A q \in Producers : pc'[q] = "evict_all" => pc[q] = "evict_all" /\ job'[q] = job[q]
  BY <1>3, ReturnKeeps DEF InsertEvent
<1>7. \A q \in Producers : \A v \in scan[q].victims : v.id \in Ids
  BY DEF IInv, CallsOK, Scan
<1>8. VictimsEvictable'
  BY <1>2, <1>3, <1>6, <1>7 DEF IInv, VictimsEvictable
<1>9. AggressiveForCritical'
  BY <1>6 DEF IInv, AggressiveForCritical
<1>10. UploaderOK'
  BY <1>3 DEF InsertEvent, IInv, UploaderOK
<1> QED BY <1>5, <1>6, <1>8, <1>9, <1>10 DEF IInv

\* The uploader's calls delete acked rows or rewrite status and batch.
LEMMA UploaderKeeps ==
    ASSUME IInv, Uploader
    PROVE  IInv'
<1> USE DEF enqueueVars
<1>1. CASE DequeueSelect
  <2>1. NextPending(rows, BatchMax) \subseteq Ids
    BY DEF NextPending, Pending, IInv, TableOK
  <2> QED BY <1>1, <2>1 DEF DequeueSelect, IInv, TableOK, CallsOK, UploaderOK, VictimsEvictable,
                            AggressiveForCritical, Ids, Scan
<1>2. CASE DequeueEmpty
  BY <1>2 DEF DequeueEmpty, vars, callerVars, IInv, TableOK, CallsOK, UploaderOK, VictimsEvictable,
              AggressiveForCritical, Ids, Scan
<1>3. CASE DequeueUpdate
  <2>1. up.batch \in Nat
    BY DEF IInv, UploaderOK
  <2>2. TableOK' /\ VictimsEvictable'
    BY <1>3, <2>1, RewriteKeeps DEF DequeueUpdate, MarkInFlight, Status, VictimsEvictable
  <2>3. UploaderOK'
    BY <1>3 DEF DequeueUpdate, IInv, UploaderOK, Ids
  <2>4. CallsOK' /\ AggressiveForCritical'
    BY <1>3 DEF DequeueUpdate, IInv, CallsOK, AggressiveForCritical, Ids, Scan
  <2> QED BY <2>2, <2>3, <2>4 DEF IInv
<1>4. CASE DequeueFetch
  <2>1. up.batch \in 1 .. up.batch /\ up' = [up EXCEPT !.pc = "idle", !.ids = {}]
    BY <1>4 DEF DequeueFetch, IInv, UploaderOK
  <2>2. up' \in [pc : {"idle", "update", "fetch"}, ids : SUBSET Ids', batch : Nat] /\ up'.batch = up.batch
    BY <1>4, <2>1 DEF DequeueFetch, IInv, UploaderOK, Ids
  <2>3. UploaderOK'
    BY <1>4, <2>1, <2>2 DEF DequeueFetch, IInv, UploaderOK
  <2> QED BY <1>4, <2>3 DEF DequeueFetch, IInv, TableOK, CallsOK, VictimsEvictable,
                            AggressiveForCritical, Ids, Scan
<1>5. CASE DequeueFails
  BY <1>5 DEF DequeueFails, IInv, TableOK, CallsOK, UploaderOK, VictimsEvictable,
              AggressiveForCritical, Ids, Scan
<1>6. ASSUME NEW b \in held, Ack(b) PROVE IInv'
  <2>1. TableOK' /\ VictimsEvictable'
    BY <1>6, DeleteKeeps DEF Ack, AckBatch, VictimsEvictable
  <2> QED BY <1>6, <2>1 DEF Ack, IInv, CallsOK, UploaderOK, AggressiveForCritical, Ids, Scan
<1>7. ASSUME NEW b \in held, Nack(b) PROVE IInv'
  <2>1. TableOK' /\ VictimsEvictable'
    BY <1>7, RewriteKeeps DEF Nack, NackBatch, Status, VictimsEvictable
  <2> QED BY <1>7, <2>1 DEF Nack, IInv, CallsOK, UploaderOK, AggressiveForCritical, Ids, Scan
<1> QED BY <1>1, <1>2, <1>3, <1>4, <1>5, <1>6, <1>7 DEF Uploader

LEMMA NextIInv == IInv /\ [Next]_vars => IInv'
<1> SUFFICES ASSUME IInv, [Next]_vars PROVE IInv'
  OBVIOUS
<1>1. CASE LegacyEnqueue
  BY <1>1, StartKeeps, LegacyEvictKeeps, InsertKeeps DEF LegacyEnqueue
<1>2. CASE PressureEnqueue
  BY <1>2, StartKeeps, PressureKeeps, InsertKeeps DEF PressureEnqueue
<1>3. CASE Uploader
  BY <1>3, UploaderKeeps
<1>4. CASE Vacuum \/ UNCHANGED vars
  BY <1>4 DEF Vacuum, vars, enqueueVars, callerVars, IInv, TableOK, CallsOK, UploaderOK,
              VictimsEvictable, AggressiveForCritical, Ids, Scan
<1> QED BY <1>1, <1>2, <1>3, <1>4 DEF Next

LEMMA InvariantIInv == Spec => []IInv
BY InitIInv, NextIInv, PTL DEF Spec

-----------------------------------------------------------------------------
(* Who takes a row out of the table *)

EvictedBelowHigh(i) ==
    rows[i].status = "pending" /\ rows[i].prio \in {Low, Normal}
EvictedForCritical(i) ==
    /\ rows[i].status = "pending"
    /\ rows[i].prio \in {Low, Normal, High}
    /\ \E p \in Producers : pc[p] = "evict_all" /\ pc'[p] # pc[p]

\* The steps that change the table.
LEMMA RowsSteps ==
    ASSUME [Next]_vars
    PROVE  \/ rows' = rows
           \/ \E p \in Producers : EvictDelete(p) \/ InsertEvent(p) \/ EvictLowAndNormal(p) \/ EvictAll(p)
           \/ \E b \in held : Ack(b) \/ Nack(b)
           \/ DequeueUpdate
BY DEF Next, vars, LegacyEnqueue, PressureEnqueue, Uploader, Vacuum, Enqueue, EvictSelect,
       EnqueueWithPressure, CheckHardLimit, RecheckHardLimit, CountEvicted, Refuse, DequeueSelect, DequeueEmpty,
       DequeueFetch, DequeueFails

LEMMA DeleteIsById ==
    ASSUME IInv, NEW p \in Producers, EvictDelete(p), NEW i, Gone(i)
    PROVE  DeletedById(i)
<1>1. PICK v \in scan[p].victims :
        rows' = Delete(rows, {v.id}) /\ scan'[p].victims = scan[p].victims \ {v}
  BY DEF EvictDelete, IInv, CallsOK, Scan
<1> QED BY <1>1 DEF Delete, Restrict, Gone, DeletedById

\* A row leaves by one of three ways, and the last one moves a call that is in
\* its aggressive eviction.
LEMMA WhoRemoves ==
    ASSUME IInv, [Next]_vars, NEW i \in DOMAIN rows, Gone(i)
    PROVE  AckedNow(i) \/ DeletedById(i) \/ EvictedBelowHigh(i) \/ EvictedForCritical(i)
<1>1. ASSUME NEW p \in Producers, EvictDelete(p) PROVE DeletedById(i)
  BY <1>1, DeleteIsById
<1>2. ASSUME NEW p \in Producers, InsertEvent(p) PROVE FALSE
  BY <1>2 DEF InsertEvent, Insert, Gone
<1>3. ASSUME NEW p \in Producers, EvictLowAndNormal(p) PROVE EvictedBelowHigh(i)
  <2>1. i \in Victims(rows, {Low, Normal}, Minus(HighWater, job[p].size))
    BY <1>3 DEF EvictLowAndNormal, EvictTx, Delete, Restrict, Gone
  <2> QED BY <2>1, VictimsOfLevels DEF EvictedBelowHigh
<1>4. ASSUME NEW p \in Producers, EvictAll(p) PROVE EvictedForCritical(i)
  <2>1. i \in Victims(rows, {Low, Normal, High}, Minus(HardLimit, job[p].size))
    BY <1>4 DEF EvictAll, EvictTx, Delete, Restrict, Gone
  <2>2. pc[p] = "evict_all" /\ pc'[p] # pc[p]
    BY <1>4 DEF EvictAll, Counting, AfterCount, IInv, CallsOK
  <2> QED BY <2>1, <2>2, VictimsOfLevels DEF EvictedForCritical
<1>5. ASSUME NEW b \in held, Ack(b) PROVE AckedNow(i)
  BY <1>5 DEF Ack, AckBatch, BatchRows, Delete, Restrict, Gone, AckedNow
<1>6. ASSUME NEW b \in held, Nack(b) PROVE FALSE
  BY <1>6 DEF Nack, NackBatch, Gone
<1>7. CASE DequeueUpdate
  BY <1>7 DEF DequeueUpdate, MarkInFlight, Gone
<1>8. CASE rows' = rows
  BY <1>8 DEF Gone
<1> QED BY <1>1, <1>2, <1>3, <1>4, <1>5, <1>6, <1>7, <1>8, RowsSteps

\* KVKK promise of queue.rs: no interleaving of enqueues, evictions, dequeues,
\* acks and nacks removes a Critical row except the ack of its batch.
THEOREM CriticalSafe == Spec => CriticalLeavesByAck
<1>1. ASSUME IInv, [Next]_vars
      PROVE  [\A i \in DOMAIN rows : Gone(i) /\ rows[i].prio = Critical => AckedNow(i)]_vars
  <2>1. SUFFICES ASSUME NEW i \in DOMAIN rows, Gone(i), rows[i].prio = Critical
                 PROVE  AckedNow(i)
    OBVIOUS
  <2>2. ~DeletedById(i)
    BY <1>1, <2>1 DEF DeletedById, IInv, VictimsEvictable, Low, Normal, Critical
  <2>3. ~EvictedBelowHigh(i) /\ ~EvictedForCritical(i)
    BY <2>1 DEF EvictedBelowHigh, EvictedForCritical, Low, Normal, High, Critical
  <2> QED BY <1>1, <2>1, <2>2, <2>3, WhoRemoves
<1> QED BY <1>1, InvariantIInv, PTL DEF Spec, CriticalLeavesByAck

\* A High row is evicted only by the aggressive pass of a Critical event: the
\* high-water pass and evict_inner never take one.
THEOREM HighSafe == Spec => HighYieldsToCriticalOnly
<1> DEFINE Step == \A i \in DOMAIN rows : Gone(i) /\ rows[i].prio = High /\ ~AckedNow(i) =>
              \E p \in Producers : pc[p] = "evict_all" /\ pc'[p] # pc[p] /\ job[p].prio = Critical
<1>1. ASSUME IInv, [Next]_vars PROVE [Step]_vars
  <2>1. SUFFICES ASSUME NEW i \in DOMAIN rows, Gone(i), rows[i].prio = High, ~AckedNow(i)
                 PROVE  \E p \in Producers :
                            pc[p] = "evict_all" /\ pc'[p] # pc[p] /\ job[p].prio = Critical
    OBVIOUS
  <2>2. ~DeletedById(i)
    BY <2>1, <1>1 DEF DeletedById, IInv, VictimsEvictable, Low, Normal, High
  <2>3. ~EvictedBelowHigh(i)
    BY <2>1 DEF EvictedBelowHigh, Low, Normal, High
  <2>4. EvictedForCritical(i)
    BY <1>1, <2>1, <2>2, <2>3, WhoRemoves
  <2> QED BY <1>1, <2>4 DEF EvictedForCritical, IInv, AggressiveForCritical
<1> QED BY <1>1, InvariantIInv, PTL DEF Spec, HighYieldsToCriticalOnly

\* The transactions of enqueue_with_pressure evict pending rows only; a row that
\* is in flight falls to evict_inner alone, whose SELECT and DELETE are apart.
THEOREM EvictsPendingOnly == Spec => InFlightLeavesByAck
<1> DEFINE Step == \A i \in DOMAIN rows :
              Gone(i) /\ rows[i].status = "in_flight" => AckedNow(i) \/ DeletedById(i)
<1>1. ASSUME IInv, [Next]_vars PROVE [Step]_vars
  <2>1. SUFFICES ASSUME NEW i \in DOMAIN rows, Gone(i), rows[i].status = "in_flight"
                 PROVE  AckedNow(i) \/ DeletedById(i)
    OBVIOUS
  <2>2. ~EvictedBelowHigh(i) /\ ~EvictedForCritical(i)
    BY <2>1 DEF EvictedBelowHigh, EvictedForCritical
  <2> QED BY <1>1, <2>1, <2>2, WhoRemoves
<1> QED BY <1>1, InvariantIInv, PTL DEF Spec, InFlightLeavesByAck

\* The three together: no interleaving takes a row out of the table but by right
\* (queue.rs, ack_batch and the evictions).
THEOREM LeavesOnlyByRight == Spec => LeavesByRight
BY CriticalSafe, HighSafe, EvictsPendingOnly DEF LeavesByRight
-----------------------------------------------------------------------------
(* Sums.  BytesOf is a fold that takes the elements of a set in an order of *)
(* its own; what it comes to does not depend on the order.                  *)

\* h says what the sizes of every part of S add up to.
Adds(h, t, S) ==
    /\ h \in [SUBSET S -> Nat]
    /\ h[{}] = 0
    /\ \A T \in SUBSET S : \A x \in T : h[T] = t[x].size + h[T \ {x}]

Sized(t, S) == \A x \in S : t[x].size \in Nat

\* A nonempty set of parts of a finite set has a least one.
LEMMA LeastPart ==
    ASSUME NEW S, IsFiniteSet(S), NEW B, B \subseteq SUBSET S, B # {}
    PROVE  \E T \in B : \A x \in T : T \ {x} \notin B
<1>1. IsWellFoundedOn(StrictSubsetOrdering(S), SUBSET S)
  BY FS_StrictSubsetOrderingWellFounded, FS_FiniteSubsetsOfFinite
<1>2. PICK T \in B : \A U \in B : <<U, T>> \notin StrictSubsetOrdering(S)
  BY <1>1, WFMin
<1>3. ASSUME NEW x \in T, T \ {x} \in B PROVE FALSE
  <2>1. <<T \ {x}, T>> \in StrictSubsetOrdering(S)
    BY <1>3 DEF StrictSubsetOrdering
  <2> QED BY <1>2, <1>3, <2>1
<1> QED BY <1>2, <1>3

\* Such an h extends from T \ {y} to T.
LEMMA AddsOneMore ==
    ASSUME NEW t, NEW T, Sized(t, T), NEW y \in T, NEW g, Adds(g, t, T \ {y})
    PROVE  \E h : Adds(h, t, T)
<1> DEFINE h == [U \in SUBSET T |-> IF y \in U THEN t[y].size + g[U \ {y}] ELSE g[U]]
<1>1. \A U \in SUBSET T : U \ {y} \in SUBSET (T \ {y}) /\ (y \notin U => U \ {y} = U)
  OBVIOUS
<1>2. g \in [SUBSET (T \ {y}) -> Nat] /\ t[y].size \in Nat
  BY DEF Adds, Sized
<1>3. \A U \in SUBSET T : h[U] = IF y \in U THEN t[y].size + g[U \ {y}] ELSE g[U]
  OBVIOUS
<1>4. h \in [SUBSET T -> Nat]
  <2>1. \A U \in SUBSET T : (IF y \in U THEN t[y].size + g[U \ {y}] ELSE g[U]) \in Nat
    BY <1>1, <1>2
  <2> QED BY <2>1
<1>5. h[{}] = 0
  BY <1>3 DEF Adds
<1>6. ASSUME NEW U \in SUBSET T, NEW x \in U PROVE h[U] = t[x].size + h[U \ {x}]
  <2> HIDE DEF h
  <2>1. U \ {x} \in SUBSET T /\ t[x].size \in Nat /\ t[y].size \in Nat
    BY DEF Sized
  <2>2. CASE x = y
    BY <1>1, <1>3, <2>1, <2>2
  <2>3. CASE x # y /\ y \in U
    <3>1. /\ U \ {y} \in SUBSET (T \ {y}) /\ x \in U \ {y}
          /\ (U \ {x}) \ {y} = (U \ {y}) \ {x}
      BY <1>1, <2>3
    <3>2. g[U \ {y}] = t[x].size + g[(U \ {y}) \ {x}]
      BY <3>1 DEF Adds
    <3>3. g[(U \ {y}) \ {x}] \in Nat
      BY <1>2, <3>1
    <3>4. h[U] = t[y].size + g[U \ {y}]
      BY <1>3, <2>3
    <3>5. h[U \ {x}] = t[y].size + g[(U \ {y}) \ {x}]
      BY <1>3, <2>1, <2>3, <3>1
    <3> QED BY <2>1, <3>2, <3>3, <3>4, <3>5
  <2>4. CASE y \notin U
    <3>1. U \in SUBSET (T \ {y}) /\ y \notin U \ {x}
      BY <2>4
    <3>2. g[U] = t[x].size + g[U \ {x}]
      BY <3>1 DEF Adds
    <3>3. h[U] = g[U] /\ h[U \ {x}] = g[U \ {x}]
      BY <1>3, <2>1, <3>1, <2>4
    <3> QED BY <3>2, <3>3
  <2> QED BY <2>2, <2>3, <2>4
<1> HIDE DEF h
<1> QED BY <1>4, <1>5, <1>6 DEF Adds

\* Every finite set has one.
LEMMA AddsExists ==
    ASSUME NEW t, NEW S, IsFiniteSet(S), Sized(t, S)
    PROVE  \E h : Adds(h, t, S)
<1> DEFINE B == {T \in SUBSET S : ~ \E h : Adds(h, t, T)}
<1>1. SUFFICES ASSUME B # {} PROVE FALSE
  <2>1. S \in SUBSET S
    OBVIOUS
  <2> QED BY <2>1
<1>2. PICK T \in B : \A x \in T : T \ {x} \notin B
  <2> HIDE DEF B
  <2>1. B \subseteq SUBSET S
    BY DEF B
  <2> QED BY <1>1, <2>1, LeastPart
<1>3. T \in SUBSET S /\ ~ \E h : Adds(h, t, T)
  BY <1>2
<1>4. CASE T = {}
  <2> DEFINE z == [U \in SUBSET {} |-> 0]
  <2>1. Adds(z, t, {})
    BY DEF Adds
  <2> QED BY <1>3, <1>4, <2>1
<1>5. CASE T # {}
  <2>1. PICK y \in T : TRUE
    BY <1>5
  <2>2. T \ {y} \in SUBSET S /\ T \ {y} \notin B
    BY <1>2, <1>3, <2>1
  <2>3. PICK g : Adds(g, t, T \ {y})
    BY <2>2
  <2>4. Sized(t, T)
    BY <1>3 DEF Sized
  <2> QED BY <1>3, <2>1, <2>3, <2>4, AddsOneMore
<1> QED BY <1>4, <1>5

\* The fold of BytesOf, as a function on the parts of S.
Folds(h, t, S) ==
    h = [s \in SUBSET S |-> IF s = {} THEN 0
                            ELSE t[CHOOSE x \in s : TRUE].size + h[s \ {CHOOSE x \in s : TRUE}]]

LEMMA BytesIsFold ==
    ASSUME NEW t, NEW S
    PROVE  BytesOf(t, S) = (CHOOSE h : Folds(h, t, S))[S]
BY DEF BytesOf, MapThenSumSet, MapThenFoldSet, Folds

\* The fold takes some element of each part, so whatever adds up is the fold.
LEMMA AddsIsFold ==
    ASSUME NEW t, NEW S, IsFiniteSet(S), NEW h, Adds(h, t, S), NEW g, Folds(g, t, S)
    PROVE  g = h
<1>1. \A s \in SUBSET S : s # {} => (CHOOSE x \in s : TRUE) \in s
  OBVIOUS
<1>2. DOMAIN g = SUBSET S /\ DOMAIN h = SUBSET S
  BY DEF Folds, Adds
<1>3. \A s \in SUBSET S : g[s] = IF s = {} THEN 0
                            ELSE t[CHOOSE x \in s : TRUE].size + g[s \ {CHOOSE x \in s : TRUE}]
  BY DEF Folds
<1>4. \A s \in SUBSET S : g[s] = h[s]
  <2> DEFINE B == {s \in SUBSET S : g[s] # h[s]}
  <2>1. SUFFICES ASSUME B # {} PROVE FALSE
    OBVIOUS
  <2>2. PICK T \in B : \A x \in T : T \ {x} \notin B
    <3> HIDE DEF B
    <3>1. B \subseteq SUBSET S
      BY DEF B
    <3> QED BY <2>1, <3>1, LeastPart
  <2>3. T \in SUBSET S /\ g[T] # h[T]
    BY <2>2
  <2>4. T # {}
    BY <1>3, <2>3 DEF Adds
  <2>5. PICK x \in T : x = CHOOSE y \in T : TRUE
    BY <1>1, <2>3, <2>4
  <2>6. T \ {x} \in SUBSET S /\ g[T \ {x}] = h[T \ {x}]
    BY <2>2, <2>3
  <2>7. g[T] = t[x].size + g[T \ {x}]
    BY <1>3, <2>3, <2>4, <2>5
  <2>8. h[T] = t[x].size + h[T \ {x}]
    BY <2>3 DEF Adds
  <2> QED BY <2>3, <2>6, <2>7, <2>8
<1>5. g = [s \in SUBSET S |-> g[s]] /\ h = [s \in SUBSET S |-> h[s]]
  BY DEF Folds, Adds
<1> QED BY <1>4, <1>5

LEMMA FoldOfAdds ==
    ASSUME NEW t, NEW S, NEW h, Adds(h, t, S)
    PROVE  Folds(h, t, S)
<1> DEFINE e(s) == IF s = {} THEN 0
                   ELSE t[CHOOSE x \in s : TRUE].size + h[s \ {CHOOSE x \in s : TRUE}]
<1>1. ASSUME NEW s \in SUBSET S PROVE h[s] = e(s)
  <2>1. CASE s = {}
    BY <2>1 DEF Adds
  <2>2. CASE s # {}
    <3>1. PICK x \in s : x = CHOOSE y \in s : TRUE
      BY <2>2
    <3>2. h[s] = t[x].size + h[s \ {x}]
      BY <3>1 DEF Adds
    <3> QED BY <2>2, <3>1, <3>2
  <2> QED BY <2>1, <2>2
<1>2. h = [s \in SUBSET S |-> h[s]]
  BY DEF Adds
<1>3. [s \in SUBSET S |-> h[s]] = [s \in SUBSET S |-> e(s)]
  BY <1>1
<1> QED BY <1>2, <1>3 DEF Folds

LEMMA BytesAdd ==
    ASSUME NEW t, NEW S, IsFiniteSet(S), NEW h, Adds(h, t, S)
    PROVE  BytesOf(t, S) = h[S]
<1>1. Folds(h, t, S)
  BY FoldOfAdds
<1>2. Folds(CHOOSE g : Folds(g, t, S), t, S)
  BY <1>1, Zenon
<1>3. (CHOOSE g : Folds(g, t, S)) = h
  BY <1>2, AddsIsFold
<1> QED BY <1>3, BytesIsFold

\* The parts of a part add up alike.
LEMMA AddsOfPart ==
    ASSUME NEW t, NEW S, NEW h, Adds(h, t, S), NEW T, T \subseteq S, IsFiniteSet(S)
    PROVE  BytesOf(t, T) = h[T]
<1> DEFINE g == [U \in SUBSET T |-> h[U]]
<1>1. \A U \in SUBSET T : U \in SUBSET S /\ g[U] = h[U] /\ \A x \in U : U \ {x} \in SUBSET T
  OBVIOUS
<1>2. g \in [SUBSET T -> Nat]
  <2>1. \A U \in SUBSET T : h[U] \in Nat
    BY <1>1 DEF Adds
  <2> QED BY <2>1
<1>3. Adds(g, t, T)
  <2> HIDE DEF g
  <2> QED BY <1>1, <1>2 DEF Adds
<1>4. IsFiniteSet(T) /\ T \in SUBSET T
  BY FS_Subset
<1> HIDE DEF g
<1> QED BY <1>1, <1>3, <1>4, BytesAdd

\* What a sum is: nothing of nothing, and a row more with each row.
LEMMA BytesOfNone == \A t : BytesOf(t, {}) = 0
<1> TAKE t
<1>1. PICK h : Adds(h, t, {})
  BY FS_EmptySet, AddsExists DEF Sized
<1> QED BY <1>1, BytesAdd, FS_EmptySet DEF Adds

LEMMA BytesOfOneLess ==
    ASSUME NEW t, NEW S, IsFiniteSet(S), Sized(t, S), NEW x \in S
    PROVE  BytesOf(t, S) = t[x].size + BytesOf(t, S \ {x}) /\ BytesOf(t, S \ {x}) \in Nat
<1>1. PICK h : Adds(h, t, S)
  BY AddsExists
<1>2. BytesOf(t, S) = h[S] /\ BytesOf(t, S \ {x}) = h[S \ {x}]
  BY <1>1, AddsOfPart
<1>3. S \in SUBSET S /\ S \ {x} \in SUBSET S
  OBVIOUS
<1> QED BY <1>1, <1>2, <1>3 DEF Adds

LEMMA BytesOfNat ==
    ASSUME NEW t, NEW S, IsFiniteSet(S), Sized(t, S)
    PROVE  BytesOf(t, S) \in Nat
<1>1. PICK h : Adds(h, t, S)
  BY AddsExists
<1>2. BytesOf(t, S) = h[S] /\ S \in SUBSET S
  BY <1>1, AddsOfPart
<1> QED BY <1>1, <1>2 DEF Adds

\* Only the sizes of the rows of S count.
LEMMA BytesOfSame ==
    ASSUME NEW t, NEW u, NEW S, IsFiniteSet(S), Sized(t, S), \A x \in S : u[x].size = t[x].size
    PROVE  BytesOf(u, S) = BytesOf(t, S)
<1>1. PICK h : Adds(h, t, S)
  BY AddsExists
<1>2. Adds(h, u, S)
  BY <1>1 DEF Adds
<1> QED BY <1>1, <1>2, BytesAdd

\* The bytes of a part and of the rest are those of the whole.
LEMMA BytesOfParts ==
    ASSUME NEW t, NEW S, IsFiniteSet(S), Sized(t, S)
    PROVE  \A T \in SUBSET S :
               /\ BytesOf(t, T) \in Nat /\ BytesOf(t, S \ T) \in Nat
               /\ BytesOf(t, S) = BytesOf(t, T) + BytesOf(t, S \ T)
<1> TAKE T \in SUBSET S
<1>1. PICK h : Adds(h, t, S)
  BY AddsExists
<1>2. /\ BytesOf(t, T) = h[T] /\ BytesOf(t, S \ T) = h[S \ T] /\ BytesOf(t, S) = h[S]
      /\ h[T] \in Nat /\ h[S \ T] \in Nat
  <2>1. T \in SUBSET S /\ S \ T \in SUBSET S /\ S \in SUBSET S
    OBVIOUS
  <2>2. BytesOf(t, T) = h[T] /\ BytesOf(t, S \ T) = h[S \ T] /\ BytesOf(t, S) = h[S]
    BY <1>1, <2>1, AddsOfPart
  <2> QED BY <1>1, <2>1, <2>2 DEF Adds
<1> DEFINE B == {U \in SUBSET S : h[S] # h[U] + h[S \ U]}
<1>3. SUFFICES ASSUME B # {} PROVE FALSE
  <2>1. T \in SUBSET S
    OBVIOUS
  <2> QED BY <1>2, <2>1
<1>4. PICK U \in B : \A x \in U : U \ {x} \notin B
  <2> HIDE DEF B
  <2>1. B \subseteq SUBSET S
    BY DEF B
  <2> QED BY <1>3, <2>1, LeastPart
<1>5. U \in SUBSET S /\ h[S] # h[U] + h[S \ U]
  BY <1>4
<1>6. U # {}
  <2>1. S \ {} = S /\ S \in SUBSET S
    OBVIOUS
  <2>2. h[S] \in Nat /\ h[{}] = 0
    BY <1>1, <2>1 DEF Adds
  <2>3. h[S] = h[{}] + h[S \ {}]
    BY <2>1, <2>2
  <2> QED BY <1>5, <2>3
<1>7. PICK x \in U : h[S] = h[U \ {x}] + h[S \ (U \ {x})]
  <2>1. PICK x \in U : TRUE
    BY <1>6
  <2> QED BY <1>4, <1>5, <2>1
<1>8. /\ S \ (U \ {x}) \in SUBSET S /\ x \in S \ (U \ {x}) /\ (S \ (U \ {x})) \ {x} = S \ U
      /\ U \ {x} \in SUBSET S /\ S \ U \in SUBSET S
  BY <1>5
<1>9. h[S \ (U \ {x})] = t[x].size + h[S \ U] /\ h[U] = t[x].size + h[U \ {x}]
  <2> DEFINE W == S \ (U \ {x})
  <2>1. W \in SUBSET S /\ x \in W /\ W \ {x} = S \ U
    BY <1>8
  <2> HIDE DEF W
  <2>2. h[W] = t[x].size + h[W \ {x}]
    BY <1>1, <2>1 DEF Adds
  <2>3. h[U] = t[x].size + h[U \ {x}]
    BY <1>1, <1>5 DEF Adds
  <2> QED BY <2>1, <2>2, <2>3 DEF W
<1>10. t[x].size \in Nat /\ h[S \ U] \in Nat /\ h[U \ {x}] \in Nat
  BY <1>1, <1>5, <1>8 DEF Adds, Sized
<1> QED BY <1>5, <1>7, <1>9, <1>10

\* No row is larger than M, so no set of rows is larger than M times their number.
LEMMA BytesOfBound ==
    ASSUME NEW t, NEW S, IsFiniteSet(S), Sized(t, S), NEW M \in Nat, \A x \in S : t[x].size <= M
    PROVE  BytesOf(t, S) <= Cardinality(S) * M
<1>1. PICK h : Adds(h, t, S)
  BY AddsExists
<1> DEFINE B == {U \in SUBSET S : ~(h[U] <= Cardinality(U) * M)}
<1>2. SUFFICES ASSUME B # {} PROVE FALSE
  <2>1. S \in SUBSET S
    OBVIOUS
  <2> QED BY <1>1, <2>1, AddsOfPart
<1>3. PICK U \in B : \A x \in U : U \ {x} \notin B
  <2> HIDE DEF B
  <2>1. B \subseteq SUBSET S
    BY DEF B
  <2> QED BY <1>2, <2>1, LeastPart
<1>4. U \in SUBSET S /\ ~(h[U] <= Cardinality(U) * M)
  BY <1>3
<1>5. U # {}
  <2>1. h[{}] = 0 /\ Cardinality({}) = 0 /\ 0 * M = 0
    BY <1>1, FS_EmptySet DEF Adds
  <2>2. h[{}] <= Cardinality({}) * M
    BY <2>1
  <2> QED BY <1>4, <2>2
<1>6. PICK x \in U : h[U \ {x}] <= Cardinality(U \ {x}) * M
  <2>1. PICK x \in U : TRUE
    BY <1>5
  <2> QED BY <1>3, <1>4, <2>1
<1>7. h[U] = t[x].size + h[U \ {x}] /\ h[U \ {x}] \in Nat /\ t[x].size \in Nat /\ t[x].size <= M
  BY <1>1, <1>4 DEF Adds, Sized
<1>8. /\ Cardinality(U \ {x}) \in Nat /\ Cardinality(U) = Cardinality(U \ {x}) + 1
  <2>1. IsFiniteSet(U)
    BY <1>4, FS_Subset
  <2>2. IsFiniteSet(U \ {x}) /\ Cardinality(U \ {x}) = Cardinality(U) - 1
    BY <2>1, FS_RemoveElement
  <2>3. Cardinality(U \ {x}) \in Nat /\ Cardinality(U) \in Nat
    BY <2>1, <2>2, FS_CardinalityType
  <2> QED BY <2>2, <2>3
<1>9. \A n \in Nat : (n + 1) * M = n * M + M /\ n * M \in Nat
  OBVIOUS
<1>10. Cardinality(U) * M = Cardinality(U \ {x}) * M + M /\ Cardinality(U \ {x}) * M \in Nat
  BY <1>8, <1>9
<1> QED BY <1>4, <1>6, <1>7, <1>10

\* Neither acked nor deleted by id, a pending row goes in an eviction transaction.
LEMMA WhoEvicts ==
    ASSUME IInv, [Next]_vars, NEW i \in DOMAIN rows, Gone(i), ~DeletedById(i), rows[i].status = "pending"
    PROVE  \E p \in Producers : EvictLowAndNormal(p) \/ EvictAll(p)
<1>1. ASSUME NEW p \in Producers, EvictDelete(p) PROVE DeletedById(i)
  BY <1>1, DeleteIsById
<1>2. ASSUME NEW p \in Producers, InsertEvent(p) PROVE FALSE
  BY <1>2 DEF InsertEvent, Insert, Gone
<1>3. ASSUME NEW b \in held, Ack(b) PROVE FALSE
  BY <1>3 DEF Ack, AckBatch, BatchRows, Delete, Restrict, Gone
<1>4. ASSUME NEW b \in held, Nack(b) PROVE FALSE
  BY <1>4 DEF Nack, NackBatch, Gone
<1>5. ~DequeueUpdate
  BY DEF DequeueUpdate, MarkInFlight, Gone
<1>6. rows' # rows
  BY DEF Gone
<1> QED BY <1>1, <1>2, <1>3, <1>4, <1>5, <1>6, RowsSteps

-----------------------------------------------------------------------------
(* The order of eviction *)

\* The table is finite, and its rows have sizes and ids that can be compared.
LEMMA RowsAre ==
    ASSUME IInv
    PROVE  /\ IsFiniteSet(DOMAIN rows) /\ Sized(rows, DOMAIN rows) /\ DOMAIN rows \subseteq Nat
           /\ \A i \in DOMAIN rows : rows[i].prio \in {0, 1, 2, 3} /\ rows[i].size \in Nat
<1>1. IsFiniteSet(Ids)
  BY FS_Interval DEF IInv, TableOK, Ids
<1>2. IsFiniteSet(DOMAIN rows)
  BY <1>1, FS_Subset DEF IInv, TableOK
<1>3. DOMAIN rows \subseteq Nat
  BY DEF IInv, TableOK, Ids
<1>4. \A i \in DOMAIN rows : rows[i].prio \in {0, 1, 2, 3} /\ rows[i].size \in Nat
  BY DEF IInv, TableOK, Row, Priority, Critical, High, Normal, Low
<1> QED BY <1>2, <1>3, <1>4 DEF Sized

\* A pass takes the rows of its levels in their order, and its last one only
\* because the mark was not reached without it.
LEMMA PassInOrder ==
    ASSUME IInv, NEW levels, NEW target \in Nat,
           \A a \in levels, b \in {0, 1, 2, 3} : b >= a => b \in levels,
           rows' = Delete(rows, Victims(rows, levels, target)),
           NEW i \in Pending(rows), Gone(i)
    PROVE  /\ \A j \in Pending(rows) : EvictBefore(rows, j, i) => Gone(j)
           /\ \/ \E j \in Pending(rows) : Gone(j) /\ EvictBefore(rows, i, j)
              \/ PendingBytes(rows') + rows[i].size > target
<1> DEFINE P == Pending(rows)
           C == {k \in P : rows[k].prio \in levels}
           Bf(j) == {k \in C : EvictBefore(rows, k, j)}
           V == Victims(rows, levels, target)
<1>1. /\ IsFiniteSet(DOMAIN rows) /\ P \subseteq DOMAIN rows /\ P \subseteq Nat
      /\ \A k \in P : rows[k].prio \in {0, 1, 2, 3} /\ rows[k].size \in Nat
  BY RowsAre DEF Pending
<1>2. \A T \in SUBSET P : IsFiniteSet(T) /\ Sized(rows, T)
  BY <1>1, FS_Subset DEF Sized
<1>3. V = {j \in C : BytesOf(rows, P) > target + BytesOf(rows, Bf(j))}
  BY DEF Victims, PendingBytes
<1>4. DOMAIN rows' = DOMAIN rows \ V /\ \A k \in DOMAIN rows' : rows'[k] = rows[k]
  <2>1. rows' = Delete(rows, V)
    OBVIOUS
  <2> HIDE DEF V
  <2> QED BY <2>1 DEF Delete, Restrict
<1>5. i \in V /\ V \subseteq C /\ C \subseteq P
  BY <1>3, <1>4 DEF Gone
<1> HIDE DEF V
<1>6. \A k \in P : k \in V => Gone(k)
  BY <1>1, <1>4 DEF Gone
<1>7. ASSUME NEW j \in P, EvictBefore(rows, j, i) PROVE j \in V
  <2>1. j \in C
    BY <1>1, <1>5, <1>7 DEF EvictBefore
  <2>2. Bf(j) \subseteq Bf(i)
    <3>1. ASSUME NEW k \in Bf(j) PROVE k \in Bf(i)
      <4>1. EvictBefore(rows, k, j) /\ k \in C /\ k \in P
        OBVIOUS
      <4>2. EvictBefore(rows, k, i)
        BY <1>1, <1>5, <1>7, <4>1 DEF EvictBefore
      <4> QED BY <4>1, <4>2
    <3> QED BY <3>1
  <2> DEFINE X == Bf(j)
             Y == Bf(i)
  <2>3. X \subseteq Y /\ Y \in SUBSET P
    BY <2>2
  <2>4. BytesOf(rows, Y) > target + 0 \/ BytesOf(rows, P) > target + BytesOf(rows, Y)
    BY <1>3, <1>5
  <2>5. BytesOf(rows, P) > target + BytesOf(rows, Y)
    BY <1>3, <1>5
  <2> HIDE DEF X, Y
  <2>6. /\ BytesOf(rows, X) \in Nat /\ BytesOf(rows, Y \ X) \in Nat
        /\ BytesOf(rows, Y) = BytesOf(rows, X) + BytesOf(rows, Y \ X)
    BY <1>2, <2>3, BytesOfParts
  <2>7. BytesOf(rows, P) \in Nat
    BY <1>2, BytesOfNat
  <2>8. BytesOf(rows, P) > target + BytesOf(rows, X)
    BY <2>5, <2>6, <2>7
  <2> QED BY <1>3, <2>1, <2>8 DEF X
<1>8. ASSUME ~ \E j \in P : Gone(j) /\ EvictBefore(rows, i, j)
      PROVE  PendingBytes(rows') + rows[i].size > target
  <2>1. V \ {i} = Bf(i)
    <3>1. ASSUME NEW k \in V, k # i PROVE k \in Bf(i)
      <4>1. k \in P /\ k \in C /\ ~EvictBefore(rows, i, k)
        BY <1>5, <1>6, <1>8, <3>1
      <4>2. EvictBefore(rows, k, i)
        BY <1>1, <1>5, <3>1, <4>1 DEF EvictBefore
      <4> QED BY <4>1, <4>2
    <3>2. ASSUME NEW k \in Bf(i) PROVE k \in V /\ k # i
      <4>1. k \in P /\ EvictBefore(rows, k, i)
        OBVIOUS
      <4>2. k # i
        BY <1>1, <4>1 DEF EvictBefore
      <4> QED BY <1>7, <4>1, <4>2
    <3> QED BY <3>1, <3>2
  <2>2. BytesOf(rows, P) > target + BytesOf(rows, V \ {i})
    BY <1>3, <1>5, <2>1
  <2>3. Pending(rows') = P \ V
    BY <1>4 DEF Pending
  <2>4. V \in SUBSET P /\ P \ V \in SUBSET P /\ P \in SUBSET P
    BY <1>5
  <2>5. BytesOf(rows', P \ V) = BytesOf(rows, P \ V)
    <3>1. \A k \in P \ V : rows'[k].size = rows[k].size
      BY <1>1, <1>4
    <3> QED BY <1>2, <2>4, <3>1, BytesOfSame
  <2>6. /\ BytesOf(rows, V) \in Nat /\ BytesOf(rows, P \ V) \in Nat
        /\ BytesOf(rows, P) = BytesOf(rows, V) + BytesOf(rows, P \ V)
    <3>1. IsFiniteSet(P) /\ Sized(rows, P)
      BY <1>2, <2>4
    <3>2. V \in SUBSET P
      BY <2>4
    <3> HIDE DEF P
    <3>3. \A T \in SUBSET P : /\ BytesOf(rows, T) \in Nat /\ BytesOf(rows, P \ T) \in Nat
                              /\ BytesOf(rows, P) = BytesOf(rows, T) + BytesOf(rows, P \ T)
      BY <3>1, BytesOfParts, Zenon
    <3> QED BY <3>2, <3>3
  <2>7. BytesOf(rows, V) = rows[i].size + BytesOf(rows, V \ {i}) /\ BytesOf(rows, V \ {i}) \in Nat
    BY <1>2, <1>5, <2>4, BytesOfOneLess
  <2>8. rows[i].size \in Nat
    BY <1>1
  <2> QED BY <2>2, <2>3, <2>5, <2>6, <2>7, <2>8 DEF PendingBytes
<1> QED BY <1>6, <1>7, <1>8

\* evict_until_under and evict_low_and_normal_until_under go from Low up and
\* oldest first, and stop as soon as the event fits (queue.rs), for any sizes and
\* any rows.
THEOREM EvictsLowestFirst == Spec => EvictsInOrder
<1>1. ASSUME IInv, [Next]_vars
      PROVE  [\A i \in Pending(rows) : Gone(i) /\ ~DeletedById(i) =>
        /\ \A j \in Pending(rows) : EvictBefore(rows, j, i) => Gone(j)
        /\ \/ \E j \in Pending(rows) : Gone(j) /\ EvictBefore(rows, i, j)
           \/ \E p \in Producers :
                /\ pc[p] \in {"evict_ln", "evict_all"} /\ pc'[p] # pc[p]
                /\ PendingBytes(rows') + rows[i].size >
                     Minus(IF pc[p] = "evict_ln" THEN HighWater ELSE HardLimit, job[p].size)]_vars
  <2>1. SUFFICES ASSUME NEW i \in Pending(rows), Gone(i), ~DeletedById(i)
                 PROVE
        /\ \A j \in Pending(rows) : EvictBefore(rows, j, i) => Gone(j)
        /\ \/ \E j \in Pending(rows) : Gone(j) /\ EvictBefore(rows, i, j)
           \/ \E p \in Producers :
                /\ pc[p] \in {"evict_ln", "evict_all"} /\ pc'[p] # pc[p]
                /\ PendingBytes(rows') + rows[i].size >
                     Minus(IF pc[p] = "evict_ln" THEN HighWater ELSE HardLimit, job[p].size)
    OBVIOUS
  <2>2. i \in DOMAIN rows /\ rows[i].status = "pending"
    BY DEF Pending
  <2>3. \A p \in Producers : /\ Minus(HighWater, job[p].size) \in Nat
                             /\ Minus(HardLimit, job[p].size) \in Nat
    BY <1>1, LimitsAssumption DEF Minus, IInv, CallsOK, Event
  <2>4. ASSUME NEW p \in Producers, EvictLowAndNormal(p)
        PROVE  /\ \A j \in Pending(rows) : EvictBefore(rows, j, i) => Gone(j)
               /\ \/ \E j \in Pending(rows) : Gone(j) /\ EvictBefore(rows, i, j)
                  \/ /\ pc[p] = "evict_ln" /\ pc'[p] # pc[p]
                     /\ PendingBytes(rows') + rows[i].size > Minus(HighWater, job[p].size)
    <3>1. rows' = Delete(rows, Victims(rows, {Low, Normal}, Minus(HighWater, job[p].size)))
      BY <2>4 DEF EvictLowAndNormal, EvictTx
    <3>2. pc[p] = "evict_ln" /\ pc'[p] # pc[p]
      BY <1>1, <2>4 DEF EvictLowAndNormal, Counting, AfterCount, IInv, CallsOK
    <3>3. \A a \in {Low, Normal}, b \in {0, 1, 2, 3} : b >= a => b \in {Low, Normal}
      BY DEF Low, Normal
    <3> QED BY <1>1, <2>1, <2>3, <3>1, <3>2, <3>3, PassInOrder
  <2>5. ASSUME NEW p \in Producers, EvictAll(p)
        PROVE  /\ \A j \in Pending(rows) : EvictBefore(rows, j, i) => Gone(j)
               /\ \/ \E j \in Pending(rows) : Gone(j) /\ EvictBefore(rows, i, j)
                  \/ /\ pc[p] = "evict_all" /\ pc'[p] # pc[p]
                     /\ PendingBytes(rows') + rows[i].size > Minus(HardLimit, job[p].size)
    <3>1. rows' = Delete(rows, Victims(rows, {Low, Normal, High}, Minus(HardLimit, job[p].size)))
      BY <2>5 DEF EvictAll, EvictTx
    <3>2. pc[p] = "evict_all" /\ pc'[p] # pc[p]
      BY <1>1, <2>5 DEF EvictAll, Counting, AfterCount, IInv, CallsOK
    <3>3. \A a \in {Low, Normal, High}, b \in {0, 1, 2, 3} : b >= a => b \in {Low, Normal, High}
      BY DEF Low, Normal, High
    <3> QED BY <1>1, <2>1, <2>3, <3>1, <3>2, <3>3, PassInOrder
  <2>6. \E p \in Producers : EvictLowAndNormal(p) \/ EvictAll(p)
    BY <1>1, <2>1, <2>2, WhoEvicts
  <2> QED BY <2>4, <2>5, <2>6
<1> QED BY <1>1, InvariantIInv, PTL DEF Spec, EvictsInOrder
-----------------------------------------------------------------------------
(* What the counters and the limits promise *)

\* evict_inner runs in enqueue only, and a call's event is one of those enqueued.
Calling == \A p \in Producers :
    /\ pc[p] \in {"select", "delete"} => legacy
    /\ pc[p] # "idle" => job[p].size \in Sizes

\* A call of another thread leaves a producer's call as it is.
LEMMA CallingKept == IInv /\ Calling /\ [Next]_vars => Calling'
<1> SUFFICES ASSUME IInv, Calling, [Next]_vars PROVE Calling'
  OBVIOUS
<1> USE DEF callerVars
<1>1. pc \in [Producers -> {"idle", "select", "delete", "insert", "evict_ln", "count_ln", "stats", "evict_all",
                           "count_all", "count_floor", "recheck", "refuse"}]
      /\ job \in [Producers -> Event]
  BY DEF IInv, CallsOK
<1>2. ASSUME NEW p \in Producers, NEW e \in Events, Enqueue(p, e) PROVE Calling'
  <2>1. job' = [job EXCEPT ![p] = e] /\ legacy' = TRUE /\ \A q \in Producers : q # p => pc'[q] = pc[q]
    BY <1>1, <1>2 DEF Enqueue, Start
  <2> QED BY <1>1, <2>1 DEF Calling, Events
<1>3. ASSUME NEW p \in Producers, NEW e \in Events, EnqueueWithPressure(p, e) PROVE Calling'
  <2>1. /\ job' = [job EXCEPT ![p] = e] /\ legacy' = legacy /\ \A q \in Producers : q # p => pc'[q] = pc[q]
        /\ pc'[p] \in {"evict_ln", "stats"}
    BY <1>1, <1>3 DEF EnqueueWithPressure, Start
  <2> QED BY <1>1, <2>1 DEF Calling, Events
<1>4. ASSUME NEW p \in Producers, EvictSelect(p) \/ EvictDelete(p) PROVE Calling'
  <2>1. job' = job /\ legacy' = legacy /\ pc[p] \in {"select", "delete"} /\ \A q \in Producers : q # p => pc'[q] = pc[q]
    BY <1>1, <1>4 DEF EvictSelect, EvictDelete
  <2> QED BY <1>1, <2>1 DEF Calling
<1>5. ASSUME NEW p \in Producers, legacy' = legacy, pc[p] # "idle",
             pc'[p] \notin {"select", "delete"},
             \A q \in Producers : q # p => pc'[q] = pc[q] /\ job'[q] = job[q],
             pc'[p] = "idle" \/ job'[p] = job[p]
      PROVE  Calling'
  BY <1>5 DEF Calling
<1>6. ASSUME NEW p \in Producers, InsertEvent(p) \/ EvictLowAndNormal(p) \/ CheckHardLimit(p) \/ EvictAll(p)
                                  \/ CountEvicted(p) \/ RecheckHardLimit(p) \/ Refuse(p)
      PROVE  Calling'
  <2>1. legacy' = legacy /\ pc[p] \notin {"idle", "select", "delete"}
    BY <1>6 DEF InsertEvent, EvictLowAndNormal, CheckHardLimit, EvictAll, CountEvicted, AfterCount,
                RecheckHardLimit, Refuse
  <2>2. \/ job' = job /\ \E n \in {"insert", "evict_all", "stats", "recheck", "refuse", "count_ln", "count_all",
                                  "count_floor"} : pc' = [pc EXCEPT ![p] = n]
        \/ Return(p)
    <3>1. CASE CountEvicted(p)
      <4>1. pc[p] \in {"count_ln", "count_all", "count_floor"} /\ AfterCount[pc[p]] \in {"stats", "recheck", "refuse"}
        BY <3>1 DEF CountEvicted, AfterCount
      <4>2. job' = job /\ (pc' = [pc EXCEPT ![p] = pc[p]] \/ pc' = [pc EXCEPT ![p] = AfterCount[pc[p]]])
        BY <3>1 DEF CountEvicted
      <4> QED BY <4>1, <4>2
    <3>2. CASE ~CountEvicted(p)
      BY <1>6, <3>2, Zenon DEF InsertEvent, EvictLowAndNormal, CheckHardLimit, EvictAll, Counting, AfterCount,
                RecheckHardLimit, Refuse
    <3> QED BY <3>1, <3>2
  <2>3. CASE Return(p)
    BY <1>1, <1>5, <2>1, <2>3 DEF Return
  <2>4. CASE ~Return(p)
    <3>1. PICK n \in {"insert", "evict_all", "stats", "recheck", "refuse", "count_ln", "count_all",
                      "count_floor"} : job' = job /\ pc' = [pc EXCEPT ![p] = n]
      BY <2>2, <2>4
    <3> QED BY <1>1, <1>5, <2>1, <3>1
  <2> QED BY <2>3, <2>4
<1>7. CASE Uploader \/ Vacuum \/ UNCHANGED vars
  BY <1>7 DEF Uploader, Vacuum, vars, enqueueVars, DequeueSelect, DequeueEmpty, DequeueUpdate,
              DequeueFetch, DequeueFails, Ack, Nack, Calling
<1> QED BY <1>2, <1>3, <1>4, <1>6, <1>7 DEF Next, LegacyEnqueue, PressureEnqueue

\* How many rows of a priority there are, after a deletion, and after an insertion.
LEMMA PresentNat ==
    ASSUME IInv, NEW l, NEW S, S \subseteq DOMAIN rows
    PROVE  Present(l) \in Nat /\ Cardinality({i \in S : rows[i].prio = l}) \in Nat
<1>1. IsFiniteSet({i \in DOMAIN rows : rows[i].prio = l}) /\ IsFiniteSet({i \in S : rows[i].prio = l})
  BY RowsAre, FS_Subset
<1> QED BY <1>1, FS_CardinalityType DEF Present

LEMMA PresentSame ==
    ASSUME NEW l, DOMAIN rows' = DOMAIN rows, \A i \in DOMAIN rows : rows'[i].prio = rows[i].prio
    PROVE  Present(l)' = Present(l)
<1>1. {i \in DOMAIN rows' : rows'[i].prio = l} = {i \in DOMAIN rows : rows[i].prio = l}
  OBVIOUS
<1> QED BY <1>1 DEF Present

LEMMA PresentDelete ==
    ASSUME IInv, NEW l, NEW S, S \subseteq DOMAIN rows, rows' = Delete(rows, S)
    PROVE  Present(l)' = Present(l) - Cardinality({i \in S : rows[i].prio = l})
<1> DEFINE A == {i \in DOMAIN rows : rows[i].prio = l}
           G == {i \in S : rows[i].prio = l}
<1>1. IsFiniteSet(A)
  BY RowsAre, FS_Subset
<1>2. {i \in DOMAIN rows' : rows'[i].prio = l} = A \ G /\ A \cap G = G
  <2>1. DOMAIN rows' = DOMAIN rows \ S /\ \A i \in DOMAIN rows' : rows'[i] = rows[i]
    BY DEF Delete, Restrict
  <2> QED BY <2>1
<1> HIDE DEF A, G
<1>3. Cardinality(A \ G) = Cardinality(A) - Cardinality(A \cap G)
  BY <1>1, FS_Difference
<1> QED BY <1>2, <1>3 DEF Present, A, G

LEMMA PresentInsert ==
    ASSUME IInv, NEW l, NEW k, NEW z, rows' = Insert(rows, nextId, k, z)
    PROVE  Present(l)' = IF l = k THEN Present(l) + 1 ELSE Present(l)
<1> DEFINE A == {i \in DOMAIN rows : rows[i].prio = l}
<1>1. IsFiniteSet(A)
  BY RowsAre, FS_Subset
<1>2. nextId \notin A
  BY DEF IInv, TableOK, Ids
<1>3. DOMAIN rows' = DOMAIN rows \cup {nextId} /\ rows'[nextId].prio = k
      /\ \A i \in DOMAIN rows : i # nextId => rows'[i] = rows[i]
  BY DEF Insert
<1>4. nextId \notin DOMAIN rows
  BY DEF IInv, TableOK, Ids
<1>5. {i \in DOMAIN rows' : rows'[i].prio = l} = IF l = k THEN A \cup {nextId} ELSE A
  BY <1>3, <1>4
<1> HIDE DEF A
<1>6. Cardinality(A \cup {nextId}) = Cardinality(A) + 1
  BY <1>1, <1>2, FS_AddElement
<1> QED BY <1>5, <1>6 DEF Present, A
\* A tally goes up by the rows of S.
LEMMA TallyIs ==
    ASSUME IInv, NEW D, NEW t \in [D -> Nat], NEW S, S \subseteq DOMAIN rows
    PROVE  /\ Tally(t, S) \in [D -> Nat]
           /\ \A l \in D : Tally(t, S)[l] = t[l] + Cardinality({i \in S : rows[i].prio = l})
<1>1. \A l \in D : t[l] + Cardinality({i \in S : rows[i].prio = l}) \in Nat
  <2> TAKE l \in D
  <2>1. Cardinality({i \in S : rows[i].prio = l}) \in Nat
    BY PresentNat
  <2> QED BY <2>1
<1>2. DOMAIN t = D
  OBVIOUS
<1> QED BY <1>1, <1>2 DEF Tally

\* The reports of a priority, to be summed as sizes are.
Reported(l) == [p \in Producers |-> [size |-> report[p][l]]]
ReportSum(l) == MapThenSumSet(LAMBDA p : report[p][l], Producers)

LEMMA ReportSumIs ==
    ASSUME NEW l, \A p \in Producers : report[p][l] \in Nat
    PROVE  ReportSum(l) = BytesOf(Reported(l), Producers)
<1> DEFINE t == Reported(l)
           S == Producers
           fold(h) == h = [s \in SUBSET S |-> IF s = {} THEN 0
                             ELSE report[CHOOSE x \in s : TRUE][l] + h[s \ {CHOOSE x \in s : TRUE}]]
<1>1. PICK h : Adds(h, t, S)
  BY CallersAssumption, AddsExists DEF Sized, Reported
<1>2. \A x \in S : t[x].size = report[x][l]
  BY DEF Reported
<1>3. \A s \in SUBSET S : s # {} => t[CHOOSE x \in s : TRUE].size = report[CHOOSE x \in s : TRUE][l]
  BY <1>2
<1>4. ASSUME NEW g PROVE fold(g) <=> Folds(g, t, S)
  <2> DEFINE a(s) == IF s = {} THEN 0 ELSE report[CHOOSE x \in s : TRUE][l] + g[s \ {CHOOSE x \in s : TRUE}]
             b(s) == IF s = {} THEN 0 ELSE t[CHOOSE x \in s : TRUE].size + g[s \ {CHOOSE x \in s : TRUE}]
  <2>1. \A s \in SUBSET S : a(s) = b(s)
    BY <1>3
  <2>2. [s \in SUBSET S |-> a(s)] = [s \in SUBSET S |-> b(s)]
    <3> HIDE DEF a, b
    <3> QED BY <2>1
  <2> HIDE DEF t, S
  <2> QED BY <2>2 DEF Folds
<1>5. fold(h)
  BY <1>1, <1>4, FoldOfAdds
<1> HIDE DEF t
<1>6. fold(CHOOSE g : fold(g))
  <2> HIDE DEF fold
  <2> QED BY <1>5, Zenon
<1>7. (CHOOSE g : fold(g)) = h
  <2> HIDE DEF fold
  <2> QED BY <1>1, <1>4, <1>6, CallersAssumption, AddsIsFold
<1>8. ReportSum(l) = (CHOOSE g : fold(g))[S]
  BY DEF ReportSum, MapThenSumSet, MapThenFoldSet
<1>9. BytesOf(t, S) = h[S]
  BY <1>1, CallersAssumption, BytesAdd
<1> QED BY <1>7, <1>8, <1>9 DEF t

\* In the next state too.
ReportSums == \A l : (\A p \in Producers : report[p][l] \in Nat) => ReportSum(l) = BytesOf(Reported(l), Producers)
LEMMA ReportSumsNow == ReportSums
  BY ReportSumIs DEF ReportSums
LEMMA ReportSumsNext == ReportSums'
  BY ReportSumsNow, PTL

\* A report that changes by itself changes the sum by as much.
LEMMA ReportChanges ==
    ASSUME NEW l \in DOMAIN NoReport, report \in [Producers -> [DOMAIN NoReport -> Nat]], NEW p \in Producers,
           NEW r \in [DOMAIN NoReport -> Nat], report' = [report EXCEPT ![p] = r]
    PROVE  /\ ReportSum(l) \in Nat /\ ReportSum(l)' \in Nat
           /\ ReportSum(l)' + report[p][l] = ReportSum(l) + r[l]
<1> DEFINE t == Reported(l)
           u == [q \in Producers |-> [size |-> report'[q][l]]]
           R == Producers \ {p}
<1>1. /\ \A q \in Producers : t[q].size = report[q][l] /\ t[q].size \in Nat
      /\ \A q \in Producers : u[q].size = report'[q][l] /\ u[q].size \in Nat
      /\ u[p].size = r[l] /\ \A q \in R : u[q].size = t[q].size
  BY DEF Reported
<1>2. ReportSum(l) = BytesOf(t, Producers)
  BY <1>1, ReportSumIs
<1>3. ReportSum(l)' = BytesOf(u, Producers)
  <2>1. (\A q \in Producers : report[q][l] \in Nat)' => (ReportSum(l) = BytesOf(Reported(l), Producers))'
    BY ReportSumsNext, Zenon DEF ReportSums
  <2>2. Reported(l)' = u
    BY DEF Reported
  <2>3. (BytesOf(Reported(l), Producers))' = BytesOf(u, Producers)
    BY <2>2
  <2> HIDE DEF u
  <2> QED BY <1>1, <2>1, <2>3
<1>4. IsFiniteSet(Producers) /\ Sized(t, Producers) /\ Sized(u, Producers) /\ IsFiniteSet(R) /\ Sized(t, R)
  BY <1>1, CallersAssumption, FS_Subset DEF Sized
<1> HIDE DEF t, u, R
<1>5. BytesOf(t, Producers) = t[p].size + BytesOf(t, R) /\ BytesOf(t, R) \in Nat
  BY <1>4, BytesOfOneLess DEF R
<1>6. BytesOf(u, Producers) = u[p].size + BytesOf(u, R)
  BY <1>4, BytesOfOneLess DEF R
<1>7. BytesOf(u, R) = BytesOf(t, R)
  BY <1>1, <1>4, BytesOfSame
<1>8. t[p].size = report[p][l] /\ t[p].size \in Nat /\ u[p].size = r[l] /\ u[p].size \in Nat
  BY <1>1
<1> QED BY <1>2, <1>3, <1>5, <1>6, <1>7, <1>8

\* What is evicted, counted or reported: a number, the same while neither changes.
LEMMA EvictedNat ==
    ASSUME TalliesOK, NEW l \in {High, Normal, Low}
    PROVE  Evicted(l) \in Nat
<1>1. report \in [Producers -> [{High, Normal, Low} -> Nat]] /\ counters[l] \in Nat
  BY DEF TalliesOK
<1>2. PICK p \in Producers : TRUE
  BY CallersAssumption
<1>3. IsFiniteSet(Producers) /\ Sized(Reported(l), Producers) /\ \A q \in Producers : report[q][l] \in Nat
  BY <1>1, CallersAssumption DEF Sized, Reported
<1>4. ReportSum(l) \in Nat
  BY <1>3, ReportSumIs, BytesOfNat
<1> QED BY <1>1, <1>4 DEF Evicted, ReportSum

LEMMA EvictedSame ==
    ASSUME counters' = counters, report' = report, NEW l
    PROVE  Evicted(l)' = Evicted(l)
BY DEF Evicted, MapThenSumSet, MapThenFoldSet

\* The bytes of the table are a number, before and after a step.
TableBytesOK == BytesOf(rows, DOMAIN rows) \in Nat
LEMMA TableBytes == IInv => TableBytesOK
  BY RowsAre, BytesOfNat DEF TableBytesOK
LEMMA TableBytesNext == IInv /\ [Next]_vars => TableBytesOK'
  BY TableBytes, NextIInv, PTL

\* The counters stay numbers, and the calls within their bounds.
LEMMA TalliesKept == IInv /\ TalliesOK /\ [Next]_vars => TalliesOK'
<1> SUFFICES ASSUME IInv, TalliesOK, [Next]_vars PROVE TalliesOK'
  OBVIOUS
<1> USE DEF callerVars, enqueueVars
<1>1. \A S \in SUBSET DOMAIN rows :
        Tally(counters, S) \in [{High, Normal, Low} -> Nat] /\ Tally(acked, S) \in [Priority -> Nat]
  BY TallyIs DEF TalliesOK
<1>0. report \in [Producers -> [{High, Normal, Low} -> Nat]]
  BY DEF TalliesOK
<1>2. BytesOf(rows, DOMAIN rows) \in Nat /\ BytesOf(rows', DOMAIN rows') \in Nat
  <2>1. TableBytesOK /\ TableBytesOK'
    BY TableBytes, TableBytesNext
  <2> QED BY <2>1 DEF TableBytesOK
<1>3. ASSUME NEW p \in Producers, NEW e \in Events, Enqueue(p, e) \/ EnqueueWithPressure(p, e)
      PROVE  TalliesOK'
  <2>1. calls < MaxEvents /\ calls' = calls + 1 /\ calls \in 0 .. MaxEvents
    BY <1>3 DEF Enqueue, EnqueueWithPressure, Start, TalliesOK
  <2>2. calls' \in 0 .. MaxEvents
    BY <2>1, BoundsAssumption
  <2>3. legacy' \in BOOLEAN
    BY <1>3, Zenon DEF Enqueue, EnqueueWithPressure, TalliesOK
  <2>4. /\ dbBytes' = dbBytes /\ counters' = counters /\ report' = report /\ rejected' = rejected /\ nacks' = nacks
        /\ inserted' = inserted /\ acked' = acked
    BY <1>3 DEF Enqueue, EnqueueWithPressure
  <2> QED BY <2>2, <2>3, <2>4, Zenon DEF TalliesOK
<1>4. ASSUME NEW p \in Producers, EvictSelect(p) \/ EvictDelete(p) \/ CheckHardLimit(p) PROVE TalliesOK'
  BY <1>4 DEF EvictSelect, EvictDelete, CheckHardLimit, TalliesOK
<1>5. ASSUME NEW p \in Producers, InsertEvent(p) PROVE TalliesOK'
  <2>1. dbBytes' \in Nat
    <3>1. dbBytes \in Nat /\ dbBytes' = Max({dbBytes, BytesOf(rows', DOMAIN rows')})
      BY <1>5 DEF InsertEvent, TalliesOK
    <3>2. \A a, b \in Nat : Max({a, b}) \in Nat
      <4>1. SUFFICES ASSUME NEW a \in Nat, NEW b \in Nat PROVE Max({a, b}) \in {a, b}
        OBVIOUS
      <4>2. \E x \in {a, b} : \A y \in {a, b} : x >= y
        OBVIOUS
      <4> QED BY <4>2 DEF Max
    <3> QED BY <1>2, <3>1, <3>2
  <2>2. inserted' = [inserted EXCEPT ![job[p].prio] = @ + 1] /\ job[p].prio \in Priority
    BY <1>5 DEF InsertEvent, IInv, CallsOK, Event
  <2> QED BY <1>5, <2>1, <2>2 DEF InsertEvent, TalliesOK
<1>6. ASSUME NEW p \in Producers, EvictLowAndNormal(p) \/ EvictAll(p) PROVE TalliesOK'
  <2>1. PICK S \in SUBSET DOMAIN rows : report' = [report EXCEPT ![p] = Tally(@, S)]
    <3>1. \A levels, target : Victims(rows, levels, target) \in SUBSET DOMAIN rows
      BY DEF Victims, Pending
    <3> QED BY <1>6, <3>1 DEF EvictLowAndNormal, EvictAll, EvictTx
  <2>2. Tally(report[p], S) \in [{High, Normal, Low} -> Nat]
    BY <1>0, TallyIs
  <2>3. report' \in [Producers -> [{High, Normal, Low} -> Nat]]
    BY <1>0, <2>1, <2>2
  <2> QED BY <1>6, <2>3 DEF EvictLowAndNormal, EvictAll, TalliesOK
<1>7. ASSUME NEW p \in Producers, CountEvicted(p) \/ RecheckHardLimit(p) \/ Refuse(p) PROVE TalliesOK'
  <2>1. CASE CountEvicted(p)
    <3>1. PICK l \in {High, Normal, Low} :
            counters' = [counters EXCEPT ![l] = @ + report[p][l]] /\ report' = [report EXCEPT ![p][l] = 0]
      BY <2>1 DEF CountEvicted, NoReport
    <3>2. counters[l] + report[p][l] \in Nat
      BY <1>0 DEF TalliesOK
    <3>3. counters' \in [{High, Normal, Low} -> Nat] /\ report' \in [Producers -> [{High, Normal, Low} -> Nat]]
      BY <1>0, <3>1, <3>2 DEF TalliesOK
    <3> QED BY <2>1, <3>3 DEF CountEvicted, TalliesOK
  <2>2. CASE ~CountEvicted(p)
    <3>1. rejected' \in Nat
      BY <1>7, <2>2 DEF RecheckHardLimit, Refuse, TalliesOK
    <3> QED BY <1>7, <2>2, <3>1 DEF RecheckHardLimit, Refuse, TalliesOK
  <2> QED BY <2>1, <2>2
<1>8. ASSUME NEW b \in held, Ack(b) PROVE TalliesOK'
  <2>1. BatchRows(rows, b) \in SUBSET DOMAIN rows
    BY DEF BatchRows
  <2> QED BY <1>1, <1>8, <2>1 DEF Ack, TalliesOK
<1>9. ASSUME NEW b \in held, Nack(b) PROVE TalliesOK'
  BY <1>9, BoundsAssumption DEF Nack, TalliesOK
<1>10. CASE DequeueSelect \/ DequeueEmpty \/ DequeueUpdate \/ DequeueFetch \/ DequeueFails \/ UNCHANGED vars
  BY <1>10 DEF DequeueSelect, DequeueEmpty, DequeueUpdate, DequeueFetch, DequeueFails, vars, TalliesOK
<1>11. CASE Vacuum
  BY <1>2, <1>11 DEF Vacuum, TalliesOK
<1> QED BY <1>3, <1>4, <1>5, <1>6, <1>7, <1>8, <1>9, <1>10, <1>11
        DEF Next, LegacyEnqueue, PressureEnqueue, Uploader

\* An eviction adds what it took; counting it adds nothing more.
LEMMA EvictedMore ==
    ASSUME IInv, TalliesOK, NEW p \in Producers, NEW S, S \subseteq DOMAIN rows,
           counters' = counters, report' = [report EXCEPT ![p] = Tally(@, S)]
    PROVE  \A l \in {High, Normal, Low} : Evicted(l)' = Evicted(l) + Cardinality({i \in S : rows[i].prio = l})
<1> TAKE l \in {High, Normal, Low}
<1> DEFINE r == Tally(report[p], S)
           n == Cardinality({i \in S : rows[i].prio = l})
<1>1. report \in [Producers -> [DOMAIN NoReport -> Nat]] /\ counters[l] \in Nat /\ l \in DOMAIN NoReport
  BY DEF TalliesOK, NoReport
<1>2. r \in [DOMAIN NoReport -> Nat] /\ r[l] = report[p][l] + n /\ n \in Nat
  <2>1. report[p] \in [DOMAIN NoReport -> Nat]
    BY <1>1
  <2>2. /\ Tally(report[p], S) \in [DOMAIN NoReport -> Nat]
        /\ \A m \in DOMAIN NoReport :
             Tally(report[p], S)[m] = report[p][m] + Cardinality({i \in S : rows[i].prio = m})
    BY <2>1, TallyIs
  <2> QED BY <1>1, <2>2, PresentNat
<1>3. report' = [report EXCEPT ![p] = r]
  OBVIOUS
<1> HIDE DEF r, n
<1>4. ReportSum(l) \in Nat /\ ReportSum(l)' \in Nat /\ ReportSum(l)' + report[p][l] = ReportSum(l) + r[l]
  BY <1>1, <1>2, <1>3, ReportChanges
<1>5. report[p][l] \in Nat /\ counters'[l] = counters[l]
  BY <1>1
<1>6. Evicted(l) = counters[l] + ReportSum(l) /\ Evicted(l)' = counters'[l] + ReportSum(l)'
  BY DEF Evicted, ReportSum
<1> QED BY <1>1, <1>2, <1>4, <1>5, <1>6 DEF n

LEMMA EvictedCounted ==
    ASSUME TalliesOK, NEW p \in Producers, CountEvicted(p), NEW l \in {High, Normal, Low}
    PROVE  Evicted(l)' = Evicted(l)
<1>1. PICK m \in DOMAIN NoReport :
        counters' = [counters EXCEPT ![m] = @ + report[p][m]] /\ report' = [report EXCEPT ![p][m] = 0]
  BY DEF CountEvicted
<1> DEFINE r == [report[p] EXCEPT ![m] = 0]
<1>2. report \in [Producers -> [DOMAIN NoReport -> Nat]] /\ counters \in [DOMAIN NoReport -> Nat] /\ l \in DOMAIN NoReport
  BY DEF TalliesOK, NoReport
<1>3. r \in [DOMAIN NoReport -> Nat] /\ report' = [report EXCEPT ![p] = r]
      /\ r[l] = IF l = m THEN 0 ELSE report[p][l]
  BY <1>1, <1>2
<1>4. counters'[l] = counters[l] + report[p][l] - r[l] /\ counters[l] \in Nat /\ report[p][l] \in Nat /\ r[l] \in Nat
  BY <1>1, <1>2, <1>3
<1> HIDE DEF r
<1>5. ReportSum(l) \in Nat /\ ReportSum(l)' \in Nat /\ ReportSum(l)' + report[p][l] = ReportSum(l) + r[l]
  BY <1>2, <1>3, ReportChanges
<1>6. Evicted(l) = counters[l] + ReportSum(l) /\ Evicted(l)' = counters'[l] + ReportSum(l)'
  BY DEF Evicted, ReportSum
<1> QED BY <1>4, <1>5, <1>6

\* A step that inserts, evicts or acks nothing leaves the account as it is, but
\* for an enqueue, after which less is asked.
LEMMA AccountSame ==
    ASSUME IInv, EvictionsAccounted, TalliesOK, legacy' \in {legacy, TRUE},
           DOMAIN rows' = DOMAIN rows, \A i \in DOMAIN rows : rows'[i].prio = rows[i].prio,
           inserted' = inserted, acked' = acked,
           \A l \in {High, Normal, Low} : Evicted(l)' = Evicted(l)
    PROVE  EvictionsAccounted'
<1>1. \A l \in Priority : Present(l)' = Present(l)
  BY PresentSame
<1>2. \A l \in Priority : Present(l) \in Nat
  BY PresentNat
<1>3. {Critical, High, Low, Normal} \subseteq Priority
  BY DEF Priority
<1>4. \A l \in {Low, Normal} : inserted[l] \in Nat /\ acked[l] \in Nat /\ Evicted(l) \in Nat
  BY <1>3, EvictedNat DEF TalliesOK
<1>5. inserted'[Critical] = acked'[Critical] + Present(Critical)'
      /\ inserted'[High] = acked'[High] + Present(High)' + Evicted(High)'
  BY <1>1, <1>3 DEF EvictionsAccounted
<1>6. ASSUME NEW l \in {Low, Normal}
      PROVE  IF legacy' THEN inserted'[l] >= acked'[l] + Present(l)' + Evicted(l)'
                        ELSE inserted'[l] = acked'[l] + Present(l)' + Evicted(l)'
  <2>1. /\ inserted[l] \in Nat /\ acked[l] \in Nat /\ Evicted(l) \in Nat
        /\ Present(l) \in Nat /\ Present(l)' = Present(l)
    BY <1>1, <1>2, <1>3, <1>4
  <2>2. IF legacy THEN inserted[l] >= acked[l] + Present(l) + Evicted(l)
                  ELSE inserted[l] = acked[l] + Present(l) + Evicted(l)
    BY DEF EvictionsAccounted
  <2>3. inserted[l] = acked[l] + Present(l) + Evicted(l) => inserted[l] >= acked[l] + Present(l) + Evicted(l)
    BY <2>1
  <2>4. inserted[l] >= acked[l] + Present(l) + Evicted(l)
    BY <2>2, <2>3, Zenon
  <2>5. legacy' \/ (~legacy' /\ ~legacy)
    BY Zenon
  <2> QED BY <2>1, <2>2, <2>4, <2>5, Zenon
<1> QED BY <1>5, <1>6, Zenon DEF EvictionsAccounted

\* What a transaction deletes, it adds to the tally of its kind.
LEMMA AccountDelete ==
    ASSUME IInv, EvictionsAccounted, TalliesOK, legacy' = legacy, inserted' = inserted,
           NEW S, S \subseteq DOMAIN rows, rows' = Delete(rows, S),
           \/ /\ \A l \in {High, Normal, Low} :
                    Evicted(l)' = Evicted(l) + Cardinality({i \in S : rows[i].prio = l})
              /\ acked' = acked /\ \A i \in S : rows[i].prio # Critical
           \/ acked' = Tally(acked, S) /\ \A l \in {High, Normal, Low} : Evicted(l)' = Evicted(l)
    PROVE  EvictionsAccounted'
<1> DEFINE n(l) == Cardinality({i \in S : rows[i].prio = l})
<1>1. \A l \in Priority : Present(l)' = Present(l) - n(l)
  BY PresentDelete
<1>2. \A l \in Priority : Present(l) \in Nat /\ n(l) \in Nat
  BY PresentNat
<1>3. /\ \A l \in Priority : inserted[l] \in Nat /\ acked[l] \in Nat /\ Tally(acked, S)[l] = acked[l] + n(l)
      /\ \A l \in {High, Normal, Low} : Evicted(l) \in Nat
  <2>1. \A l \in {High, Normal, Low} : Evicted(l) \in Nat
    BY EvictedNat
  <2>2. inserted \in [Priority -> Nat] /\ acked \in [Priority -> Nat]
    BY DEF TalliesOK
  <2> QED BY <2>1, <2>2, TallyIs
<1>4. Critical \in Priority /\ High \in Priority /\ Low \in Priority /\ Normal \in Priority
  BY DEF Priority
<1>5. (\A i \in S : rows[i].prio # Critical) => n(Critical) = 0
  <2> SUFFICES ASSUME \A i \in S : rows[i].prio # Critical PROVE {i \in S : rows[i].prio = Critical} = {}
    BY FS_EmptySet
  <2> QED OBVIOUS
<1>6. CASE /\ \A l \in {High, Normal, Low} : Evicted(l)' = Evicted(l) + n(l)
           /\ acked' = acked /\ \A i \in S : rows[i].prio # Critical
  <2> HIDE DEF n
  <2>1. inserted[Critical] = acked[Critical] + Present(Critical)'
    BY <1>1, <1>2, <1>3, <1>4, <1>5, <1>6 DEF EvictionsAccounted
  <2>2. \A l \in {High, Normal, Low} : acked[l] + Present(l)' + Evicted(l)' = acked[l] + Present(l) + Evicted(l)
    BY <1>1, <1>2, <1>3, <1>4, <1>6
  <2> QED BY <1>6, <2>1, <2>2 DEF EvictionsAccounted
<1>7. CASE acked' = Tally(acked, S) /\ \A l \in {High, Normal, Low} : Evicted(l)' = Evicted(l)
  <2> HIDE DEF n
  <2>1. \A l \in Priority : acked'[l] + Present(l)' = acked[l] + Present(l)
    BY <1>1, <1>2, <1>3, <1>7
  <2> QED BY <1>4, <1>7, <2>1 DEF EvictionsAccounted
<1> QED BY <1>6, <1>7

\* No row is forgotten and none counted twice.
LEMMA AccountKept == IInv /\ TalliesOK /\ Calling /\ EvictionsAccounted /\ [Next]_vars => EvictionsAccounted'
<1> SUFFICES ASSUME IInv, TalliesOK, Calling, EvictionsAccounted, [Next]_vars PROVE EvictionsAccounted'
  OBVIOUS
<1> USE DEF callerVars, enqueueVars
<1>0. \A l \in {High, Normal, Low} : Evicted(l) \in Nat /\ (counters' = counters /\ report' = report => Evicted(l)' = Evicted(l))
  BY EvictedNat, EvictedSame
<1>1. ASSUME NEW p \in Producers, NEW e \in Events, Enqueue(p, e) \/ EnqueueWithPressure(p, e)
      PROVE  EvictionsAccounted'
  BY <1>0, <1>1, AccountSame DEF Enqueue, EnqueueWithPressure
<1>2. ASSUME NEW p \in Producers, EvictSelect(p) \/ CheckHardLimit(p) \/ RecheckHardLimit(p) \/ Refuse(p)
      PROVE  EvictionsAccounted'
  BY <1>0, <1>2, AccountSame DEF EvictSelect, CheckHardLimit, RecheckHardLimit, Refuse
<1>3. ASSUME NEW p \in Producers, EvictDelete(p) PROVE EvictionsAccounted'
  <2>1. PICK v \in scan[p].victims : rows' = Delete(rows, {v.id})
    BY <1>3 DEF EvictDelete
  <2>2. inserted' = inserted /\ acked' = acked /\ legacy' = legacy /\ legacy
        /\ \A l \in {High, Normal, Low} : Evicted(l)' = Evicted(l)
    BY <1>0, <1>3 DEF EvictDelete, Calling
  <2> DEFINE S == {v.id} \cap DOMAIN rows
  <2>3. rows' = Delete(rows, S) /\ S \subseteq DOMAIN rows
    <3>1. DOMAIN rows \ {v.id} = DOMAIN rows \ S
      OBVIOUS
    <3> QED BY <2>1, <3>1 DEF Delete
  <2>4. \A i \in S : rows[i].prio \in {Low, Normal}
    BY DEF IInv, VictimsEvictable
  <2> HIDE DEF S
  <2>5. \A l \in Priority : /\ Present(l)' = Present(l) - Cardinality({i \in S : rows[i].prio = l})
                            /\ Present(l) \in Nat /\ Cardinality({i \in S : rows[i].prio = l}) \in Nat
    BY <2>3, PresentDelete, PresentNat
  <2>6. Critical \in Priority /\ High \in Priority /\ Low \in Priority /\ Normal \in Priority
    BY DEF Priority
  <2>7. \A l \in {Critical, High} : Present(l)' = Present(l)
    <3> TAKE l \in {Critical, High}
    <3>1. {i \in S : rows[i].prio = l} = {}
      BY <2>4 DEF Critical, High, Low, Normal
    <3> QED BY <2>5, <2>6, <3>1, FS_EmptySet
  <2>8. \A l \in {Low, Normal} : inserted[l] \in Nat /\ acked[l] \in Nat /\ Evicted(l) \in Nat
    BY <1>0, <2>6 DEF TalliesOK
  <2>9. \A l \in {Low, Normal} : inserted[l] >= acked[l] + Present(l) + Evicted(l)
    BY <2>2 DEF EvictionsAccounted
  <2>10. ASSUME NEW l \in {Low, Normal} PROVE inserted[l] >= acked[l] + Present(l)' + Evicted(l)
    <3> DEFINE n == Cardinality({i \in S : rows[i].prio = l})
    <3>1. Present(l)' = Present(l) - n /\ Present(l) \in Nat /\ n \in Nat
      BY <2>5, <2>6
    <3> HIDE DEF n
    <3>2. inserted[l] \in Nat /\ acked[l] \in Nat /\ Evicted(l) \in Nat
          /\ inserted[l] >= acked[l] + Present(l) + Evicted(l)
      BY <2>8, <2>9
    <3> QED BY <3>1, <3>2
  <2> QED BY <2>2, <2>7, <2>10 DEF EvictionsAccounted
<1>4. ASSUME NEW p \in Producers, InsertEvent(p) PROVE EvictionsAccounted'
  <2>1. /\ rows' = Insert(rows, nextId, job[p].prio, job[p].size)
        /\ inserted' = [inserted EXCEPT ![job[p].prio] = @ + 1]
        /\ acked' = acked /\ counters' = counters /\ report' = report /\ legacy' = legacy
    BY <1>4 DEF InsertEvent
  <2>2. \A l \in Priority : Present(l)' = (IF l = job[p].prio THEN Present(l) + 1 ELSE Present(l)) /\ Present(l) \in Nat
    BY <2>1, PresentInsert, PresentNat
  <2>3. \A l \in Priority : inserted'[l] = (IF l = job[p].prio THEN inserted[l] + 1 ELSE inserted[l])
                            /\ inserted[l] \in Nat /\ acked[l] \in Nat
    BY <2>1 DEF TalliesOK
  <2>4. \A l \in {High, Normal, Low} : Evicted(l) \in Nat /\ Evicted(l)' = Evicted(l)
    BY <1>0, <2>1
  <2>5. Critical \in Priority /\ High \in Priority /\ Low \in Priority /\ Normal \in Priority
    BY DEF Priority
  <2>6. \A l \in Priority : inserted'[l] - Present(l)' = inserted[l] - Present(l)
                            /\ inserted'[l] \in Nat /\ Present(l)' \in Nat
    BY <2>2, <2>3
  <2>7. inserted'[Critical] = acked[Critical] + Present(Critical)'
    BY <2>2, <2>3, <2>5, <2>6 DEF EvictionsAccounted
  <2>8. inserted'[High] = acked[High] + Present(High)' + Evicted(High)
    BY <2>2, <2>3, <2>4, <2>5, <2>6 DEF EvictionsAccounted
  <2>9. \A l \in {Low, Normal} :
            IF legacy THEN inserted'[l] >= acked[l] + Present(l)' + Evicted(l)
                      ELSE inserted'[l] = acked[l] + Present(l)' + Evicted(l)
    <3> TAKE l \in {Low, Normal}
    <3>1. /\ inserted[l] \in Nat /\ acked[l] \in Nat /\ Evicted(l) \in Nat /\ Present(l) \in Nat
          /\ inserted'[l] \in Nat /\ Present(l)' \in Nat
          /\ inserted'[l] - Present(l)' = inserted[l] - Present(l)
      BY <2>2, <2>3, <2>4, <2>5, <2>6
    <3>2. IF legacy THEN inserted[l] >= acked[l] + Present(l) + Evicted(l)
                    ELSE inserted[l] = acked[l] + Present(l) + Evicted(l)
      BY DEF EvictionsAccounted
    <3>3. /\ inserted[l] >= acked[l] + Present(l) + Evicted(l) => inserted'[l] >= acked[l] + Present(l)' + Evicted(l)
          /\ inserted[l] = acked[l] + Present(l) + Evicted(l) => inserted'[l] = acked[l] + Present(l)' + Evicted(l)
      BY <3>1
    <3> QED BY <3>2, <3>3, Zenon
  <2> QED BY <2>1, <2>4, <2>7, <2>8, <2>9 DEF EvictionsAccounted
<1>5. ASSUME NEW p \in Producers, EvictLowAndNormal(p) \/ EvictAll(p) PROVE EvictionsAccounted'
  <2>1. PICK levels, target :
          /\ levels \in {{Low, Normal}, {Low, Normal, High}}
          /\ rows' = Delete(rows, Victims(rows, levels, target))
          /\ report' = [report EXCEPT ![p] = Tally(@, Victims(rows, levels, target))]
    BY <1>5 DEF EvictLowAndNormal, EvictAll, EvictTx
  <2>2. \A i \in Victims(rows, levels, target) : i \in DOMAIN rows /\ rows[i].prio # Critical
    BY <2>1, VictimsOfLevels DEF Critical, High, Low, Normal
  <2>3. legacy' = legacy /\ inserted' = inserted /\ acked' = acked /\ counters' = counters
    BY <1>5 DEF EvictLowAndNormal, EvictAll
  <2> DEFINE S == Victims(rows, levels, target)
  <2>4. S \subseteq DOMAIN rows
    BY <2>2
  <2> HIDE DEF S
  <2>5. \A l \in {High, Normal, Low} : Evicted(l)' = Evicted(l) + Cardinality({i \in S : rows[i].prio = l})
    BY <2>1, <2>3, <2>4, EvictedMore DEF S
  <2> QED BY <2>1, <2>2, <2>3, <2>4, <2>5, AccountDelete DEF S
<1>6. ASSUME NEW b \in held, Ack(b) PROVE EvictionsAccounted'
  <2>1. BatchRows(rows, b) \subseteq DOMAIN rows
    BY DEF BatchRows
  <2> QED BY <1>0, <1>6, <2>1, AccountDelete DEF Ack, AckBatch
<1>7. ASSUME NEW b \in held, Nack(b) PROVE EvictionsAccounted'
  <2>1. DOMAIN rows' = DOMAIN rows /\ \A i \in DOMAIN rows : rows'[i].prio = rows[i].prio
    BY <1>7 DEF Nack, NackBatch, IInv, TableOK, Row
  <2> QED BY <1>0, <1>7, <2>1, AccountSame DEF Nack
<1>8. CASE DequeueUpdate
  <2>1. DOMAIN rows' = DOMAIN rows /\ \A i \in DOMAIN rows : rows'[i].prio = rows[i].prio
    BY <1>8 DEF DequeueUpdate, MarkInFlight, IInv, TableOK, Row
  <2> QED BY <1>0, <1>8, <2>1, AccountSame DEF DequeueUpdate
<1>9. CASE DequeueSelect \/ DequeueEmpty \/ DequeueFetch \/ DequeueFails \/ Vacuum \/ UNCHANGED vars
  BY <1>0, <1>9, AccountSame DEF DequeueSelect, DequeueEmpty, DequeueFetch, DequeueFails, Vacuum, vars
<1>10. ASSUME NEW p \in Producers, CountEvicted(p) PROVE EvictionsAccounted'
  <2>1. \A l \in {High, Normal, Low} : Evicted(l)' = Evicted(l)
    BY <1>10, EvictedCounted
  <2> QED BY <1>10, <2>1, AccountSame DEF CountEvicted
<1> QED BY <1>1, <1>2, <1>3, <1>4, <1>5, <1>6, <1>7, <1>8, <1>9, <1>10
        DEF Next, LegacyEnqueue, PressureEnqueue, Uploader
-----------------------------------------------------------------------------
(* The hard limit *)

\* The largest size.
LEMMA MaxSize == Max(Sizes) \in Nat /\ \A z \in Sizes : z <= Max(Sizes)
<1> DEFINE Has(T) == \E x \in T : \A y \in T : x >= y
           B == {T \in SUBSET Sizes : T # {} /\ ~Has(T)}
<1>1. B = {}
  <2> SUFFICES ASSUME B # {} PROVE FALSE
    OBVIOUS
  <2>1. PICK T \in B : \A x \in T : T \ {x} \notin B
    <3> HIDE DEF B
    <3>1. B \subseteq SUBSET Sizes
      BY DEF B
    <3> QED BY <3>1, LeastPart, CallersAssumption
  <2>2. T \subseteq Nat /\ T # {} /\ ~Has(T)
    BY SizesAssumption
  <2>3. PICK x \in T : TRUE
    BY <2>2
  <2>4. PICK y \in T \ {x} : \A z \in T \ {x} : y >= z
    <3>1. T \ {x} # {}
      <4>1. SUFFICES ASSUME T \ {x} = {} PROVE FALSE
        OBVIOUS
      <4>2. \A z \in T : x >= z
        BY <2>2, <4>1
      <4> QED BY <2>2, <4>2
    <3>2. T \ {x} \in SUBSET Sizes
      OBVIOUS
    <3> QED BY <2>1, <3>1, <3>2
  <2>5. x \in Nat /\ y \in Nat /\ y \in T
    BY <2>2
  <2>6. CASE x >= y
    <3>1. \A z \in T : x >= z
      BY <2>2, <2>4, <2>5, <2>6
    <3> QED BY <2>2, <3>1
  <2>7. CASE ~(x >= y)
    <3>1. \A z \in T : y >= z
      BY <2>2, <2>4, <2>5, <2>7
    <3> QED BY <2>2, <2>5, <3>1
  <2> QED BY <2>6, <2>7
<1>2. Has(Sizes)
  BY <1>1, CallersAssumption
<1>3. Max(Sizes) \in Sizes /\ \A y \in Sizes : Max(Sizes) >= y
  BY <1>2, Zenon DEF Max
<1> QED BY <1>3, SizesAssumption

\* The calls whose event fits and is not yet in the table.
Waiting == {p \in Producers : pc[p] = "insert"}
Room == HardLimit + (Cardinality(Producers) - 1) * Max(Sizes)
Fits == ~legacy /\ nacks = 0 => PendingBytes(rows) + BytesOf(job, Waiting) <= Room

LEMMA FitsIsBounded == Fits <=> PendingBounded
BY DEF Fits, PendingBounded, Waiting, Room, BytesOf

LEMMA RoomNat ==
    /\ Cardinality(Producers) \in Nat \ {0}
    /\ (Cardinality(Producers) - 1) * Max(Sizes) \in Nat
<1>1. Cardinality(Producers) \in Nat /\ Cardinality(Producers) # 0
  BY CallersAssumption, FS_EmptySet, FS_CardinalityType
<1>2. \A n, m \in Nat : n * m \in Nat
  OBVIOUS
<1>3. Cardinality(Producers) - 1 \in Nat
  BY <1>1
<1> QED BY <1>1, <1>2, <1>3, MaxSize

\* Sums over the table and over the calls are numbers.
LEMMA SumsNat ==
    ASSUME IInv
    PROVE  /\ PendingBytes(rows) \in Nat /\ IsFiniteSet(Pending(rows)) /\ Sized(rows, Pending(rows))
           /\ \A T \in SUBSET Producers : IsFiniteSet(T) /\ Sized(job, T) /\ BytesOf(job, T) \in Nat
<1>1. IsFiniteSet(Pending(rows)) /\ Sized(rows, Pending(rows))
  <2>1. Pending(rows) \in SUBSET DOMAIN rows
    BY DEF Pending
  <2> QED BY <2>1, RowsAre, FS_Subset DEF Sized
<1>2. \A T \in SUBSET Producers : IsFiniteSet(T) /\ Sized(job, T)
  BY CallersAssumption, FS_Subset DEF Sized, IInv, CallsOK, Event
<1> QED BY <1>1, <1>2, BytesOfNat DEF PendingBytes

\* Fewer pending rows, fewer bytes.
LEMMA FewerBytes ==
    ASSUME IInv, Pending(rows') \subseteq Pending(rows),
           \A i \in Pending(rows') : rows'[i].size = rows[i].size
    PROVE  PendingBytes(rows') \in Nat /\ PendingBytes(rows') <= PendingBytes(rows)
<1> DEFINE P == Pending(rows)
           Q == Pending(rows')
<1>1. IsFiniteSet(P) /\ Sized(rows, P) /\ Q \in SUBSET P
  BY SumsNat
<1>2. IsFiniteSet(Q) /\ Sized(rows, Q) /\ \A i \in Q : rows'[i].size = rows[i].size
  BY <1>1, FS_Subset DEF Sized
<1> HIDE DEF P, Q
<1>3. BytesOf(rows', Q) = BytesOf(rows, Q)
  BY <1>2, BytesOfSame
<1>4. \A T \in SUBSET P : /\ BytesOf(rows, T) \in Nat /\ BytesOf(rows, P \ T) \in Nat
                          /\ BytesOf(rows, P) = BytesOf(rows, T) + BytesOf(rows, P \ T)
  <2>1. IsFiniteSet(P) /\ Sized(rows, P)
    BY <1>1
  <2> QED BY <2>1, BytesOfParts
<1>5. /\ BytesOf(rows, Q) \in Nat /\ BytesOf(rows, P \ Q) \in Nat
      /\ BytesOf(rows, P) = BytesOf(rows, Q) + BytesOf(rows, P \ Q)
  BY <1>1, <1>4
<1> QED BY <1>3, <1>5 DEF PendingBytes, P, Q

\* A step that brings no pending row and lets no call pass keeps the bound.
LEMMA FitsSame ==
    ASSUME IInv, Fits, legacy' = legacy, nacks' = nacks,
           Pending(rows') \subseteq Pending(rows), \A i \in Pending(rows') : rows'[i].size = rows[i].size,
           Waiting' = Waiting, \A p \in Waiting : job'[p].size = job[p].size
    PROVE  Fits'
<1>1. Waiting \in SUBSET Producers
  BY DEF Waiting
<1>2. IsFiniteSet(Waiting) /\ Sized(job, Waiting) /\ BytesOf(job, Waiting) \in Nat
  BY <1>1, SumsNat
<1>3. BytesOf(job', Waiting) = BytesOf(job, Waiting)
  BY <1>2, BytesOfSame
<1>4. PendingBytes(rows') \in Nat /\ PendingBytes(rows') <= PendingBytes(rows) /\ PendingBytes(rows) \in Nat
  BY FewerBytes, SumsNat
<1>5. Room \in Nat /\ Room' = Room
  BY RoomNat, LimitsAssumption DEF Room
<1> QED BY <1>2, <1>3, <1>4, <1>5 DEF Fits

\* The call that passes has found that its event fits; each of the others that
\* passed before has one event.
LEMMA FitsPass ==
    ASSUME IInv, Calling, NEW p \in Producers, pc[p] # "insert", pc[p] # "idle", WouldBe(p) <= HardLimit,
           pc' = [pc EXCEPT ![p] = "insert"], job' = job, rows' = rows
    PROVE  Fits'
<1> DEFINE W == Waiting
<1>1. Waiting' = W \cup {p} /\ p \notin W /\ W \subseteq Producers \ {p}
  BY DEF Waiting, IInv, CallsOK
<1>2. /\ IsFiniteSet(W) /\ Sized(job, W) /\ BytesOf(job, W) \in Nat
      /\ IsFiniteSet(W \cup {p}) /\ Sized(job, W \cup {p})
  BY <1>1, SumsNat
<1>3. \A q \in W : job[q].size <= Max(Sizes)
  BY MaxSize DEF Waiting, Calling
<1> HIDE DEF W
<1>4. BytesOf(job, W) <= Cardinality(W) * Max(Sizes)
  BY <1>2, <1>3, MaxSize, BytesOfBound
<1>5. Cardinality(W) \in Nat /\ Cardinality(W) <= Cardinality(Producers) - 1
  <2>1. IsFiniteSet(Producers \ {p}) /\ Cardinality(Producers \ {p}) = Cardinality(Producers) - 1
    BY CallersAssumption, FS_RemoveElement
  <2>2. Cardinality(W) <= Cardinality(Producers \ {p})
    BY <1>1, <2>1, FS_Subset
  <2> QED BY <1>2, <2>1, <2>2, FS_CardinalityType
<1>6. \A a, b, m \in Nat : a <= b => a * m <= b * m /\ a * m \in Nat /\ b * m \in Nat
  OBVIOUS
<1>7. BytesOf(job, W) <= (Cardinality(Producers) - 1) * Max(Sizes)
  <2>1. Cardinality(Producers) - 1 \in Nat
    BY RoomNat
  <2>2. /\ Cardinality(W) * Max(Sizes) <= (Cardinality(Producers) - 1) * Max(Sizes)
        /\ Cardinality(W) * Max(Sizes) \in Nat /\ (Cardinality(Producers) - 1) * Max(Sizes) \in Nat
    BY <1>5, <1>6, <2>1, MaxSize
  <2> QED BY <1>2, <1>4, <2>2
<1>8. BytesOf(job, W \cup {p}) = job[p].size + BytesOf(job, W)
  <2>1. (W \cup {p}) \ {p} = W /\ p \in W \cup {p}
    BY <1>1
  <2>2. BytesOf(job, W \cup {p}) = job[p].size + BytesOf(job, (W \cup {p}) \ {p})
    BY <1>2, <2>1, BytesOfOneLess
  <2> QED BY <2>1, <2>2
<1>9. PendingBytes(rows) \in Nat /\ job[p].size \in Nat /\ PendingBytes(rows) + job[p].size <= HardLimit
  BY SumsNat DEF WouldBe, IInv, CallsOK, Event
<1>10. PendingBytes(rows) + BytesOf(job, W \cup {p}) <= Room
  BY <1>2, <1>7, <1>8, <1>9, RoomNat, LimitsAssumption DEF Room
<1>11. Room' = Room
  BY DEF Room
<1> QED BY <1>1, <1>10, <1>11 DEF Fits

\* The row takes the place of the event that waited.
LEMMA FitsInsert ==
    ASSUME IInv, Fits, NEW p \in Producers, InsertEvent(p)
    PROVE  Fits'
<1> USE DEF callerVars
<1> DEFINE W == Waiting
           P == Pending(rows)
<1>1. /\ legacy' = legacy /\ nacks' = nacks /\ p \in W /\ pc' = [pc EXCEPT ![p] = "idle"]
      /\ job' = [job EXCEPT ![p] = NoEvent] /\ W \in SUBSET Producers
  BY DEF InsertEvent, Return, Waiting
<1>2. Waiting' = W \ {p} /\ \A q \in W \ {p} : job'[q].size = job[q].size
  BY <1>1 DEF Waiting, IInv, CallsOK
<1>3. /\ IsFiniteSet(W) /\ Sized(job, W) /\ IsFiniteSet(W \ {p}) /\ Sized(job, W \ {p})
  BY <1>1, SumsNat
<1>4. nextId \notin DOMAIN rows /\ nextId \notin P
  BY DEF IInv, TableOK, Ids, Pending
<1>5. /\ DOMAIN rows' = DOMAIN rows \cup {nextId} /\ rows'[nextId].size = job[p].size
      /\ rows'[nextId].status = "pending" /\ \A i \in DOMAIN rows : rows'[i] = rows[i]
  BY <1>4 DEF InsertEvent, Insert
<1>6. Pending(rows') = P \cup {nextId}
  BY <1>4, <1>5 DEF Pending
<1>7. IsFiniteSet(P) /\ Sized(rows, P) /\ PendingBytes(rows) \in Nat /\ job[p].size \in Nat
  BY SumsNat DEF IInv, CallsOK, Event
<1>8. \A i \in P : rows'[i].size = rows[i].size
  BY <1>5 DEF Pending
<1> HIDE DEF W, P
<1>9. BytesOf(rows', P \cup {nextId}) = job[p].size + BytesOf(rows, P)
  <2>1. IsFiniteSet(P \cup {nextId}) /\ Sized(rows', P \cup {nextId})
    BY <1>5, <1>7, <1>8, FS_AddElement DEF Sized
  <2>2. (P \cup {nextId}) \ {nextId} = P /\ nextId \in P \cup {nextId}
    BY <1>4
  <2>3. BytesOf(rows', P \cup {nextId}) = rows'[nextId].size + BytesOf(rows', (P \cup {nextId}) \ {nextId})
    BY <2>1, <2>2, BytesOfOneLess
  <2>4. BytesOf(rows', P) = BytesOf(rows, P)
    BY <1>7, <1>8, BytesOfSame
  <2> QED BY <1>5, <2>2, <2>3, <2>4
<1>10. BytesOf(job, W) = job[p].size + BytesOf(job, W \ {p}) /\ BytesOf(job, W \ {p}) \in Nat
  BY <1>1, <1>3, BytesOfOneLess
<1>11. BytesOf(job', W \ {p}) = BytesOf(job, W \ {p})
  BY <1>2, <1>3, BytesOfSame
<1>12. PendingBytes(rows') + BytesOf(job', Waiting') = PendingBytes(rows) + BytesOf(job, W)
  <2>1. PendingBytes(rows') = job[p].size + PendingBytes(rows)
    BY <1>6, <1>9 DEF PendingBytes, P
  <2>2. BytesOf(job', Waiting') = BytesOf(job, W \ {p})
    BY <1>2, <1>11
  <2> QED BY <1>7, <1>10, <2>1, <2>2
<1>13. Room' = Room
  BY DEF Room
<1> QED BY <1>1, <1>12, <1>13 DEF Fits, W

LEMMA FitsKept == IInv /\ TalliesOK /\ Calling /\ Fits /\ [Next]_vars => Fits'
<1> SUFFICES ASSUME IInv, TalliesOK, Calling, Fits, [Next]_vars PROVE Fits'
  OBVIOUS
<1> USE DEF callerVars, enqueueVars
<1>1. ASSUME NEW p \in Producers, NEW e \in Events, Enqueue(p, e) PROVE Fits'
  BY <1>1 DEF Enqueue, Fits
<1>2. ASSUME NEW p \in Producers, NEW e \in Events, EnqueueWithPressure(p, e) PROVE Fits'
  <2>1. /\ pc[p] = "idle" /\ job' = [job EXCEPT ![p] = e] /\ rows' = rows /\ legacy' = legacy /\ nacks' = nacks
        /\ pc'[p] \in {"evict_ln", "stats"} /\ \A q \in Producers : q # p => pc'[q] = pc[q]
    BY <1>2 DEF EnqueueWithPressure, Start, IInv, CallsOK
  <2>2. Waiting' = Waiting /\ p \notin Waiting /\ Waiting \subseteq Producers
    BY <2>1 DEF Waiting
  <2>3. \A q \in Waiting : job'[q].size = job[q].size
    BY <2>1, <2>2 DEF IInv, CallsOK
  <2> QED BY <2>1, <2>2, <2>3, FitsSame
<1>3. ASSUME NEW p \in Producers, EvictSelect(p) \/ EvictDelete(p) PROVE Fits'
  <2>1. legacy /\ legacy' = legacy
    BY <1>3 DEF EvictSelect, EvictDelete, Calling
  <2> QED BY <2>1, Zenon DEF Fits
<1>4. ASSUME NEW p \in Producers, NEW n, n # "insert",
             pc[p] \notin {"idle", "insert"}, pc' = [pc EXCEPT ![p] = n],
             \A q \in Producers : q # p => job'[q] = job[q], legacy' = legacy, nacks' = nacks,
             NEW S, rows' = rows \/ rows' = Delete(rows, S)
      PROVE  Fits'
  <2>1. Waiting' = Waiting /\ p \notin Waiting /\ Waiting \subseteq Producers
    BY <1>4 DEF Waiting, IInv, CallsOK
  <2>2. Pending(rows') \subseteq Pending(rows) /\ \A i \in Pending(rows') : rows'[i].size = rows[i].size
    BY <1>4 DEF Delete, Restrict, Pending
  <2>3. \A q \in Waiting : job'[q].size = job[q].size
    BY <1>4, <2>1
  <2> QED BY <1>4, <2>1, <2>2, <2>3, FitsSame
<1>5. ASSUME NEW p \in Producers, EvictLowAndNormal(p) \/ EvictAll(p) PROVE Fits'
  <2>1. PICK S : rows' = Delete(rows, S)
    BY <1>5 DEF EvictLowAndNormal, EvictAll, EvictTx
  <2>2. pc[p] \in {"evict_ln", "evict_all"} /\ job' = job /\ legacy' = legacy /\ nacks' = nacks
    BY <1>5 DEF EvictLowAndNormal, EvictAll
  <2>3. \E n \in {"stats", "recheck", "refuse", "count_ln", "count_all", "count_floor"} : pc' = [pc EXCEPT ![p] = n]
    BY <1>5, Zenon DEF EvictLowAndNormal, EvictAll, Counting, AfterCount
  <2> QED BY <1>4, <2>1, <2>2, <2>3
<1>6. ASSUME NEW p \in Producers, Return(p) PROVE pc' = [pc EXCEPT ![p] = "idle"] /\ \A q \in Producers : q # p => job'[q] = job[q]
  BY <1>6 DEF Return, IInv, CallsOK
<1>7. ASSUME NEW p \in Producers, CheckHardLimit(p) PROVE Fits'
  <2>1. pc[p] = "stats" /\ rows' = rows /\ legacy' = legacy /\ nacks' = nacks
    BY <1>7 DEF CheckHardLimit
  <2>2. CASE Return(p)
    BY <1>4, <1>6, <2>1, <2>2
  <2>3. CASE job' = job /\ pc' = [pc EXCEPT ![p] = "evict_all"]
    BY <1>4, <2>1, <2>3
  <2>4. CASE WouldBe(p) <= HardLimit /\ job' = job /\ pc' = [pc EXCEPT ![p] = "insert"]
    BY <2>1, <2>4, FitsPass
  <2> QED BY <1>7, <2>2, <2>3, <2>4 DEF CheckHardLimit
<1>8. ASSUME NEW p \in Producers, CountEvicted(p) PROVE Fits'
  <2>1. rows' = rows /\ job' = job /\ legacy' = legacy /\ nacks' = nacks
        /\ pc[p] \in {"count_ln", "count_all", "count_floor"} /\ AfterCount[pc[p]] \in {"stats", "recheck", "refuse"}
    BY <1>8 DEF CountEvicted, AfterCount
  <2>2. pc' = [pc EXCEPT ![p] = pc[p]] \/ pc' = [pc EXCEPT ![p] = AfterCount[pc[p]]]
    BY <1>8 DEF CountEvicted
  <2> QED BY <1>4, <2>1, <2>2
<1>9. ASSUME NEW p \in Producers, RecheckHardLimit(p) \/ Refuse(p) PROVE Fits'
  <2>1. pc[p] \in {"recheck", "refuse"} /\ rows' = rows /\ legacy' = legacy /\ nacks' = nacks
    BY <1>9 DEF RecheckHardLimit, Refuse
  <2>2. CASE Refuse(p)
    BY <1>4, <1>6, <2>1, <2>2 DEF Refuse
  <2>3. CASE RecheckHardLimit(p) /\ WouldBe(p) <= HardLimit
    BY <2>1, <2>3, FitsPass DEF RecheckHardLimit
  <2>4. CASE RecheckHardLimit(p) /\ ~(WouldBe(p) <= HardLimit)
    BY <1>4, <2>1, <2>4 DEF RecheckHardLimit
  <2> QED BY <1>9, <2>2, <2>3, <2>4
<1>10. ASSUME NEW S, rows' = rows \/ rows' = Delete(rows, S) \/ rows' = MarkInFlight(rows, up.ids, up.batch),
              pc' = pc, job' = job, legacy' = legacy, nacks' = nacks
       PROVE  Fits'
  <2>1. Pending(rows') \subseteq Pending(rows) /\ \A i \in Pending(rows') : rows'[i].size = rows[i].size
    <3>1. \A i \in DOMAIN rows : rows[i] \in Row
      BY DEF IInv, TableOK
    <3> QED BY <1>10, <3>1 DEF Delete, Restrict, MarkInFlight, Pending, Row
  <2>2. Waiting' = Waiting
    BY <1>10 DEF Waiting
  <2> QED BY <1>10, <2>1, <2>2, FitsSame
<1>11. ASSUME NEW b \in held, Ack(b) PROVE Fits'
  BY <1>10, <1>11 DEF Ack, AckBatch
<1>12. ASSUME NEW b \in held, Nack(b) PROVE Fits'
  BY <1>12 DEF Nack, Fits, TalliesOK
<1>13. CASE DequeueSelect \/ DequeueEmpty \/ DequeueUpdate \/ DequeueFetch \/ DequeueFails \/ Vacuum \/ UNCHANGED vars
  BY <1>10, <1>13 DEF DequeueSelect, DequeueEmpty, DequeueUpdate, DequeueFetch, DequeueFails, Vacuum, vars
<1> QED BY <1>1, <1>2, <1>3, <1>5, <1>7, <1>8, <1>9, <1>11, <1>12, <1>13, FitsInsert
        DEF Next, LegacyEnqueue, PressureEnqueue, Uploader

\* The whole invariant of the queue.
QInv == IInv /\ TalliesOK /\ Calling /\ EvictionsAccounted /\ Fits

LEMMA InitQInv == Init => QInv
<1> SUFFICES ASSUME Init PROVE QInv
  OBVIOUS
<1>1. TalliesOK
  <2>1. legacy \in BOOLEAN
    BY Zenon DEF Init
  <2>2. calls \in 0 .. MaxEvents /\ nacks \in 0 .. MaxNacks /\ dbBytes \in Nat /\ rejected \in Nat
    BY BoundsAssumption DEF Init
  <2>3. counters \in [{High, Normal, Low} -> Nat] /\ inserted \in [Priority -> Nat] /\ acked \in [Priority -> Nat]
        /\ report \in [Producers -> [{High, Normal, Low} -> Nat]]
    BY DEF Init, NoReport
  <2> QED BY <2>1, <2>2, <2>3, Zenon DEF TalliesOK
<1>2. Calling
  BY DEF Init, Calling
<1>3. EvictionsAccounted
  <2>1. \A l \in Priority : Present(l) = 0
    <3>1. DOMAIN rows = {}
      BY DEF Init, NoRows
    <3>2. \A l \in Priority : {i \in DOMAIN rows : rows[i].prio = l} = {}
      BY <3>1
    <3> QED BY <3>2, FS_EmptySet DEF Present
  <2>2. Critical \in Priority /\ High \in Priority /\ Low \in Priority /\ Normal \in Priority
    BY DEF Priority
  <2>3. /\ \A l \in Priority : inserted[l] = 0 /\ acked[l] = 0
    BY DEF Init
  <2>4. ASSUME NEW l \in {High, Normal, Low} PROVE Evicted(l) = 0
    <3>1. \A p \in Producers : Reported(l)[p].size = 0 /\ report[p][l] = 0
      BY DEF Init, NoReport, Reported
    <3>2. IsFiniteSet(Producers) /\ Sized(Reported(l), Producers)
      BY <3>1, CallersAssumption DEF Sized
    <3>3. BytesOf(Reported(l), Producers) <= Cardinality(Producers) * 0 /\ BytesOf(Reported(l), Producers) \in Nat
      BY <3>1, <3>2, BytesOfBound, BytesOfNat
    <3>4. Cardinality(Producers) * 0 = 0
      BY RoomNat
    <3>5. ReportSum(l) = 0
      BY <3>1, <3>3, <3>4, ReportSumIs
    <3>6. counters[l] = 0
      BY DEF Init
    <3> QED BY <3>5, <3>6 DEF Evicted, ReportSum
  <2> QED BY <2>1, <2>2, <2>3, <2>4 DEF EvictionsAccounted
<1>4. Fits
  <2>1. Waiting = {} /\ Pending(rows) = {}
    BY DEF Init, Waiting, NoRows, Pending
  <2>2. BytesOf(job, {}) = 0 /\ BytesOf(rows, {}) = 0
    BY BytesOfNone
  <2>3. Room \in Nat
    BY RoomNat, LimitsAssumption DEF Room
  <2> QED BY <2>1, <2>2, <2>3 DEF Fits, PendingBytes
<1> QED BY <1>1, <1>2, <1>3, <1>4, InitIInv DEF QInv

LEMMA NextQInv == QInv /\ [Next]_vars => QInv'
BY NextIInv, TalliesKept, CallingKept, AccountKept, FitsKept DEF QInv

\* Whatever calls run together: the table is sound, every Critical or High event
\* that came is in it, acked or counted (and without enqueue every other one too),
\* and without enqueue and nacks the pending bytes exceed the hard limit by no more
\* than one event of each further thread (queue.rs).
THEOREM QueueHolds == Spec => []Accounted
<1>1. QInv => Accounted
  BY FitsIsBounded DEF QInv, Accounted, Sound, TypeOK, IInv
<1> QED BY <1>1, InitQInv, NextQInv, PTL DEF Spec
-----------------------------------------------------------------------------
(* Roles and routes (Access). *)

\* Among these routes there is one of this name with this gate.
Gated(routes, n, gate) == \E r \in routes : r.name = n /\ gate \in r.gates

LEMMA OnlyGated ==
    ASSUME NEW names, NEW gate, NEW n \in names
    PROVE  Gated(Only(names, gate), n, gate)
<1> DEFINE r == [name |-> n, gates |-> {gate}]
<1>1. r \in Only(names, gate)
  BY DEF Only
<1> QED BY <1>1 DEF Gated

LEMMA UnderGated ==
    ASSUME NEW routes, NEW gate, NEW s \in routes
    PROVE  Gated(Under(gate, routes), s.name, gate)
<1> DEFINE r == [name |-> s.name, gates |-> {gate} \cup s.gates]
<1>1. r \in Under(gate, routes)
  BY DEF Under
<1> QED BY <1>1 DEF Gated

LEMMA UnderPlainGated ==
    ASSUME NEW names, NEW gate, NEW n \in names
    PROVE  Gated(Under(gate, Plain(names)), n, gate)
<1> DEFINE r == [name |-> n, gates |-> {}]
<1>1. r \in Plain(names)
  BY DEF Plain
<1> QED BY <1>1, UnderGated

LEMMA UnderKeepsGate ==
    ASSUME NEW routes, NEW group, NEW n, NEW gate, Gated(routes, n, gate)
    PROVE  Gated(Under(group, routes), n, gate)
<1>1. PICK s \in routes : s.name = n /\ gate \in s.gates
  BY DEF Gated
<1> DEFINE r == [name |-> s.name, gates |-> {group} \cup s.gates]
<1>2. r \in Under(group, routes)
  BY DEF Under
<1> QED BY <1>1, <1>2 DEF Gated

LEMMA UnionGated ==
    ASSUME NEW a, NEW b, NEW n, NEW gate, Gated(a, n, gate) \/ Gated(b, n, gate)
    PROVE  Gated(a \cup b, n, gate)
BY DEF Gated

LEMMA GatedGates ==
    ASSUME NEW g, NEW n, NEW gate, Gated(Router[g], n, gate)
    PROVE  gate \in Gates(<<g, n>>)
BY DEF Gates, Gated

\* A gate of some names in a group, or of a group and all its names.
GateOf(g, names, gate) == \A n \in names : gate \in Gates(<<g, n>>)

\* Routes of all these names.
Has(routes, names) == \A n \in names : \E s \in routes : s.name = n

LEMMA PlainHas == \A names : Has(Plain(names), names)
<1> SUFFICES ASSUME NEW names, NEW n \in names PROVE \E s \in Plain(names) : s.name = n
  BY DEF Has
<1> DEFINE r == [name |-> n, gates |-> {}]
<1>1. r \in Plain(names) /\ r.name = n
  BY DEF Plain
<1> QED BY <1>1

LEMMA OnlyHas == \A names, gate : Has(Only(names, gate), names)
<1> SUFFICES ASSUME NEW names, NEW gate, NEW n \in names PROVE \E s \in Only(names, gate) : s.name = n
  BY DEF Has
<1> DEFINE r == [name |-> n, gates |-> {gate}]
<1>1. r \in Only(names, gate) /\ r.name = n
  BY DEF Only
<1> QED BY <1>1

LEMMA UnderPart ==
    ASSUME NEW routes, NEW names, NEW gate, Has(routes, names)
    PROVE  \A n \in names : Gated(Under(gate, routes), n, gate)
BY UnderGated DEF Has

\* Groups under one gate.
LEMMA PeopleGates ==
    /\ GateOf("users", {"list", "create", "get", "update", "delete", "role", "disable"}, {"admin", "dpo"})
    /\ GateOf("employees", {"overview", "detail"}, Roles \ {"employee", "dlp_admin"})
    /\ GateOf("legal_holds", {"place", "list", "get", "release"}, {"dpo"})
    /\ GateOf("people", {"screenshots", "screenshot_url"}, Can("read", "screenshot"))
    /\ GateOf("people", {"silence", "timeline", "acknowledge_silence"}, {"admin", "manager", "dpo"})
    /\ GateOf("people", {"me", "my_live_views", "my_dsr", "acknowledge"}, {"employee", "admin", "dpo"})
<1>1. GateOf("users", {"list", "create", "get", "update", "delete", "role", "disable"}, {"admin", "dpo"})
  <2>1. Router["users"] = Under({"admin", "dpo"}, Plain({"list", "create", "get", "update", "delete", "role", "disable"}))
    BY DEF Router, Users
  <2> QED BY <2>1, UnderPlainGated, GatedGates DEF GateOf
<1>2. GateOf("employees", {"overview", "detail"}, Roles \ {"employee", "dlp_admin"})
  <2>1. Router["employees"] = Under(Roles \ {"employee", "dlp_admin"}, Plain({"overview", "detail"}))
    BY DEF Router, Employees
  <2> QED BY <2>1, UnderPlainGated, GatedGates DEF GateOf
<1>3. GateOf("legal_holds", {"place", "list", "get", "release"}, {"dpo"})
  <2>1. Router["legal_holds"] = Under({"dpo"}, Plain({"place", "list", "get", "release"}))
    BY DEF Router, LegalHolds
  <2> QED BY <2>1, UnderPlainGated, GatedGates DEF GateOf
<1>4. GateOf("people", {"screenshots", "screenshot_url"}, Can("read", "screenshot"))
  <2>1. \A n \in {"screenshots", "screenshot_url"} : Gated(Router["people"], n, Can("read", "screenshot"))
    BY UnderPlainGated, UnionGated DEF Router, People
  <2> QED BY <2>1, GatedGates DEF GateOf
<1>5. GateOf("people", {"silence", "timeline", "acknowledge_silence"}, {"admin", "manager", "dpo"})
  <2>1. \A n \in {"silence", "timeline", "acknowledge_silence"} : Gated(Router["people"], n, {"admin", "manager", "dpo"})
    BY OnlyGated, UnionGated DEF Router, People
  <2> QED BY <2>1, GatedGates DEF GateOf
<1>6. GateOf("people", {"me", "my_live_views", "my_dsr", "acknowledge"}, {"employee", "admin", "dpo"})
  <2>1. \A n \in {"me", "my_live_views", "my_dsr", "acknowledge"} : Gated(Router["people"], n, {"employee", "admin", "dpo"})
    BY OnlyGated, UnionGated DEF Router, People
  <2> QED BY <2>1, GatedGates DEF GateOf
<1> QED BY <1>1, <1>2, <1>3, <1>4, <1>5, <1>6

LEMMA FleetGates ==
    /\ GateOf("endpoints", {"list", "enroll", "get", "delete", "revoke"}, {"admin", "dpo"})
    /\ GateOf("endpoints", {"bulk", "deactivate", "wipe", "refresh_token", "commands"}, {"admin", "dpo"})
    /\ GateOf("policies", {"list", "create", "get", "update", "delete", "push", "preview"}, {"admin"})
<1> DEFINE P == Plain({"list", "enroll", "get", "delete", "revoke"})
           A == Only({"bulk", "deactivate"}, {"admin", "it_manager"})
           W == Only({"wipe"}, {"admin", "it_manager", "investigator"})
           C == Only({"refresh_token", "commands"}, {"admin", "it_manager", "it_operator"})
           G == {"admin", "dpo"}
           All == P \cup A \cup W \cup C
           PP == Plain({"list", "create", "get", "update", "delete", "push"})
           PV == Only({"preview"}, {"admin", "manager", "dpo", "auditor"})
<1>1. Router["endpoints"] = Under(G, All)
  BY DEF Router, Endpoints
<1>2. /\ Has(P, {"list", "enroll", "get", "delete", "revoke"})
      /\ Has(A, {"bulk", "deactivate"})
      /\ Has(W, {"wipe"})
      /\ Has(C, {"refresh_token", "commands"})
  BY PlainHas, OnlyHas
<1>3. P \subseteq All /\ A \subseteq All /\ W \subseteq All /\ C \subseteq All
  OBVIOUS
<1>4. Router["policies"] = Under({"admin"}, PP \cup PV)
  BY DEF Router, Policies
<1>5. /\ Has(PP, {"list", "create", "get", "update", "delete", "push"})
      /\ Has(PV, {"preview"})
  BY PlainHas, OnlyHas
<1> HIDE DEF P, A, W, C, G, All, PP, PV
<1>6. \A n \in {"list", "enroll", "get", "delete", "revoke"} : Gated(Router["endpoints"], n, G)
  <2>1. Has(All, {"list", "enroll", "get", "delete", "revoke"})
    BY <1>2, <1>3 DEF Has
  <2> QED BY <1>1, <2>1, UnderPart
<1>7. \A n \in {"bulk", "deactivate", "wipe", "refresh_token", "commands"} : Gated(Router["endpoints"], n, G)
  <2>1. Has(All, {"bulk", "deactivate", "wipe", "refresh_token", "commands"})
    BY <1>2, <1>3 DEF Has
  <2> QED BY <1>1, <2>1, UnderPart
<1>8. \A n \in {"list", "create", "get", "update", "delete", "push", "preview"} : Gated(Router["policies"], n, {"admin"})
  <2>1. Has(PP \cup PV, {"list", "create", "get", "update", "delete", "push", "preview"})
    BY <1>5 DEF Has
  <2> QED BY <1>4, <2>1, UnderPart
<1> QED BY <1>6, <1>7, <1>8, GatedGates DEF GateOf, G

LEMMA RecordGates ==
    /\ GateOf("dsr", {"list", "get", "assign", "respond", "extend", "reject", "fulfill_access"}, {"dpo", "admin"})
    /\ GateOf("dsr", {"fulfill_erasure"}, {"dpo"})
    /\ GateOf("records", {"evidence_pack"}, {"dpo"})
    /\ GateOf("records", {"list_destructions", "get_destruction", "generate_destruction"}, {"dpo", "admin"})
    /\ GateOf("reports", {"pg", "trends", "ch", "risk_score"}, {"admin", "manager", "dpo", "auditor"})
    /\ GateOf("search", {"audit"}, {"admin", "dpo", "investigator", "auditor"})
    /\ GateOf("search", {"preview"}, {"admin", "manager", "hr", "dpo", "auditor", "it_manager"})
<1> DEFINE D == {"dpo", "admin"}
           DP == Plain({"list", "get", "assign", "respond", "extend", "reject"})
           DA == Only({"fulfill_access"}, D)
           DE == Only({"fulfill_erasure"}, {"dpo"})
<1>1. Router["dsr"] = Plain({"submit"}) \cup Under(D, DP \cup DA \cup DE)
  BY DEF Router, Dsr
<1>2. /\ Has(DP, {"list", "get", "assign", "respond", "extend", "reject"})
      /\ Has(DA, {"fulfill_access"})
  BY PlainHas, OnlyHas
<1>3. \A n \in {"list", "get", "assign", "respond", "extend", "reject", "fulfill_access"} : Gated(Under(D, DP \cup DA \cup DE), n, D)
  <2> HIDE DEF D, DP, DA, DE
  <2>1. Has(DP \cup DA \cup DE, {"list", "get", "assign", "respond", "extend", "reject", "fulfill_access"})
    BY <1>2 DEF Has
  <2> QED BY <2>1, UnderPart
<1>5. Gated(Under(D, DP \cup DA \cup DE), "fulfill_erasure", {"dpo"})
  BY OnlyGated, UnionGated, UnderKeepsGate
<1>6. /\ GateOf("dsr", {"list", "get", "assign", "respond", "extend", "reject", "fulfill_access"}, D)
      /\ GateOf("dsr", {"fulfill_erasure"}, {"dpo"})
  <2> HIDE DEF D, DP, DA, DE
  <2> QED BY <1>1, <1>3, <1>5, UnionGated, GatedGates DEF GateOf
<1>7. /\ GateOf("records", {"evidence_pack"}, {"dpo"})
      /\ GateOf("records", {"list_destructions", "get_destruction", "generate_destruction"}, {"dpo", "admin"})
  <2>1. /\ Gated(Router["records"], "evidence_pack", {"dpo"})
        /\ \A n \in {"list_destructions", "get_destruction", "generate_destruction"} : Gated(Router["records"], n, {"dpo", "admin"})
    BY OnlyGated, UnionGated DEF Router, Records
  <2> QED BY <2>1, GatedGates DEF GateOf
<1>8. GateOf("reports", {"pg", "trends", "ch", "risk_score"}, {"admin", "manager", "dpo", "auditor"})
  <2> DEFINE R == {"admin", "manager", "dpo", "auditor"}
             H == {"admin", "manager", "hr", "dpo", "investigator"}
             RP == Plain({"pg", "trends"})
             RC == Plain({"ch"}) \cup Only({"risk_score"}, {"admin", "dpo", "investigator"})
  <2>1. Router["reports"] = Under(R, RP \cup Under(H, RC))
    BY DEF Router, Reports
  <2>2. Has(RP, {"pg", "trends"})
    BY PlainHas, OnlyHas
  <2>3. Has(RP \cup Under(H, RC), {"ch", "risk_score"})
    <3> DEFINE c == [name |-> "ch", gates |-> {}]
               k == [name |-> "risk_score", gates |-> {{"admin", "dpo", "investigator"}}]
    <3>1. c \in RC /\ k \in RC
      BY DEF Plain, Only
    <3>2. Gated(Under(H, RC), "ch", H) /\ Gated(Under(H, RC), "risk_score", H)
      BY <3>1, UnderGated
    <3> QED BY <3>2 DEF Gated, Has
  <2> HIDE DEF R, H, RP, RC
  <2>4. Has(RP \cup Under(H, RC), {"pg", "trends", "ch", "risk_score"})
    BY <2>2, <2>3 DEF Has
  <2>5. \A n \in {"pg", "trends", "ch", "risk_score"} : Gated(Router["reports"], n, R)
    BY <2>1, <2>4, UnderPart
  <2> QED BY <2>5, GatedGates DEF GateOf, R
<1>9. /\ GateOf("search", {"audit"}, {"admin", "dpo", "investigator", "auditor"})
      /\ GateOf("search", {"preview"}, {"admin", "manager", "hr", "dpo", "auditor", "it_manager"})
  <2>1. /\ Gated(Router["search"], "audit", {"admin", "dpo", "investigator", "auditor"})
        /\ Gated(Router["search"], "preview", {"admin", "manager", "hr", "dpo", "auditor", "it_manager"})
    BY OnlyGated, UnionGated DEF Router, Searches
  <2> QED BY <2>1, GatedGates DEF GateOf
<1> QED BY <1>6, <1>7, <1>8, <1>9

LEMMA SystemGates ==
    /\ GateOf("system", {"dlp_state"}, Roles \ {"it_operator", "it_manager"})
    /\ GateOf("system", {"dlp_bootstrap"}, {"dlp_admin"})
    /\ GateOf("mobile", {"pending", "dsr_queue", "silence", "module_state"},
              {"admin", "manager", "hr", "dpo", "investigator", "auditor"})
    /\ GateOf("mobile", {"dlp_transition"}, {"dlp_admin"})
<1>1. /\ GateOf("system", {"dlp_state"}, Roles \ {"it_operator", "it_manager"})
      /\ GateOf("system", {"dlp_bootstrap"}, {"dlp_admin"})
  <2>1. /\ Gated(Router["system"], "dlp_state", Roles \ {"it_operator", "it_manager"})
        /\ Gated(Router["system"], "dlp_bootstrap", {"dlp_admin"})
    BY OnlyGated, UnionGated DEF Router, System
  <2> QED BY <2>1, GatedGates DEF GateOf
<1> DEFINE M == {"admin", "manager", "hr", "dpo", "investigator", "auditor"}
           N == {"summary", "push_tokens", "pending", "dsr_queue", "silence"}
           MP == Plain(N)
           MT == Only({"dlp_transition"}, {"dlp_admin"})
           MS == Only({"module_state"}, Roles \ {"it_operator", "it_manager"})
<1>2. Router["mobile"] = Under(M, MP \cup MT \cup MS)
  BY DEF Router, Mobile
<1>3. Has(MP, N) /\ Has(MS, {"module_state"})
  BY PlainHas, OnlyHas
<1>4. \A n \in N \cup {"module_state"} : Gated(Router["mobile"], n, M)
  <2> HIDE DEF N, M, MP, MT, MS
  <2>1. Has(MP \cup MT \cup MS, N \cup {"module_state"})
    BY <1>3 DEF Has
  <2> QED BY <1>2, <2>1, UnderPart
<1>5. Gated(Router["mobile"], "dlp_transition", {"dlp_admin"})
  BY <1>2, OnlyGated, UnionGated, UnderKeepsGate
<1> QED BY <1>1, <1>4, <1>5, GatedGates DEF GateOf

\* The checks of the services that a reservation rests on.
LEMMA ServicesAsk ==
    /\ {"dpo"} \in Checks(<<"records", "download_destruction">>)
    /\ Can("request", "live_view") \in Checks(<<"live_view", "request">>)
    /\ {"it_manager", "admin"} \in Checks(<<"live_view", "approve">>)
    /\ {"it_manager", "admin"} \in Checks(<<"live_view", "reject">>)
    /\ {"admin", "it_manager", "dpo"} \in Checks(<<"live_view", "terminate">>)
    /\ {"dpo"} \in Checks(<<"pipeline", "dlq_all_tenants">>)
    /\ {"dpo"} \in Checks(<<"pipeline", "replay_all_tenants">>)
    /\ {"admin", "dpo", "investigator", "auditor"} \in Checks(<<"v1", "audit_stream">>)
    /\ {"dpo"} \in Checks(<<"v1", "audit_stream_all_tenants">>)
BY DEF Checks, RecordChecks, LiveViewChecks, ApproverCheck, PipelineChecks, StreamChecks

\* No two hard rules are about the same operation on the same resource.
LEMMA RuleDecides == \A op, res, rs : <<op, res, rs>> \in HardRules => Can(op, res) = rs
<1> SUFFICES ASSUME NEW op, NEW res, NEW rs, <<op, res, rs>> \in HardRules
             PROVE  Can(op, res) = rs
  OBVIOUS
<1>1. \A h \in HardRules : h[1] = op /\ h[2] = res => h[3] = rs
  BY DEF HardRules
<1>2. \E h \in HardRules : h[1] = op /\ h[2] = res
  OBVIOUS
<1> QED BY <1>1, <1>2 DEF Can

\* What the hard rules of the matrix say.
LEMMA RuledMatrix ==
    /\ {"dpo"} = Can("write", "legal_hold") /\ {"dpo"} = Can("delete", "legal_hold")
    /\ {"dpo"} = Can("download", "destruction_report") /\ {"dpo"} = Can("write", "dsr")
    /\ {"it_manager", "admin"} = Can("approve", "live_view")
    /\ {"it_manager", "admin"} = Can("reject", "live_view")
    /\ {"admin", "it_manager", "dpo"} = Can("terminate", "live_view")
    /\ {"auditor", "dpo"} = Can("read", "audit_log")
<1>1. /\ {"dpo"} = Can("write", "legal_hold") /\ {"dpo"} = Can("delete", "legal_hold")
      /\ {"dpo"} = Can("download", "destruction_report") /\ {"dpo"} = Can("write", "dsr")
  <2>1. /\ <<"write", "legal_hold", {"dpo"}>> \in HardRules
        /\ <<"delete", "legal_hold", {"dpo"}>> \in HardRules
        /\ <<"download", "destruction_report", {"dpo"}>> \in HardRules
        /\ <<"write", "dsr", {"dpo"}>> \in HardRules
    BY DEF HardRules
  <2> QED BY <2>1, RuleDecides
<1>2. /\ {"it_manager", "admin"} = Can("approve", "live_view")
      /\ {"it_manager", "admin"} = Can("reject", "live_view")
      /\ {"admin", "it_manager", "dpo"} = Can("terminate", "live_view")
      /\ {"auditor", "dpo"} = Can("read", "audit_log")
  <2>1. /\ <<"approve", "live_view", {"it_manager", "admin"}>> \in HardRules
        /\ <<"reject", "live_view", {"it_manager", "admin"}>> \in HardRules
        /\ <<"terminate", "live_view", {"it_manager", "admin", "dpo"}>> \in HardRules
        /\ <<"read", "audit_log", {"auditor", "dpo"}>> \in HardRules
    BY DEF HardRules
  <2> QED BY <2>1, RuleDecides
<1> QED BY <1>1, <1>2

\* What it grants where no rule decides.
LEMMA GrantedMatrix ==
    /\ \A op \in {"read", "write", "delete"}, res \in {"user", "endpoint", "policy"} :
         {"admin", "dpo"} \subseteq Can(op, res)
    /\ Roles \ {"employee", "dlp_admin"} \subseteq Can("read", "employee")
    /\ {"dpo"} \subseteq Can("read", "dsr") /\ {"dpo"} \subseteq Can("request", "dsr")
    /\ {"employee"} \subseteq Can("request", "dsr")
    /\ {"dpo"} \subseteq Can("read", "legal_hold")
    /\ {"dpo"} \subseteq Can("read", "destruction_report") /\ {"dpo"} \subseteq Can("write", "destruction_report")
    /\ {"admin", "manager", "hr", "dpo", "auditor", "it_manager"} \subseteq Can("read", "report")
    /\ {"admin", "manager", "dpo"} \subseteq Can("read", "silence") /\ {"dpo"} \subseteq Can("write", "silence")
    /\ {"employee"} \subseteq Can("read", "my_data") /\ {"employee"} \subseteq Can("write", "my_data")
    /\ Roles \ {"it_operator", "it_manager"} \subseteq Can("read", "dlp_state")
    /\ {"dlp_admin"} \subseteq Can("write", "dlp_state")
    /\ {"admin", "manager", "dpo", "investigator"} \subseteq Can("read", "live_view")
<1>0. ASSUME NEW op, NEW res, \A h \in HardRules : ~ (h[1] = op /\ h[2] = res)
      PROVE  Can(op, res) = {r \in Roles : Granted(r, op, res)}
  BY <1>0 DEF Can
<1>1. ASSUME NEW op \in {"read", "write", "delete"}, NEW res \in {"user", "endpoint", "policy"}
      PROVE  {"admin", "dpo"} \subseteq Can(op, res)
  <2>1. Can(op, res) = {r \in Roles : Granted(r, op, res)}
    BY <1>0 DEF HardRules
  <2> QED BY <2>1 DEF Granted, Roles
<1>2. /\ Roles \ {"employee", "dlp_admin"} \subseteq Can("read", "employee")
      /\ {"admin", "manager", "hr", "dpo", "auditor", "it_manager"} \subseteq Can("read", "report")
  <2>1. /\ Can("read", "employee") = {r \in Roles : Granted(r, "read", "employee")}
        /\ Can("read", "report") = {r \in Roles : Granted(r, "read", "report")}
    BY <1>0 DEF HardRules
  <2> QED BY <2>1 DEF Granted, Roles
<1>3. /\ {"dpo"} \subseteq Can("read", "dsr") /\ {"dpo"} \subseteq Can("request", "dsr")
      /\ {"employee"} \subseteq Can("request", "dsr")
      /\ {"dpo"} \subseteq Can("read", "legal_hold")
  <2>1. /\ Can("read", "dsr") = {r \in Roles : Granted(r, "read", "dsr")}
        /\ Can("request", "dsr") = {r \in Roles : Granted(r, "request", "dsr")}
        /\ Can("read", "legal_hold") = {r \in Roles : Granted(r, "read", "legal_hold")}
    BY <1>0 DEF HardRules
  <2> QED BY <2>1 DEF Granted, Roles
<1>4. /\ {"dpo"} \subseteq Can("read", "destruction_report") /\ {"dpo"} \subseteq Can("write", "destruction_report")
      /\ {"admin", "manager", "dpo"} \subseteq Can("read", "silence") /\ {"dpo"} \subseteq Can("write", "silence")
  <2>1. /\ Can("read", "destruction_report") = {r \in Roles : Granted(r, "read", "destruction_report")}
        /\ Can("write", "destruction_report") = {r \in Roles : Granted(r, "write", "destruction_report")}
        /\ Can("read", "silence") = {r \in Roles : Granted(r, "read", "silence")}
        /\ Can("write", "silence") = {r \in Roles : Granted(r, "write", "silence")}
    BY <1>0 DEF HardRules
  <2> QED BY <2>1 DEF Granted, Roles
<1>5. /\ {"employee"} \subseteq Can("read", "my_data") /\ {"employee"} \subseteq Can("write", "my_data")
      /\ {"dlp_admin"} \subseteq Can("write", "dlp_state")
  <2>1. /\ Can("read", "my_data") = {r \in Roles : Granted(r, "read", "my_data")}
        /\ Can("write", "my_data") = {r \in Roles : Granted(r, "write", "my_data")}
        /\ Can("write", "dlp_state") = {r \in Roles : Granted(r, "write", "dlp_state")}
    BY <1>0 DEF HardRules
  <2> QED BY <2>1 DEF Granted, Roles
<1>6. /\ Roles \ {"it_operator", "it_manager"} \subseteq Can("read", "dlp_state")
      /\ {"admin", "manager", "dpo", "investigator"} \subseteq Can("read", "live_view")
  <2>1. /\ Can("read", "dlp_state") = {r \in Roles : Granted(r, "read", "dlp_state")}
        /\ Can("read", "live_view") = {r \in Roles : Granted(r, "read", "live_view")}
    BY <1>0 DEF HardRules
  <2> QED BY <2>1 DEF Granted, Roles
<1> QED BY <1>1, <1>2, <1>3, <1>4, <1>5, <1>6

\* The named exceptions, as far as a route needs them.
LEMMA WidenedHere ==
    /\ \A n \in {"list", "get", "assign", "respond", "extend", "reject", "fulfill_access"} : {"admin"} \subseteq Wider(<<"dsr", n>>)
    /\ \A n \in {"list_destructions", "get_destruction", "generate_destruction"} : {"admin"} \subseteq Wider(<<"records", n>>)
    /\ {"admin", "investigator"} \subseteq Wider(<<"search", "audit">>)
    /\ {"admin", "investigator"} \subseteq Wider(<<"v1", "audit_stream">>)
    /\ {"admin", "manager"} \subseteq Wider(<<"people", "acknowledge_silence">>)
    /\ \A n \in {"me", "my_live_views", "acknowledge"} : {"admin", "dpo"} \subseteq Wider(<<"people", n>>)
    /\ {"admin"} \subseteq Wider(<<"people", "my_dsr">>)
    /\ {"hr", "auditor"} \subseteq Wider(<<"mobile", "pending">>)
    /\ {"admin", "manager", "hr", "investigator", "auditor"} \subseteq Wider(<<"mobile", "dsr_queue">>)
    /\ {"hr", "investigator", "auditor"} \subseteq Wider(<<"mobile", "silence">>)
<1>1. ASSUME NEW w \in Widened, NEW route \in w.routes
      PROVE  w.roles \subseteq Wider(route)
  BY DEF Wider
<1> DEFINE W(rs, ro) == [routes |-> rs, roles |-> ro]
<1>2. ASSUME NEW rs, NEW ro, W(rs, ro) \in Widened
      PROVE  \A route \in rs : ro \subseteq Wider(route)
  BY <1>1, <1>2
<1>3. /\ W({<<"search", "audit">>, <<"v1", "audit_stream">>}, {"admin", "investigator"}) \in Widened
      /\ W({"dsr"} \X {"list", "get", "assign", "respond", "extend", "reject", "fulfill_access"}, {"admin"}) \in Widened
      /\ W({"records"} \X {"list_destructions", "get_destruction", "generate_destruction"}, {"admin"}) \in Widened
      /\ W({<<"people", "acknowledge_silence">>}, {"admin", "manager"}) \in Widened
      /\ W({"people"} \X {"me", "my_live_views", "acknowledge"}, {"admin", "dpo"}) \in Widened
      /\ W({<<"people", "my_dsr">>}, {"admin"}) \in Widened
      /\ W({<<"mobile", "pending">>}, {"hr", "auditor"}) \in Widened
      /\ W({<<"mobile", "dsr_queue">>}, {"admin", "manager", "hr", "investigator", "auditor"}) \in Widened
      /\ W({<<"mobile", "silence">>}, {"hr", "investigator", "auditor"}) \in Widened
  BY DEF Widened
<1> HIDE DEF W
<1>4. /\ \A n \in {"list", "get", "assign", "respond", "extend", "reject", "fulfill_access"} : {"admin"} \subseteq Wider(<<"dsr", n>>)
      /\ \A n \in {"list_destructions", "get_destruction", "generate_destruction"} : {"admin"} \subseteq Wider(<<"records", n>>)
      /\ \A n \in {"me", "my_live_views", "acknowledge"} : {"admin", "dpo"} \subseteq Wider(<<"people", n>>)
  BY <1>2, <1>3
<1>5. /\ {"admin", "investigator"} \subseteq Wider(<<"search", "audit">>)
      /\ {"admin", "investigator"} \subseteq Wider(<<"v1", "audit_stream">>)
      /\ {"admin", "manager"} \subseteq Wider(<<"people", "acknowledge_silence">>)
      /\ {"admin"} \subseteq Wider(<<"people", "my_dsr">>)
  BY <1>2, <1>3
<1>6. /\ {"hr", "auditor"} \subseteq Wider(<<"mobile", "pending">>)
      /\ {"admin", "manager", "hr", "investigator", "auditor"} \subseteq Wider(<<"mobile", "dsr_queue">>)
      /\ {"hr", "investigator", "auditor"} \subseteq Wider(<<"mobile", "silence">>)
  BY <1>2, <1>3
<1> QED BY <1>4, <1>5, <1>6

\* At every reserved route some gate or check lets none but the named roles by.
Guarded(route, roles) == \E gate \in Gates(route) \cup Checks(route) : gate \subseteq roles

\* What a group of routes asks is kept at each of them.
Kept(op, res, group, names) ==
    \A n \in names : Guarded(<<group, n>>, Can(op, res) \cup Wider(<<group, n>>))

LEMMA KeptByGate ==
    ASSUME NEW op, NEW res, NEW group, NEW names, NEW gate, GateOf(group, names, gate),
           \A n \in names : gate \subseteq Can(op, res) \cup Wider(<<group, n>>)
    PROVE  Kept(op, res, group, names)
BY DEF Kept, Guarded, GateOf

LEMMA KeptAsked ==
    ASSUME NEW op, NEW res, NEW group, NEW names, Kept(op, res, group, names),
           NEW a \in Doing(op, res, group, names)
    PROVE  Guarded(a.route, Can(a.op, a.res) \cup Wider(a.route))
BY DEF Kept, Doing

LEMMA PeopleKept ==
    /\ Kept("read", "user", "users", {"list", "get"})
    /\ Kept("write", "user", "users", {"create", "update", "role", "disable"})
    /\ Kept("delete", "user", "users", {"delete"})
    /\ Kept("read", "employee", "employees", {"overview", "detail"})
    /\ Kept("read", "legal_hold", "legal_holds", {"list", "get"})
    /\ Kept("write", "legal_hold", "legal_holds", {"place"})
    /\ Kept("delete", "legal_hold", "legal_holds", {"release"})
    /\ Kept("read", "screenshot", "people", {"screenshots", "screenshot_url"})
    /\ Kept("read", "silence", "people", {"silence", "timeline"})
    /\ Kept("write", "silence", "people", {"acknowledge_silence"})
    /\ Kept("read", "my_data", "people", {"me", "my_live_views"})
    /\ Kept("write", "my_data", "people", {"acknowledge"})
    /\ Kept("request", "dsr", "people", {"my_dsr"})
<1>1. /\ GateOf("users", {"list", "get"}, {"admin", "dpo"})
      /\ GateOf("users", {"create", "update", "role", "disable"}, {"admin", "dpo"})
      /\ GateOf("users", {"delete"}, {"admin", "dpo"})
  BY PeopleGates DEF GateOf
<1>2. /\ Kept("read", "user", "users", {"list", "get"})
      /\ Kept("write", "user", "users", {"create", "update", "role", "disable"})
      /\ Kept("delete", "user", "users", {"delete"})
  <2>1. {"admin", "dpo"} \subseteq Can("read", "user") /\ {"admin", "dpo"} \subseteq Can("write", "user")
        /\ {"admin", "dpo"} \subseteq Can("delete", "user")
    BY GrantedMatrix
  <2>2. Kept("read", "user", "users", {"list", "get"})
    BY <1>1, <2>1, KeptByGate
  <2>3. Kept("write", "user", "users", {"create", "update", "role", "disable"})
    BY <1>1, <2>1, KeptByGate
  <2>4. Kept("delete", "user", "users", {"delete"})
    BY <1>1, <2>1, KeptByGate
  <2> QED BY <2>2, <2>3, <2>4
<1>3. Kept("read", "employee", "employees", {"overview", "detail"})
  BY PeopleGates, GrantedMatrix, KeptByGate
<1>4. /\ GateOf("legal_holds", {"list", "get"}, {"dpo"}) /\ GateOf("legal_holds", {"place"}, {"dpo"})
      /\ GateOf("legal_holds", {"release"}, {"dpo"})
  BY PeopleGates DEF GateOf
<1>5. Kept("read", "legal_hold", "legal_holds", {"list", "get"})
  BY <1>4, GrantedMatrix, KeptByGate
<1>6. Kept("write", "legal_hold", "legal_holds", {"place"})
  BY <1>4, RuledMatrix, KeptByGate
<1>7. Kept("delete", "legal_hold", "legal_holds", {"release"})
  BY <1>4, RuledMatrix, KeptByGate
<1>8. Kept("read", "screenshot", "people", {"screenshots", "screenshot_url"})
  BY PeopleGates, KeptByGate
<1>9. /\ GateOf("people", {"silence", "timeline"}, {"admin", "manager", "dpo"})
      /\ GateOf("people", {"acknowledge_silence"}, {"admin", "manager", "dpo"})
      /\ GateOf("people", {"me", "my_live_views"}, {"employee", "admin", "dpo"})
      /\ GateOf("people", {"acknowledge"}, {"employee", "admin", "dpo"})
      /\ GateOf("people", {"my_dsr"}, {"employee", "admin", "dpo"})
  BY PeopleGates DEF GateOf
<1>10. Kept("read", "silence", "people", {"silence", "timeline"})
  BY <1>9, GrantedMatrix, KeptByGate
<1>11. Kept("write", "silence", "people", {"acknowledge_silence"})
  <2>1. \A n \in {"acknowledge_silence"} : {"admin", "manager", "dpo"} \subseteq Can("write", "silence") \cup Wider(<<"people", n>>)
    BY GrantedMatrix, WidenedHere
  <2> QED BY <1>9, <2>1, KeptByGate
<1>12. Kept("read", "my_data", "people", {"me", "my_live_views"})
  <2>1. \A n \in {"me", "my_live_views"} : {"employee", "admin", "dpo"} \subseteq Can("read", "my_data") \cup Wider(<<"people", n>>)
    BY GrantedMatrix, WidenedHere
  <2> QED BY <1>9, <2>1, KeptByGate
<1>13. Kept("write", "my_data", "people", {"acknowledge"})
  <2>1. \A n \in {"acknowledge"} : {"employee", "admin", "dpo"} \subseteq Can("write", "my_data") \cup Wider(<<"people", n>>)
    BY GrantedMatrix, WidenedHere
  <2> QED BY <1>9, <2>1, KeptByGate
<1>14. Kept("request", "dsr", "people", {"my_dsr"})
  <2>1. \A n \in {"my_dsr"} : {"employee", "admin", "dpo"} \subseteq Can("request", "dsr") \cup Wider(<<"people", n>>)
    BY GrantedMatrix, WidenedHere
  <2> QED BY <1>9, <2>1, KeptByGate
<1> QED BY <1>2, <1>3, <1>5, <1>6, <1>7, <1>8, <1>10, <1>11, <1>12, <1>13, <1>14

LEMMA FleetKept ==
    /\ Kept("read", "endpoint", "endpoints", {"list", "get"})
    /\ Kept("write", "endpoint", "endpoints",
            {"enroll", "revoke", "bulk", "deactivate", "refresh_token", "commands"})
    /\ Kept("delete", "endpoint", "endpoints", {"delete", "wipe"})
    /\ Kept("read", "policy", "policies", {"list", "get", "preview"})
    /\ Kept("write", "policy", "policies", {"create", "update", "push"})
    /\ Kept("delete", "policy", "policies", {"delete"})
<1>1. /\ GateOf("endpoints", {"list", "get"}, {"admin", "dpo"})
      /\ GateOf("endpoints", {"enroll", "revoke", "bulk", "deactivate", "refresh_token", "commands"}, {"admin", "dpo"})
      /\ GateOf("endpoints", {"delete", "wipe"}, {"admin", "dpo"})
      /\ GateOf("policies", {"list", "get", "preview"}, {"admin"})
      /\ GateOf("policies", {"create", "update", "push"}, {"admin"})
      /\ GateOf("policies", {"delete"}, {"admin"})
  BY FleetGates DEF GateOf
<1>2. /\ {"admin", "dpo"} \subseteq Can("read", "endpoint") /\ {"admin", "dpo"} \subseteq Can("write", "endpoint")
      /\ {"admin", "dpo"} \subseteq Can("delete", "endpoint")
      /\ {"admin"} \subseteq Can("read", "policy") /\ {"admin"} \subseteq Can("write", "policy")
      /\ {"admin"} \subseteq Can("delete", "policy")
  BY GrantedMatrix
<1>3. Kept("read", "endpoint", "endpoints", {"list", "get"})
  BY <1>1, <1>2, KeptByGate
<1>4. Kept("write", "endpoint", "endpoints", {"enroll", "revoke", "bulk", "deactivate", "refresh_token", "commands"})
  BY <1>1, <1>2, KeptByGate
<1>5. Kept("delete", "endpoint", "endpoints", {"delete", "wipe"})
  BY <1>1, <1>2, KeptByGate
<1>6. Kept("read", "policy", "policies", {"list", "get", "preview"})
  BY <1>1, <1>2, KeptByGate
<1>7. Kept("write", "policy", "policies", {"create", "update", "push"})
  BY <1>1, <1>2, KeptByGate
<1>8. Kept("delete", "policy", "policies", {"delete"})
  BY <1>1, <1>2, KeptByGate
<1> QED BY <1>3, <1>4, <1>5, <1>6, <1>7, <1>8

LEMMA RecordsKept ==
    /\ Kept("read", "dsr", "dsr", {"list", "get"})
    /\ Kept("write", "dsr", "dsr", {"assign", "respond", "extend", "reject", "fulfill_access", "fulfill_erasure"})
    /\ Kept("read", "destruction_report", "records", {"list_destructions", "get_destruction"})
    /\ Kept("write", "destruction_report", "records", {"generate_destruction"})
    /\ Kept("download", "destruction_report", "records", {"download_destruction"})
    /\ Kept("read", "report", "reports", {"pg", "trends", "ch", "risk_score"})
    /\ Kept("read", "report", "search", {"preview"})
    /\ Kept("read", "audit_log", "search", {"audit"})
<1>1. /\ GateOf("dsr", {"list", "get"}, {"dpo", "admin"})
      /\ GateOf("dsr", {"assign", "respond", "extend", "reject", "fulfill_access"}, {"dpo", "admin"})
      /\ GateOf("records", {"list_destructions", "get_destruction"}, {"dpo", "admin"})
      /\ GateOf("records", {"generate_destruction"}, {"dpo", "admin"})
  BY RecordGates DEF GateOf
<1>2. Kept("read", "dsr", "dsr", {"list", "get"})
  <2>1. \A n \in {"list", "get"} : {"dpo", "admin"} \subseteq Can("read", "dsr") \cup Wider(<<"dsr", n>>)
    BY GrantedMatrix, WidenedHere
  <2> QED BY <1>1, <2>1, KeptByGate
<1>3. Kept("write", "dsr", "dsr", {"assign", "respond", "extend", "reject", "fulfill_access", "fulfill_erasure"})
  <2>1. \A n \in {"assign", "respond", "extend", "reject", "fulfill_access"} :
           {"dpo", "admin"} \subseteq Can("write", "dsr") \cup Wider(<<"dsr", n>>)
    BY RuledMatrix, WidenedHere
  <2>2. Kept("write", "dsr", "dsr", {"assign", "respond", "extend", "reject", "fulfill_access"})
    BY <1>1, <2>1, KeptByGate
  <2>3. Kept("write", "dsr", "dsr", {"fulfill_erasure"})
    BY RecordGates, RuledMatrix, KeptByGate
  <2> QED BY <2>2, <2>3 DEF Kept
<1>4. Kept("read", "destruction_report", "records", {"list_destructions", "get_destruction"})
  <2>1. \A n \in {"list_destructions", "get_destruction"} :
           {"dpo", "admin"} \subseteq Can("read", "destruction_report") \cup Wider(<<"records", n>>)
    BY GrantedMatrix, WidenedHere
  <2> QED BY <1>1, <2>1, KeptByGate
<1>5. Kept("write", "destruction_report", "records", {"generate_destruction"})
  <2>1. \A n \in {"generate_destruction"} :
           {"dpo", "admin"} \subseteq Can("write", "destruction_report") \cup Wider(<<"records", n>>)
    BY GrantedMatrix, WidenedHere
  <2> QED BY <1>1, <2>1, KeptByGate
<1>6. Kept("download", "destruction_report", "records", {"download_destruction"})
  <2>1. {"dpo"} \subseteq Can("download", "destruction_report") \cup Wider(<<"records", "download_destruction">>)
    BY RuledMatrix
  <2> QED BY <2>1, ServicesAsk DEF Kept, Guarded
<1>7. Kept("read", "report", "reports", {"pg", "trends", "ch", "risk_score"})
  <2>1. {"admin", "manager", "dpo", "auditor"} \subseteq Can("read", "report")
    BY GrantedMatrix
  <2> QED BY <2>1, RecordGates, KeptByGate
<1>8. Kept("read", "report", "search", {"preview"})
  BY RecordGates, GrantedMatrix, KeptByGate
<1>9. Kept("read", "audit_log", "search", {"audit"})
  <2>1. \A n \in {"audit"} : {"admin", "dpo", "investigator", "auditor"} \subseteq Can("read", "audit_log") \cup Wider(<<"search", n>>)
    BY RuledMatrix, WidenedHere
  <2> QED BY RecordGates, <2>1, KeptByGate
<1> QED BY <1>2, <1>3, <1>4, <1>5, <1>6, <1>7, <1>8, <1>9

LEMMA SystemKept ==
    /\ Kept("request", "live_view", "live_view", {"request"})
    /\ Kept("approve", "live_view", "live_view", {"approve"})
    /\ Kept("reject", "live_view", "live_view", {"reject"})
    /\ Kept("terminate", "live_view", "live_view", {"terminate"})
    /\ Kept("read", "audit_log", "v1", {"audit_stream"})
    /\ Kept("read", "dlp_state", "system", {"dlp_state"})
    /\ Kept("write", "dlp_state", "system", {"dlp_bootstrap"})
    /\ Kept("read", "live_view", "mobile", {"pending"})
    /\ Kept("read", "dsr", "mobile", {"dsr_queue"})
    /\ Kept("read", "silence", "mobile", {"silence"})
    /\ Kept("read", "dlp_state", "mobile", {"module_state"})
    /\ Kept("write", "dlp_state", "mobile", {"dlp_transition"})
<1>1. /\ Kept("request", "live_view", "live_view", {"request"})
      /\ Kept("approve", "live_view", "live_view", {"approve"})
      /\ Kept("reject", "live_view", "live_view", {"reject"})
      /\ Kept("terminate", "live_view", "live_view", {"terminate"})
  BY ServicesAsk, RuledMatrix DEF Kept, Guarded
<1>2. Kept("read", "audit_log", "v1", {"audit_stream"})
  <2>1. {"admin", "dpo", "investigator", "auditor"} \subseteq Can("read", "audit_log") \cup Wider(<<"v1", "audit_stream">>)
    BY RuledMatrix, WidenedHere
  <2> QED BY <2>1, ServicesAsk DEF Kept, Guarded
<1>3. Kept("read", "dlp_state", "system", {"dlp_state"})
  BY SystemGates, GrantedMatrix, KeptByGate
<1>4. Kept("write", "dlp_state", "system", {"dlp_bootstrap"})
  BY SystemGates, GrantedMatrix, KeptByGate
<1>5. Kept("write", "dlp_state", "mobile", {"dlp_transition"})
  BY SystemGates, GrantedMatrix, KeptByGate
<1> DEFINE M == {"admin", "manager", "hr", "dpo", "investigator", "auditor"}
<1>6. /\ GateOf("mobile", {"pending"}, M) /\ GateOf("mobile", {"dsr_queue"}, M)
      /\ GateOf("mobile", {"silence"}, M) /\ GateOf("mobile", {"module_state"}, M)
  BY SystemGates DEF GateOf
<1>7. Kept("read", "live_view", "mobile", {"pending"})
  <2>1. \A n \in {"pending"} : M \subseteq Can("read", "live_view") \cup Wider(<<"mobile", n>>)
    BY GrantedMatrix, WidenedHere
  <2> QED BY <1>6, <2>1, KeptByGate
<1>8. Kept("read", "dsr", "mobile", {"dsr_queue"})
  <2>1. \A n \in {"dsr_queue"} : M \subseteq Can("read", "dsr") \cup Wider(<<"mobile", n>>)
    BY GrantedMatrix, WidenedHere
  <2> QED BY <1>6, <2>1, KeptByGate
<1>9. Kept("read", "silence", "mobile", {"silence"})
  <2>1. \A n \in {"silence"} : M \subseteq Can("read", "silence") \cup Wider(<<"mobile", n>>)
    BY GrantedMatrix, WidenedHere
  <2> QED BY <1>6, <2>1, KeptByGate
<1>10. Kept("read", "dlp_state", "mobile", {"module_state"})
  <2>1. M \subseteq Can("read", "dlp_state")
    BY GrantedMatrix DEF Roles
  <2> QED BY <1>6, <2>1, KeptByGate
<1> QED BY <1>1, <1>2, <1>3, <1>4, <1>5, <1>7, <1>8, <1>9, <1>10

\* The only routes of the matrix without a gate or check of their own are named.
LEMMA AsksGuarded ==
    ASSUME NEW a \in Asks, a.route \notin Unguarded
    PROVE  Guarded(a.route, Can(a.op, a.res) \cup Wider(a.route))
<1>1. ASSUME NEW op, NEW res, NEW g, NEW names, a \in Doing(op, res, g, names)
      PROVE  \E n \in names : a.route = <<g, n>>
  BY <1>1 DEF Doing
<1>2. CASE \/ a \in Doing("request", "dsr", "dsr", {"submit"})
           \/ a \in Doing("read", "live_view", "live_view", {"list", "get", "sessions", "session"})
  <2>1. a.route = <<"dsr", "submit">> \/ \E n \in {"list", "get", "sessions", "session"} : a.route = <<"live_view", n>>
    BY <1>2, <1>1
  <2>2. <<"dsr", "submit">> \in Unguarded /\ \A n \in {"list", "get", "sessions", "session"} : <<"live_view", n>> \in Unguarded
    BY DEF Unguarded
  <2> QED BY <2>1, <2>2
<1>3. CASE a \in Doing("terminate", "live_view", "live_view", {"end", "terminate"})
  <2>1. a.route = <<"live_view", "end">> \/ a.route = <<"live_view", "terminate">>
    BY <1>1, <1>3
  <2>2. <<"live_view", "end">> \in Unguarded
    BY DEF Unguarded
  <2>3. a \in Doing("terminate", "live_view", "live_view", {"terminate"})
    BY <1>3, <2>1, <2>2 DEF Doing
  <2> QED BY <2>3, SystemKept, KeptAsked
<1>4. CASE a \in Doing("read", "audit_log", "v1", {"audit_stream", "audit_stream_all_tenants"})
  <2>1. CASE a.route = <<"v1", "audit_stream">>
    <3>1. a \in Doing("read", "audit_log", "v1", {"audit_stream"})
      BY <1>4, <2>1 DEF Doing
    <3> QED BY <3>1, SystemKept, KeptAsked
  <2>2. CASE a.route = <<"v1", "audit_stream_all_tenants">>
    <3>1. a.op = "read" /\ a.res = "audit_log"
      BY <1>4 DEF Doing
    <3> QED BY <2>2, <3>1, ServicesAsk, RuledMatrix DEF Guarded
  <2> QED BY <1>1, <1>4, <2>1, <2>2
<1>5. CASE \/ a \in Doing("read", "user", "users", {"list", "get"})
           \/ a \in Doing("write", "user", "users", {"create", "update", "role", "disable"})
           \/ a \in Doing("delete", "user", "users", {"delete"})
           \/ a \in Doing("read", "employee", "employees", {"overview", "detail"})
           \/ a \in Doing("read", "legal_hold", "legal_holds", {"list", "get"})
           \/ a \in Doing("write", "legal_hold", "legal_holds", {"place"})
           \/ a \in Doing("delete", "legal_hold", "legal_holds", {"release"})
           \/ a \in Doing("read", "screenshot", "people", {"screenshots", "screenshot_url"})
           \/ a \in Doing("read", "silence", "people", {"silence", "timeline"})
           \/ a \in Doing("write", "silence", "people", {"acknowledge_silence"})
           \/ a \in Doing("read", "my_data", "people", {"me", "my_live_views"})
           \/ a \in Doing("write", "my_data", "people", {"acknowledge"})
           \/ a \in Doing("request", "dsr", "people", {"my_dsr"})
  BY <1>5, PeopleKept, KeptAsked
<1>6. CASE \/ a \in Doing("read", "endpoint", "endpoints", {"list", "get"})
           \/ a \in Doing("write", "endpoint", "endpoints",
                          {"enroll", "revoke", "bulk", "deactivate", "refresh_token", "commands"})
           \/ a \in Doing("delete", "endpoint", "endpoints", {"delete", "wipe"})
           \/ a \in Doing("read", "policy", "policies", {"list", "get", "preview"})
           \/ a \in Doing("write", "policy", "policies", {"create", "update", "push"})
           \/ a \in Doing("delete", "policy", "policies", {"delete"})
  BY <1>6, FleetKept, KeptAsked
<1>7. CASE \/ a \in Doing("read", "dsr", "dsr", {"list", "get"})
           \/ a \in Doing("write", "dsr", "dsr", {"assign", "respond", "extend", "reject", "fulfill_access", "fulfill_erasure"})
           \/ a \in Doing("read", "destruction_report", "records", {"list_destructions", "get_destruction"})
           \/ a \in Doing("write", "destruction_report", "records", {"generate_destruction"})
           \/ a \in Doing("download", "destruction_report", "records", {"download_destruction"})
           \/ a \in Doing("read", "report", "reports", {"pg", "trends", "ch", "risk_score"})
           \/ a \in Doing("read", "report", "search", {"preview"})
           \/ a \in Doing("read", "audit_log", "search", {"audit"})
  BY <1>7, RecordsKept, KeptAsked
<1>8. CASE \/ a \in Doing("request", "live_view", "live_view", {"request"})
           \/ a \in Doing("approve", "live_view", "live_view", {"approve"})
           \/ a \in Doing("reject", "live_view", "live_view", {"reject"})
           \/ a \in Doing("read", "dlp_state", "system", {"dlp_state"})
           \/ a \in Doing("write", "dlp_state", "system", {"dlp_bootstrap"})
           \/ a \in Doing("read", "live_view", "mobile", {"pending"})
           \/ a \in Doing("read", "dsr", "mobile", {"dsr_queue"})
           \/ a \in Doing("read", "silence", "mobile", {"silence"})
           \/ a \in Doing("read", "dlp_state", "mobile", {"module_state"})
           \/ a \in Doing("write", "dlp_state", "mobile", {"dlp_transition"})
  BY <1>8, SystemKept, KeptAsked
<1> QED BY <1>2, <1>3, <1>4, <1>5, <1>6, <1>7, <1>8 DEF Asks

LEMMA ReservedGuarded == \A r \in Reserved : Guarded(r[1], r[2])
<1>1. Guarded(<<"records", "evidence_pack">>, {"dpo"})
  BY RecordGates DEF Guarded, GateOf
<1>2. /\ Guarded(<<"pipeline", "dlq_all_tenants">>, {"dpo"})
      /\ Guarded(<<"pipeline", "replay_all_tenants">>, {"dpo"})
      /\ Guarded(<<"v1", "audit_stream_all_tenants">>, {"dpo"})
  BY ServicesAsk DEF Guarded
<1>3. \A r \in DpoOnly \X {{"dpo"}} : Guarded(r[1], r[2])
  BY <1>1, <1>2 DEF DpoOnly
<1>4. ASSUME NEW a \in Asks, a.route \notin Unguarded
      PROVE  Guarded(<<a.route, Can(a.op, a.res) \cup Wider(a.route)>>[1],
                     <<a.route, Can(a.op, a.res) \cup Wider(a.route)>>[2])
  BY <1>4, AsksGuarded
<1> QED BY <1>3, <1>4 DEF Reserved

\* Nobody is served at a reserved route without one of its roles.
LEMMA ServedHasRole ==
    ASSUME NEW roles, NEW r \in Reserved, Served(r[1], roles)
    PROVE  r[2] \cap roles # {}
<1>1. PICK gate \in Gates(r[1]) \cup Checks(r[1]) : gate \subseteq r[2]
  BY ReservedGuarded DEF Guarded
<1>2. gate \cap roles # {}
  BY <1>1 DEF Served, Admits
<1> QED BY <1>1, <1>2

-----------------------------------------------------------------------------
(* The token: a role it has is the person's still, or was taken so lately that *)
(* the token had not yet been good for longer than since then.                 *)

TokenOK ==
    /\ bearer.left \in 0..Life
    /\ bearer = [roles |-> bearer.roles, left |-> bearer.left]
    /\ bearer.left = 0 => bearer.roles = {}
    /\ \A p \in taken : p = <<p[1], p[2]>> /\ p[2] \in Nat
    /\ \A x \in bearer.roles : x \in granted \/ \E p \in taken : p[1] = x /\ p[2] + bearer.left <= Life

LEMMA InitToken == AccessInit => TokenOK
BY LifeAssumption DEF AccessInit, TokenOK, NoBearer

LEMMA TokenSame ==
    ASSUME TokenOK, bearer' = bearer, taken' = taken, granted \subseteq granted'
    PROVE  TokenOK'
BY DEF TokenOK

LEMMA NextToken == TokenOK /\ [AccessNext]_accessVars => TokenOK'
<1> SUFFICES ASSUME TokenOK, [AccessNext]_accessVars PROVE TokenOK'
  OBVIOUS
<1>1. CASE Issue
  BY <1>1, LifeAssumption DEF Issue, TokenOK
<1>2. CASE Tick
  <2>1. CASE bearer.left > 1
    <3>1. bearer' = [roles |-> bearer.roles, left |-> bearer.left - 1]
      BY <1>2, <2>1 DEF Tick, TokenOK
    <3>2. ASSUME NEW p \in taken'
          PROVE  p = <<p[1], p[2]>> /\ p[2] \in Nat
      BY <1>2, <3>2 DEF Tick, TokenOK
    <3>3. ASSUME NEW x \in bearer'.roles, x \notin granted'
          PROVE  \E p \in taken' : p[1] = x /\ p[2] + bearer'.left <= Life
      <4>1. PICK p \in taken : p[1] = x /\ p[2] + bearer.left <= Life
        BY <1>2, <3>1, <3>3 DEF Tick, TokenOK
      <4>2. p[2] \in Nat /\ p[2] + 1 < Life /\ p[2] + 1 + (bearer.left - 1) <= Life
        BY <4>1, <2>1, LifeAssumption DEF TokenOK
      <4>3. <<p[1], p[2] + 1>> \in taken'
        BY <1>2, <4>2 DEF Tick
      <4> DEFINE q == <<p[1], p[2] + 1>>
      <4>4. q \in taken' /\ q[1] = x /\ q[2] + bearer'.left <= Life
        BY <4>1, <4>2, <4>3, <3>1
      <4> QED BY <4>4
    <3> QED BY <3>1, <3>2, <3>3, <2>1, LifeAssumption DEF TokenOK
  <2>2. CASE ~ bearer.left > 1
    <3>1. bearer' = NoBearer
      BY <1>2, <2>2 DEF Tick
    <3>2. ASSUME NEW p \in taken'
          PROVE  p = <<p[1], p[2]>> /\ p[2] \in Nat
      BY <1>2, <3>2 DEF Tick, TokenOK
    <3> QED BY <3>1, <3>2, LifeAssumption DEF TokenOK, NoBearer
  <2> QED BY <2>1, <2>2
<1>3. ASSUME NEW r \in Roles, Give(r)
      PROVE  TokenOK'
  BY <1>3, TokenSame DEF Give
<1>4. ASSUME NEW r \in Roles, Take(r)
      PROVE  TokenOK'
  <2>1. bearer' = bearer /\ granted' = granted \ {r} /\ taken' = taken \cup {<<r, 0>>}
    BY <1>4 DEF Take
  <2>2. ASSUME NEW x \in bearer.roles
        PROVE  x \in granted' \/ \E p \in taken' : p[1] = x /\ p[2] + bearer.left <= Life
    <3>1. CASE x = r
      <4> DEFINE q == <<r, 0>>
      <4>1. q \in taken' /\ q[1] = x /\ q[2] + bearer.left <= Life
        BY <2>1, <3>1, LifeAssumption DEF TokenOK
      <4> QED BY <4>1
    <3>2. CASE x # r
      BY <2>1, <2>2, <3>2 DEF TokenOK
    <3> QED BY <3>1, <3>2
  <2> QED BY <2>1, <2>2 DEF TokenOK
<1>5. CASE Answered
  BY <1>5, TokenSame DEF Answered
<1>6. ASSUME NEW route \in Routes, Request(route)
      PROVE  TokenOK'
  BY <1>6, TokenSame DEF Request
<1>7. CASE UNCHANGED accessVars
  BY <1>7, TokenSame DEF accessVars
<1> QED BY <1>1, <1>2, <1>3, <1>4, <1>5, <1>6, <1>7 DEF AccessNext

\* A token opens no door for longer than it is good after a role was taken away,
\* and no route lets in by one gate whom the matrix keeps out: the roles of the
\* token are the person's, or were within its life, and every reserved route has
\* a gate or a check of none but the roles it is reserved for.
THEOREM ReservedHolds == AccessSpec => ReservedKept
<1>1. ASSUME TokenOK, [AccessNext]_accessVars, call' # call, call'.answer = "served",
             NEW r \in Reserved, r[1] = call'.route
      PROVE  r[2] \cap Lately # {}
  <2>1. PICK route \in Routes : Request(route)
    BY <1>1 DEF AccessNext, accessVars, Issue, Tick, Answered, Give, Take, NoCall
  <2>2. call'.route = route /\ Served(route, VerifyRequest) /\ VerifyRequest \subseteq bearer.roles
    BY <2>1, <1>1 DEF Request, VerifyRequest, ParseRoles
  <2>3. r[2] \cap VerifyRequest # {}
    BY <1>1, <2>2, ServedHasRole
  <2>4. bearer.roles \subseteq Lately
    BY <1>1 DEF TokenOK, Lately
  <2> QED BY <2>2, <2>3, <2>4
<1>2. TokenOK /\ [AccessNext]_accessVars
        => [call' # call /\ call'.answer = "served"
              => \A r \in Reserved : r[1] = call'.route => r[2] \cap Lately # {}]_accessVars
  BY <1>1
<1> QED BY InitToken, NextToken, <1>2, PTL DEF AccessSpec, ReservedKept

-----------------------------------------------------------------------------
(* The token buckets of the same run.  What a bucket may still give is part of    *)
(* the bound: what a tenant got and what its bucket would hold by now are no more *)
(* than a full bucket and what came in.                                           *)

CONSTANTS Customers, Rate, Burst, Cost, IdleTtl, MaxTime,
    Streams, BatchSizes, EndpointRate, EndpointBurst, TenantRate, TenantBurst, StreamTime, MaxLimiters
VARIABLES clock, buckets, lastSweep, admitted, limiters, endpoint, tenant, batch, spent, closes

PerTenant == INSTANCE TenantLimiter WITH Tenants <- Customers
PerStream == INSTANCE StreamLimiter WITH Sizes <- BatchSizes, MaxTime <- StreamTime

\* Products of numbers nobody knows, which the provers take apart by these facts only.
LEMMA Products == \A a, b, c \in Int : /\ (a + b) * c = a * c + b * c
                                       /\ (a - b) * c = a * c - b * c
                                       /\ c * (a + b) = c * a + c * b
                                       /\ c * (a - b) = c * a - c * b
                                       /\ a * b \in Int /\ 0 * a = 0 /\ 1 * a = a /\ a * 1 = a /\ a * 0 = 0
OBVIOUS
LEMMA NextTimes == \A a, c \in Int : a * c \in Int /\ (a + 1) * c = a * c + c
OBVIOUS
LEMMA NatTimes == \A a, b \in Nat : a * b \in Nat
OBVIOUS
LEMMA Grows == \A a, b \in Int, c \in Nat : a <= b => a * c <= b * c
OBVIOUS

\* What a tenant's bucket would hold if it were refilled now; who has none gets a full one.
Level(t) == IF t \in DOMAIN buckets THEN PerTenant!Refill(buckets[t]).tokens ELSE Burst

Bucket == [tokens : 0..Burst, refill : Nat, used : Nat]
BucketOK(b) == b \in Bucket /\ b.used = b.refill /\ b.refill <= clock

BucketsOK ==
    /\ clock \in Nat /\ lastSweep \in Int
    /\ DOMAIN buckets \subseteq Customers
    /\ buckets \in [DOMAIN buckets -> Bucket]
    /\ \A t \in DOMAIN buckets : BucketOK(buckets[t])
    /\ admitted \in [Customers -> [-1..clock -> Nat]]

Got(t, i) == Cost * (admitted[t][clock] - admitted[t][i - 1])

LEMMA GotIs == ASSUME PerTenant!TenantAssumption, BucketsOK, NEW t \in Customers, NEW i \in 0..clock
    PROVE  /\ admitted[t][clock] \in Nat /\ admitted[t][i - 1] \in Nat
           /\ Got(t, i) \in Int /\ (clock - i) * Rate \in Nat /\ clock - i \in Nat
<1>1. i - 1 \in -1..clock /\ clock \in -1..clock /\ clock - i \in Nat
  BY DEF BucketsOK
<1>2. admitted[t][clock] \in Nat /\ admitted[t][i - 1] \in Nat
  BY <1>1 DEF BucketsOK
<1>3. admitted[t][clock] - admitted[t][i - 1] \in Int
  BY <1>2
<1> QED BY <1>1, <1>2, <1>3, Products, NatTimes DEF Got, PerTenant!TenantAssumption

\* What a tenant got and what it could get now are no more than a full bucket and
\* what came in.
Bounded == \A t \in Customers, i \in 0..clock : Got(t, i) + Level(t) <= Burst + (clock - i) * Rate

BucketsInv == BucketsOK /\ (IdleTtl * Rate >= Burst => Bounded)

LEMMA LevelIs == ASSUME PerTenant!TenantAssumption, BucketsOK, NEW t \in Customers
    PROVE /\ Level(t) \in 0..Burst
          /\ t \in DOMAIN buckets =>
               /\ (clock - buckets[t].refill) * Rate \in Nat
               /\ Level(t) = PerTenant!Least(Burst, buckets[t].tokens + (clock - buckets[t].refill) * Rate)
<1>1. CASE t \in DOMAIN buckets
  <2>1. BucketOK(buckets[t])
    BY <1>1 DEF BucketsOK
  <2>2. (clock - buckets[t].refill) * Rate \in Nat
    <3>1. clock - buckets[t].refill \in Nat
      BY <2>1 DEF BucketOK, Bucket, BucketsOK
    <3> QED BY <3>1, NatTimes DEF PerTenant!TenantAssumption
  <2>3. PerTenant!Refill(buckets[t]).tokens = PerTenant!Least(Burst, buckets[t].tokens + (clock - buckets[t].refill) * Rate)
    BY <2>1 DEF PerTenant!Refill, BucketOK, Bucket
  <2> QED BY <1>1, <2>1, <2>2, <2>3 DEF Level, PerTenant!Least, BucketOK, Bucket, PerTenant!TenantAssumption
<1>2. CASE t \notin DOMAIN buckets
  BY <1>2 DEF Level, PerTenant!TenantAssumption
<1> QED BY <1>1, <1>2

LEMMA InitBInv == ASSUME PerTenant!TenantAssumption, PerTenant!Init PROVE BucketsInv
<1>1. BucketsOK
  BY DEF PerTenant!Init, BucketsOK
<1>2. ASSUME NEW t \in Customers, NEW i \in 0..clock
      PROVE  Got(t, i) + Level(t) <= Burst + (clock - i) * Rate
  <2>1. i = 0 /\ clock = 0 /\ admitted[t][0] = 0 /\ admitted[t][-1] = 0 /\ Level(t) = Burst
    BY <1>2 DEF PerTenant!Init, Level
  <2>2. Got(t, i) = 0 /\ (clock - i) * Rate = 0
    BY <2>1, Products DEF Got, PerTenant!TenantAssumption
  <2> QED BY <2>1, <2>2 DEF PerTenant!TenantAssumption
<1> QED BY <1>1, <1>2 DEF BucketsInv, Bounded

LEMMA SweptSome == ASSUME BucketsOK, NEW t \in Customers
    PROVE  /\ DOMAIN PerTenant!Swept \subseteq DOMAIN buckets
           /\ t \in DOMAIN PerTenant!Swept => PerTenant!Swept[t] = buckets[t]
           /\ t \in DOMAIN buckets /\ t \notin DOMAIN PerTenant!Swept => clock - buckets[t].used > IdleTtl \/ ~ IdleTtl \in Int
BY DEF PerTenant!Swept, PerTenant!SweepLocked, BucketsOK, BucketOK, Bucket

\* A sweep takes only buckets that are full by now.
LEMMA SweptFull == ASSUME PerTenant!TenantAssumption, BucketsOK, IdleTtl * Rate >= Burst, NEW t \in Customers, t \notin DOMAIN PerTenant!Swept
    PROVE  Level(t) = Burst
<1>1. SUFFICES ASSUME t \in DOMAIN buckets PROVE Level(t) = Burst
  BY DEF Level
<1> DEFINE age == clock - buckets[t].refill
<1>2. BucketOK(buckets[t]) /\ age \in Nat /\ IdleTtl <= age
  BY <1>1, SweptSome DEF BucketsOK, BucketOK, Bucket, PerTenant!TenantAssumption
<1>3. IdleTtl * Rate <= age * Rate
  <2> HIDE DEF age
  <2> QED BY <1>2, Grows DEF PerTenant!TenantAssumption
<1>4. age * Rate \in Int /\ IdleTtl * Rate \in Int
  <2> HIDE DEF age
  <2> QED BY <1>2, Products DEF PerTenant!TenantAssumption
<1>5. buckets[t].tokens \in Nat /\ Level(t) = PerTenant!Least(Burst, buckets[t].tokens + age * Rate)
  BY <1>1, <1>2, LevelIs DEF BucketOK, Bucket
<1>6. buckets[t].tokens + age * Rate >= Burst
  <2> HIDE DEF age
  <2> QED BY <1>3, <1>4, <1>5 DEF PerTenant!TenantAssumption
<1> QED BY <1>5, <1>6, <1>4 DEF PerTenant!Least, PerTenant!TenantAssumption

\* What a call finds in its tenant's bucket, and what it takes.
Found(t) == IF t \in DOMAIN PerTenant!Swept THEN PerTenant!Refill(PerTenant!Swept[t]).tokens ELSE Burst
Passes(t) == t \notin DOMAIN PerTenant!Swept \/ Found(t) >= Cost
Left(t) == [tokens |-> IF Passes(t) THEN Found(t) - Cost ELSE Found(t), refill |-> clock, used |-> clock]

LEMMA FoundIs == ASSUME PerTenant!TenantAssumption, BucketsOK, NEW t \in Customers
    PROVE  /\ Found(t) \in 0..Burst
           /\ IdleTtl * Rate >= Burst => Found(t) = Level(t)
           /\ Passes(t) => Found(t) >= Cost
<1>1. CASE t \in DOMAIN PerTenant!Swept
  <2>1. t \in DOMAIN buckets /\ Found(t) = Level(t)
    BY <1>1, SweptSome DEF Found, Level
  <2> QED BY <1>1, <2>1, LevelIs DEF Passes
<1>2. CASE t \notin DOMAIN PerTenant!Swept
  BY <1>2, SweptFull DEF Found, Passes, PerTenant!TenantAssumption
<1> QED BY <1>1, <1>2

\* A call in short: the sweep, what it finds, what it leaves.
LEMMA AllowIs == ASSUME PerTenant!TenantAssumption, BucketsOK, NEW t \in Customers, PerTenant!Allow(t)
    PROVE  /\ clock' = clock /\ lastSweep' \in {lastSweep, clock}
           /\ buckets' = [u \in DOMAIN PerTenant!Swept \cup {t} |-> IF u = t THEN Left(t) ELSE buckets[u]]
           /\ admitted' = IF Passes(t) THEN [admitted EXCEPT ![t][clock] = @ + 1] ELSE admitted
<1> DEFINE b == IF t \in DOMAIN PerTenant!Swept THEN PerTenant!Refill(PerTenant!Swept[t]) ELSE PerTenant!NewBucket
<1>1. b = [tokens |-> Found(t), refill |-> clock, used |-> clock]
  <2>1. CASE t \in DOMAIN PerTenant!Swept
    <3>1. PerTenant!Swept[t] = buckets[t] /\ BucketOK(buckets[t])
      BY <2>1, SweptSome DEF BucketsOK
    <3> QED BY <2>1, <3>1 DEF Found, PerTenant!Refill, BucketOK, Bucket
  <2>2. CASE t \notin DOMAIN PerTenant!Swept
    BY <2>2 DEF Found, PerTenant!NewBucket
  <2> QED BY <2>1, <2>2
<1>2. (t \notin DOMAIN PerTenant!Swept \/ b.tokens >= Cost) = Passes(t)
  BY <1>1 DEF Passes
<1>3. Left(t) = IF Passes(t) THEN [b EXCEPT !.tokens = @ - Cost] ELSE b
  BY <1>1 DEF Left
<1>4. buckets' = [u \in DOMAIN PerTenant!Swept \cup {t} |->
                    IF u # t THEN PerTenant!Swept[u] ELSE IF Passes(t) THEN [b EXCEPT !.tokens = @ - Cost] ELSE b]
  BY <1>2 DEF PerTenant!Allow
<1>5. buckets' = [u \in DOMAIN PerTenant!Swept \cup {t} |-> IF u = t THEN Left(t) ELSE buckets[u]]
  <2>1. \A u \in DOMAIN PerTenant!Swept : PerTenant!Swept[u] = buckets[u]
    BY SweptSome DEF BucketsOK
  <2> HIDE DEF b
  <2> QED BY <1>3, <1>4, <2>1
<1>6. admitted' = IF Passes(t) THEN [admitted EXCEPT ![t][clock] = @ + 1] ELSE admitted
  BY <1>2 DEF PerTenant!Allow
<1> QED BY <1>5, <1>6 DEF PerTenant!Allow

\* A request that passes takes from the bucket what it adds to what was got.
LEMMA AllowBInv == ASSUME PerTenant!TenantAssumption, BucketsInv, NEW t \in Customers, PerTenant!Allow(t) PROVE BucketsInv'
<1>1. /\ BucketsOK /\ clock' = clock /\ lastSweep' \in {lastSweep, clock}
      /\ buckets' = [u \in DOMAIN PerTenant!Swept \cup {t} |-> IF u = t THEN Left(t) ELSE buckets[u]]
      /\ admitted' = IF Passes(t) THEN [admitted EXCEPT ![t][clock] = @ + 1] ELSE admitted
      /\ Found(t) \in 0..Burst
      /\ Passes(t) => Found(t) >= Cost
      /\ \A u \in DOMAIN PerTenant!Swept : u \in DOMAIN buckets
  BY AllowIs, FoundIs, SweptSome DEF BucketsInv
<1>2. Left(t).tokens \in 0..Burst /\ Left(t).refill = clock
  BY <1>1 DEF Left, PerTenant!TenantAssumption
<1>3. BucketsOK'
  <2>1. \A u \in DOMAIN buckets' : BucketOK(buckets[u])'
    BY <1>1, <1>2 DEF BucketsOK, BucketOK, Bucket, Left
  <2>2. admitted' \in [Customers -> [-1..clock' -> Nat]]
    BY <1>1 DEF BucketsOK
  <2>3. buckets' \in [DOMAIN buckets' -> Bucket]
    <3>1. Left(t) \in Bucket
      BY <1>1, <1>2 DEF Left, Bucket, BucketsOK
    <3> QED BY <1>1, <3>1 DEF BucketsOK
  <2>4. DOMAIN buckets' \subseteq Customers /\ clock' \in Nat /\ lastSweep' \in Int
    BY <1>1 DEF BucketsOK
  <2> QED BY <2>1, <2>2, <2>3, <2>4 DEF BucketsOK
<1>4. ASSUME IdleTtl * Rate >= Burst, NEW u \in Customers, NEW i \in 0..clock'
      PROVE  Got(u, i)' + Level(u)' <= Burst + (clock' - i) * Rate
  <2>1. i \in 0..clock /\ Got(u, i) + Level(u) <= Burst + (clock - i) * Rate
    BY <1>1, <1>4 DEF BucketsInv, Bounded
  <2>2. Level(u) \in 0..Burst /\ Found(t) = Level(t)
    BY <1>1, <1>4, LevelIs, FoundIs
  <2>3. Got(u, i) \in Int /\ (clock - i) * Rate \in Int
    BY <2>1, <1>1, GotIs
  <2>4. CASE u = t
    <3>1. Level(t)' = IF Passes(t) THEN Found(t) - Cost ELSE Found(t)
      <4>1. buckets'[t] = Left(t) /\ t \in DOMAIN buckets' /\ BucketsOK'
        BY <1>1, <1>3 DEF PerTenant!TenantAssumption
      <4>2. Level(t)' = PerTenant!Least(Burst, buckets'[t].tokens + (clock' - buckets'[t].refill) * Rate)
        BY <4>1 DEF Level, PerTenant!Refill, Left, PerTenant!Least
      <4>3. (clock' - buckets'[t].refill) * Rate = 0
        BY <4>1, <1>1, Products DEF Left, BucketsOK, PerTenant!TenantAssumption
      <4> QED BY <4>1, <4>2, <4>3, <1>2 DEF Left, PerTenant!Least, PerTenant!TenantAssumption
    <3>2. Got(t, i)' = IF Passes(t) THEN Got(t, i) + Cost ELSE Got(t, i)
      <4>1. CASE Passes(t)
        <5>1. /\ admitted'[t][clock'] - admitted'[t][i - 1] = (admitted[t][clock] - admitted[t][i - 1]) + 1
              /\ admitted[t][clock] - admitted[t][i - 1] \in Int
          <6>1. i - 1 \in -1..clock /\ clock \in -1..clock /\ i - 1 # clock
            BY <1>1, <2>1 DEF BucketsOK
          <6>2. admitted'[t][clock] = admitted[t][clock] + 1 /\ admitted'[t][i - 1] = admitted[t][i - 1]
            BY <1>1, <4>1, <6>1 DEF BucketsOK
          <6> QED BY <1>1, <2>1, <6>2, GotIs
        <5>2. Cost * ((admitted[t][clock] - admitted[t][i - 1]) + 1) = Cost * (admitted[t][clock] - admitted[t][i - 1]) + Cost
          BY <5>1, Products DEF PerTenant!TenantAssumption
        <5> QED BY <4>1, <5>1, <5>2 DEF Got
      <4>2. CASE ~Passes(t)
        BY <1>1, <4>2 DEF Got
      <4> QED BY <4>1, <4>2
    <3>3. Got(t, i)' + Level(t)' = Got(t, i) + Level(t)
      BY <3>1, <3>2, <2>2, <2>3, <2>4 DEF PerTenant!TenantAssumption
    <3> QED BY <1>1, <2>1, <2>4, <3>3
  <2>5. CASE u # t
    <3>1. Got(u, i)' = Got(u, i)
      BY <1>1, <2>5 DEF Got, BucketsOK
    <3>2. Level(u)' = Level(u)
      <4>1. CASE u \in DOMAIN PerTenant!Swept
        BY <1>1, <2>5, <4>1 DEF Level, PerTenant!Refill, PerTenant!Least
      <4>2. CASE u \notin DOMAIN PerTenant!Swept
        BY <1>1, <1>4, <2>5, <4>2, SweptFull DEF Level
      <4> QED BY <4>1, <4>2
    <3> QED BY <1>1, <2>1, <3>1, <3>2
  <2> QED BY <2>4, <2>5
<1> QED BY <1>3, <1>4 DEF BucketsInv, Bounded

\* A second brings a bucket what the bound grows by.
LEMMA TickBInv == ASSUME PerTenant!TenantAssumption, BucketsInv, PerTenant!Tick PROVE BucketsInv'
<1>1. /\ BucketsOK /\ clock' = clock + 1 /\ clock \in Nat /\ UNCHANGED <<buckets, lastSweep>>
      /\ admitted' = [t \in Customers |-> [i \in -1..clock' |-> admitted[t][IF i > clock THEN clock ELSE i]]]
  BY DEF PerTenant!Tick, BucketsInv, BucketsOK
<1>2. BucketsOK'
  <2>1. \A u \in DOMAIN buckets' : BucketOK(buckets[u])'
    BY <1>1 DEF BucketsOK, BucketOK, Bucket
  <2>2. admitted' \in [Customers -> [-1..clock' -> Nat]]
    BY <1>1 DEF BucketsOK
  <2> QED BY <1>1, <2>1, <2>2 DEF BucketsOK
<1>3. ASSUME NEW t \in Customers
      PROVE  Level(t)' \in 0..Burst /\ Level(t)' <= Level(t) + Rate
  <2>1. Level(t) \in 0..Burst
    BY <1>1, LevelIs
  <2>2. CASE t \notin DOMAIN buckets
    BY <1>1, <2>2 DEF Level, PerTenant!TenantAssumption
  <2>3. CASE t \in DOMAIN buckets
    <3> DEFINE b == buckets[t]
    <3>1. BucketOK(b)
      BY <1>1, <2>3 DEF BucketsOK
    <3>2. /\ clock - b.refill \in Nat /\ (clock + 1) - b.refill = (clock - b.refill) + 1
          /\ b.tokens \in 0..Burst
      BY <1>1, <3>1 DEF BucketOK, Bucket
    <3>3. /\ (clock - b.refill) * Rate \in Nat
          /\ ((clock + 1) - b.refill) * Rate = (clock - b.refill) * Rate + Rate
      <4>1. PICK k \in Nat : k = clock - b.refill
        BY <3>2
      <4>2. (k + 1) * Rate = k * Rate + Rate
        BY NextTimes DEF PerTenant!TenantAssumption
      <4>3. k * Rate \in Nat
        BY NatTimes DEF PerTenant!TenantAssumption
      <4> QED BY <3>2, <4>1, <4>2, <4>3
    <3>4. Level(t) = PerTenant!Least(Burst, b.tokens + (clock - b.refill) * Rate)
      BY <1>1, <2>3, LevelIs
    <3>5. Level(t)' = PerTenant!Least(Burst, b.tokens + ((clock + 1) - b.refill) * Rate)
      BY <1>1, <2>3, <3>1 DEF Level, PerTenant!Refill, PerTenant!Least, BucketOK, Bucket
    <3> QED BY <3>2, <3>3, <3>4, <3>5 DEF PerTenant!Least, PerTenant!TenantAssumption
  <2> QED BY <2>2, <2>3
<1>4. ASSUME IdleTtl * Rate >= Burst, NEW t \in Customers, NEW i \in 0..clock'
      PROVE  Got(t, i)' + Level(t)' <= Burst + (clock' - i) * Rate
  <2>1. CASE i = clock + 1
    <3>1. Got(t, i)' = 0 /\ (clock' - i) * Rate = 0
      <4>1. admitted'[t][clock'] - admitted'[t][i - 1] = 0 /\ clock' - i = 0
        BY <1>1, <2>1 DEF BucketsOK
      <4> QED BY <4>1, Products DEF Got, PerTenant!TenantAssumption
    <3> QED BY <1>3, <3>1 DEF PerTenant!TenantAssumption
  <2>2. CASE i \in 0..clock
    <3>1. Got(t, i)' = Got(t, i)
      BY <1>1, <2>2 DEF Got, BucketsOK
    <3>2. clock - i \in Nat /\ clock' - i = (clock - i) + 1
      BY <1>1, <2>2
    <3>3. (clock' - i) * Rate = (clock - i) * Rate + Rate /\ (clock - i) * Rate \in Int
      <4>1. PICK k \in Nat : k = clock - i
        BY <3>2
      <4>2. (k + 1) * Rate = k * Rate + Rate /\ k * Rate \in Int
        BY NextTimes DEF PerTenant!TenantAssumption
      <4> QED BY <3>2, <4>1, <4>2
    <3>4. Got(t, i) + Level(t) <= Burst + (clock - i) * Rate
      BY <2>2, <1>4 DEF BucketsInv, Bounded
    <3>5. Got(t, i) \in Int /\ Level(t) \in Int
      BY <1>1, <2>2, LevelIs, GotIs
    <3> QED BY <1>3, <3>1, <3>3, <3>4, <3>5 DEF PerTenant!TenantAssumption
  <2> QED BY <1>1, <1>4, <2>1, <2>2
<1> QED BY <1>2, <1>4 DEF BucketsInv, Bounded

LEMMA TenantInv == ASSUME PerTenant!TenantAssumption PROVE PerTenant!Spec => []BucketsInv
<1>1. BucketsInv /\ [PerTenant!Next]_PerTenant!vars => BucketsInv'
  <2>1. ASSUME BucketsInv, UNCHANGED PerTenant!vars
        PROVE  BucketsInv'
    BY <2>1 DEF PerTenant!vars, BucketsInv, Bounded, BucketsOK, BucketOK, Bucket, Got, Level, PerTenant!Refill, PerTenant!Least
  <2> QED BY <2>1, AllowBInv, TickBInv DEF PerTenant!Next
<1>2. PerTenant!Init => BucketsInv
  BY InitBInv
<1> QED BY <1>1, <1>2, PTL DEF PerTenant!Spec

\* In every stretch of time a tenant gets no more than a full bucket and what came
\* in (Allow), though sweepLocked takes buckets away, if one that idles for IdleTtl
\* is full by then.
THEOREM TenantsHold == ASSUME PerTenant!TenantAssumption PROVE PerTenant!Spec => []PerTenant!TenantBounded
<1>1. BucketsInv => PerTenant!TenantBounded
  <2> SUFFICES ASSUME BucketsInv, IdleTtl * Rate >= Burst, NEW t \in Customers, NEW i \in 0..clock
               PROVE  Got(t, i) <= Burst + (clock - i) * Rate
    BY DEF PerTenant!TenantBounded, Got
  <2>1. Got(t, i) \in Int /\ Level(t) \in Nat /\ (clock - i) * Rate \in Int
    BY LevelIs, GotIs DEF BucketsInv
  <2> QED BY <2>1 DEF BucketsInv, Bounded, PerTenant!TenantAssumption
<1> QED BY <1>1, TenantInv, PTL

-----------------------------------------------------------------------------
(* The gateway's buckets.  The endpoint's are as many as streams ended, and one;  *)
(* what they could all give now is bounded by its partial sums.                   *)

\* What a bucket holds at a time.
At(l, rate, burst, time) == PerStream!Least(burst, l.tokens + (time - l.last) * rate)

LEMMA AtIs ==
    ASSUME NEW time \in Nat, NEW rate \in Nat, NEW burst \in Nat, NEW l, l.tokens \in 0..burst, l.last \in 0..time
    PROVE  /\ At(l, rate, burst, time) \in 0..burst
           /\ l.last = time => At(l, rate, burst, time) = l.tokens
           /\ At(l, rate, burst, time + 1) \in 0..burst
           /\ At(l, rate, burst, time + 1) <= At(l, rate, burst, time) + rate
<1>1. PICK k \in Nat : k = time - l.last
  OBVIOUS
<1>2. k * rate \in Nat /\ (k + 1) * rate = k * rate + rate /\ (time + 1) - l.last = k + 1
  <2>1. k * rate \in Nat
    BY NatTimes
  <2>2. (k + 1) * rate = k * rate + rate
    BY NextTimes
  <2>3. (time + 1) - l.last = k + 1
    BY <1>1
  <2> QED BY <2>1, <2>2, <2>3
<1>3. l.last = time => k * rate = 0
  BY <1>1, Products
<1>4. /\ At(l, rate, burst, time) = PerStream!Least(burst, l.tokens + k * rate)
      /\ At(l, rate, burst, time + 1) = PerStream!Least(burst, l.tokens + (k * rate + rate))
  BY <1>1, <1>2 DEF At
<1> QED BY <1>2, <1>3, <1>4 DEF PerStream!Least

Limiter(burst) == [tokens : 0..burst, last : Nat]

Working == [pc : {"closed", "recv", "endpoint", "tenant"}, limiter : Nat, n : Nat]

StreamOK ==
    /\ clock \in Nat /\ closes \in Nat /\ endpoint \in 0..Len(limiters)
    /\ limiters \in Seq(Limiter(EndpointBurst))
    /\ \A j \in 1..Len(limiters) : limiters[j].last <= clock
    /\ tenant \in Limiter(TenantBurst) /\ tenant.last <= clock
    /\ batch \in [Streams -> Working]
    /\ \A s \in Streams : batch[s].pc = "endpoint" => batch[s].limiter \in 1..Len(limiters)
    /\ spent \in [-1..clock -> [endpoint : Nat, tenant : Nat]]
    /\ Len(limiters) <= closes + 1 /\ (endpoint = 0 => Len(limiters) <= closes)

TenantNow == At(tenant, TenantRate, TenantBurst, clock)
EndpointNow(j) == At(limiters[j], EndpointRate, EndpointBurst, clock)

TenantShare == \A i \in 0..clock :
    spent[clock].tenant - spent[i - 1].tenant + TenantNow <= TenantBurst + (clock - i) * TenantRate

\* P[j]: no less than what the first j buckets could give now.
Sums(P) ==
    /\ P \in [0..Len(limiters) -> Nat]
    /\ \A b \in 1..Len(limiters) : \A a \in 0..(b - 1) : P[a] + EndpointNow(b) <= P[b]

Within(P, i) ==
    spent[clock].endpoint - spent[i - 1].endpoint + P[Len(limiters)]
        <= Len(limiters) * (EndpointBurst + (clock - i) * EndpointRate)

EndpointShare == \A i \in 0..clock : \E P \in [0..Len(limiters) -> Nat] : Sums(P) /\ Within(P, i)

StreamsInv == StreamOK /\ TenantShare /\ EndpointShare

LEMMA NowIs == ASSUME PerStream!StreamAssumption, StreamOK
    PROVE  /\ TenantNow \in 0..TenantBurst
           /\ \A j \in 1..Len(limiters) : EndpointNow(j) \in 0..EndpointBurst
           /\ PerStream!Refill(tenant, TenantRate, TenantBurst) = TenantNow
           /\ \A j \in 1..Len(limiters) : PerStream!Refill(limiters[j], EndpointRate, EndpointBurst) = EndpointNow(j)
<1>1. tenant.tokens \in 0..TenantBurst /\ tenant.last \in 0..clock /\ clock \in Nat
  BY DEF StreamOK, Limiter
<1>2. ASSUME NEW j \in 1..Len(limiters)
      PROVE  limiters[j].tokens \in 0..EndpointBurst /\ limiters[j].last \in 0..clock
  <2>1. limiters[j] \in Limiter(EndpointBurst)
    BY DEF StreamOK
  <2>2. limiters[j].last <= clock /\ clock \in Nat
    BY DEF StreamOK
  <2> QED BY <2>1, <2>2 DEF Limiter
<1> QED BY <1>1, <1>2, AtIs DEF TenantNow, EndpointNow, At, PerStream!Refill, PerStream!StreamAssumption

LEMMA SpentIs == ASSUME PerStream!StreamAssumption, StreamOK, NEW i \in 0..clock
    PROVE  /\ spent[clock].tenant \in Nat /\ spent[i - 1].tenant \in Nat
           /\ spent[clock].endpoint \in Nat /\ spent[i - 1].endpoint \in Nat
           /\ clock - i \in Nat /\ (clock - i) * TenantRate \in Nat /\ (clock - i) * EndpointRate \in Nat
           /\ Len(limiters) \in Nat
           /\ Len(limiters) * (EndpointBurst + (clock - i) * EndpointRate) \in Nat
<1>1. i - 1 \in -1..clock /\ clock \in -1..clock /\ clock - i \in Nat /\ Len(limiters) \in Nat
  BY DEF StreamOK
<1>2. spent[clock] \in [endpoint : Nat, tenant : Nat] /\ spent[i - 1] \in [endpoint : Nat, tenant : Nat]
  BY <1>1 DEF StreamOK
<1>3. (clock - i) * TenantRate \in Nat /\ (clock - i) * EndpointRate \in Nat
  BY <1>1, NatTimes DEF PerStream!StreamAssumption
<1>4. EndpointBurst + (clock - i) * EndpointRate \in Nat
  BY <1>3 DEF PerStream!StreamAssumption
<1> QED BY <1>1, <1>2, <1>3, <1>4, NatTimes

LEMMA InitSInv == ASSUME PerStream!StreamAssumption, PerStream!Init PROVE StreamsInv
<1>1. StreamOK
  <2>1. clock = 0 /\ closes = 0 /\ endpoint = 0 /\ limiters = <<>> /\ Len(limiters) = 0
    BY DEF PerStream!Init
  <2>2. tenant \in Limiter(TenantBurst) /\ tenant.last <= clock
    BY DEF PerStream!Init, Limiter, PerStream!StreamAssumption
  <2>3. /\ batch \in [Streams -> Working]
        /\ \A s \in Streams : batch[s].pc # "endpoint"
    BY DEF PerStream!Init, PerStream!NoBatch, Working
  <2>4. spent \in [-1..clock -> [endpoint : Nat, tenant : Nat]]
    BY DEF PerStream!Init
  <2> QED BY <2>1, <2>2, <2>3, <2>4 DEF StreamOK
<1>2. TenantShare
  <2> SUFFICES ASSUME NEW i \in 0..clock
               PROVE  spent[clock].tenant - spent[i - 1].tenant + TenantNow <= TenantBurst + (clock - i) * TenantRate
    BY DEF TenantShare
  <2>1. TenantNow \in 0..TenantBurst /\ (clock - i) * TenantRate \in Nat
    BY <1>1, NowIs, SpentIs
  <2>2. spent[clock].tenant = 0 /\ spent[i - 1].tenant = 0
    BY DEF PerStream!Init
  <2> QED BY <2>1, <2>2 DEF PerStream!StreamAssumption
<1>3. EndpointShare
  <2> SUFFICES ASSUME NEW i \in 0..clock
               PROVE  \E P \in [0..Len(limiters) -> Nat] : Sums(P) /\ Within(P, i)
    BY DEF EndpointShare
  <2> DEFINE P == [j \in 0..Len(limiters) |-> 0]
  <2>1. Len(limiters) = 0 /\ spent[clock].endpoint = 0 /\ spent[i - 1].endpoint = 0
    BY DEF PerStream!Init
  <2>2. Len(limiters) * (EndpointBurst + (clock - i) * EndpointRate) \in Nat
    BY <1>1, SpentIs
  <2>3. P \in [0..Len(limiters) -> Nat] /\ Sums(P) /\ Within(P, i)
    BY <2>1, <2>2 DEF Sums, Within
  <2> QED BY <2>3
<1> QED BY <1>1, <1>2, <1>3 DEF StreamsInv

\* The buckets and what they gave are as before, and so are the bounds.
LEMMA SameShares ==
    ASSUME StreamsInv, StreamOK', UNCHANGED <<clock, limiters, tenant, spent>>
    PROVE  StreamsInv'
<1>1. TenantShare'
  BY DEF StreamsInv, TenantShare, TenantNow
<1>2. EndpointShare'
  BY DEF StreamsInv, EndpointShare, Sums, Within, EndpointNow
<1> QED BY <1>1, <1>2 DEF StreamsInv

LEMMA RemoveStep == ASSUME PerStream!StreamAssumption, StreamsInv, NEW s \in Streams, PerStream!RemoveEndpoint(s) PROVE StreamsInv'
<1>1. StreamOK'
  <2>1. /\ StreamOK /\ endpoint' = 0 /\ closes' = closes + 1 /\ batch[s] \in Working
        /\ batch' = [batch EXCEPT ![s].pc = "closed"] /\ UNCHANGED <<clock, limiters, tenant, spent>>
    BY DEF PerStream!RemoveEndpoint, StreamsInv, StreamOK
  <2>2. batch' \in [Streams -> Working] /\ \A t \in Streams : batch'[t].pc = "endpoint" => batch'[t] = batch[t]
    BY <2>1 DEF StreamOK, Working
  <2> QED BY <2>1, <2>2 DEF StreamOK
<1> QED BY <1>1, SameShares DEF PerStream!RemoveEndpoint

\* A new bucket, full, is one more in the sums.
LEMMA CreateStep == ASSUME PerStream!StreamAssumption, StreamsInv, NEW s \in Streams, PerStream!GetOrCreateEndpoint(s) PROVE StreamsInv'
<1>1. PICK n \in BatchSizes : batch' = [batch EXCEPT ![s] = [pc |-> "endpoint", limiter |-> endpoint', n |-> n]]
  BY DEF PerStream!GetOrCreateEndpoint
<1>2. StreamOK /\ n \in Nat /\ UNCHANGED <<clock, tenant, spent, closes>>
  BY <1>1 DEF StreamsInv, PerStream!StreamAssumption, PerStream!GetOrCreateEndpoint
<1>3. CASE endpoint # 0
  <2>1. UNCHANGED <<limiters, endpoint>> /\ endpoint \in 1..Len(limiters)
    BY <1>2, <1>3 DEF PerStream!GetOrCreateEndpoint, StreamOK
  <2>2. StreamOK'
    <3>1. [pc |-> "endpoint", limiter |-> endpoint', n |-> n] \in Working
      BY <1>2, <2>1 DEF Working, StreamOK
    <3>2. batch' \in [Streams -> Working]
      BY <1>1, <1>2, <3>1 DEF StreamOK
    <3>3. \A t \in Streams : batch'[t].pc = "endpoint" => batch'[t].limiter \in 1..Len(limiters)
      BY <1>1, <1>2, <2>1 DEF StreamOK
    <3> QED BY <1>2, <2>1, <3>2, <3>3 DEF StreamOK
  <2> QED BY <1>2, <2>1, <2>2, SameShares
<1>4. CASE endpoint = 0
  <2> DEFINE new == [tokens |-> EndpointBurst, last |-> clock]
  <2>1. limiters' = Append(limiters, new) /\ endpoint' = Len(limiters')
    BY <1>4 DEF PerStream!GetOrCreateEndpoint
  <2>2. /\ Len(limiters') = Len(limiters) + 1 /\ Len(limiters) \in Nat
        /\ \A j \in 1..Len(limiters) : limiters'[j] = limiters[j]
        /\ limiters'[Len(limiters) + 1] = new
        /\ new \in Limiter(EndpointBurst)
    <3>1. new \in Limiter(EndpointBurst)
      BY <1>2 DEF StreamOK, Limiter, PerStream!StreamAssumption
    <3>2. limiters \in Seq(Limiter(EndpointBurst))
      BY <1>2 DEF StreamOK
    <3> HIDE DEF new
    <3> QED BY <2>1, <3>1, <3>2
  <2>3. StreamOK'
    <3>1. limiters' \in Seq(Limiter(EndpointBurst)) /\ \A j \in 1..Len(limiters') : limiters'[j].last <= clock'
      BY <1>2, <2>1, <2>2 DEF StreamOK
    <3>2. batch' \in [Streams -> Working]
      <4>1. [pc |-> "endpoint", limiter |-> endpoint', n |-> n] \in Working
        BY <1>2, <2>1, <2>2 DEF Working
      <4> QED BY <1>1, <1>2, <4>1 DEF StreamOK
    <3>3. \A t \in Streams : batch'[t].pc = "endpoint" => batch'[t].limiter \in 1..Len(limiters')
      BY <1>1, <1>2, <2>1, <2>2 DEF StreamOK
    <3>4. endpoint' \in 0..Len(limiters') /\ endpoint' # 0 /\ Len(limiters') <= closes' + 1
      BY <1>2, <1>4, <2>1, <2>2 DEF StreamOK
    <3>5. /\ clock' \in Nat /\ closes' \in Nat /\ tenant' \in Limiter(TenantBurst) /\ tenant'.last <= clock'
          /\ spent' \in [-1..clock' -> [endpoint : Nat, tenant : Nat]]
      BY <1>2 DEF StreamOK
    <3> QED BY <3>1, <3>2, <3>3, <3>4, <3>5 DEF StreamOK
  <2>4. TenantShare'
    BY <1>2 DEF StreamsInv, TenantShare, TenantNow
  <2>5. ASSUME NEW i \in 0..clock'
        PROVE  \E P \in [0..Len(limiters') -> Nat] : Sums(P)' /\ Within(P, i)'
    <3>1. PICK P \in [0..Len(limiters) -> Nat] : Sums(P) /\ Within(P, i)
      BY <1>2 DEF StreamsInv, EndpointShare
    <3>2. PICK top \in Nat : top = P[Len(limiters)]
      BY <2>2
    <3>a. PICK Q : Q = [j \in 0..Len(limiters) + 1 |-> IF j <= Len(limiters) THEN P[j] ELSE top + EndpointBurst]
      OBVIOUS
    <3>b. PICK k \in Nat : k = Len(limiters) + 1
      BY <2>2
    <3>3. /\ \A j \in 1..Len(limiters) : EndpointNow(j)' = EndpointNow(j)
          /\ EndpointNow(k)' = EndpointBurst
      <4>1. \A j \in 1..Len(limiters) : EndpointNow(j)' = EndpointNow(j)
        BY <1>2, <2>2 DEF EndpointNow
      <4>2. At(new, EndpointRate, EndpointBurst, clock) = EndpointBurst
        <5>1. new.tokens \in 0..EndpointBurst /\ new.last \in 0..clock /\ new.last = clock /\ new.tokens = EndpointBurst /\ clock \in Nat
          BY <1>2 DEF StreamOK, PerStream!StreamAssumption
        <5> HIDE DEF new
        <5> QED BY <5>1, AtIs DEF PerStream!StreamAssumption
      <4>3. limiters'[Len(limiters) + 1] = new /\ clock' = clock
        BY <1>2, <2>2
      <4> HIDE DEF new
      <4> QED BY <4>1, <4>2, <4>3, <3>b DEF EndpointNow
    <3>4. Q \in [0..Len(limiters') -> Nat] /\ Q[Len(limiters) + 1] = top + EndpointBurst
          /\ \A j \in 0..Len(limiters) : Q[j] = P[j]
      BY <2>2, <3>a DEF PerStream!StreamAssumption
    <3>5. ASSUME NEW b \in 1..Len(limiters'), NEW a \in 0..(b - 1)
          PROVE  Q[a] + EndpointNow(b)' <= Q[b]
      <4>1. CASE b \in 1..Len(limiters)
        BY <2>2, <3>1, <3>3, <3>4, <3>5, <4>1 DEF Sums
      <4>2. CASE b = Len(limiters) + 1
        <5>1. a \in 0..Len(limiters) /\ P[a] \in Nat
          BY <2>2, <3>5, <4>2
        <5>2. P[a] <= top
          <6>1. CASE a = Len(limiters)
            BY <6>1, <3>2
          <6>2. CASE a # Len(limiters)
            <7>1. Len(limiters) \in 1..Len(limiters) /\ a \in 0..(Len(limiters) - 1)
              BY <5>1, <6>2, <2>2
            <7>2. P[a] + EndpointNow(Len(limiters)) <= top /\ EndpointNow(Len(limiters)) \in Nat
              BY <7>1, <3>1, <3>2, <1>2, NowIs DEF Sums
            <7> QED BY <5>1, <7>2
          <6> QED BY <6>1, <6>2
        <5>3. Q[a] = P[a] /\ Q[b] = top + EndpointBurst /\ EndpointNow(b)' = EndpointBurst
          <6>1. b = k
            BY <3>b, <4>2
          <6> QED BY <6>1, <3>b, <3>3, <3>4, <5>1
        <5> QED BY <5>1, <5>2, <5>3 DEF PerStream!StreamAssumption
      <4> QED BY <2>2, <4>1, <4>2
    <3>6. Within(Q, i)'
      <4> DEFINE X == EndpointBurst + (clock - i) * EndpointRate
      <4>1. X \in Nat /\ EndpointBurst <= X
        <5>1. i \in 0..clock /\ (clock - i) * EndpointRate \in Nat
          BY <1>2, SpentIs
        <5> QED BY <5>1 DEF PerStream!StreamAssumption
      <4>2. (Len(limiters) + 1) * X = Len(limiters) * X + X /\ Len(limiters) * X \in Int
        <5> HIDE DEF X
        <5> QED BY <2>2, <4>1, NextTimes
      <4>3. Q[Len(limiters')] = top + EndpointBurst
        BY <2>2, <3>4
      <4>4. spent[clock].endpoint - spent[i - 1].endpoint + top <= Len(limiters) * X
        BY <3>1, <3>2 DEF Within
      <4>5. spent[clock].endpoint \in Nat /\ spent[i - 1].endpoint \in Nat
        BY <1>2, SpentIs
      <4>6. spent[clock].endpoint - spent[i - 1].endpoint + (top + EndpointBurst) <= (Len(limiters) + 1) * X
        <5> HIDE DEF X
        <5> QED BY <4>1, <4>2, <4>4, <4>5, <3>2 DEF PerStream!StreamAssumption
      <4>7. Len(limiters') = Len(limiters) + 1 /\ clock' = clock /\ spent' = spent
        BY <1>2, <2>2
      <4> QED BY <4>3, <4>6, <4>7 DEF Within
    <3>7. Sums(Q)'
      BY <3>4, <3>5 DEF Sums
    <3> QED BY <3>4, <3>6, <3>7
  <2> QED BY <2>3, <2>4, <2>5 DEF StreamsInv, EndpointShare
<1> QED BY <1>3, <1>4

\* What is counted when n events are let through.
LEMMA Counted == ASSUME StreamOK, NEW n \in Nat
    PROVE  /\ clock \in -1..clock
           /\ [spent EXCEPT ![clock].tenant = @ + n] \in [-1..clock -> [endpoint : Nat, tenant : Nat]]
           /\ [spent EXCEPT ![clock].endpoint = @ + n] \in [-1..clock -> [endpoint : Nat, tenant : Nat]]
           /\ [spent EXCEPT ![clock].tenant = @ + n][clock] = [endpoint |-> spent[clock].endpoint, tenant |-> spent[clock].tenant + n]
           /\ [spent EXCEPT ![clock].endpoint = @ + n][clock] = [endpoint |-> spent[clock].endpoint + n, tenant |-> spent[clock].tenant]
           /\ \A i \in -1..clock : i # clock =>
                /\ [spent EXCEPT ![clock].tenant = @ + n][i] = spent[i]
                /\ [spent EXCEPT ![clock].endpoint = @ + n][i] = spent[i]
<1>1. clock \in -1..clock
  BY DEF StreamOK
<1>2. spent \in [-1..clock -> [endpoint : Nat, tenant : Nat]]
  BY DEF StreamOK
<1>3. PICK e \in Nat, u \in Nat : spent[clock] = [endpoint |-> e, tenant |-> u]
  <2>1. spent[clock] \in [endpoint : Nat, tenant : Nat]
    BY <1>1, <1>2
  <2> QED BY <2>1
<1>4. /\ [spent EXCEPT ![clock].tenant = @ + n] = [spent EXCEPT ![clock] = [endpoint |-> e, tenant |-> u + n]]
      /\ [spent EXCEPT ![clock].endpoint = @ + n] = [spent EXCEPT ![clock] = [endpoint |-> e + n, tenant |-> u]]
  <2>1. /\ [[endpoint |-> e, tenant |-> u] EXCEPT !.tenant = @ + n] = [endpoint |-> e, tenant |-> u + n]
        /\ [[endpoint |-> e, tenant |-> u] EXCEPT !.endpoint = @ + n] = [endpoint |-> e + n, tenant |-> u]
    OBVIOUS
  <2>2. /\ [spent EXCEPT ![clock].tenant = @ + n] = [spent EXCEPT ![clock] = [spent[clock] EXCEPT !.tenant = @ + n]]
        /\ [spent EXCEPT ![clock].endpoint = @ + n] = [spent EXCEPT ![clock] = [spent[clock] EXCEPT !.endpoint = @ + n]]
    BY Zenon
  <2> QED BY <1>3, <2>1, <2>2, Zenon
<1>5. /\ [endpoint |-> e, tenant |-> u + n] \in [endpoint : Nat, tenant : Nat]
      /\ [endpoint |-> e + n, tenant |-> u] \in [endpoint : Nat, tenant : Nat]
  OBVIOUS
<1>6. \A r \in [endpoint : Nat, tenant : Nat] : [spent EXCEPT ![clock] = r] \in [-1..clock -> [endpoint : Nat, tenant : Nat]]
  BY <1>2
<1>7. \A r \in [endpoint : Nat, tenant : Nat] :
         /\ [spent EXCEPT ![clock] = r][clock] = r
         /\ \A i \in -1..clock : i # clock => [spent EXCEPT ![clock] = r][i] = spent[i]
  BY <1>1, <1>2
<1>8. spent[clock].endpoint = e /\ spent[clock].tenant = u
  BY <1>3
<1> QED BY <1>1, <1>4, <1>5, <1>6, <1>7, <1>8

\* What a batch gets of the tenant's bucket, the bucket has less.
LEMMA TenantStep == ASSUME PerStream!StreamAssumption, StreamsInv, NEW s \in Streams, PerStream!AllowTenant(s) PROVE StreamsInv'
<1>1. /\ StreamOK /\ UNCHANGED <<clock, limiters, endpoint, closes>>
      /\ batch' = [batch EXCEPT ![s] = PerStream!NoBatch]
      /\ batch[s] \in Working
  BY DEF PerStream!AllowTenant, StreamsInv, StreamOK
<1>2. PICK n \in Nat : n = batch[s].n
  BY <1>1 DEF Working
<1>3. /\ batch' \in [Streams -> Working]
      /\ \A t \in Streams : batch'[t].pc = "endpoint" => batch'[t] = batch[t]
  BY <1>1 DEF StreamOK, Working, PerStream!NoBatch
<1>4. CASE ~ n <= TenantNow
  <2>1. UNCHANGED <<tenant, spent>>
    BY <1>1, <1>2, <1>4, NowIs DEF PerStream!AllowTenant, PerStream!AllowN
  <2>2. StreamOK'
    BY <1>1, <1>3, <2>1 DEF StreamOK
  <2> QED BY <1>1, <2>1, <2>2, SameShares
<1>5. CASE n <= TenantNow
  <2>1. /\ tenant' = [tokens |-> TenantNow - n, last |-> clock]
        /\ spent' = [spent EXCEPT ![clock].tenant = @ + n]
        /\ TenantNow \in 0..TenantBurst
    BY <1>1, <1>2, <1>5, NowIs DEF PerStream!AllowTenant, PerStream!AllowN, PerStream!Take
  <2>2. /\ spent' \in [-1..clock' -> [endpoint : Nat, tenant : Nat]]
        /\ spent'[clock].tenant = spent[clock].tenant + n
        /\ \A i \in -1..clock : i # clock => spent'[i] = spent[i]
        /\ \A i \in -1..clock : spent'[i].endpoint = spent[i].endpoint
    <3>1. spent'[clock] = [endpoint |-> spent[clock].endpoint, tenant |-> spent[clock].tenant + n]
      BY <1>1, <2>1, Counted
    <3>2. \A i \in -1..clock : i # clock => spent'[i] = spent[i]
      BY <1>1, <2>1, Counted
    <3>3. spent' \in [-1..clock -> [endpoint : Nat, tenant : Nat]] /\ clock' = clock
      BY <1>1, <2>1, Counted
    <3>4. spent'[clock].tenant = spent[clock].tenant + n /\ spent'[clock].endpoint = spent[clock].endpoint
      BY <3>1
    <3> QED BY <3>2, <3>3, <3>4
  <2>3. TenantNow - n \in 0..TenantBurst /\ clock \in Nat
    BY <1>1, <1>5, <2>1 DEF PerStream!StreamAssumption, StreamOK
  <2>4. tenant' \in Limiter(TenantBurst) /\ tenant'.last = clock /\ tenant'.tokens = TenantNow - n
    BY <2>1, <2>3 DEF Limiter
  <2>5. StreamOK'
    <3>1. /\ clock' \in Nat /\ closes' \in Nat /\ endpoint' \in 0..Len(limiters')
          /\ limiters' \in Seq(Limiter(EndpointBurst))
          /\ \A j \in 1..Len(limiters') : limiters'[j].last <= clock'
          /\ Len(limiters') <= closes' + 1 /\ (endpoint' = 0 => Len(limiters') <= closes')
      BY <1>1 DEF StreamOK
    <3>2. tenant' \in Limiter(TenantBurst) /\ tenant'.last <= clock'
      BY <1>1, <2>3, <2>4
    <3>3. \A t \in Streams : batch'[t].pc = "endpoint" => batch'[t].limiter \in 1..Len(limiters')
      BY <1>1, <1>3 DEF StreamOK
    <3> QED BY <1>3, <2>2, <3>1, <3>2, <3>3 DEF StreamOK
  <2>6. TenantNow' = TenantNow - n
    <3> DEFINE new == [tokens |-> TenantNow - n, last |-> clock]
    <3>1. new.tokens = TenantNow - n /\ new.last = clock /\ tenant' = new
      BY <2>1
    <3> HIDE DEF new
    <3>2. new.tokens \in 0..TenantBurst /\ new.last \in 0..clock
      BY <2>3, <3>1
    <3>3. At(new, TenantRate, TenantBurst, clock) = TenantNow - n
      BY <2>3, <3>1, <3>2, AtIs DEF PerStream!StreamAssumption
    <3>4. clock' = clock
      BY <1>1
    <3> QED BY <3>1, <3>3, <3>4 DEF TenantNow
  <2>7. ASSUME NEW i \in 0..clock
        PROVE  spent'[clock'].tenant - spent'[i - 1].tenant + TenantNow' <= TenantBurst + (clock' - i) * TenantRate
    <3>1. spent'[i - 1] = spent[i - 1] /\ clock' = clock
      BY <1>1, <2>2, <2>3
    <3>2. spent[clock].tenant - spent[i - 1].tenant + TenantNow <= TenantBurst + (clock - i) * TenantRate
      BY DEF StreamsInv, TenantShare
    <3>3. spent[clock].tenant \in Nat /\ spent[i - 1].tenant \in Nat /\ (clock - i) * TenantRate \in Nat
      BY <1>1, SpentIs
    <3>4. PICK w \in Nat : w = (clock - i) * TenantRate
      BY <3>3
    <3>5. PICK u \in Nat, v \in Nat, x \in Nat : u = spent[clock].tenant /\ v = spent[i - 1].tenant /\ x = TenantNow
      BY <2>1, <3>3 DEF PerStream!StreamAssumption
    <3>6. u - v + x <= TenantBurst + w
      BY <3>2, <3>4, <3>5
    <3>7. (u + n) - v + (x - n) <= TenantBurst + w
      BY <3>6 DEF PerStream!StreamAssumption
    <3>8. spent'[clock'].tenant = u + n /\ spent'[i - 1].tenant = v /\ TenantNow' = x - n /\ (clock' - i) * TenantRate = w
      BY <2>2, <2>6, <3>1, <3>4, <3>5
    <3> QED BY <3>7, <3>8
  <2>8. TenantShare'
    BY <1>1, <2>7 DEF TenantShare
  <2>9. EndpointShare'
    <3> SUFFICES ASSUME NEW i \in 0..clock'
                 PROVE  \E P \in [0..Len(limiters') -> Nat] : Sums(P)' /\ Within(P, i)'
      BY DEF EndpointShare
    <3>1. PICK P \in [0..Len(limiters) -> Nat] : Sums(P) /\ Within(P, i)
      BY <1>1 DEF StreamsInv, EndpointShare
    <3>2. spent'[clock'].endpoint = spent[clock].endpoint /\ spent'[i - 1].endpoint = spent[i - 1].endpoint
      <4>1. i - 1 \in -1..clock /\ clock \in -1..clock /\ clock' = clock
        BY <1>1, <2>3
      <4> QED BY <4>1, <2>2
    <3>3. Sums(P)' /\ Within(P, i)'
      BY <1>1, <3>1, <3>2 DEF Sums, Within, EndpointNow
    <3> QED BY <1>1, <3>3
  <2> QED BY <2>5, <2>8, <2>9 DEF StreamsInv
<1> QED BY <1>4, <1>5

\* What a batch gets of a bucket, in the map or not, every sum from it on has less.
LEMMA EndpointStep == ASSUME PerStream!StreamAssumption, StreamsInv, NEW s \in Streams, PerStream!AllowEndpoint(s) PROVE StreamsInv'
<1>1. /\ StreamOK /\ UNCHANGED <<clock, endpoint, tenant, closes>>
      /\ batch[s] \in Working /\ batch[s].pc = "endpoint"
  BY DEF PerStream!AllowEndpoint, StreamsInv, StreamOK
<1>2. PICK n \in Nat, k \in 1..Len(limiters) : n = batch[s].n /\ k = batch[s].limiter
  BY <1>1 DEF Working, StreamOK
<1>3. CASE ~ n <= EndpointNow(k)
  <2>1. batch' = [batch EXCEPT ![s] = PerStream!NoBatch] /\ UNCHANGED <<limiters, spent>>
    BY <1>1, <1>2, <1>3, NowIs DEF PerStream!AllowEndpoint, PerStream!AllowN
  <2>2. /\ batch' \in [Streams -> Working]
        /\ \A t \in Streams : batch'[t].pc = "endpoint" => batch'[t] = batch[t]
    BY <1>1, <2>1 DEF StreamOK, Working, PerStream!NoBatch
  <2>3. StreamOK'
    BY <1>1, <2>1, <2>2 DEF StreamOK
  <2> QED BY <1>1, <2>1, <2>3, SameShares
<1>4. CASE n <= EndpointNow(k)
  <2> DEFINE new == [tokens |-> EndpointNow(k) - n, last |-> clock]
  <2>1. /\ limiters' = [limiters EXCEPT ![k] = new]
        /\ spent' = [spent EXCEPT ![clock].endpoint = @ + n]
        /\ batch' = [batch EXCEPT ![s].pc = "tenant"]
        /\ EndpointNow(k) \in 0..EndpointBurst
    BY <1>1, <1>2, <1>4, NowIs DEF PerStream!AllowEndpoint, PerStream!AllowN, PerStream!Take
  <2>2. /\ spent' \in [-1..clock' -> [endpoint : Nat, tenant : Nat]]
        /\ spent'[clock].endpoint = spent[clock].endpoint + n
        /\ \A i \in -1..clock : i # clock => spent'[i] = spent[i]
        /\ \A i \in -1..clock : spent'[i].tenant = spent[i].tenant
    <3>1. spent'[clock] = [endpoint |-> spent[clock].endpoint + n, tenant |-> spent[clock].tenant]
      BY <1>1, <2>1, Counted
    <3>2. \A i \in -1..clock : i # clock => spent'[i] = spent[i]
      BY <1>1, <2>1, Counted
    <3>3. spent' \in [-1..clock -> [endpoint : Nat, tenant : Nat]] /\ clock' = clock
      BY <1>1, <2>1, Counted
    <3>4. spent'[clock].endpoint = spent[clock].endpoint + n /\ spent'[clock].tenant = spent[clock].tenant
      BY <3>1
    <3> QED BY <3>2, <3>3, <3>4
  <2>3. /\ EndpointNow(k) - n \in 0..EndpointBurst /\ clock \in Nat /\ new \in Limiter(EndpointBurst)
        /\ new.tokens = EndpointNow(k) - n /\ new.last = clock
    <3>1. EndpointNow(k) - n \in 0..EndpointBurst
      <4>1. EndpointNow(k) \in 0..EndpointBurst
        BY <2>1
      <4> HIDE DEF new
      <4> QED BY <1>4, <4>1 DEF PerStream!StreamAssumption
    <3>3. clock \in Nat
      BY <1>1 DEF StreamOK
    <3> QED BY <3>1, <3>3 DEF Limiter
  <2>4. /\ limiters' \in Seq(Limiter(EndpointBurst)) /\ Len(limiters') = Len(limiters) /\ Len(limiters) \in Nat
        /\ limiters'[k] = new
        /\ \A j \in 1..Len(limiters) : j # k => limiters'[j] = limiters[j]
    <3>1. limiters \in Seq(Limiter(EndpointBurst))
      BY <1>1 DEF StreamOK
    <3> HIDE DEF new
    <3> QED BY <2>1, <2>3, <3>1
  <2>5. StreamOK'
    <3>1. /\ batch' \in [Streams -> Working]
          /\ \A t \in Streams : batch'[t].pc = "endpoint" => batch'[t] = batch[t]
      BY <1>1, <2>1 DEF StreamOK, Working
    <3>2. \A j \in 1..Len(limiters') : limiters'[j].last <= clock'
      <4>1. ASSUME NEW j \in 1..Len(limiters)
            PROVE  limiters'[j].last <= clock
        <5>1. CASE j = k
          <6> HIDE DEF new
          <6> QED BY <2>3, <2>4, <5>1
        <5>2. CASE j # k
          <6> HIDE DEF new
          <6> QED BY <1>1, <2>4, <5>2 DEF StreamOK
        <5> QED BY <5>1, <5>2
      <4> HIDE DEF new
      <4> QED BY <1>1, <2>4, <4>1
    <3>3. /\ clock' \in Nat /\ closes' \in Nat /\ endpoint' \in 0..Len(limiters')
          /\ tenant' \in Limiter(TenantBurst) /\ tenant'.last <= clock'
          /\ Len(limiters') <= closes' + 1 /\ (endpoint' = 0 => Len(limiters') <= closes')
      <4> HIDE DEF new
      <4> QED BY <1>1, <2>4 DEF StreamOK
    <3>4. \A t \in Streams : batch'[t].pc = "endpoint" => batch'[t].limiter \in 1..Len(limiters')
      <4> HIDE DEF new
      <4> QED BY <1>1, <2>4, <3>1 DEF StreamOK
    <3> HIDE DEF new
    <3> QED BY <2>2, <2>4, <3>1, <3>2, <3>3, <3>4 DEF StreamOK
  <2>6. /\ EndpointNow(k)' = EndpointNow(k) - n
        /\ \A j \in 1..Len(limiters) : j # k => EndpointNow(j)' = EndpointNow(j)
    <3>1. At(new, EndpointRate, EndpointBurst, clock) = EndpointNow(k) - n
      <4>1. new.tokens \in 0..EndpointBurst /\ new.last \in 0..clock /\ new.last = clock /\ new.tokens = EndpointNow(k) - n /\ clock \in Nat
        BY <2>3
      <4> HIDE DEF new
      <4>2. At(new, EndpointRate, EndpointBurst, clock) = new.tokens
        BY <4>1, AtIs DEF PerStream!StreamAssumption
      <4> QED BY <4>1, <4>2
    <3>2. clock' = clock
      BY <1>1
    <3> HIDE DEF new
    <3> QED BY <3>1, <3>2, <2>4 DEF EndpointNow
  <2>7. TenantShare'
    <3> SUFFICES ASSUME NEW i \in 0..clock'
                 PROVE  spent'[clock'].tenant - spent'[i - 1].tenant + TenantNow' <= TenantBurst + (clock' - i) * TenantRate
      BY DEF TenantShare
    <3>1. i - 1 \in -1..clock /\ clock \in -1..clock /\ clock' = clock /\ i \in 0..clock
      BY <1>1, <2>3
    <3>2. spent'[clock].tenant = spent[clock].tenant /\ spent'[i - 1].tenant = spent[i - 1].tenant
      BY <2>2, <3>1
    <3> QED BY <1>1, <3>1, <3>2 DEF StreamsInv, TenantShare, TenantNow
  <2>8. ASSUME NEW i \in 0..clock'
        PROVE  \E P \in [0..Len(limiters') -> Nat] : Sums(P)' /\ Within(P, i)'
    <3>1. PICK P \in [0..Len(limiters) -> Nat] : Sums(P) /\ Within(P, i)
      BY <1>1, <2>8 DEF StreamsInv, EndpointShare
    <3>2. /\ \A j \in 1..Len(limiters) : EndpointNow(j) \in 0..EndpointBurst
          /\ \A j \in k..Len(limiters) : P[j] - n \in Nat
      <4>1. \A j \in 1..Len(limiters) : EndpointNow(j) \in 0..EndpointBurst
        BY <1>1, NowIs
      <4>2. ASSUME NEW j \in k..Len(limiters)
            PROVE  P[j] - n \in Nat
        <5>1. P[0] + EndpointNow(k) <= P[k] /\ P[0] \in Nat /\ P[k] \in Nat /\ P[j] \in Nat
          BY <2>4, <3>1 DEF Sums
        <5>2. P[k] <= P[j]
          <6>1. CASE j = k
            BY <5>1, <6>1
          <6>2. CASE j # k
            <7>1. P[k] + EndpointNow(j) <= P[j] /\ EndpointNow(j) \in 0..EndpointBurst
              BY <2>4, <3>1, <4>1, <6>2 DEF Sums
            <7> QED BY <5>1, <7>1 DEF PerStream!StreamAssumption
          <6> QED BY <6>1, <6>2
        <5> QED BY <1>4, <2>1, <5>1, <5>2 DEF PerStream!StreamAssumption
      <4> QED BY <4>1, <4>2
    <3>3. PICK Q : Q = [j \in 0..Len(limiters) |-> IF j < k THEN P[j] ELSE P[j] - n]
      OBVIOUS
    <3>4. Q \in [0..Len(limiters') -> Nat]
      <4> SUFFICES ASSUME NEW j \in 0..Len(limiters) PROVE Q[j] \in Nat
        BY <2>4, <3>3
      <4> QED BY <2>4, <3>2, <3>3
    <3>5. ASSUME NEW b \in 1..Len(limiters'), NEW a \in 0..(b - 1)
          PROVE  Q[a] + EndpointNow(b)' <= Q[b]
      <4>1. /\ a \in 0..Len(limiters) /\ b \in 0..Len(limiters) /\ b \in 1..Len(limiters) /\ a < b
            /\ P[a] \in Nat /\ P[b] \in Nat
            /\ P[a] + EndpointNow(b) <= P[b] /\ EndpointNow(b) \in Nat
        <5> HIDE DEF new
        <5>1. /\ a \in 0..Len(limiters) /\ b \in 0..Len(limiters) /\ b \in 1..Len(limiters) /\ a < b
          BY <2>4
        <5>2. P[a] + EndpointNow(b) <= P[b]
          BY <5>1, <3>1, <3>5, <2>4 DEF Sums
        <5>3. EndpointNow(b) \in Nat
          BY <5>1, <3>2 DEF PerStream!StreamAssumption
        <5> QED BY <5>1, <5>2, <5>3
      <4>2. CASE b < k
        BY <3>3, <4>1, <4>2, <2>6
      <4>3. CASE k <= a
        BY <3>3, <4>1, <4>3, <2>6
      <4>4. CASE b = k
        BY <3>3, <4>1, <4>4, <2>6
      <4>5. CASE a < k /\ k < b
        <5>1. P[a] + EndpointNow(k) <= P[k] /\ P[k] + EndpointNow(b) <= P[b] /\ P[k] \in Nat /\ EndpointNow(k) \in Nat
          <6>1. a \in 0..(k - 1) /\ k \in 0..(b - 1) /\ k \in 0..Len(limiters)
            BY <2>4, <4>1, <4>5
          <6>2. P[a] + EndpointNow(k) <= P[k]
            BY <3>1, <6>1 DEF Sums
          <6>3. P[k] + EndpointNow(b) <= P[b]
            BY <3>1, <4>1, <6>1 DEF Sums
          <6> QED BY <2>1, <6>1, <6>2, <6>3 DEF PerStream!StreamAssumption
        <5>2. EndpointNow(b)' = EndpointNow(b) /\ Q[a] = P[a] /\ Q[b] = P[b] - n
          BY <2>6, <3>3, <4>1, <4>5
        <5> QED BY <1>4, <4>1, <5>1, <5>2
      <4> QED BY <4>1, <4>2, <4>3, <4>4, <4>5
    <3>6. Within(Q, i)'
      <4>1. Q[Len(limiters)] = P[Len(limiters)] - n /\ P[Len(limiters)] \in Nat
        BY <2>4, <3>3, <3>1
      <4>2. i \in 0..clock /\ i - 1 \in -1..clock /\ i - 1 # clock /\ clock' = clock
        BY <1>1, <2>3
      <4>3. spent'[clock].endpoint = spent[clock].endpoint + n /\ spent'[i - 1].endpoint = spent[i - 1].endpoint
        BY <2>2, <4>2
      <4>4. spent'[clock].endpoint - spent'[i - 1].endpoint + Q[Len(limiters)]
              = spent[clock].endpoint - spent[i - 1].endpoint + P[Len(limiters)]
        <5>1. PICK e \in Nat, f \in Nat : e = spent[clock].endpoint /\ f = spent[i - 1].endpoint
          BY <1>1, <4>2, SpentIs
        <5>2. PICK p \in Nat : p = P[Len(limiters)]
          BY <4>1
        <5>3. (e + n) - f + (p - n) = e - f + p
          OBVIOUS
        <5> QED BY <4>1, <4>3, <5>1, <5>2, <5>3
      <4> QED BY <2>4, <3>1, <4>2, <4>4 DEF Within
    <3>7. Sums(Q)'
      BY <3>4, <3>5 DEF Sums
    <3> QED BY <3>4, <3>6, <3>7
  <2> QED BY <2>5, <2>7, <2>8 DEF StreamsInv, EndpointShare
<1> QED BY <1>3, <1>4

\* A second brings each bucket its rate, and every bound as much.
LEMMA TickStep == ASSUME PerStream!StreamAssumption, StreamsInv, PerStream!Tick PROVE StreamsInv'
<1>1. /\ StreamOK /\ clock' = clock + 1 /\ clock \in Nat /\ UNCHANGED <<limiters, endpoint, tenant, batch, closes>>
      /\ spent' = [i \in -1..clock' |-> spent[IF i > clock THEN clock ELSE i]]
  BY DEF PerStream!Tick, StreamsInv, StreamOK
<1>2. /\ spent' \in [-1..clock' -> [endpoint : Nat, tenant : Nat]]
      /\ spent'[clock'] = spent[clock]
      /\ \A i \in 0..clock' : spent'[i - 1] = spent[i - 1]
  <2>1. \A i \in -1..clock' : (IF i > clock THEN clock ELSE i) \in -1..clock
    BY <1>1
  <2>2. spent' \in [-1..clock' -> [endpoint : Nat, tenant : Nat]]
    BY <1>1, <2>1 DEF StreamOK
  <2>3. clock' \in -1..clock' /\ clock' > clock
    BY <1>1
  <2>4. \A i \in 0..clock' : i - 1 \in -1..clock' /\ ~(i - 1 > clock)
    BY <1>1
  <2> QED BY <1>1, <2>2, <2>3, <2>4
<1>3. StreamOK'
  <2>1. \A j \in 1..Len(limiters) : limiters[j].last <= clock + 1
    <3> SUFFICES ASSUME NEW j \in 1..Len(limiters) PROVE limiters[j].last <= clock + 1
      OBVIOUS
    <3>1. limiters[j] \in Limiter(EndpointBurst) /\ limiters[j].last <= clock
      BY <1>1 DEF StreamOK
    <3> QED BY <1>1, <3>1 DEF Limiter
  <2>2. tenant.last <= clock + 1
    <3>1. tenant \in Limiter(TenantBurst) /\ tenant.last <= clock
      BY <1>1 DEF StreamOK
    <3> QED BY <1>1, <3>1 DEF Limiter
  <2> QED BY <1>1, <1>2, <2>1, <2>2 DEF StreamOK
<1>4. TenantNow' \in 0..TenantBurst /\ TenantNow' <= TenantNow + TenantRate /\ TenantNow \in 0..TenantBurst
  <2>1. tenant.tokens \in 0..TenantBurst /\ tenant.last \in 0..clock
    BY <1>1 DEF StreamOK, Limiter
  <2>2. TenantNow' = At(tenant, TenantRate, TenantBurst, clock + 1)
    BY <1>1 DEF TenantNow
  <2> QED BY <1>1, <2>1, <2>2, AtIs DEF TenantNow, PerStream!StreamAssumption
<1>5. ASSUME NEW j \in 1..Len(limiters)
      PROVE  /\ EndpointNow(j)' \in 0..EndpointBurst /\ EndpointNow(j) \in 0..EndpointBurst
             /\ EndpointNow(j)' <= EndpointNow(j) + EndpointRate
  <2>1. limiters[j].tokens \in 0..EndpointBurst /\ limiters[j].last \in 0..clock
    <3>1. limiters[j] \in Limiter(EndpointBurst) /\ limiters[j].last <= clock
      BY <1>1 DEF StreamOK
    <3> QED BY <1>1, <3>1 DEF Limiter
  <2>2. EndpointNow(j)' = At(limiters[j], EndpointRate, EndpointBurst, clock + 1)
    BY <1>1 DEF EndpointNow
  <2> QED BY <1>1, <2>1, <2>2, AtIs DEF EndpointNow, PerStream!StreamAssumption
<1>6. ASSUME NEW i \in 0..clock, NEW rate \in Nat
      PROVE  clock' - i = (clock - i) + 1 /\ (clock' - i) * rate = (clock - i) * rate + rate /\ (clock - i) * rate \in Nat
  <2>1. PICK k \in Nat : k = clock - i /\ clock' - i = k + 1
    BY <1>1
  <2>2. (k + 1) * rate = k * rate + rate /\ k * rate \in Nat
    <3>1. k * rate \in Nat
      BY NatTimes
    <3>2. (k + 1) * rate = k * rate + rate
      BY NextTimes
    <3> QED BY <3>1, <3>2
  <2> QED BY <2>1, <2>2
<1>7. ASSUME NEW i \in 0..clock'
      PROVE  spent'[clock'].tenant - spent'[i - 1].tenant + TenantNow' <= TenantBurst + (clock' - i) * TenantRate
  <2>1. CASE i = clock'
    <3>1. i - 1 = clock /\ clock' - i = 0
      BY <1>1, <2>1
    <3>2. 0 * TenantRate = 0
      BY Products DEF PerStream!StreamAssumption
    <3>3. spent'[clock'].tenant - spent'[i - 1].tenant = 0
      <4>1. spent'[clock'] = spent[clock] /\ spent'[i - 1] = spent[clock]
        BY <1>2, <3>1
      <4>2. clock \in 0..clock
        BY <1>1
      <4>3. spent[clock].tenant \in Nat
        BY <1>1, <4>2, SpentIs
      <4> QED BY <4>1, <4>3
    <3> QED BY <1>4, <3>1, <3>2, <3>3 DEF PerStream!StreamAssumption
  <2>2. CASE i # clock'
    <3>1. i \in 0..clock
      BY <1>1, <2>2
    <3>2. spent[clock].tenant - spent[i - 1].tenant + TenantNow <= TenantBurst + (clock - i) * TenantRate
      BY <3>1 DEF StreamsInv, TenantShare
    <3>3. PICK u \in Nat, v \in Nat, w \in Nat : u = spent[clock].tenant /\ v = spent[i - 1].tenant /\ w = (clock - i) * TenantRate
      BY <1>1, <3>1, SpentIs
    <3>4. u - v + TenantNow <= TenantBurst + w
      BY <3>2, <3>3
    <3>5. u - v + TenantNow' <= TenantBurst + (w + TenantRate)
      <4>1. TenantNow \in Nat /\ TenantNow' \in Nat
        BY <1>4 DEF PerStream!StreamAssumption
      <4>2. PICK g \in Nat, h \in Nat : g = TenantNow /\ h = TenantNow'
        BY <4>1
      <4>3. u - v + g <= TenantBurst + w /\ h <= g + TenantRate
        BY <1>4, <3>4, <4>2
      <4>4. u - v + h <= TenantBurst + (w + TenantRate)
        BY <4>3 DEF PerStream!StreamAssumption
      <4> QED BY <4>2, <4>4
    <3>6. spent'[clock'].tenant = u /\ spent'[i - 1].tenant = v
      BY <1>2, <3>3
    <3>7. (clock' - i) * TenantRate = w + TenantRate
      BY <1>6, <3>1, <3>3 DEF PerStream!StreamAssumption
    <3> QED BY <3>5, <3>6, <3>7
  <2> QED BY <2>1, <2>2
<1>8. Len(limiters) \in Nat /\ Len(limiters') = Len(limiters)
  BY <1>1 DEF StreamOK
<1>9. ASSUME NEW i \in 0..clock'
      PROVE  \E P \in [0..Len(limiters') -> Nat] : Sums(P)' /\ Within(P, i)'
  <2>1. CASE i = clock'
    <3>1. PICK Q : Q = [j \in 0..Len(limiters) |-> j * EndpointBurst]
      OBVIOUS
    <3>2. Q \in [0..Len(limiters') -> Nat]
      <4>1. \A j \in 0..Len(limiters) : j * EndpointBurst \in Nat
        BY <1>8, NatTimes DEF PerStream!StreamAssumption
      <4> QED BY <1>8, <3>1, <4>1
    <3>3. ASSUME NEW b \in 1..Len(limiters'), NEW a \in 0..(b - 1)
          PROVE  Q[a] + EndpointNow(b)' <= Q[b]
      <4>1. a \in Nat /\ b \in Nat /\ a + 1 <= b /\ a \in 0..Len(limiters) /\ b \in 1..Len(limiters) /\ b \in 0..Len(limiters)
        BY <1>8
      <4>2. (a + 1) * EndpointBurst = a * EndpointBurst + EndpointBurst
        BY <4>1, NextTimes DEF PerStream!StreamAssumption
      <4>3. (a + 1) * EndpointBurst <= b * EndpointBurst
        <5>1. PICK c \in Nat : c = a + 1
          BY <4>1
        <5> QED BY <4>1, <5>1, Grows DEF PerStream!StreamAssumption
      <4>4. a * EndpointBurst \in Nat /\ b * EndpointBurst \in Nat
        BY <4>1, NatTimes DEF PerStream!StreamAssumption
      <4>5. EndpointNow(b)' \in 0..EndpointBurst
        BY <1>5, <4>1
      <4>6. Q[a] = a * EndpointBurst /\ Q[b] = b * EndpointBurst
        BY <3>1, <4>1
      <4>7. PICK x \in Nat, y \in Nat, z \in Nat : x = a * EndpointBurst /\ y = b * EndpointBurst /\ z = EndpointNow(b)'
        <5>1. EndpointNow(b)' \in Nat
          BY <4>5 DEF PerStream!StreamAssumption
        <5> QED BY <4>4, <5>1
      <4>8. x + EndpointBurst <= y /\ z <= EndpointBurst
        BY <4>2, <4>3, <4>5, <4>7
      <4>9. x + z <= y
        BY <4>8 DEF PerStream!StreamAssumption
      <4> QED BY <4>6, <4>7, <4>9
    <3>4. Within(Q, i)'
      <4>1. i - 1 = clock /\ clock' - i = 0
        BY <1>1, <2>1
      <4>2. 0 * EndpointRate = 0 /\ EndpointBurst + 0 = EndpointBurst
        BY Products DEF PerStream!StreamAssumption
      <4>3. spent'[clock'].endpoint - spent'[i - 1].endpoint = 0
        <5>1. spent'[clock'] = spent[clock] /\ spent'[i - 1] = spent[clock]
          BY <1>2, <4>1
        <5>2. clock \in 0..clock
          BY <1>1
        <5>3. spent[clock].endpoint \in Nat
          BY <1>1, <5>2, SpentIs
        <5> QED BY <5>1, <5>3
      <4>4. Q[Len(limiters)] = Len(limiters) * EndpointBurst
        BY <1>8, <3>1
      <4>5. PICK x \in Nat : x = Len(limiters) * EndpointBurst
        BY <1>8, NatTimes DEF PerStream!StreamAssumption
      <4>6. 0 + x <= x
        OBVIOUS
      <4>7. EndpointBurst + (clock' - i) * EndpointRate = EndpointBurst
        BY <4>1, <4>2
      <4> QED BY <1>8, <4>3, <4>4, <4>5, <4>6, <4>7 DEF Within
    <3>5. Sums(Q)'
      BY <3>2, <3>3 DEF Sums
    <3> QED BY <3>2, <3>4, <3>5
  <2>2. CASE i # clock'
    <3>1. i \in 0..clock
      BY <1>1, <2>2
    <3>2. PICK P \in [0..Len(limiters) -> Nat] : Sums(P) /\ Within(P, i)
      BY <3>1 DEF StreamsInv, EndpointShare
    <3>3. PICK Q : Q = [j \in 0..Len(limiters) |-> P[j] + j * EndpointRate]
      OBVIOUS
    <3>4. \A j \in 0..Len(limiters) : P[j] \in Nat /\ j * EndpointRate \in Nat /\ Q[j] = P[j] + j * EndpointRate
      BY <1>8, <3>3, NatTimes DEF PerStream!StreamAssumption
    <3>5. Q \in [0..Len(limiters') -> Nat]
      BY <1>8, <3>3, <3>4
    <3>6. ASSUME NEW b \in 1..Len(limiters'), NEW a \in 0..(b - 1)
          PROVE  Q[a] + EndpointNow(b)' <= Q[b]
      <4>1. a \in Nat /\ b \in Nat /\ a + 1 <= b /\ a \in 0..Len(limiters) /\ b \in 1..Len(limiters) /\ b \in 0..Len(limiters)
        BY <1>8
      <4>2. (a + 1) * EndpointRate = a * EndpointRate + EndpointRate
        BY <4>1, NextTimes DEF PerStream!StreamAssumption
      <4>3. (a + 1) * EndpointRate <= b * EndpointRate
        <5>1. PICK c \in Nat : c = a + 1
          BY <4>1
        <5> QED BY <4>1, <5>1, Grows DEF PerStream!StreamAssumption
      <4>4. PICK x \in Nat, y \in Nat, p \in Nat, q \in Nat :
              x = a * EndpointRate /\ y = b * EndpointRate /\ p = P[a] /\ q = P[b]
        BY <3>4, <4>1
      <4>5. PICK z \in Nat, zz \in Nat : z = EndpointNow(b) /\ zz = EndpointNow(b)'
        BY <1>5, <4>1 DEF PerStream!StreamAssumption
      <4>6. zz <= z + EndpointRate
        BY <1>5, <4>1, <4>5
      <4>7. p + z <= q
        BY <3>2, <3>6, <4>1, <4>4, <4>5 DEF Sums
      <4>8. x + EndpointRate <= y
        BY <4>2, <4>3, <4>4
      <4>9. (p + x) + zz <= q + y
        BY <4>6, <4>7, <4>8 DEF PerStream!StreamAssumption
      <4> QED BY <3>4, <4>1, <4>4, <4>5, <4>9
    <3>7. Within(Q, i)'
      <4>1. PICK m \in Nat : m = Len(limiters)
        BY <1>8
      <4>2. PICK w \in Nat : w = (clock - i) * EndpointRate /\ (clock' - i) * EndpointRate = w + EndpointRate
        BY <1>6, <3>1 DEF PerStream!StreamAssumption
      <4>3. PICK v \in Nat : v = EndpointBurst + w /\ EndpointBurst + (w + EndpointRate) = v + EndpointRate
        BY DEF PerStream!StreamAssumption
      <4>4. m * (v + EndpointRate) = m * v + m * EndpointRate
        BY Products DEF PerStream!StreamAssumption
      <4>5. PICK e \in Nat, f \in Nat : e = spent[clock].endpoint /\ f = spent[i - 1].endpoint
        BY <1>1, <3>1, SpentIs
      <4>6. PICK p \in Nat : p = P[m] /\ Q[m] = p + m * EndpointRate
        BY <1>8, <3>4, <4>1
      <4>7. PICK x \in Nat, y \in Nat : x = m * v /\ y = m * EndpointRate
        BY NatTimes DEF PerStream!StreamAssumption
      <4>8. e - f + p <= x
        BY <3>2, <4>1, <4>2, <4>3, <4>5, <4>6, <4>7 DEF Within
      <4>9. e - f + (p + y) <= x + y
        BY <4>8
      <4>10. spent'[clock'].endpoint = e /\ spent'[i - 1].endpoint = f
        BY <1>2, <4>5
      <4>11. e - f + Q[m] <= m * (EndpointBurst + (clock' - i) * EndpointRate)
        BY <4>2, <4>3, <4>4, <4>6, <4>7, <4>9
      <4> QED BY <1>8, <4>1, <4>10, <4>11 DEF Within
    <3>8. Sums(Q)'
      BY <3>5, <3>6 DEF Sums
    <3> QED BY <3>5, <3>7, <3>8
  <2> QED BY <2>1, <2>2
<1> QED BY <1>3, <1>7, <1>9 DEF StreamsInv, TenantShare, EndpointShare

LEMMA StreamInv == ASSUME PerStream!StreamAssumption PROVE PerStream!Spec => []StreamsInv
<1>1. StreamsInv /\ [PerStream!Next]_PerStream!vars => StreamsInv'
  <2>1. ASSUME StreamsInv, UNCHANGED PerStream!vars
        PROVE  StreamsInv'
    <3>1. UNCHANGED <<clock, limiters, endpoint, tenant, batch, spent, closes>>
      BY <2>1 DEF PerStream!vars
    <3>2. StreamOK'
      BY <2>1, <3>1 DEF StreamsInv, StreamOK
    <3> QED BY <2>1, <3>1, <3>2, SameShares
  <2> QED BY <2>1, TickStep, CreateStep, EndpointStep, TenantStep, RemoveStep DEF PerStream!Next
<1>2. PerStream!Init => StreamsInv
  BY InitSInv
<1> QED BY <1>1, <1>2, PTL DEF PerStream!Spec

\* In every stretch of time the tenant gets no more than its burst and what came in,
\* and the endpoint as much for each stream that ended, and once more (AllowBatch,
\* RemoveEndpoint), however the streams overlap and whichever bucket a batch holds.
THEOREM StreamsHold == ASSUME PerStream!StreamAssumption PROVE PerStream!Spec => []PerStream!StreamBounded
<1>1. StreamsInv => PerStream!StreamBounded
  <2> SUFFICES ASSUME StreamsInv, NEW i \in 0..clock
               PROVE  /\ spent[clock].tenant - spent[i - 1].tenant <= TenantBurst + (clock - i) * TenantRate
                      /\ spent[clock].endpoint - spent[i - 1].endpoint <= (1 + closes) * (EndpointBurst + (clock - i) * EndpointRate)
    BY DEF PerStream!StreamBounded
  <2>1. StreamOK
    BY DEF StreamsInv
  <2>2. PICK e \in Nat, f \in Nat, u \in Nat, v \in Nat, w \in Nat, x \in Nat :
          /\ e = spent[clock].endpoint /\ f = spent[i - 1].endpoint /\ u = spent[clock].tenant /\ v = spent[i - 1].tenant
          /\ w = (clock - i) * TenantRate /\ x = (clock - i) * EndpointRate
    BY <2>1, SpentIs
  <2>3. u - v <= TenantBurst + w
    <3>1. u - v + TenantNow <= TenantBurst + w
      BY <2>2 DEF StreamsInv, TenantShare
    <3>2. TenantNow \in 0..TenantBurst
      BY <2>1, NowIs
    <3> QED BY <3>1, <3>2 DEF PerStream!StreamAssumption
  <2>4. e - f <= (1 + closes) * (EndpointBurst + x)
    <3>1. PICK m \in Nat, c \in Nat, r \in Nat : m = Len(limiters) /\ c = 1 + closes /\ r = EndpointBurst + x /\ m <= c
      BY <2>1 DEF StreamOK, PerStream!StreamAssumption
    <3>2. PICK P \in [0..Len(limiters) -> Nat] : Within(P, i)
      BY DEF StreamsInv, EndpointShare
    <3>3. PICK p \in Nat : p = P[m]
      BY <3>1, <3>2
    <3>4. e - f + p <= m * r
      BY <2>2, <3>1, <3>2, <3>3 DEF Within
    <3>5. m * r <= c * r
      BY <3>1, Grows
    <3>6. PICK y \in Nat, z \in Nat : y = m * r /\ z = c * r
      BY NatTimes
    <3>7. e - f <= z
      BY <3>4, <3>5, <3>6
    <3> QED BY <3>1, <3>6, <3>7
  <2> QED BY <2>2, <2>3, <2>4
<1> QED BY <1>1, StreamInv, PTL
=============================================================================
