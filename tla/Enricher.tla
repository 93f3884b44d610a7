------------------------------ MODULE Enricher ------------------------------
(***************************************************************************)
(* The way of an event from JetStream into ClickHouse: the pull consumer   *)
(* and its goroutines (gateway/internal/enricher/consumer.go), the dedup   *)
(* cache they ask (dedup.go, see DedupCache), the dead letter queue        *)
(* (dlq.go) and the batcher that buffers rows and inserts them             *)
(* (gateway/internal/clickhouse/batcher.go), over redeliveries, failed     *)
(* inserts, crashes and shutdowns.                                         *)
(*                                                                         *)
(* The message is one EventBatch; event <<m, i>> is the i-th of message m. *)
(* Its kind is what the enricher does with it: a row of events_raw or of a *)
(* sensitive table, a heartbeat row, a drop by retention class, or no meta *)
(* block, the one thing Enrich fails on.                                   *)
(***************************************************************************)
EXTENDS Naturals, FiniteSets

CONSTANTS
    Batches,       \* message -> what it may hold: the kinds of its events
    Workers,       \* goroutines the semaphore admits
    BatchSize,     \* cfg.MaxSize of the batcher
    MaxRetries,    \* DLQPublisher.maxRetries
    MaxMsgs,       \* bound: messages published
    PerMsg,        \* bound: events of a message
    MaxFaults      \* bound: failed inserts and publishes to the DLQ, deliveries that
                   \* outlive AckWait, hashes the dedup cache forgets, crashes and shutdowns

RowKinds == {"row", "sensitive", "heartbeat"}
Garbled == [i \in 1 .. PerMsg |-> "garbled"]   \* a message no decoder takes

ASSUME EnricherAssumption ==
    /\ Batches \in [1 .. MaxMsgs ->
                       SUBSET ([1 .. PerMsg -> RowKinds \cup {"purge", "nometa"}] \cup {Garbled})]
    /\ BatchSize \in Nat \ {0}
    /\ MaxRetries \in Nat \ {0}   \* NewDLQPublisher makes 0 or less 3
    /\ MaxMsgs \in Nat
    /\ PerMsg \in Nat \ {0}
    /\ MaxFaults \in Nat

\* The messages of a small instance: two tables and a heartbeat, an event that is
\* dropped, one without meta before a good one, and a garbled message.
SomeBatches ==
    <<{<<"row", "heartbeat">>, <<"nometa", "purge">>, Garbled}, {<<"sensitive", "row">>}>>

Msgs == 1 .. MaxMsgs
Events == Msgs \X (1 .. PerMsg)
EventsOf(m) == {m} \X (1 .. PerMsg)

VARIABLES
    batch,      \* message -> the kinds of its events
    stream,     \* the durable consumer: message -> state
    worker,     \* goroutine -> the message and the event it is at
    seen,       \* the dedup cache
    buf,        \* the batcher: b.rows and b.hbRows
    run,        \* "up", "stopping" (context cancelled), "flushed"
    stored,     \* events in ClickHouse
    copies,     \* history: event -> how often it was inserted
    dlq,        \* messages in events_dlq
    dropped,    \* events dropped by retention class
    fails, timeouts, forgets, crashes, stops,   \* faults so far
    failures,   \* history: message -> deliveries that ended in an error
    failed,     \* history: events in a failed insert, or without meta
    unparked,   \* history: messages the DLQ did not get
    crashed     \* history: events in memory when the process ended

faultVars == <<fails, timeouts, forgets, crashes, stops>>
history == <<failures, failed, unparked, crashed>>
sinks == <<stored, copies, dlq, dropped>>
vars == <<batch, stream, worker, seen, buf, run, sinks, faultVars, history>>

Faults == fails + timeouts + forgets + crashes + stops

Idle == [msg |-> 0, at |-> 1, hand |-> FALSE]
Busy(w) == worker[w].msg # 0
Current(w) == <<worker[w].msg, worker[w].at>>
KindOf(e) == batch[e[1]][e[2]]
BufferOf(e) == IF KindOf(e) = "heartbeat" THEN "heartbeats" ELSE "events"
Empty == [b \in {"events", "heartbeats"} |-> {}]
Buffered == buf["events"] \cup buf["heartbeats"]
InHand == {Current(w) : w \in {v \in Workers : worker[v].hand}}

Init ==
    /\ batch = [m \in Msgs |-> <<>>]
    /\ stream = [m \in Msgs |-> "none"]
    /\ worker = [w \in Workers |-> Idle]
    /\ seen = {}
    /\ buf = Empty
    /\ run = "up"
    /\ stored = {}
    /\ copies = [e \in Events |-> 0]
    /\ dlq = {}
    /\ dropped = {}
    /\ fails = 0 /\ timeouts = 0 /\ forgets = 0 /\ crashes = 0 /\ stops = 0
    /\ failures = [m \in Msgs |-> 0]
    /\ failed = {}
    /\ unparked = {}
    /\ crashed = {}

-----------------------------------------------------------------------------
(* JetStream *)

\* The gateway publishes a batch (see EventUpload); a garbled one is of no kind.
Publish(m, kinds) ==
    /\ stream[m] = "none"
    /\ \A n \in Msgs : n < m => stream[n] # "none"
    /\ stream' = [stream EXCEPT ![m] = "waiting"]
    /\ batch' = [batch EXCEPT ![m] = kinds]
    /\ UNCHANGED <<worker, seen, buf, run, sinks, faultVars, history>>

\* AckWait runs out while a goroutine still works on the message.
AckTimeout(m) ==
    /\ Faults < MaxFaults
    /\ stream[m] = "out"
    /\ stream' = [stream EXCEPT ![m] = "waiting"]
    /\ timeouts' = timeouts + 1
    /\ UNCHANGED <<batch, worker, seen, buf, run, sinks, fails, forgets, crashes, stops, history>>

Acked(m) == stream' = [stream EXCEPT ![m] = "acked"]
Naked(m) == stream' = [stream EXCEPT ![m] = IF @ = "acked" THEN @ ELSE "waiting"]

-----------------------------------------------------------------------------
(* The consumer *)

\* Run hands a fetched message to a goroutine; messages fetched before the
\* context was cancelled are still handed out.
Fetch(w, m) ==
    /\ run \in {"up", "stopping"}
    /\ ~Busy(w)
    /\ stream[m] = "waiting"
    /\ stream' = [stream EXCEPT ![m] = "out"]
    /\ worker' = [worker EXCEPT ![w] = [msg |-> m, at |-> 1, hand |-> FALSE]]
    /\ UNCHANGED <<batch, seen, buf, run, sinks, faultVars, history>>

\* The goroutine goes on in its message.
GoTo(w, i, hand) == worker' = [worker EXCEPT ![w] = [msg |-> @.msg, at |-> i, hand |-> hand]]

\* A message no decoder takes goes to the DLQ and is then acked, and is acked
\* without it when the DLQ does not take it either.
DecodeFails(w) ==
    /\ Busy(w)
    /\ batch[worker[w].msg] = Garbled
    /\ worker[w].at <= PerMsg
    /\ GoTo(w, PerMsg + 1, FALSE)
    /\ \/ /\ dlq' = dlq \cup {worker[w].msg}
          /\ UNCHANGED <<fails, unparked>>
       \/ /\ Faults < MaxFaults
          /\ fails' = fails + 1
          /\ unparked' = unparked \cup {worker[w].msg}
          /\ UNCHANGED dlq
    /\ UNCHANGED <<batch, stream, seen, buf, run, stored, copies, dropped,
                   timeouts, forgets, crashes, stops, failures, failed, crashed>>

Advance(w) == GoTo(w, worker[w].at + 1, FALSE)
AtEvent(w) == Busy(w) /\ batch[worker[w].msg] # Garbled /\ worker[w].at <= PerMsg

\* Mutant: the event is looked up but not recorded.
SeenNeverRecords(w) ==
    /\ AtEvent(w)
    /\ ~worker[w].hand
    /\ IF Current(w) \in seen
       THEN Advance(w)
       ELSE GoTo(w, worker[w].at, TRUE)
    /\ UNCHANGED <<batch, stream, seen, buf, run, sinks, faultVars, history>>

\* processBatch asks the dedup cache: a duplicate is skipped, an event it has
\* not seen is recorded before anything is done with it.
Seen(w) ==
    /\ AtEvent(w)
    /\ ~worker[w].hand
    /\ IF Current(w) \in seen
       THEN Advance(w) /\ UNCHANGED seen
       ELSE /\ GoTo(w, worker[w].at, TRUE)
            /\ seen' = seen \cup {Current(w)}
    /\ UNCHANGED <<batch, stream, buf, run, sinks, faultVars, history>>

\* processBatch's error path.  The header the retries are counted by is set by
\* nobody, so the count is 0 on every delivery.
RetryCountOf(m) == 0

Abort(w) ==
    LET m == worker[w].msg
    IN /\ worker' = [worker EXCEPT ![w] = Idle]
       /\ failures' = [failures EXCEPT ![m] = @ + 1]
       /\ IF RetryCountOf(m) >= MaxRetries
          THEN Acked(m) /\ dlq' = dlq \cup {m}
          ELSE Naked(m) /\ UNCHANGED dlq

\* Enrich refuses an event without meta.
EnrichFails(w) ==
    /\ worker[w].hand
    /\ KindOf(Current(w)) = "nometa"
    /\ Abort(w)
    /\ failed' = failed \cup {Current(w)}
    /\ UNCHANGED <<batch, seen, buf, run, stored, copies, dropped, faultVars, unparked, crashed>>

\* RETENTION_CLASS_PURGE: SinkDrop.
Drop(w) ==
    /\ worker[w].hand
    /\ KindOf(Current(w)) = "purge"
    /\ dropped' = dropped \cup {Current(w)}
    /\ Advance(w)
    /\ UNCHANGED <<batch, stream, seen, buf, run, stored, copies, dlq, faultVars, history>>

-----------------------------------------------------------------------------
(* The batcher *)

\* splitByTable: the tables of a flush succeed and fail each on its own.
WholeTables(S, T) == \A e \in T, f \in S : KindOf(e) = KindOf(f) => f \in T

Inserted(T) ==
    /\ stored' = stored \cup T
    /\ copies' = [e \in Events |-> IF e \in T THEN copies[e] + 1 ELSE copies[e]]

\* flushLocked with an error: the rows of some tables did not get in, or did
\* although the insert reported an error.  A cancelled context fails it too.
FlushFails(b, S, T) ==
    /\ T # {} /\ WholeTables(S, T)
    /\ \E kept \in SUBSET T : WholeTables(T, kept) /\ Inserted((S \ T) \cup kept)
    /\ buf' = [buf EXCEPT ![b] = {}]
    /\ failed' = failed \cup T
    /\ IF run = "up"
       THEN Faults < MaxFaults /\ fails' = fails + 1
       ELSE UNCHANGED fails

Taken(w) == buf[BufferOf(Current(w))] \cup {Current(w)}

\* Add and AddHeartbeat below the batch size.
Add(w) ==
    /\ worker[w].hand
    /\ KindOf(Current(w)) \in RowKinds
    /\ Cardinality(Taken(w)) < BatchSize
    /\ buf' = [buf EXCEPT ![BufferOf(Current(w))] = Taken(w)]
    /\ Advance(w)
    /\ UNCHANGED <<batch, stream, seen, run, sinks, faultVars, history>>

\* Add that fills the batch and inserts it.
AddFlush(w) ==
    /\ worker[w].hand
    /\ KindOf(Current(w)) \in RowKinds
    /\ Cardinality(Taken(w)) >= BatchSize
    /\ buf' = [buf EXCEPT ![BufferOf(Current(w))] = {}]
    /\ Inserted(Taken(w))
    /\ Advance(w)
    /\ UNCHANGED <<batch, stream, seen, run, dlq, dropped, faultVars, history>>

\* Add that fills the batch and fails to insert it: the error is this
\* goroutine's, whoever the rows came from, and the rows are gone.
AddFlushFails(w) ==
    /\ worker[w].hand
    /\ KindOf(Current(w)) \in RowKinds
    /\ Cardinality(Taken(w)) >= BatchSize
    /\ \E T \in SUBSET Taken(w) : FlushFails(BufferOf(Current(w)), Taken(w), T)
    /\ Abort(w)
    /\ UNCHANGED <<batch, seen, run, dropped, timeouts, forgets, crashes, stops, unparked, crashed>>

\* Mutant: the ticker's flush drops the rows it takes.
FlushDropsRows(b) ==
    /\ buf[b] # {}
    /\ buf' = [buf EXCEPT ![b] = {}]
    /\ UNCHANGED <<batch, stream, worker, seen, run, sinks, faultVars, history>>

\* The ticker's flush and the final ones: an error is only logged.
Flush(b) ==
    /\ buf[b] # {}
    /\ \/ /\ buf' = [buf EXCEPT ![b] = {}]
          /\ Inserted(buf[b])
          /\ UNCHANGED <<fails, failed>>
       \/ \E T \in SUBSET buf[b] : FlushFails(b, buf[b], T)
    /\ UNCHANGED <<batch, stream, worker, seen, run, dlq, dropped,
                   timeouts, forgets, crashes, stops, failures, unparked, crashed>>

\* Mutant: the message is acked one event early.
AckEarly(w) ==
    /\ Busy(w)
    /\ worker[w].at >= PerMsg
    /\ ~worker[w].hand
    /\ Acked(worker[w].msg)
    /\ worker' = [worker EXCEPT ![w] = Idle]
    /\ UNCHANGED <<batch, seen, buf, run, sinks, faultVars, history>>

\* The message is done: its last event was added to the batcher, not more.
Ack(w) ==
    /\ Busy(w)
    /\ worker[w].at > PerMsg
    /\ Acked(worker[w].msg)
    /\ worker' = [worker EXCEPT ![w] = Idle]
    /\ UNCHANGED <<batch, seen, buf, run, sinks, faultVars, history>>

-----------------------------------------------------------------------------
(* The process *)

\* The cache evicts a hash at capacity or lets it expire (see DedupCache).
Forget(e) ==
    /\ Faults < MaxFaults
    /\ e \in seen
    /\ seen' = seen \ {e}
    /\ forgets' = forgets + 1
    /\ UNCHANGED <<batch, stream, worker, buf, run, sinks, fails, timeouts, crashes, stops, history>>

\* What is left of a process that ended: nothing in memory, and JetStream
\* delivers again what was not acked.
Restart ==
    /\ worker' = [w \in Workers |-> Idle]
    /\ seen' = {}
    /\ buf' = Empty
    /\ run' = "up"
    /\ stream' = [m \in Msgs |-> IF stream[m] = "out" THEN "waiting" ELSE stream[m]]
    /\ crashed' = crashed \cup Buffered \cup InHand
    /\ UNCHANGED <<batch, sinks, fails, timeouts, forgets, failures, failed, unparked>>

Crash ==
    /\ Faults < MaxFaults
    /\ crashes' = crashes + 1
    /\ Restart
    /\ UNCHANGED stops

\* SIGTERM cancels the context; Run returns and does not wait for goroutines.
Stop ==
    /\ Faults < MaxFaults
    /\ run = "up"
    /\ run' = "stopping"
    /\ stops' = stops + 1
    /\ UNCHANGED <<batch, stream, worker, seen, buf, sinks, fails, timeouts, forgets, crashes, history>>

\* main's last flush is behind it (its own flushes are Flush steps).
FinalFlush ==
    /\ run = "stopping"
    /\ Buffered = {}
    /\ run' = "flushed"
    /\ UNCHANGED <<batch, stream, worker, seen, buf, sinks, faultVars, history>>

Exit ==
    /\ run = "flushed"
    /\ Restart
    /\ UNCHANGED <<crashes, stops>>

Work(w) ==
    \/ \E m \in Msgs : Fetch(w, m)
    \/ DecodeFails(w) \/ Seen(w) \/ EnrichFails(w) \/ Drop(w)
    \/ Add(w) \/ AddFlush(w) \/ AddFlushFails(w) \/ Ack(w)

Next ==
    \/ \E m \in Msgs : \E kinds \in Batches[m] : Publish(m, kinds)
    \/ \E m \in Msgs : AckTimeout(m)
    \/ \E w \in Workers : Work(w)
    \/ \E b \in {"events", "heartbeats"} : Flush(b)
    \/ \E e \in Events : Forget(e)
    \/ Crash \/ Stop \/ FinalFlush \/ Exit

\* Goroutines run, Run fetches for ever, the batcher's ticker fires and main
\* goes on to its end once it was told to stop.
Fairness ==
    /\ \A w \in Workers : WF_vars(Work(w))
    /\ \A b \in {"events", "heartbeats"} : WF_vars(Flush(b))
    /\ WF_vars(FinalFlush) /\ WF_vars(Exit)

Spec == Init /\ [][Next]_vars
FairSpec == Spec /\ Fairness

-----------------------------------------------------------------------------
(* Properties *)

\* Every variable stays in its type; a goroutine holds an event of its message.
TypeOK ==
    /\ batch \in [Msgs -> (UNION {Batches[m] : m \in Msgs}) \cup {<<>>}]
    /\ stream \in [Msgs -> {"none", "waiting", "out", "acked"}]
    /\ worker \in [Workers -> [msg : 0 .. MaxMsgs, at : 1 .. (PerMsg + 1), hand : BOOLEAN]]
    /\ \A w \in Workers : worker[w].hand => Current(w) \in Events
    /\ seen \subseteq Events
    /\ buf \in [{"events", "heartbeats"} -> SUBSET Events]
    /\ run \in {"up", "stopping", "flushed"}
    /\ stored \subseteq Events
    /\ dropped \subseteq Events
    /\ dlq \subseteq Msgs
    /\ failed \subseteq Events
    /\ crashed \subseteq Events
    /\ unparked \subseteq Msgs

Parked == UNION {EventsOf(m) : m \in dlq}
Unparked == UNION {EventsOf(m) : m \in unparked}
AckedEvents == UNION {EventsOf(m) : m \in {n \in Msgs : stream[n] = "acked"}}
Kept == stored \cup Parked \cup Buffered \cup InHand

\* The ways to lose an event: it was in a failed insert, had no meta, was in the
\* memory of a process that ended, or in a message the DLQ did not take.
Lost == failed \cup crashed \cup Unparked

\* The dedup cache absorbs redelivery: an event is inserted once per life of the
\* process, unless the cache forgot its hash (Deduper.Seen).  Every variable keeps its type.
AtMostOnce ==
    /\ TypeOK
    /\ \A e \in Events : copies[e] <= 1 + crashes + stops + forgets

\* "It uses explicit manual ACK (at-least-once delivery)": JetStream forgets an
\* event only once the batcher's memory, ClickHouse or the DLQ has it, or it was
\* dropped on purpose, or it met one of the faults that lose it.
Published == UNION {EventsOf(m) : m \in {n \in Msgs : stream[n] # "none"}}
Doomed == dropped \cup {e \in InHand \cup crashed : KindOf(e) = "purge"}
Contract == INSTANCE Handover WITH
    Items <- Events,
    accepted <- Published,
    source <- Published \ (AckedEvents \cup Doomed),
    sink <- (Kept \cup Lost) \ Doomed,
    shed <- Doomed
HandsOver == Contract!Spec

\* Every event of every message gets to ClickHouse or to the DLQ or is dropped on
\* purpose, whatever the others went through, unless it met such a fault itself.
EventuallyStored ==
    \A m \in Msgs :
        (stream[m] # "none") ~> (EventsOf(m) \subseteq stored \cup Parked \cup dropped \cup Lost)
=============================================================================
