---------------------------- MODULE EventUpload ----------------------------
(***************************************************************************)
(* The way of an event from the agent's queue into JetStream: the agent's  *)
(* stream loop (personel-transport/src/client.rs), the gateway's stream    *)
(* handler (gateway/internal/grpcserver/stream.go) and the publish it      *)
(* waits for, over connections that break and are opened again.            *)
(*                                                                         *)
(* A message the gateway reads after the agent gave the connection up acts *)
(* like one it read just before, so a break simply empties both channels.  *)
(* A restart of the agent or of the gateway is a break too: the rows are   *)
(* on disk and the batch counter starts over on every connection anyway.   *)
(***************************************************************************)
EXTENDS QueueRows, Sequences

CONSTANTS
    Prios,         \* priorities of the events the collectors enqueue
    BatchMax,      \* BATCH_MAX_EVENTS
    MaxEvents,     \* bound: events enqueued
    MaxBreaks,     \* bound: connections that break
    MaxRejects,    \* bound: batches the gateway refuses or fails to publish
    MaxEvictions   \* bound: dequeues that lose a row to an eviction

ASSUME UploadAssumption ==
    /\ Prios \subseteq Priority
    /\ BatchMax \in Nat \ {0}
    /\ MaxEvents \in Nat
    /\ MaxBreaks \in Nat
    /\ MaxRejects \in Nat
    /\ MaxEvictions \in Nat

VARIABLES
    rows,        \* table event_queue
    nextId,      \* its AUTOINCREMENT counter; an event is named by its row id
    link,        \* the bidi stream: "down" or "open"
    seq,         \* batch_seq of stream_once
    uplink,      \* EventBatch messages on their way
    downlink,    \* BatchAck messages on their way
    stored,      \* JetStream: the events persisted in events.raw
    copies,      \* history: event -> how often it was published
    breaks, rejects, evictions,   \* faults so far
    refused,     \* history: events of batches answered with a rejected count
    leftover,    \* history: events in flight when a later stream was opened
    shed,        \* history: events the queue evicted
    stranded     \* history: the other events of the dequeue that failed then

faults == <<breaks, rejects, evictions>>
history == <<refused, leftover, shed, stranded>>
vars == <<rows, nextId, link, seq, uplink, downlink, stored, copies, faults, history>>

Ids == 1 .. (nextId - 1)
InFlight == DOMAIN rows \ Pending(rows)

Init ==
    /\ rows = NoRows
    /\ nextId = 1
    /\ link = "down"
    /\ seq = 0
    /\ uplink = <<>>
    /\ downlink = <<>>
    /\ stored = {}
    /\ copies = [i \in 1 .. MaxEvents |-> 0]
    /\ breaks = 0
    /\ rejects = 0
    /\ evictions = 0
    /\ refused = {}
    /\ leftover = {}
    /\ shed = {}
    /\ stranded = {}

\* A collector enqueues an event; the queue is below its cap.
Enqueue(r) ==
    /\ nextId <= MaxEvents
    /\ rows' = Insert(rows, nextId, r, 1)
    /\ nextId' = nextId + 1
    /\ UNCHANGED <<link, seq, uplink, downlink, stored, copies, faults, history>>

\* run_bidi opens a stream: Hello, Welcome, and a batch counter that starts over.
Connect ==
    /\ link = "down"
    /\ link' = "open"
    /\ seq' = 0
    /\ leftover' = leftover \cup InFlight
    /\ UNCHANGED <<rows, nextId, uplink, downlink, stored, copies, faults, refused, shed, stranded>>

\* The stream ends or fails, on either side: stream_once returns and nothing
\* touches the rows it had in flight.
Break ==
    /\ link = "open"
    /\ breaks < MaxBreaks
    /\ link' = "down"
    /\ uplink' = <<>>
    /\ downlink' = <<>>
    /\ breaks' = breaks + 1
    /\ UNCHANGED <<rows, nextId, seq, stored, copies, rejects, evictions, history>>

\* Mutant: the batch is marked in flight but never put on the channel.
UploadTickUnsent ==
    LET ids == NextPending(rows, BatchMax)
    IN /\ link = "open"
       /\ Pending(rows) # {}
       /\ seq' = seq + 1
       /\ rows' = MarkInFlight(rows, ids, seq')
       /\ UNCHANGED <<nextId, link, uplink, downlink, stored, copies, faults, history>>

\* The batch tick.  An empty poll takes the number back.
UploadTick ==
    LET ids == NextPending(rows, BatchMax)
    IN /\ link = "open"
       /\ Pending(rows) # {}
       /\ seq' = seq + 1
       /\ rows' = MarkInFlight(rows, ids, seq')
       /\ uplink' = Append(uplink, [batch |-> seq', ids |-> ids])
       /\ UNCHANGED <<nextId, link, downlink, stored, copies, faults, history>>

UploadTickEmpty ==
    /\ link = "open"
    /\ Pending(rows) = {}
    /\ UNCHANGED vars

\* Mutant: a failed dequeue takes the number back as an empty one does.
UploadTickFailsReusesSeq ==
    \E i \in NextPending(rows, BatchMax) :
        /\ link = "open"
        /\ evictions < MaxEvictions
        /\ rows[i].prio \in {Low, Normal}
        /\ rows' = Delete(MarkInFlight(rows, NextPending(rows, BatchMax), seq + 1), {i})
        /\ shed' = shed \cup {i}
        /\ stranded' = stranded \cup NextPending(rows, BatchMax)
        /\ evictions' = evictions + 1
        /\ UNCHANGED <<nextId, link, seq, uplink, downlink, stored, copies, breaks, rejects,
                       refused, leftover>>

\* dequeue_batch fails half way because evict_inner took one of its rows (see
\* AgentQueue): the others are in flight, nothing is sent, the number is used.
UploadTickFails ==
    LET ids == NextPending(rows, BatchMax)
    IN /\ link = "open"
       /\ evictions < MaxEvictions
       /\ seq' = seq + 1
       /\ \E i \in ids :
            /\ rows[i].prio \in {Low, Normal}
            /\ rows' = Delete(MarkInFlight(rows, ids, seq'), {i})
            /\ shed' = shed \cup {i}
            /\ stranded' = stranded \cup (ids \ {i})
       /\ evictions' = evictions + 1
       /\ UNCHANGED <<nextId, link, uplink, downlink, stored, copies, breaks, rejects,
                      refused, leftover>>

\* handleEventBatch takes the next batch and answers it.
Answer(accepted) ==
    /\ link = "open"
    /\ uplink # <<>>
    /\ uplink' = Tail(uplink)
    /\ downlink' = Append(downlink, [batch |-> Head(uplink).batch, accepted |-> accepted])
    /\ UNCHANGED <<rows, nextId, link, seq, breaks, evictions, leftover, shed, stranded>>

Publish ==
    /\ stored' = stored \cup Head(uplink).ids
    /\ copies' = [i \in DOMAIN copies |->
                    IF i \in Head(uplink).ids THEN copies[i] + 1 ELSE copies[i]]

\* Mutant: the ack leaves before JetStream confirmed anything.
BatchPublishedTooEarly ==
    /\ Answer(TRUE)
    /\ Publish \/ UNCHANGED <<stored, copies>>
    /\ UNCHANGED <<rejects, refused>>

\* JetStream confirmed the publish.
BatchPublished ==
    /\ Answer(TRUE)
    /\ Publish
    /\ UNCHANGED <<rejects, refused>>

\* The rate limiter refused the batch, the publish failed, or it failed only
\* by its timeout and JetStream has the batch: the ack says rejected.
BatchRejected ==
    /\ rejects < MaxRejects
    /\ Answer(FALSE)
    /\ Publish \/ UNCHANGED <<stored, copies>>
    /\ rejects' = rejects + 1
    /\ refused' = refused \cup Head(uplink).ids

\* handle_server_message deletes the rows of the batch whatever its counts say.
BatchAcked ==
    /\ link = "open"
    /\ downlink # <<>>
    /\ rows' = AckBatch(rows, Head(downlink).batch)
    /\ downlink' = Tail(downlink)
    /\ UNCHANGED <<nextId, link, seq, uplink, stored, copies, faults, history>>

Next ==
    \/ \E r \in Prios : Enqueue(r)
    \/ Connect \/ Break
    \/ UploadTick \/ UploadTickEmpty \/ UploadTickFails
    \/ BatchPublished \/ BatchRejected \/ BatchAcked

\* run_bidi reconnects for ever, the batch ticker and the inbound arm of the
\* select are polled for ever, and the handler answers what it has read.
Fairness ==
    /\ WF_vars(Connect)
    /\ WF_vars(UploadTick)
    /\ WF_vars(BatchPublished)
    /\ WF_vars(BatchAcked)

Spec == Init /\ [][Next]_vars
FairSpec == Spec /\ Fairness

-----------------------------------------------------------------------------
(* Properties *)

Message == [batch : Nat \ {0}, ids : SUBSET Ids]
AckMessage == [batch : Nat \ {0}, accepted : BOOLEAN]

\* Every variable stays in its type; nothing is on its way on a link that is down.
TypeOK ==
    /\ nextId \in 1 .. (MaxEvents + 1)
    /\ DOMAIN rows \subseteq Ids
    /\ rows \in [DOMAIN rows -> Row]
    /\ link \in {"down", "open"}
    /\ seq \in Nat
    /\ uplink \in Seq(Message)
    /\ downlink \in Seq(AckMessage)
    /\ link = "down" => uplink = <<>> /\ downlink = <<>>
    /\ stored \subseteq Ids
    /\ refused \subseteq Ids
    /\ leftover \subseteq Ids
    /\ shed \subseteq Ids
    /\ stranded \subseteq Ids

\* Events the agent no longer holds, JetStream never got and no eviction took.
Lost == Ids \ (DOMAIN rows \cup stored \cup shed)

\* The only two ways to lose an event: its batch was answered with a rejected
\* count, or it was in flight when a later stream began to number its batches.
\* A failed dequeue, an empty poll or acks overtaken by batches lose nothing.
LossHasCause == Lost \subseteq refused \cup leftover

\* No event reaches JetStream twice: a row in flight is never sent again
\* (UploadTick).  Every variable keeps its type.
AtMostOnce == TypeOK /\ \A i \in Ids : copies[i] <= 1

\* The agent hands its events over: it forgets an event only once JetStream has
\* it, or the gateway refused it, or a stream broke while it was in flight; failed
\* dequeues, empty polls and the order of batches and acks change nothing.
Contract == INSTANCE Handover WITH
    Items <- 1 .. MaxEvents, accepted <- Ids, source <- DOMAIN rows,
    sink <- stored \cup refused \cup leftover
HandsOver == Contract!Spec

\* An event the queue took gets to JetStream, whatever the others went through,
\* unless it met a fault itself: it was refused, in flight when a stream broke, or
\* in a dequeue that failed.
EventuallyStored ==
    \A i \in 1 .. MaxEvents :
        []<>(i \in Ids => i \in stored \cup refused \cup leftover \cup shed \cup stranded)

(* What the repository says and the code does not keep *)

\* "batches are delayed, none are lost" (gateway-packet-loss.md): what a broken
\* stream leaves in flight is deleted by the ack of a batch of the next one.
NoLoss == Lost = {}
=============================================================================
