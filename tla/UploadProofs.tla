----------------------------- MODULE UploadProofs -----------------------------
(***************************************************************************)
(* The causes of a lost event, for any number of events, breaks, refusals  *)
(* and evictions.  The argument follows a batch number: rows in flight on  *)
(* this stream have numbers up to seq, so a new batch shares its number    *)
(* with rows left over from an earlier stream only; the rows with the      *)
(* number of a message on its way are those of the message, or left over;  *)
(* and those with the number of an ack are stored, refused or left over.   *)
(*                                                                         *)
(* Then, from the other side, that no event is stored twice: an event that *)
(* was sent is never pending again, and is in one message at most.  Both   *)
(* together make every step of the upload one of Handover.                 *)
(*                                                                         *)
(* Third, the recorder, the part of MCUploads whose steps are Rec's; last, *)
(* the three parts of MCAdmin: the update, whose steps are Swap's, the     *)
(* compliance pages, whose steps are Pages', and the connections, Wires'.  *)
(***************************************************************************)
EXTENDS MCUploads, MCAdmin, SequenceTheorems, TLAPS

TableOK ==
    /\ nextId \in Nat \ {0}
    /\ DOMAIN rows \subseteq Ids
    /\ rows \in [DOMAIN rows -> Row]
    /\ seq \in Nat

UpMessage == [batch : Nat, ids : SUBSET Nat]
DownMessage == [batch : Nat, accepted : BOOLEAN]

ChannelsOK ==
    /\ link \in {"down", "open"}
    /\ uplink \in Seq(UpMessage)
    /\ downlink \in Seq(DownMessage)
    /\ link = "down" => uplink = <<>> /\ downlink = <<>>

OwnNumbers == \A i \in InFlight \ leftover : rows[i].batch <= seq

UplinkRows ==
    \A k \in 1 .. Len(uplink) :
        /\ uplink[k].batch <= seq
        /\ BatchRows(rows, uplink[k].batch) \subseteq uplink[k].ids \cup leftover

DownlinkRows ==
    \A k \in 1 .. Len(downlink) :
        /\ downlink[k].batch <= seq
        /\ BatchRows(rows, downlink[k].batch) \subseteq stored \cup refused \cup leftover

IInv == TableOK /\ ChannelsOK /\ OwnNumbers /\ UplinkRows /\ DownlinkRows /\ LossHasCause

LEMMA InitIInv == Init => IInv
BY DEF Init, IInv, TableOK, ChannelsOK, OwnNumbers, UplinkRows, DownlinkRows, LossHasCause,
       Lost, InFlight, Pending, NoRows, Ids, Row

LEMMA SeqElement ==
    ASSUME NEW S, NEW s \in Seq(S), NEW k \in 1 .. Len(s)
    PROVE  s[k] \in S
OBVIOUS

LEMMA MessageBatches ==
    ASSUME ChannelsOK
    PROVE  /\ \A k \in 1 .. Len(uplink) : uplink[k] \in UpMessage /\ uplink[k].batch \in Nat
           /\ \A k \in 1 .. Len(downlink) : downlink[k] \in DownMessage /\ downlink[k].batch \in Nat
<1>1. \A k \in 1 .. Len(uplink) : uplink[k] \in UpMessage
  BY SeqElement DEF ChannelsOK
<1>2. \A k \in 1 .. Len(downlink) : downlink[k] \in DownMessage
  BY SeqElement DEF ChannelsOK
<1> QED BY <1>1, <1>2 DEF UpMessage, DownMessage

\* Marking the rows of the next batch: the batches on their way keep their
\* rows, and only leftovers can already have the new number.
LEMMA MarkKeeps ==
    ASSUME IInv, NEW ids, ids \subseteq Pending(rows), NEW t,
           t = MarkInFlight(rows, ids, seq + 1)
    PROVE  /\ DOMAIN t = DOMAIN rows
           /\ t \in [DOMAIN rows -> Row]
           /\ \A i \in DOMAIN t : t[i].status # "pending" /\ i \notin leftover => t[i].batch <= seq + 1
           /\ \A b \in Nat : b <= seq => BatchRows(t, b) \subseteq BatchRows(rows, b)
           /\ BatchRows(t, seq + 1) \subseteq ids \cup leftover
<1>1. \A i \in DOMAIN rows : rows[i] \in Row
  BY DEF IInv, TableOK
<1>2. /\ DOMAIN t = DOMAIN rows
      /\ \A i \in ids : t[i] = [rows[i] EXCEPT !.status = "in_flight", !.batch = seq + 1]
      /\ \A i \in DOMAIN rows \ ids : t[i] = rows[i]
      /\ ids \subseteq DOMAIN rows
  <2>1. ids \subseteq DOMAIN rows
    BY DEF Pending
  <2>2. t = [i \in DOMAIN rows |->
               IF i \in ids THEN [rows[i] EXCEPT !.status = "in_flight", !.batch = seq + 1]
                            ELSE rows[i]]
    BY DEF MarkInFlight
  <2> QED BY <2>1, <2>2
<1>0. seq \in Nat /\ seq + 1 \in Nat
  BY DEF IInv, TableOK
<1>3. \A i \in ids : t[i] \in Row /\ t[i].status = "in_flight" /\ t[i].batch = seq + 1
  <2> SUFFICES ASSUME NEW i \in ids
               PROVE  t[i] \in Row /\ t[i].status = "in_flight" /\ t[i].batch = seq + 1
    OBVIOUS
  <2>1. rows[i] \in Row /\ t[i] = [rows[i] EXCEPT !.status = "in_flight", !.batch = seq + 1]
    BY <1>1, <1>2
  <2> QED BY <1>0, <2>1 DEF Row, Status
<1>4. t \in [DOMAIN rows -> Row]
  <2>1. \A i \in DOMAIN rows : t[i] \in Row
    BY <1>1, <1>2, <1>3
  <2>2. t = [i \in DOMAIN rows |-> t[i]]
    BY <1>2 DEF MarkInFlight
  <2> QED BY <2>1, <2>2
<1>5. \A i \in DOMAIN rows \ ids : rows[i].status # "pending" /\ i \notin leftover =>
            rows[i].batch <= seq /\ rows[i].batch \in Nat
  BY <1>1 DEF IInv, OwnNumbers, InFlight, Pending, Row
<1>6. \A i \in DOMAIN t : t[i].status # "pending" /\ i \notin leftover => t[i].batch <= seq + 1
  <2> SUFFICES ASSUME NEW i \in DOMAIN t, t[i].status # "pending", i \notin leftover
               PROVE  t[i].batch <= seq + 1
    OBVIOUS
  <2>1. CASE i \in ids
    BY <1>0, <1>3, <2>1
  <2>2. CASE i \notin ids
    <3>1. i \in DOMAIN rows \ ids /\ t[i] = rows[i]
      BY <1>2, <2>2
    <3>2. rows[i].batch <= seq /\ rows[i].batch \in Nat
      BY <1>5, <3>1
    <3> QED BY <1>0, <3>1, <3>2
  <2> QED BY <2>1, <2>2
<1>7. \A b \in Nat : b <= seq => BatchRows(t, b) \subseteq BatchRows(rows, b)
  <2> SUFFICES ASSUME NEW b \in Nat, b <= seq, NEW i \in BatchRows(t, b)
               PROVE  i \in BatchRows(rows, b)
    OBVIOUS
  <2>1. i \in DOMAIN rows /\ t[i].status = "in_flight" /\ t[i].batch = b
    BY <1>2 DEF BatchRows
  <2>2. i \notin ids
    BY <1>0, <1>3, <2>1
  <2> QED BY <1>2, <2>1, <2>2 DEF BatchRows
<1>8. BatchRows(t, seq + 1) \subseteq ids \cup leftover
  <2> SUFFICES ASSUME NEW i \in BatchRows(t, seq + 1), i \notin ids, i \notin leftover
               PROVE  FALSE
    OBVIOUS
  <2>1. i \in DOMAIN rows \ ids /\ rows[i].status = "in_flight" /\ rows[i].batch = seq + 1
    BY <1>2 DEF BatchRows
  <2> QED BY <1>0, <1>5, <2>1
<1> QED BY <1>2, <1>4, <1>6, <1>7, <1>8

LEMMA NextPendingIsPending == NextPending(rows, BatchMax) \subseteq Pending(rows)
BY DEF NextPending

LEMMA UploadTickKeeps == IInv /\ UploadTick => IInv'
<1> SUFFICES ASSUME IInv, UploadTick PROVE IInv'
  OBVIOUS
<1> DEFINE ids == NextPending(rows, BatchMax)
           msg == [batch |-> seq + 1, ids |-> ids]
<1>1. /\ ids \subseteq Pending(rows)
      /\ seq' = seq + 1 /\ rows' = MarkInFlight(rows, ids, seq + 1)
      /\ uplink' = Append(uplink, msg)
      /\ UNCHANGED <<nextId, link, downlink, stored, refused, leftover, shed>>
      /\ link = "open"
  BY NextPendingIsPending DEF UploadTick, history
<1> HIDE DEF ids
<1>2. /\ DOMAIN rows' = DOMAIN rows
      /\ rows' \in [DOMAIN rows -> Row]
      /\ \A i \in DOMAIN rows' : rows'[i].status # "pending" /\ i \notin leftover => rows'[i].batch <= seq + 1
      /\ \A b \in Nat : b <= seq => BatchRows(rows', b) \subseteq BatchRows(rows, b)
      /\ BatchRows(rows', seq + 1) \subseteq ids \cup leftover
  BY <1>1, MarkKeeps
<1>3. TableOK'
  BY <1>1, <1>2 DEF IInv, TableOK, Ids
<1>4. ids \in SUBSET Nat
  BY <1>1 DEF IInv, TableOK, Ids, Pending
<1>5. ChannelsOK'
  BY <1>1, <1>4, AppendProperties DEF IInv, TableOK, ChannelsOK, UpMessage
<1>6. OwnNumbers'
  BY <1>1, <1>2 DEF OwnNumbers, InFlight, Pending
<1>7. UplinkRows'
  <2>1. /\ Len(uplink') = Len(uplink) + 1
        /\ \A k \in 1 .. Len(uplink) : uplink'[k] = uplink[k] /\ uplink[k].batch \in Nat
        /\ uplink'[Len(uplink) + 1] = msg
    <3>1. uplink \in Seq(UpMessage) /\ msg \in UpMessage
      BY <1>4 DEF IInv, TableOK, ChannelsOK, UpMessage
    <3> QED BY <1>1, <3>1, AppendProperties, MessageBatches DEF IInv
  <2>2. \A k \in 1 .. Len(uplink) :
           uplink[k].batch <= seq /\ BatchRows(rows, uplink[k].batch) \subseteq uplink[k].ids \cup leftover
    BY DEF IInv, UplinkRows
  <2>3. ASSUME NEW k \in 1 .. Len(uplink')
        PROVE  uplink'[k].batch <= seq' /\ BatchRows(rows', uplink'[k].batch) \subseteq uplink'[k].ids \cup leftover'
    <3>1. CASE k \in 1 .. Len(uplink)
      BY <1>1, <1>2, <2>1, <2>2, <3>1 DEF IInv, TableOK
    <3>2. CASE k = Len(uplink) + 1
      BY <1>1, <1>2, <2>1, <3>2 DEF IInv, TableOK
    <3> QED BY <2>1, <3>1, <3>2 DEF IInv, ChannelsOK
  <2> QED BY <2>3 DEF UplinkRows
<1>8. DownlinkRows'
  <2>1. \A k \in 1 .. Len(downlink) : downlink[k].batch \in Nat
    BY MessageBatches DEF IInv
  <2> QED BY <1>1, <1>2, <2>1 DEF IInv, TableOK, DownlinkRows
<1>9. LossHasCause'
  BY <1>1, <1>2 DEF IInv, LossHasCause, Lost, Ids
<1> QED BY <1>3, <1>5, <1>6, <1>7, <1>8, <1>9 DEF IInv

LEMMA UploadTickFailsKeeps == IInv /\ UploadTickFails => IInv'
<1> SUFFICES ASSUME IInv, UploadTickFails PROVE IInv'
  OBVIOUS
<1> DEFINE ids == NextPending(rows, BatchMax)
           t   == MarkInFlight(rows, ids, seq + 1)
<1>1. PICK e \in ids :
      /\ seq' = seq + 1 /\ rows' = Delete(t, {e}) /\ shed' = shed \cup {e}
      /\ UNCHANGED <<nextId, link, uplink, downlink, stored, refused, leftover>>
  BY DEF UploadTickFails
<1>2. ids \subseteq Pending(rows)
  BY NextPendingIsPending
<1>3. /\ DOMAIN t = DOMAIN rows
      /\ t \in [DOMAIN rows -> Row]
      /\ \A i \in DOMAIN t : t[i].status # "pending" /\ i \notin leftover => t[i].batch <= seq + 1
      /\ \A b \in Nat : b <= seq => BatchRows(t, b) \subseteq BatchRows(rows, b)
  BY <1>2, MarkKeeps
<1> HIDE DEF ids, t
<1>4. /\ DOMAIN rows' = DOMAIN rows \ {e}
      /\ \A i \in DOMAIN rows' : rows'[i] = t[i]
      /\ \A b : BatchRows(rows', b) = BatchRows(t, b) \ {e}
  <2>1. DOMAIN rows' = DOMAIN rows \ {e} /\ \A i \in DOMAIN rows' : rows'[i] = t[i]
    BY <1>1, <1>3 DEF Delete, Restrict
  <2> QED BY <1>3, <2>1 DEF BatchRows
<1>5. TableOK'
  <2>1. rows' \in [DOMAIN rows' -> Row]
    BY <1>1, <1>3, <1>4 DEF Delete, Restrict
  <2>2. seq' \in Nat /\ nextId' = nextId /\ DOMAIN rows' \subseteq DOMAIN rows
    BY <1>1, <1>4 DEF IInv, TableOK
  <2> QED BY <2>1, <2>2 DEF IInv, TableOK, Ids
<1>6. ChannelsOK'
  BY <1>1 DEF IInv, ChannelsOK
<1>7. OwnNumbers'
  BY <1>1, <1>3, <1>4 DEF OwnNumbers, InFlight, Pending
<1>8. \A b \in Nat : b <= seq => BatchRows(rows', b) \subseteq BatchRows(rows, b)
  BY <1>3, <1>4
<1>9. UplinkRows'
  <2>1. \A k \in 1 .. Len(uplink) : uplink[k].batch \in Nat
    BY MessageBatches DEF IInv
  <2>2. \A k \in 1 .. Len(uplink) :
            /\ uplink[k].batch <= seq
            /\ BatchRows(rows, uplink[k].batch) \subseteq uplink[k].ids \cup leftover
    BY DEF IInv, UplinkRows
  <2>3. ASSUME NEW k \in 1 .. Len(uplink)
        PROVE  /\ uplink[k].batch <= seq'
               /\ BatchRows(rows', uplink[k].batch) \subseteq uplink[k].ids \cup leftover
    <3>1. BatchRows(rows', uplink[k].batch) \subseteq BatchRows(rows, uplink[k].batch)
      BY <1>8, <2>1, <2>2
    <3>2. uplink[k].batch <= seq'
      BY <1>1, <2>1, <2>2 DEF IInv, TableOK
    <3> QED BY <2>2, <3>1, <3>2
  <2> QED BY <1>1, <2>3 DEF UplinkRows
<1>10. DownlinkRows'
  <2>1. \A k \in 1 .. Len(downlink) : downlink[k].batch \in Nat
    BY MessageBatches DEF IInv
  <2>2. \A k \in 1 .. Len(downlink) :
            /\ downlink[k].batch <= seq
            /\ BatchRows(rows, downlink[k].batch) \subseteq stored \cup refused \cup leftover
    BY DEF IInv, DownlinkRows
  <2>3. ASSUME NEW k \in 1 .. Len(downlink)
        PROVE  /\ downlink[k].batch <= seq'
               /\ BatchRows(rows', downlink[k].batch) \subseteq stored \cup refused \cup leftover
    <3>1. BatchRows(rows', downlink[k].batch) \subseteq BatchRows(rows, downlink[k].batch)
      BY <1>8, <2>1, <2>2
    <3>2. downlink[k].batch <= seq'
      BY <1>1, <2>1, <2>2 DEF IInv, TableOK
    <3> QED BY <2>2, <3>1, <3>2
  <2> QED BY <1>1, <2>3 DEF DownlinkRows
<1>11. LossHasCause'
  BY <1>1, <1>4 DEF IInv, LossHasCause, Lost, Ids
<1> QED BY <1>5, <1>6, <1>7, <1>9, <1>10, <1>11 DEF IInv

\* The answer to the first batch is about rows that are stored, refused or left over.
LEMMA AnswerKeeps ==
    ASSUME IInv, BatchPublished \/ BatchRejected
    PROVE  IInv'
<1> DEFINE m == Head(uplink)
<1>1. PICK f \in BOOLEAN :
      /\ link = "open" /\ uplink # <<>>
      /\ uplink' = Tail(uplink)
      /\ downlink' = Append(downlink, [batch |-> m.batch, accepted |-> f])
      /\ UNCHANGED <<rows, nextId, link, seq, leftover, shed>>
      /\ stored \subseteq stored' /\ refused \subseteq refused'
      /\ m.ids \subseteq stored' \cup refused'
  BY DEF BatchPublished, BatchRejected, Answer, Publish
<1>2. /\ m = uplink[1] /\ 1 \in 1 .. Len(uplink)
      /\ Len(uplink') = Len(uplink) - 1
      /\ \A k \in 1 .. Len(uplink') : uplink'[k] = uplink[k + 1] /\ k + 1 \in 1 .. Len(uplink)
      /\ uplink' \in Seq(UpMessage)
  BY <1>1, HeadTailProperties DEF IInv, ChannelsOK
<1>3. m \in UpMessage /\ m.batch \in Nat
  BY <1>2, MessageBatches DEF IInv, ChannelsOK
<1> HIDE DEF m
<1>4. /\ downlink' \in Seq(DownMessage)
      /\ Len(downlink') = Len(downlink) + 1
      /\ \A k \in 1 .. Len(downlink) : downlink'[k] = downlink[k]
      /\ downlink'[Len(downlink) + 1].batch = m.batch
  BY <1>1, <1>3, AppendProperties DEF IInv, ChannelsOK, DownMessage
<1>5. TableOK' /\ ChannelsOK' /\ OwnNumbers'
  BY <1>1, <1>2, <1>4 DEF IInv, TableOK, ChannelsOK, OwnNumbers, InFlight, Pending, Ids
<1>6. UplinkRows'
  BY <1>1, <1>2 DEF IInv, UplinkRows
<1>7. DownlinkRows'
  <2>1. m.batch <= seq /\ BatchRows(rows, m.batch) \subseteq m.ids \cup leftover
    BY <1>2 DEF IInv, UplinkRows
  <2>2. ASSUME NEW k \in 1 .. Len(downlink')
        PROVE  /\ downlink'[k].batch <= seq'
               /\ BatchRows(rows', downlink'[k].batch) \subseteq stored' \cup refused' \cup leftover'
    <3>1. CASE k \in 1 .. Len(downlink)
      BY <1>1, <1>4, <3>1 DEF IInv, DownlinkRows
    <3>2. CASE k = Len(downlink) + 1
      BY <1>1, <1>4, <2>1, <3>2
    <3> QED BY <1>4, <3>1, <3>2 DEF IInv, ChannelsOK
  <2> QED BY <2>2 DEF DownlinkRows
<1>8. LossHasCause'
  BY <1>1 DEF IInv, LossHasCause, Lost, Ids
<1> QED BY <1>5, <1>6, <1>7, <1>8 DEF IInv

LEMMA BatchAckedKeeps == IInv /\ BatchAcked => IInv'
<1> SUFFICES ASSUME IInv, BatchAcked PROVE IInv'
  OBVIOUS
<1> DEFINE b == Head(downlink).batch
           gone == BatchRows(rows, b)
<1>1. /\ link = "open" /\ downlink # <<>>
      /\ rows' = Delete(rows, gone)
      /\ downlink' = Tail(downlink)
      /\ UNCHANGED <<nextId, link, seq, uplink, stored, refused, leftover, shed>>
  BY DEF BatchAcked, AckBatch, history
<1>2. /\ b = downlink[1].batch /\ 1 \in 1 .. Len(downlink)
      /\ Len(downlink') = Len(downlink) - 1
      /\ \A k \in 1 .. Len(downlink') : downlink'[k] = downlink[k + 1] /\ k + 1 \in 1 .. Len(downlink)
      /\ downlink' \in Seq(DownMessage)
  BY <1>1, HeadTailProperties DEF IInv, ChannelsOK
<1>3. gone \subseteq stored \cup refused \cup leftover
  BY <1>2 DEF IInv, DownlinkRows
<1> HIDE DEF gone, b
<1>4. /\ DOMAIN rows' = DOMAIN rows \ gone
      /\ \A i \in DOMAIN rows' : rows'[i] = rows[i]
      /\ \A c : BatchRows(rows', c) = BatchRows(rows, c) \ gone
  <2>1. DOMAIN rows' = DOMAIN rows \ gone /\ \A i \in DOMAIN rows' : rows'[i] = rows[i]
    BY <1>1 DEF Delete, Restrict
  <2> QED BY <2>1 DEF BatchRows
<1>5. TableOK'
  <2>1. rows' \in [DOMAIN rows' -> Row]
    BY <1>1, <1>4 DEF Delete, Restrict, IInv, TableOK
  <2> QED BY <1>1, <1>4, <2>1 DEF IInv, TableOK, Ids
<1>6. ChannelsOK' /\ OwnNumbers'
  BY <1>1, <1>2, <1>4 DEF IInv, ChannelsOK, OwnNumbers, InFlight, Pending
<1>7. UplinkRows'
  BY <1>1, <1>4 DEF IInv, UplinkRows
<1>8. DownlinkRows'
  BY <1>1, <1>2, <1>4 DEF IInv, DownlinkRows
<1>9. LossHasCause'
  BY <1>1, <1>3, <1>4 DEF IInv, LossHasCause, Lost, Ids
<1> QED BY <1>5, <1>6, <1>7, <1>8, <1>9 DEF IInv

LEMMA LinkKeeps == IInv /\ (Connect \/ Break) => IInv'
<1> SUFFICES ASSUME IInv, Connect \/ Break PROVE IInv'
  OBVIOUS
<1>1. CASE Connect
  <2>1. uplink' = <<>> /\ downlink' = <<>>
    BY <1>1 DEF Connect, IInv, ChannelsOK
  <2> QED BY <1>1, <2>1 DEF Connect, IInv, TableOK, ChannelsOK, OwnNumbers, UplinkRows,
              DownlinkRows, LossHasCause, Lost, InFlight, Pending, Ids
<1>2. CASE Break
  BY <1>2 DEF Break, history, IInv, TableOK, ChannelsOK, OwnNumbers, UplinkRows, DownlinkRows,
              LossHasCause, Lost, InFlight, Pending, Ids
<1> QED BY <1>1, <1>2

LEMMA EnqueueKeeps ==
    ASSUME IInv, NEW r \in Prios, Enqueue(r)
    PROVE  IInv'
<1>1. /\ DOMAIN rows' = DOMAIN rows \cup {nextId}
      /\ rows'[nextId] = [prio |-> r, size |-> 1, status |-> "pending", batch |-> 0]
      /\ \A i \in DOMAIN rows : i # nextId => rows'[i] = rows[i]
      /\ nextId' = nextId + 1
      /\ UNCHANGED <<link, seq, uplink, downlink, stored, refused, leftover, shed>>
  BY DEF Enqueue, Insert, history
<1>2. nextId \notin DOMAIN rows /\ Ids' = Ids \cup {nextId} /\ nextId' \in Nat \ {0}
  BY <1>1 DEF IInv, TableOK, Ids
<1>3. rows' \in [DOMAIN rows' -> Row]
  <2>1. \A i \in DOMAIN rows' : rows'[i] \in Row
    BY <1>1, <1>2, UploadAssumption DEF IInv, TableOK, Row, Status
  <2> QED BY <2>1 DEF Enqueue, Insert
<1>4. TableOK' /\ ChannelsOK'
  BY <1>1, <1>2, <1>3 DEF IInv, TableOK, ChannelsOK
<1>5. OwnNumbers'
  BY <1>1, <1>2 DEF IInv, OwnNumbers, InFlight, Pending
<1>6. \A b : BatchRows(rows', b) = BatchRows(rows, b)
  BY <1>1, <1>2 DEF BatchRows
<1>7. UplinkRows' /\ DownlinkRows'
  BY <1>1, <1>6 DEF IInv, UplinkRows, DownlinkRows
<1>8. LossHasCause'
  BY <1>1, <1>2 DEF IInv, LossHasCause, Lost
<1> QED BY <1>4, <1>5, <1>7, <1>8 DEF IInv

LEMMA NextIInv == IInv /\ [Next]_vars => IInv'
<1> SUFFICES ASSUME IInv, [Next]_vars PROVE IInv'
  OBVIOUS
<1>1. CASE UNCHANGED vars \/ UploadTickEmpty
  BY <1>1 DEF UploadTickEmpty, vars, faults, history, IInv, TableOK, ChannelsOK, OwnNumbers,
              UplinkRows, DownlinkRows, LossHasCause, Lost, InFlight, Pending, Ids
<1>2. CASE \E r \in Prios : Enqueue(r)
  BY <1>2, EnqueueKeeps
<1> QED BY <1>1, <1>2, LinkKeeps, UploadTickKeeps, UploadTickFailsKeeps, AnswerKeeps,
           BatchAckedKeeps DEF Next

\* Whatever breaks and however often, an event is lost for one of two reasons:
\* the agent dropped a batch the gateway had rejected, or a later stream's
\* batch took the number of one that was still in flight.
THEOREM LossCauses == Spec => []LossHasCause
<1>1. IInv => LossHasCause
  BY DEF IInv
<1> QED BY <1>1, InitIInv, NextIInv, PTL DEF Spec

-----------------------------------------------------------------------------
(* No event twice.  A row that was put in a message is not pending any more, *)
(* no message shares an event with another, and none of its events has been  *)
(* published before.                                                         *)

HistoryOK ==
    /\ nextId \in 1 .. (MaxEvents + 1)
    /\ copies \in [1 .. MaxEvents -> Nat]
    /\ stored \subseteq Ids /\ refused \subseteq Ids /\ leftover \subseteq Ids
    /\ shed \subseteq Ids /\ stranded \subseteq Ids

MessagesOK ==
    /\ \A k \in 1 .. Len(uplink) : uplink[k].batch # 0 /\ uplink[k].ids \subseteq Ids
    /\ \A k \in 1 .. Len(downlink) : downlink[k].batch # 0

NeverAgain ==
    \A k \in 1 .. Len(uplink) : \A i \in uplink[k].ids : i \notin Pending(rows) /\ copies[i] = 0

Apart ==
    \A j, k \in 1 .. Len(uplink) : j # k => uplink[j].ids \cap uplink[k].ids = {}

Once ==
    \A i \in 1 .. MaxEvents :
        copies[i] <= 1 /\ (copies[i] = 1 => i \in Ids /\ i \notin Pending(rows))

\* What the agent has sent and forgotten is with the gateway, or left over.
Held ==
    \A k \in 1 .. Len(uplink) :
        uplink[k].ids \subseteq DOMAIN rows \cup stored \cup refused \cup leftover

OInv == HistoryOK /\ MessagesOK /\ NeverAgain /\ Apart /\ Once /\ Held

LEMMA InitOInv == Init => OInv
BY UploadAssumption DEF Init, OInv, HistoryOK, MessagesOK, NeverAgain, Apart, Once, Held, Ids, Pending, NoRows

LEMMA MarkPending ==
    ASSUME IInv, NEW ids, ids \subseteq Pending(rows), NEW b \in Nat
    PROVE  /\ DOMAIN MarkInFlight(rows, ids, b) = DOMAIN rows
           /\ Pending(MarkInFlight(rows, ids, b)) = Pending(rows) \ ids
<1> DEFINE t == MarkInFlight(rows, ids, b)
<1>1. DOMAIN t = DOMAIN rows
  BY DEF MarkInFlight
<1>2. ASSUME NEW i \in DOMAIN rows, i \notin ids PROVE t[i] = rows[i]
  BY <1>2 DEF MarkInFlight
<1>3. ASSUME NEW i \in ids PROVE t[i].status = "in_flight"
  <2>1. i \in DOMAIN rows /\ rows[i] \in Row
    BY <1>3 DEF Pending, IInv, TableOK
  <2>2. t[i] = [rows[i] EXCEPT !.status = "in_flight", !.batch = b]
    BY <1>3, <2>1 DEF MarkInFlight
  <2> QED BY <2>1, <2>2 DEF Row, Status
<1> HIDE DEF t
<1>4. Pending(t) = Pending(rows) \ ids
  BY <1>1, <1>2, <1>3 DEF Pending
<1> QED BY <1>1, <1>4 DEF t

LEMMA EnqueueOnce ==
    ASSUME IInv, OInv, NEW r \in Prios, Enqueue(r)
    PROVE  OInv'
<1>1. /\ nextId \in 1 .. MaxEvents
      /\ DOMAIN rows' = DOMAIN rows \cup {nextId}
      /\ rows'[nextId].status = "pending"
      /\ \A i \in DOMAIN rows : i # nextId => rows'[i] = rows[i]
      /\ nextId' = nextId + 1
      /\ UNCHANGED <<uplink, downlink, stored, copies, refused, leftover, shed, stranded>>
  BY UploadAssumption DEF Enqueue, Insert, history, OInv, HistoryOK
<1>2. Ids' = Ids \cup {nextId} /\ nextId \notin Ids /\ nextId \notin DOMAIN rows
  BY <1>1 DEF IInv, TableOK, Ids
<1>3. Pending(rows') = Pending(rows) \cup {nextId}
  BY <1>1, <1>2 DEF Pending
<1>4. HistoryOK' /\ MessagesOK' /\ Apart'
  <2>1. HistoryOK'
    BY <1>1, <1>2, UploadAssumption DEF OInv, HistoryOK
  <2>2. MessagesOK'
    BY <1>1, <1>2 DEF OInv, MessagesOK
  <2>3. Apart'
    BY <1>1 DEF OInv, Apart
  <2> QED
    BY <2>1, <2>2, <2>3
<1>5. NeverAgain'
  BY <1>1, <1>2, <1>3 DEF OInv, MessagesOK, NeverAgain
<1>6. Once'
  BY <1>1, <1>2, <1>3 DEF OInv, Once
<1>7. Held'
  BY <1>1 DEF OInv, Held
<1> QED BY <1>4, <1>5, <1>6, <1>7 DEF OInv

LEMMA LinkOnce == IInv /\ OInv /\ (Connect \/ Break) => OInv'
<1> SUFFICES ASSUME IInv, OInv, Connect \/ Break PROVE OInv'
  OBVIOUS
<1>1. InFlight \subseteq Ids
  BY DEF InFlight, IInv, TableOK
<1>2. CASE Connect
  <2>1. uplink' = <<>> /\ downlink' = <<>>
    BY <1>2 DEF Connect, IInv, ChannelsOK
  <2> QED BY <1>1, <1>2, <2>1 DEF Connect, OInv, HistoryOK, MessagesOK, NeverAgain, Apart, Once,
              Held, Ids, Pending
<1>3. CASE Break
  BY <1>3 DEF Break, history, OInv, HistoryOK, MessagesOK, NeverAgain, Apart, Once, Held, Ids, Pending
<1> QED BY <1>2, <1>3

LEMMA UploadTickOnce == IInv /\ OInv /\ UploadTick => OInv'
<1> SUFFICES ASSUME IInv, OInv, UploadTick PROVE OInv'
  OBVIOUS
<1> DEFINE ids == NextPending(rows, BatchMax)
           msg == [batch |-> seq + 1, ids |-> ids]
<1>1. /\ ids \subseteq Pending(rows)
      /\ rows' = MarkInFlight(rows, ids, seq + 1)
      /\ uplink' = Append(uplink, msg)
      /\ UNCHANGED <<nextId, downlink, stored, copies, refused, leftover, shed, stranded>>
  BY NextPendingIsPending DEF UploadTick, history
<1> HIDE DEF ids
<1>2. seq \in Nat /\ seq + 1 \in Nat \ {0}
  BY DEF IInv, TableOK
<1>3. DOMAIN rows' = DOMAIN rows /\ Pending(rows') = Pending(rows) \ ids
  BY <1>1, <1>2, MarkPending
<1>4. ids \subseteq DOMAIN rows /\ ids \subseteq Ids /\ Ids \subseteq Nat /\ Ids \subseteq 1 .. MaxEvents
  BY <1>1, UploadAssumption DEF Pending, IInv, TableOK, Ids, OInv, HistoryOK
<1>5. /\ Len(uplink) \in Nat /\ Len(uplink') = Len(uplink) + 1
      /\ \A k \in 1 .. Len(uplink) : uplink'[k] = uplink[k]
      /\ uplink'[Len(uplink) + 1] = msg
  <2>1. uplink \in Seq(UpMessage) /\ msg \in UpMessage
    BY <1>2, <1>4 DEF IInv, ChannelsOK, UpMessage
  <2> QED BY <1>1, <2>1, AppendProperties
<1>6. \A k \in 1 .. Len(uplink') : k \in 1 .. Len(uplink) \/ k = Len(uplink) + 1
  BY <1>5
<1>7. HistoryOK'
  BY <1>1 DEF OInv, HistoryOK, Ids
<1>8. MessagesOK'
  <2>1. \A k \in 1 .. Len(uplink') : uplink'[k].batch # 0 /\ uplink'[k].ids \subseteq Ids
    BY <1>2, <1>4, <1>5, <1>6 DEF OInv, MessagesOK
  <2> QED BY <1>1, <2>1 DEF OInv, MessagesOK, Ids
<1>9. ASSUME NEW i \in ids PROVE copies[i] = 0
  <2>1. i \in 1 .. MaxEvents /\ i \in Pending(rows)
    BY <1>1, <1>4
  <2>2. copies[i] \in Nat /\ copies[i] <= 1 /\ copies[i] # 1
    BY <2>1 DEF OInv, Once, HistoryOK
  <2> QED BY <2>2
<1>10. NeverAgain'
  BY <1>1, <1>3, <1>5, <1>6, <1>9 DEF OInv, NeverAgain
<1>11. Apart'
  <2>1. \A k \in 1 .. Len(uplink) : uplink[k].ids \cap ids = {}
    BY <1>1 DEF OInv, NeverAgain
  <2> QED BY <1>5, <1>6, <2>1 DEF OInv, Apart
<1>12. Once'
  BY <1>1, <1>3 DEF OInv, Once, Ids
<1>13. Held'
  BY <1>1, <1>3, <1>4, <1>5, <1>6 DEF OInv, Held
<1> QED BY <1>7, <1>8, <1>10, <1>11, <1>12, <1>13 DEF OInv

LEMMA UploadTickFailsOnce == IInv /\ OInv /\ UploadTickFails => OInv'
<1> SUFFICES ASSUME IInv, OInv, UploadTickFails PROVE OInv'
  OBVIOUS
<1> DEFINE ids == NextPending(rows, BatchMax)
           t   == MarkInFlight(rows, ids, seq + 1)
<1>1. PICK e \in ids :
      /\ rows' = Delete(t, {e}) /\ shed' = shed \cup {e} /\ stranded' = stranded \cup (ids \ {e})
      /\ UNCHANGED <<nextId, uplink, downlink, stored, copies, refused, leftover>>
  BY DEF UploadTickFails
<1>2. ids \subseteq Pending(rows)
  BY NextPendingIsPending
<1>3. DOMAIN t = DOMAIN rows /\ Pending(t) = Pending(rows) \ ids
  <2>1. seq + 1 \in Nat
    BY DEF IInv, TableOK
  <2> QED BY <1>2, <2>1, MarkPending
<1> HIDE DEF ids, t
<1>4. DOMAIN rows' = DOMAIN rows \ {e} /\ Pending(rows') \subseteq Pending(rows)
  BY <1>1, <1>3 DEF Delete, Restrict, Pending
<1>5. ids \subseteq Ids
  BY <1>2 DEF Pending, IInv, TableOK
<1>6. HistoryOK' /\ MessagesOK' /\ NeverAgain' /\ Apart' /\ Once'
  BY <1>1, <1>4, <1>5 DEF OInv, HistoryOK, MessagesOK, NeverAgain, Apart, Once, Ids
<1>7. Held'
  <2>1. \A k \in 1 .. Len(uplink) : e \notin uplink[k].ids
    BY <1>1, <1>2 DEF OInv, NeverAgain
  <2> QED BY <1>1, <1>4, <2>1 DEF OInv, Held
<1> QED BY <1>6, <1>7 DEF OInv

LEMMA AnswerOnce ==
    ASSUME IInv, OInv, BatchPublished \/ BatchRejected
    PROVE  OInv'
<1> DEFINE m == Head(uplink)
<1>1. PICK f \in BOOLEAN :
      /\ uplink # <<>> /\ uplink' = Tail(uplink)
      /\ downlink' = Append(downlink, [batch |-> m.batch, accepted |-> f])
      /\ UNCHANGED <<rows, nextId, leftover, shed, stranded>>
      /\ \/ Publish
         \/ UNCHANGED <<stored, copies>>
      /\ stored \subseteq stored' /\ stored' \subseteq stored \cup m.ids
      /\ refused \subseteq refused' /\ refused' \subseteq refused \cup m.ids
  BY DEF BatchPublished, BatchRejected, Answer, Publish
<1>2. /\ m = uplink[1] /\ 1 \in 1 .. Len(uplink)
      /\ Len(uplink') = Len(uplink) - 1
      /\ \A k \in 1 .. Len(uplink') : uplink'[k] = uplink[k + 1] /\ k + 1 \in 1 .. Len(uplink)
                                      /\ k \in Nat /\ k + 1 # 1
  BY <1>1, HeadTailProperties DEF IInv, ChannelsOK
<1>3. m.ids \subseteq Ids /\ m.batch # 0 /\ m.batch \in Nat
  BY <1>2, MessageBatches DEF OInv, MessagesOK, IInv
<1>4. \A i \in m.ids : i \notin Pending(rows) /\ copies[i] = 0
  BY <1>2 DEF OInv, NeverAgain
<1>5. \A k \in 1 .. Len(uplink') : uplink'[k].ids \cap m.ids = {}
  BY <1>2 DEF OInv, Apart
<1>6. /\ copies' \in [1 .. MaxEvents -> Nat]
      /\ \A i \in 1 .. MaxEvents : copies'[i] = copies[i] \/ (i \in m.ids /\ copies'[i] = 1)
  <2>1. CASE Publish
    BY <1>4, <2>1 DEF Publish, OInv, HistoryOK
  <2>2. CASE UNCHANGED copies
    BY <2>2 DEF OInv, HistoryOK
  <2> QED BY <1>1, <2>1, <2>2
<1>7. /\ Len(downlink) \in Nat /\ Len(downlink') = Len(downlink) + 1
      /\ \A k \in 1 .. Len(downlink) : downlink'[k] = downlink[k]
      /\ downlink'[Len(downlink) + 1].batch = m.batch
  BY <1>1, <1>3, AppendProperties DEF IInv, ChannelsOK, DownMessage
<1> HIDE DEF m
<1>8. HistoryOK'
  BY <1>1, <1>3, <1>6 DEF OInv, HistoryOK, Ids
<1>9. MessagesOK'
  <2>1. \A k \in 1 .. Len(uplink') : uplink'[k].batch # 0 /\ uplink'[k].ids \subseteq Ids'
    BY <1>1, <1>2 DEF OInv, MessagesOK, Ids
  <2>2. \A k \in 1 .. Len(downlink') : downlink'[k].batch # 0
    BY <1>3, <1>7 DEF OInv, MessagesOK
  <2> QED BY <2>1, <2>2 DEF MessagesOK
<1>10. NeverAgain'
  <2>1. ASSUME NEW k \in 1 .. Len(uplink'), NEW i \in uplink'[k].ids
        PROVE  i \notin Pending(rows) /\ copies'[i] = 0
    <3>1. i \in Ids /\ i \notin Pending(rows) /\ copies[i] = 0 /\ i \notin m.ids
      BY <1>2, <1>5, <2>1 DEF OInv, NeverAgain, MessagesOK
    <3>2. i \in 1 .. MaxEvents
      BY <3>1, UploadAssumption DEF Ids, OInv, HistoryOK
    <3> QED BY <1>6, <3>1, <3>2
  <2> QED BY <1>1, <2>1 DEF NeverAgain
<1>11. Apart'
  <2>1. ASSUME NEW j \in 1 .. Len(uplink'), NEW k \in 1 .. Len(uplink'), j # k
        PROVE  uplink'[j].ids \cap uplink'[k].ids = {}
    <3>1. /\ uplink'[j] = uplink[j + 1] /\ j + 1 \in 1 .. Len(uplink)
          /\ uplink'[k] = uplink[k + 1] /\ k + 1 \in 1 .. Len(uplink)
      BY <1>2
    <3>2. j + 1 # k + 1
      BY <2>1
    <3> QED BY <3>1, <3>2 DEF OInv, Apart
  <2> QED BY <2>1 DEF Apart
<1>12. Once'
  BY <1>1, <1>3, <1>4, <1>6 DEF OInv, Once, Ids
<1>13. Held'
  BY <1>1, <1>2 DEF OInv, Held
<1> QED BY <1>8, <1>9, <1>10, <1>11, <1>12, <1>13 DEF OInv

LEMMA BatchAckedOnce == IInv /\ OInv /\ BatchAcked => OInv'
<1> SUFFICES ASSUME IInv, OInv, BatchAcked PROVE OInv'
  OBVIOUS
<1> DEFINE gone == BatchRows(rows, Head(downlink).batch)
<1>1. /\ downlink # <<>> /\ downlink' = Tail(downlink)
      /\ rows' = Delete(rows, gone)
      /\ UNCHANGED <<nextId, uplink, stored, copies, refused, leftover, shed, stranded>>
  BY DEF BatchAcked, AckBatch, history
<1>2. /\ Head(downlink) = downlink[1] /\ 1 \in 1 .. Len(downlink)
      /\ \A k \in 1 .. Len(downlink') : downlink'[k] = downlink[k + 1] /\ k + 1 \in 1 .. Len(downlink)
  BY <1>1, HeadTailProperties DEF IInv, ChannelsOK
<1>3. gone \subseteq stored \cup refused \cup leftover
  BY <1>2 DEF IInv, DownlinkRows
<1> HIDE DEF gone
<1>4. DOMAIN rows' = DOMAIN rows \ gone /\ Pending(rows') \subseteq Pending(rows)
  BY <1>1 DEF Delete, Restrict, Pending
<1>5. HistoryOK' /\ NeverAgain' /\ Apart' /\ Once'
  BY <1>1, <1>4 DEF OInv, HistoryOK, NeverAgain, Apart, Once, Ids
<1>6. MessagesOK'
  BY <1>1, <1>2 DEF OInv, MessagesOK, Ids
<1>7. Held'
  BY <1>1, <1>3, <1>4 DEF OInv, Held
<1> QED BY <1>5, <1>6, <1>7 DEF OInv

LEMMA NextOInv == IInv /\ OInv /\ [Next]_vars => OInv'
<1> SUFFICES ASSUME IInv, OInv, [Next]_vars PROVE OInv'
  OBVIOUS
<1>1. CASE UNCHANGED vars \/ UploadTickEmpty
  BY <1>1 DEF UploadTickEmpty, vars, faults, history, OInv, HistoryOK, MessagesOK, NeverAgain, Apart,
              Once, Held, Ids, Pending
<1>2. CASE \E r \in Prios : Enqueue(r)
  BY <1>2, EnqueueOnce
<1> QED BY <1>1, <1>2, LinkOnce, UploadTickOnce, UploadTickFailsOnce, AnswerOnce, BatchAckedOnce
        DEF Next

LEMMA Invariants == Spec => [](IInv /\ OInv)
BY InitIInv, InitOInv, NextIInv, NextOInv, PTL DEF Spec

LEMMA OnceIsOnce == IInv /\ OInv => AtMostOnce
<1> SUFFICES ASSUME IInv, OInv PROVE AtMostOnce
  OBVIOUS
<1>1. uplink \in Seq(Message)
  <2>1. \A k \in 1 .. Len(uplink) : uplink[k] \in Message
    BY MessageBatches DEF IInv, OInv, MessagesOK, UpMessage, Message
  <2>2. uplink = [k \in 1 .. Len(uplink) |-> uplink[k]] /\ Len(uplink) \in Nat
    BY DEF IInv, ChannelsOK
  <2> QED BY <2>1, <2>2
<1>2. downlink \in Seq(AckMessage)
  <2>1. \A k \in 1 .. Len(downlink) : downlink[k] \in AckMessage
    BY MessageBatches DEF IInv, OInv, MessagesOK, DownMessage, AckMessage
  <2>2. downlink = [k \in 1 .. Len(downlink) |-> downlink[k]] /\ Len(downlink) \in Nat
    BY DEF IInv, ChannelsOK
  <2> QED BY <2>1, <2>2
<1>3. \A i \in Ids : copies[i] <= 1
  BY UploadAssumption DEF OInv, Once, HistoryOK, Ids
<1> QED BY <1>1, <1>2, <1>3 DEF AtMostOnce, TypeOK, IInv, TableOK, ChannelsOK, OInv, HistoryOK

\* Whatever breaks, however batches and acks interleave and whatever the gateway
\* refuses, JetStream gets no event twice, and every variable keeps its type.
THEOREM NeverTwice == Spec => []AtMostOnce
BY Invariants, OnceIsOnce, PTL

-----------------------------------------------------------------------------
(* The refinement: what each step of the code is in the contract of a hop. *)

LEMMA InitHandsOver == Init => Contract!Init
BY DEF Init, Contract!Init, Ids, NoRows

LEMMA EnqueueAccepts ==
    ASSUME IInv, OInv, NEW r \in Prios, Enqueue(r)
    PROVE  Contract!Accept
<1>1. /\ nextId \in 1 .. MaxEvents /\ nextId' = nextId + 1
      /\ DOMAIN rows' = DOMAIN rows \cup {nextId}
      /\ UNCHANGED <<stored, refused, leftover, shed>>
  BY UploadAssumption DEF Enqueue, Insert, history, OInv, HistoryOK
<1>2. Ids' = Ids \cup {nextId} /\ nextId \notin Ids /\ Ids \subseteq 1 .. MaxEvents
  BY <1>1, UploadAssumption DEF Ids
<1> QED BY <1>1, <1>2 DEF Contract!Accept

LEMMA ConnectDelivers == IInv /\ Connect => Contract!Deliver
BY DEF Connect, InFlight, Ids, Contract!Deliver

LEMMA AnswerDelivers ==
    ASSUME IInv, OInv, BatchPublished \/ BatchRejected
    PROVE  Contract!Deliver
<1>1. /\ uplink # <<>>
      /\ UNCHANGED <<rows, nextId, leftover, shed>>
      /\ stored \subseteq stored' /\ stored' \subseteq stored \cup Head(uplink).ids
      /\ refused \subseteq refused' /\ refused' \subseteq refused \cup Head(uplink).ids
  BY DEF BatchPublished, BatchRejected, Answer, Publish
<1>2. Head(uplink) = uplink[1] /\ 1 \in 1 .. Len(uplink)
  BY <1>1, HeadTailProperties DEF IInv, ChannelsOK
<1>3. Head(uplink).ids \subseteq DOMAIN rows \cup stored \cup refused \cup leftover
  BY <1>2 DEF OInv, Held
<1> QED BY <1>1, <1>3 DEF Contract!Deliver, Ids

LEMMA AckForgets == IInv /\ BatchAcked => Contract!Forget
<1> SUFFICES ASSUME IInv, BatchAcked PROVE Contract!Forget
  OBVIOUS
<1> DEFINE gone == BatchRows(rows, Head(downlink).batch)
<1>1. /\ downlink # <<>> /\ rows' = Delete(rows, gone)
      /\ UNCHANGED <<nextId, stored, refused, leftover, shed>>
  BY DEF BatchAcked, AckBatch, history
<1>2. Head(downlink) = downlink[1] /\ 1 \in 1 .. Len(downlink)
  BY <1>1, HeadTailProperties DEF IInv, ChannelsOK
<1>3. gone \subseteq stored \cup refused \cup leftover
  BY <1>2 DEF IInv, DownlinkRows
<1> HIDE DEF gone
<1>4. DOMAIN rows' = DOMAIN rows \ gone
  BY <1>1 DEF Delete, Restrict
<1> QED BY <1>1, <1>3, <1>4 DEF Contract!Forget, Ids

LEMMA FailedTickSheds == UploadTickFails => Contract!Shed
<1> SUFFICES ASSUME UploadTickFails PROVE Contract!Shed
  OBVIOUS
<1>1. PICK e \in NextPending(rows, BatchMax) :
      /\ rows' = Delete(MarkInFlight(rows, NextPending(rows, BatchMax), seq + 1), {e})
      /\ shed' = shed \cup {e}
      /\ UNCHANGED <<nextId, stored, refused, leftover>>
  BY DEF UploadTickFails
<1>2. e \in DOMAIN rows
  BY DEF NextPending, Pending
<1>3. DOMAIN rows' = DOMAIN rows \ {e}
  BY <1>1 DEF Delete, Restrict, MarkInFlight
<1> QED BY <1>1, <1>2, <1>3 DEF Contract!Shed, Ids

LEMMA NextHandsOver == IInv /\ OInv /\ [Next]_vars => [Contract!Next]_(Contract!vars)
<1> SUFFICES ASSUME IInv, OInv, [Next]_vars PROVE [Contract!Next]_(Contract!vars)
  OBVIOUS
<1>1. CASE UNCHANGED vars \/ UploadTickEmpty \/ Break
  BY <1>1 DEF UploadTickEmpty, Break, vars, faults, history, Ids, Contract!vars
<1>2. CASE UploadTick
  <2>1. DOMAIN rows' = DOMAIN rows /\ UNCHANGED <<nextId, stored, refused, leftover, shed>>
    BY <1>2 DEF UploadTick, MarkInFlight, history
  <2> QED BY <2>1 DEF Ids, Contract!vars
<1>3. CASE \E r \in Prios : Enqueue(r)
  BY <1>3, EnqueueAccepts DEF Contract!Next
<1>4. CASE Connect \/ BatchPublished \/ BatchRejected
  BY <1>4, ConnectDelivers, AnswerDelivers DEF Contract!Next
<1>5. CASE BatchAcked \/ UploadTickFails
  BY <1>5, AckForgets, FailedTickSheds DEF Contract!Next
<1> QED BY <1>1, <1>2, <1>3, <1>4, <1>5 DEF Next

\* The agent's upload is a hop of the pipeline: it forgets an event only when
\* JetStream has it, the gateway refused it, a later stream found it in flight or
\* the queue gave it up, in this order, whatever breaks.
THEOREM UploadHandsOver == Spec => HandsOver
<1>1. Init => Contract!Init
  BY InitHandsOver
<1>2. IInv /\ OInv /\ [Next]_vars => [Contract!Next]_(Contract!vars)
  BY NextHandsOver
<1> QED BY <1>1, <1>2, Invariants, PTL DEF Spec, HandsOver, Contract!Spec

-----------------------------------------------------------------------------
(* The recorder.  The index a session has reached counts what this life of   *)
(* the process has put: a chunk below it is stored, being put or failed.     *)

Session == [state : {"none", "waiting", "recording", "error"}, next : 0..(MaxChunk + 1)]
Request == [pc : {"idle", "bootstrap", "accept", "put"}, of : Sessions \cup Rec!None, idx : Rec!Index]

Kept ==
    /\ life \in 1..MaxLives
    /\ sess \in [Sessions -> Session] /\ up \in [Uploads -> Request]
    /\ chunk \in [Sessions -> [Rec!Index -> 0..MaxLives]] /\ acked \in [Sessions -> [Rec!Index -> 0..MaxLives]]

Putting(r, s, i) == r.pc = "put" /\ r.of = s /\ r.idx = i

\* A request that puts has an index the session has passed, and nobody else has it or
\* had it in this life.
Requests == \A w \in Uploads : up[w].pc # "idle" =>
    /\ up[w].of \in Sessions
    /\ up[w].pc = "put" => /\ up[w].idx < sess[up[w].of].next /\ chunk[up[w].of][up[w].idx] # life
                           /\ \A v \in Uploads \ {w} : ~Putting(up[v], up[w].of, up[w].idx)

\* The session's next index bounds what this life has put and answered, and below it
\* nothing is missing but what is being put, or what failed.
Lived(s) ==
    /\ sess[s].state = "none" => sess[s].next = 0
    /\ \A i \in Rec!Index : /\ chunk[s][i] <= life /\ (chunk[s][i] = life => i < sess[s].next)
                        /\ acked[s][i] <= life /\ (acked[s][i] = life => i < sess[s].next)
Complete(s) == \A j \in Rec!Index : j < sess[s].next =>
    chunk[s][j] = life \/ sess[s].state = "error" \/ \E w \in Uploads : Putting(up[w], s, j)
Sent == \A s \in Sessions : Lived(s) /\ Complete(s)

Reading ==
    /\ reader = [r \in Readers |-> reader[r]]
    /\ \A r \in Readers :
        /\ reader[r] \in [pc : {"idle", "unwrap", "list", "get", "end"}, op : {"none", "play", "export"},
                          of : Sessions \cup Rec!None, keys : {reader[r].keys}, out : Seq(Rec!Index)]
        /\ reader[r].op = "export" => \A i \in 1..Len(reader[r].out) : reader[r].out[i] = i - 1

Chunks == Kept /\ Requests /\ Sent
RInv == Chunks /\ Reading

\* The invariant says more than the properties do.
LEMMA RecordingFollows == RInv => RecordingTrue
<1> SUFFICES ASSUME RInv PROVE RecordingTrue
  OBVIOUS
<1>1. Rec!TypeOK
  BY DEF RInv, Chunks, Kept, Reading, Rec!TypeOK, Session, Request
<1>2. Rec!OneWriter
  BY DEF RInv, Chunks, Kept, Requests, Rec!OneWriter, Putting
<1>3. Rec!GapsMarked
  <2> SUFFICES ASSUME NEW s \in Sessions, NEW i \in Rec!Index, acked[s][i] = life, NEW j \in 0..i
               PROVE  \/ chunk[s][j] = life
                      \/ sess[s].state = "error"
                      \/ \E w \in Uploads : up[w].pc = "put" /\ up[w].of = s /\ up[w].idx = j
    BY DEF Rec!GapsMarked
  <2>1. i < sess[s].next /\ sess[s].next \in Nat
    BY DEF RInv, Chunks, Kept, Session, Sent, Lived
  <2>2. j \in Rec!Index /\ j < sess[s].next
    BY <2>1, RecordingAssumption DEF Rec!Index
  <2> QED
    BY <2>2 DEF RInv, Chunks, Sent, Complete, Putting
<1>4. Rec!ExportWhole
  <2>1. \A r \in Readers : reader[r].out \in Seq(Rec!Index)
    BY DEF RInv, Reading
  <2>2. \A r \in Readers : DOMAIN reader[r].out = 1..Len(reader[r].out)
    BY <2>1, LenProperties
  <2> QED
    BY <2>2 DEF RInv, Reading, Rec!ExportWhole
<1> QED
  BY <1>1, <1>2, <1>3, <1>4 DEF RecordingTrue, Rec!RecordingTrue, Rec!ChunksTrue

LEMMA RecordingBegins == Rec!Init => RInv
<1> SUFFICES ASSUME Rec!Init PROVE RInv
  OBVIOUS
<1>1. Kept
  BY RecordingAssumption DEF Rec!Init, Kept, Session, Request, Rec!NoSession, Rec!NoUpload,
         Rec!Index, Rec!None
<1>2. Requests
  BY DEF Rec!Init, Requests, Rec!NoUpload
<1>3. Sent
  BY RecordingAssumption DEF Rec!Init, Sent, Lived, Complete, Rec!NoSession, Rec!Index
<1>4. Reading
  <2>1. <<>> \in Seq(Rec!Index) /\ Len(<<>>) = 0
    BY EmptySeq
  <2> QED
    BY <2>1 DEF Rec!Init, Reading, Rec!NoReader, Rec!None
<1> QED
  BY <1>1, <1>2, <1>3, <1>4 DEF RInv, Chunks

\* A request's step leaves the readers alone.
LEMMA RequestStep ==
    ASSUME RInv, UNCHANGED reader, Chunks'
    PROVE  RInv'
<1>1. Reading'
  BY DEF RInv, Reading
<1> QED
  BY <1>1 DEF RInv

LEMMA ServeStep ==
    ASSUME RInv, NEW w \in Uploads, NEW s \in Sessions, NEW i \in Rec!Index, Rec!ServeHTTP(w, s, i)
    PROVE  RInv'
<1>1. PICK p \in {"bootstrap", "accept"} : up' = [up EXCEPT ![w] = [pc |-> p, of |-> s, idx |-> i]]
  BY DEF Rec!ServeHTTP
<1>2. up[w].pc = "idle" /\ UNCHANGED <<life, sess, chunk, acked, reader>>
  BY DEF Rec!ServeHTTP
<1>3. Kept'
  BY <1>1, <1>2 DEF RInv, Chunks, Kept, Request
<1>4. \A v \in Uploads, x \in Sessions, j \in Rec!Index : Putting(up'[v], x, j) <=> Putting(up[v], x, j)
  BY <1>1, <1>2 DEF RInv, Chunks, Kept, Request, Putting
<1>5. Requests' /\ Sent'
  BY <1>1, <1>2, <1>4 DEF RInv, Chunks, Kept, Request, Requests, Sent, Lived, Complete
<1> QED
  BY <1>2, <1>3, <1>5, RequestStep DEF Chunks

\* A request ends or goes on without having put anything.
LEMMA NoPut ==
    ASSUME RInv, NEW w \in Uploads, up[w].pc \in {"bootstrap", "accept"},
           UNCHANGED <<life, chunk, acked, reader>>,
           up' = [up EXCEPT ![w] = Rec!NoUpload] \/ up' = [up EXCEPT ![w].pc = "accept"],
           sess' = sess \/ \E s \in Sessions : sess[s].state = "none" /\ sess' = [sess EXCEPT ![s] = Rec!NewSession]
    PROVE  RInv'
<1>1. up \in [Uploads -> Request] /\ sess \in [Sessions -> Session] /\ up[w] \in Request
  BY DEF RInv, Chunks, Kept
<1>2. /\ up' \in [Uploads -> Request] /\ \A v \in Uploads \ {w} : up'[v] = up[v]
      /\ up'[w].pc \in {"idle", "accept"} /\ (up'[w].pc = "accept" => up'[w].of = up[w].of)
  <2>1. CASE up' = [up EXCEPT ![w] = Rec!NoUpload]
    <3>1. Rec!NoUpload \in Request /\ Rec!NoUpload.pc = "idle"
      BY RecordingAssumption DEF Rec!NoUpload, Request, Rec!Index, Rec!None
    <3> QED
      BY <1>1, <2>1, <3>1
  <2>2. CASE up' = [up EXCEPT ![w].pc = "accept"]
    BY <1>1, <2>2 DEF Request
  <2> QED
    BY <2>1, <2>2
<1>3. /\ sess' \in [Sessions -> Session]
      /\ \A s \in Sessions : /\ sess'[s].next = sess[s].next /\ (sess[s].state = "error" => sess'[s].state = "error")
                             /\ (sess'[s].state = "none" => sess[s].state = "none")
  <2>1. CASE sess' = sess
    BY <1>1, <2>1
  <2>2. ASSUME NEW s \in Sessions, sess[s].state = "none", sess' = [sess EXCEPT ![s] = Rec!NewSession]
        PROVE  <1>3!1 /\ <1>3!2
    <3>1. Rec!NewSession \in Session /\ Rec!NewSession.next = 0 /\ Rec!NewSession.state = "waiting"
      BY RecordingAssumption DEF Rec!NewSession, Session
    <3>2. sess[s].next = 0
      BY <2>2 DEF RInv, Chunks, Sent, Lived
    <3> QED
      BY <1>1, <2>2, <3>1, <3>2
  <2> QED
    BY <2>1, <2>2
<1>4. Kept'
  BY <1>2, <1>3 DEF RInv, Chunks, Kept
<1>5. \A v \in Uploads : \A s, i : Putting(up'[v], s, i) <=> Putting(up[v], s, i)
  BY <1>2 DEF Putting
<1>6. Requests'
  <2> SUFFICES ASSUME NEW v \in Uploads, up'[v].pc # "idle"
               PROVE  /\ up'[v].of \in Sessions
                      /\ up'[v].pc = "put" => /\ up'[v].idx < sess'[up'[v].of].next /\ chunk[up'[v].of][up'[v].idx] # life
                                              /\ \A u \in Uploads \ {v} : ~Putting(up'[u], up'[v].of, up'[v].idx)
    BY DEF Requests
  <2>1. CASE v = w
    BY <1>2, <2>1 DEF RInv, Chunks, Requests
  <2>2. CASE v # w
    BY <1>2, <1>3, <1>5, <2>2 DEF RInv, Chunks, Requests
  <2> QED
    BY <2>1, <2>2
<1>7. Sent'
  BY <1>3, <1>5 DEF RInv, Chunks, Sent, Lived, Complete
<1> QED
  BY <1>4, <1>6, <1>7, RequestStep DEF Chunks

LEMMA AcceptStep ==
    ASSUME RInv, NEW w \in Uploads, Rec!AcceptChunk(w), NEW s, s = up[w].of, NEW i, i = up[w].idx
    PROVE  RInv'
<1>1. /\ up[w].pc = "accept" /\ UNCHANGED <<life, chunk, acked, reader>>
      /\ s \in Sessions /\ i \in Rec!Index
      /\ up \in [Uploads -> Request] /\ sess \in [Sessions -> Session] /\ sess[s] \in Session
  BY DEF Rec!AcceptChunk, RInv, Chunks, Kept, Request, Requests
<1>2. CASE ~(sess[s].state # "error" /\ i = sess[s].next)
  <2>1. sess' = sess /\ up' = [up EXCEPT ![w] = Rec!NoUpload]
    BY <1>2 DEF Rec!AcceptChunk
  <2> QED
    BY <1>1, <2>1, NoPut
<1>3. CASE sess[s].state # "error" /\ i = sess[s].next
  <2>1. sess' = [sess EXCEPT ![s] = [state |-> "recording", next |-> i + 1]] /\ up' = [up EXCEPT ![w].pc = "put"]
    BY <1>1, <1>3 DEF Rec!AcceptChunk
  <2>2. /\ up'[w].pc = "put" /\ up'[w].of = s /\ up'[w].idx = i /\ up'[w] \in Request
        /\ \A v \in Uploads \ {w} : up'[v] = up[v]
        /\ up' \in [Uploads -> Request]
    BY <1>1, <2>1 DEF Request
  <2>3. /\ sess'[s].next = i + 1 /\ sess'[s].state = "recording"
        /\ \A x \in Sessions \ {s} : sess'[x] = sess[x]
        /\ sess' \in [Sessions -> Session] /\ i \in Nat
    BY <1>1, <2>1, RecordingAssumption DEF Session, Rec!Index
  <2>4. Kept'
    BY <1>1, <2>2, <2>3 DEF RInv, Chunks, Kept
  <2>5. chunk[s][i] # life /\ \A v \in Uploads \ {w} : ~Putting(up[v], s, i)
    BY <1>1, <1>3, <2>3 DEF RInv, Chunks, Requests, Sent, Lived, Putting
  <2>6. /\ \A v \in Uploads \ {w} : \A x, j : Putting(up'[v], x, j) <=> Putting(up[v], x, j)
        /\ \A x, j : Putting(up'[w], x, j) <=> (x = s /\ j = i)
    BY <2>2 DEF Putting
  <2>7. Requests'
    <3> SUFFICES ASSUME NEW v \in Uploads, up'[v].pc # "idle"
                 PROVE  /\ up'[v].of \in Sessions
                        /\ up'[v].pc = "put" => /\ up'[v].idx < sess'[up'[v].of].next /\ chunk[up'[v].of][up'[v].idx] # life
                                                /\ \A u \in Uploads \ {v} : ~Putting(up'[u], up'[v].of, up'[v].idx)
      BY <1>1 DEF Requests
    <3>1. CASE v = w
      BY <1>1, <2>2, <2>3, <2>5, <2>6, <3>1
    <3>2. CASE v # w
      <4>1. up'[v] = up[v] /\ up[v].of \in Sessions /\ up[v] \in Request
        BY <1>1, <2>2, <3>2 DEF RInv, Chunks, Requests
      <4>2. ASSUME up[v].pc = "put"
            PROVE  /\ up[v].idx < sess'[up[v].of].next /\ chunk[up[v].of][up[v].idx] # life
                   /\ \A u \in Uploads \ {v} : ~Putting(up'[u], up[v].of, up[v].idx)
        <5>1. /\ up[v].idx < sess[up[v].of].next /\ chunk[up[v].of][up[v].idx] # life
              /\ \A u \in Uploads \ {v} : ~Putting(up[u], up[v].of, up[v].idx)
          BY <4>2 DEF RInv, Chunks, Requests
        <5>2. ~(up[v].of = s /\ up[v].idx = i)
          BY <2>5, <3>2, <4>2 DEF Putting
        <5>3. up[v].idx \in Nat /\ up[v].idx < sess'[up[v].of].next
          <6>1. up[v].idx \in Nat
            BY <4>1, RecordingAssumption DEF Request, Rec!Index
          <6>2. CASE up[v].of = s
            BY <1>3, <2>3, <5>1, <6>1, <6>2
          <6>3. CASE up[v].of # s
            BY <2>3, <4>1, <5>1, <6>1, <6>3
          <6> QED
            BY <6>1, <6>2, <6>3
        <5> QED
          BY <2>6, <5>1, <5>2, <5>3
      <4> QED
        BY <4>1, <4>2
    <3> QED
      BY <3>1, <3>2
  <2>8. Sent'
    <3> SUFFICES ASSUME NEW x \in Sessions PROVE Lived(x)' /\ Complete(x)'
      BY DEF Sent
    <3>1. Lived(x) /\ Complete(x) /\ chunk[x] \in [Rec!Index -> 0..MaxLives] /\ acked[x] \in [Rec!Index -> 0..MaxLives] /\ life \in Nat
      BY DEF RInv, Chunks, Sent, Kept
    <3>2. CASE x # s
      <4>1. sess'[x] = sess[x] /\ chunk' = chunk /\ acked' = acked /\ life' = life
        BY <1>1, <2>3, <3>2
      <4>2. \A v \in Uploads : \A j : Putting(up[v], x, j) => Putting(up'[v], x, j)
        BY <2>6, <3>2 DEF Putting, Rec!AcceptChunk
      <4>3. Lived(x)'
        BY <3>1, <4>1 DEF Lived
      <4>4. Complete(x)'
        BY <3>1, <4>1, <4>2 DEF Complete
      <4> QED
        BY <4>3, <4>4
    <3>3. CASE x = s
      <4>1. \A j \in Rec!Index : j \in Nat
        BY RecordingAssumption DEF Rec!Index
      <4>2. Lived(x)'
        <5>1. \A j \in Rec!Index : j < sess[x].next => j < sess'[x].next
          BY <1>3, <2>3, <3>3, <4>1
        <5>2. sess'[x].state # "none" /\ chunk' = chunk /\ acked' = acked /\ life' = life
          BY <1>1, <2>3, <3>3
        <5> QED
          BY <3>1, <5>1, <5>2 DEF Lived
      <4>3. ASSUME NEW j \in Rec!Index, j < i + 1
            PROVE  chunk[s][j] = life \/ \E v \in Uploads : Putting(up'[v], s, j)
        <5>1. CASE j = i
          BY <2>6, <5>1
        <5>2. CASE j # i
          <6>1. j < sess[s].next
            BY <1>3, <2>3, <4>1, <4>3, <5>2
          <6>2. chunk[s][j] = life \/ \E v \in Uploads : Putting(up[v], s, j)
            BY <1>1, <1>3, <3>1, <3>3, <6>1 DEF Complete
          <6>3. ~Putting(up[w], s, j)
            BY <1>1 DEF Putting
          <6> QED
            BY <2>6, <6>2, <6>3
        <5> QED
          BY <5>1, <5>2
      <4> QED
        BY <1>1, <2>3, <3>3, <4>2, <4>3 DEF Complete
    <3> QED
      BY <3>2, <3>3
  <2> QED
    BY <1>1, <2>4, <2>7, <2>8, RequestStep DEF Chunks
<1> QED
  BY <1>2, <1>3

\* One chunk's life is set.
LEMMA SetOne ==
    ASSUME NEW f \in [Sessions -> [Rec!Index -> 0..MaxLives]], NEW s \in Sessions, NEW i \in Rec!Index, NEW n \in 0..MaxLives,
           NEW g, g = [f EXCEPT ![s][i] = n]
    PROVE  /\ g \in [Sessions -> [Rec!Index -> 0..MaxLives]] /\ g[s][i] = n
           /\ \A j \in Rec!Index \ {i} : g[s][j] = f[s][j]
           /\ \A x \in Sessions \ {s} : g[x] = f[x]
<1> DEFINE h == [f[s] EXCEPT ![i] = n]
<1>1. h \in [Rec!Index -> 0..MaxLives] /\ h[i] = n /\ \A j \in Rec!Index \ {i} : h[j] = f[s][j]
  OBVIOUS
<1>2. g = [f EXCEPT ![s] = h]
  OBVIOUS
<1> HIDE DEF h
<1> QED
  BY <1>1, <1>2

\* A put ends: it reached MinIO or the session says that it may not have.
LEMMA PutEnds ==
    ASSUME RInv, NEW w \in Uploads, Rec!PutChunk(w) \/ Rec!Fail(w), NEW s, s = up[w].of, NEW i, i = up[w].idx
    PROVE  RInv'
<1>1. /\ up[w].pc = "put" /\ UNCHANGED <<life, reader>> /\ up' = [up EXCEPT ![w] = Rec!NoUpload]
      /\ s \in Sessions /\ i \in Rec!Index /\ i < sess[s].next
      /\ up \in [Uploads -> Request] /\ sess \in [Sessions -> Session] /\ sess[s] \in Session
      /\ \A v \in Uploads \ {w} : ~Putting(up[v], s, i)
  BY DEF Rec!PutChunk, Rec!Fail, RInv, Chunks, Kept, Request, Requests
<1>2. /\ chunk \in [Sessions -> [Rec!Index -> 0..MaxLives]] /\ acked \in [Sessions -> [Rec!Index -> 0..MaxLives]]
      /\ life \in 0..MaxLives /\ life \in Nat
  BY RecordingAssumption DEF RInv, Chunks, Kept
<1>3. Rec!NoUpload \in Request /\ Rec!NoUpload.pc = "idle"
  BY RecordingAssumption DEF Rec!NoUpload, Request, Rec!Index, Rec!None
<1>4. /\ up' \in [Uploads -> Request] /\ \A v \in Uploads \ {w} : up'[v] = up[v]
      /\ up'[w].pc = "idle"
  BY <1>1, <1>3
<1>5. /\ \/ chunk' = [chunk EXCEPT ![s][i] = life] /\ acked' = [acked EXCEPT ![s][i] = life] /\ sess' = sess
         \/ /\ chunk' = chunk \/ chunk' = [chunk EXCEPT ![s][i] = life]
            /\ acked' = acked /\ sess' = [sess EXCEPT ![s].state = "error"]
  BY DEF Rec!PutChunk, Rec!Fail, Rec!Put
<1>6. /\ chunk' \in [Sessions -> [Rec!Index -> 0..MaxLives]]
      /\ \A x \in Sessions, j \in Rec!Index : chunk'[x][j] = chunk[x][j] \/ (x = s /\ j = i /\ chunk'[x][j] = life)
      /\ \A x \in Sessions \ {s} : chunk'[x] = chunk[x]
  <2>1. CASE chunk' = chunk
    BY <1>2, <2>1
  <2>2. CASE chunk' = [chunk EXCEPT ![s][i] = life]
    <3>1. /\ chunk' \in [Sessions -> [Rec!Index -> 0..MaxLives]] /\ chunk'[s][i] = life
          /\ \A j \in Rec!Index \ {i} : chunk'[s][j] = chunk[s][j]
          /\ \A x \in Sessions \ {s} : chunk'[x] = chunk[x]
      BY <1>1, <1>2, <2>2, SetOne
    <3> QED
      BY <3>1
  <2> QED
    BY <1>5, <2>1, <2>2
<1>7. /\ acked' \in [Sessions -> [Rec!Index -> 0..MaxLives]]
      /\ \A x \in Sessions, j \in Rec!Index : acked'[x][j] = acked[x][j] \/ (x = s /\ j = i /\ acked'[x][j] = life)
  <2>1. CASE acked' = acked
    BY <1>2, <2>1
  <2>2. CASE acked' = [acked EXCEPT ![s][i] = life]
    <3>1. /\ acked' \in [Sessions -> [Rec!Index -> 0..MaxLives]] /\ acked'[s][i] = life
          /\ \A j \in Rec!Index \ {i} : acked'[s][j] = acked[s][j]
          /\ \A x \in Sessions \ {s} : acked'[x] = acked[x]
      BY <1>1, <1>2, <2>2, SetOne
    <3> QED
      BY <3>1
  <2> QED
    BY <1>5, <2>1, <2>2
<1>8. /\ sess' \in [Sessions -> Session]
      /\ \A x \in Sessions : /\ sess'[x].next = sess[x].next /\ (sess[x].state = "error" => sess'[x].state = "error")
                             /\ (sess'[x].state = "none" => sess[x].state = "none")
  <2>1. CASE sess' = sess
    BY <1>1, <2>1
  <2>2. CASE sess' = [sess EXCEPT ![s].state = "error"]
    BY <1>1, <2>2 DEF Session
  <2> QED
    BY <1>5, <2>1, <2>2
<1>9. chunk'[s][i] = life \/ sess'[s].state = "error"
  BY <1>1, <1>2, <1>5 DEF Session
<1>10. Kept'
  BY <1>1, <1>4, <1>6, <1>7, <1>8 DEF RInv, Chunks, Kept
<1>11. /\ \A v \in Uploads \ {w} : \A x, j : Putting(up'[v], x, j) <=> Putting(up[v], x, j)
       /\ \A x, j : ~Putting(up'[w], x, j)
  BY <1>4 DEF Putting
<1>12. Requests'
  <2> SUFFICES ASSUME NEW v \in Uploads, up'[v].pc # "idle"
               PROVE  /\ up'[v].of \in Sessions
                      /\ up'[v].pc = "put" => /\ up'[v].idx < sess'[up'[v].of].next /\ chunk'[up'[v].of][up'[v].idx] # life
                                              /\ \A u \in Uploads \ {v} : ~Putting(up'[u], up'[v].of, up'[v].idx)
    BY <1>1 DEF Requests
  <2>1. v # w /\ up'[v] = up[v] /\ up[v].idx \in Rec!Index
    BY <1>1, <1>4 DEF Request
  <2>2. /\ up[v].of \in Sessions
        /\ up[v].pc = "put" => /\ up[v].idx < sess[up[v].of].next /\ chunk[up[v].of][up[v].idx] # life
                               /\ \A u \in Uploads \ {v} : ~Putting(up[u], up[v].of, up[v].idx)
    BY <2>1 DEF RInv, Chunks, Requests
  <2>3. up[v].pc = "put" => ~(up[v].of = s /\ up[v].idx = i)
    BY <1>1, <2>1 DEF Putting
  <2>4. up[v].pc = "put" => chunk'[up[v].of][up[v].idx] = chunk[up[v].of][up[v].idx]
    BY <1>6, <2>1, <2>2, <2>3
  <2>5. up[v].pc = "put" => \A u \in Uploads \ {v} : ~Putting(up'[u], up[v].of, up[v].idx)
    BY <1>11, <2>2
  <2> QED
    BY <1>8, <2>1, <2>2, <2>4, <2>5
<1>13. Sent'
  <2> SUFFICES ASSUME NEW x \in Sessions PROVE Lived(x)' /\ Complete(x)'
    BY DEF Sent
  <2>1. Lived(x) /\ Complete(x) /\ \A j \in Rec!Index : j \in Nat
    BY RecordingAssumption DEF RInv, Chunks, Sent, Rec!Index
  <2>2. Lived(x)'
    <3>1. \A j \in Rec!Index : (chunk'[x][j] = chunk[x][j] \/ (x = s /\ j = i /\ chunk'[x][j] = life))
                          /\ (acked'[x][j] = acked[x][j] \/ (x = s /\ j = i /\ acked'[x][j] = life))
      BY <1>6, <1>7
    <3>2. life' = life /\ life <= life
      BY <1>1, <1>2
    <3> QED
      BY <1>1, <1>8, <2>1, <3>1, <3>2 DEF Lived
  <2>3. Complete(x)'
    <3> SUFFICES ASSUME NEW j \in Rec!Index, j < sess[x].next
                 PROVE  chunk'[x][j] = life \/ sess'[x].state = "error" \/ \E v \in Uploads : Putting(up'[v], x, j)
      BY <1>1, <1>8 DEF Complete
    <3>1. chunk[x][j] = life \/ sess[x].state = "error" \/ \E v \in Uploads : Putting(up[v], x, j)
      BY <2>1 DEF Complete
    <3>2. CASE Putting(up[w], x, j)
      BY <1>9, <3>2 DEF Putting
    <3>3. CASE ~Putting(up[w], x, j)
      <4>1. chunk[x][j] = life => chunk'[x][j] = life
        BY <1>6
      <4>2. sess[x].state = "error" => sess'[x].state = "error"
        BY <1>8
      <4>3. \A v \in Uploads : Putting(up[v], x, j) => Putting(up'[v], x, j)
        BY <1>11, <3>3
      <4> QED
        BY <3>1, <4>1, <4>2, <4>3
    <3> QED
      BY <3>2, <3>3
  <2> QED
    BY <2>2, <2>3
<1> QED
  BY <1>1, <1>6, <1>10, <1>12, <1>13, RequestStep DEF Chunks

\* A reader goes on by itself.
LEMMA ReaderStep ==
    ASSUME RInv, UNCHANGED <<life, sess, up, chunk, acked>>, Reading'
    PROVE  RInv'
<1>1. Kept'
  BY DEF RInv, Chunks, Kept
<1>2. Requests' /\ Sent'
  BY DEF RInv, Chunks, Requests, Sent, Lived, Complete
<1> QED
  BY <1>1, <1>2 DEF RInv, Chunks

\* Sealed with its index, a chunk opens at its own place only.
LEMMA ReadStep ==
    ASSUME RInv, NEW r \in Readers,
           \/ \E s \in Sessions : Rec!CheckPlaybackApproval(r, s) \/ Rec!GetRecordingForExport(r, s)
           \/ Rec!Unwrap(r) \/ Rec!ListChunks(r) \/ Rec!GetChunk(r) \/ Rec!Finish(r) \/ Rec!ReadFails(r)
    PROVE  RInv'
<1> DEFINE Shape(x, k) == [pc : {"idle", "unwrap", "list", "get", "end"}, op : {"none", "play", "export"},
                           of : Sessions \cup Rec!None, keys : {k}, out : Seq(Rec!Index)]
           InPlace(x) == x.op = "export" => \A i \in 1..Len(x.out) : x.out[i] = i - 1
<1>1. UNCHANGED <<life, sess, up, chunk, acked>>
  BY DEF Rec!CheckPlaybackApproval, Rec!GetRecordingForExport, Rec!Unwrap, Rec!ListChunks, Rec!GetChunk,
         Rec!Finish, Rec!ReadFails
<1>2. reader = [q \in Readers |-> reader[q]] /\ \A q \in Readers : reader[q] \in Shape(q, reader[q].keys) /\ InPlace(reader[q])
  BY DEF RInv, Reading
<1>3. <<>> \in Seq(Rec!Index) /\ Len(<<>>) = 0
  BY EmptySeq
<1>4. ASSUME NEW x, reader' = [reader EXCEPT ![r] = x], x \in Shape(r, x.keys), InPlace(x) PROVE RInv'
  <2>1. reader' = [q \in Readers |-> reader'[q]] /\ reader'[r] = x /\ \A q \in Readers \ {r} : reader'[q] = reader[q]
    BY <1>2, <1>4
  <2>2. Reading'
    BY <1>2, <1>4, <2>1 DEF Reading
  <2> QED
    BY <1>1, <2>2, ReaderStep
<1>5. ASSUME NEW s \in Sessions, Rec!CheckPlaybackApproval(r, s) \/ Rec!GetRecordingForExport(r, s) PROVE RInv'
  <2>1. PICK o \in {"play", "export"} :
           reader' = [reader EXCEPT ![r] = [pc |-> "unwrap", op |-> o, of |-> s, keys |-> <<>>, out |-> <<>>]]
    BY <1>5 DEF Rec!CheckPlaybackApproval, Rec!GetRecordingForExport, Rec!NoReader
  <2> DEFINE x == [pc |-> "unwrap", op |-> o, of |-> s, keys |-> <<>>, out |-> <<>>]
  <2>2. x \in Shape(r, x.keys) /\ InPlace(x)
    BY <1>3
  <2> QED
    BY <1>4, <2>1, <2>2
<1>6. CASE Rec!ReadFails(r)
  <2>1. Rec!NoReader \in Shape(r, Rec!NoReader.keys) /\ InPlace(Rec!NoReader)
    BY <1>3 DEF Rec!NoReader, Rec!None
  <2> QED
    BY <1>4, <1>6, <2>1 DEF Rec!ReadFails
<1>7. CASE Rec!Unwrap(r) \/ Rec!Finish(r)
  <2>1. PICK p \in {"list", "end"} : reader' = [reader EXCEPT ![r] = [reader[r] EXCEPT !.pc = p]]
    BY <1>7 DEF Rec!Unwrap, Rec!Finish
  <2> DEFINE x == [reader[r] EXCEPT !.pc = p]
  <2>2. x \in Shape(r, x.keys) /\ InPlace(x)
    BY <1>2
  <2> QED
    BY <1>4, <2>1, <2>2
<1>8. CASE Rec!ListChunks(r)
  <2>1. PICK k : reader' = [reader EXCEPT ![r] = [reader[r] EXCEPT !.pc = "get", !.keys = k]]
    BY <1>2, <1>8 DEF Rec!ListChunks
  <2> DEFINE x == [reader[r] EXCEPT !.pc = "get", !.keys = k]
  <2>2. x \in Shape(r, x.keys) /\ InPlace(x)
    BY <1>2
  <2> QED
    BY <1>4, <2>1, <2>2
<1>9. CASE Rec!GetChunk(r)
  <2>1. PICK k, h : /\ h \in Rec!Index /\ (reader[r].op = "export" => h = Len(reader[r].out))
                    /\ reader' = [reader EXCEPT ![r] = [reader[r] EXCEPT !.keys = k, !.out = Append(reader[r].out, h)]]
    BY <1>2, <1>9 DEF Rec!GetChunk, Rec!DecryptChunk, Rec!Stored
  <2> DEFINE o == Append(reader[r].out, h)
             x == [reader[r] EXCEPT !.keys = k, !.out = o]
  <2>2. reader[r].out \in Seq(Rec!Index) /\ Len(reader[r].out) \in Nat
    BY <1>2, LenProperties
  <2>3. /\ o \in Seq(Rec!Index) /\ Len(o) = Len(reader[r].out) + 1 /\ o[Len(reader[r].out) + 1] = h
        /\ \A i \in 1..Len(reader[r].out) : o[i] = reader[r].out[i]
    BY <2>1, <2>2, AppendProperties
  <2>4. reader[r].op = "export" => \A i \in 1..Len(o) : o[i] = i - 1
    BY <1>2, <2>1, <2>2, <2>3
  <2> HIDE DEF o
  <2>5. x \in Shape(r, x.keys) /\ x.op = reader[r].op /\ x.out = o
    BY <1>2, <2>3
  <2>6. InPlace(x)
    BY <2>4, <2>5
  <2>7. reader' = [reader EXCEPT ![r] = x]
    BY <2>1 DEF o
  <2> QED
    BY <1>4, <2>5, <2>6, <2>7
<1> QED
  BY <1>5, <1>6, <1>7, <1>8, <1>9


\* A restart begins a life of its own: what was put is of an earlier one.
LEMMA RestartStep ==
    ASSUME RInv, Rec!Restart
    PROVE  RInv'
<1>1. PICK landed \in SUBSET {w \in Uploads : up[w].pc = "put"} :
       chunk' = [s \in Sessions |-> [i \in Rec!Index |->
                   IF \E w \in landed : up[w].of = s /\ up[w].idx = i THEN life ELSE chunk[s][i]]]
  BY DEF Rec!Restart
<1>2. /\ life < MaxLives /\ life' = life + 1 /\ UNCHANGED acked /\ life \in 1..MaxLives
      /\ sess' = [s \in Sessions |-> Rec!NoSession] /\ up' = [w \in Uploads |-> Rec!NoUpload]
      /\ reader' = [r \in Readers |-> Rec!NoReader]
      /\ chunk \in [Sessions -> [Rec!Index -> 0..MaxLives]] /\ acked \in [Sessions -> [Rec!Index -> 0..MaxLives]]
  BY DEF Rec!Restart, RInv, Chunks, Kept
<1>3. /\ chunk' \in [Sessions -> [Rec!Index -> 0..MaxLives]]
      /\ \A s \in Sessions, i \in Rec!Index : chunk'[s][i] \in {chunk[s][i], life}
  <2>1. life \in 0..MaxLives
    BY <1>2
  <2> QED
    BY <1>1, <1>2, <2>1
<1>4. Kept'
  <2>1. Rec!NoSession \in Session /\ Rec!NoUpload \in Request /\ life' \in 1..MaxLives
    BY <1>2, RecordingAssumption DEF Rec!NoSession, Rec!NoUpload, Session, Request, Rec!None,
           Rec!Index
  <2> QED
    BY <1>2, <1>3, <2>1 DEF RInv, Chunks, Kept
<1>5. Requests'
  BY <1>2 DEF Requests, Rec!NoUpload
<1>6. Sent'
  <2> SUFFICES ASSUME NEW s \in Sessions PROVE Lived(s)' /\ Complete(s)'
    BY DEF Sent
  <2>1. sess'[s].next = 0 /\ \A j \in Rec!Index : ~(j < 0)
    BY <1>2, RecordingAssumption DEF Rec!NoSession, Rec!Index
  <2>2. \A i \in Rec!Index : chunk'[s][i] <= life /\ acked[s][i] <= life /\ chunk'[s][i] \in Nat /\ acked[s][i] \in Nat
    <3>1. \A i \in Rec!Index : chunk[s][i] <= life /\ acked[s][i] <= life
      BY DEF RInv, Chunks, Sent, Lived
    <3>2. \A i \in Rec!Index : chunk'[s][i] \in Nat /\ acked[s][i] \in Nat /\ chunk[s][i] \in Nat /\ life <= life
      BY <1>2, <1>3
    <3> QED
      BY <1>3, <3>1, <3>2
  <2>3. \A i \in Rec!Index : chunk'[s][i] < life' /\ acked'[s][i] < life' /\ chunk'[s][i] # life' /\ acked'[s][i] # life'
                         /\ chunk'[s][i] <= life' /\ acked'[s][i] <= life'
    BY <1>2, <2>2
  <2> QED
    BY <2>1, <2>3 DEF Lived, Complete
<1>7. Reading'
  <2>1. <<>> \in Seq(Rec!Index) /\ Len(<<>>) = 0
    BY EmptySeq
  <2> QED
    BY <1>2, <2>1 DEF Reading, Rec!NoReader, Rec!None
<1> QED
  BY <1>4, <1>5, <1>6, <1>7 DEF RInv, Chunks

LEMMA RecordingStays ==
    ASSUME RInv, Rec!Next \/ UNCHANGED recVars
    PROVE  RInv'
<1>1. CASE UNCHANGED recVars
  <2>1. Reading' /\ UNCHANGED <<life, sess, up, chunk, acked>>
    BY <1>1 DEF recVars, RInv, Reading
  <2> QED
    BY <2>1, ReaderStep
<1>2. ASSUME NEW w \in Uploads, Rec!BootstrapSession(w) \/ Rec!DeriveFails(w) PROVE RInv'
  <2>1. up[w].pc = "bootstrap" /\ up[w].of \in Sessions
    BY <1>2 DEF Rec!BootstrapSession, Rec!DeriveFails, RInv, Chunks, Requests
  <2> QED
    BY <1>2, <2>1, NoPut DEF Rec!BootstrapSession, Rec!DeriveFails, Rec!GetOrCreate
<1> QED
  BY <1>1, <1>2, ServeStep, AcceptStep, PutEnds, ReadStep, RestartStep DEF Rec!Next

\* In one life of the recorder a chunk has one writer, a gap below an answered chunk is
\* being put or marked as an error, and an export has every chunk in its place: for any
\* sessions, requests at once, readers, chunks and restarts.
THEOREM RecordingHolds == PartsSpec => []RecordingTrue
<1>1. PartsInit => RInv
  BY RecordingBegins DEF PartsInit
<1>2. RInv /\ [PartsNext]_<<part, vars, recVars>> => RInv'
  BY RecordingStays DEF PartsNext
<1> QED
  BY <1>1, <1>2, RecordingFollows, PTL DEF PartsSpec

-----------------------------------------------------------------------------
(* The update.  While the task of an update runs with no other beside it, each  *)
(* binary of the package is extracted or left to be, or where the task's step   *)
(* and place in the order say; once it rolls                                    *)
(* back, a backup is one of this update or the one it found, and no binary is   *)
(* gone.                                                                        *)

SwapSteps == {"idle", "extract", "clear", "save", "place", "unsave", "defer", "undo", "undo_again"}
SwapTask == [at : SwapSteps, i : 0..4, version : Swap!Versions, left : SUBSET Swap!Names]
Busy(t) == task[t].at # "idle"
Rolling(t) == task[t].at \in {"undo", "undo_again"}
Swapping(t) == task[t].at \notin {"extract", "undo", "undo_again"}

TaskOK(t) ==
    /\ Busy(t) => task[t].version \in DOMAIN Packages
    /\ task[t].at = "clear" => task[t].i \in 1..4
    /\ task[t].at = "extract" => /\ task[t].i \in 0..3 /\ task[t].left \subseteq Packages[task[t].version]
                                 /\ task[t].i # 0 => Swap!Current(t) \in task[t].left
    /\ task[t].at \in {"save", "place", "unsave", "defer"} =>
           task[t].i \in 1..3 /\ Swap!Current(t) \in Packages[task[t].version]
    /\ Rolling(t) => task[t].i \in 0..3

\* Where a binary can be.
AsFound(n) == tree[n] = base[n] /\ backup[n] = found[n]
Cleared(n) == tree[n] = base[n] /\ backup[n] = Swap!None
Saved(n) == tree[n] = Swap!None /\ backup[n] = base[n]
Placed(n, v) == tree[n] = v /\ backup[n] = base[n] /\ extracted[n] = Swap!None
Deferred(n, v) == Cleared(n) /\ n \in pending /\ extracted[n] = v

Turn(t, n) ==
    CASE task[t].at = "clear" -> AsFound(n)
      [] task[t].at \in {"save", "defer"} -> Cleared(n)
      [] OTHER -> Saved(n)

\* The package is being extracted.
Unpacked(t, n) ==
    /\ AsFound(n)
    /\ IF n \in Packages[task[t].version] THEN goal[n] = task[t].version /\ (n \notin task[t].left => extracted[n] = task[t].version)
                                           ELSE goal[n] = Swap!AfterBoot[n]

Forward(t, j, n) ==
    IF n \notin Packages[task[t].version]
    THEN AsFound(n) /\ goal[n] = Swap!AfterBoot[n]
    ELSE /\ goal[n] = task[t].version
         /\ j < task[t].i => Placed(n, task[t].version) \/ Deferred(n, task[t].version)
         /\ j = task[t].i => Turn(t, n) /\ extracted[n] = task[t].version
         /\ j > task[t].i => AsFound(n) /\ extracted[n] = task[t].version

Present(n) == base[n] \in {Swap!None, tree[n], backup[n]} \/ (found[n] # Swap!None /\ tree[n] = found[n])
Back(n) == tree[n] \in {base[n], found[n]} \/ base[n] = Swap!None
Sound(n) == tree[n] # Swap!Partial \/ Swap!Partial \in {base[n], found[n]}
Safe(n) == Present(n) /\ Sound(n) /\ (backup[n] # Swap!None => backup[n] \in {base[n], found[n]})

Backward(t, j, n) == Safe(n) /\ (task[t].at = "undo_again" /\ j > task[t].i => Back(n))

Lies(t) ==
    /\ task[t].at = "extract" => \A n \in Swap!Names : Unpacked(t, n)
    /\ Swapping(t) => \A j \in 1..3 : Forward(t, j, Swap!SwapOrder[j])
    /\ Rolling(t) => \A j \in 1..3 : Backward(t, j, Swap!SwapOrder[j])

Sole(t) == (\A u \in Tasks : Busy(u) => u = t) /\ Lies(t)

Ended ==
    /\ result = "ok" => Swap!AfterBoot = goal
    /\ result # "booted" => \A n \in Swap!Names : Sound(n)
    /\ result \in {"refused", "error"} => \A n \in Swap!Names : Back(n)
    /\ result \notin {"ok", "booted"} => \A n \in Swap!Names : Present(n)

SwapInv ==
    /\ Swap!TypeOK
    /\ \A t \in Tasks : TaskOK(t)
    /\ ~shared => \A t \in Tasks : Busy(t) => Sole(t)
    /\ ~shared /\ Swap!Quiet => Ended

LEMMA OrderIs ==
    /\ \A j \in 1..3 : Swap!SwapOrder[j] \in Swap!Names
    /\ \A n \in Swap!Names : \E j \in 1..3 : Swap!SwapOrder[j] = n
    /\ \A j, k \in 1..3 : Swap!SwapOrder[j] = Swap!SwapOrder[k] => j = k
    /\ Swap!SwapOrder[3] = "agent"
<1>1. Swap!SwapOrder[1] = "enroll" /\ Swap!SwapOrder[2] = "watchdog" /\ Swap!SwapOrder[3] = "agent"
  BY DEF Swap!SwapOrder
<1>2. 1..3 = {1, 2, 3}
  OBVIOUS
<1> QED
  BY <1>1, <1>2 DEF Swap!Names

LEMMA VersionsAre ==
    /\ Swap!None \notin Swap!Versions /\ Swap!Partial \notin Swap!Versions /\ Swap!None # Swap!Partial
    /\ Swap!Versions \subseteq Nat /\ 0 \in Swap!Versions /\ DOMAIN Packages \subseteq Swap!Versions
  BY AdminAssumption DEF Swap!None, Swap!Partial, Swap!Versions

LEMMA SwapBegins == Swap!Init => SwapInv
<1> SUFFICES ASSUME Swap!Init PROVE SwapInv
  OBVIOUS
<1>1. Swap!Installed \in Swap!Dirs /\ Swap!Empty \in Swap!Dirs
  BY VersionsAre DEF Swap!Installed, Swap!Empty, Swap!Dirs
<1>2. task \in [Tasks -> SwapTask]
  BY VersionsAre DEF Swap!Init, Swap!Idle, SwapTask, SwapSteps
<1>3. Swap!TypeOK
  <2>1. /\ tree = Swap!Installed /\ backup = Swap!Empty /\ extracted = Swap!Empty /\ base = Swap!Installed /\ found = Swap!Empty /\ goal = Swap!Installed
        /\ pending = {} /\ incoming = 0 /\ shared = FALSE /\ result = "none" /\ notifies = 0 /\ fails = 0 /\ stops = 0
    BY DEF Swap!Init
  <2>2. task \in [Tasks -> [at : {"idle", "extract", "clear", "save", "place", "unsave", "defer", "undo", "undo_again"},
                           i : 0..4, version : Swap!Versions, left : SUBSET Swap!Names]]
    BY <1>2 DEF SwapTask, SwapSteps
  <2>3. 0 \in 0..MaxNotifies /\ 0 \in 0..MaxFails /\ 0 \in 0..MaxStops /\ 0 \in Swap!Versions
    BY AdminAssumption, VersionsAre
  <2> QED
    BY <1>1, <2>1, <2>2, <2>3 DEF Swap!TypeOK
<1>4. \A t \in Tasks : TaskOK(t) /\ ~Busy(t)
  BY DEF Swap!Init, Swap!Idle, TaskOK, Busy, Rolling
<1>5. Ended
  BY DEF Swap!Init, Ended, Present, Sound
<1> QED
  BY <1>3, <1>4, <1>5 DEF SwapInv

LEMMA SwapHas == ASSUME SwapInv PROVE
    /\ tree \in Swap!Dirs /\ backup \in Swap!Dirs /\ extracted \in Swap!Dirs /\ task \in [Tasks -> SwapTask]
    /\ base \in Swap!Dirs /\ found \in Swap!Dirs /\ goal \in Swap!Dirs /\ fails \in 0..MaxFails
    /\ \A t \in Tasks : TaskOK(t)
  BY DEF SwapInv, Swap!TypeOK, SwapTask, SwapSteps

LEMMA ForwardSafe == ASSUME SwapInv, NEW t \in Tasks, NEW j \in 1..3, Forward(t, j, Swap!SwapOrder[j]) PROVE Safe(Swap!SwapOrder[j])
<1> DEFINE n == Swap!SwapOrder[j]
<1>1. task[t].i \in Nat /\ task[t].version # Swap!Partial
  BY SwapHas, VersionsAre DEF SwapTask
<1>2. Forward(t, j, n)
  OBVIOUS
<1> HIDE DEF n
<1>3. AsFound(n) \/ Cleared(n) \/ Saved(n) \/ Placed(n, task[t].version)
  BY <1>1, <1>2 DEF Forward, Turn, Deferred
<1>4. Safe(n)
  BY <1>1, <1>3, VersionsAre DEF AsFound, Cleared, Saved, Placed, Safe, Present, Sound
<1> QED
  BY <1>4 DEF n

LEMMA SwapImplies == SwapInv => Swap!Recovers
<1> SUFFICES ASSUME SwapInv PROVE Swap!Recovers
  OBVIOUS
<1>1. Swap!Applied /\ Swap!Restored
  BY DEF SwapInv, Ended, Swap!Applied, Swap!Restored, Back
<1>2. ASSUME ~shared, NEW n \in Swap!Names
      PROVE  /\ ~(Swap!Quiet /\ result \in {"ok", "booted"}) => Present(n)
             /\ ~(Swap!Quiet /\ result = "booted") => Sound(n)
  <2>1. CASE Swap!Quiet
    BY <1>2, <2>1 DEF SwapInv, Ended
  <2>2. CASE ~Swap!Quiet
    <3>1. PICK t \in Tasks : Busy(t)
      BY <2>2 DEF Swap!Quiet, Busy
    <3>2. PICK j \in 1..3 : Swap!SwapOrder[j] = n
      BY OrderIs
    <3>3. Sole(t) /\ task[t].i \in Nat
      BY <1>2, <3>1 DEF SwapInv, Swap!TypeOK
    <3>4. CASE Rolling(t)
      BY <3>2, <3>3, <3>4 DEF Sole, Lies, Backward, Safe
    <3>5. CASE Swapping(t)
      BY <3>1, <3>2, <3>3, <3>5, ForwardSafe DEF Sole, Lies, Safe
    <3>6. CASE task[t].at = "extract"
      <4>1. AsFound(n)
        BY <3>3, <3>6 DEF Sole, Lies, Unpacked
      <4> QED
        BY <4>1 DEF AsFound, Present, Sound
    <3> QED
      BY <3>4, <3>5, <3>6 DEF Rolling, Swapping
  <2> QED
    BY <2>1, <2>2
<1>3. Swap!NothingLost /\ Swap!NoneCutOff
  BY <1>2 DEF SwapInv, Swap!NothingLost, Swap!NoneCutOff, Present, Sound
<1> QED
  BY <1>1, <1>3 DEF Swap!Recovers

\* The agent comes last: before its turn all others of the package are placed or deferred.
LEMMA SwapLast == SwapInv => Swap!AgentLast
<1> SUFFICES ASSUME SwapInv, NEW t \in Tasks, ~shared, task[t].at = "place", Swap!Current(t) = "agent",
                    NEW n \in Packages[task[t].version] \ {"agent"}
             PROVE  tree[n] = task[t].version \/ n \in pending
  BY DEF Swap!AgentLast
<1>1. task[t].i \in 1..3 /\ task[t].version \in DOMAIN Packages
  BY DEF SwapInv, TaskOK, Busy
<1>2. task[t].i = 3 /\ n \in Swap!Names
  BY <1>1, OrderIs, AdminAssumption DEF Swap!Current
<1>3. PICK j \in 1..3 : Swap!SwapOrder[j] = n
  BY <1>2, OrderIs
<1>4. j < task[t].i
  BY <1>2, <1>3, OrderIs
<1>5. Forward(t, j, n)
  BY <1>3 DEF SwapInv, Sole, Lies, Busy, Swapping
<1> QED
  BY <1>4, <1>5 DEF Forward, Placed, Deferred

\* A step of a task that stays under way.
LEMMA SwapGoes ==
    ASSUME SwapInv, NEW t \in Tasks, Busy(t), NEW r \in SwapTask, r.at # "idle", task' = [task EXCEPT ![t] = r],
           tree' \in Swap!Dirs, backup' \in Swap!Dirs, extracted' \in Swap!Dirs, pending' \subseteq Swap!Names, fails' \in 0..MaxFails,
           UNCHANGED <<incoming, Swap!began, result, notifies, stops>>,
           r.version = task[t].version, TaskOK(t)', Sole(t) => Lies(t)'
    PROVE  SwapInv'
<1>1. task' \in [Tasks -> SwapTask] /\ task'[t] = r /\ \A u \in Tasks \ {t} : task'[u] = task[u]
  BY SwapHas
<1>2. Swap!TypeOK'
  BY <1>1 DEF SwapInv, Swap!TypeOK, Swap!began, SwapTask, SwapSteps
<1>3. \A u \in Tasks : TaskOK(u)'
  BY <1>1, SwapHas DEF TaskOK, Busy, Rolling, Swap!Current
<1>4. Busy(t)' /\ \A u \in Tasks \ {t} : Busy(u)' <=> Busy(u)
  BY <1>1 DEF Busy
<1>5. ~Swap!Quiet' /\ shared' = shared
  BY <1>4 DEF Swap!Quiet, Busy, Swap!began
<1>6. ASSUME ~shared', NEW u \in Tasks, Busy(u)' PROVE Sole(u)'
  <2>1. Sole(t)
    BY <1>5, <1>6 DEF SwapInv
  <2>2. u = t /\ \A v \in Tasks : Busy(v)' => v = t
    BY <1>4, <1>6, <2>1 DEF Sole
  <2> QED
    BY <2>1, <2>2 DEF Sole
<1> QED
  BY <1>2, <1>3, <1>5, <1>6 DEF SwapInv

\* One that is past the extraction.
LEMMA SwapMoves ==
    ASSUME SwapInv, NEW t \in Tasks, Busy(t), NEW r \in SwapTask, r.at \notin {"idle", "extract"}, task' = [task EXCEPT ![t] = r],
           tree' \in Swap!Dirs, backup' \in Swap!Dirs, extracted' \in Swap!Dirs, pending' \subseteq Swap!Names, fails' \in 0..MaxFails,
           UNCHANGED <<incoming, Swap!began, result, notifies, stops>>,
           r.version = task[t].version, TaskOK(t)',
           Sole(t) => \A j \in 1..3 : IF Rolling(t)' THEN Backward(t, j, Swap!SwapOrder[j])' ELSE Forward(t, j, Swap!SwapOrder[j])'
    PROVE  SwapInv'
<1>1. task'[t] = r
  BY SwapHas
<1>2. task'[t].at # "extract" /\ (Swapping(t)' => ~Rolling(t)')
  BY <1>1 DEF Swapping, Rolling
<1>3. Sole(t) => Lies(t)'
  BY <1>2 DEF Lies
<1> QED
  BY <1>3, SwapGoes

\* The machine or the last task stops.
LEMMA SwapStops ==
    ASSUME SwapInv, task' = [t \in Tasks |-> Swap!Idle], tree' \in Swap!Dirs, backup' = backup, extracted' \in Swap!Dirs,
           pending' \subseteq Swap!Names, UNCHANGED <<incoming, Swap!began, notifies, fails>>, stops' \in 0..MaxStops,
           result' \in {"ok", "lost", "booted"}, ~shared => Ended'
    PROVE  SwapInv'
<1>1. \A t \in Tasks : task'[t].at = "idle"
  BY DEF Swap!Idle
<1>2. task' \in [Tasks -> SwapTask]
  BY VersionsAre DEF Swap!Idle, SwapTask, SwapSteps
<1>3. Swap!TypeOK'
  BY <1>2 DEF SwapInv, Swap!TypeOK, Swap!began, SwapTask, SwapSteps
<1>4. \A t \in Tasks : TaskOK(t)' /\ ~Busy(t)'
  BY <1>1 DEF TaskOK, Busy, Rolling
<1> QED
  BY <1>3, <1>4 DEF SwapInv, Swap!began

\* A step of a task leaves the binaries alone of which it is not the turn.
Same(n) == /\ tree'[n] = tree[n] /\ backup'[n] = backup[n] /\ extracted'[n] = extracted[n]
           /\ n \in pending' <=> n \in pending

LEMMA ForwardKept ==
    ASSUME SwapInv, NEW t \in Tasks, NEW j \in 1..3, Forward(t, j, Swap!SwapOrder[j]), Same(Swap!SwapOrder[j]), UNCHANGED Swap!began,
           task'[t].version = task[t].version,
           j # task[t].i \/ Swap!SwapOrder[j] \notin Packages[task[t].version],
           \/ task'[t].i = task[t].i
           \/ task'[t].i = task[t].i + 1 /\ task'[t].at = "clear"
    PROVE  Forward(t, j, Swap!SwapOrder[j])'
<1> DEFINE n == Swap!SwapOrder[j]
<1>1. n \in Swap!Names /\ task[t].i \in Nat
  BY OrderIs, SwapHas DEF SwapTask
<1> HIDE DEF n
<1>2. Same(n) /\ Forward(t, j, n) /\ (j # task[t].i \/ n \notin Packages[task[t].version])
  BY DEF n
<1>3. base' = base /\ found' = found /\ goal' = goal
  BY DEF Swap!began
<1>4. Swap!AfterBoot'[n] = Swap!AfterBoot[n] /\ (AsFound(n)' <=> AsFound(n))
  BY <1>1, <1>2, <1>3 DEF Swap!AfterBoot, Swap!Moved, Same, AsFound
<1>5. \A v : (Placed(n, v)' <=> Placed(n, v)) /\ (Deferred(n, v)' <=> Deferred(n, v))
  BY <1>1, <1>2, <1>3 DEF Same, Placed, Deferred, Cleared
<1>6. ASSUME n \notin Packages[task[t].version] PROVE Forward(t, j, n)'
  BY <1>2, <1>3, <1>4, <1>6 DEF Forward
<1>7. ASSUME n \in Packages[task[t].version], j # task[t].i PROVE Forward(t, j, n)'
  <2>1. /\ goal[n] = task[t].version
        /\ j < task[t].i => Placed(n, task[t].version) \/ Deferred(n, task[t].version)
        /\ j > task[t].i => AsFound(n) /\ extracted[n] = task[t].version
    BY <1>2, <1>7 DEF Forward
  <2>2. CASE j < task[t].i
    <3>1. j < task'[t].i /\ ~(j = task'[t].i) /\ ~(j > task'[t].i)
      BY <1>1, <2>2
    <3>2. Placed(n, task[t].version)' \/ Deferred(n, task[t].version)'
      BY <2>1, <2>2, <1>5
    <3> QED
      BY <1>3, <1>7, <2>1, <3>1, <3>2 DEF Forward
  <2>3. CASE j > task[t].i
    <3>1. ~(j < task'[t].i) /\ (j = task'[t].i => task'[t].at = "clear")
      BY <1>1, <2>3
    <3>2. AsFound(n)' /\ extracted'[n] = task[t].version
      BY <2>1, <2>3, <1>2, <1>4 DEF Same
    <3>3. j = task'[t].i => Turn(t, n)'
      BY <3>1, <3>2 DEF Turn
    <3> QED
      BY <1>3, <1>7, <2>1, <3>1, <3>2, <3>3 DEF Forward
  <2> QED
    BY <1>1, <1>7, <2>2, <2>3
<1> QED
  BY <1>2, <1>6, <1>7 DEF n

\* The binary whose turn it is, and what is known of it.
LEMMA TurnIs ==
    ASSUME SwapInv, NEW t \in Tasks, task[t].i \in 1..3, Busy(t)
    PROVE  /\ Swap!Current(t) = Swap!SwapOrder[task[t].i] /\ Swap!Current(t) \in Swap!Names /\ task[t] \in SwapTask
           /\ \A j \in 1..3 : j # task[t].i => Swap!SwapOrder[j] # Swap!Current(t)
           /\ Sole(t) /\ Swapping(t) => Forward(t, task[t].i, Swap!Current(t))
           /\ Sole(t) /\ Swapping(t) => \A j \in 1..3 : Forward(t, j, Swap!SwapOrder[j])
<1>1. Swap!Current(t) = Swap!SwapOrder[task[t].i]
  BY DEF Swap!Current
<1> QED
  BY <1>1, OrderIs, SwapHas DEF Sole, Lies

\* A rollback starts with every binary safe.
LEMMA Rolls ==
    ASSUME SwapInv, NEW t \in Tasks, Busy(t), ~Rolling(t), NEW next \in {"undo", "undo_again"},
           task' = [task EXCEPT ![t].at = next, ![t].i = 3], fails' \in 0..MaxFails,
           UNCHANGED <<tree, backup, extracted, pending, incoming, Swap!began, result, notifies, stops>>
    PROVE  SwapInv'
<1> DEFINE r == [task[t] EXCEPT !.at = next, !.i = 3]
<1>1. task[t] \in SwapTask /\ TaskOK(t)
  BY SwapHas
<1>2. r \in SwapTask /\ r.at = next /\ r.i = 3 /\ r.version = task[t].version
  <2>1. next \in SwapSteps /\ 3 \in 0..4
    BY DEF SwapSteps
  <2> QED
    BY <1>1, <2>1 DEF SwapTask
<1>3. task' = [task EXCEPT ![t] = r]
  OBVIOUS
<1> HIDE DEF r
<1>4. task'[t] = r
  BY <1>3, SwapHas
<1>5. TaskOK(t)' /\ Rolling(t)' /\ r.at \notin {"idle", "extract"}
  BY <1>1, <1>2, <1>4 DEF TaskOK, Busy, Rolling
<1>6. ASSUME Sole(t), NEW j \in 1..3 PROVE Backward(t, j, Swap!SwapOrder[j])'
  <2>1. Safe(Swap!SwapOrder[j])
    <3>1. CASE Swapping(t)
      BY <1>6, <3>1, ForwardSafe DEF Sole, Lies
    <3>2. CASE task[t].at = "extract"
      <4>1. PICK n \in Swap!Names : n = Swap!SwapOrder[j]
        BY OrderIs
      <4>2. AsFound(n)
        BY <1>6, <3>2 DEF Sole, Lies, Unpacked
      <4>3. Safe(n)
        BY <4>2 DEF AsFound, Safe, Present, Sound
      <4> QED
        BY <4>1, <4>3
    <3> QED
      BY <3>1, <3>2 DEF Rolling, Swapping
  <2>2. Safe(Swap!SwapOrder[j])'
    BY <2>1 DEF Safe, Present, Sound, Swap!began
  <2> QED
    BY <1>2, <1>4, <2>2 DEF Backward
<1>7. tree' \in Swap!Dirs /\ backup' \in Swap!Dirs /\ extracted' \in Swap!Dirs /\ pending' \subseteq Swap!Names
  BY DEF SwapInv, Swap!TypeOK
<1> QED
  BY <1>2, <1>3, <1>5, <1>6, <1>7, SwapMoves

LEMMA PreflightStep == ASSUME SwapInv, NEW t \in Tasks, Swap!Preflight(t) PROVE SwapInv'
<1>1. task[t].at = "extract" /\ task[t].left = {} /\ Busy(t) /\ ~Rolling(t) /\ fails \in 0..MaxFails /\ task[t] \in SwapTask /\ TaskOK(t)
  BY SwapHas DEF Swap!Preflight, Busy, Rolling
<1>2. ASSUME task' = [task EXCEPT ![t].at = "undo_again", ![t].i = 3], fails' \in 0..MaxFails PROVE SwapInv'
  BY <1>1, <1>2, Rolls DEF Swap!Preflight
<1>3. ASSUME task' = [task EXCEPT ![t].at = "clear", ![t].i = 1], UNCHANGED fails PROVE SwapInv'
  <2> DEFINE r == [task[t] EXCEPT !.at = "clear", !.i = 1]
  <2>1. r \in SwapTask /\ r.at = "clear" /\ r.i = 1 /\ r.version = task[t].version /\ task' = [task EXCEPT ![t] = r]
    <3>1. "clear" \in SwapSteps /\ 1 \in 0..4
      BY DEF SwapSteps
    <3>2. r \in SwapTask /\ r.at = "clear" /\ r.i = 1 /\ r.version = task[t].version
      BY <1>1, <3>1 DEF SwapTask
    <3>3. task' = [task EXCEPT ![t] = r]
      BY <1>3, SwapHas
    <3> QED
      BY <3>2, <3>3
  <2> HIDE DEF r
  <2>2. task'[t] = r
    BY <2>1, SwapHas
  <2>3. TaskOK(t)' /\ ~Rolling(t)'
    BY <1>1, <2>1, <2>2 DEF TaskOK, Busy, Rolling
  <2>4. ASSUME Sole(t), NEW j \in 1..3 PROVE Forward(t, j, Swap!SwapOrder[j])'
    <3>1. PICK n \in Swap!Names : n = Swap!SwapOrder[j]
      BY OrderIs
    <3>2. Unpacked(t, n)
      BY <1>1, <2>4 DEF Sole, Lies
    <3>3. task'[t].at = "clear" /\ task'[t].i = 1 /\ task'[t].version = task[t].version
      BY <2>1, <2>2
    <3>4. /\ tree' = tree /\ backup' = backup /\ extracted' = extracted /\ pending' = pending
          /\ base' = base /\ found' = found /\ goal' = goal /\ Swap!AfterBoot' = Swap!AfterBoot
      BY DEF Swap!Preflight, Swap!began, Swap!AfterBoot, Swap!Moved
    <3>5. AsFound(n)' /\ Turn(t, n)' /\ ~(j < 1)
      BY <3>2, <3>3, <3>4 DEF Unpacked, AsFound, Turn
    <3>6. Forward(t, j, n)'
      BY <1>1, <3>2, <3>3, <3>4, <3>5 DEF Forward, Unpacked
    <3> QED
      BY <3>1, <3>6
  <2>5. tree' \in Swap!Dirs /\ backup' \in Swap!Dirs /\ extracted' \in Swap!Dirs /\ pending' \subseteq Swap!Names /\ fails' \in 0..MaxFails
    BY <1>1, <1>3 DEF Swap!Preflight, SwapInv, Swap!TypeOK
  <2>6. UNCHANGED <<incoming, Swap!began, result, notifies, stops>>
    BY DEF Swap!Preflight
  <2> QED
    BY <1>1, <2>1, <2>3, <2>4, <2>5, <2>6, SwapMoves
<1>4. Swap!Failing => fails' \in 0..MaxFails
  BY <1>1, AdminAssumption DEF Swap!Failing
<1>5. fails' = fails => fails' \in 0..MaxFails
  BY <1>1
<1> QED
  BY <1>2, <1>3, <1>4, <1>5 DEF Swap!Preflight

\* A step that goes on to the next binary, or within the same one.
Advance(t, next, i, c, v) ==
    /\ Busy(t) /\ Swapping(t) /\ task[t].i \in 1..3 /\ c = Swap!Current(t) /\ c \in Swap!Names /\ v = task[t].version
    /\ next \in {"clear", "save", "place", "unsave", "defer"} /\ (next = "clear" \/ c \in Packages[v])
    /\ i \in 0..4 /\ (i = task[t].i \/ (i = task[t].i + 1 /\ next = "clear"))
    /\ task' = [task EXCEPT ![t].at = next, ![t].i = i]
    /\ tree' \in Swap!Dirs /\ backup' \in Swap!Dirs /\ extracted' \in Swap!Dirs /\ pending' \subseteq Swap!Names /\ fails' \in 0..MaxFails
    /\ UNCHANGED <<incoming, Swap!began, result, notifies, stops>>
    /\ \A n \in Swap!Names : n # c => Same(n)

Handled(t, i, c, v) ==
    \/ c \notin Packages[v] /\ Same(c)
    \/ /\ c \in Packages[v] /\ goal'[c] = v
       /\ IF i = task[t].i THEN Turn(t, c)' /\ extracted'[c] = v
                           ELSE Placed(c, v)' \/ Deferred(c, v)'

LEMMA Advances ==
    ASSUME SwapInv, NEW t \in Tasks, NEW next, NEW i, NEW c, NEW v, Advance(t, next, i, c, v),
           Sole(t) => Handled(t, i, c, v)
    PROVE  SwapInv'
<1>0. /\ Busy(t) /\ Swapping(t) /\ task[t].i \in 1..3 /\ c = Swap!Current(t) /\ c \in Swap!Names /\ v = task[t].version
      /\ next \in {"clear", "save", "place", "unsave", "defer"} /\ (next = "clear" \/ c \in Packages[v])
      /\ i \in 0..4 /\ (i = task[t].i \/ (i = task[t].i + 1 /\ next = "clear"))
      /\ task' = [task EXCEPT ![t].at = next, ![t].i = i]
      /\ tree' \in Swap!Dirs /\ backup' \in Swap!Dirs /\ extracted' \in Swap!Dirs /\ pending' \subseteq Swap!Names /\ fails' \in 0..MaxFails
      /\ UNCHANGED <<incoming, Swap!began, result, notifies, stops>>
      /\ \A n \in Swap!Names : n # c => Same(n)
  BY DEF Advance
<1>a. Sole(t) => \/ c \notin Packages[v] /\ Same(c)
                 \/ /\ c \in Packages[v] /\ goal'[c] = v
                    /\ IF i = task[t].i THEN Turn(t, c)' /\ extracted'[c] = v
                                        ELSE Placed(c, v)' \/ Deferred(c, v)'
  BY DEF Handled
<1> DEFINE r == [task[t] EXCEPT !.at = next, !.i = i]
<1>1. task[t] \in SwapTask /\ TaskOK(t)
  BY SwapHas
<1>2. r \in SwapTask /\ r.at = next /\ r.i = i /\ r.version = task[t].version
  BY <1>0, <1>1 DEF SwapTask, SwapSteps
<1>3. task' = [task EXCEPT ![t] = r]
  BY <1>0
<1> HIDE DEF r
<1>4. task'[t] = r
  BY <1>3, SwapHas
<1>5. TaskOK(t)' /\ ~Rolling(t)' /\ r.at \notin {"idle", "extract"}
  BY <1>0, <1>1, <1>2, <1>4 DEF TaskOK, Busy, Rolling, Swap!Current
<1>6. task'[t].at = next /\ task'[t].i = i /\ task'[t].version = task[t].version
  BY <1>2, <1>4
<1>7. ASSUME Sole(t), NEW j \in 1..3 PROVE Forward(t, j, Swap!SwapOrder[j])'
  <2>1. /\ Forward(t, j, Swap!SwapOrder[j]) /\ Swap!SwapOrder[j] \in Swap!Names /\ c = Swap!SwapOrder[task[t].i]
        /\ j # task[t].i => Swap!SwapOrder[j] # c
    BY <1>0, <1>7, TurnIs, OrderIs
  <2>2. ASSUME j # task[t].i PROVE Forward(t, j, Swap!SwapOrder[j])'
    <3>1. Same(Swap!SwapOrder[j])
      BY <1>0, <2>1, <2>2
    <3> QED
      BY <1>0, <1>6, <2>1, <2>2, <3>1, ForwardKept
  <2>3. ASSUME j = task[t].i, c \notin Packages[v], Same(c) PROVE Forward(t, j, Swap!SwapOrder[j])'
    <3>1. Swap!SwapOrder[j] = c
      BY <2>1, <2>3
    <3>2. Same(Swap!SwapOrder[j]) /\ Swap!SwapOrder[j] \notin Packages[task[t].version]
      BY <1>0, <2>3, <3>1
    <3> QED
      BY <1>0, <1>6, <2>1, <3>2, ForwardKept
  <2>4. ASSUME j = task[t].i, c \in Packages[v], goal'[c] = v,
               IF i = task[t].i THEN Turn(t, c)' /\ extracted'[c] = v
                                ELSE Placed(c, v)' \/ Deferred(c, v)'
        PROVE  Forward(t, j, Swap!SwapOrder[j])'
    <3>1. CASE i = task[t].i
      <4>1. ~(j < i) /\ ~(j > i) /\ Swap!SwapOrder[j] = c
        BY <2>1, <2>4, <3>1
      <4>2. goal'[c] = v /\ extracted'[c] = v /\ Turn(t, c)'
        BY <2>4, <3>1
      <4>3. Turn(t, Swap!SwapOrder[j])'
        BY <4>1, <4>2 DEF Turn, AsFound, Cleared, Saved
      <4> QED
        BY <1>0, <1>6, <2>4, <4>1, <4>2, <4>3 DEF Forward
    <3>2. CASE i # task[t].i
      <4>1. i = task[t].i + 1
        BY <1>0, <3>2
      <4>2. j < i /\ ~(j = i) /\ ~(j > i) /\ Swap!SwapOrder[j] = c
        BY <1>0, <2>1, <2>4, <4>1
      <4>3. Placed(c, v)' \/ Deferred(c, v)'
        BY <2>4, <3>2
      <4>4. Placed(Swap!SwapOrder[j], v)' \/ Deferred(Swap!SwapOrder[j], v)'
        BY <4>2, <4>3 DEF Placed, Deferred, Cleared
      <4> QED
        BY <1>0, <1>6, <2>4, <4>2, <4>4 DEF Forward
    <3> QED
      BY <3>1, <3>2
  <2> QED
    BY <1>a, <1>7, <2>2, <2>3, <2>4
<1> QED
  BY <1>0, <1>2, <1>3, <1>5, <1>7, SwapMoves

LEMMA SkipStep == ASSUME SwapInv, NEW t \in Tasks, Swap!Skip(t) PROVE SwapInv'
<1>1. task[t].at = "clear" /\ Busy(t) /\ Swapping(t) /\ fails \in 0..MaxFails /\ task[t] \in SwapTask /\ TaskOK(t)
  BY SwapHas DEF Swap!Skip, Busy, Swapping
<1>0. PICK c, v, i : c = Swap!Current(t) /\ v = task[t].version /\ i = task[t].i + 1
  OBVIOUS
<1>2. task[t].i \in 1..3
  BY <1>1 DEF TaskOK, Swap!Skip
<1>3. c \in Swap!Names /\ i \in 0..4 /\ i = task[t].i + 1
  BY <1>0, <1>1, <1>2, TurnIs
<1>4. /\ c \notin Packages[v] /\ task' = [task EXCEPT ![t].i = i]
      /\ tree' = tree /\ backup' = backup /\ extracted' = extracted /\ pending' = pending /\ fails' = fails
      /\ UNCHANGED <<incoming, Swap!began, result, notifies, stops>>
  BY <1>0 DEF Swap!Skip
<1>5. task' = [task EXCEPT ![t].at = "clear", ![t].i = i]
  BY <1>1, <1>4, SwapHas DEF SwapTask
<1>6. tree' \in Swap!Dirs /\ backup' \in Swap!Dirs /\ extracted' \in Swap!Dirs /\ pending' \subseteq Swap!Names /\ fails' \in 0..MaxFails
  BY <1>1, <1>4 DEF SwapInv, Swap!TypeOK
<1>7. \A n \in Swap!Names : Same(n)
  BY <1>4 DEF Same
<1>8. c = Swap!Current(t) /\ v = task[t].version
  BY <1>0
<1>9. Advance(t, "clear", i, c, v) /\ Handled(t, i, c, v)
  BY <1>1, <1>2, <1>3, <1>4, <1>5, <1>6, <1>7, <1>8 DEF Advance, Handled
<1> QED
  BY <1>9, Advances

LEMMA FailingIs == ASSUME SwapInv, Swap!Failing PROVE fails' \in 0..MaxFails
  BY SwapHas, AdminAssumption DEF Swap!Failing

LEMMA ClearStep == ASSUME SwapInv, NEW t \in Tasks, Swap!Clear(t) PROVE SwapInv'
<1>1. task[t].at = "clear" /\ Busy(t) /\ Swapping(t) /\ fails \in 0..MaxFails /\ task[t] \in SwapTask /\ TaskOK(t)
  BY SwapHas DEF Swap!Clear, Busy, Swapping
<1>0. PICK c, v, i : c = Swap!Current(t) /\ v = task[t].version /\ i = task[t].i
  OBVIOUS
<1>2. task[t].i \in 1..3 /\ c \in Packages[v]
  BY <1>0, <1>1 DEF TaskOK, Swap!Clear
<1>3. c \in Swap!Names /\ i \in 0..4 /\ i = task[t].i /\ (Sole(t) => Forward(t, task[t].i, c))
  BY <1>0, <1>1, <1>2, TurnIs
<1>4. /\ task' = [task EXCEPT ![t].at = "save"]
      /\ backup' = [backup EXCEPT ![c] = Swap!None] /\ tree' = tree /\ extracted' = extracted /\ pending' = pending /\ fails' = fails
      /\ UNCHANGED <<incoming, Swap!began, result, notifies, stops>>
  BY <1>0 DEF Swap!Clear, Swap!Goto
<1>5. task' = [task EXCEPT ![t].at = "save", ![t].i = i]
  BY <1>1, <1>3, <1>4, SwapHas DEF SwapTask
<1>6. tree' \in Swap!Dirs /\ backup' \in Swap!Dirs /\ extracted' \in Swap!Dirs /\ pending' \subseteq Swap!Names /\ fails' \in 0..MaxFails
  BY <1>1, <1>3, <1>4, SwapHas DEF Swap!Keep, Swap!Restore, SwapInv, Swap!TypeOK, Swap!Dirs
<1>7. \A n \in Swap!Names : n # c => Same(n)
  BY <1>3, <1>4, SwapHas DEF Same, Swap!Dirs, Swap!Keep, Swap!Restore
<1>8. c = Swap!Current(t) /\ v = task[t].version
  BY <1>0
<1>9. task'[t].at = "save" /\ backup'[c] = Swap!None
  BY <1>1, <1>2, <1>3, <1>4, <1>5, SwapHas DEF SwapTask, Swap!Dirs, Swap!Keep, Swap!Restore
<1>10. ASSUME Sole(t) PROVE goal'[c] = v /\ Turn(t, c)' /\ extracted'[c] = v
  <2>1. goal[c] = v /\ AsFound(c) /\ extracted[c] = v
    BY <1>1, <1>2, <1>3, <1>8, <1>10 DEF Forward, Turn
  <2> QED
    BY <1>4, <1>9, <2>1 DEF Turn, AsFound, Cleared, Saved, Placed, Deferred, Swap!began
<1>11. i = task[t].i \/ (i = task[t].i + 1 /\ "save" = "clear")
  BY <1>3
<1>12. Sole(t) => c \in Packages[v] /\ goal'[c] = v /\
                 IF i = task[t].i THEN Turn(t, c)' /\ extracted'[c] = v ELSE Placed(c, v)' \/ Deferred(c, v)'
  BY <1>2, <1>3, <1>10
<1>13. Advance(t, "save", i, c, v)
  BY <1>1, <1>2, <1>3, <1>4, <1>5, <1>6, <1>7, <1>8, <1>11 DEF Advance
<1>14. Sole(t) => Handled(t, i, c, v)
  BY <1>12 DEF Handled
<1> QED
  BY <1>13, <1>14, Advances

LEMMA SaveStep == ASSUME SwapInv, NEW t \in Tasks, Swap!Save(t) PROVE SwapInv'
<1>1. task[t].at = "save" /\ Busy(t) /\ Swapping(t) /\ fails \in 0..MaxFails /\ task[t] \in SwapTask /\ TaskOK(t)
  BY SwapHas DEF Swap!Save, Busy, Swapping
<1>0. PICK c, v, i : c = Swap!Current(t) /\ v = task[t].version /\ i = task[t].i
  OBVIOUS
<1>2. task[t].i \in 1..3 /\ c \in Packages[v]
  BY <1>0, <1>1 DEF TaskOK, Swap!Save
<1>3. c \in Swap!Names /\ i \in 0..4 /\ i = task[t].i /\ (Sole(t) => Forward(t, task[t].i, c))
  BY <1>0, <1>1, <1>2, TurnIs
<1>4. /\ task' = [task EXCEPT ![t].at = "place"]
      /\ (IF tree[c] # Swap!None THEN Swap!Keep(c) ELSE tree' = tree /\ backup' = backup) /\ extracted' = extracted /\ pending' = pending /\ fails' = fails
      /\ UNCHANGED <<incoming, Swap!began, result, notifies, stops>>
  BY <1>0 DEF Swap!Save, Swap!Goto
<1>5. task' = [task EXCEPT ![t].at = "place", ![t].i = i]
  BY <1>1, <1>3, <1>4, SwapHas DEF SwapTask
<1>6. tree' \in Swap!Dirs /\ backup' \in Swap!Dirs /\ extracted' \in Swap!Dirs /\ pending' \subseteq Swap!Names /\ fails' \in 0..MaxFails
  BY <1>1, <1>3, <1>4, SwapHas DEF Swap!Keep, Swap!Restore, SwapInv, Swap!TypeOK, Swap!Dirs
<1>7. \A n \in Swap!Names : n # c => Same(n)
  BY <1>3, <1>4, SwapHas DEF Same, Swap!Dirs, Swap!Keep, Swap!Restore
<1>8. c = Swap!Current(t) /\ v = task[t].version
  BY <1>0
<1>9. task'[t].at = "place" /\ tree'[c] = Swap!None /\ backup'[c] = IF tree[c] # Swap!None THEN tree[c] ELSE backup[c]
  BY <1>1, <1>2, <1>3, <1>4, <1>5, SwapHas DEF SwapTask, Swap!Dirs, Swap!Keep, Swap!Restore
<1>10. ASSUME Sole(t) PROVE goal'[c] = v /\ Turn(t, c)' /\ extracted'[c] = v
  <2>1. goal[c] = v /\ Cleared(c) /\ extracted[c] = v
    BY <1>1, <1>2, <1>3, <1>8, <1>10 DEF Forward, Turn
  <2> QED
    BY <1>4, <1>9, <2>1 DEF Turn, AsFound, Cleared, Saved, Placed, Deferred, Swap!began
<1>11. i = task[t].i \/ (i = task[t].i + 1 /\ "place" = "clear")
  BY <1>3
<1>12. Sole(t) => c \in Packages[v] /\ goal'[c] = v /\
                 IF i = task[t].i THEN Turn(t, c)' /\ extracted'[c] = v ELSE Placed(c, v)' \/ Deferred(c, v)'
  BY <1>2, <1>3, <1>10
<1>13. Advance(t, "place", i, c, v)
  BY <1>1, <1>2, <1>3, <1>4, <1>5, <1>6, <1>7, <1>8, <1>11 DEF Advance
<1>14. Sole(t) => Handled(t, i, c, v)
  BY <1>12 DEF Handled
<1> QED
  BY <1>13, <1>14, Advances

LEMMA PlaceStep == ASSUME SwapInv, NEW t \in Tasks, Swap!Place(t) PROVE SwapInv'
<1>1. task[t].at = "place" /\ Busy(t) /\ Swapping(t) /\ fails \in 0..MaxFails /\ task[t] \in SwapTask /\ TaskOK(t)
  BY SwapHas DEF Swap!Place, Busy, Swapping
<1>0. PICK c, v, i : c = Swap!Current(t) /\ v = task[t].version /\ i = task[t].i + 1
  OBVIOUS
<1>2. task[t].i \in 1..3 /\ c \in Packages[v]
  BY <1>0, <1>1 DEF TaskOK, Swap!Place
<1>3. c \in Swap!Names /\ i \in 0..4 /\ i = task[t].i + 1 /\ (Sole(t) => Forward(t, task[t].i, c))
  BY <1>0, <1>1, <1>2, TurnIs
<1>4. /\ task' = [task EXCEPT ![t].at = "clear", ![t].i = i]
      /\ tree' = [tree EXCEPT ![c] = extracted[c]] /\ extracted' = [extracted EXCEPT ![c] = Swap!None]
      /\ backup' = backup /\ pending' = pending /\ fails' = fails
      /\ UNCHANGED <<incoming, Swap!began, result, notifies, stops>>
  BY <1>0 DEF Swap!Place, Swap!Goto
<1>5. task' = [task EXCEPT ![t].at = "clear", ![t].i = i]
  BY <1>1, <1>3, <1>4, SwapHas DEF SwapTask
<1>6. tree' \in Swap!Dirs /\ backup' \in Swap!Dirs /\ extracted' \in Swap!Dirs /\ pending' \subseteq Swap!Names /\ fails' \in 0..MaxFails
  BY <1>1, <1>3, <1>4, SwapHas DEF Swap!Keep, Swap!Restore, SwapInv, Swap!TypeOK, Swap!Dirs
<1>7. \A n \in Swap!Names : n # c => Same(n)
  BY <1>3, <1>4, SwapHas DEF Same, Swap!Dirs, Swap!Keep, Swap!Restore
<1>8. c = Swap!Current(t) /\ v = task[t].version
  BY <1>0
<1>9. task'[t].at = "clear" /\ tree'[c] = extracted[c] /\ extracted'[c] = Swap!None
  BY <1>1, <1>2, <1>3, <1>4, <1>5, SwapHas DEF SwapTask, Swap!Dirs, Swap!Keep, Swap!Restore
<1>10. ASSUME Sole(t) PROVE goal'[c] = v /\ Placed(c, v)'
  <2>1. goal[c] = v /\ Saved(c) /\ extracted[c] = v
    BY <1>1, <1>2, <1>3, <1>8, <1>10 DEF Forward, Turn
  <2> QED
    BY <1>4, <1>9, <2>1 DEF Turn, AsFound, Cleared, Saved, Placed, Deferred, Swap!began
<1>11. i = task[t].i \/ (i = task[t].i + 1 /\ "clear" = "clear")
  BY <1>3
<1>12. Sole(t) => c \in Packages[v] /\ goal'[c] = v /\
                 IF i = task[t].i THEN Turn(t, c)' /\ extracted'[c] = v ELSE Placed(c, v)' \/ Deferred(c, v)'
  BY <1>2, <1>3, <1>10
<1>13. Advance(t, "clear", i, c, v)
  BY <1>1, <1>2, <1>3, <1>4, <1>5, <1>6, <1>7, <1>8, <1>11 DEF Advance
<1>14. Sole(t) => Handled(t, i, c, v)
  BY <1>12 DEF Handled
<1> QED
  BY <1>13, <1>14, Advances

LEMMA PlaceFailsStep == ASSUME SwapInv, NEW t \in Tasks, Swap!PlaceFails(t) PROVE SwapInv'
<1>1. task[t].at = "place" /\ Busy(t) /\ Swapping(t) /\ fails \in 0..MaxFails /\ task[t] \in SwapTask /\ TaskOK(t)
  BY SwapHas DEF Swap!PlaceFails, Busy, Swapping
<1>0. PICK c, v, i : c = Swap!Current(t) /\ v = task[t].version /\ i = task[t].i
  OBVIOUS
<1>2. task[t].i \in 1..3 /\ c \in Packages[v]
  BY <1>0, <1>1 DEF TaskOK, Swap!PlaceFails
<1>3. c \in Swap!Names /\ i \in 0..4 /\ i = task[t].i /\ (Sole(t) => Forward(t, task[t].i, c))
  BY <1>0, <1>1, <1>2, TurnIs
<1>4. /\ task' = [task EXCEPT ![t].at = "unsave"]
      /\ (fails' = fails \/ Swap!Failing) /\ tree' = tree /\ backup' = backup /\ extracted' = extracted /\ pending' = pending
      /\ UNCHANGED <<incoming, Swap!began, result, notifies, stops>>
  BY <1>0 DEF Swap!PlaceFails, Swap!Goto
<1>5. task' = [task EXCEPT ![t].at = "unsave", ![t].i = i]
  BY <1>1, <1>3, <1>4, SwapHas DEF SwapTask
<1>6. tree' \in Swap!Dirs /\ backup' \in Swap!Dirs /\ extracted' \in Swap!Dirs /\ pending' \subseteq Swap!Names /\ fails' \in 0..MaxFails
  BY <1>1, <1>3, <1>4, SwapHas, FailingIs DEF Swap!Keep, Swap!Restore, SwapInv, Swap!TypeOK, Swap!Dirs
<1>7. \A n \in Swap!Names : n # c => Same(n)
  BY <1>3, <1>4, SwapHas DEF Same, Swap!Dirs, Swap!Keep, Swap!Restore
<1>8. c = Swap!Current(t) /\ v = task[t].version
  BY <1>0
<1>9. task'[t].at = "unsave" /\ tree'[c] = tree[c]
  BY <1>1, <1>2, <1>3, <1>4, <1>5, SwapHas DEF SwapTask, Swap!Dirs, Swap!Keep, Swap!Restore
<1>10. ASSUME Sole(t) PROVE goal'[c] = v /\ Turn(t, c)' /\ extracted'[c] = v
  <2>1. goal[c] = v /\ Saved(c) /\ extracted[c] = v
    BY <1>1, <1>2, <1>3, <1>8, <1>10 DEF Forward, Turn
  <2> QED
    BY <1>4, <1>9, <2>1 DEF Turn, AsFound, Cleared, Saved, Placed, Deferred, Swap!began
<1>11. i = task[t].i \/ (i = task[t].i + 1 /\ "unsave" = "clear")
  BY <1>3
<1>12. Sole(t) => c \in Packages[v] /\ goal'[c] = v /\
                 IF i = task[t].i THEN Turn(t, c)' /\ extracted'[c] = v ELSE Placed(c, v)' \/ Deferred(c, v)'
  BY <1>2, <1>3, <1>10
<1>13. Advance(t, "unsave", i, c, v)
  BY <1>1, <1>2, <1>3, <1>4, <1>5, <1>6, <1>7, <1>8, <1>11 DEF Advance
<1>14. Sole(t) => Handled(t, i, c, v)
  BY <1>12 DEF Handled
<1> QED
  BY <1>13, <1>14, Advances

LEMMA UnsaveStep == ASSUME SwapInv, NEW t \in Tasks, Swap!Unsave(t) PROVE SwapInv'
<1>1. task[t].at = "unsave" /\ Busy(t) /\ Swapping(t) /\ fails \in 0..MaxFails /\ task[t] \in SwapTask /\ TaskOK(t)
  BY SwapHas DEF Swap!Unsave, Busy, Swapping
<1>0. PICK c, v, i : c = Swap!Current(t) /\ v = task[t].version /\ i = task[t].i
  OBVIOUS
<1>2. task[t].i \in 1..3 /\ c \in Packages[v]
  BY <1>0, <1>1 DEF TaskOK, Swap!Unsave
<1>3. c \in Swap!Names /\ i \in 0..4 /\ i = task[t].i /\ (Sole(t) => Forward(t, task[t].i, c))
  BY <1>0, <1>1, <1>2, TurnIs
<1>4. /\ task' = [task EXCEPT ![t].at = "defer"]
      /\ (IF backup[c] # Swap!None THEN Swap!Restore(c) ELSE tree' = tree /\ backup' = backup) /\ extracted' = extracted /\ pending' = pending /\ fails' = fails
      /\ UNCHANGED <<incoming, Swap!began, result, notifies, stops>>
  BY <1>0 DEF Swap!Unsave, Swap!Goto
<1>5. task' = [task EXCEPT ![t].at = "defer", ![t].i = i]
  BY <1>1, <1>3, <1>4, SwapHas DEF SwapTask
<1>6. tree' \in Swap!Dirs /\ backup' \in Swap!Dirs /\ extracted' \in Swap!Dirs /\ pending' \subseteq Swap!Names /\ fails' \in 0..MaxFails
  BY <1>1, <1>3, <1>4, SwapHas DEF Swap!Keep, Swap!Restore, SwapInv, Swap!TypeOK, Swap!Dirs
<1>7. \A n \in Swap!Names : n # c => Same(n)
  BY <1>3, <1>4, SwapHas DEF Same, Swap!Dirs, Swap!Keep, Swap!Restore
<1>8. c = Swap!Current(t) /\ v = task[t].version
  BY <1>0
<1>9. task'[t].at = "defer" /\ backup'[c] = Swap!None /\ tree'[c] = IF backup[c] # Swap!None THEN backup[c] ELSE tree[c]
  BY <1>1, <1>2, <1>3, <1>4, <1>5, SwapHas DEF SwapTask, Swap!Dirs, Swap!Keep, Swap!Restore
<1>10. ASSUME Sole(t) PROVE goal'[c] = v /\ Turn(t, c)' /\ extracted'[c] = v
  <2>1. goal[c] = v /\ Saved(c) /\ extracted[c] = v
    BY <1>1, <1>2, <1>3, <1>8, <1>10 DEF Forward, Turn
  <2> QED
    BY <1>4, <1>9, <2>1 DEF Turn, AsFound, Cleared, Saved, Placed, Deferred, Swap!began
<1>11. i = task[t].i \/ (i = task[t].i + 1 /\ "defer" = "clear")
  BY <1>3
<1>12. Sole(t) => c \in Packages[v] /\ goal'[c] = v /\
                 IF i = task[t].i THEN Turn(t, c)' /\ extracted'[c] = v ELSE Placed(c, v)' \/ Deferred(c, v)'
  BY <1>2, <1>3, <1>10
<1>13. Advance(t, "defer", i, c, v)
  BY <1>1, <1>2, <1>3, <1>4, <1>5, <1>6, <1>7, <1>8, <1>11 DEF Advance
<1>14. Sole(t) => Handled(t, i, c, v)
  BY <1>12 DEF Handled
<1> QED
  BY <1>13, <1>14, Advances

LEMMA DeferStep == ASSUME SwapInv, NEW t \in Tasks, Swap!Defer(t) PROVE SwapInv'
<1>1. task[t].at = "defer" /\ Busy(t) /\ Swapping(t) /\ fails \in 0..MaxFails /\ task[t] \in SwapTask /\ TaskOK(t)
  BY SwapHas DEF Swap!Defer, Busy, Swapping
<1>0. PICK c, v, i : c = Swap!Current(t) /\ v = task[t].version /\ i = task[t].i + 1
  OBVIOUS
<1>2. task[t].i \in 1..3 /\ c \in Packages[v]
  BY <1>0, <1>1 DEF TaskOK, Swap!Defer
<1>3. c \in Swap!Names /\ i \in 0..4 /\ i = task[t].i + 1 /\ (Sole(t) => Forward(t, task[t].i, c))
  BY <1>0, <1>1, <1>2, TurnIs
<1>4. /\ task' = [task EXCEPT ![t].at = "clear", ![t].i = i]
      /\ pending' = pending \cup {c} /\ tree' = tree /\ backup' = backup /\ extracted' = extracted /\ fails' = fails
      /\ UNCHANGED <<incoming, Swap!began, result, notifies, stops>>
  BY <1>0 DEF Swap!Defer, Swap!Goto
<1>5. task' = [task EXCEPT ![t].at = "clear", ![t].i = i]
  BY <1>1, <1>3, <1>4, SwapHas DEF SwapTask
<1>6. tree' \in Swap!Dirs /\ backup' \in Swap!Dirs /\ extracted' \in Swap!Dirs /\ pending' \subseteq Swap!Names /\ fails' \in 0..MaxFails
  BY <1>1, <1>3, <1>4, SwapHas DEF Swap!Keep, Swap!Restore, SwapInv, Swap!TypeOK, Swap!Dirs
<1>7. \A n \in Swap!Names : n # c => Same(n)
  BY <1>3, <1>4, SwapHas DEF Same, Swap!Dirs, Swap!Keep, Swap!Restore
<1>8. c = Swap!Current(t) /\ v = task[t].version
  BY <1>0
<1>9. task'[t].at = "clear" /\ c \in pending'
  BY <1>1, <1>2, <1>3, <1>4, <1>5, SwapHas DEF SwapTask, Swap!Dirs, Swap!Keep, Swap!Restore
<1>10. ASSUME Sole(t) PROVE goal'[c] = v /\ Deferred(c, v)'
  <2>1. goal[c] = v /\ Cleared(c) /\ extracted[c] = v
    BY <1>1, <1>2, <1>3, <1>8, <1>10 DEF Forward, Turn
  <2> QED
    BY <1>4, <1>9, <2>1 DEF Turn, AsFound, Cleared, Saved, Placed, Deferred, Swap!began
<1>11. i = task[t].i \/ (i = task[t].i + 1 /\ "clear" = "clear")
  BY <1>3
<1>12. Sole(t) => c \in Packages[v] /\ goal'[c] = v /\
                 IF i = task[t].i THEN Turn(t, c)' /\ extracted'[c] = v ELSE Placed(c, v)' \/ Deferred(c, v)'
  BY <1>2, <1>3, <1>10
<1>13. Advance(t, "clear", i, c, v)
  BY <1>1, <1>2, <1>3, <1>4, <1>5, <1>6, <1>7, <1>8, <1>11 DEF Advance
<1>14. Sole(t) => Handled(t, i, c, v)
  BY <1>12 DEF Handled
<1> QED
  BY <1>13, <1>14, Advances

LEMMA CutoverFailsStep == ASSUME SwapInv, NEW t \in Tasks, Swap!CutoverFails(t) PROVE SwapInv'
<1>1. Busy(t) /\ ~Rolling(t) /\ task' = [task EXCEPT ![t].at = "undo", ![t].i = 3]
      /\ UNCHANGED <<tree, backup, extracted, pending, incoming, Swap!began, result, notifies, stops>> /\ Swap!Failing
  BY DEF Swap!CutoverFails, Busy, Rolling
<1> QED
  BY <1>1, FailingIs, Rolls

LEMMA UndoStep == ASSUME SwapInv, NEW t \in Tasks, Swap!Undo(t) PROVE SwapInv'
<1>1. Busy(t) /\ Rolling(t) /\ task[t].i \in 1..3 /\ task[t] \in SwapTask
  BY SwapHas DEF Swap!Undo, Busy, Rolling, TaskOK
<1>0. PICK c, i : c = Swap!SwapOrder[task[t].i] /\ i = task[t].i - 1
  OBVIOUS
<1>2. c = Swap!Current(t) /\ c \in Swap!Names /\ i \in 0..2 /\ task[t].i = i + 1
  BY <1>0, <1>1, OrderIs DEF Swap!Current
<1> DEFINE r == [task[t] EXCEPT !.i = i]
<1>3. r \in SwapTask /\ r.i = i /\ r.at = task[t].at /\ r.version = task[t].version
  BY <1>1, <1>2 DEF SwapTask
<1>4. /\ task' = [task EXCEPT ![t] = r]
      /\ IF backup[c] # Swap!None THEN Swap!Restore(c) ELSE tree' = tree /\ backup' = backup
      /\ extracted' = extracted /\ pending' = pending /\ fails' = fails
      /\ UNCHANGED <<incoming, Swap!began, result, notifies, stops>>
  BY <1>0, <1>2 DEF Swap!Undo
<1> HIDE DEF r
<1>5. task'[t] = r
  BY <1>4, SwapHas
<1>6. TaskOK(t)' /\ Rolling(t)' /\ r.at \notin {"idle", "extract"} /\ task'[t].i = i /\ task'[t].at = task[t].at
  BY <1>1, <1>2, <1>3, <1>5, SwapHas DEF TaskOK, Busy, Rolling
<1>7. tree' \in Swap!Dirs /\ backup' \in Swap!Dirs /\ extracted' \in Swap!Dirs /\ pending' \subseteq Swap!Names /\ fails' \in 0..MaxFails
  BY <1>2, <1>4, SwapHas DEF Swap!Restore, SwapInv, Swap!TypeOK, Swap!Dirs
<1>8. \A n \in Swap!Names : n # c => tree'[n] = tree[n] /\ backup'[n] = backup[n]
  BY <1>4, SwapHas DEF Swap!Restore, Swap!Dirs
<1>9. tree'[c] = (IF backup[c] # Swap!None THEN backup[c] ELSE tree[c]) /\ backup'[c] = Swap!None
  BY <1>2, <1>4, SwapHas DEF Swap!Restore, Swap!Dirs
<1>10. base' = base /\ found' = found
  BY <1>4 DEF Swap!began
<1>11. ASSUME Sole(t), NEW j \in 1..3 PROVE Backward(t, j, Swap!SwapOrder[j])'
  <2>1. Backward(t, j, Swap!SwapOrder[j]) /\ Swap!SwapOrder[j] \in Swap!Names
    BY <1>1, <1>11, OrderIs DEF Sole, Lies
  <2>2. ASSUME j # i + 1 PROVE Backward(t, j, Swap!SwapOrder[j])'
    <3>1. PICK n \in Swap!Names : n = Swap!SwapOrder[j]
      BY <2>1
    <3>2. n # c /\ Backward(t, j, n)
      BY <1>0, <1>2, <1>1, <2>1, <2>2, <3>1, OrderIs
    <3>3. Safe(n)' /\ (Back(n) => Back(n)')
      BY <1>8, <1>10, <3>2 DEF Backward, Safe, Present, Sound, Back
    <3>4. j > i => j > task[t].i
      BY <1>2, <2>2
    <3> QED
      BY <1>6, <3>1, <3>2, <3>3, <3>4 DEF Backward
  <2>3. ASSUME j = i + 1 PROVE Backward(t, j, Swap!SwapOrder[j])'
    <3>1. Swap!SwapOrder[j] = c /\ Safe(c)
      BY <1>0, <1>2, <2>1, <2>3 DEF Backward
    <3>2. Safe(c)' /\ Back(c)'
      BY <1>9, <1>10, <3>1 DEF Safe, Present, Sound, Back
    <3> QED
      BY <3>1, <3>2 DEF Backward, Safe, Present, Sound, Back
  <2> QED
    BY <2>2, <2>3
<1>12. UNCHANGED <<incoming, Swap!began, result, notifies, stops>>
  BY <1>4
<1> QED
  BY <1>1, <1>3, <1>4, <1>6, <1>7, <1>11, <1>12, SwapMoves

\* A task that ends while the process goes on.
LEMMA SwapEnds ==
    ASSUME SwapInv, NEW t \in Tasks, Busy(t), NEW how \in {"refused", "error", "unrestored"},
           task' = [task EXCEPT ![t] = Swap!Idle], result' = how, fails' \in 0..MaxFails,
           UNCHANGED <<tree, backup, extracted, pending, incoming, Swap!began, notifies, stops>>,
           ~shared => \A n \in Swap!Names : Present(n) /\ Sound(n) /\ (how # "unrestored" => Back(n))
    PROVE  SwapInv'
<1>1. base' = base /\ found' = found /\ goal' = goal /\ shared' = shared /\ tree' = tree /\ backup' = backup
  BY DEF Swap!began
<1>2. Swap!Idle \in SwapTask /\ Swap!Idle.at = "idle"
  BY VersionsAre DEF Swap!Idle, SwapTask, SwapSteps
<1>3. task' \in [Tasks -> SwapTask] /\ task'[t] = Swap!Idle /\ \A u \in Tasks \ {t} : task'[u] = task[u]
  BY <1>2, SwapHas
<1>4. Swap!TypeOK'
  BY <1>3 DEF SwapInv, Swap!TypeOK, Swap!began, SwapTask, SwapSteps
<1>5. \A u \in Tasks : TaskOK(u)'
  BY <1>2, <1>3, SwapHas DEF TaskOK, Busy, Rolling, Swap!Current
<1>6. ASSUME ~shared PROVE (\A u \in Tasks : ~Busy(u)') /\ Ended'
  <2>1. Sole(t)
    BY <1>6 DEF SwapInv
  <2>2. \A u \in Tasks : ~Busy(u)'
    BY <1>2, <1>3, <2>1 DEF Sole, Busy
  <2>3. \A n \in Swap!Names : Present(n)' /\ Sound(n)' /\ (how # "unrestored" => Back(n)')
    BY <1>1, <1>6 DEF Present, Sound, Back
  <2> QED
    BY <2>2, <2>3 DEF Ended
<1> QED
  BY <1>1, <1>4, <1>5, <1>6 DEF SwapInv

\* The end of the first rollback, and of the second.
LEMMA ReturnStep ==
    ASSUME SwapInv, NEW t \in Tasks, NEW how \in {"error", "unrestored"}, Rolling(t), Swap!Return(t, how),
           fails' \in 0..MaxFails, how = "error" => task[t].i = 0,
           UNCHANGED <<tree, backup, extracted, pending, incoming, Swap!began, notifies, stops>>
    PROVE  SwapInv'
<1>1. Busy(t) /\ task[t] \in SwapTask /\ TaskOK(t)
  BY SwapHas DEF Busy, Rolling
<1>2. base' = base /\ found' = found /\ goal' = goal /\ shared' = shared /\ tree' = tree /\ backup' = backup
  BY DEF Swap!began
<1>3. ASSUME task[t].at = "undo" PROVE SwapInv'
  <2> DEFINE r == [task[t] EXCEPT !.at = "undo_again", !.i = 3]
  <2>1. "undo_again" \in SwapSteps /\ 3 \in 0..4
    BY DEF SwapSteps
  <2>2. r \in SwapTask /\ r.at = "undo_again" /\ r.i = 3 /\ r.version = task[t].version
    BY <1>1, <2>1 DEF SwapTask
  <2>3. task' = [task EXCEPT ![t] = r] /\ result' = result
    BY <1>3 DEF Swap!Return
  <2> HIDE DEF r
  <2>4. task'[t] = r
    BY <2>3, SwapHas
  <2>5. TaskOK(t)' /\ Rolling(t)' /\ r.at \notin {"idle", "extract"} /\ task'[t].i = 3
    BY <1>1, <2>2, <2>4 DEF TaskOK, Busy, Rolling
  <2>6. ASSUME Sole(t), NEW j \in 1..3 PROVE Backward(t, j, Swap!SwapOrder[j])'
    <3>1. Safe(Swap!SwapOrder[j])
      BY <2>6 DEF Sole, Lies, Backward
    <3>2. Safe(Swap!SwapOrder[j])' /\ ~(j > 3)
      BY <1>2, <3>1 DEF Safe, Present, Sound
    <3> QED
      BY <2>5, <3>2 DEF Backward
  <2>7. tree' \in Swap!Dirs /\ backup' \in Swap!Dirs /\ extracted' \in Swap!Dirs /\ pending' \subseteq Swap!Names
    BY DEF SwapInv, Swap!TypeOK
  <2>8. UNCHANGED <<incoming, Swap!began, result, notifies, stops>>
    BY <2>3
  <2> QED
    BY <1>1, <2>2, <2>3, <2>5, <2>6, <2>7, <2>8, SwapMoves
<1>4. ASSUME task[t].at # "undo" PROVE SwapInv'
  <2>1. task[t].at = "undo_again" /\ task' = [task EXCEPT ![t] = Swap!Idle] /\ result' = how
    BY <1>4 DEF Rolling, Swap!Return
  <2>2. ASSUME ~shared, NEW n \in Swap!Names PROVE Present(n) /\ Sound(n) /\ (how = "error" => Back(n))
    <3>1. PICK j \in 1..3 : Swap!SwapOrder[j] = n
      BY OrderIs
    <3>2. Backward(t, j, n)
      BY <1>1, <2>2, <3>1 DEF SwapInv, Sole, Lies
    <3> QED
      BY <2>1, <3>2 DEF Backward, Safe
  <2> QED
    BY <1>1, <2>1, <2>2, SwapEnds
<1> QED
  BY <1>3, <1>4

LEMMA UndoneStep == ASSUME SwapInv, NEW t \in Tasks, Swap!Undone(t) \/ Swap!UndoFails(t) PROVE SwapInv'
<1>1. fails \in 0..MaxFails
  BY SwapHas
<1>2. CASE Swap!Undone(t)
  BY <1>1, <1>2, ReturnStep DEF Swap!Undone, Rolling
<1>3. CASE Swap!UndoFails(t)
  BY <1>3, FailingIs, ReturnStep DEF Swap!UndoFails, Rolling
<1> QED
  BY <1>2, <1>3

\* The new tree is what the update was to leave, whatever waits for the boot.
LEMMA FinishStep == ASSUME SwapInv, NEW t \in Tasks, Swap!Finish(t) PROVE SwapInv'
<1>1. /\ task[t].at = "clear" /\ task[t].i = 4 /\ Busy(t) /\ Swapping(t) /\ result' = "ok"
      /\ task' = [u \in Tasks |-> Swap!Idle] /\ tree' = tree /\ backup' = backup /\ extracted' = extracted /\ pending' = pending
      /\ UNCHANGED <<incoming, Swap!began, notifies, fails, stops>>
  BY DEF Swap!Finish, Busy, Swapping
<1>2. ASSUME ~shared PROVE Swap!AfterBoot = goal
  <2>1. Sole(t)
    BY <1>1, <1>2 DEF SwapInv
  <2>2. ASSUME NEW n \in Swap!Names PROVE Swap!AfterBoot[n] = goal[n]
    <3>1. PICK j \in 1..3 : Swap!SwapOrder[j] = n
      BY OrderIs
    <3>2. Forward(t, j, n) /\ j < task[t].i
      BY <1>1, <2>1, <3>1 DEF Sole, Lies
    <3>3. task[t].version # Swap!None
      BY <1>1, VersionsAre, SwapHas DEF TaskOK
    <3> QED
      BY <3>2, <3>3 DEF Forward, Placed, Deferred, Swap!AfterBoot, Swap!Moved
  <2>3. goal \in Swap!Dirs
    BY SwapHas
  <2> QED
    BY <2>2, <2>3 DEF Swap!AfterBoot, Swap!Dirs
<1>3. ~shared => Ended'
  <2>1. Swap!AfterBoot' = Swap!AfterBoot /\ goal' = goal /\ base' = base /\ found' = found
    BY <1>1 DEF Swap!AfterBoot, Swap!Moved, Swap!began
  <2>2. ~shared => \A n \in Swap!Names : Sound(n)
    BY <1>1, SwapImplies DEF Swap!Recovers, Swap!NoneCutOff, Sound, Swap!Quiet, SwapInv, Busy
  <2>3. ~shared => \A n \in Swap!Names : Sound(n)'
    BY <1>1, <2>1, <2>2 DEF Sound
  <2> QED
    BY <1>1, <1>2, <2>1, <2>3 DEF Ended
<1>4. tree' \in Swap!Dirs /\ extracted' \in Swap!Dirs /\ pending' \subseteq Swap!Names /\ stops' \in 0..MaxStops
  BY <1>1 DEF SwapInv, Swap!TypeOK
<1>5. UNCHANGED <<incoming, Swap!began, notifies, fails>>
  BY <1>1
<1> QED
  BY <1>1, <1>3, <1>4, <1>5, SwapStops

LEMMA StopsIs == ASSUME SwapInv, Swap!Stops PROVE stops' \in 0..MaxStops
  BY AdminAssumption DEF Swap!Stops, SwapInv, Swap!TypeOK

LEMMA CrashStep == ASSUME SwapInv, Swap!Crash PROVE SwapInv'
<1>1. ~shared => \A n \in Swap!Names : Present(n) /\ Sound(n)
  BY SwapImplies DEF Swap!Recovers, Swap!NothingLost, Swap!NoneCutOff, Present, Sound, Swap!Crash, SwapInv
<1>2. ~shared => Ended'
  BY <1>1 DEF Ended, Present, Sound, Swap!Crash, Swap!began
<1>3. tree' \in Swap!Dirs /\ extracted' \in Swap!Dirs /\ pending' \subseteq Swap!Names /\ stops' \in 0..MaxStops
  BY StopsIs DEF Swap!Crash, SwapInv, Swap!TypeOK
<1> QED
  BY <1>2, <1>3, SwapStops DEF Swap!Crash

LEMMA RebootStep == ASSUME SwapInv, Swap!Reboot PROVE SwapInv'
<1>1. ~shared => Ended'
  BY DEF Ended, Swap!Reboot
<1>2. tree' \in Swap!Dirs /\ extracted' \in Swap!Dirs /\ pending' \subseteq Swap!Names /\ stops' \in 0..MaxStops
  <2>1. tree' = Swap!AfterBoot /\ extracted' = [n \in Swap!Names |-> IF Swap!Moved(n) THEN Swap!None ELSE extracted[n]] /\ pending' = {} /\ Swap!Stops
    BY DEF Swap!Reboot
  <2> QED
    BY <2>1, StopsIs, SwapHas DEF Swap!AfterBoot, Swap!Dirs
<1> QED
  BY <1>1, <1>2, SwapStops DEF Swap!Reboot

LEMMA NotifyStep == ASSUME SwapInv, NEW t \in Tasks, Swap!Notify(t) PROVE SwapInv'
<1>0. PICK v : v = incoming
  OBVIOUS
<1> DEFINE r == [at |-> "extract", i |-> 0, version |-> v, left |-> Packages[v]]
<1>1. /\ v > 0 /\ v \in Swap!Versions /\ notifies' \in 0..MaxNotifies /\ extracted' = extracted
      /\ task' = [task EXCEPT ![t] = r]
      /\ tree' = tree /\ backup' = backup /\ pending' = pending /\ incoming' = incoming
      /\ result' = result /\ fails' = fails /\ stops' = stops /\ task[t].at = "idle"
  BY <1>0, AdminAssumption DEF Swap!Notify, SwapInv, Swap!TypeOK
<1>2. v \in DOMAIN Packages /\ Packages[v] \subseteq Swap!Names
  BY <1>1, AdminAssumption DEF Swap!Versions
<1>3. r \in SwapTask /\ r.at = "extract" /\ r.i = 0 /\ r.version = v /\ r.left = Packages[v]
  BY <1>1, <1>2 DEF SwapTask, SwapSteps
<1> HIDE DEF r
<1>4. task' \in [Tasks -> SwapTask] /\ task'[t] = r /\ \A u \in Tasks \ {t} : task'[u] = task[u]
  BY <1>1, <1>3, SwapHas
<1>5. \A d \in Swap!Dirs : Swap!Updated(d, v) \in Swap!Dirs
  BY <1>1 DEF Swap!Updated, Swap!Dirs
<1>6. Swap!AfterBoot \in Swap!Dirs
  BY SwapHas DEF Swap!AfterBoot, Swap!Dirs
<1>7. base' \in Swap!Dirs /\ found' \in Swap!Dirs /\ goal' \in Swap!Dirs /\ shared' \in BOOLEAN
  BY <1>0, <1>5, <1>6, SwapHas DEF Swap!Notify, SwapInv, Swap!TypeOK
<1>8. Swap!TypeOK'
  BY <1>1, <1>4, <1>5, <1>7, SwapHas DEF Swap!TypeOK, SwapInv, SwapTask, SwapSteps
<1>9. \A u \in Tasks : TaskOK(u)'
  BY <1>2, <1>3, <1>4, SwapHas DEF TaskOK, Busy, Rolling, Swap!Current
<1>10. Busy(t)' /\ ~Swap!Quiet'
  BY <1>3, <1>4 DEF Busy, Swap!Quiet
<1>11. ASSUME ~shared', NEW u \in Tasks, Busy(u)' PROVE Sole(u)'
  <2>1. Swap!Quiet /\ base' = tree /\ found' = backup /\ goal' = Swap!Updated(Swap!AfterBoot, v)
    BY <1>0, <1>11 DEF Swap!Notify
  <2>2. u = t /\ \A w \in Tasks : Busy(w)' => w = t
    BY <1>4, <1>11, <2>1 DEF Swap!Quiet, Busy
  <2>3. task'[t].at = "extract" /\ task'[t].version = v /\ task'[t].left = Packages[v] /\ ~Rolling(t)' /\ ~Swapping(t)'
    BY <1>3, <1>4 DEF Rolling, Swapping
  <2>4. ASSUME NEW n \in Swap!Names PROVE Unpacked(t, n)'
    <3>1. AsFound(n)'
      BY <1>1, <2>1 DEF AsFound
    <3>2. n \notin Packages[v] => goal'[n] = Swap!AfterBoot'[n]
      BY <1>1, <2>1 DEF Swap!Updated, Swap!AfterBoot, Swap!Moved
    <3>3. n \in Packages[v] => goal'[n] = v
      BY <1>1, <2>1 DEF Swap!Updated
    <3> QED
      BY <2>3, <3>1, <3>2, <3>3 DEF Unpacked
  <2> QED
    BY <2>2, <2>3, <2>4 DEF Sole, Lies
<1> QED
  BY <1>8, <1>9, <1>10, <1>11 DEF SwapInv

\* A binary is opened, or written.
LEMMA Unpacks ==
    ASSUME SwapInv, NEW t \in Tasks, task[t].at = "extract", NEW c \in Swap!Names, NEW i \in 0..3, NEW left, NEW file,
           c \in task[t].left, left \subseteq task[t].left, i # 0 => Swap!SwapOrder[i] \in left,
           task[t].left \subseteq left \cup {c}, c \notin left => file = task[t].version, file \in {task[t].version, Swap!Partial},
           task' = [task EXCEPT ![t].i = i, ![t].left = left], extracted' = [extracted EXCEPT ![c] = file],
           UNCHANGED <<tree, backup, pending, incoming, Swap!began, result, notifies, fails, stops>>
    PROVE  SwapInv'
<1> DEFINE r == [task[t] EXCEPT !.i = i, !.left = left]
<1>1. task[t] \in SwapTask /\ TaskOK(t) /\ Busy(t)
  BY SwapHas DEF Busy
<1>2. /\ r \in SwapTask /\ r.at = "extract" /\ r.i = i /\ r.version = task[t].version /\ r.left = left
      /\ task' = [task EXCEPT ![t] = r]
  <2>1. i \in 0..4 /\ left \in SUBSET Swap!Names
    BY <1>1 DEF SwapTask
  <2>2. r \in SwapTask /\ r.at = "extract" /\ r.i = i /\ r.version = task[t].version /\ r.left = left
    BY <1>1, <2>1 DEF SwapTask
  <2>3. task' = [task EXCEPT ![t] = r]
    BY SwapHas
  <2> QED
    BY <2>2, <2>3
<1> HIDE DEF r
<1>3. task'[t] = r
  BY <1>2, SwapHas
<1>4. task[t].left \subseteq Packages[task[t].version]
  BY <1>1 DEF TaskOK
<1>5. TaskOK(t)'
  BY <1>1, <1>2, <1>3, <1>4 DEF TaskOK, Busy, Rolling, Swap!Current
<1>6. file \in Swap!Versions \cup {Swap!None, Swap!Partial}
  BY <1>1 DEF SwapTask
<1>7. /\ tree' \in Swap!Dirs /\ backup' \in Swap!Dirs /\ extracted' \in Swap!Dirs /\ pending' \subseteq Swap!Names /\ fails' \in 0..MaxFails
      /\ \A n \in Swap!Names \ {c} : extracted'[n] = extracted[n]
      /\ extracted'[c] = file
  BY <1>6, SwapHas DEF Swap!Dirs, SwapInv, Swap!TypeOK
<1>8. ASSUME Sole(t) PROVE Lies(t)'
  <2>1. ASSUME NEW n \in Swap!Names PROVE Unpacked(t, n)'
    <3>1. Unpacked(t, n)
      BY <1>8, <2>1 DEF Sole, Lies
    <3>2. AsFound(n)' /\ goal' = goal
      BY <3>1 DEF Unpacked, AsFound, Swap!began
    <3>3. n \notin Packages[task[t].version] => Swap!AfterBoot'[n] = Swap!AfterBoot[n]
      BY <1>4, <1>7 DEF Swap!AfterBoot, Swap!Moved
    <3>4. n \in Packages[task[t].version] /\ n \notin left => extracted'[n] = task[t].version
      BY <1>7, <3>1 DEF Unpacked
    <3> QED
      BY <1>2, <1>3, <3>1, <3>2, <3>3, <3>4 DEF Unpacked
  <2> QED
    BY <1>2, <1>3, <2>1 DEF Lies, Swapping, Rolling
<1>9. UNCHANGED <<incoming, Swap!began, result, notifies, stops>> /\ r.at # "idle"
  BY <1>2
<1> QED
  BY <1>1, <1>2, <1>5, <1>7, <1>8, <1>9, SwapGoes

LEMMA ExtractStep == ASSUME SwapInv, NEW t \in Tasks, Swap!Open(t) \/ Swap!Write(t) PROVE SwapInv'
<1>1. task[t] \in SwapTask /\ TaskOK(t) /\ task \in [Tasks -> SwapTask]
  BY SwapHas
<1>2. CASE Swap!Open(t)
  <2>1. PICK i \in 1..3 : /\ Swap!SwapOrder[i] \in task[t].left /\ task' = [task EXCEPT ![t].i = i]
                          /\ extracted' = [extracted EXCEPT ![Swap!SwapOrder[i]] = Swap!Partial]
    BY <1>2 DEF Swap!Open
  <2>2. task' = [task EXCEPT ![t].i = i, ![t].left = task[t].left]
    BY <1>1, <2>1 DEF SwapTask
  <2>3. Swap!SwapOrder[i] \in Swap!Names /\ i \in 0..3
    BY OrderIs
  <2> QED
    BY <1>2, <2>1, <2>2, <2>3, Unpacks DEF Swap!Open
<1>3. CASE Swap!Write(t)
  <2>1. /\ task[t].at = "extract" /\ Swap!Current(t) \in task[t].left /\ Swap!Current(t) \in Swap!Names
        /\ task' = [task EXCEPT ![t].i = 0, ![t].left = task[t].left \ {Swap!Current(t)}]
        /\ extracted' = [extracted EXCEPT ![Swap!Current(t)] = task[t].version]
    BY <1>1, <1>3 DEF Swap!Write, TaskOK, SwapTask
  <2>2. PICK left : left = task[t].left \ {Swap!Current(t)}
    OBVIOUS
  <2>3. left \subseteq task[t].left /\ task[t].left \subseteq left \cup {Swap!Current(t)} /\ task' = [task EXCEPT ![t].i = 0, ![t].left = left]
    BY <2>1, <2>2
  <2>4. PICK file : file = task[t].version
    OBVIOUS
  <2>5. Swap!Current(t) \notin left /\ extracted' = [extracted EXCEPT ![Swap!Current(t)] = file] /\ 0 \in 0..3
    BY <2>1, <2>2, <2>4
  <2>6. UNCHANGED <<tree, backup, pending, incoming, Swap!began, result, notifies, fails, stops>>
    BY <1>3 DEF Swap!Write
  <2>7. PICK i \in 0..3 : i = 0
    BY <2>5
  <2>8. task' = [task EXCEPT ![t].i = i, ![t].left = left] /\ (i # 0 => Swap!SwapOrder[i] \in left)
    BY <2>3, <2>7
  <2> QED
    BY <2>1, <2>3, <2>4, <2>5, <2>6, <2>8, Unpacks
<1> QED
  BY <1>2, <1>3

\* What was written so far is in .extracted only.
LEMMA RefuseStep == ASSUME SwapInv, NEW t \in Tasks, Swap!Refuse(t) PROVE SwapInv'
<1>1. /\ task[t].at = "extract" /\ Busy(t) /\ task' = [task EXCEPT ![t] = Swap!Idle] /\ result' = "refused" /\ fails' \in 0..MaxFails
      /\ UNCHANGED <<tree, backup, extracted, pending, incoming, Swap!began, notifies, stops>>
  BY FailingIs DEF Swap!Refuse, Busy
<1>2. ASSUME ~shared, NEW n \in Swap!Names PROVE Present(n) /\ Sound(n) /\ Back(n)
  <2>1. AsFound(n)
    BY <1>1, <1>2 DEF SwapInv, Sole, Lies, Unpacked
  <2> QED
    BY <2>1 DEF AsFound, Present, Sound, Back
<1> QED
  BY <1>1, <1>2, SwapEnds

\* Only what the next update will find.
LEMMA Elsewise ==
    ASSUME SwapInv, UNCHANGED <<tree, backup, extracted, pending, task, Swap!began, result, notifies, fails, stops>>,
           incoming' \in Swap!Versions
    PROVE  SwapInv'
<1>1. /\ tree' = tree /\ backup' = backup /\ extracted' = extracted /\ pending' = pending /\ task' = task
      /\ base' = base /\ found' = found /\ goal' = goal /\ shared' = shared /\ result' = result
  BY DEF Swap!began
<1>2. Swap!TypeOK'
  BY <1>1 DEF SwapInv, Swap!TypeOK
<1>3. \A t \in Tasks : TaskOK(t)'
  BY <1>1, SwapHas DEF TaskOK, Busy, Rolling, Swap!Current
<1>4. /\ \A n : (AsFound(n)' <=> AsFound(n)) /\ (Cleared(n)' <=> Cleared(n)) /\ (Saved(n)' <=> Saved(n))
      /\ \A n, v : (Placed(n, v)' <=> Placed(n, v)) /\ (Deferred(n, v)' <=> Deferred(n, v))
      /\ \A n : (Safe(n)' <=> Safe(n)) /\ (Back(n)' <=> Back(n)) /\ (Present(n)' <=> Present(n)) /\ (Sound(n)' <=> Sound(n))
      /\ Swap!AfterBoot' = Swap!AfterBoot
  BY <1>1 DEF AsFound, Cleared, Saved, Placed, Deferred, Safe, Back, Present, Sound, Swap!AfterBoot, Swap!Moved
<1>5. ASSUME NEW t \in Tasks, Sole(t) PROVE Sole(t)'
  <2>1. \A n : Turn(t, n) => Turn(t, n)'
    BY <1>1, <1>4 DEF Turn
  <2>2. ASSUME NEW j \in 1..3, Forward(t, j, Swap!SwapOrder[j]) PROVE Forward(t, j, Swap!SwapOrder[j])'
    BY <1>1, <1>4, <2>1, <2>2 DEF Forward
  <2>3. ASSUME NEW j \in 1..3, Backward(t, j, Swap!SwapOrder[j]) PROVE Backward(t, j, Swap!SwapOrder[j])'
    BY <1>1, <1>4, <2>3 DEF Backward
  <2>4. ASSUME NEW n, Unpacked(t, n) PROVE Unpacked(t, n)'
    BY <1>1, <1>4, <2>4 DEF Unpacked
  <2> QED
    BY <1>1, <1>5, <2>2, <2>3, <2>4 DEF Sole, Lies, Busy, Rolling, Swapping
<1>6. Ended => Ended'
  BY <1>1, <1>4 DEF Ended
<1> QED
  BY <1>1, <1>2, <1>3, <1>5, <1>6 DEF SwapInv, Busy, Swap!Quiet

LEMMA DownloadStep == ASSUME SwapInv, Swap!Download PROVE SwapInv'
<1>1. incoming' \in Swap!Versions
  BY AdminAssumption DEF Swap!Download, SwapInv, Swap!TypeOK, Swap!Versions
<1> QED
  BY <1>1, Elsewise DEF Swap!Download

LEMMA SwapStep == SwapInv /\ [Swap!Next]_(Swap!vars) => SwapInv'
<1> SUFFICES ASSUME SwapInv, [Swap!Next]_(Swap!vars) PROVE SwapInv'
  OBVIOUS
<1>1. ASSUME NEW t \in Tasks, Swap!Notify(t) \/ Swap!Step(t) PROVE SwapInv'
  BY <1>1, NotifyStep, ExtractStep, RefuseStep, PreflightStep, SkipStep, ClearStep, SaveStep, PlaceStep, PlaceFailsStep, UnsaveStep, DeferStep,
     CutoverFailsStep, FinishStep, UndoStep, UndoneStep DEF Swap!Step
<1>2. CASE UNCHANGED Swap!vars
  <2>1. UNCHANGED <<tree, backup, extracted, pending, task, Swap!began, result, notifies, fails, stops>> /\ incoming' \in Swap!Versions
    BY <1>2 DEF Swap!vars, Swap!began, SwapInv, Swap!TypeOK
  <2> QED
    BY <2>1, Elsewise
<1> QED
  BY <1>1, <1>2, DownloadStep, CrashStep, RebootStep DEF Swap!Next

\* Whatever the packages, the tasks, the renames that fail and the stops, while no other
\* update is beside it: one that ends well has every binary of its package in place, or left
\* to the next boot; one that was rolled back has every binary it found, or a backup it
\* found, and one whose package could not be written out leaves what it found; none is
\* lost or put in place cut off on the way, and the agent's own goes last.
THEOREM SwapHolds == AdminSpec => SwapTrue
<1>1. AdminInit => SwapInv
  BY SwapBegins DEF AdminInit
<1>2. [AdminNext]_<<adminPart, swapVars, pageVars, wireVars>> => [Swap!Next]_(Swap!vars)
  BY DEF AdminNext, swapVars, Swap!vars
<1>3. AdminSpec => []SwapInv
  BY <1>1, <1>2, SwapStep, PTL DEF AdminSpec
<1>4. SwapInv /\ SwapInv' /\ [Swap!Next]_(Swap!vars) => [Swap!Recovers' /\ Swap!AgentLast]_(Swap!vars)
  <2>1. (SwapInv => Swap!Recovers)'
    BY SwapImplies, PTL
  <2> QED
    BY <2>1, SwapLast
<1> QED
  BY <1>2, <1>3, <1>4, PTL DEF AdminSpec, SwapTrue, Swap!SwapTrue

-----------------------------------------------------------------------------
(* The compliance pages.  A request has an id of its own until it has ended;   *)
(* past the log its entry is there, past the bucket its document; an id that   *)
(* stands as a consent, or was answered as revoked, is of no request any more. *)

PageOps == Pages!Papers \cup Columns \cup {"publish", "record", "revoke", "ack"}
PageRequest == [pc : {"idle", "read", "get", "audit", "put", "write"}, op : PageOps \cup {"none"},
                id : Nat, seen : Nat]
AtWork(c) == pageCall[c].pc # "idle"

Asked(c) ==
  /\ AtWork(c) => pageCall[c].id \in 1..pageCalls /\ pageCall[c].op \in PageOps
  /\ pageCall[c].pc = "read" => pageCall[c].op \in Pages!Papers \cup Columns \cup {"publish"}
  /\ pageCall[c].pc = "get" => pageCall[c].op = "ack"
  /\ pageCall[c].pc \in {"put", "write"} => Pages!Entry(pageCall[c]) \in pageLog
  /\ pageCall[c].pc = "write" /\ Pages!HasDocument(pageCall[c].op) => [key |-> pageCall[c].id, bytes |-> pageCall[c].id] \in docs

OwnIds == \A c, d \in Callers : AtWork(c) /\ AtWork(d) /\ pageCall[c].id = pageCall[d].id => c = d
Spent(k) == k \in 0..pageCalls /\ \A c \in Callers : AtWork(c) => pageCall[c].id # k

PageShapes ==
  /\ pageCalls \in Nat /\ pageCall \in [Callers -> PageRequest]
  /\ DOMAIN paper = Pages!Papers
  /\ \A t \in Pages!Told("publish") : t.value \in Nat
  /\ consent = [key |-> consent.key, sha |-> consent.sha, revoked |-> consent.revoked]

PageInv ==
  /\ Pages!ComplianceTrue /\ PageShapes /\ OwnIds
  /\ \A c \in Callers : Asked(c)
  /\ Spent(consent.key) /\ \A t \in Pages!Told("revoke") : Spent(t.value)

LEMMA PagesBegin == Pages!Init => PageInv
BY AdminAssumption
   DEF Pages!Init, PageInv, Pages!ComplianceTrue, Pages!TypeOK, PageShapes, PageRequest, Pages!NoCall, OwnIds, Asked, AtWork,
       Spent, Pages!Told, Pages!Papers, Pages!Backed

\* A request that moves on as what it is, or ends.
Moves(c, k) ==
  /\ AtWork(c) /\ k \in PageRequest /\ pageCall' = [pageCall EXCEPT ![c] = k]
  /\ k.pc # "idle" => k.id = pageCall[c].id /\ k.op = pageCall[c].op /\ k.pc \notin {"read", "get"}
  /\ pageLog \subseteq pageLog' /\ docs \subseteq docs' /\ UNCHANGED pageCalls
  /\ k.pc \in {"put", "write"} => Pages!Entry(k) \in pageLog'
  /\ k.pc = "write" /\ Pages!HasDocument(k.op) => [key |-> k.id, bytes |-> k.id] \in docs'

LEMMA MovesKeeps ==
  ASSUME PageInv, NEW c \in Callers, NEW k, Moves(c, k)
  PROVE  /\ pageCall' \in [Callers -> PageRequest]
         /\ OwnIds'
         /\ \A d \in Callers : Asked(d)'
         /\ \A x : Spent(x) \/ (k.pc = "idle" /\ x = pageCall[c].id) => Spent(x)'
<1>1. pageCall' \in [Callers -> PageRequest] /\ pageCall'[c] = k /\ \A d \in Callers : d # c => pageCall'[d] = pageCall[d]
  BY DEF PageInv, PageShapes, Moves
<1>2. \A d \in Callers : AtWork(d)' => AtWork(d) /\ pageCall'[d].id = pageCall[d].id
  BY <1>1 DEF AtWork, Moves
<1>3. OwnIds'
  BY <1>2 DEF OwnIds, PageInv, AtWork
<1>4. ASSUME NEW d \in Callers PROVE Asked(d)'
  <2>1. CASE d = c
    BY <1>1, <2>1 DEF PageInv, Asked, AtWork, Pages!HasDocument, Moves
  <2>2. CASE d # c
    BY <1>1, <2>2 DEF PageInv, Asked, AtWork, Moves
  <2> QED
    BY <2>1, <2>2
<1>5. \A x : Spent(x) => Spent(x)'
  BY <1>2 DEF Spent, Moves
<1>6. ASSUME k.pc = "idle", NEW x, x = pageCall[c].id PROVE Spent(x)'
  <2>1. \A d \in Callers : AtWork(d)' => d # c
    BY <1>1, <1>6 DEF AtWork
  <2>2. \A d \in Callers : AtWork(d)' => pageCall'[d].id # x
    BY <1>2, <1>6, <2>1 DEF PageInv, OwnIds, Moves
  <2>3. pageCalls' = pageCalls /\ pageCalls \in Nat /\ pageCall[c].id \in 1..pageCalls
    BY DEF PageInv, PageShapes, Asked, Moves
  <2>4. x \in 0..pageCalls
    BY <1>6, <2>3
  <2> QED
    BY <2>2, <2>3, <2>4 DEF Spent, AtWork
<1> QED
  BY <1>1, <1>3, <1>4, <1>5, <1>6

LEMMA Ends ==
  ASSUME PageInv, NEW c \in Callers, AtWork(c), Pages!Done(c),
         pageLog \subseteq pageLog', docs \subseteq docs', UNCHANGED pageCalls
  PROVE  /\ pageCall' \in [Callers -> PageRequest]
         /\ OwnIds'
         /\ \A d \in Callers : Asked(d)' /\ pageCall'[d].pc \in {"idle", "read", "get", "audit", "put", "write"}
         /\ \A x : Spent(x) \/ x = pageCall[c].id => Spent(x)'
<1>1. Pages!NoCall \in PageRequest /\ Pages!NoCall.pc = "idle"
  BY DEF Pages!NoCall, PageRequest
<1>2. Moves(c, Pages!NoCall)
  BY <1>1 DEF Pages!Done, Moves
<1>3. pageCall' \in [Callers -> PageRequest] /\ OwnIds' /\ (\A d \in Callers : Asked(d)') /\ \A x : Spent(x) \/ x = pageCall[c].id => Spent(x)'
  BY <1>1, <1>2, MovesKeeps
<1> QED
  BY <1>3 DEF PageRequest

\* What stands is not disturbed by a longer log and more documents.
LEMMA Stands ==
  ASSUME PageInv, UNCHANGED <<paper, notice, column, consent, ack, told>>,
         pageLog \subseteq pageLog', docs \subseteq docs', pageCalls' \in Nat, pageCalls <= pageCalls',
         \A d \in docs' : d \in docs \/ (d.key \in 1..pageCalls' /\ d.bytes \in 1..pageCalls'),
         pageCall' \in [Callers -> PageRequest]
  PROVE  Pages!ComplianceTrue'
<1>1. \A n : n \in 0..pageCalls => n \in 0..pageCalls'
  BY DEF PageInv, PageShapes
<1>2. Pages!TypeOK'
  BY <1>1 DEF PageInv, PageShapes, PageRequest, Pages!ComplianceTrue, Pages!TypeOK
<1>3. \A op, k, s : Pages!Logged(op, k, s) => Pages!Logged(op, k, s)'
  BY DEF Pages!Logged
<1>4. \A op, r : Pages!Backed(op, r) => Pages!Backed(op, r)'
  BY <1>3 DEF Pages!Backed, Pages!Kept
<1>5. \A op : Pages!Told(op)' = Pages!Told(op)
  BY DEF Pages!Told
<1> QED
  BY <1>2, <1>3, <1>4, <1>5 DEF PageInv, Pages!ComplianceTrue

LEMMA BeginStep ==
  ASSUME PageInv, NEW c \in Callers, Pages!Handlers(c) PROVE PageInv'
<1>1. PICK op, pc : /\ Pages!Begin(c, op, pc) /\ op \in PageOps /\ pc \in {"read", "get", "audit"}
                    /\ pc = "read" => op \in Pages!Papers \cup Columns \cup {"publish"}
                    /\ pc = "get" => op = "ack"
  BY DEF Pages!Handlers, Pages!UploadDpa, Pages!UploadDpia, Pages!PublishAydinlatma, Pages!UpdateVerbis, Pages!UpdateCaMode, Pages!UpdateRetention,
         Pages!RecordConsent, Pages!RevokeConsent, Pages!AcknowledgeNotification, PageOps, Pages!Papers
<1>0. pageCalls' = pageCalls + 1 /\ pageCalls' \in Nat /\ pageCalls <= pageCalls'
  BY <1>1 DEF Pages!Begin, PageInv, PageShapes
<1>10. PICK i \in Nat : i = pageCalls'
  BY <1>0
<1>2. PICK k : k = [Pages!NoCall EXCEPT !.pc = pc, !.op = op, !.id = i]
  OBVIOUS
<1>12. k \in PageRequest /\ k.pc = pc /\ k.op = op /\ k.id = i
  <2>1. Pages!NoCall \in PageRequest
    BY DEF Pages!NoCall, PageRequest
  <2> QED
    BY <1>1, <1>2, <2>1 DEF PageRequest
<1>11. k \in PageRequest /\ k.pc = pc /\ k.op = op /\ k.id = pageCalls'
  BY <1>10, <1>12
<1>3. /\ k \in PageRequest /\ pageCall' = [pageCall EXCEPT ![c] = k]
      /\ pageCalls' = pageCalls + 1 /\ pageCalls' \in Nat /\ pageCalls <= pageCalls'
      /\ ~AtWork(c) /\ UNCHANGED <<docs, paper, notice, column, consent, ack, pageLog, told>>
  BY <1>0, <1>1, <1>2, <1>10, <1>11 DEF Pages!Begin, Pages!stored, PageInv, PageShapes, AtWork
<1>4. pageCall' \in [Callers -> PageRequest] /\ pageCall'[c] = k /\ \A d \in Callers : d # c => pageCall'[d] = pageCall[d]
  BY <1>3 DEF PageInv, PageShapes
<1>5. \A d \in Callers : AtWork(d) => pageCall[d].id \in 1..pageCalls
  BY DEF PageInv, Asked
<1>6. OwnIds'
  BY <1>3, <1>4, <1>5, <1>11 DEF OwnIds, AtWork, PageInv, PageShapes
<1>7. ASSUME NEW d \in Callers PROVE Asked(d)'
  BY <1>1, <1>3, <1>4, <1>11 DEF PageInv, PageShapes, Asked, AtWork
<1>8. \A x : Spent(x) => Spent(x)'
  BY <1>3, <1>4, <1>11 DEF Spent, AtWork, PageInv, PageShapes
<1>9. Pages!ComplianceTrue'
  BY <1>3, <1>4, Stands
<1> QED
  BY <1>3, <1>4, <1>6, <1>7, <1>8, <1>9 DEF PageInv, PageShapes, Pages!Told

LEMMA PageReadStep ==
  ASSUME PageInv, NEW c \in Callers, Pages!GetPrevious(c) \/ Pages!AuditAppend(c) \/ Pages!PutDocument(c) \/ Pages!Fails(c) PROVE PageInv'
<1>1. AtWork(c) /\ pageCall[c] \in PageRequest /\ pageCalls' = pageCalls /\ pageCalls \in Nat
  BY DEF Pages!GetPrevious, Pages!AuditAppend, Pages!PutDocument, Pages!Fails, AtWork, PageInv, PageShapes
<1>2. Pages!NoCall \in PageRequest /\ Pages!NoCall.pc = "idle"
  BY DEF Pages!NoCall, PageRequest
<1>3. PICK k : Moves(c, k)
  <2>1. CASE Pages!GetPrevious(c)
    <3>1. Pages!Previous(pageCall[c].op) \in Nat
      <4>1. pageCall[c].op \in Pages!Papers \cup Columns \cup {"publish"}
        BY <2>1 DEF Pages!GetPrevious, PageInv, Asked
      <4>2. (\A p \in Pages!Papers : paper[p].key \in Nat) /\ (\A x \in Columns : column[x] \in Nat) /\ notice \in Nat
        BY DEF PageInv, Pages!ComplianceTrue, Pages!TypeOK, PageShapes
      <4> QED
        BY <4>1, <4>2, AdminAssumption DEF Pages!Previous, Pages!Papers
    <3>2. PICK k : k = [pageCall[c] EXCEPT !.pc = "audit", !.seen = Pages!Previous(pageCall[c].op)]
      OBVIOUS
    <3>3. k \in PageRequest /\ k.pc = "audit" /\ k.id = pageCall[c].id /\ k.op = pageCall[c].op
      BY <1>1, <3>1, <3>2 DEF PageRequest
    <3>4. Moves(c, k)
      BY <1>1, <2>1, <3>2, <3>3 DEF Pages!GetPrevious, Pages!stored, Moves
    <3> QED
      BY <3>4
  <2>2. CASE Pages!AuditAppend(c)
    <3>1. PICK k : k = [pageCall[c] EXCEPT !.pc = IF Pages!HasDocument(pageCall[c].op) THEN "put" ELSE "write"]
      OBVIOUS
    <3>2. k \in PageRequest /\ k.pc = (IF Pages!HasDocument(pageCall[c].op) THEN "put" ELSE "write")
          /\ k.id = pageCall[c].id /\ k.op = pageCall[c].op /\ k.seen = pageCall[c].seen
      BY <1>1, <3>1 DEF PageRequest
    <3>3. Pages!Entry(k) = Pages!Entry(pageCall[c])
      BY <3>2 DEF Pages!Entry
    <3>4. Moves(c, k)
      BY <1>1, <2>2, <3>1, <3>2, <3>3 DEF Pages!AuditAppend, Pages!stored, Moves
    <3> QED
      BY <3>4
  <2>3. CASE Pages!PutDocument(c)
    <3>1. /\ Pages!Entry(pageCall[c]) \in pageLog /\ pageLog' = pageLog
          /\ docs' = docs \cup {[key |-> pageCall[c].id, bytes |-> pageCall[c].id]}
      BY <2>3 DEF Pages!PutDocument, PageInv, Asked
    <3>2. CASE pageCall' = [pageCall EXCEPT ![c].pc = "write"]
      <4>1. PICK k : k = [pageCall[c] EXCEPT !.pc = "write"]
        OBVIOUS
      <4>2. k \in PageRequest /\ k.pc = "write" /\ k.id = pageCall[c].id /\ k.op = pageCall[c].op /\ k.seen = pageCall[c].seen
        BY <1>1, <4>1 DEF PageRequest
      <4>3. Pages!Entry(k) = Pages!Entry(pageCall[c])
        BY <4>2 DEF Pages!Entry
      <4>4. Moves(c, k)
        BY <1>1, <3>1, <3>2, <4>1, <4>2, <4>3 DEF Moves
      <4> QED
        BY <4>4
    <3>3. CASE Pages!Done(c)
      <4>1. Moves(c, Pages!NoCall)
        BY <1>1, <1>2, <3>1, <3>3 DEF Pages!Done, Moves
      <4> QED
        BY <4>1
    <3> QED
      BY <2>3, <3>2, <3>3 DEF Pages!PutDocument
  <2>4. CASE Pages!Fails(c)
    <3>1. Moves(c, Pages!NoCall)
      BY <1>1, <1>2, <2>4 DEF Pages!Fails, Pages!Done, Pages!stored, Moves
    <3> QED
      BY <3>1
  <2> QED
    BY <2>1, <2>2, <2>3, <2>4
<1>4. /\ pageCall' \in [Callers -> PageRequest] /\ OwnIds' /\ (\A d \in Callers : Asked(d)')
      /\ \A x : Spent(x) => Spent(x)'
  BY <1>3, MovesKeeps
<1>5. UNCHANGED <<paper, notice, column, consent, ack, told>> /\ pageLog \subseteq pageLog' /\ docs \subseteq docs'
  BY <1>3 DEF Pages!GetPrevious, Pages!AuditAppend, Pages!PutDocument, Pages!Fails, Pages!stored, Moves
<1>6. \A d \in docs' : d \in docs \/ (d.key \in 1..pageCalls' /\ d.bytes \in 1..pageCalls')
  <2>1. pageCall[c].id \in 1..pageCalls
    BY <1>1 DEF PageInv, Asked
  <2>2. docs' = docs \/ docs' = docs \cup {[key |-> pageCall[c].id, bytes |-> pageCall[c].id]}
    BY DEF Pages!GetPrevious, Pages!AuditAppend, Pages!PutDocument, Pages!Fails, Pages!stored
  <2> QED
    BY <1>1, <2>1, <2>2
<1>7. Pages!ComplianceTrue'
  BY <1>1, <1>4, <1>5, <1>6, Stands
<1> QED
  BY <1>1, <1>4, <1>5, <1>7 DEF PageInv, PageShapes, Pages!Told

\* What a request that ends with a row or an answer leaves as it was.
LEMMA EndsHere ==
  ASSUME PageInv, NEW c \in Callers, AtWork(c), Pages!Done(c), UNCHANGED <<docs, pageLog, pageCalls>>
  PROVE  /\ pageCall' \in [Callers -> PageRequest]
         /\ OwnIds'
         /\ \A d \in Callers : Asked(d)' /\ pageCall'[d].pc \in {"idle", "read", "get", "audit", "put", "write"}
         /\ \A x : Spent(x) \/ x = pageCall[c].id => Spent(x)'
         /\ pageCall[c].id \in 1..pageCalls /\ pageCalls' \in Nat
         /\ \A op, k, s : Pages!Logged(op, k, s)' <=> Pages!Logged(op, k, s)
         /\ \A op, r : Pages!Backed(op, r)' <=> Pages!Backed(op, r)
<1>1. pageCall[c].id \in 1..pageCalls /\ pageCalls' \in Nat
  BY DEF PageInv, PageShapes, Asked
<1>2. \A op, k, s : Pages!Logged(op, k, s)' <=> Pages!Logged(op, k, s)
  BY DEF Pages!Logged
<1>3. \A op, r : Pages!Backed(op, r)' <=> Pages!Backed(op, r)
  BY <1>2 DEF Pages!Backed, Pages!Kept
<1> QED
  BY <1>1, <1>2, <1>3, Ends

LEMMA PaperStep ==
  ASSUME PageInv, NEW c \in Callers, Pages!UpdatePaper(c) PROVE PageInv'
<1>1. PICK p \in Pages!Papers : Pages!Writes(c, p) /\ paper' = [paper EXCEPT ![p] = [key |-> pageCall[c].id, sha |-> Pages!Sha(pageCall[c].id)]]
                          /\ Pages!Answer(c, pageCall[c].id, FALSE)
                          /\ UNCHANGED <<docs, notice, column, consent, ack, pageLog, pageCalls>>
  BY DEF Pages!UpdatePaper
<1>2. AtWork(c) /\ Pages!Done(c)
  BY <1>1 DEF Pages!Writes, Pages!Answer, AtWork
<1>3. /\ Pages!Entry(pageCall[c]) \in pageLog /\ [key |-> pageCall[c].id, bytes |-> pageCall[c].id] \in docs
      /\ Pages!Entry(pageCall[c]).op = p /\ Pages!Entry(pageCall[c]).id = pageCall[c].id /\ Pages!Entry(pageCall[c]).sha = Pages!Sha(pageCall[c].id)
  BY <1>1 DEF Pages!Writes, PageInv, Asked, Pages!Entry, Pages!HasDocument
<1>4. Pages!Logged(p, pageCall[c].id, Pages!Sha(pageCall[c].id)) /\ Pages!Kept(pageCall[c].id, Pages!Sha(pageCall[c].id))
  BY <1>3 DEF Pages!Logged, Pages!Kept
<1>5. /\ DOMAIN paper' = Pages!Papers
      /\ \A q \in Pages!Papers :
             paper'[q] = IF q = p THEN [key |-> pageCall[c].id, sha |-> Pages!Sha(pageCall[c].id)] ELSE paper[q]
  BY <1>1 DEF PageInv, PageShapes
<1>6. \A q \in Pages!Papers : Pages!Backed(q, paper'[q]) /\ paper'[q].key \in 0..pageCalls
  BY <1>1, <1>2, <1>4, <1>5, EndsHere DEF Pages!Backed, PageInv, PageShapes, Pages!ComplianceTrue, Pages!TypeOK
<1>7. \A op \in {"publish", "revoke", "ack"} : Pages!Told(op)' = Pages!Told(op)
  BY <1>1 DEF Pages!Answer, Pages!Writes, Pages!Told, Pages!Papers
<1>8. Pages!TypeOK'
  BY <1>1, <1>2, <1>6, EndsHere DEF PageInv, Pages!ComplianceTrue, Pages!TypeOK
<1>9. \A q \in Pages!Papers : Pages!Backed(q, paper[q])'
  BY <1>1, <1>6 DEF Pages!Backed, Pages!Kept, Pages!Logged
<1>10. Pages!ComplianceTrue'
  BY <1>1, <1>2, <1>7, <1>8, <1>9, EndsHere DEF PageInv, Pages!ComplianceTrue
<1> QED
  BY <1>1, <1>2, <1>5, <1>7, <1>10, EndsHere DEF PageInv, PageShapes

LEMMA VersionStep ==
  ASSUME PageInv, NEW c \in Callers, Pages!IncrementVersion(c) PROVE PageInv'
<1>1. AtWork(c) /\ Pages!Done(c) /\ UNCHANGED <<docs, paper, column, consent, ack, pageLog, pageCalls>>
  BY DEF Pages!IncrementVersion, Pages!Writes, Pages!Answer, AtWork
<1>2. PICK n : n = notice + 1
  OBVIOUS
<1>3. PICK a : a = [op |-> "publish", id |-> pageCall[c].id, value |-> n, old |-> FALSE]
  OBVIOUS
<1>4. /\ notice' = n /\ n \in Nat /\ notice \in Nat /\ notice < n
      /\ told' = told \cup {a} /\ a.value = n /\ a.id = pageCall[c].id /\ a.op = "publish"
  BY <1>2, <1>3 DEF Pages!IncrementVersion, Pages!Writes, Pages!Answer, PageInv, PageShapes, Pages!ComplianceTrue, Pages!TypeOK
<1>5. Pages!Logged("publish", a.id, <<>>)
  BY <1>4 DEF Pages!IncrementVersion, Pages!Writes, PageInv, Asked, Pages!Entry, Pages!HasDocument, Pages!Papers, Pages!Logged
<1>6. Pages!Told("publish")' = Pages!Told("publish") \cup {a} /\ Pages!Told("revoke")' = Pages!Told("revoke") /\ Pages!Told("ack")' = Pages!Told("ack")
  BY <1>4 DEF Pages!Told
<1>7. /\ \A t \in Pages!Told("publish") : t.value <= notice /\ Pages!Logged("publish", t.id, <<>>)
      /\ \A t, u \in Pages!Told("publish") : t.value = u.value => t = u
      /\ \A t \in Pages!Told("publish") : t.value \in Nat
  BY DEF PageInv, Pages!ComplianceTrue, PageShapes
<1>8. /\ \A t \in Pages!Told("publish")' : t.value <= n /\ Pages!Logged("publish", t.id, <<>>)
      /\ \A t, u \in Pages!Told("publish")' : t.value = u.value => t = u
      /\ \A t \in Pages!Told("publish")' : t.value \in Nat
  BY <1>4, <1>5, <1>6, <1>7
<1>9. Pages!TypeOK'
  BY <1>1, <1>4, EndsHere DEF PageInv, Pages!ComplianceTrue, Pages!TypeOK
<1>10. Pages!ComplianceTrue'
  BY <1>1, <1>4, <1>6, <1>8, <1>9, EndsHere DEF PageInv, Pages!ComplianceTrue
<1> QED
  BY <1>1, <1>6, <1>8, <1>10, EndsHere DEF PageInv, PageShapes

LEMMA ColumnStep ==
  ASSUME PageInv, NEW c \in Callers, Pages!SetColumn(c) PROVE PageInv'
<1>1. PICK x \in Columns : Pages!Writes(c, x) /\ Pages!Done(c) /\ column' = [column EXCEPT ![x] = pageCall[c].id]
                           /\ UNCHANGED <<docs, paper, notice, consent, ack, pageLog, told, pageCalls>>
  BY DEF Pages!SetColumn
<1>2. AtWork(c)
  BY <1>1 DEF Pages!Writes, AtWork
<1>3. Pages!Logged(x, pageCall[c].id, <<>>)
  BY <1>1, AdminAssumption DEF Pages!Writes, PageInv, Asked, Pages!Entry, Pages!HasDocument, Pages!Papers, Pages!Logged
<1>4. column' \in [Columns -> 0..pageCalls] /\ \A y \in Columns : column'[y] # 0 => Pages!Logged(y, column'[y], <<>>)
  BY <1>1, <1>2, <1>3, EndsHere DEF PageInv, PageShapes, Pages!ComplianceTrue, Pages!TypeOK
<1>5. Pages!Told("publish")' = Pages!Told("publish") /\ Pages!Told("revoke")' = Pages!Told("revoke") /\ Pages!Told("ack")' = Pages!Told("ack")
  BY <1>1 DEF Pages!Told
<1>6. Pages!TypeOK'
  BY <1>1, <1>2, <1>4, EndsHere DEF PageInv, Pages!ComplianceTrue, Pages!TypeOK
<1>7. \A y \in Columns : (column[y] # 0 => Pages!Logged(y, column[y], <<>>))'
  BY <1>1, <1>4 DEF Pages!Logged
<1>8. Pages!ComplianceTrue'
  BY <1>1, <1>2, <1>5, <1>6, <1>7, EndsHere DEF PageInv, Pages!ComplianceTrue
<1> QED
  BY <1>1, <1>2, <1>5, <1>8, EndsHere DEF PageInv, PageShapes

LEMMA RecordStep ==
  ASSUME PageInv, NEW c \in Callers, Pages!UpsertConsent(c) PROVE PageInv'
<1>1. /\ AtWork(c) /\ Pages!Done(c) /\ UNCHANGED <<docs, paper, notice, column, ack, pageLog, pageCalls>>
      /\ consent' = [key |-> pageCall[c].id, sha |-> Pages!Sha(pageCall[c].id), revoked |-> FALSE]
  BY DEF Pages!UpsertConsent, Pages!Writes, Pages!Answer, AtWork
<1>2. /\ Pages!Entry(pageCall[c]) \in pageLog /\ [key |-> pageCall[c].id, bytes |-> pageCall[c].id] \in docs
      /\ Pages!Entry(pageCall[c]).op = "record" /\ Pages!Entry(pageCall[c]).id = pageCall[c].id /\ Pages!Entry(pageCall[c]).sha = Pages!Sha(pageCall[c].id)
  BY DEF Pages!UpsertConsent, Pages!Writes, PageInv, Asked, Pages!Entry, Pages!HasDocument
<1>3. Pages!Backed("record", consent')
  BY <1>1, <1>2 DEF Pages!Logged, Pages!Kept, Pages!Backed
<1>4. Pages!Backed("record", consent)'
  BY <1>1, <1>3 DEF Pages!Logged, Pages!Kept, Pages!Backed
<1>5. Pages!Told("publish")' = Pages!Told("publish") /\ Pages!Told("revoke")' = Pages!Told("revoke") /\ Pages!Told("ack")' = Pages!Told("ack")
  BY DEF Pages!UpsertConsent, Pages!Writes, Pages!Answer, Pages!Told
<1>6. consent'.key = pageCall[c].id /\ consent'.key \in 0..pageCalls /\ consent'.revoked \in BOOLEAN
  <2>1. pageCall[c].id \in 1..pageCalls /\ pageCalls \in Nat
    BY <1>1, EndsHere
  <2> QED
    BY <1>1, <2>1
<1>7. Pages!TypeOK'
  BY <1>1, <1>6, EndsHere DEF PageInv, Pages!ComplianceTrue, Pages!TypeOK
<1>8. \A t \in Pages!Told("revoke") : t.value # pageCall[c].id
  BY <1>1 DEF PageInv, Spent
<1>9. Pages!ComplianceTrue'
  BY <1>1, <1>4, <1>5, <1>6, <1>7, <1>8, EndsHere DEF PageInv, Pages!ComplianceTrue
<1>10. Spent(consent.key)'
  BY <1>1, <1>6, EndsHere
<1> QED
  BY <1>1, <1>5, <1>6, <1>9, <1>10, EndsHere DEF PageInv, PageShapes


LEMMA RevokeStep ==
  ASSUME PageInv, NEW c \in Callers, Pages!SetRevoked(c) PROVE PageInv'
<1>1. AtWork(c) /\ Pages!Done(c) /\ UNCHANGED <<docs, paper, notice, column, ack, pageLog, pageCalls>>
  BY DEF Pages!SetRevoked, Pages!Writes, Pages!Answer, AtWork
<1>2. CASE UNCHANGED <<consent, told>>
  BY <1>1, <1>2, Ends, Stands DEF PageInv, PageShapes, Pages!Told
<1>3. CASE consent.key # 0 /\ ~consent.revoked /\ consent' = [consent EXCEPT !.revoked = TRUE] /\ Pages!Answer(c, consent.key, FALSE)
  <2>1. PICK a : a = [op |-> "revoke", id |-> pageCall[c].id, value |-> consent.key, old |-> FALSE]
    OBVIOUS
  <2>2. told' = told \cup {a} /\ a.value = consent.key /\ a.op = "revoke"
    BY <1>3, <2>1 DEF Pages!SetRevoked, Pages!Writes, Pages!Answer
  <2>3. Pages!Told("publish")' = Pages!Told("publish") /\ Pages!Told("revoke")' = Pages!Told("revoke") \cup {a} /\ Pages!Told("ack")' = Pages!Told("ack")
    BY <2>2 DEF Pages!Told
  <2>4. consent'.key = consent.key /\ consent'.sha = consent.sha /\ consent'.revoked
        /\ consent' = [key |-> consent'.key, sha |-> consent'.sha, revoked |-> consent'.revoked]
    BY <1>3 DEF PageInv, PageShapes
  <2>5. \A t \in Pages!Told("revoke") : t.value # consent.key
    BY <1>3 DEF PageInv, Pages!ComplianceTrue
  <2>6. \A t, u \in Pages!Told("revoke")' : t.value = u.value => t = u
    BY <2>2, <2>3, <2>5 DEF PageInv, Pages!ComplianceTrue
  <2>7. Pages!TypeOK'
    BY <1>1, <2>4, EndsHere DEF PageInv, Pages!ComplianceTrue, Pages!TypeOK
  <2>8. Pages!Backed("record", consent)'
    BY <1>1, <2>4 DEF PageInv, Pages!ComplianceTrue, Pages!Backed, Pages!Kept, Pages!Logged
  <2>9. Pages!ComplianceTrue'
    BY <1>1, <2>3, <2>4, <2>6, <2>7, <2>8, EndsHere DEF PageInv, Pages!ComplianceTrue
  <2>10. (\A t \in Pages!Told("revoke") : Spent(t.value))' /\ Spent(consent.key)'
    BY <1>1, <2>2, <2>3, <2>4, EndsHere DEF PageInv
  <2> QED
    BY <1>1, <2>3, <2>4, <2>9, <2>10, EndsHere DEF PageInv, PageShapes
<1> QED
  BY <1>2, <1>3 DEF Pages!SetRevoked

LEMMA AckStep ==
  ASSUME PageInv, NEW c \in Callers, Pages!GetAcknowledgement(c) \/ Pages!InsertAcknowledgement(c) PROVE PageInv'
<1>1. ASSUME ack # 0, Pages!Answer(c, ack, TRUE), AtWork(c), pageCall[c].op = "ack",
             UNCHANGED <<docs, paper, notice, column, consent, ack, pageLog, pageCalls>>
      PROVE  PageInv'
  <2>1. PICK a : a = [op |-> "ack", id |-> pageCall[c].id, value |-> ack, old |-> TRUE]
    OBVIOUS
  <2>2. Pages!Done(c) /\ told' = told \cup {a} /\ a.value = ack /\ a.op = "ack"
    BY <1>1, <2>1 DEF Pages!Answer
  <2>3. Pages!Told("publish")' = Pages!Told("publish") /\ Pages!Told("revoke")' = Pages!Told("revoke") /\ Pages!Told("ack")' = Pages!Told("ack") \cup {a}
    BY <2>2 DEF Pages!Told
  <2>4. Pages!TypeOK'
    BY <1>1, <2>2, EndsHere DEF PageInv, Pages!ComplianceTrue, Pages!TypeOK
  <2>5. Pages!ComplianceTrue'
    BY <1>1, <2>2, <2>3, <2>4, EndsHere DEF PageInv, Pages!ComplianceTrue
  <2> QED
    BY <1>1, <2>2, <2>3, <2>5, EndsHere DEF PageInv, PageShapes
<1>2. ASSUME pageCall' = [pageCall EXCEPT ![c].pc = "audit"], AtWork(c), UNCHANGED <<docs, paper, notice, column, consent, ack, pageLog, pageCalls, told>>
      PROVE  PageInv'
  <2>1. PICK k : k = [pageCall[c] EXCEPT !.pc = "audit"]
    OBVIOUS
  <2>2. k \in PageRequest /\ k.pc = "audit" /\ k.id = pageCall[c].id /\ k.op = pageCall[c].op
    BY <2>1 DEF PageInv, PageShapes, PageRequest
  <2>3. Moves(c, k)
    BY <1>2, <2>1, <2>2 DEF Moves
  <2>4. Pages!ComplianceTrue'
    BY <1>2, <2>3, MovesKeeps, Stands DEF PageInv, PageShapes
  <2> QED
    BY <1>2, <2>3, <2>4, MovesKeeps DEF PageInv, PageShapes, Pages!Told
<1>3. ASSUME Pages!InsertAcknowledgement(c) PROVE PageInv'
  <2>1. AtWork(c) /\ Pages!Done(c) /\ UNCHANGED <<docs, paper, notice, column, consent, pageLog, pageCalls>>
    BY <1>3 DEF Pages!InsertAcknowledgement, Pages!Writes, Pages!Answer, AtWork
  <2>2. PICK a : a = [op |-> "ack", id |-> pageCall[c].id, value |-> pageCall[c].id, old |-> FALSE]
    OBVIOUS
  <2>3. told' = told \cup {a} /\ a.value = pageCall[c].id /\ a.op = "ack" /\ ~a.old
    BY <1>3, <2>2 DEF Pages!InsertAcknowledgement, Pages!Writes, Pages!Answer
  <2>4. Pages!Told("publish")' = Pages!Told("publish") /\ Pages!Told("revoke")' = Pages!Told("revoke") /\ Pages!Told("ack")' = Pages!Told("ack") \cup {a}
    BY <2>3 DEF Pages!Told
  <2>5. Pages!Logged("ack", pageCall[c].id, <<>>)
    BY <1>3 DEF Pages!InsertAcknowledgement, Pages!Writes, PageInv, Asked, Pages!Entry, Pages!HasDocument, Pages!Papers, Pages!Logged
  <2>6. pageCall[c].id \in 1..pageCalls /\ pageCalls \in Nat /\ ack \in 0..pageCalls
    BY <2>1, EndsHere DEF PageInv, Pages!ComplianceTrue, Pages!TypeOK
  <2>7. ack' \in 0..pageCalls /\ ack' # 0 /\ Pages!Logged("ack", ack', <<>>) /\ (ack # 0 => ack' = ack)
    BY <1>3, <2>5, <2>6 DEF Pages!InsertAcknowledgement, PageInv, Pages!ComplianceTrue
  <2>8. Pages!TypeOK'
    BY <2>1, <2>7, EndsHere DEF PageInv, Pages!ComplianceTrue, Pages!TypeOK
  <2>9. Pages!ComplianceTrue'
    BY <2>1, <2>3, <2>4, <2>5, <2>7, <2>8, EndsHere DEF PageInv, Pages!ComplianceTrue
  <2> QED
    BY <2>1, <2>4, <2>9, EndsHere DEF PageInv, PageShapes
<1>4. Pages!GetAcknowledgement(c) => AtWork(c) /\ pageCall[c].op = "ack"
  BY DEF Pages!GetAcknowledgement, AtWork, PageInv, Asked
<1> QED
  BY <1>1, <1>2, <1>3, <1>4 DEF Pages!GetAcknowledgement, Pages!stored

LEMMA PageStep == PageInv /\ [Pages!Next]_(Pages!vars) => PageInv'
<1> SUFFICES ASSUME PageInv, [Pages!Next]_(Pages!vars) PROVE PageInv'
  OBVIOUS
<1>1. CASE UNCHANGED Pages!vars
  BY <1>1 DEF Pages!vars, Pages!stored, PageInv, PageShapes, OwnIds, Asked, AtWork, Spent, Pages!Told,
             Pages!ComplianceTrue, Pages!TypeOK, Pages!Backed, Pages!Kept, Pages!Logged
<1>2. ASSUME NEW c \in Callers, Pages!Handlers(c) \/ Pages!Steps(c) PROVE PageInv'
  BY <1>2, BeginStep, PageReadStep, PaperStep, VersionStep, ColumnStep, RecordStep, RevokeStep, AckStep DEF Pages!Steps
<1> QED
  BY <1>1, <1>2 DEF Pages!Next

\* For any calls at once, wherever they fail: a paper or consent that stands names a stored
\* document and was logged, no two publishers were told one version, of overlapping
\* revocations one ended the consent, and an acknowledgement cites the log.
THEOREM ComplianceHolds == AdminSpec => []ComplianceTrue
<1>1. AdminInit => PageInv
  BY PagesBegin DEF AdminInit
<1>2. [AdminNext]_<<adminPart, swapVars, pageVars, wireVars>> => [Pages!Next]_(Pages!vars)
  BY DEF AdminNext, pageVars, Pages!vars, Pages!stored
<1>3. PageInv => ComplianceTrue
  BY DEF PageInv, ComplianceTrue
<1> QED
  BY <1>1, <1>2, <1>3, PageStep, PTL DEF AdminSpec

-----------------------------------------------------------------------------
(* The connections.  A request that writes has its entry in the log, and an     *)
(* update the row it looked up; what had been answered when it came is answered *)
(* still, it is not, and no other request has its number.                       *)

Target == [id : Nat, name : TargetNames, config : Nat, enabled : {"on", "off"}]
WireOps == {"create", "update", "delete", "run", "upsert", "remove"}
WireRequest == [pc : {"idle", "read", "encrypt", "audit", "write"}, op : WireOps \cup {Wires!None}, id : 0..MaxCalls,
                target : Nat, fields : Wires!Fields, seen : SUBSET Target, since : SUBSET Nat]
Underway(c) == wireCall[c].pc # "idle"

\* What a request k is once it is underway, under a log l and the answers a.
Proper(k, l, a) ==
  k.pc # "idle" =>
    /\ k.id # 0 /\ k.op \in WireOps /\ k.id \notin a /\ k.since \subseteq a
    /\ k.op = "create" => k.fields.name \in TargetNames /\ k.fields.enabled = "on"
    /\ k.op = "upsert" => k.target = 0 /\ k.fields.enabled \in {"on", "off"}
    /\ k.op = "update" /\ k.pc # "read" => k.seen # {}
    /\ k.op = "delete" => k.target \in a
    /\ k.pc = "write" => Wires!Entry(k) \in l
    /\ \A e \in l : e.id = k.id => k.pc = "write" /\ e = Wires!Entry(k)

Numbered == \A c, d \in Callers : Underway(c) /\ Underway(d) /\ wireCall[c].id = wireCall[d].id => c = d

\* What the log holds is of requests that came, after those they name as answered.
Past == \A e \in wireLog : /\ e.id \in 1..wireCalls /\ e.since \subseteq answered
                           /\ e.op = "delete" => e.target \in answered
Rooted == /\ \A t \in targets : t.id \in answered /\ t.config \in answered
          /\ service.config \in answered \cup {0}

WireShapes ==
  /\ wireCalls \in 0..MaxCalls /\ targets \subseteq Target
  /\ wireCall \in [Callers -> WireRequest]
  /\ \A c \in Callers : wireCall[c].id \in 0..wireCalls

WireInv ==
  /\ Wires!ConnectorsTrue /\ WireShapes /\ Past /\ Rooted /\ Numbered
  /\ \A c \in Callers : Proper(wireCall[c], wireLog, answered)

LEMMA NothingAsked == Wires!NoFields \in Wires!Fields /\ Wires!NoCall \in WireRequest /\ Wires!NoCall.pc = "idle" /\ Wires!NoCall.id = 0
<1>1. Wires!NoFields \in Wires!Fields
  BY AdminAssumption DEF Wires!NoFields, Wires!Fields
<1> QED
  BY <1>1, AdminAssumption DEF Wires!NoCall, WireRequest

LEMMA WiresBegin == Wires!Init => WireInv
<1> SUFFICES ASSUME Wires!Init PROVE WireInv
  OBVIOUS
<1>1. WireShapes /\ Past /\ Numbered /\ \A c \in Callers : Proper(wireCall[c], wireLog, answered)
  BY NothingAsked, AdminAssumption DEF Wires!Init, WireShapes, Past, Numbered, Underway, Proper
<1>2. service.config = 0 /\ service = Wires!NoService
  BY DEF Wires!Init, Wires!NoService
<1>3. Wires!ConnectorsTrue /\ Rooted
  BY <1>2, NothingAsked, AdminAssumption DEF Wires!Init, Wires!ConnectorsTrue, Wires!TypeOK, Wires!Superseded, Rooted
<1> QED
  BY <1>1, <1>3 DEF WireInv

\* What stands is not disturbed by entries of unanswered requests, or later ones.
LEMMA RowsStand ==
  ASSUME WireInv, UNCHANGED <<targets, runs, service, answered>>, wireLog \subseteq wireLog',
         \A e \in wireLog' : e \in wireLog \/ e.id \notin answered,
         wireCalls' \in Nat, wireCalls <= wireCalls', wireCall' \in [Callers -> WireRequest]
  PROVE  Wires!ConnectorsTrue' /\ Rooted'
<1>1. \A op, i : Wires!Logged(op, i) => Wires!Logged(op, i)'
  BY DEF Wires!Logged
<1>2. \A n : n \in 1..wireCalls => n \in 1..wireCalls'
  BY DEF WireInv, WireShapes
<1>3. Wires!TypeOK'
  BY <1>2 DEF WireInv, Wires!ConnectorsTrue, Wires!TypeOK, WireRequest, WireShapes
<1>4. /\ \A n, e : Wires!Taken(n, e)' <=> Wires!Taken(n, e)
      /\ \A x, ops, i : Wires!Superseded(x, ops, i)' => Wires!Superseded(x, ops, i)
      /\ \A i : Wires!Deleted(i)' => Wires!Deleted(i)
  BY DEF Wires!Taken, Wires!Superseded, Wires!Deleted
<1>5. \A t \in targets' :
        /\ Wires!Logged("create", t.id)' /\ ~Wires!Deleted(t.id)'
        /\ Wires!Logged("create", t.config)' \/ Wires!Logged("update", t.config)'
        /\ ~Wires!Superseded(t.config, {"update"}, t.id)' /\ ~Wires!Taken(t.name, t.id)'
  BY <1>1, <1>4 DEF WireInv, Wires!ConnectorsTrue
<1>6. /\ service' # Wires!NoService =>
           \E e \in wireLog' : e.op = "upsert" /\ e.id = service'.config /\ e.fields.enabled = service'.enabled
      /\ ~Wires!Superseded(service.config, {"upsert", "remove"}, 0)'
      /\ \A r \in runs' : Wires!Logged("run", r.id)' /\ \E t \in targets' : t.id = r.target
  BY <1>1, <1>4 DEF WireInv, Wires!ConnectorsTrue
<1>7. Wires!ConnectorsTrue'
  BY <1>3, <1>5, <1>6 DEF Wires!ConnectorsTrue
<1> QED
  BY <1>7 DEF WireInv, Rooted

\* One request takes the form k; the others are what they were.
LEMMA OneMoves ==
  ASSUME WireInv, NEW c \in Callers, NEW k \in WireRequest, wireCall' = [wireCall EXCEPT ![c] = k], k.id <= wireCalls',
         wireCalls' \in 0..MaxCalls, wireCalls <= wireCalls', targets' \subseteq Target,
         wireLog \subseteq wireLog', \A e \in wireLog' : e \in wireLog \/ (Underway(c) /\ e.id = wireCall[c].id),
         answered \subseteq answered', \A i \in answered' : i \in answered \/ (Underway(c) /\ i = wireCall[c].id),
         k.pc = "idle" \/ k.id = wireCalls + 1 \/ (Underway(c) /\ k.id = wireCall[c].id),
         Proper(k, wireLog', answered')
  PROVE  WireShapes' /\ Numbered' /\ \A d \in Callers : Proper(wireCall[d], wireLog, answered)'
<1>1. wireCall' \in [Callers -> WireRequest] /\ wireCall'[c] = k /\ \A d \in Callers : d # c => wireCall'[d] = wireCall[d]
  BY DEF WireInv, WireShapes
<1>2. \A d \in Callers : wireCall'[d].id \in 0..wireCalls'
  BY <1>1, AdminAssumption DEF WireInv, WireShapes, WireRequest
<1>3. \A d \in Callers : d # c /\ Underway(d) =>
        /\ wireCall[d].id # wireCall[c].id \/ ~Underway(c)
        /\ k.pc # "idle" => wireCall[d].id # k.id
        /\ wireCall[d].id \in 0..wireCalls
  BY AdminAssumption DEF WireInv, Numbered, WireShapes
<1>4. ASSUME NEW d \in Callers PROVE Proper(wireCall[d], wireLog, answered)'
  <2>1. CASE d = c
    BY <1>1, <2>1
  <2>2. CASE d # c
    <3>1. Proper(wireCall[d], wireLog, answered) /\ wireCall'[d] = wireCall[d]
      BY <1>1, <2>2 DEF WireInv
    <3>2. ASSUME Underway(d) PROVE /\ wireCall[d].id \notin answered' /\ wireCall[d].since \subseteq answered'
                                   /\ \A e \in wireLog' : e.id = wireCall[d].id => e \in wireLog
      BY <1>3, <2>2, <3>1, <3>2 DEF Proper, Underway
    <3> QED
      BY <3>1, <3>2 DEF Proper, Underway
  <2> QED
    BY <2>1, <2>2
<1>5. Numbered'
  BY <1>1, <1>3 DEF WireInv, Numbered, Underway
<1> QED
  BY <1>1, <1>2, <1>4, <1>5 DEF WireShapes

LEMMA AskStep ==
  ASSUME WireInv, NEW c \in Callers, Wires!Handlers(c) PROVE WireInv'
<1>1. PICK op, pc, target, fields :
        /\ Wires!Begin(c, op, pc, target, fields)
        /\ op \in WireOps /\ pc \in {"read", "encrypt", "audit"} /\ target \in Nat /\ fields \in Wires!Fields
        /\ op = "create" => fields.name \in TargetNames /\ fields.enabled = "on"
        /\ op = "upsert" => target = 0 /\ fields.enabled \in {"on", "off"}
        /\ op = "update" => pc = "read"
        /\ op = "delete" => target \in answered
  <2>1. Wires!Ids \subseteq Nat /\ Wires!Ids \subseteq answered
    BY DEF Wires!Ids, WireInv, WireShapes, Target, Rooted
  <2>2. CASE Wires!CreateTarget(c)
    <3>1. PICK n \in TargetNames : Wires!Begin(c, "create", "encrypt", 0, [name |-> n, config |-> TRUE, enabled |-> "on"])
      BY <2>2 DEF Wires!CreateTarget
    <3>2. PICK f : f = [name |-> n, config |-> TRUE, enabled |-> "on"]
      OBVIOUS
    <3>3. f \in Wires!Fields /\ f.name \in TargetNames /\ f.enabled = "on" /\ Wires!Begin(c, "create", "encrypt", 0, f)
      BY <3>1, <3>2 DEF Wires!Fields
    <3> QED
      BY <3>3 DEF WireOps
  <2>3. CASE Wires!UpdateTarget(c)
    BY <2>1, <2>3 DEF Wires!UpdateTarget, WireOps
  <2>4. CASE Wires!DeleteTarget(c) \/ Wires!TriggerRun(c)
    BY <2>1, <2>4, NothingAsked DEF Wires!DeleteTarget, Wires!TriggerRun, WireOps
  <2>5. CASE Wires!Upsert(c)
    <3>1. PICK e \in {"on", "off"} : Wires!Begin(c, "upsert", "encrypt", 0, [name |-> Wires!None, config |-> TRUE, enabled |-> e])
      BY <2>5 DEF Wires!Upsert
    <3>2. PICK f : f = [name |-> Wires!None, config |-> TRUE, enabled |-> e]
      OBVIOUS
    <3>3. f \in Wires!Fields /\ f.enabled = e /\ Wires!Begin(c, "upsert", "encrypt", 0, f)
      BY <3>1, <3>2 DEF Wires!Fields
    <3> QED
      BY <3>3 DEF WireOps
  <2>6. CASE Wires!Delete(c)
    BY <2>6, NothingAsked DEF Wires!Delete, WireOps
  <2> QED
    BY <2>2, <2>3, <2>4, <2>5, <2>6 DEF Wires!Handlers
<1>2. wireCalls' = wireCalls + 1 /\ wireCalls' \in 0..MaxCalls /\ wireCalls <= wireCalls' /\ wireCalls' # 0
  BY <1>1, AdminAssumption DEF Wires!Begin, WireInv, WireShapes
<1>3. PICK i \in 0..MaxCalls : i = wireCalls'
  BY <1>2
<1>4. PICK k : k = [Wires!NoCall EXCEPT !.pc = pc, !.op = op, !.id = i, !.target = target, !.fields = fields, !.since = answered]
  OBVIOUS
<1>5. answered \subseteq 1..wireCalls /\ wireCalls \in Nat /\ answered \subseteq Nat
  BY AdminAssumption DEF WireInv, WireShapes, Wires!ConnectorsTrue, Wires!TypeOK
<1>6. k \in WireRequest /\ k.pc = pc /\ k.op = op /\ k.id = i /\ k.target = target /\ k.fields = fields /\ k.since = answered
  BY <1>1, <1>4, <1>5, NothingAsked DEF WireRequest
<1>7. wireCall' = [wireCall EXCEPT ![c] = k] /\ UNCHANGED <<targets, runs, service, wireLog, answered>>
  BY <1>1, <1>3, <1>4 DEF Wires!Begin, Wires!rows
<1>8. i \notin answered /\ \A e \in wireLog : e.id # i
  BY <1>2, <1>3, <1>5 DEF WireInv, Past
<1>9. Proper(k, wireLog', answered')
  BY <1>1, <1>2, <1>3, <1>6, <1>7, <1>8 DEF Proper
<1>10. WireShapes' /\ Numbered' /\ (\A d \in Callers : Proper(wireCall[d], wireLog, answered)') /\ wireCall' \in [Callers -> WireRequest]
  <2>1. targets' \subseteq Target /\ k \in WireRequest /\ k.id <= wireCalls' /\ k.id = wireCalls + 1
    BY <1>2, <1>3, <1>6, <1>7 DEF WireInv, WireShapes
  <2>2. wireLog' = wireLog /\ answered' = answered /\ wireCall' = [wireCall EXCEPT ![c] = k]
    BY <1>7
  <2>3. WireShapes' /\ Numbered' /\ \A d \in Callers : Proper(wireCall[d], wireLog, answered)'
    BY <1>2, <1>9, <2>1, <2>2, OneMoves
  <2> QED
    BY <2>3 DEF WireShapes
<1>11. Wires!ConnectorsTrue' /\ Rooted'
  BY <1>2, <1>5, <1>7, <1>10, RowsStand
<1>12. Past'
  BY <1>2, <1>5, <1>7 DEF WireInv, Past
<1> QED
  BY <1>10, <1>11, <1>12 DEF WireInv

LEMMA LookUpStep ==
  ASSUME WireInv, NEW c \in Callers, Wires!GetTargetRaw(c) \/ Wires!Encrypt(c) \/ Wires!AuditAppend(c) \/ Wires!Fails(c) PROVE WireInv'
<1>1. /\ wireCall[c] \in WireRequest /\ wireCall[c].id \in 0..wireCalls /\ Proper(wireCall[c], wireLog, answered) /\ wireCall[c].pc # "idle"
      /\ Underway(c)
      /\ UNCHANGED <<targets, runs, service, answered, wireCalls>> /\ wireLog \subseteq wireLog'
      /\ wireCalls \in Nat /\ wireCalls \in 0..MaxCalls
      /\ \A e \in wireLog' : e \in wireLog \/ e = Wires!Entry(wireCall[c])
  BY AdminAssumption DEF Wires!GetTargetRaw, Wires!Encrypt, Wires!AuditAppend, Wires!Fails, Wires!rows, WireInv, WireShapes, Underway
<1>2. Wires!Entry(wireCall[c]).id = wireCall[c].id /\ Wires!Entry(wireCall[c]).since = wireCall[c].since
      /\ Wires!Entry(wireCall[c]).op = wireCall[c].op /\ Wires!Entry(wireCall[c]).target = wireCall[c].target
  BY DEF Wires!Entry
<1>3. PICK k \in WireRequest : /\ wireCall' = [wireCall EXCEPT ![c] = k] /\ k.id <= wireCalls /\ Proper(k, wireLog', answered')
                               /\ k.pc = "idle" \/ k.id = wireCall[c].id
  <2>1. CASE Wires!GetTargetRaw(c)
    <3>1. PICK t \in targets : wireCall' = [wireCall EXCEPT ![c].pc = IF wireCall[c].fields.config THEN "encrypt" ELSE "audit", ![c].seen = {t}]
      BY <2>1 DEF Wires!GetTargetRaw
    <3>2. PICK k : k = [wireCall[c] EXCEPT !.pc = IF wireCall[c].fields.config THEN "encrypt" ELSE "audit", !.seen = {t}]
      OBVIOUS
    <3>3. {t} \in SUBSET Target
      BY DEF WireInv, WireShapes
    <3>4. /\ k \in WireRequest /\ k.pc \in {"encrypt", "audit"} /\ k.op = wireCall[c].op /\ k.since = wireCall[c].since
          /\ k.id = wireCall[c].id /\ k.target = wireCall[c].target /\ k.fields = wireCall[c].fields /\ k.seen = {t}
      BY <1>1, <3>2, <3>3 DEF WireRequest
    <3>5. wireLog' = wireLog /\ wireCall[c].pc = "read"
      BY <2>1 DEF Wires!GetTargetRaw
    <3>6. Proper(k, wireLog', answered')
      BY <1>1, <3>4, <3>5 DEF Proper
    <3>7. wireCall' = [wireCall EXCEPT ![c] = k]
      BY <1>1, <3>1, <3>2 DEF WireInv, WireShapes
    <3>8. k.id <= wireCalls
      BY <1>1, <3>4
    <3> QED
      BY <3>4, <3>6, <3>7, <3>8
  <2>2. CASE Wires!Encrypt(c)
    <3>1. PICK k : k = [wireCall[c] EXCEPT !.pc = "audit"]
      OBVIOUS
    <3>2. /\ k \in WireRequest /\ k.pc = "audit" /\ k.op = wireCall[c].op /\ k.since = wireCall[c].since
          /\ k.id = wireCall[c].id /\ k.target = wireCall[c].target /\ k.fields = wireCall[c].fields /\ k.seen = wireCall[c].seen
      BY <1>1, <3>1 DEF WireRequest
    <3>3. wireCall' = [wireCall EXCEPT ![c] = k] /\ wireLog' = wireLog /\ wireCall[c].pc = "encrypt"
      BY <2>2, <3>1 DEF Wires!Encrypt
    <3>4. Proper(k, wireLog', answered')
      BY <1>1, <3>2, <3>3 DEF Proper
    <3>5. k.id <= wireCalls
      BY <1>1, <3>2
    <3> QED
      BY <3>2, <3>3, <3>4, <3>5
  <2>3. CASE Wires!AuditAppend(c)
    <3>1. PICK k : k = [wireCall[c] EXCEPT !.pc = "write"]
      OBVIOUS
    <3>2. /\ k \in WireRequest /\ k.pc = "write" /\ k.op = wireCall[c].op /\ k.since = wireCall[c].since
          /\ k.id = wireCall[c].id /\ k.target = wireCall[c].target /\ k.fields = wireCall[c].fields /\ k.seen = wireCall[c].seen
      BY <1>1, <3>1 DEF WireRequest
    <3>3. Wires!Entry(k) = Wires!Entry(wireCall[c])
      BY <3>2 DEF Wires!Entry
    <3>4. wireLog' = wireLog \cup {Wires!Entry(k)} /\ wireCall[c].pc = "audit" /\ wireCall' = [wireCall EXCEPT ![c] = k]
      BY <2>3, <3>1, <3>3 DEF Wires!AuditAppend
    <3>5. Proper(k, wireLog', answered')
      BY <1>1, <3>2, <3>4 DEF Proper
    <3>6. k.id <= wireCalls
      BY <1>1, <3>2
    <3> QED
      BY <3>2, <3>4, <3>5, <3>6
  <2>4. CASE Wires!Fails(c)
    <3>1. Proper(Wires!NoCall, wireLog', answered') /\ Wires!NoCall.id <= wireCalls
      BY <1>1, NothingAsked DEF Proper
    <3>2. wireCall' = [wireCall EXCEPT ![c] = Wires!NoCall]
      BY <2>4 DEF Wires!Fails, Wires!Done
    <3> QED
      BY <3>1, <3>2, NothingAsked
  <2> QED
    BY <2>1, <2>2, <2>3, <2>4
<1>4. WireShapes' /\ Numbered' /\ \A d \in Callers : Proper(wireCall[d], wireLog, answered)'
  <2>1. targets' \subseteq Target /\ wireCalls' \in 0..MaxCalls /\ wireCalls <= wireCalls' /\ k.id <= wireCalls'
    BY <1>1, <1>3 DEF WireInv, WireShapes
  <2>2. answered \subseteq answered' /\ \A i \in answered' : i \in answered
    BY <1>1
  <2> QED
    BY <1>1, <1>2, <1>3, <2>1, <2>2, OneMoves
<1>5. wireCall' \in [Callers -> WireRequest]
  BY <1>4 DEF WireShapes
<1>6. Wires!Entry(wireCall[c]).id \notin answered
  BY <1>1, <1>2 DEF Proper
<1>7. Wires!ConnectorsTrue' /\ Rooted'
  BY <1>1, <1>5, <1>6, RowsStand
<1>8. Past'
  <2>1. /\ wireCall[c].id \in 1..wireCalls /\ wireCall[c].since \subseteq answered
        /\ wireCall[c].op = "delete" => wireCall[c].target \in answered
    BY <1>1 DEF Proper
  <2> QED
    BY <1>1, <1>2, <2>1 DEF WireInv, Past
<1> QED
  BY <1>4, <1>7, <1>8 DEF WireInv

LEMMA Writing ==
  ASSUME WireInv, NEW c \in Callers, wireCall[c].pc = "write"
  PROVE  /\ wireCall[c] \in WireRequest /\ Wires!Entry(wireCall[c]) \in wireLog /\ wireCall[c].id \in 1..wireCalls
         /\ wireCalls \in Nat /\ wireCalls \in 0..MaxCalls /\ Underway(c)
         /\ wireCall[c].id \notin answered /\ wireCall[c].since \subseteq answered /\ answered \subseteq 1..wireCalls
         /\ \A e \in wireLog : e.id = wireCall[c].id => e = Wires!Entry(wireCall[c])
<1>1. wireCall[c] \in WireRequest /\ wireCall[c].id \in 0..wireCalls /\ wireCalls \in 0..MaxCalls /\ answered \subseteq 1..wireCalls
  BY DEF WireInv, WireShapes, Wires!ConnectorsTrue, Wires!TypeOK
<1>2. /\ Wires!Entry(wireCall[c]) \in wireLog /\ wireCall[c].id # 0
      /\ wireCall[c].id \notin answered /\ wireCall[c].since \subseteq answered
      /\ \A e \in wireLog : e.id = wireCall[c].id => e = Wires!Entry(wireCall[c])
  BY DEF WireInv, Proper
<1> QED
  BY <1>1, <1>2, AdminAssumption DEF Underway

\* What a request k that ends with a row replaces.
Replaces(k, x, ops, i) == k.op \in ops /\ k.target = i /\ x \in k.since /\ (k.op = "update" => k.fields.config)

\* What a request that ends with a row leaves as it was.
LEMMA WritesRow ==
  ASSUME WireInv, NEW c \in Callers, wireCall[c].pc = "write", Wires!Answer(c), UNCHANGED <<wireLog, wireCalls>>, targets' \subseteq Target
  PROVE  /\ WireShapes' /\ Numbered' /\ Past'
         /\ \A d \in Callers : Proper(wireCall[d], wireLog, answered)' /\ wireCall'[d].pc \in {"idle", "read", "encrypt", "audit", "write"}
         /\ Wires!Entry(wireCall[c]) \in wireLog /\ Wires!Entry(wireCall[c]).op = wireCall[c].op /\ Wires!Entry(wireCall[c]).id = wireCall[c].id
         /\ Wires!Entry(wireCall[c]).fields = wireCall[c].fields
         /\ Wires!Logged(wireCall[c].op, wireCall[c].id)
         /\ wireCall[c] \in WireRequest /\ wireCall[c].id \in 1..wireCalls /\ wireCalls \in Nat
         /\ \A op, i : Wires!Logged(op, i)' <=> Wires!Logged(op, i)
         /\ answered' = answered \cup {wireCall[c].id} /\ answered' \subseteq 1..wireCalls'
         /\ \A x, ops, i : Wires!Superseded(x, ops, i)' => Wires!Superseded(x, ops, i) \/ Replaces(wireCall[c], x, ops, i)
         /\ \A x, ops, i : x \notin answered => ~Wires!Superseded(x, ops, i)'
         /\ \A i : Wires!Deleted(i)' => Wires!Deleted(i) \/ (wireCall[c].op = "delete" /\ i = wireCall[c].target)
         /\ \A i : Wires!Deleted(i)' => i \in answered
         /\ wireCall[c].id \notin answered /\ \A x : x \in wireCall[c].since => x \in answered
<1>1. /\ wireCall[c] \in WireRequest /\ wireCall[c].id \in 1..wireCalls /\ wireCalls \in Nat /\ Wires!Entry(wireCall[c]) \in wireLog
      /\ wireCalls' \in 0..MaxCalls /\ wireCalls <= wireCalls' /\ 0 <= wireCalls' /\ Underway(c)
      /\ wireCall[c].id \notin answered /\ wireCall[c].since \subseteq answered /\ answered \subseteq 1..wireCalls
      /\ \A e \in wireLog : e.id = wireCall[c].id => e = Wires!Entry(wireCall[c])
  BY Writing
<1>2. /\ Wires!Entry(wireCall[c]).op = wireCall[c].op /\ Wires!Entry(wireCall[c]).id = wireCall[c].id
      /\ Wires!Entry(wireCall[c]).target = wireCall[c].target /\ Wires!Entry(wireCall[c]).fields = wireCall[c].fields
      /\ Wires!Entry(wireCall[c]).since = wireCall[c].since
  BY DEF Wires!Entry
<1>3. Wires!Logged(wireCall[c].op, wireCall[c].id) /\ \A op, i : Wires!Logged(op, i)' <=> Wires!Logged(op, i)
  BY <1>1, <1>2 DEF Wires!Logged
<1>4. answered' = answered \cup {wireCall[c].id} /\ answered' \subseteq 1..wireCalls' /\ wireCall' = [wireCall EXCEPT ![c] = Wires!NoCall]
  BY <1>1 DEF Wires!Answer, Wires!Done
<1>5. Proper(Wires!NoCall, wireLog', answered') /\ Wires!NoCall.id <= wireCalls' /\ Wires!NoCall \in WireRequest /\ Wires!NoCall.pc = "idle"
  BY <1>1, NothingAsked DEF Proper
<1>6. WireShapes' /\ Numbered' /\ \A d \in Callers : Proper(wireCall[d], wireLog, answered)'
  BY <1>1, <1>4, <1>5, OneMoves
<1>7. \A d \in Callers : wireCall'[d].pc \in {"idle", "read", "encrypt", "audit", "write"}
  BY <1>6 DEF WireShapes, WireRequest
<1>8. Past'
  BY <1>4 DEF WireInv, Past
<1>9. /\ \A x, ops, i : Wires!Superseded(x, ops, i)' => Wires!Superseded(x, ops, i) \/ Replaces(wireCall[c], x, ops, i)
      /\ \A i : Wires!Deleted(i)' => Wires!Deleted(i) \/ (wireCall[c].op = "delete" /\ i = wireCall[c].target)
  BY <1>1, <1>2, <1>4 DEF Wires!Superseded, Wires!Deleted, Replaces
<1>10. \A x, ops, i : x \notin answered => ~Wires!Superseded(x, ops, i)'
  BY DEF Wires!Superseded, WireInv, Past
<1>11. \A i : Wires!Deleted(i)' => i \in answered
  BY DEF Wires!Deleted, WireInv, Past
<1> QED
  BY <1>1, <1>2, <1>3, <1>4, <1>6, <1>7, <1>8, <1>9, <1>10, <1>11

\* What a step that writes no target leaves of them.
LEMMA TargetsStand ==
  ASSUME WireInv, NEW c \in Callers, wireCall[c].pc = "write", Wires!Answer(c), UNCHANGED <<wireLog, wireCalls>>,
         targets' \subseteq targets, wireCall[c].op \in {"delete", "run", "upsert", "remove"},
         wireCall[c].op = "delete" => \A t \in targets' : t.id # wireCall[c].target
  PROVE  \A t \in targets' :
           /\ t.id \in 1..wireCalls' /\ t.name \in TargetNames /\ t.config \in 1..wireCalls' /\ t.enabled \in {"on", "off"}
           /\ Wires!Logged("create", t.id)' /\ ~Wires!Deleted(t.id)'
           /\ Wires!Logged("create", t.config)' \/ Wires!Logged("update", t.config)'
           /\ ~Wires!Superseded(t.config, {"update"}, t.id)' /\ ~Wires!Taken(t.name, t.id)'
           /\ t.id \in answered' /\ t.config \in answered'
<1>1. targets' \subseteq Target
  BY DEF WireInv, WireShapes
<1>2. /\ \A op, i : Wires!Logged(op, i)' <=> Wires!Logged(op, i)
      /\ answered \subseteq answered'
      /\ \A x, i : Wires!Superseded(x, {"update"}, i)' => Wires!Superseded(x, {"update"}, i)
      /\ \A i : Wires!Deleted(i)' => Wires!Deleted(i) \/ (wireCall[c].op = "delete" /\ i = wireCall[c].target)
  BY <1>1, WritesRow DEF Replaces
<1>3. \A n, i : Wires!Taken(n, i)' => Wires!Taken(n, i)
  BY DEF Wires!Taken
<1> QED
  BY <1>2, <1>3 DEF WireInv, Wires!ConnectorsTrue, Wires!TypeOK, Rooted

\* What a step that writes no credential leaves of it.
LEMMA ServiceStands ==
  ASSUME WireInv, NEW c \in Callers, wireCall[c].pc = "write", Wires!Answer(c), UNCHANGED <<service, wireLog, wireCalls>>, targets' \subseteq Target,
         wireCall[c].op \notin {"upsert", "remove"}
  PROVE  /\ service'.config \in 0..wireCalls' /\ service'.config \in answered' \cup {0}
         /\ service' # Wires!NoService =>
              \E e \in wireLog' : e.op = "upsert" /\ e.id = service'.config /\ e.fields.enabled = service'.enabled
         /\ ~Wires!Superseded(service.config, {"upsert", "remove"}, 0)'
<1>1. /\ answered' = answered \cup {wireCall[c].id}
      /\ \A x, i : Wires!Superseded(x, {"upsert", "remove"}, i)' => Wires!Superseded(x, {"upsert", "remove"}, i)
  BY WritesRow DEF Replaces
<1>2. ~Wires!Superseded(service.config, {"upsert", "remove"}, 0)'
  BY <1>1 DEF WireInv, Wires!ConnectorsTrue
<1> QED
  BY <1>1, <1>2 DEF WireInv, Wires!ConnectorsTrue, Wires!TypeOK, Rooted

\* A step that leaves the credential as it is and adds no target.
LEMMA RowsWritten ==
  ASSUME WireInv, NEW c \in Callers, wireCall[c].pc = "write", Wires!Answer(c), UNCHANGED <<service, wireLog, wireCalls>>,
         targets' \subseteq targets, wireCall[c].op \in {"delete", "run"},
         wireCall[c].op = "delete" => \A t \in targets' : t.id # wireCall[c].target,
         \A r \in runs' : Wires!Logged("run", r.id)' /\ r.target \in 1..wireCalls' /\ \E t \in targets' : t.id = r.target
  PROVE  WireInv'
<1>1. targets' \subseteq Target
  BY DEF WireInv, WireShapes
<1>2. \A t \in targets' :
        /\ t.id \in 1..wireCalls' /\ t.name \in TargetNames /\ t.config \in 1..wireCalls' /\ t.enabled \in {"on", "off"}
        /\ Wires!Logged("create", t.id)' /\ ~Wires!Deleted(t.id)'
        /\ Wires!Logged("create", t.config)' \/ Wires!Logged("update", t.config)'
        /\ ~Wires!Superseded(t.config, {"update"}, t.id)' /\ ~Wires!Taken(t.name, t.id)'
        /\ t.id \in answered' /\ t.config \in answered'
  BY TargetsStand
<1>3. /\ service'.config \in 0..wireCalls' /\ service'.config \in answered' \cup {0}
      /\ service' # Wires!NoService =>
           \E e \in wireLog' : e.op = "upsert" /\ e.id = service'.config /\ e.fields.enabled = service'.enabled
      /\ ~Wires!Superseded(service.config, {"upsert", "remove"}, 0)'
  BY <1>1, ServiceStands
<1>4. Wires!TypeOK'
  BY <1>1, <1>2, <1>3, WritesRow DEF Wires!TypeOK
<1>5. Wires!ConnectorsTrue' /\ Rooted'
  BY <1>2, <1>3, <1>4 DEF Wires!ConnectorsTrue, Rooted
<1> QED
  BY <1>1, <1>5, WritesRow DEF WireInv

LEMMA CreateStep ==
  ASSUME WireInv, NEW c \in Callers, Wires!InsertTarget(c) PROVE WireInv'
<1>1. PICK u : u = [id |-> wireCall[c].id, name |-> wireCall[c].fields.name, config |-> wireCall[c].id,
                    enabled |-> wireCall[c].fields.enabled]
  OBVIOUS
<1>2. /\ wireCall[c].pc = "write" /\ wireCall[c].op = "create" /\ Wires!Answer(c) /\ UNCHANGED <<runs, service, wireLog, wireCalls>>
      /\ targets' = targets \cup {u} /\ ~Wires!Taken(wireCall[c].fields.name, 0)
  BY <1>1 DEF Wires!InsertTarget, Wires!Writes
<1>3. /\ wireCall[c] \in WireRequest /\ wireCall[c].id \in 1..wireCalls /\ wireCalls \in Nat
      /\ wireCall[c].fields.name \in TargetNames /\ wireCall[c].fields.enabled = "on"
  BY <1>2, Writing DEF WireInv, Proper
<1>4. /\ u \in Target /\ u.id = wireCall[c].id /\ u.name = wireCall[c].fields.name /\ u.config = wireCall[c].id /\ u.enabled = "on"
  BY <1>1, <1>3 DEF Target, WireRequest
<1>5. targets' \subseteq Target
  BY <1>2, <1>4 DEF WireInv, WireShapes
<1>6. \A t \in targets : t.id # 0 /\ t.id \in 1..wireCalls /\ t.name # u.name
  <2>1. \A t \in targets : t.id \in 1..wireCalls
    BY DEF WireInv, Wires!ConnectorsTrue, Wires!TypeOK
  <2> QED
    BY <1>2, <1>4, <2>1 DEF Wires!Taken
<1>7. \A t \in targets' : ~Wires!Taken(t.name, t.id)'
  BY <1>2, <1>6 DEF Wires!Taken, WireInv, Wires!ConnectorsTrue
<1>8. /\ answered' = answered \cup {wireCall[c].id} /\ wireCall[c].id \notin answered
      /\ \A op, i : Wires!Logged(op, i)' <=> Wires!Logged(op, i)
      /\ Wires!Logged("create", wireCall[c].id)
      /\ \A x, i : Wires!Superseded(x, {"update"}, i)' => Wires!Superseded(x, {"update"}, i)
      /\ \A x, ops, i : x \notin answered => ~Wires!Superseded(x, ops, i)'
      /\ \A i : Wires!Deleted(i)' => Wires!Deleted(i) /\ i \in answered
  BY <1>2, <1>5, WritesRow DEF Replaces
<1>9. \A t \in targets' :
        /\ Wires!Logged("create", t.id)' /\ ~Wires!Deleted(t.id)'
        /\ Wires!Logged("create", t.config)' \/ Wires!Logged("update", t.config)'
        /\ ~Wires!Superseded(t.config, {"update"}, t.id)'
        /\ t.id \in answered' /\ t.config \in answered' /\ t.id \in 1..wireCalls' /\ t.config \in 1..wireCalls'
  <2>1. ASSUME NEW t \in targets
        PROVE  /\ Wires!Logged("create", t.id) /\ ~Wires!Deleted(t.id)
               /\ Wires!Logged("create", t.config) \/ Wires!Logged("update", t.config)
               /\ ~Wires!Superseded(t.config, {"update"}, t.id)
               /\ t.id \in answered /\ t.config \in answered /\ t.id \in 1..wireCalls /\ t.config \in 1..wireCalls
    BY DEF WireInv, Wires!ConnectorsTrue, Wires!TypeOK, Rooted
  <2> QED
    BY <1>2, <1>3, <1>4, <1>8, <2>1
<1>10. /\ service'.config \in 0..wireCalls' /\ service'.config \in answered' \cup {0}
       /\ service' # Wires!NoService =>
            \E e \in wireLog' : e.op = "upsert" /\ e.id = service'.config /\ e.fields.enabled = service'.enabled
       /\ ~Wires!Superseded(service.config, {"upsert", "remove"}, 0)'
  BY <1>2, <1>5, ServiceStands
<1>11. \A r \in runs' : Wires!Logged("run", r.id)' /\ r.target \in 1..wireCalls' /\ \E t \in targets' : t.id = r.target
  BY <1>2, <1>8 DEF WireInv, Wires!ConnectorsTrue, Wires!TypeOK
<1>12. Wires!TypeOK'
  BY <1>2, <1>5, <1>9, <1>10, <1>11, WritesRow DEF Wires!TypeOK, Target
<1>13. Wires!ConnectorsTrue' /\ Rooted'
  BY <1>7, <1>9, <1>10, <1>11, <1>12 DEF Wires!ConnectorsTrue, Rooted
<1> QED
  BY <1>2, <1>5, <1>13, WritesRow DEF WireInv

LEMMA WrittenRow ==
  ASSUME WireInv, NEW c \in Callers, Wires!Writes(c, "update"), NEW t \in targets
  PROVE  LET u == Wires!Written(t, wireCall[c])
         IN /\ u \in Target /\ u.id = t.id
            /\ u.config = IF wireCall[c].fields.config THEN wireCall[c].id ELSE t.config
<1>1. PICK k : k = wireCall[c]
  OBVIOUS
<1>2. k \in WireRequest /\ k.seen # {} /\ k.seen \subseteq Target
  BY <1>1 DEF WireInv, WireShapes, Wires!Writes, Proper, WireRequest
<1>3. PICK r \in Target : r = CHOOSE x \in k.seen : TRUE
  BY <1>2
<1>4. PICK s : s = Wires!Supplied(r, k)
  OBVIOUS
<1>5. s.name \in TargetNames /\ s.enabled \in {"on", "off"}
  BY <1>2, <1>3, <1>4 DEF Wires!Supplied, Target, WireRequest, Wires!Fields, Wires!None
<1>6. t \in Target
  BY DEF WireInv, WireShapes
<1>7. PICK x : x = IF k.fields.config THEN k.id ELSE t.config
  OBVIOUS
<1>8. x \in Nat
  BY <1>2, <1>6, <1>7 DEF WireRequest, Target
<1>9. Wires!Written(t, k) = [t EXCEPT !.name = s.name, !.enabled = s.enabled, !.config = x]
  BY <1>3, <1>4, <1>6, <1>7 DEF Wires!Written, Target
<1>10. PICK u : u = [t EXCEPT !.name = s.name, !.enabled = s.enabled, !.config = x]
  OBVIOUS
<1>11. u \in Target /\ u.id = t.id /\ u.config = x
  BY <1>5, <1>6, <1>8, <1>10 DEF Target
<1> QED
  BY <1>1, <1>7, <1>9, <1>10, <1>11

LEMMA UpdateStep ==
  ASSUME WireInv, NEW c \in Callers, Wires!WriteTarget(c) PROVE WireInv'
<1>1. PICK old : old = {t \in targets : t.id = wireCall[c].target}
  OBVIOUS
<1>2. PICK new : new = {Wires!Written(t, wireCall[c]) : t \in old}
  OBVIOUS
<1>3. /\ Wires!Writes(c, "update") /\ Wires!Answer(c) /\ UNCHANGED <<runs, service, wireLog, wireCalls>>
      /\ targets' = (targets \ old) \cup new /\ \A t \in new : ~Wires!Taken(t.name, t.id)
  BY <1>1, <1>2 DEF Wires!WriteTarget
<1>4. \A u \in new : \E t \in old : /\ u \in Target /\ u.id = t.id
                                    /\ u.config = IF wireCall[c].fields.config THEN wireCall[c].id ELSE t.config
  BY <1>1, <1>2, <1>3, WrittenRow
<1>5. \A t \in old : \E u \in new : u.id = t.id
  BY <1>1, <1>2, <1>3, WrittenRow
<1>6. targets' \subseteq Target
  BY <1>3, <1>4 DEF WireInv, WireShapes
<1>7. /\ wireCall[c].pc = "write" /\ wireCall[c].op = "update" /\ wireCalls' = wireCalls
  BY <1>3 DEF Wires!Writes
<1>8. /\ Wires!Logged("update", wireCall[c].id) /\ wireCall[c].id \in 1..wireCalls
      /\ \A op, i : Wires!Logged(op, i)' <=> Wires!Logged(op, i)
      /\ answered' = answered \cup {wireCall[c].id} /\ wireCall[c].id \notin answered
      /\ \A x, i : Wires!Superseded(x, {"update"}, i)' =>
                     Wires!Superseded(x, {"update"}, i) \/ (i = wireCall[c].target /\ wireCall[c].fields.config)
      /\ \A x, ops, i : x \notin answered => ~Wires!Superseded(x, ops, i)'
      /\ \A i : Wires!Deleted(i)' => Wires!Deleted(i)
  BY <1>3, <1>6, <1>7, WritesRow DEF Replaces
<1>9. ASSUME NEW t \in targets
      PROVE  /\ Wires!Logged("create", t.id) /\ ~Wires!Deleted(t.id)
             /\ Wires!Logged("create", t.config) \/ Wires!Logged("update", t.config)
             /\ ~Wires!Superseded(t.config, {"update"}, t.id)
             /\ t.id \in answered /\ t.config \in answered /\ t.id \in 1..wireCalls /\ t.config \in 1..wireCalls
  BY DEF WireInv, Wires!ConnectorsTrue, Wires!TypeOK, Rooted
<1>10. ASSUME NEW u \in targets'
       PROVE  /\ Wires!Logged("create", u.id)' /\ ~Wires!Deleted(u.id)'
              /\ Wires!Logged("create", u.config)' \/ Wires!Logged("update", u.config)'
              /\ ~Wires!Superseded(u.config, {"update"}, u.id)'
              /\ u.id \in answered' /\ u.config \in answered' /\ u.id \in 1..wireCalls' /\ u.config \in 1..wireCalls'
  <2>1. CASE u \in targets \ old
    BY <1>1, <1>7, <1>8, <1>9, <2>1
  <2>2. CASE u \in new
    <3>1. PICK t \in old : u.id = t.id /\ u.config = IF wireCall[c].fields.config THEN wireCall[c].id ELSE t.config
      BY <1>4, <2>2
    <3>2. t \in targets
      BY <1>1
    <3>3. CASE wireCall[c].fields.config
      BY <1>7, <1>8, <1>9, <3>1, <3>2, <3>3
    <3>4. CASE ~wireCall[c].fields.config
      BY <1>7, <1>8, <1>9, <3>1, <3>2, <3>4
    <3> QED
      BY <3>3, <3>4
  <2> QED
    BY <1>3, <2>1, <2>2
<1>11. \A u, w \in targets' : u.name = w.name => u.id = w.id
  <2>1. \A u, w \in targets : u.name = w.name => u.id = w.id
    BY DEF WireInv, Wires!ConnectorsTrue, Wires!Taken
  <2>2. \A u \in new, w \in targets : u.name = w.name => u.id = w.id
    BY <1>3 DEF Wires!Taken
  <2>3. \A u, w \in new : u.id = w.id
    BY <1>1, <1>4
  <2> QED
    BY <1>3, <2>1, <2>2, <2>3
<1>12. \A u \in targets' : ~Wires!Taken(u.name, u.id)'
  BY <1>11 DEF Wires!Taken
<1>13. /\ service'.config \in 0..wireCalls' /\ service'.config \in answered' \cup {0}
       /\ service' # Wires!NoService =>
            \E e \in wireLog' : e.op = "upsert" /\ e.id = service'.config /\ e.fields.enabled = service'.enabled
       /\ ~Wires!Superseded(service.config, {"upsert", "remove"}, 0)'
  BY <1>3, <1>6, <1>7, ServiceStands
<1>14. \A r \in runs' : Wires!Logged("run", r.id)' /\ r.target \in 1..wireCalls' /\ \E t \in targets' : t.id = r.target
  BY <1>3, <1>5, <1>8 DEF WireInv, Wires!ConnectorsTrue, Wires!TypeOK
<1>15. Wires!TypeOK'
  BY <1>3, <1>6, <1>7, <1>10, <1>13, <1>14, WritesRow DEF Wires!TypeOK, Target
<1>16. Wires!ConnectorsTrue' /\ Rooted'
  BY <1>10, <1>12, <1>13, <1>14, <1>15 DEF Wires!ConnectorsTrue, Rooted
<1> QED
  BY <1>3, <1>6, <1>7, <1>16, WritesRow DEF WireInv

LEMMA RemoveStep ==
  ASSUME WireInv, NEW c \in Callers, Wires!RemoveTarget(c) PROVE WireInv'
<1>1. /\ wireCall[c].pc = "write" /\ wireCall[c].op = "delete" /\ Wires!Answer(c) /\ UNCHANGED <<service, wireLog, wireCalls>>
      /\ targets' = {t \in targets : t.id # wireCall[c].target} /\ runs' = {r \in runs : r.target # wireCall[c].target}
  BY DEF Wires!RemoveTarget, Wires!Writes
<1>2. targets' \subseteq Target /\ targets' \subseteq targets /\ runs' \subseteq runs
  BY <1>1 DEF WireInv, WireShapes
<1>3. \A r \in runs' : Wires!Logged("run", r.id)' /\ r.target \in 1..wireCalls' /\ \E t \in targets' : t.id = r.target
  BY <1>1 DEF WireInv, Wires!ConnectorsTrue, Wires!TypeOK, Wires!Logged
<1> QED
  BY <1>1, <1>2, <1>3, RowsWritten

LEMMA RunStep ==
  ASSUME WireInv, NEW c \in Callers, Wires!InsertRun(c) PROVE WireInv'
<1>1. PICK r : r = [id |-> wireCall[c].id, target |-> wireCall[c].target]
  OBVIOUS
<1>2. /\ wireCall[c].pc = "write" /\ wireCall[c].op = "run" /\ Wires!Answer(c) /\ UNCHANGED <<targets, service, wireLog, wireCalls>>
      /\ runs' = runs \cup {r} /\ r.id = wireCall[c].id /\ \E t \in targets : t.id = r.target
  BY <1>1 DEF Wires!InsertRun, Wires!Writes
<1>3. targets' \subseteq Target /\ targets' \subseteq targets
  BY <1>2 DEF WireInv, WireShapes
<1>4. Wires!Logged("run", r.id)' /\ r.target \in 1..wireCalls
  BY <1>2, <1>3, WritesRow DEF WireInv, Wires!ConnectorsTrue, Wires!TypeOK
<1>5. \A q \in runs' : Wires!Logged("run", q.id)' /\ q.target \in 1..wireCalls' /\ \E t \in targets' : t.id = q.target
  BY <1>2, <1>4 DEF WireInv, Wires!ConnectorsTrue, Wires!TypeOK, Wires!Logged
<1> QED
  BY <1>2, <1>3, <1>5, RowsWritten

\* A credential that is stored or removed.
LEMMA ServiceStep ==
  ASSUME WireInv, NEW c \in Callers, Wires!WriteService(c) \/ Wires!RemoveService(c) PROVE WireInv'
<1>1. /\ wireCall[c].pc = "write" /\ Wires!Answer(c) /\ UNCHANGED <<targets, runs, wireLog, wireCalls>>
      /\ targets' \subseteq Target /\ targets' \subseteq targets /\ wireCall[c].op \in {"upsert", "remove"}
  BY DEF Wires!WriteService, Wires!RemoveService, Wires!Writes, WireInv, WireShapes
<1>2. PICK k : k = wireCall[c]
  OBVIOUS
<1>3. /\ answered' = answered \cup {k.id} /\ k.id \notin answered /\ k.id \in 1..wireCalls /\ wireCalls \in Nat /\ k \in WireRequest
      /\ \A x, ops, i : x \notin answered => ~Wires!Superseded(x, ops, i)'
      /\ Wires!Entry(k) \in wireLog /\ Wires!Entry(k).op = k.op /\ Wires!Entry(k).id = k.id /\ Wires!Entry(k).fields = k.fields
  BY <1>1, <1>2, WritesRow
<1>4. 0 \notin answered
  BY DEF WireInv, Wires!ConnectorsTrue, Wires!TypeOK, WireShapes
<1>5. /\ service'.config \in 0..wireCalls' /\ service'.config \in answered' \cup {0}
      /\ service' # Wires!NoService =>
           \E e \in wireLog' : e.op = "upsert" /\ e.id = service'.config /\ e.fields.enabled = service'.enabled
      /\ ~Wires!Superseded(service.config, {"upsert", "remove"}, 0)'
  <2>1. CASE Wires!RemoveService(c)
    <3>1. service' = Wires!NoService /\ service'.config = 0
      BY <2>1 DEF Wires!RemoveService, Wires!NoService
    <3> QED
      BY <1>1, <1>3, <1>4, <3>1
  <2>2. CASE Wires!WriteService(c)
    <3>1. service' = [config |-> k.id, enabled |-> k.fields.enabled] /\ k.op = "upsert"
      BY <1>2, <2>2 DEF Wires!WriteService, Wires!Writes
    <3>2. service'.config = k.id /\ service'.enabled = k.fields.enabled
      BY <3>1
    <3> QED
      BY <1>1, <1>3, <3>1, <3>2
  <2> QED
    BY <2>1, <2>2 DEF Wires!WriteService, Wires!RemoveService
<1>6. \A r \in runs' : Wires!Logged("run", r.id)' /\ r.target \in 1..wireCalls' /\ \E t \in targets' : t.id = r.target
  BY <1>1 DEF WireInv, Wires!ConnectorsTrue, Wires!TypeOK, Wires!Logged
<1>7. \A t \in targets' :
        /\ t.id \in 1..wireCalls' /\ t.name \in TargetNames /\ t.config \in 1..wireCalls' /\ t.enabled \in {"on", "off"}
        /\ Wires!Logged("create", t.id)' /\ ~Wires!Deleted(t.id)'
        /\ Wires!Logged("create", t.config)' \/ Wires!Logged("update", t.config)'
        /\ ~Wires!Superseded(t.config, {"update"}, t.id)' /\ ~Wires!Taken(t.name, t.id)'
        /\ t.id \in answered' /\ t.config \in answered'
  BY <1>1, TargetsStand
<1>8. Wires!TypeOK'
  BY <1>1, <1>5, <1>6, <1>7, WritesRow DEF Wires!TypeOK
<1>9. Wires!ConnectorsTrue' /\ Rooted'
  BY <1>5, <1>6, <1>7, <1>8 DEF Wires!ConnectorsTrue, Rooted
<1> QED
  BY <1>1, <1>9, WritesRow DEF WireInv

LEMMA WireStep == WireInv /\ [Wires!Next]_(Wires!vars) => WireInv'
<1> SUFFICES ASSUME WireInv, [Wires!Next]_(Wires!vars) PROVE WireInv'
  OBVIOUS
<1>1. CASE UNCHANGED Wires!vars
  BY <1>1 DEF Wires!vars, Wires!rows, WireInv, WireShapes, Past, Rooted, Numbered, Underway, Wires!ConnectorsTrue, Wires!TypeOK,
     Wires!Taken, Wires!Logged, Wires!Superseded, Wires!Deleted
<1>2. ASSUME NEW c \in Callers, Wires!Handlers(c) \/ Wires!Steps(c) PROVE WireInv'
  BY <1>2, AskStep, LookUpStep, CreateStep, UpdateStep, RemoveStep, RunStep, ServiceStep DEF Wires!Steps
<1> QED
  BY <1>1, <1>2 DEF Wires!Next

\* For any requests at once and failures: the config of a row was logged by the request that
\* brought it, and none comes back that a later answered request replaced or removed; names
\* are unique, a deleted target stays away, and a run has its target.
THEOREM ConnectorsHold == AdminSpec => []ConnectorsTrue
<1>1. AdminInit => WireInv
  BY WiresBegin DEF AdminInit
<1>2. [AdminNext]_<<adminPart, swapVars, pageVars, wireVars>> => [Wires!Next]_(Wires!vars)
  BY DEF AdminNext, wireVars, Wires!vars, Wires!rows
<1>3. WireInv => ConnectorsTrue
  BY DEF WireInv, ConnectorsTrue
<1> QED
  BY <1>1, <1>2, <1>3, WireStep, PTL DEF AdminSpec
==============================================================================
