--------------------------- MODULE EnricherProofs ---------------------------
(***************************************************************************)
(* The enricher, for any messages, goroutines, batch size and faults.      *)
(*                                                                         *)
(* That an event is not inserted again and again is a matter of counting:  *)
(* each of its copies in ClickHouse, in the batcher and in a goroutine's   *)
(* hand was let through by the dedup cache, which lets it through once and *)
(* once more after every fault.  That none is lost follows an event to     *)
(* where it is: what the cache has seen, what a goroutine has passed and   *)
(* what JetStream has forgotten is kept, dropped on purpose, or lost to a  *)
(* named fault; this makes every step one of Handover.                     *)
(*                                                                         *)
(* At the end, what the enricher and the API look up elsewhere: what a     *)
(* goroutine holds was true since it began to read, so that what it keeps  *)
(* is no older than that; and a document a search has not shown yet has    *)
(* at least as many newer ones before it as the pages shown so far hold.   *)
(* And the files of exports: what is under a key was put there by one of   *)
(* the exports of that key.                                                *)
(***************************************************************************)
EXTENDS Enricher, Integers, FiniteSetTheorems, TLAPS

Hands(e) == {w \in Workers : worker[w].hand /\ Current(w) = e}
One(b) == IF b THEN 1 ELSE 0

\* The faults that let an event through again; the stop under way has not yet.
Allowance == crashes + stops + forgets - One(run # "up")

CountsOK ==
    /\ crashes \in Nat /\ stops \in Nat /\ forgets \in Nat /\ fails \in Nat /\ timeouts \in Nat
    /\ run # "up" => stops > 0
    /\ copies \in [Events -> Nat]
    /\ \A e \in Events : IsFiniteSet(Hands(e))

Counted ==
    \A e \in Events :
        copies[e] + Cardinality(Hands(e)) + One(e \in Buffered) <= One(e \in seen) + Allowance

\* What is anywhere was published, and is of a kind that belongs there.
Known == Kept \cup Lost \cup seen \cup dropped

WorkersOK ==
    \A w \in Workers :
        /\ worker[w].hand => Busy(w) /\ batch[worker[w].msg] # Garbled
        /\ Busy(w) => stream[worker[w].msg] # "none"

KindsOK ==
    /\ Known \subseteq Published
    /\ WorkersOK
    /\ \A b \in {"events", "heartbeats"} : \A e \in buf[b] : KindOf(e) \in RowKinds /\ BufferOf(e) = b
    /\ \A e \in stored \cup failed : KindOf(e) # "purge"
    /\ \A m \in dlq \cup unparked : batch[m] = Garbled

\* Where an event may be that nobody will look for again.
Settled == Kept \cup Lost \cup Doomed

Followed ==
    /\ seen \subseteq Settled
    /\ \A w \in Workers : \A i \in 1 .. PerMsg : Busy(w) /\ i < worker[w].at => <<worker[w].msg, i>> \in Settled
    /\ AckedEvents \subseteq Settled

IInv == TypeOK /\ CountsOK /\ Counted /\ KindsOK /\ Followed

Rec == [msg : 0 .. MaxMsgs, at : 1 .. (PerMsg + 1), hand : BOOLEAN]
Buffers == {"events", "heartbeats"}
Holding == worker \in [Workers -> Rec] /\ \A w \in Workers : worker[w].hand => Current(w) \in Events

\* A step that delivers: nothing is published, acked or dropped by it.
Quiet ==
    /\ Published' = Published /\ AckedEvents' = AckedEvents /\ Doomed' = Doomed
    /\ Kept \cup Lost \subseteq (Kept \cup Lost)' \cup Doomed'

-----------------------------------------------------------------------------
(* Where events are.                                                         *)

LEMMA EventsOfSet ==
    ASSUME NEW M, M \subseteq Msgs, NEW e
    PROVE  /\ e \in UNION {EventsOf(m) : m \in M} <=> e \in Events /\ e[1] \in M
           /\ \A m \in Msgs, i \in 1 .. PerMsg : <<m, i>> \in Events
BY DEF EventsOf, Events

LEMMA OneBounds == \A b \in BOOLEAN : One(b) \in {0, 1} /\ (b => One(b) = 1) /\ (~b => One(b) = 0)
BY DEF One

\* The event in hand is of a message that was published.
LEMMA InHandKnown ==
    ASSUME IInv, NEW w \in Workers, worker[w].hand
    PROVE  /\ Current(w) \in Events /\ Current(w) \in Published /\ Current(w) \in InHand
           /\ worker[w].msg \in Msgs /\ worker[w].at \in 1 .. PerMsg
           /\ batch[worker[w].msg] # Garbled /\ stream[worker[w].msg] # "none"
<1>1. Current(w) \in Events /\ Current(w) \in InHand /\ batch[worker[w].msg] # Garbled /\ stream[worker[w].msg] # "none"
  BY DEF IInv, TypeOK, KindsOK, WorkersOK, InHand
<1>2. worker[w].msg \in Msgs /\ worker[w].at \in 1 .. PerMsg /\ Current(w)[1] = worker[w].msg
  BY <1>1 DEF Current, Events
<1>3. Current(w) \in Published
  BY <1>1, <1>2, EventsOfSet DEF Published
<1> QED BY <1>1, <1>2, <1>3

\* One goroutine goes on; what it has in hand may change.
LEMMA HandsChange ==
    ASSUME TypeOK, NEW w \in Workers, NEW r \in Rec, worker' = [worker EXCEPT ![w] = r]
    PROVE  /\ worker' \in [Workers -> Rec] /\ worker'[w] = r
           /\ \A v \in Workers : v # w => worker'[v] = worker[v]
           /\ ~r.hand => \A e : Hands(e)' = Hands(e) \ {w}
           /\ r.hand => \A e : Hands(e)' = IF e = <<r.msg, r.at>> THEN Hands(e) \cup {w} ELSE Hands(e) \ {w}
           /\ \A e : e \in InHand <=> Hands(e) # {}
           /\ \A e : e \in InHand' <=> Hands(e)' # {}
<1>1. worker' \in [Workers -> Rec] /\ worker'[w] = r /\ \A v \in Workers : v # w => worker'[v] = worker[v]
  BY DEF TypeOK, Rec
<1>2. ~r.hand => \A e : Hands(e)' = Hands(e) \ {w}
  BY <1>1 DEF Hands, Current
<1>3. r.hand => \A e : Hands(e)' = IF e = <<r.msg, r.at>> THEN Hands(e) \cup {w} ELSE Hands(e) \ {w}
  BY <1>1 DEF Hands, Current
<1>4. /\ \A e : e \in InHand <=> Hands(e) # {}
      /\ \A e : e \in InHand' <=> Hands(e)' # {}
  BY DEF Hands, InHand
<1> QED BY <1>1, <1>2, <1>3, <1>4

\* It lets go of the event in its hand.
LEMMA LetGo ==
    ASSUME IInv, NEW w \in Workers, NEW r \in Rec, worker' = [worker EXCEPT ![w] = r],
           worker[w].hand, ~r.hand
    PROVE  /\ worker' \in [Workers -> Rec] /\ worker'[w] = r
           /\ \A v \in Workers : v # w => worker'[v] = worker[v]
           /\ \A v \in Workers : worker'[v].hand => Current(v)' \in Events
           /\ \A e \in Events :
                /\ IsFiniteSet(Hands(e)') /\ Cardinality(Hands(e)) \in Nat
                /\ Cardinality(Hands(e)') = Cardinality(Hands(e)) - One(e = Current(w))
           /\ InHand' \subseteq InHand /\ InHand \subseteq InHand' \cup {Current(w)}
<1>1. /\ worker' \in [Workers -> Rec] /\ worker'[w] = r /\ \A v \in Workers : v # w => worker'[v] = worker[v]
      /\ \A e : Hands(e)' = Hands(e) \ {w}
      /\ \A e : e \in InHand <=> Hands(e) # {}
      /\ \A e : e \in InHand' <=> Hands(e)' # {}
  BY HandsChange DEF IInv
<1>2. \A e : w \in Hands(e) <=> e = Current(w)
  BY DEF Hands
<1>3. ASSUME NEW e \in Events
      PROVE  /\ IsFiniteSet(Hands(e)') /\ Cardinality(Hands(e)) \in Nat
             /\ Cardinality(Hands(e)') = Cardinality(Hands(e)) - One(e = Current(w))
  <2>1. IsFiniteSet(Hands(e)) /\ Cardinality(Hands(e)) \in Nat
    BY FS_CardinalityType DEF IInv, CountsOK
  <2> QED BY <1>1, <1>2, <2>1, FS_RemoveElement DEF One
<1>4. \A v \in Workers : worker'[v].hand => Current(v)' \in Events
  BY <1>1 DEF Current, IInv, TypeOK
<1>5. \A e : e # Current(w) => Hands(e)' = Hands(e)
  BY <1>1, <1>2
<1> QED BY <1>1, <1>3, <1>4, <1>5

\* It has nothing in its hand, before or after.
LEMMA EmptyHanded ==
    ASSUME IInv, NEW w \in Workers, NEW r \in Rec, worker' = [worker EXCEPT ![w] = r],
           ~worker[w].hand, ~r.hand
    PROVE  /\ worker' \in [Workers -> Rec] /\ worker'[w] = r
           /\ \A v \in Workers : v # w => worker'[v] = worker[v]
           /\ \A v \in Workers : worker'[v].hand => Current(v)' \in Events
           /\ \A e : Hands(e)' = Hands(e)
           /\ InHand' = InHand
<1>1. /\ worker' \in [Workers -> Rec] /\ worker'[w] = r /\ \A v \in Workers : v # w => worker'[v] = worker[v]
      /\ \A e : Hands(e)' = Hands(e) \ {w}
      /\ \A e : e \in InHand <=> Hands(e) # {}
      /\ \A e : e \in InHand' <=> Hands(e)' # {}
  BY HandsChange DEF IInv
<1>2. \A e : w \notin Hands(e)
  BY DEF Hands
<1>3. \A e : Hands(e)' = Hands(e)
  BY <1>1, <1>2
<1>4. \A e : e \in InHand' <=> e \in InHand
  BY <1>1, <1>3
<1>5. \A v \in Workers : worker'[v].hand => Current(v)' \in Events
  BY <1>1 DEF Current, IInv, TypeOK
<1> QED BY <1>1, <1>3, <1>4, <1>5

\* Its flush leaves nothing of a buffer, and an event is in one buffer only.
LEMMA Emptied ==
    ASSUME IInv, NEW b \in Buffers, buf' = [buf EXCEPT ![b] = {}]
    PROVE  /\ Buffered' = Buffered \ buf[b] /\ buf' \in [Buffers -> SUBSET Events]
           /\ \A c \in Buffers : buf'[c] \subseteq buf[c]
           /\ buf[b] \subseteq Events
<1>1. \A c \in Buffers, d \in Buffers : c # d => buf[c] \cap buf[d] = {}
  BY DEF IInv, KindsOK, Buffers
<1>2. buf'[b] = {} /\ (\A c \in Buffers : c # b => buf'[c] = buf[c]) /\ buf' \in [Buffers -> SUBSET Events]
  BY DEF IInv, TypeOK, Buffers
<1> QED BY <1>1, <1>2 DEF Buffered, Buffers, IInv, TypeOK

\* What has gone on is still where nobody need look for it.
LEMMA StaysFollowed ==
    ASSUME IInv, Settled \subseteq Settled', AckedEvents' \subseteq AckedEvents \cup Settled',
           seen' \subseteq seen \cup Settled',
           \A w \in Workers : \A i \in 1 .. PerMsg : Busy(w)' /\ i < worker'[w].at =>
               \/ Busy(w) /\ worker'[w].msg = worker[w].msg /\ i < worker[w].at
               \/ <<worker'[w].msg, i>> \in Settled'
    PROVE  Followed'
<1>1. AckedEvents' \subseteq Settled' /\ seen' \subseteq Settled'
  BY DEF IInv, Followed
<1>2. \A w \in Workers : \A i \in 1 .. PerMsg : Busy(w)' /\ i < worker'[w].at => <<worker'[w].msg, i>> \in Settled'
  BY DEF IInv, Followed
<1> QED BY <1>1, <1>2 DEF Followed

LEMMA QuietSettles == Quiet => Settled \subseteq Settled' /\ AckedEvents' = AckedEvents
BY DEF Quiet, Settled

\* It takes up the event it is at.
LEMMA Grabs ==
    ASSUME IInv, NEW w \in Workers, NEW r \in Rec, worker' = [worker EXCEPT ![w] = r],
           ~worker[w].hand, r.hand, r.msg = worker[w].msg, r.at = worker[w].at, Current(w) \in Events
    PROVE  /\ \A e \in Events :
                /\ IsFiniteSet(Hands(e)') /\ Cardinality(Hands(e)) \in Nat
                /\ Cardinality(Hands(e)') = Cardinality(Hands(e)) + One(e = Current(w))
           /\ InHand' = InHand \cup {Current(w)}
<1>1. /\ \A e : Hands(e)' = IF e = <<r.msg, r.at>> THEN Hands(e) \cup {w} ELSE Hands(e) \ {w}
      /\ \A e : e \in InHand <=> Hands(e) # {}
      /\ \A e : e \in InHand' <=> Hands(e)' # {}
  BY HandsChange DEF IInv
<1>2. \A e : w \notin Hands(e)
  BY DEF Hands
<1>3. \A e : Hands(e)' = IF e = Current(w) THEN Hands(e) \cup {w} ELSE Hands(e)
  BY <1>1, <1>2 DEF Current
<1>4. ASSUME NEW e \in Events
      PROVE  /\ IsFiniteSet(Hands(e)') /\ Cardinality(Hands(e)) \in Nat
             /\ Cardinality(Hands(e)') = Cardinality(Hands(e)) + One(e = Current(w))
  <2>1. IsFiniteSet(Hands(e)) /\ Cardinality(Hands(e)) \in Nat
    BY FS_CardinalityType DEF IInv, CountsOK
  <2> QED BY <1>2, <1>3, <2>1, FS_AddElement DEF One
<1>5. InHand' = InHand \cup {Current(w)}
  BY <1>1, <1>3
<1> QED BY <1>4, <1>5

\* What a goroutine that goes on keeps true of all of them.
LEMMA Goes ==
    ASSUME IInv, NEW w \in Workers, NEW r \in Rec, worker' = [worker EXCEPT ![w] = r],
           batch' = batch, \A m \in Msgs : stream[m] # "none" => stream'[m] # "none",
           r.hand => r.msg \in Msgs /\ batch[r.msg] # Garbled /\ <<r.msg, r.at>> \in Events,
           r.msg # 0 => stream'[r.msg] # "none"
    PROVE  Holding' /\ WorkersOK' /\ worker'[w] = r /\ \A v \in Workers : v # w => worker'[v] = worker[v]
<1>1. worker' \in [Workers -> Rec] /\ worker'[w] = r /\ \A v \in Workers : v # w => worker'[v] = worker[v]
  BY DEF IInv, TypeOK, Rec
<1>2. ASSUME NEW v \in Workers, v # w
      PROVE  /\ worker'[v].hand => Busy(v)' /\ batch'[worker'[v].msg] # Garbled /\ Current(v)' \in Events
             /\ Busy(v)' => stream'[worker'[v].msg] # "none"
  <2>1. worker[v] \in Rec /\ worker'[v] = worker[v]
    BY <1>1, <1>2 DEF IInv, TypeOK, Rec
  <2>2. Busy(v) => worker[v].msg \in Msgs
    BY <2>1, EnricherAssumption DEF Rec, Msgs, Busy
  <2> QED BY <2>1, <2>2 DEF IInv, TypeOK, KindsOK, WorkersOK, Busy, Current
<1>3. /\ worker'[w].hand => Busy(w)' /\ batch'[worker'[w].msg] # Garbled /\ Current(w)' \in Events
      /\ Busy(w)' => stream'[worker'[w].msg] # "none"
  <2>1. 0 \notin Msgs
    BY EnricherAssumption DEF Msgs
  <2> QED BY <1>1, <2>1 DEF Busy, Current
<1> QED BY <1>1, <1>2, <1>3 DEF Holding, WorkersOK

\* Between its first delivery and its ack a message may move as it likes.
LEMMA StreamMoves ==
    ASSUME \A m \in Msgs : (stream'[m] = "none" <=> stream[m] = "none") /\ (stream'[m] = "acked" <=> stream[m] = "acked")
    PROVE  Published' = Published /\ AckedEvents' = AckedEvents
<1>1. {m \in Msgs : stream'[m] # "none"} = {m \in Msgs : stream[m] # "none"}
  OBVIOUS
<1>2. {m \in Msgs : stream'[m] = "acked"} = {m \in Msgs : stream[m] = "acked"}
  OBVIOUS
<1> QED BY <1>1, <1>2 DEF Published, AckedEvents

LEMMA Nacks ==
    ASSUME IInv, NEW m \in Msgs, Naked(m), stream[m] # "none"
    PROVE  /\ stream' \in [Msgs -> {"none", "waiting", "out", "acked"}]
           /\ \A n \in Msgs : stream[n] # "none" => stream'[n] # "none"
           /\ Published' = Published /\ AckedEvents' = AckedEvents
<1>1. /\ stream' \in [Msgs -> {"none", "waiting", "out", "acked"}]
      /\ \A n \in Msgs : (stream'[n] = "none" <=> stream[n] = "none") /\ (stream'[n] = "acked" <=> stream[n] = "acked")
  BY DEF IInv, TypeOK, Naked
<1> QED BY <1>1, StreamMoves

\* A goroutine goes on within its message.
LEMMA Moves ==
    ASSUME IInv, NEW w \in Workers, NEW i \in 1 .. (PerMsg + 1), GoTo(w, i, FALSE)
    PROVE  \E r \in Rec : /\ worker' = [worker EXCEPT ![w] = r] /\ ~r.hand
                          /\ r.msg = worker[w].msg /\ r.at = i
<1> DEFINE r == [msg |-> worker[w].msg, at |-> i, hand |-> FALSE]
<1>1. worker[w] \in Rec
  BY DEF IInv, TypeOK, Rec
<1>2. r \in Rec /\ ~r.hand /\ r.msg = worker[w].msg /\ r.at = i
  BY <1>1 DEF Rec
<1>3. worker' = [worker EXCEPT ![w] = r]
  BY DEF GoTo
<1> HIDE DEF r
<1> QED BY <1>2, <1>3

LEMMA Advances ==
    ASSUME IInv, NEW w \in Workers, worker[w].msg \in Msgs, worker[w].at \in 1 .. PerMsg, Advance(w)
    PROVE  \E r \in Rec : /\ worker' = [worker EXCEPT ![w] = r] /\ ~r.hand
                          /\ r.msg = worker[w].msg /\ r.at = worker[w].at + 1
<1>1. worker[w].at + 1 \in 1 .. (PerMsg + 1)
  BY EnricherAssumption
<1>2. GoTo(w, worker[w].at + 1, FALSE)
  BY DEF Advance
<1> QED BY <1>1, <1>2, Moves

LEMMA ParkMore ==
    ASSUME NEW m
    PROVE  /\ dlq' = dlq \cup {m} => Parked' = Parked \cup EventsOf(m)
           /\ unparked' = unparked \cup {m} => Unparked' = Unparked \cup EventsOf(m)
BY DEF Parked, Unparked

\* An insert counts each of its rows once.
LEMMA Inserts ==
    ASSUME IInv, NEW T, T \subseteq Events, Inserted(T)
    PROVE  /\ copies' \in [Events -> Nat] /\ stored' = stored \cup T
           /\ \A e \in Events : copies[e] \in Nat /\ copies'[e] = copies[e] + One(e \in T)
<1>1. copies \in [Events -> Nat]
  BY DEF IInv, CountsOK
<1>2. ASSUME NEW e \in Events
      PROVE  copies[e] \in Nat /\ copies'[e] \in Nat /\ copies'[e] = copies[e] + One(e \in T)
  BY <1>1 DEF Inserted, One
<1>3. copies' \in [Events -> Nat]
  BY <1>2 DEF Inserted
<1> QED BY <1>2, <1>3 DEF Inserted

LEMMA IdleRec == Idle \in Rec /\ ~Idle.hand /\ Idle.msg = 0 /\ Idle.at = 1
BY EnricherAssumption DEF Idle, Rec

\* The error path NAKs: no delivery comes with a count of the earlier ones.
LEMMA Aborts ==
    ASSUME NEW w \in Workers, Abort(w)
    PROVE  worker' = [worker EXCEPT ![w] = Idle] /\ Naked(worker[w].msg) /\ dlq' = dlq
BY EnricherAssumption DEF Abort, RetryCountOf

LEMMA InitIInv == Init => IInv
<1> SUFFICES ASSUME Init PROVE IInv
  OBVIOUS
<1>1. Idle \in Rec /\ ~Idle.hand /\ Idle.msg = 0 /\ Idle.at = 1
  BY EnricherAssumption DEF Idle, Rec
<1>2. TypeOK
  <2>1. worker \in [Workers -> Rec] /\ \A w \in Workers : ~worker[w].hand
    BY <1>1 DEF Init
  <2>2. batch \in [Msgs -> (UNION {Batches[m] : m \in Msgs}) \cup {<<>>}]
    <3> DEFINE B == (UNION {Batches[m] : m \in Msgs}) \cup {<<>>}
    <3>1. <<>> \in B
      OBVIOUS
    <3> HIDE DEF B
    <3>2. batch \in [Msgs -> B]
      BY <3>1 DEF Init
    <3> QED BY <3>2 DEF B
  <2>3. buf \in [{"events", "heartbeats"} -> SUBSET Events]
    BY DEF Init, Empty
  <2> QED BY <2>1, <2>2, <2>3 DEF Init, TypeOK, Rec
<1>3. Buffered = {} /\ InHand = {} /\ \A e : Hands(e) = {}
  BY <1>1 DEF Init, Buffered, Empty, InHand, Hands
<1>4. Parked = {} /\ Unparked = {} /\ AckedEvents = {}
  BY DEF Init, Parked, Unparked, AckedEvents
<1>5. CountsOK
  BY <1>3, FS_EmptySet DEF Init, CountsOK
<1>6. Counted
  <2>1. Allowance = 0 /\ \A e \in Events : copies[e] = 0 /\ e \notin seen
    BY DEF Init, Allowance, One
  <2>2. \A e \in Events : e \notin Buffered /\ Cardinality(Hands(e)) = 0
    BY <1>3, FS_EmptySet
  <2> QED BY <2>1, <2>2 DEF Counted, One
<1>7. KindsOK
  BY <1>1, <1>3, <1>4 DEF Init, KindsOK, WorkersOK, Known, Kept, Lost, Busy, Empty
<1>8. Followed
  BY <1>1, <1>4 DEF Init, Followed, Busy
<1> QED BY <1>2, <1>5, <1>6, <1>7, <1>8 DEF IInv

-----------------------------------------------------------------------------
(* One lemma per action.                                                     *)

LEMMA FetchKeeps ==
    ASSUME IInv, NEW w \in Workers, NEW m \in Msgs, Fetch(w, m)
    PROVE  IInv' /\ Quiet
<1> DEFINE r == [msg |-> m, at |-> 1, hand |-> FALSE]
<1>0. /\ batch' = batch /\ seen' = seen /\ buf' = buf /\ run' = run
      /\ UNCHANGED <<stored, copies, dlq, dropped, fails, timeouts, forgets, crashes, stops, failed, unparked, crashed>>
  BY DEF Fetch, sinks, faultVars, history
<1>1. r \in Rec /\ ~r.hand /\ r.msg = m /\ r.at = 1 /\ worker' = [worker EXCEPT ![w] = r]
  BY EnricherAssumption DEF Rec, Msgs, Fetch
<1> HIDE DEF r
<1>2. ~worker[w].hand
  BY DEF Fetch, IInv, KindsOK, WorkersOK
<1>3. /\ stream' \in [Msgs -> {"none", "waiting", "out", "acked"}] /\ stream'[m] = "out"
      /\ \A n \in Msgs : (stream'[n] = "none" <=> stream[n] = "none") /\ (stream'[n] = "acked" <=> stream[n] = "acked")
  BY DEF IInv, TypeOK, Fetch
<1>4. Published' = Published /\ AckedEvents' = AckedEvents
  BY <1>3, StreamMoves
<1>5. Holding' /\ WorkersOK' /\ worker'[w] = r /\ \A v \in Workers : v # w => worker'[v] = worker[v]
  BY <1>0, <1>1, <1>3, Goes
<1>6. (\A e : Hands(e)' = Hands(e)) /\ InHand' = InHand
  BY <1>1, <1>2, EmptyHanded
<1>7. Kept' = Kept /\ Lost' = Lost /\ Doomed' = Doomed /\ Buffered' = Buffered /\ Allowance' = Allowance
  BY <1>0, <1>6 DEF Kept, Lost, Doomed, Buffered, Parked, Unparked, KindOf, Allowance
<1>8. TypeOK'
  BY <1>0, <1>3, <1>5 DEF IInv, TypeOK, Rec, Holding
<1>9. CountsOK'
  BY <1>0, <1>6 DEF IInv, CountsOK
<1>10. Counted'
  BY <1>0, <1>6, <1>7 DEF IInv, Counted
<1>11. KindsOK'
  BY <1>0, <1>4, <1>5, <1>7 DEF IInv, KindsOK, Known, KindOf, BufferOf
<1>12. Quiet
  BY <1>4, <1>7 DEF Quiet
<1>13. Followed'
  BY <1>0, <1>1, <1>5, <1>12, QuietSettles, StaysFollowed DEF Busy
<1> QED BY <1>8, <1>9, <1>10, <1>11, <1>12, <1>13 DEF IInv

LEMMA DecodeFailsKeeps ==
    ASSUME IInv, NEW w \in Workers, DecodeFails(w)
    PROVE  IInv' /\ Quiet
<1> DEFINE m == worker[w].msg
<1>0. /\ UNCHANGED <<batch, stream, seen, buf, run, stored, copies, dropped>>
      /\ UNCHANGED <<timeouts, forgets, crashes, stops, failed, crashed>>
      /\ \/ dlq' = dlq \cup {m} /\ fails' = fails /\ unparked' = unparked
         \/ dlq' = dlq /\ fails' = fails + 1 /\ unparked' = unparked \cup {m}
  BY DEF DecodeFails
<1>1. m \in Msgs /\ batch[m] = Garbled /\ ~worker[w].hand /\ stream[m] # "none" /\ Busy(w)
  BY EnricherAssumption DEF DecodeFails, Busy, Msgs, IInv, TypeOK, KindsOK, WorkersOK
<1>2. PerMsg + 1 \in 1 .. (PerMsg + 1)
  BY EnricherAssumption
<1>2a. GoTo(w, PerMsg + 1, FALSE)
  BY DEF DecodeFails
<1>3. PICK r \in Rec : worker' = [worker EXCEPT ![w] = r] /\ ~r.hand /\ r.msg = m /\ r.at = PerMsg + 1
  BY <1>2, <1>2a, Moves
<1>4. Published' = Published /\ AckedEvents' = AckedEvents
  BY <1>0 DEF Published, AckedEvents
<1>5. Holding' /\ WorkersOK' /\ worker'[w] = r /\ \A v \in Workers : v # w => worker'[v] = worker[v]
  BY <1>0, <1>1, <1>3, Goes
<1>6. (\A e : Hands(e)' = Hands(e)) /\ InHand' = InHand
  BY <1>1, <1>3, EmptyHanded
<1>7. Doomed' = Doomed /\ Buffered' = Buffered /\ Allowance' = Allowance
  BY <1>0, <1>6 DEF Doomed, Buffered, KindOf, Allowance
<1>8. /\ Parked' \cup Unparked' = Parked \cup Unparked \cup EventsOf(m)
      /\ Parked \subseteq Parked' /\ Unparked \subseteq Unparked'
  BY <1>0, ParkMore DEF Parked, Unparked
<1>9. (Kept \cup Lost)' = Kept \cup Lost \cup EventsOf(m)
  BY <1>0, <1>6, <1>7, <1>8 DEF Kept, Lost
<1>10. EventsOf(m) \subseteq Published
  BY <1>1 DEF Published
<1>11. TypeOK'
  BY <1>0, <1>1, <1>5 DEF IInv, TypeOK, Rec, Holding
<1>12. CountsOK'
  BY <1>0, <1>6 DEF IInv, CountsOK
<1>13. Counted'
  BY <1>0, <1>6, <1>7 DEF IInv, Counted
<1>14. KindsOK'
  <2>1. Known' \subseteq Published'
    BY <1>0, <1>4, <1>9, <1>10 DEF IInv, KindsOK, Known
  <2> QED BY <1>0, <1>1, <1>5, <2>1 DEF IInv, KindsOK, KindOf, BufferOf
<1>15. Quiet
  BY <1>4, <1>7, <1>9 DEF Quiet
<1>16. \A i \in 1 .. PerMsg : <<m, i>> \in Settled'
  BY <1>9 DEF Settled, EventsOf
<1>17. Followed'
  BY <1>0, <1>3, <1>5, <1>15, <1>16, QuietSettles, StaysFollowed DEF Busy
<1> QED BY <1>11, <1>12, <1>13, <1>14, <1>15, <1>17 DEF IInv

\* processBatch skips a duplicate.
LEMMA SkipKeeps ==
    ASSUME IInv, NEW w \in Workers, Seen(w), Current(w) \in seen
    PROVE  IInv' /\ Quiet
<1>0. UNCHANGED <<batch, stream, seen, buf, run, stored, copies, dlq, dropped, fails, timeouts, forgets, crashes, stops,
                  failed, unparked, crashed>>
  BY DEF Seen, sinks, faultVars, history
<1>1. worker[w].msg \in Msgs /\ worker[w].at \in 1 .. PerMsg /\ ~worker[w].hand /\ stream[worker[w].msg] # "none"
      /\ Busy(w) /\ Advance(w)
  BY EnricherAssumption DEF Seen, AtEvent, Busy, Msgs, IInv, TypeOK, KindsOK, WorkersOK
<1>2. PICK r \in Rec : /\ worker' = [worker EXCEPT ![w] = r] /\ ~r.hand
                       /\ r.msg = worker[w].msg /\ r.at = worker[w].at + 1
  BY <1>1, Advances
<1>4. Published' = Published /\ AckedEvents' = AckedEvents
  BY <1>0 DEF Published, AckedEvents
<1>5. Holding' /\ WorkersOK' /\ worker'[w] = r /\ \A v \in Workers : v # w => worker'[v] = worker[v]
  BY <1>0, <1>1, <1>2, Goes
<1>6. (\A e : Hands(e)' = Hands(e)) /\ InHand' = InHand
  BY <1>1, <1>2, EmptyHanded
<1>7. Kept' = Kept /\ Lost' = Lost /\ Doomed' = Doomed /\ Buffered' = Buffered /\ Allowance' = Allowance
  BY <1>0, <1>6 DEF Kept, Lost, Doomed, Buffered, Parked, Unparked, KindOf, Allowance
<1>8. TypeOK'
  BY <1>0, <1>5 DEF IInv, TypeOK, Rec, Holding
<1>9. CountsOK'
  BY <1>0, <1>6 DEF IInv, CountsOK
<1>10. Counted'
  BY <1>0, <1>6, <1>7 DEF IInv, Counted
<1>11. KindsOK'
  BY <1>0, <1>4, <1>5, <1>7 DEF IInv, KindsOK, Known, KindOf, BufferOf
<1>12. Quiet
  BY <1>4, <1>7 DEF Quiet
<1>13. Settled' = Settled /\ <<worker[w].msg, worker[w].at>> \in Settled'
  BY <1>7 DEF Settled, IInv, Followed, Current
<1>14. \A i \in 1 .. PerMsg : i < worker'[w].at => i < worker[w].at \/ i = worker[w].at
  BY <1>1, <1>2, <1>5
<1>15. Followed'
  BY <1>0, <1>1, <1>2, <1>5, <1>12, <1>13, <1>14, QuietSettles, StaysFollowed DEF Busy
<1> QED BY <1>8, <1>9, <1>10, <1>11, <1>12, <1>15 DEF IInv

\* processBatch records an event and has it in hand; one of the class that is
\* purged is given up from here on.
LEMMA RecordKeeps ==
    ASSUME IInv, NEW w \in Workers, Seen(w), Current(w) \notin seen
    PROVE  /\ IInv'
           /\ Published' = Published /\ AckedEvents' = AckedEvents
           /\ (Kept \cup Lost)' = Kept \cup Lost \cup {Current(w)}
           /\ Doomed' = IF KindOf(Current(w)) = "purge" THEN Doomed \cup {Current(w)} ELSE Doomed
           /\ Current(w) \in Events /\ Current(w) \in Published
<1> DEFINE c == Current(w)
<1>0. /\ UNCHANGED <<batch, stream, buf, run, stored, copies, dlq, dropped>>
      /\ UNCHANGED <<fails, timeouts, forgets, crashes, stops, failed, unparked, crashed>>
      /\ seen' = seen \cup {c}
  BY DEF Seen, sinks, faultVars, history
<1>1. worker[w].msg \in Msgs /\ worker[w].at \in 1 .. PerMsg /\ ~worker[w].hand /\ stream[worker[w].msg] # "none"
      /\ Busy(w) /\ batch[worker[w].msg] # Garbled
  BY EnricherAssumption DEF Seen, AtEvent, Busy, Msgs, IInv, TypeOK, KindsOK, WorkersOK
<1> DEFINE r == [msg |-> worker[w].msg, at |-> worker[w].at, hand |-> TRUE]
<1>2. r \in Rec /\ r.hand /\ r.msg = worker[w].msg /\ r.at = worker[w].at
  BY <1>1, EnricherAssumption DEF Rec, Msgs
<1>3. worker' = [worker EXCEPT ![w] = r]
  BY DEF Seen, GoTo
<1> HIDE DEF r
<1>3a. c \in Events /\ c \in Published /\ c = <<r.msg, r.at>>
  BY <1>1, <1>2, EventsOfSet DEF Current, Published, EventsOf
<1>4. Published' = Published /\ AckedEvents' = AckedEvents
  BY <1>0 DEF Published, AckedEvents
<1>5. Holding' /\ WorkersOK' /\ worker'[w] = r /\ \A v \in Workers : v # w => worker'[v] = worker[v]
  BY <1>0, <1>1, <1>2, <1>3, <1>3a, Goes
<1>6. /\ \A e \in Events :
           /\ IsFiniteSet(Hands(e)') /\ Cardinality(Hands(e)) \in Nat
           /\ Cardinality(Hands(e)') = Cardinality(Hands(e)) + One(e = c)
      /\ InHand' = InHand \cup {c}
  BY <1>1, <1>2, <1>3, <1>3a, Grabs
<1>7. /\ Buffered' = Buffered /\ Allowance' = Allowance /\ Parked' = Parked /\ Unparked' = Unparked
      /\ (Kept \cup Lost)' = Kept \cup Lost \cup {c}
  BY <1>0, <1>6 DEF Kept, Lost, Buffered, Parked, Unparked, Allowance
<1>8. Doomed' = IF KindOf(c) = "purge" THEN Doomed \cup {c} ELSE Doomed
  BY <1>0, <1>6 DEF Doomed, KindOf
<1>9. TypeOK'
  BY <1>0, <1>3a, <1>5 DEF IInv, TypeOK, Rec, Holding
<1>10. CountsOK'
  BY <1>0, <1>6 DEF IInv, CountsOK
<1>11. Counted'
  <2> SUFFICES ASSUME NEW e \in Events
               PROVE  copies'[e] + Cardinality(Hands(e)') + One(e \in Buffered') <= One(e \in seen') + Allowance'
    BY DEF Counted
  <2>1. copies[e] + Cardinality(Hands(e)) + One(e \in Buffered) <= One(e \in seen) + Allowance
    BY DEF IInv, Counted
  <2>2. copies[e] \in Nat /\ Cardinality(Hands(e)) \in Nat /\ Cardinality(Hands(e)') = Cardinality(Hands(e)) + One(e = c)
    BY <1>6 DEF IInv, CountsOK
  <2>3. Allowance \in Int
    BY DEF Allowance, One, IInv, CountsOK
  <2>4. One(e \in seen') = One(e \in seen) + One(e = c)
    BY <1>0 DEF One
  <2>5. One(e = c) \in Int /\ One(e \in seen) \in Int /\ One(e \in Buffered) \in Int
    BY DEF One
  <2>6. copies'[e] = copies[e] /\ Buffered' = Buffered /\ Allowance' = Allowance
    BY <1>0, <1>7
  <2> HIDE DEF c
  <2> QED BY <2>1, <2>2, <2>3, <2>4, <2>5, <2>6
<1>12. KindsOK'
  <2>1. Known' \subseteq Published'
    BY <1>0, <1>3a, <1>4, <1>7 DEF IInv, KindsOK, Known
  <2> QED BY <1>0, <1>5, <2>1 DEF IInv, KindsOK, KindOf, BufferOf
<1>13. Settled \subseteq Settled' /\ c \in Settled'
  BY <1>7, <1>8 DEF Settled
<1>14. Followed'
  BY <1>0, <1>1, <1>2, <1>4, <1>5, <1>13, StaysFollowed DEF Busy
<1> QED BY <1>3a, <1>4, <1>7, <1>8, <1>9, <1>10, <1>11, <1>12, <1>14 DEF IInv

\* What counts when an event leaves a hand for the buffer, the table or nothing.
LEMMA CountedOn ==
    ASSUME IInv, NEW c, seen' = seen, Allowance' = Allowance,
           \A e \in Events :
             /\ Cardinality(Hands(e)) \in Nat
             /\ Cardinality(Hands(e)') = Cardinality(Hands(e)) - One(e = c),
           \A e \in Events :
             copies'[e] \in Nat /\ copies'[e] + One(e \in Buffered') <= copies[e] + One(e \in Buffered) + One(e = c)
    PROVE  Counted'
<1> SUFFICES ASSUME NEW e \in Events
             PROVE  copies'[e] + Cardinality(Hands(e)') + One(e \in Buffered') <= One(e \in seen') + Allowance'
  BY DEF Counted
<1>1. copies[e] + Cardinality(Hands(e)) + One(e \in Buffered) <= One(e \in seen) + Allowance
  BY DEF IInv, Counted
<1>2. copies[e] \in Nat /\ Allowance \in Int
  BY DEF Allowance, One, IInv, CountsOK
<1>3. /\ One(e \in Buffered') \in Int /\ One(e = c) \in Int
      /\ One(e \in Buffered) \in Int /\ One(e \in seen) \in Int
  BY DEF One
<1> QED BY <1>1, <1>2, <1>3

LEMMA EnrichFailsKeeps ==
    ASSUME IInv, NEW w \in Workers, EnrichFails(w)
    PROVE  IInv' /\ Quiet
<1> DEFINE c == Current(w)
<1>0. /\ UNCHANGED <<batch, seen, buf, run, stored, copies, dropped>>
      /\ UNCHANGED <<fails, timeouts, forgets, crashes, stops, unparked, crashed>>
      /\ failed' = failed \cup {c} /\ dlq' = dlq /\ worker[w].hand /\ KindOf(c) # "purge"
      /\ worker' = [worker EXCEPT ![w] = Idle] /\ Naked(worker[w].msg)
  BY Aborts DEF EnrichFails, faultVars
<1>1. /\ c \in Events /\ c \in Published /\ c \in InHand
      /\ worker[w].msg \in Msgs /\ stream[worker[w].msg] # "none"
  BY <1>0, InHandKnown
<1>2. /\ stream' \in [Msgs -> {"none", "waiting", "out", "acked"}]
      /\ \A n \in Msgs : stream[n] # "none" => stream'[n] # "none"
      /\ Published' = Published /\ AckedEvents' = AckedEvents
  BY <1>0, <1>1, Nacks
<1>3. Holding' /\ WorkersOK' /\ worker'[w] = Idle /\ \A v \in Workers : v # w => worker'[v] = worker[v]
  BY <1>0, <1>2, IdleRec, Goes
<1>4. /\ \A e \in Events :
           /\ IsFiniteSet(Hands(e)') /\ Cardinality(Hands(e)) \in Nat
           /\ Cardinality(Hands(e)') = Cardinality(Hands(e)) - One(e = c)
      /\ InHand' \subseteq InHand /\ InHand \subseteq InHand' \cup {c}
  BY <1>0, IdleRec, LetGo
<1>5. /\ Buffered' = Buffered /\ Allowance' = Allowance /\ Parked' = Parked /\ Unparked' = Unparked
      /\ (Kept \cup Lost)' = Kept \cup Lost
  BY <1>0, <1>1, <1>4 DEF Kept, Lost, Buffered, Parked, Unparked, Allowance
<1>6. Doomed' = Doomed
  BY <1>0, <1>4 DEF Doomed, KindOf
<1>7. TypeOK'
  BY <1>0, <1>1, <1>2, <1>3 DEF IInv, TypeOK, Rec, Holding
<1>8. CountsOK'
  BY <1>0, <1>4 DEF IInv, CountsOK
<1>9. Counted'
  <2>1. \A e \in Events :
          copies'[e] \in Nat /\ copies'[e] + One(e \in Buffered') <= copies[e] + One(e \in Buffered) + One(e = c)
    BY <1>0, <1>5 DEF One, IInv, CountsOK
  <2>2. seen' = seen /\ Allowance' = Allowance
    BY <1>0, <1>5
  <2> HIDE DEF c
  <2> QED BY <1>4, <2>1, <2>2, CountedOn
<1>10. KindsOK'
  <2>1. Known' \subseteq Published'
    BY <1>0, <1>2, <1>5 DEF IInv, KindsOK, Known
  <2> QED BY <1>0, <1>3, <2>1 DEF IInv, KindsOK, KindOf, BufferOf
<1>11. Quiet
  BY <1>2, <1>5, <1>6 DEF Quiet
<1>12. Followed'
  BY <1>0, <1>3, <1>11, IdleRec, QuietSettles, StaysFollowed DEF Busy
<1> QED BY <1>7, <1>8, <1>9, <1>10, <1>11, <1>12 DEF IInv

\* RETENTION_CLASS_PURGE was given up when it was recorded; now it is counted as dropped.
LEMMA DropKeeps ==
    ASSUME IInv, NEW w \in Workers, Drop(w)
    PROVE  IInv' /\ Quiet
<1> DEFINE c == Current(w)
<1>0. /\ UNCHANGED <<batch, stream, seen, buf, run, stored, copies, dlq>>
      /\ UNCHANGED <<fails, timeouts, forgets, crashes, stops, failed, unparked, crashed>>
      /\ dropped' = dropped \cup {c} /\ worker[w].hand /\ KindOf(c) = "purge" /\ Advance(w)
  BY DEF Drop, faultVars, history
<1>1. /\ c \in Events /\ c \in Published /\ c \in InHand /\ c = <<worker[w].msg, worker[w].at>>
      /\ worker[w].msg \in Msgs /\ worker[w].at \in 1 .. PerMsg /\ stream[worker[w].msg] # "none"
      /\ batch[worker[w].msg] # Garbled
  BY <1>0, InHandKnown DEF Current
<1>2. PICK r \in Rec : /\ worker' = [worker EXCEPT ![w] = r] /\ ~r.hand
                       /\ r.msg = worker[w].msg /\ r.at = worker[w].at + 1
  BY <1>0, <1>1, Advances
<1>3. Published' = Published /\ AckedEvents' = AckedEvents
  BY <1>0 DEF Published, AckedEvents
<1>4. Holding' /\ WorkersOK' /\ worker'[w] = r /\ \A v \in Workers : v # w => worker'[v] = worker[v]
  BY <1>0, <1>1, <1>2, Goes
<1>5. /\ \A e \in Events :
           /\ IsFiniteSet(Hands(e)') /\ Cardinality(Hands(e)) \in Nat
           /\ Cardinality(Hands(e)') = Cardinality(Hands(e)) - One(e = c)
      /\ InHand' \subseteq InHand /\ InHand \subseteq InHand' \cup {c}
  BY <1>0, <1>2, LetGo
<1>6. /\ Buffered' = Buffered /\ Allowance' = Allowance /\ Parked' = Parked /\ Unparked' = Unparked
      /\ (Kept \cup Lost)' \subseteq Kept \cup Lost /\ Kept \cup Lost \subseteq (Kept \cup Lost)' \cup {c}
  BY <1>0, <1>5 DEF Kept, Lost, Buffered, Parked, Unparked, Allowance
<1>7. Doomed' = Doomed /\ c \in Doomed'
  BY <1>0, <1>1, <1>5 DEF Doomed, KindOf
<1>8. TypeOK'
  BY <1>0, <1>1, <1>4 DEF IInv, TypeOK, Rec, Holding
<1>9. CountsOK'
  BY <1>0, <1>5 DEF IInv, CountsOK
<1>10. Counted'
  <2>1. \A e \in Events :
          copies'[e] \in Nat /\ copies'[e] + One(e \in Buffered') <= copies[e] + One(e \in Buffered) + One(e = c)
    BY <1>0, <1>6 DEF One, IInv, CountsOK
  <2>2. seen' = seen /\ Allowance' = Allowance
    BY <1>0, <1>6
  <2> HIDE DEF c
  <2> QED BY <1>5, <2>1, <2>2, CountedOn
<1>11. KindsOK'
  <2>1. Known' \subseteq Published'
    BY <1>0, <1>1, <1>3, <1>6 DEF IInv, KindsOK, Known
  <2> QED BY <1>0, <1>4, <2>1 DEF IInv, KindsOK, KindOf, BufferOf
<1>12. Quiet
  BY <1>3, <1>6, <1>7 DEF Quiet
<1>13. \A i \in 1 .. PerMsg : i < worker'[w].at => i < worker[w].at \/ i = worker[w].at
  BY <1>1, <1>2, <1>4
<1>14. Followed'
  <2>1. <<worker[w].msg, worker[w].at>> \in Settled'
    BY <1>1, <1>7 DEF Settled
  <2>2. \A v \in Workers : \A i \in 1 .. PerMsg : Busy(v)' /\ i < worker'[v].at =>
               \/ Busy(v) /\ worker'[v].msg = worker[v].msg /\ i < worker[v].at
               \/ <<worker'[v].msg, i>> \in Settled'
    BY <1>2, <1>4, <1>13, <2>1 DEF Busy
  <2> QED BY <1>0, <1>12, <2>2, QuietSettles, StaysFollowed
<1> QED BY <1>8, <1>9, <1>10, <1>11, <1>12, <1>14 DEF IInv

\* A row below the batch size stays in the batcher's memory.
LEMMA AddKeeps ==
    ASSUME IInv, NEW w \in Workers, Add(w)
    PROVE  IInv' /\ Quiet
<1> DEFINE c == Current(w)
           b == BufferOf(c)
<1>0. /\ UNCHANGED <<batch, stream, seen, run, stored, copies, dlq, dropped>>
      /\ UNCHANGED <<fails, timeouts, forgets, crashes, stops, failed, unparked, crashed>>
      /\ buf' = [buf EXCEPT ![b] = buf[b] \cup {c}]
      /\ worker[w].hand /\ KindOf(c) \in RowKinds /\ Advance(w)
  BY DEF Add, Taken, sinks, faultVars, history
<1>1. /\ c \in Events /\ c \in Published /\ c \in InHand /\ c = <<worker[w].msg, worker[w].at>>
      /\ worker[w].msg \in Msgs /\ worker[w].at \in 1 .. PerMsg /\ stream[worker[w].msg] # "none"
      /\ batch[worker[w].msg] # Garbled
  BY <1>0, InHandKnown DEF Current
<1>2. PICK r \in Rec : /\ worker' = [worker EXCEPT ![w] = r] /\ ~r.hand
                       /\ r.msg = worker[w].msg /\ r.at = worker[w].at + 1
  BY <1>0, <1>1, Advances
<1>3. Published' = Published /\ AckedEvents' = AckedEvents
  BY <1>0 DEF Published, AckedEvents
<1>4. Holding' /\ WorkersOK' /\ worker'[w] = r /\ \A v \in Workers : v # w => worker'[v] = worker[v]
  BY <1>0, <1>1, <1>2, Goes
<1>5. /\ \A e \in Events :
           /\ IsFiniteSet(Hands(e)') /\ Cardinality(Hands(e)) \in Nat
           /\ Cardinality(Hands(e)') = Cardinality(Hands(e)) - One(e = c)
      /\ InHand' \subseteq InHand /\ InHand \subseteq InHand' \cup {c}
  BY <1>0, <1>2, LetGo
<1>5a. /\ b \in Buffers /\ buf' \in [Buffers -> SUBSET Events] /\ buf'[b] = buf[b] \cup {c}
       /\ \A d \in Buffers : d # b => buf'[d] = buf[d]
  BY <1>0, <1>1 DEF BufferOf, Buffers, IInv, TypeOK
<1>6. /\ Buffered' = Buffered \cup {c} /\ Allowance' = Allowance /\ Parked' = Parked /\ Unparked' = Unparked
  BY <1>0, <1>5a DEF Buffered, Buffers, Parked, Unparked, Allowance
<1>6a. (Kept \cup Lost)' = Kept \cup Lost
  BY <1>0, <1>1, <1>5, <1>6 DEF Kept, Lost
<1>7. Doomed' = Doomed
  BY <1>0, <1>1, <1>5 DEF Doomed, KindOf, RowKinds
<1>8. TypeOK'
  BY <1>0, <1>1, <1>4, <1>5a DEF IInv, TypeOK, Rec, Holding, Buffers
<1>9. CountsOK'
  BY <1>0, <1>5 DEF IInv, CountsOK
<1>10. Counted'
  <2>1. \A e \in Events :
          copies'[e] \in Nat /\ copies'[e] + One(e \in Buffered') <= copies[e] + One(e \in Buffered) + One(e = c)
    BY <1>0, <1>6 DEF One, IInv, CountsOK
  <2>2. seen' = seen /\ Allowance' = Allowance
    BY <1>0, <1>6
  <2> HIDE DEF c
  <2> QED BY <1>5, <2>1, <2>2, CountedOn
<1>11. KindsOK'
  <2>1. Known' \subseteq Published'
    BY <1>0, <1>1, <1>3, <1>6a DEF IInv, KindsOK, Known
  <2>2. \A d \in Buffers : \A e \in buf'[d] : KindOf(e) \in RowKinds /\ BufferOf(e) = d
    BY <1>0, <1>5a DEF IInv, KindsOK, Buffers
  <2> QED BY <1>0, <1>4, <2>1, <2>2 DEF IInv, KindsOK, KindOf, BufferOf, Buffers
<1>12. Quiet
  BY <1>3, <1>6a, <1>7 DEF Quiet
<1>13. \A i \in 1 .. PerMsg : i < worker'[w].at => i < worker[w].at \/ i = worker[w].at
  BY <1>1, <1>2, <1>4
<1>14. Followed'
  <2>1. <<worker[w].msg, worker[w].at>> \in Settled'
    BY <1>1, <1>6 DEF Settled, Kept
  <2>2. \A v \in Workers : \A i \in 1 .. PerMsg : Busy(v)' /\ i < worker'[v].at =>
               \/ Busy(v) /\ worker'[v].msg = worker[v].msg /\ i < worker[v].at
               \/ <<worker'[v].msg, i>> \in Settled'
    BY <1>2, <1>4, <1>13, <2>1 DEF Busy
  <2> QED BY <1>0, <1>12, <2>2, QuietSettles, StaysFollowed
<1> QED BY <1>8, <1>9, <1>10, <1>11, <1>12, <1>14 DEF IInv

\* Each row of a flush that fails was inserted or is one that failed.
LEMMA FailedFlush ==
    ASSUME IInv, NEW b \in Buffers, NEW S, NEW T \in SUBSET S, FlushFails(b, S, T)
    PROVE  /\ \E I \in SUBSET S : Inserted(I) /\ S \subseteq I \cup T
           /\ buf' = [buf EXCEPT ![b] = {}] /\ failed' = failed \cup T /\ fails' \in Nat
<1>1. PICK kept \in SUBSET T : Inserted((S \ T) \cup kept)
  BY DEF FlushFails
<1>2. buf' = [buf EXCEPT ![b] = {}] /\ failed' = failed \cup T /\ (fails' = fails + 1 \/ fails' = fails)
  BY DEF FlushFails
<1>3. (S \ T) \cup kept \in SUBSET S /\ S \subseteq ((S \ T) \cup kept) \cup T
  OBVIOUS
<1> QED BY <1>1, <1>2, <1>3 DEF IInv, CountsOK

\* The row that fills the batch has it inserted, some of it or all.
LEMMA FillKeeps ==
    ASSUME IInv, NEW w \in Workers, worker[w].hand, KindOf(Current(w)) \in RowKinds,
           NEW r \in Rec, worker' = [worker EXCEPT ![w] = r], ~r.hand,
           r.msg # 0 => r.msg = worker[w].msg /\ r.at = worker[w].at + 1,
           stream' \in [Msgs -> {"none", "waiting", "out", "acked"}],
           \A n \in Msgs : stream[n] # "none" => stream'[n] # "none",
           Published' = Published, AckedEvents' = AckedEvents,
           NEW I \in SUBSET Taken(w), NEW T \in SUBSET Taken(w), Taken(w) \subseteq I \cup T,
           Inserted(I), failed' = failed \cup T, fails' \in Nat,
           buf' = [buf EXCEPT ![BufferOf(Current(w))] = {}],
           UNCHANGED <<batch, seen, run, dlq, dropped, timeouts, forgets, crashes, stops, unparked, crashed>>
    PROVE  IInv' /\ Quiet
<1> DEFINE c == Current(w)
           b == BufferOf(c)
<1>1. /\ c \in Events /\ c \in Published /\ c \in InHand /\ c = <<worker[w].msg, worker[w].at>>
      /\ worker[w].msg \in Msgs /\ worker[w].at \in 1 .. PerMsg /\ stream[worker[w].msg] # "none"
      /\ batch[worker[w].msg] # Garbled /\ Busy(w)
  BY InHandKnown DEF Current, IInv, KindsOK, WorkersOK
<1>2. b \in Buffers /\ Taken(w) = buf[b] \cup {c}
  BY DEF BufferOf, Buffers, Taken
<1>3. /\ Buffered' = Buffered \ buf[b] /\ buf' \in [Buffers -> SUBSET Events] /\ buf[b] \subseteq Events
      /\ \A d \in Buffers : buf'[d] \subseteq buf[d]
  BY <1>2, Emptied
<1>4. Holding' /\ WorkersOK' /\ worker'[w] = r /\ \A v \in Workers : v # w => worker'[v] = worker[v]
  BY <1>1, Goes
<1>5. /\ \A e \in Events :
           /\ IsFiniteSet(Hands(e)') /\ Cardinality(Hands(e)) \in Nat
           /\ Cardinality(Hands(e)') = Cardinality(Hands(e)) - One(e = c)
      /\ InHand' \subseteq InHand /\ InHand \subseteq InHand' \cup {c}
  BY LetGo
<1>6. /\ copies' \in [Events -> Nat] /\ stored' = stored \cup I
      /\ \A e \in Events : copies[e] \in Nat /\ copies'[e] = copies[e] + One(e \in I)
  BY <1>1, <1>2, <1>3, Inserts
<1>7. buf[b] \subseteq Buffered /\ Allowance' = Allowance /\ Parked' = Parked /\ Unparked' = Unparked
  BY <1>2 DEF Buffered, Buffers, Parked, Unparked, Allowance
<1>8. (Kept \cup Lost)' = Kept \cup Lost
  BY <1>1, <1>2, <1>3, <1>5, <1>6, <1>7 DEF Kept, Lost
<1>9. Doomed' = Doomed
  BY <1>1, <1>5 DEF Doomed, KindOf, RowKinds
<1>10. TypeOK'
  BY <1>1, <1>2, <1>3, <1>4, <1>6 DEF IInv, TypeOK, Rec, Holding, Buffers
<1>11. CountsOK'
  BY <1>5, <1>6 DEF IInv, CountsOK
<1>12. Counted'
  <2>1. \A e \in Events :
          copies'[e] \in Nat /\ copies'[e] + One(e \in Buffered') <= copies[e] + One(e \in Buffered) + One(e = c)
    <3> SUFFICES ASSUME NEW e \in Events
                 PROVE  copies'[e] \in Nat
                        /\ copies'[e] + One(e \in Buffered') <= copies[e] + One(e \in Buffered) + One(e = c)
      OBVIOUS
    <3>1. copies[e] \in Nat /\ copies'[e] \in Nat /\ copies'[e] = copies[e] + One(e \in I)
      BY <1>6
    <3>2. One(e \in I) + One(e \in Buffered') <= One(e \in Buffered) + One(e = c)
      BY <1>2, <1>3, <1>7 DEF One
    <3>3. One(e \in I) \in Int /\ One(e \in Buffered') \in Int /\ One(e \in Buffered) \in Int /\ One(e = c) \in Int
      BY DEF One
    <3> HIDE DEF c
    <3> QED BY <3>1, <3>2, <3>3
  <2> HIDE DEF c
  <2> QED BY <1>5, <1>7, <2>1, CountedOn
<1>13. KindsOK'
  <2>1. Known' \subseteq Published'
    BY <1>1, <1>8 DEF IInv, KindsOK, Known
  <2>2. \A d \in Buffers : \A e \in buf'[d] : KindOf(e) \in RowKinds /\ BufferOf(e) = d
    BY <1>3 DEF IInv, KindsOK, Buffers
  <2>3. \A e \in Taken(w) : KindOf(e) # "purge"
    BY <1>2 DEF IInv, KindsOK, Buffers, RowKinds
  <2>4. \A e \in stored' \cup failed' : KindOf(e) # "purge"
    BY <1>6, <2>3 DEF IInv, KindsOK
  <2> QED BY <1>4, <2>1, <2>2, <2>4 DEF IInv, KindsOK, KindOf, BufferOf, Buffers
<1>14. Quiet
  BY <1>8, <1>9 DEF Quiet
<1>15. Followed'
  <2>1. <<worker[w].msg, worker[w].at>> \in Settled'
    BY <1>1, <1>8 DEF Settled, Kept
  <2>2. \A i \in 1 .. PerMsg : Busy(w)' /\ i < worker'[w].at => i < worker[w].at \/ i = worker[w].at
    BY <1>1, <1>4 DEF Busy
  <2>3. \A v \in Workers : \A i \in 1 .. PerMsg : Busy(v)' /\ i < worker'[v].at =>
               \/ Busy(v) /\ worker'[v].msg = worker[v].msg /\ i < worker[v].at
               \/ <<worker'[v].msg, i>> \in Settled'
    BY <1>1, <1>4, <2>1, <2>2 DEF Busy
  <2> QED BY <1>14, <2>3, QuietSettles, StaysFollowed
<1> QED BY <1>10, <1>11, <1>12, <1>13, <1>14, <1>15 DEF IInv

LEMMA AddFlushKeeps ==
    ASSUME IInv, NEW w \in Workers, AddFlush(w)
    PROVE  IInv' /\ Quiet
<1>1. /\ UNCHANGED <<batch, seen, run, dlq, dropped, timeouts, forgets, crashes, stops, unparked, crashed>>
      /\ stream' = stream /\ fails' = fails /\ failed' = failed
      /\ worker[w].hand /\ KindOf(Current(w)) \in RowKinds /\ Advance(w) /\ Inserted(Taken(w))
      /\ buf' = [buf EXCEPT ![BufferOf(Current(w))] = {}]
  BY DEF AddFlush, faultVars, history
<1>2. worker[w].msg \in Msgs /\ worker[w].at \in 1 .. PerMsg
  BY <1>1, InHandKnown
<1>3. PICK r \in Rec : /\ worker' = [worker EXCEPT ![w] = r] /\ ~r.hand
                       /\ r.msg = worker[w].msg /\ r.at = worker[w].at + 1
  BY <1>1, <1>2, Advances
<1>4. /\ Published' = Published /\ AckedEvents' = AckedEvents
      /\ stream' \in [Msgs -> {"none", "waiting", "out", "acked"}] /\ fails' \in Nat
      /\ \A n \in Msgs : stream[n] # "none" => stream'[n] # "none"
  BY <1>1 DEF Published, AckedEvents, IInv, TypeOK, CountsOK
<1>5. /\ Taken(w) \in SUBSET Taken(w) /\ {} \in SUBSET Taken(w) /\ Taken(w) \subseteq Taken(w) \cup {}
      /\ failed' = failed \cup {}
  BY <1>1
<1> QED BY <1>1, <1>3, <1>4, <1>5, FillKeeps

LEMMA AddFlushFailsKeeps ==
    ASSUME IInv, NEW w \in Workers, AddFlushFails(w)
    PROVE  IInv' /\ Quiet
<1>1. /\ UNCHANGED <<batch, seen, run, dlq, dropped, timeouts, forgets, crashes, stops, unparked, crashed>>
      /\ worker[w].hand /\ KindOf(Current(w)) \in RowKinds
      /\ worker' = [worker EXCEPT ![w] = Idle] /\ Naked(worker[w].msg)
  BY Aborts DEF AddFlushFails
<1>2. worker[w].msg \in Msgs /\ stream[worker[w].msg] # "none"
  BY <1>1, InHandKnown
<1>3. BufferOf(Current(w)) \in Buffers
  BY DEF BufferOf, Buffers
<1>4. PICK T \in SUBSET Taken(w) : FlushFails(BufferOf(Current(w)), Taken(w), T)
  BY DEF AddFlushFails
<1>5. /\ \E I \in SUBSET Taken(w) : Inserted(I) /\ Taken(w) \subseteq I \cup T
      /\ buf' = [buf EXCEPT ![BufferOf(Current(w))] = {}] /\ failed' = failed \cup T /\ fails' \in Nat
  BY <1>3, <1>4, FailedFlush
<1>6. PICK I \in SUBSET Taken(w) : Inserted(I) /\ Taken(w) \subseteq I \cup T
  BY <1>5
<1>7. /\ stream' \in [Msgs -> {"none", "waiting", "out", "acked"}]
      /\ \A n \in Msgs : stream[n] # "none" => stream'[n] # "none"
      /\ Published' = Published /\ AckedEvents' = AckedEvents
  BY <1>1, <1>2, Nacks
<1> QED BY <1>1, <1>5, <1>6, <1>7, IdleRec, FillKeeps

\* The ticker's flush and the final ones.
LEMMA FlushKeeps ==
    ASSUME IInv, NEW b \in Buffers, Flush(b)
    PROVE  IInv' /\ Quiet
<1>1. UNCHANGED <<batch, stream, worker, seen, run, dlq, dropped, timeouts, forgets, crashes, stops, unparked, crashed>>
  BY DEF Flush
<1>2. \E I \in SUBSET buf[b], T \in SUBSET buf[b] :
        /\ Inserted(I) /\ buf[b] \subseteq I \cup T /\ failed' = failed \cup T
        /\ buf' = [buf EXCEPT ![b] = {}] /\ fails' \in Nat
  <2>1. CASE \E T \in SUBSET buf[b] : FlushFails(b, buf[b], T)
    BY <2>1, FailedFlush
  <2>2. CASE Inserted(buf[b]) /\ buf' = [buf EXCEPT ![b] = {}] /\ fails' = fails /\ failed' = failed
    <3>1. buf[b] \in SUBSET buf[b] /\ {} \in SUBSET buf[b] /\ buf[b] \subseteq buf[b] \cup {} /\ failed' = failed \cup {}
      BY <2>2
    <3> QED BY <2>2, <3>1 DEF IInv, CountsOK
  <2> QED BY <2>1, <2>2 DEF Flush
<1>3. PICK I \in SUBSET buf[b], T \in SUBSET buf[b] :
        /\ Inserted(I) /\ buf[b] \subseteq I \cup T /\ failed' = failed \cup T
        /\ buf' = [buf EXCEPT ![b] = {}] /\ fails' \in Nat
  BY <1>2
<1>4. /\ Buffered' = Buffered \ buf[b] /\ buf' \in [Buffers -> SUBSET Events] /\ buf[b] \subseteq Events
      /\ \A d \in Buffers : buf'[d] \subseteq buf[d]
  BY <1>3, Emptied
<1>5. /\ copies' \in [Events -> Nat] /\ stored' = stored \cup I
      /\ \A e \in Events : copies[e] \in Nat /\ copies'[e] = copies[e] + One(e \in I)
  BY <1>3, <1>4, Inserts
<1>6. /\ (\A e : Hands(e)' = Hands(e)) /\ InHand' = InHand /\ Allowance' = Allowance
      /\ Parked' = Parked /\ Unparked' = Unparked /\ Published' = Published /\ AckedEvents' = AckedEvents
  BY <1>1 DEF Hands, InHand, Current, Allowance, Parked, Unparked, Published, AckedEvents
<1>7. buf[b] \subseteq Buffered
  BY DEF Buffered, Buffers
<1>8. (Kept \cup Lost)' = Kept \cup Lost /\ Doomed' = Doomed
  <2>1. (Kept \cup Lost)' = Kept \cup Lost
    BY <1>1, <1>3, <1>4, <1>5, <1>6, <1>7 DEF Kept, Lost
  <2>2. Doomed' = Doomed
    BY <1>1, <1>6 DEF Doomed, KindOf
  <2> QED BY <2>1, <2>2
<1>9. TypeOK'
  <2>1. stored' \subseteq Events /\ failed' \subseteq Events
    BY <1>3, <1>4, <1>5 DEF IInv, TypeOK
  <2>2. \A w \in Workers : worker'[w].hand => Current(w)' \in Events
    BY <1>1 DEF IInv, TypeOK, Current
  <2> QED BY <1>1, <1>4, <2>1, <2>2 DEF IInv, TypeOK, Buffers
<1>10. CountsOK'
  BY <1>1, <1>3, <1>5, <1>6 DEF IInv, CountsOK
<1>11. Counted'
  <2> SUFFICES ASSUME NEW e \in Events
               PROVE  copies'[e] + Cardinality(Hands(e)') + One(e \in Buffered') <= One(e \in seen') + Allowance'
    BY DEF Counted
  <2>1. copies[e] + Cardinality(Hands(e)) + One(e \in Buffered) <= One(e \in seen) + Allowance
    BY DEF IInv, Counted
  <2>2. One(e \in I) + One(e \in Buffered') <= One(e \in Buffered)
    BY <1>4, <1>7 DEF One
  <2>3. Cardinality(Hands(e)) \in Nat /\ Allowance \in Int
    BY FS_CardinalityType DEF IInv, CountsOK, Allowance, One
  <2>4. copies[e] \in Nat /\ copies'[e] = copies[e] + One(e \in I)
    BY <1>5
  <2>5. Hands(e)' = Hands(e) /\ Allowance' = Allowance /\ seen' = seen
    BY <1>1, <1>6
  <2>6. One(e \in I) \in Int /\ One(e \in Buffered') \in Int /\ One(e \in Buffered) \in Int /\ One(e \in seen) \in Int
    BY DEF One
  <2> QED BY <2>1, <2>2, <2>3, <2>4, <2>5, <2>6
<1>12. KindsOK'
  <2>1. Known' \subseteq Published'
    BY <1>1, <1>6, <1>8 DEF IInv, KindsOK, Known
  <2>2. \A d \in Buffers : \A e \in buf'[d] : KindOf(e) \in RowKinds /\ BufferOf(e) = d
    BY <1>4 DEF IInv, KindsOK, Buffers
  <2>3. \A e \in buf[b] : KindOf(e) # "purge"
    BY DEF IInv, KindsOK, Buffers, RowKinds
  <2>4. \A e \in stored' \cup failed' : KindOf(e) # "purge"
    BY <1>3, <1>5, <2>3 DEF IInv, KindsOK
  <2>5. WorkersOK'
    BY <1>1 DEF IInv, KindsOK, WorkersOK, Busy
  <2> QED BY <1>1, <2>1, <2>2, <2>4, <2>5 DEF IInv, KindsOK, KindOf, BufferOf, Buffers
<1>13. Quiet
  BY <1>6, <1>8 DEF Quiet
<1>14. Followed'
  BY <1>1, <1>13, QuietSettles, StaysFollowed DEF Busy
<1> QED BY <1>9, <1>10, <1>11, <1>12, <1>13, <1>14 DEF IInv

\* JetStream forgets a message whose events were all passed.
LEMMA AckKeeps ==
    ASSUME IInv, NEW w \in Workers, Ack(w)
    PROVE  /\ IInv' /\ Kept' = Kept /\ Lost' = Lost /\ Doomed' = Doomed /\ Published' = Published
           /\ AckedEvents \subseteq AckedEvents' /\ AckedEvents' \subseteq AckedEvents \cup Settled
<1> DEFINE m == worker[w].msg
<1>0. /\ UNCHANGED <<batch, seen, buf, run, stored, copies, dlq, dropped>>
      /\ UNCHANGED <<fails, timeouts, forgets, crashes, stops, failed, unparked, crashed>>
      /\ worker' = [worker EXCEPT ![w] = Idle]
  BY DEF Ack, sinks, faultVars, history
<1>1. m \in Msgs /\ stream[m] # "none" /\ Busy(w)
  BY EnricherAssumption DEF Ack, Busy, Msgs, IInv, TypeOK, KindsOK, WorkersOK
<1>2. ~worker[w].hand /\ \A i \in 1 .. PerMsg : i < worker[w].at
  <2>1. worker[w].at \in Nat /\ worker[w].at > PerMsg
    BY EnricherAssumption DEF Ack, IInv, TypeOK
  <2>2. ~worker[w].hand
    BY <2>1, InHandKnown, EnricherAssumption
  <2> QED BY <2>1, <2>2, EnricherAssumption
<1>3. EventsOf(m) \subseteq Settled
  BY <1>1, <1>2 DEF IInv, Followed, EventsOf
<1>4. /\ stream' \in [Msgs -> {"none", "waiting", "out", "acked"}] /\ stream'[m] = "acked"
      /\ \A n \in Msgs : n # m => stream'[n] = stream[n]
  BY <1>1 DEF Ack, Acked, IInv, TypeOK
<1>5. Published' = Published
  <2>1. {n \in Msgs : stream'[n] # "none"} = {n \in Msgs : stream[n] # "none"}
    BY <1>1, <1>4
  <2> QED BY <2>1 DEF Published
<1>6. AckedEvents' = AckedEvents \cup EventsOf(m)
  <2>1. {n \in Msgs : stream'[n] = "acked"} = {n \in Msgs : stream[n] = "acked"} \cup {m}
    BY <1>1, <1>4
  <2> QED BY <2>1 DEF AckedEvents
<1>7. Holding' /\ WorkersOK' /\ worker'[w] = Idle /\ \A v \in Workers : v # w => worker'[v] = worker[v]
  <2>1. \A n \in Msgs : stream[n] # "none" => stream'[n] # "none"
    BY <1>4
  <2> QED BY <1>0, <2>1, IdleRec, Goes
<1>8. (\A e : Hands(e)' = Hands(e)) /\ InHand' = InHand
  BY <1>0, <1>2, IdleRec, EmptyHanded
<1>9. Kept' = Kept /\ Lost' = Lost /\ Doomed' = Doomed /\ Buffered' = Buffered /\ Allowance' = Allowance
  BY <1>0, <1>8 DEF Kept, Lost, Doomed, Buffered, Parked, Unparked, KindOf, Allowance
<1>10. TypeOK'
  BY <1>0, <1>4, <1>7 DEF IInv, TypeOK, Rec, Holding
<1>11. CountsOK'
  BY <1>0, <1>8 DEF IInv, CountsOK
<1>12. Counted'
  BY <1>0, <1>8, <1>9 DEF IInv, Counted
<1>13. KindsOK'
  BY <1>0, <1>5, <1>7, <1>9 DEF IInv, KindsOK, Known, KindOf, BufferOf
<1>14. Settled' = Settled
  BY <1>9 DEF Settled
<1>15. Followed'
  BY <1>0, <1>3, <1>6, <1>7, <1>14, IdleRec, StaysFollowed DEF Busy
<1> QED BY <1>3, <1>5, <1>6, <1>9, <1>10, <1>11, <1>12, <1>13, <1>15 DEF IInv

LEMMA AckTimeoutKeeps ==
    ASSUME IInv, NEW m \in Msgs, AckTimeout(m)
    PROVE  IInv' /\ Quiet
<1>0. /\ UNCHANGED <<batch, worker, seen, buf, run, stored, copies, dlq, dropped>>
      /\ UNCHANGED <<fails, forgets, crashes, stops, failed, unparked, crashed>>
      /\ timeouts' = timeouts + 1
  BY DEF AckTimeout, sinks, history
<1>1. /\ stream' \in [Msgs -> {"none", "waiting", "out", "acked"}]
      /\ \A n \in Msgs : (stream'[n] = "none" <=> stream[n] = "none") /\ (stream'[n] = "acked" <=> stream[n] = "acked")
  BY DEF AckTimeout, IInv, TypeOK
<1>2. Published' = Published /\ AckedEvents' = AckedEvents
  BY <1>1, StreamMoves
<1>3. (\A e : Hands(e)' = Hands(e)) /\ InHand' = InHand
  BY <1>0 DEF Hands, InHand, Current
<1>4. Kept' = Kept /\ Lost' = Lost /\ Doomed' = Doomed /\ Buffered' = Buffered /\ Allowance' = Allowance
  BY <1>0, <1>3 DEF Kept, Lost, Doomed, Buffered, Parked, Unparked, KindOf, Allowance
<1>5. TypeOK'
  BY <1>0, <1>1 DEF IInv, TypeOK, Current
<1>6. CountsOK' /\ Counted'
  BY <1>0, <1>3, <1>4 DEF IInv, CountsOK, Counted
<1>7. WorkersOK'
  <2>1. \A w \in Workers : Busy(w) => worker[w].msg \in Msgs
    BY EnricherAssumption DEF Busy, Msgs, IInv, TypeOK
  <2> QED BY <1>0, <1>1, <2>1 DEF IInv, KindsOK, WorkersOK, Busy
<1>8. KindsOK'
  BY <1>0, <1>2, <1>4, <1>7 DEF IInv, KindsOK, Known, KindOf, BufferOf
<1>9. Quiet
  BY <1>2, <1>4 DEF Quiet
<1>10. Followed'
  BY <1>0, <1>9, QuietSettles, StaysFollowed DEF Busy
<1> QED BY <1>5, <1>6, <1>8, <1>9, <1>10 DEF IInv

LEMMA PublishKeeps ==
    ASSUME IInv, NEW m \in Msgs, NEW kinds \in Batches[m], Publish(m, kinds)
    PROVE  /\ IInv' /\ Kept' = Kept /\ Lost' = Lost /\ Doomed' = Doomed /\ AckedEvents' = AckedEvents
           /\ Published \subseteq Published'
<1>0. /\ UNCHANGED <<worker, seen, buf, run, stored, copies, dlq, dropped>>
      /\ UNCHANGED <<fails, timeouts, forgets, crashes, stops, failed, unparked, crashed>>
  BY DEF Publish, sinks, faultVars, history
<1>1. /\ stream' \in [Msgs -> {"none", "waiting", "out", "acked"}] /\ stream[m] = "none"
      /\ stream'[m] = "waiting" /\ \A n \in Msgs : n # m => stream'[n] = stream[n]
  BY DEF Publish, IInv, TypeOK
<1>2. /\ batch' \in [Msgs -> (UNION {Batches[n] : n \in Msgs}) \cup {<<>>}]
      /\ \A n \in Msgs : n # m => batch'[n] = batch[n]
  <2> DEFINE B == (UNION {Batches[n] : n \in Msgs}) \cup {<<>>}
  <2>1. kinds \in B
    OBVIOUS
  <2>2. batch \in [Msgs -> B] /\ batch' = [batch EXCEPT ![m] = kinds]
    BY DEF Publish, IInv, TypeOK
  <2> HIDE DEF B
  <2>3. batch' \in [Msgs -> B] /\ \A n \in Msgs : n # m => batch'[n] = batch[n]
    BY <2>1, <2>2
  <2> QED BY <2>3 DEF B
<1>3. Published \subseteq Published'
  BY <1>1 DEF Published
<1>4. AckedEvents' = AckedEvents
  <2>1. {n \in Msgs : stream'[n] = "acked"} = {n \in Msgs : stream[n] = "acked"}
    BY <1>1
  <2> QED BY <2>1 DEF AckedEvents
<1>5. \A e \in Published : e[1] \in Msgs /\ e[1] # m /\ KindOf(e)' = KindOf(e) /\ BufferOf(e)' = BufferOf(e)
  <2>1. \A e \in Published : e[1] \in Msgs /\ e[1] # m
    BY <1>1 DEF Published, EventsOf
  <2> QED BY <1>2, <2>1 DEF KindOf, BufferOf
<1>6. (\A e : Hands(e)' = Hands(e)) /\ InHand' = InHand
  BY <1>0 DEF Hands, InHand, Current
<1>7. Kept' = Kept /\ Lost' = Lost /\ Buffered' = Buffered /\ Allowance' = Allowance
  BY <1>0, <1>6 DEF Kept, Lost, Buffered, Parked, Unparked, Allowance
<1>8. Doomed' = Doomed
  <2>1. InHand \cup crashed \subseteq Published
    BY DEF IInv, KindsOK, Known, Kept, Lost
  <2>2. {e \in InHand' \cup crashed' : KindOf(e)' = "purge"} = {e \in InHand \cup crashed : KindOf(e) = "purge"}
    BY <1>0, <1>5, <1>6, <2>1
  <2> QED BY <1>0, <2>2 DEF Doomed
<1>9. TypeOK'
  BY <1>0, <1>1, <1>2 DEF IInv, TypeOK, Current
<1>10. CountsOK' /\ Counted'
  BY <1>0, <1>6, <1>7 DEF IInv, CountsOK, Counted
<1>11. WorkersOK'
  <2>1. \A w \in Workers : Busy(w) => worker[w].msg \in Msgs /\ worker[w].msg # m
    BY <1>1, EnricherAssumption DEF Busy, Msgs, IInv, TypeOK, KindsOK, WorkersOK
  <2> QED BY <1>0, <1>1, <1>2, <2>1 DEF IInv, KindsOK, WorkersOK, Busy
<1>12. KindsOK'
  <2>1. Known' \subseteq Published'
    BY <1>0, <1>3, <1>7 DEF IInv, KindsOK, Known
  <2>2. \A d \in Buffers : \A e \in buf'[d] : KindOf(e)' \in RowKinds /\ BufferOf(e)' = d
    <3>1. \A d \in Buffers : buf[d] \subseteq Published
      BY DEF IInv, KindsOK, Known, Kept, Buffered, Buffers
    <3> QED BY <1>0, <1>5, <3>1 DEF IInv, KindsOK, Buffers
  <2>3. \A e \in stored' \cup failed' : KindOf(e)' # "purge"
    <3>1. stored \cup failed \subseteq Published
      BY DEF IInv, KindsOK, Known, Kept, Lost
    <3> QED BY <1>0, <1>5, <3>1 DEF IInv, KindsOK
  <2>4. \A n \in dlq \cup unparked : n \in Msgs /\ n # m
    <3> SUFFICES ASSUME NEW n \in dlq \cup unparked
                 PROVE  n \in Msgs /\ n # m
      OBVIOUS
    <3>1. n \in Msgs /\ <<n, 1>> \in EventsOf(n)
      BY EnricherAssumption DEF IInv, TypeOK, EventsOf
    <3>2. <<n, 1>> \in Published
      BY <3>1 DEF IInv, KindsOK, Known, Kept, Lost, Parked, Unparked
    <3> QED BY <1>5, <3>1, <3>2
  <2>5. \A n \in dlq' \cup unparked' : batch'[n] = Garbled
    BY <1>0, <1>2, <2>4 DEF IInv, KindsOK
  <2> QED BY <1>11, <2>1, <2>2, <2>3, <2>5 DEF KindsOK, Buffers
<1>13. Followed'
  <2>1. Settled' = Settled
    BY <1>7, <1>8 DEF Settled
  <2> QED BY <1>0, <1>4, <2>1, StaysFollowed DEF Busy
<1> QED BY <1>3, <1>4, <1>7, <1>8, <1>9, <1>10, <1>12, <1>13 DEF IInv

LEMMA ForgetKeeps ==
    ASSUME IInv, NEW e \in Events, Forget(e)
    PROVE  IInv' /\ Quiet
<1>0. /\ UNCHANGED <<batch, stream, worker, buf, run, stored, copies, dlq, dropped>>
      /\ UNCHANGED <<fails, timeouts, crashes, stops, failed, unparked, crashed>>
      /\ e \in seen /\ seen' = seen \ {e} /\ forgets' = forgets + 1
  BY DEF Forget, sinks, history
<1>1. Published' = Published /\ AckedEvents' = AckedEvents
  BY <1>0 DEF Published, AckedEvents
<1>2. (\A f : Hands(f)' = Hands(f)) /\ InHand' = InHand
  BY <1>0 DEF Hands, InHand, Current
<1>3. Kept' = Kept /\ Lost' = Lost /\ Doomed' = Doomed /\ Buffered' = Buffered
  BY <1>0, <1>2 DEF Kept, Lost, Doomed, Buffered, Parked, Unparked, KindOf
<1>4. TypeOK'
  BY <1>0 DEF IInv, TypeOK, Current
<1>5. CountsOK'
  BY <1>0, <1>2 DEF IInv, CountsOK
<1>6. Counted'
  <2> SUFFICES ASSUME NEW f \in Events
               PROVE  copies'[f] + Cardinality(Hands(f)') + One(f \in Buffered') <= One(f \in seen') + Allowance'
    BY DEF Counted
  <2>1. copies[f] + Cardinality(Hands(f)) + One(f \in Buffered) <= One(f \in seen) + Allowance
    BY DEF IInv, Counted
  <2>2. Allowance \in Int /\ Allowance' = Allowance + 1
    BY <1>0 DEF IInv, CountsOK, Allowance, One
  <2>3. One(f \in seen) <= One(f \in seen') + 1 /\ One(f \in seen) \in Int /\ One(f \in seen') \in Int
    BY DEF One
  <2>4. One(f \in Buffered) \in Int /\ copies[f] \in Nat /\ Cardinality(Hands(f)) \in Nat
    BY FS_CardinalityType DEF IInv, CountsOK, One
  <2>5. copies'[f] = copies[f] /\ Hands(f)' = Hands(f) /\ Buffered' = Buffered
    BY <1>0, <1>2, <1>3
  <2> QED BY <2>1, <2>2, <2>3, <2>4, <2>5
<1>7. KindsOK'
  <2>1. WorkersOK'
    BY <1>0 DEF IInv, KindsOK, WorkersOK, Busy
  <2> QED BY <1>0, <1>1, <1>3, <2>1 DEF IInv, KindsOK, Known, KindOf, BufferOf
<1>8. Quiet
  BY <1>1, <1>3 DEF Quiet
<1>9. Followed'
  BY <1>0, <1>8, QuietSettles, StaysFollowed DEF Busy
<1> QED BY <1>4, <1>5, <1>6, <1>7, <1>8, <1>9 DEF IInv

\* A process that starts again may count each event once more.
LEMMA RestartKeeps ==
    ASSUME IInv, Restart, crashes' \in Nat, stops' \in Nat, Allowance' >= Allowance + 1
    PROVE  IInv' /\ Quiet
<1>0. /\ UNCHANGED <<batch, stored, copies, dlq, dropped, fails, timeouts, forgets, failed, unparked>>
      /\ seen' = {} /\ buf' = Empty /\ run' = "up" /\ crashed' = crashed \cup Buffered \cup InHand
  BY DEF Restart, sinks
<1>1. worker' \in [Workers -> Rec] /\ \A w \in Workers : ~worker'[w].hand /\ worker'[w].msg = 0
  BY IdleRec DEF Restart
<1>2. /\ stream' \in [Msgs -> {"none", "waiting", "out", "acked"}]
      /\ \A n \in Msgs : (stream'[n] = "none" <=> stream[n] = "none") /\ (stream'[n] = "acked" <=> stream[n] = "acked")
  BY DEF Restart, IInv, TypeOK
<1>3. Published' = Published /\ AckedEvents' = AckedEvents
  BY <1>2, StreamMoves
<1>4. (\A e : Hands(e)' = {}) /\ InHand' = {} /\ Buffered' = {}
  BY <1>0, <1>1 DEF Hands, InHand, Buffered, Empty
<1>5. (Kept \cup Lost)' = Kept \cup Lost
  BY <1>0, <1>4 DEF Kept, Lost, Parked, Unparked
<1>6. Doomed' = Doomed
  <2>1. \A e \in Buffered : KindOf(e) # "purge"
    BY DEF IInv, KindsOK, Buffered, RowKinds
  <2> QED BY <1>0, <1>4, <2>1 DEF Doomed, KindOf
<1>7. TypeOK'
  <2>1. Buffered \subseteq Events /\ InHand \subseteq Events
    BY DEF IInv, TypeOK, Buffered, InHand
  <2>2. buf' \in [{"events", "heartbeats"} -> SUBSET Events]
    BY <1>0 DEF Empty
  <2> QED BY <1>0, <1>1, <1>2, <2>1, <2>2 DEF IInv, TypeOK, Rec
<1>8. CountsOK'
  BY <1>0, <1>4, FS_EmptySet DEF IInv, CountsOK
<1>9. Counted'
  <2> SUFFICES ASSUME NEW e \in Events
               PROVE  copies'[e] + Cardinality(Hands(e)') + One(e \in Buffered') <= One(e \in seen') + Allowance'
    BY DEF Counted
  <2>1. copies[e] + Cardinality(Hands(e)) + One(e \in Buffered) <= One(e \in seen) + Allowance
    BY DEF IInv, Counted
  <2>2. copies[e] \in Nat /\ Cardinality(Hands(e)) \in Nat /\ Allowance \in Int /\ Allowance' \in Int
    <3>1. crashes' \in Nat /\ stops' \in Nat /\ forgets' \in Nat
      BY <1>0 DEF IInv, CountsOK
    <3> QED BY <3>1, FS_CardinalityType DEF IInv, CountsOK, Allowance, One
  <2>3. One(e \in Buffered) >= 0 /\ One(e \in seen) <= 1 /\ One(e \in seen') = 0 /\ One(e \in Buffered') = 0
    BY <1>0, <1>4 DEF One
  <2>4. One(e \in Buffered) \in Int /\ One(e \in seen) \in Int
    BY DEF One
  <2>5. Cardinality(Hands(e)') = 0 /\ copies'[e] = copies[e]
    BY <1>0, <1>4, FS_EmptySet
  <2> QED BY <2>1, <2>2, <2>3, <2>4, <2>5
<1>10. KindsOK'
  <2>1. Known' \subseteq Published'
    BY <1>0, <1>3, <1>5 DEF IInv, KindsOK, Known
  <2>2. WorkersOK'
    BY <1>1 DEF WorkersOK, Busy
  <2> QED BY <1>0, <2>1, <2>2 DEF IInv, KindsOK, KindOf, BufferOf, Empty
<1>11. Quiet
  BY <1>3, <1>5, <1>6 DEF Quiet
<1>12. Followed'
  BY <1>0, <1>1, <1>11, QuietSettles, StaysFollowed DEF Busy
<1> QED BY <1>7, <1>8, <1>9, <1>10, <1>11, <1>12 DEF IInv

LEMMA ProcessKeeps ==
    ASSUME IInv, Crash \/ Stop \/ FinalFlush \/ Exit \/ UNCHANGED vars
    PROVE  IInv' /\ Quiet
<1>1. CASE Crash
  <2>1. crashes' \in Nat /\ stops' \in Nat /\ Restart /\ forgets' = forgets /\ run' = "up"
    BY <1>1 DEF Crash, Restart, IInv, CountsOK
  <2>2. Allowance' >= Allowance + 1
    BY <1>1, <2>1 DEF Crash, Allowance, One, IInv, CountsOK
  <2> QED BY <2>1, <2>2, RestartKeeps
<1>2. CASE Exit
  <2>1. crashes' \in Nat /\ stops' \in Nat /\ Restart /\ forgets' = forgets /\ run' = "up"
    BY <1>2 DEF Exit, Restart, IInv, CountsOK
  <2>2. Allowance' >= Allowance + 1
    BY <1>2, <2>1 DEF Exit, Allowance, One, IInv, CountsOK
  <2> QED BY <2>1, <2>2, RestartKeeps
<1>3. CASE Stop \/ FinalFlush \/ UNCHANGED vars
  <2>0. /\ UNCHANGED <<batch, stream, worker, seen, buf, stored, copies, dlq, dropped>>
        /\ UNCHANGED <<fails, timeouts, forgets, crashes, failed, unparked, crashed>>
    BY <1>3 DEF Stop, FinalFlush, vars, sinks, faultVars, history
  <2>1. /\ run' \in {"up", "stopping", "flushed"} /\ stops' \in Nat /\ Allowance' = Allowance
        /\ run' # "up" => stops' > 0
    <3>1. CASE Stop
      <4>1. stops \in Nat /\ stops' = stops + 1 /\ run = "up" /\ run' = "stopping"
        BY <3>1 DEF Stop, IInv, CountsOK
      <4>2. One(run # "up") = 0 /\ One(run' # "up") = 1
        BY <4>1 DEF One
      <4> QED BY <2>0, <4>1, <4>2 DEF Allowance, IInv, CountsOK
    <3>2. CASE FinalFlush
      <4>1. stops \in Nat /\ stops' = stops /\ run = "stopping" /\ run' = "flushed"
        BY <3>2 DEF FinalFlush, faultVars, IInv, CountsOK
      <4>2. One(run # "up") = 1 /\ One(run' # "up") = 1
        BY <4>1 DEF One
      <4> QED BY <2>0, <4>1, <4>2 DEF Allowance, IInv, CountsOK
    <3>3. CASE UNCHANGED vars
      <4>1. stops' = stops /\ run' = run
        BY <3>3 DEF vars, faultVars
      <4> QED BY <2>0, <4>1 DEF Allowance, IInv, CountsOK, TypeOK
    <3> QED BY <1>3, <3>1, <3>2, <3>3
  <2>2. /\ Published' = Published /\ AckedEvents' = AckedEvents
        /\ (\A e : Hands(e)' = Hands(e)) /\ InHand' = InHand
    BY <2>0 DEF Published, AckedEvents, Hands, InHand, Current
  <2>3. Kept' = Kept /\ Lost' = Lost /\ Doomed' = Doomed /\ Buffered' = Buffered
    BY <2>0, <2>2 DEF Kept, Lost, Doomed, Buffered, Parked, Unparked, KindOf
  <2>4. TypeOK'
    BY <2>0, <2>1 DEF IInv, TypeOK, Current
  <2>5. CountsOK' /\ Counted'
    BY <2>0, <2>1, <2>2, <2>3 DEF IInv, CountsOK, Counted
  <2>6. KindsOK'
    <3>1. WorkersOK'
      BY <2>0 DEF IInv, KindsOK, WorkersOK, Busy
    <3> QED BY <2>0, <2>2, <2>3, <3>1 DEF IInv, KindsOK, Known, KindOf, BufferOf
  <2>7. Quiet
    BY <2>2, <2>3 DEF Quiet
  <2>8. Followed'
    BY <2>0, <2>7, QuietSettles, StaysFollowed DEF Busy
  <2> QED BY <2>4, <2>5, <2>6, <2>7, <2>8 DEF IInv
<1> QED BY <1>1, <1>2, <1>3

-----------------------------------------------------------------------------
(* Every step.                                                               *)

\* What JetStream forgot before is where the contract wants it.
LEMMA Delivers ==
    ASSUME IInv, IInv', Quiet
    PROVE  Contract!Deliver
<1>1. (Kept \cup Lost)' \subseteq Published /\ AckedEvents \subseteq Kept \cup Lost \cup Doomed
  BY DEF Quiet, IInv, KindsOK, Known, Followed, Settled
<1> QED BY <1>1 DEF Contract!Deliver, Quiet

\* An event of the class that is purged is never kept before it is given up.
LEMMA PurgeOnce ==
    ASSUME IInv, NEW e \in Events, KindOf(e) = "purge", e \in Kept \cup Lost
    PROVE  e \in Doomed
<1>1. e \notin stored \cup failed /\ e \notin Buffered
  BY DEF IInv, KindsOK, Buffered, RowKinds
<1>2. e \notin Parked \cup Unparked
  <2>1. e[1] \in Msgs /\ e[2] \in 1 .. PerMsg
    BY DEF Events
  <2>2. e \in Parked \cup Unparked => batch[e[1]] = Garbled
    BY DEF Parked, Unparked, EventsOf, IInv, KindsOK
  <2> QED BY <2>1, <2>2 DEF KindOf, Garbled
<1> QED BY <1>1, <1>2 DEF Kept, Lost, Doomed

LEMMA WorkKeeps ==
    ASSUME IInv, NEW w \in Workers, Work(w)
    PROVE  IInv' /\ Contract!Next
<1>1. ASSUME NEW m \in Msgs, Fetch(w, m) PROVE IInv' /\ Contract!Next
  BY <1>1, FetchKeeps, Delivers DEF Contract!Next
<1>2. CASE DecodeFails(w)
  BY <1>2, DecodeFailsKeeps, Delivers DEF Contract!Next
<1>3. CASE Seen(w)
  <2>1. CASE Current(w) \in seen
    BY <1>3, <2>1, SkipKeeps, Delivers DEF Contract!Next
  <2>2. CASE Current(w) \notin seen
    <3> DEFINE c == Current(w)
    <3>1. /\ IInv' /\ Published' = Published /\ AckedEvents' = AckedEvents
          /\ (Kept \cup Lost)' = Kept \cup Lost \cup {c}
          /\ Doomed' = IF KindOf(c) = "purge" THEN Doomed \cup {c} ELSE Doomed
          /\ c \in Events /\ c \in Published
      BY <1>3, <2>2, RecordKeeps
    <3>2. CASE KindOf(c) # "purge"
      <4>1. Quiet
        BY <3>1, <3>2 DEF Quiet
      <4> QED BY <3>1, <4>1, Delivers DEF Contract!Next
    <3>3. CASE KindOf(c) = "purge"
      <4>1. c \in Kept \cup Lost => c \in Doomed
        BY <3>1, <3>3, PurgeOnce
      <4>2. c \in AckedEvents => c \in Doomed
        BY <4>1 DEF IInv, Followed, Settled
      <4> HIDE DEF c
      <4> QED BY <3>1, <3>3, <4>1, <4>2 DEF Contract!Next, Contract!Shed
    <3> QED BY <3>2, <3>3
  <2> QED BY <2>1, <2>2
<1>4. CASE EnrichFails(w)
  BY <1>4, EnrichFailsKeeps, Delivers DEF Contract!Next
<1>5. CASE Drop(w)
  BY <1>5, DropKeeps, Delivers DEF Contract!Next
<1>6. CASE Add(w)
  BY <1>6, AddKeeps, Delivers DEF Contract!Next
<1>7. CASE AddFlush(w)
  BY <1>7, AddFlushKeeps, Delivers DEF Contract!Next
<1>8. CASE AddFlushFails(w)
  BY <1>8, AddFlushFailsKeeps, Delivers DEF Contract!Next
<1>9. CASE Ack(w)
  <2>1. /\ IInv' /\ Kept' = Kept /\ Lost' = Lost /\ Doomed' = Doomed /\ Published' = Published
        /\ AckedEvents \subseteq AckedEvents' /\ AckedEvents' \subseteq AckedEvents \cup Settled
    BY <1>9, AckKeeps
  <2> QED BY <2>1 DEF Contract!Next, Contract!Forget, Settled
<1> QED BY <1>1, <1>2, <1>3, <1>4, <1>5, <1>6, <1>7, <1>8, <1>9 DEF Work

LEMMA Steps ==
    ASSUME IInv, [Next]_vars
    PROVE  IInv' /\ [Contract!Next]_(Contract!vars)
<1>1. ASSUME NEW m \in Msgs, NEW kinds \in Batches[m], Publish(m, kinds) PROVE IInv' /\ Contract!Next
  <2>1. /\ IInv' /\ Kept' = Kept /\ Lost' = Lost /\ Doomed' = Doomed /\ AckedEvents' = AckedEvents
        /\ Published \subseteq Published'
    BY <1>1, PublishKeeps
  <2>2. /\ Published' \subseteq Events
        /\ Published' \cap AckedEvents \subseteq Published /\ Doomed \subseteq Published
    BY EventsOfSet DEF Published, AckedEvents, IInv, KindsOK, Known, Doomed, Kept, Lost, EventsOf, Events
  <2> QED BY <2>1, <2>2 DEF Contract!Next, Contract!Accept
<1>2. ASSUME NEW m \in Msgs, AckTimeout(m) PROVE IInv' /\ Contract!Next
  BY <1>2, AckTimeoutKeeps, Delivers DEF Contract!Next
<1>3. ASSUME NEW w \in Workers, Work(w) PROVE IInv' /\ Contract!Next
  BY <1>3, WorkKeeps
<1>4. ASSUME NEW b \in Buffers, Flush(b) PROVE IInv' /\ Contract!Next
  BY <1>4, FlushKeeps, Delivers DEF Contract!Next
<1>5. ASSUME NEW e \in Events, Forget(e) PROVE IInv' /\ Contract!Next
  BY <1>5, ForgetKeeps, Delivers DEF Contract!Next
<1>6. CASE Crash \/ Stop \/ FinalFlush \/ Exit \/ UNCHANGED vars
  BY <1>6, ProcessKeeps, Delivers DEF Contract!Next
<1> QED BY <1>1, <1>2, <1>3, <1>4, <1>5, <1>6 DEF Next, Buffers

\* The dedup cache absorbs redelivery, for any goroutines, messages and faults:
\* an event is inserted once, and once more per restart and per hash forgotten
\* (enricher/dedup.go, Seen).
THEOREM OncePerLife == Spec => []AtMostOnce
<1>1. IInv => AtMostOnce
  <2> SUFFICES ASSUME IInv, NEW e \in Events
               PROVE  copies[e] <= 1 + crashes + stops + forgets
    BY DEF AtMostOnce, IInv
  <2>1. copies[e] + Cardinality(Hands(e)) + One(e \in Buffered) <= One(e \in seen) + Allowance
    BY DEF IInv, Counted
  <2>2. Allowance \in Int /\ Allowance <= crashes + stops + forgets
    BY DEF IInv, CountsOK, Allowance, One
  <2>3. Cardinality(Hands(e)) \in Nat /\ copies[e] \in Nat
    BY FS_CardinalityType DEF IInv, CountsOK
  <2>4. One(e \in Buffered) >= 0 /\ One(e \in seen) <= 1 /\ One(e \in Buffered) \in Int /\ One(e \in seen) \in Int
    BY DEF One
  <2>5. crashes \in Nat /\ stops \in Nat /\ forgets \in Nat
    BY DEF IInv, CountsOK
  <2> QED BY <2>1, <2>2, <2>3, <2>4, <2>5
<1>2. IInv /\ [Next]_vars => IInv'
  BY Steps
<1> QED BY <1>1, <1>2, InitIInv, PTL DEF Spec

\* "explicit manual ACK (at-least-once delivery)" (enricher/consumer.go): every
\* step of the enricher is one of Handover, so JetStream forgets an event only
\* once it is kept, dropped on purpose, or lost to a fault that Lost names.
THEOREM EnricherHandsOver == Spec => HandsOver
<1>1. Init => Contract!Init
  <2> SUFFICES ASSUME Init PROVE Contract!Init
    OBVIOUS
  <2>1. InHand = {} /\ Buffered = {}
    BY IdleRec DEF Init, InHand, Buffered, Empty
  <2>2. Published = {} /\ Parked = {} /\ Unparked = {}
    BY DEF Init, Published, Parked, Unparked
  <2>3. Doomed = {} /\ Kept = {} /\ Lost = {}
    BY <2>1, <2>2 DEF Init, Doomed, Kept, Lost
  <2> QED BY <2>2, <2>3 DEF Contract!Init
<1>2. IInv /\ [Next]_vars => IInv'
  BY Steps
<1>3. IInv /\ [Next]_vars => [Contract!Next]_(Contract!vars)
  BY Steps
<1> QED BY <1>1, <1>2, <1>3, InitIInv, PTL DEF Spec, HandsOver, Contract!Spec

-----------------------------------------------------------------------------
(* What is looked up elsewhere: flags, metadata and the OCR gate, and searches. *)

CONSTANTS Readers, Setters, FlagTtl, MetaTtl, GateTtl, MaxRead, MaxClock, MaxSets, MaxReadFaults,
    Docs, Lookback, Cap, Size, MaxSize, MaxPage, ResultWindow
VARIABLES about, clock, current, past, made, readFaults, cached, reader, told, setter, trail, docs, walk

LookedUp == INSTANCE Lookups WITH MaxFaults <- MaxReadFaults, faults <- readFaults

Reading == [pc : {"idle", "reading", "storing"}, version : Nat, since : Nat]
Setting == [pc : {"idle", "audit", "upsert", "invalidate"}, new : Nat]

LookTyped ==
    /\ clock \in Nat /\ current \in Nat /\ made \in Nat
    /\ DOMAIN past = 0..clock /\ current \in past[clock]
    /\ reader \in [Readers -> Reading]
    /\ setter \in [Setters -> Setting]
    /\ cached \in [version : Nat, at : Int, late : BOOLEAN]

\* A goroutine that reads began so lately, and holds what was true since.
ReaderOK(r) == reader[r].pc # "idle" =>
    /\ reader[r].since <= clock /\ clock - reader[r].since <= MaxRead
    /\ reader[r].pc = "storing" => \E d \in reader[r].since..clock : reader[r].version \in past[d]
ReadersOK == \A r \in Readers : ReaderOK(r)

\* What is kept was true no longer before it was stored than a read takes.
EntryOK == cached # LookedUp!NoEntry =>
    /\ cached.at \in 0..clock
    /\ \E d \in 0..clock : cached.at - d <= MaxRead /\ cached.version \in past[d]

\* What is about to be written is in the log.
SettersOK == \A a \in Setters : setter[a].pc = "upsert" => setter[a].new \in trail

LookInv ==
    /\ LookTyped /\ ReadersOK /\ EntryOK /\ SettersOK
    /\ LookedUp!NeverTooOld /\ LookedUp!ChangesSeen

LEMMA TtlIs == ASSUME LookedUp!LookupsAssumption
    PROVE  /\ LookedUp!Ttl \in Nat \ {0} /\ MaxRead \in Nat
           /\ about = "flag" => LookedUp!Ttl = FlagTtl
           /\ about = "meta" => LookedUp!Ttl = MetaTtl
           /\ about = "gate" => LookedUp!Ttl = GateTtl
BY DEF LookedUp!LookupsAssumption, LookedUp!Ttl

LEMMA InitLook == ASSUME LookedUp!LookupsInit PROVE LookInv
<1>1. LookTyped
  BY DEF LookedUp!LookupsInit, LookTyped, LookedUp!Idle, LookedUp!NoEntry, Reading, Setting
<1>2. ReadersOK /\ EntryOK /\ SettersOK
  BY DEF LookedUp!LookupsInit, ReadersOK, ReaderOK, EntryOK, SettersOK, LookedUp!Idle
<1>3. LookedUp!NeverTooOld
  BY DEF LookedUp!LookupsInit, LookedUp!NeverTooOld, LookedUp!NoAnswer
<1>4. LookedUp!ChangesSeen
  BY DEF LookedUp!LookupsInit, LookedUp!ChangesSeen
<1> QED BY <1>1, <1>2, <1>3, <1>4 DEF LookInv

\* Nothing that was true is forgotten; so what is read or kept may stay.
LEMMA Remembered ==
    ASSUME LookTyped, ReadersOK, EntryOK, UNCHANGED <<clock, about>>,
           \A d \in 0..clock : past[d] \subseteq past'[d]
    PROVE  /\ UNCHANGED reader => ReadersOK'
           /\ UNCHANGED cached => EntryOK'
           /\ told' = LookedUp!NoAnswer => LookedUp!NeverTooOld'
<1>1. ASSUME UNCHANGED reader, NEW r \in Readers
      PROVE  ReaderOK(r)'
  <2> SUFFICES ASSUME reader[r].pc # "idle"
               PROVE  /\ reader[r].since <= clock /\ clock - reader[r].since <= MaxRead
                      /\ reader[r].pc = "storing" => \E d \in reader[r].since..clock : reader[r].version \in past'[d]
    BY <1>1 DEF ReaderOK
  <2>1. /\ reader[r].since <= clock /\ clock - reader[r].since <= MaxRead
        /\ reader[r].pc = "storing" => \E d \in reader[r].since..clock : reader[r].version \in past[d]
    BY DEF ReadersOK, ReaderOK
  <2>2. reader[r].since..clock \subseteq 0..clock
    BY DEF LookTyped, Reading
  <2> QED BY <2>1, <2>2
<1>2. ASSUME UNCHANGED cached
      PROVE  EntryOK'
  BY <1>2 DEF EntryOK
<1>3. ASSUME told' = LookedUp!NoAnswer
      PROVE  LookedUp!NeverTooOld'
  BY <1>3 DEF LookedUp!NeverTooOld, LookedUp!NoAnswer
<1> QED BY <1>1, <1>2, <1>3 DEF ReadersOK

LEMMA SameChanges ==
    ASSUME LookInv, UNCHANGED <<about, current, past, cached, setter, trail>>
    PROVE  LookedUp!ChangesSeen' /\ SettersOK'
BY DEF LookInv, LookedUp!ChangesSeen, SettersOK

\* One goroutine goes on; the others stay as they are.
LEMMA OneReads ==
    ASSUME LookInv, NEW r \in Readers, NEW new \in Reading, reader' = [reader EXCEPT ![r] = new],
           UNCHANGED <<clock, past>>,
           new.pc # "idle" =>
              /\ new.since <= clock /\ clock - new.since <= MaxRead
              /\ new.pc = "storing" => \E d \in new.since..clock : new.version \in past[d]
    PROVE  ReadersOK' /\ reader' \in [Readers -> Reading]
<1>1. reader' \in [Readers -> Reading]
  BY DEF LookInv, LookTyped
<1>2. ASSUME NEW s \in Readers
      PROVE  ReaderOK(s)'
  <2>1. CASE s = r
    <3>1. reader'[s] = new
      BY <2>1 DEF LookInv, LookTyped
    <3> QED BY <3>1 DEF ReaderOK
  <2>2. CASE s # r
    <3>1. reader'[s] = reader[s]
      BY <2>2 DEF LookInv, LookTyped
    <3> QED BY <3>1 DEF ReaderOK, LookInv, ReadersOK
  <2> QED BY <2>1, <2>2
<1> QED BY <1>1, <1>2 DEF ReadersOK

\* What is kept and fresh is not too old to be told.
LEMMA FreshTold ==
    ASSUME LookedUp!LookupsAssumption, LookInv, LookedUp!Fresh(LookedUp!Ttl),
           told' = [version |-> cached.version, at |-> clock, fresh |-> TRUE], UNCHANGED <<about, past>>
    PROVE  LookedUp!NeverTooOld'
<1>1. cached.at \in 0..clock /\ clock - cached.at < LookedUp!Ttl /\ clock \in Nat
  BY DEF LookInv, LookTyped, EntryOK, LookedUp!Fresh
<1>2. PICK d \in 0..clock : cached.at - d <= MaxRead /\ cached.version \in past[d]
  BY DEF LookInv, EntryOK, LookedUp!Fresh
<1>3. clock - d < LookedUp!Ttl + MaxRead
  <2>1. PICK ttl \in Nat : ttl = LookedUp!Ttl
    BY TtlIs
  <2> QED BY <1>1, <1>2, <2>1, TtlIs
<1>4. LookedUp!Ttl' = LookedUp!Ttl
  BY DEF LookedUp!Ttl
<1> QED BY <1>2, <1>3, <1>4 DEF LookedUp!NeverTooOld

LEMMA LookupStep ==
    ASSUME LookedUp!LookupsAssumption, LookInv, NEW r \in Readers, NEW kind, NEW ttl, LookedUp!Lookup(r, kind, ttl),
           about = kind => ttl = LookedUp!Ttl
    PROVE  LookInv'
<1>1. UNCHANGED <<about, clock, current, past, made, cached, setter, trail>> /\ ttl = LookedUp!Ttl
  BY DEF LookedUp!Lookup, LookedUp!restOfFlags
<1>2. EntryOK' /\ (told' = LookedUp!NoAnswer => LookedUp!NeverTooOld') /\ (UNCHANGED reader => ReadersOK')
  BY <1>1, Remembered DEF LookInv
<1>3. LookedUp!ChangesSeen' /\ SettersOK'
  BY <1>1, SameChanges
<1>4. CASE LookedUp!Fresh(ttl)
  <2>1. LookedUp!NeverTooOld' /\ UNCHANGED reader
    BY <1>1, <1>4, FreshTold DEF LookedUp!Lookup, LookedUp!Answer
  <2>2. LookTyped'
    BY <1>1, <2>1 DEF LookInv, LookTyped
  <2> QED BY <1>2, <1>3, <2>1, <2>2 DEF LookInv
<1>5. CASE ~LookedUp!Fresh(ttl)
  <2> DEFINE new == [pc |-> "reading", version |-> 0, since |-> clock]
  <2>1. reader' = [reader EXCEPT ![r] = new] /\ told' = LookedUp!NoAnswer
    BY <1>5 DEF LookedUp!Lookup, LookedUp!Idle
  <2>2. new \in Reading /\ clock - clock <= MaxRead /\ clock <= clock
    BY TtlIs DEF Reading, LookInv, LookTyped
  <2>3. ReadersOK' /\ reader' \in [Readers -> Reading]
    BY <1>1, <2>1, <2>2, OneReads
  <2>4. LookTyped'
    BY <1>1, <2>3 DEF LookInv, LookTyped
  <2> QED BY <1>2, <1>3, <2>1, <2>3, <2>4 DEF LookInv
<1> QED BY <1>4, <1>5

LEMMA ReadsOn == \A x \in Reading : \A p, v :
    [x EXCEPT !.pc = p, !.version = v] = [pc |-> p, version |-> v, since |-> x.since]
<1> TAKE x \in Reading
<1> TAKE p, v
<1>1. x = [pc |-> x.pc, version |-> x.version, since |-> x.since]
  BY DEF Reading
<1>2. ASSUME NEW i, NEW j, NEW k, NEW y, y = [[pc |-> i, version |-> j, since |-> k] EXCEPT !.pc = p, !.version = v]
      PROVE  y = [pc |-> p, version |-> v, since |-> k]
  BY <1>2
<1> QED BY <1>1, <1>2, Zenon

LEMMA FetchStep ==
    ASSUME LookedUp!LookupsAssumption, LookInv, NEW r \in Readers, NEW kind, LookedUp!Fetch(r, kind)
    PROVE  LookInv'
<1>1. UNCHANGED <<about, clock, current, past, made, cached, setter, trail>> /\ reader[r] \in Reading /\ reader[r].pc = "reading"
  BY DEF LookedUp!Fetch, LookedUp!restOfFlags, LookInv, LookTyped
<1>2. EntryOK' /\ (told' = LookedUp!NoAnswer => LookedUp!NeverTooOld') /\ (UNCHANGED reader => ReadersOK')
  BY <1>1, Remembered DEF LookInv
<1>3. LookedUp!ChangesSeen' /\ SettersOK'
  BY <1>1, SameChanges
<1> DEFINE new == IF current = 0 THEN LookedUp!Idle
                  ELSE [pc |-> "storing", version |-> current, since |-> reader[r].since]
<1>4. reader' = [reader EXCEPT ![r] = new]
  <2>1. [reader[r] EXCEPT !.pc = "storing", !.version = current]
          = [pc |-> "storing", version |-> current, since |-> reader[r].since]
    BY <1>1, ReadsOn
  <2>2. reader' = [reader EXCEPT ![r] =
            IF current = 0 THEN LookedUp!Idle ELSE [reader[r] EXCEPT !.pc = "storing", !.version = current]]
    BY <1>1 DEF LookedUp!Fetch
  <2> QED BY <2>1, <2>2
<1>5. /\ new \in Reading
      /\ new.pc # "idle" =>
              /\ new.since <= clock /\ clock - new.since <= MaxRead
              /\ new.pc = "storing" => \E d \in new.since..clock : new.version \in past[d]
  <2>1. CASE current = 0
    BY <2>1 DEF LookedUp!Idle, Reading
  <2>2. CASE current # 0
    <3>1. reader[r].since \in Nat /\ reader[r].since <= clock /\ clock - reader[r].since <= MaxRead
      BY <1>1 DEF LookInv, ReadersOK, ReaderOK, Reading
    <3>2. clock \in reader[r].since..clock /\ current \in past[clock] /\ current \in Nat
      BY <3>1 DEF LookInv, LookTyped
    <3> QED BY <2>2, <3>1, <3>2 DEF Reading
  <2> QED BY <2>1, <2>2
<1>6. ReadersOK' /\ reader' \in [Readers -> Reading]
  <2> HIDE DEF new
  <2> QED BY <1>1, <1>4, <1>5, OneReads
<1>7. LookTyped'
  BY <1>1, <1>6 DEF LookInv, LookTyped
<1>8. LookedUp!NeverTooOld'
  <2>1. CASE current # 0
    BY <1>2, <2>1 DEF LookedUp!Fetch
  <2>2. CASE current = 0
    <3>1. told' = [version |-> 0, at |-> clock, fresh |-> TRUE]
      BY <2>2 DEF LookedUp!Fetch, LookedUp!Answer
    <3>2. clock \in 0..clock /\ 0 \in past'[clock] /\ clock \in Nat
      BY <1>1, <2>2 DEF LookInv, LookTyped
    <3>3. LookedUp!Ttl' \in Nat \ {0} /\ MaxRead \in Nat
      BY <1>1, TtlIs DEF LookedUp!Ttl
    <3>4. clock - clock < LookedUp!Ttl' + MaxRead
      <4>1. \A c, m \in Nat, ttl \in Nat \ {0} : c - c < ttl + m
        OBVIOUS
      <4> QED BY <3>2, <3>3, <4>1, Zenon
    <3> QED BY <3>1, <3>2, <3>4 DEF LookedUp!NeverTooOld
  <2> QED BY <2>1, <2>2
<1> QED BY <1>2, <1>3, <1>6, <1>7, <1>8 DEF LookInv

\* What is stored was true when it was read.
LEMMA StoredStep ==
    ASSUME LookedUp!LookupsAssumption, LookInv, NEW r \in Readers, reader[r].pc = "storing", LookedUp!Stored(r),
           reader' = [reader EXCEPT ![r] = LookedUp!Idle],
           UNCHANGED <<about, clock, current, past, made, setter, trail>>,
           told' \in {LookedUp!NoAnswer, [version |-> reader[r].version, at |-> clock, fresh |-> TRUE]}
    PROVE  LookInv'
<1>1. reader[r] \in Reading /\ clock \in Nat /\ LookedUp!Idle \in Reading /\ LookedUp!Idle.pc = "idle"
  BY DEF LookInv, LookTyped, LookedUp!Idle, Reading
<1>2. ReadersOK' /\ reader' \in [Readers -> Reading]
  BY <1>1, OneReads
<1>3. cached' = [version |-> reader[r].version, at |-> clock, late |-> reader[r].version # current]
  BY DEF LookedUp!Stored
<1>4. LookTyped'
  BY <1>1, <1>2, <1>3 DEF LookInv, LookTyped, Reading
<1>5. PICK d \in 0..clock : clock - d <= MaxRead /\ reader[r].version \in past[d]
  <2>1. PICK d \in reader[r].since..clock : reader[r].version \in past[d] /\ clock - reader[r].since <= MaxRead
    BY DEF LookInv, ReadersOK, ReaderOK
  <2>2. d \in 0..clock /\ clock - d <= MaxRead
    BY <1>1, <2>1, TtlIs DEF Reading
  <2> QED BY <2>1, <2>2
<1>6. EntryOK'
  BY <1>1, <1>3, <1>5 DEF EntryOK
<1>7. LookedUp!NeverTooOld'
  <2>1. CASE told' = LookedUp!NoAnswer
    BY <2>1 DEF LookedUp!NeverTooOld, LookedUp!NoAnswer
  <2>2. CASE told' = [version |-> reader[r].version, at |-> clock, fresh |-> TRUE]
    <3>1. PICK ttl \in Nat \ {0} : ttl = LookedUp!Ttl'
      BY TtlIs DEF LookedUp!Ttl
    <3>2. clock - d < ttl + MaxRead
      BY <1>1, <1>5, TtlIs
    <3> QED BY <1>5, <2>2, <3>1, <3>2 DEF LookedUp!NeverTooOld
  <2> QED BY <2>1, <2>2
<1>8. LookedUp!ChangesSeen' /\ SettersOK'
  <2>1. cached'.version # current => cached'.late
    BY <1>3
  <2> QED BY <2>1 DEF LookInv, LookedUp!ChangesSeen, SettersOK
<1> QED BY <1>2, <1>4, <1>6, <1>7, <1>8 DEF LookInv

LEMMA FailStep == ASSUME LookedUp!LookupsAssumption, LookInv, NEW r \in Readers, LookedUp!ReadFails(r) PROVE LookInv'
<1>1. /\ UNCHANGED <<about, clock, current, past, made, cached, setter, trail>> /\ told' = LookedUp!NoAnswer
      /\ reader' = [reader EXCEPT ![r] = LookedUp!Idle]
      /\ LookedUp!Idle \in Reading /\ LookedUp!Idle.pc = "idle"
  BY DEF LookedUp!ReadFails, LookedUp!restOfFlags, LookedUp!Idle, Reading
<1>2. ReadersOK' /\ reader' \in [Readers -> Reading]
  BY <1>1, OneReads
<1>3. EntryOK' /\ LookedUp!NeverTooOld' /\ LookedUp!ChangesSeen' /\ SettersOK'
  BY <1>1, Remembered, SameChanges DEF LookInv
<1>4. LookTyped'
  BY <1>1, <1>2 DEF LookInv, LookTyped
<1> QED BY <1>2, <1>3, <1>4 DEF LookInv

LEMMA GateStep == ASSUME LookedUp!LookupsAssumption, LookInv, NEW r \in Readers, LookedUp!ShouldOCR(r) PROVE LookInv'
<1>1. /\ UNCHANGED <<about, clock, current, past, made, cached, setter, trail>> /\ about = "gate"
      /\ told' = [version |-> cached.version, at |-> clock, fresh |-> LookedUp!Fresh(GateTtl)]
  BY DEF LookedUp!ShouldOCR, LookedUp!restOfFlags, LookedUp!Answer
<1>2. EntryOK' /\ (UNCHANGED reader => ReadersOK') /\ LookedUp!ChangesSeen' /\ SettersOK'
  BY <1>1, Remembered, SameChanges DEF LookInv
<1>3. LookedUp!NeverTooOld'
  <2>1. CASE LookedUp!Fresh(GateTtl)
    <3>1. LookedUp!Fresh(GateTtl) = TRUE
      BY <2>1 DEF LookedUp!Fresh
    <3>2. told' = [version |-> cached.version, at |-> clock, fresh |-> TRUE]
      BY <1>1, <3>1
    <3>3. GateTtl = LookedUp!Ttl
      BY <1>1, TtlIs
    <3> QED BY <1>1, <2>1, <3>2, <3>3, FreshTold
  <2>2. CASE ~LookedUp!Fresh(GateTtl)
    BY <1>1, <2>2 DEF LookedUp!NeverTooOld
  <2> QED BY <2>1, <2>2
<1>4. ReadersOK' /\ reader' \in [Readers -> Reading]
  <2>1. CASE LookedUp!Fresh(GateTtl)
    BY <1>2, <2>1 DEF LookedUp!ShouldOCR, LookInv, LookTyped
  <2>2. CASE ~LookedUp!Fresh(GateTtl)
    <3> DEFINE new == [pc |-> "reading", version |-> 0, since |-> clock]
    <3>1. reader' = [reader EXCEPT ![r] = new]
      <4>1. reader' = [reader EXCEPT ![r] = [LookedUp!Idle EXCEPT !.pc = "reading", !.since = clock]]
        BY <2>2, Zenon DEF LookedUp!ShouldOCR
      <4>2. PICK y : y = [LookedUp!Idle EXCEPT !.pc = "reading", !.since = clock]
        OBVIOUS
      <4>3. y = new
        BY <4>2 DEF LookedUp!Idle
      <4> QED BY <4>1, <4>2, <4>3, Zenon
    <3>2. new \in Reading /\ clock - clock <= MaxRead /\ clock <= clock
      BY TtlIs DEF Reading, LookInv, LookTyped
    <3> QED BY <1>1, <3>1, <3>2, OneReads
  <2> QED BY <2>1, <2>2
<1>5. LookTyped'
  BY <1>1, <1>4 DEF LookInv, LookTyped
<1> QED BY <1>2, <1>3, <1>4, <1>5 DEF LookInv

LEMMA StateStep == ASSUME LookedUp!LookupsAssumption, LookInv, NEW r \in Readers, LookedUp!ModuleState(r) PROVE LookInv'
<1>1. /\ UNCHANGED <<about, clock, current, past, made, cached, setter, trail>> /\ told' = LookedUp!NoAnswer
      /\ reader[r] \in Reading /\ reader[r].pc = "reading"
  BY DEF LookedUp!ModuleState, LookedUp!restOfFlags, LookInv, LookTyped
<1> DEFINE new == [pc |-> "storing", version |-> current, since |-> reader[r].since]
<1>2. reader' = [reader EXCEPT ![r] = new]
  <2>1. reader' = [reader EXCEPT ![r] = [reader[r] EXCEPT !.pc = "storing", !.version = current]]
    BY DEF LookedUp!ModuleState
  <2>2. [reader[r] EXCEPT !.pc = "storing", !.version = current] = new
    BY <1>1, ReadsOn
  <2> QED BY <2>1, <2>2
<1>3. /\ reader[r].since \in Nat /\ reader[r].since <= clock /\ clock - reader[r].since <= MaxRead
      /\ current \in past[clock] /\ current \in Nat /\ clock \in Nat
  BY <1>1 DEF LookInv, ReadersOK, ReaderOK, Reading, LookTyped
<1>4. new \in Reading /\ clock \in reader[r].since..clock
  BY <1>3 DEF Reading
<1>5. ReadersOK' /\ reader' \in [Readers -> Reading]
  BY <1>1, <1>2, <1>3, <1>4, OneReads
<1>6. EntryOK' /\ LookedUp!NeverTooOld' /\ LookedUp!ChangesSeen' /\ SettersOK'
  BY <1>1, Remembered, SameChanges DEF LookInv
<1>7. LookTyped'
  BY <1>1, <1>5 DEF LookInv, LookTyped
<1> QED BY <1>5, <1>6, <1>7 DEF LookInv

\* A new version is one more that was true now.
LEMMA BecomesIs ==
    ASSUME LookTyped, NEW v \in Nat, LookedUp!Becomes(v), UNCHANGED clock
    PROVE  /\ current' = v /\ DOMAIN past' = 0..clock /\ v \in past'[clock]
           /\ \A d \in 0..clock : past[d] \subseteq past'[d] /\ past'[d] \subseteq past[d] \cup {v}
BY DEF LookTyped, LookedUp!Becomes

LEMMA ChangesStep == ASSUME LookedUp!LookupsAssumption, LookInv, LookedUp!Changes PROVE LookInv'
<1>1. /\ UNCHANGED <<about, clock, cached, reader, setter, trail>> /\ told' = LookedUp!NoAnswer
      /\ about # "flag" /\ made' = made + 1 /\ made + 2 \in Nat /\ LookedUp!Becomes(made + 2)
  BY DEF LookedUp!Changes, LookedUp!restOfFlags, LookInv, LookTyped
<1>2. /\ current' = made + 2 /\ DOMAIN past' = 0..clock /\ made + 2 \in past'[clock]
      /\ \A d \in 0..clock : past[d] \subseteq past'[d]
  BY <1>1, BecomesIs DEF LookInv
<1>3. ReadersOK' /\ EntryOK' /\ LookedUp!NeverTooOld'
  BY <1>1, <1>2, Remembered DEF LookInv
<1>4. LookTyped'
  BY <1>1, <1>2 DEF LookInv, LookTyped
<1>5. LookedUp!ChangesSeen' /\ SettersOK'
  BY <1>1 DEF LookInv, LookedUp!ChangesSeen, SettersOK
<1> QED BY <1>3, <1>4, <1>5 DEF LookInv

LEMMA SetterIs ==
    ASSUME LookTyped, NEW a \in Setters, NEW from, NEW to \in {"idle", "audit", "upsert", "invalidate"}, NEW new \in Nat,
           LookedUp!SetterStep(a, from, to, new)
    PROVE  /\ setter[a].pc = from /\ setter[a] \in Setting
           /\ setter' = [setter EXCEPT ![a] = [pc |-> to, new |-> new]]
           /\ setter' \in [Setters -> Setting]
           /\ setter'[a].pc = to /\ setter'[a].new = new
           /\ \A b \in Setters : b # a => setter'[b] = setter[b]
           /\ UNCHANGED <<about, clock, reader>> /\ told' = LookedUp!NoAnswer
<1>1. setter[a] \in Setting /\ [setter[a] EXCEPT !.pc = to, !.new = new] = [pc |-> to, new |-> new]
  <2>1. setter[a] \in Setting
    BY DEF LookTyped
  <2>2. PICK p, v : setter[a] = [pc |-> p, new |-> v]
    BY <2>1 DEF Setting
  <2>3. ASSUME NEW y, y = [[pc |-> p, new |-> v] EXCEPT !.pc = to, !.new = new]
        PROVE  y = [pc |-> to, new |-> new]
    BY <2>3
  <2> QED BY <2>1, <2>2, <2>3, Zenon
<1>2. setter' = [setter EXCEPT ![a] = [pc |-> to, new |-> new]]
  BY <1>1 DEF LookedUp!SetterStep
<1>3. [pc |-> to, new |-> new] \in Setting
  BY DEF Setting
<1> QED BY <1>1, <1>2, <1>3 DEF LookedUp!SetterStep, LookedUp!restOfFlags, LookTyped

LEMMA SetStep ==
    ASSUME LookedUp!LookupsAssumption, LookInv, NEW a \in Setters, NEW new \in {0, made + 2}, LookedUp!Set(a, new)
    PROVE  LookInv'
<1>1. LookTyped /\ new \in Nat /\ made' = made + 1 /\ made \in Nat /\ UNCHANGED <<current, past, cached, trail>>
      /\ LookedUp!SetterStep(a, "idle", "audit", new)
  BY DEF LookedUp!Set, LookInv, LookTyped
<1>2. /\ setter' \in [Setters -> Setting] /\ setter[a].pc = "idle" /\ setter'[a].pc = "audit"
      /\ \A b \in Setters : b # a => setter'[b] = setter[b]
      /\ UNCHANGED <<about, clock, reader>> /\ told' = LookedUp!NoAnswer
  BY <1>1, SetterIs
<1>3. ReadersOK' /\ EntryOK' /\ LookedUp!NeverTooOld'
  BY <1>1, <1>2, Remembered DEF LookInv
<1>4. LookTyped'
  BY <1>1, <1>2 DEF LookTyped
<1>5. LookedUp!ChangesSeen' /\ SettersOK'
  BY <1>1, <1>2 DEF LookInv, LookedUp!ChangesSeen, SettersOK
<1> QED BY <1>3, <1>4, <1>5 DEF LookInv

LEMMA AuditStep == ASSUME LookedUp!LookupsAssumption, LookInv, NEW a \in Setters, LookedUp!Audit(a) PROVE LookInv'
<1>1. /\ LookTyped /\ setter[a].new \in Nat /\ trail' = trail \cup {setter[a].new} /\ UNCHANGED <<current, past, made, cached>>
      /\ LookedUp!SetterStep(a, "audit", "upsert", setter[a].new)
  BY DEF LookedUp!Audit, LookInv, LookTyped, Setting
<1>2. /\ setter' \in [Setters -> Setting] /\ setter[a].pc = "audit" /\ setter'[a].pc = "upsert" /\ setter'[a].new = setter[a].new
      /\ \A b \in Setters : b # a => setter'[b] = setter[b]
      /\ UNCHANGED <<about, clock, reader>> /\ told' = LookedUp!NoAnswer
  <2>1. PICK v \in Nat : v = setter[a].new
    BY <1>1
  <2>2. LookedUp!SetterStep(a, "audit", "upsert", v)
    BY <1>1, <2>1
  <2>3. /\ setter' \in [Setters -> Setting] /\ setter[a].pc = "audit" /\ setter'[a].pc = "upsert" /\ setter'[a].new = v
        /\ \A b \in Setters : b # a => setter'[b] = setter[b]
        /\ UNCHANGED <<about, clock, reader>> /\ told' = LookedUp!NoAnswer
    BY <1>1, <2>2, SetterIs
  <2> QED BY <2>1, <2>3
<1>3. ReadersOK' /\ EntryOK' /\ LookedUp!NeverTooOld'
  BY <1>1, <1>2, Remembered DEF LookInv
<1>4. LookTyped'
  BY <1>1, <1>2 DEF LookTyped
<1>5. LookedUp!ChangesSeen' /\ SettersOK'
  BY <1>1, <1>2 DEF LookInv, LookedUp!ChangesSeen, SettersOK
<1> QED BY <1>3, <1>4, <1>5 DEF LookInv

LEMMA UpsertStep == ASSUME LookedUp!LookupsAssumption, LookInv, NEW a \in Setters, LookedUp!Upsert(a) PROVE LookInv'
<1>1. /\ LookTyped /\ setter[a].new \in Nat /\ LookedUp!Becomes(setter[a].new) /\ UNCHANGED <<made, cached, trail>>
      /\ LookedUp!SetterStep(a, "upsert", "invalidate", setter[a].new)
  BY DEF LookedUp!Upsert, LookInv, LookTyped, Setting
<1>2. /\ setter' \in [Setters -> Setting] /\ setter[a].pc = "upsert" /\ setter'[a].pc = "invalidate"
      /\ \A b \in Setters : b # a => setter'[b] = setter[b]
      /\ UNCHANGED <<about, clock, reader>> /\ told' = LookedUp!NoAnswer
  BY <1>1, SetterIs
<1>3. /\ current' = setter[a].new /\ DOMAIN past' = 0..clock /\ setter[a].new \in past'[clock]
      /\ \A d \in 0..clock : past[d] \subseteq past'[d] /\ past'[d] \subseteq past[d] \cup {setter[a].new}
  BY <1>1, <1>2, BecomesIs
<1>4. ReadersOK' /\ EntryOK' /\ LookedUp!NeverTooOld'
  BY <1>1, <1>2, <1>3, Remembered DEF LookInv
<1>5. LookTyped'
  BY <1>1, <1>2, <1>3 DEF LookTyped
<1>6. setter[a].new \in trail
  BY <1>2 DEF LookInv, SettersOK
<1>7. LookedUp!ChangesSeen'
  <2> SUFFICES ASSUME about = "flag"
               PROVE  /\ \A d \in 0..clock : past'[d] \subseteq trail \cup {1}
                      /\ \E b \in Setters : setter'[b].pc = "invalidate"
    BY <1>1, <1>2, <1>3 DEF LookedUp!ChangesSeen
  <2>1. \A d \in 0..clock : past[d] \subseteq trail \cup {1}
    BY <1>1 DEF LookInv, LookedUp!ChangesSeen, LookTyped
  <2> QED BY <1>2, <1>3, <1>6, <2>1
<1>8. SettersOK'
  BY <1>1, <1>2 DEF LookInv, SettersOK
<1> QED BY <1>4, <1>5, <1>7, <1>8 DEF LookInv

LEMMA InvalidateStep == ASSUME LookedUp!LookupsAssumption, LookInv, NEW a \in Setters, LookedUp!Invalidate(a) PROVE LookInv'
<1>1. LookTyped /\ cached' = LookedUp!NoEntry /\ UNCHANGED <<current, past, made, trail>> /\ LookedUp!SetterStep(a, "invalidate", "idle", 0)
  BY DEF LookedUp!Invalidate, LookInv
<1>2. /\ setter' \in [Setters -> Setting] /\ setter'[a].pc = "idle"
      /\ \A b \in Setters : b # a => setter'[b] = setter[b]
      /\ UNCHANGED <<about, clock, reader>> /\ told' = LookedUp!NoAnswer
  BY <1>1, SetterIs
<1>3. ReadersOK' /\ LookedUp!NeverTooOld'
  BY <1>1, <1>2, Remembered DEF LookInv
<1>4. EntryOK'
  BY <1>1 DEF EntryOK
<1>5. LookTyped'
  BY <1>1, <1>2 DEF LookTyped, LookedUp!NoEntry
<1>6. LookedUp!ChangesSeen' /\ SettersOK'
  BY <1>1, <1>2 DEF LookInv, LookedUp!ChangesSeen, SettersOK
<1> QED BY <1>3, <1>4, <1>5, <1>6 DEF LookInv

LEMMA SetFailsStep == ASSUME LookedUp!LookupsAssumption, LookInv, NEW a \in Setters, LookedUp!SetFails(a) PROVE LookInv'
<1>1. /\ LookTyped /\ UNCHANGED <<current, past, made, cached, trail>> /\ LookedUp!SetterStep(a, setter[a].pc, "idle", 0)
      /\ setter[a].pc # "invalidate"
  BY DEF LookedUp!SetFails, LookInv
<1>2. /\ setter' \in [Setters -> Setting] /\ setter'[a].pc = "idle"
      /\ \A b \in Setters : b # a => setter'[b] = setter[b]
      /\ UNCHANGED <<about, clock, reader>> /\ told' = LookedUp!NoAnswer
  BY <1>1, SetterIs
<1>3. ReadersOK' /\ EntryOK' /\ LookedUp!NeverTooOld'
  BY <1>1, <1>2, Remembered DEF LookInv
<1>4. LookTyped'
  BY <1>1, <1>2 DEF LookTyped
<1>5. LookedUp!ChangesSeen' /\ SettersOK'
  BY <1>1, <1>2 DEF LookInv, LookedUp!ChangesSeen, SettersOK
<1> QED BY <1>3, <1>4, <1>5 DEF LookInv

\* No read takes longer than MaxRead.
LEMMA LookTick == ASSUME LookedUp!LookupsAssumption, LookInv, LookedUp!Tick PROVE LookInv'
<1>1. /\ LookTyped /\ UNCHANGED <<about, current, made, cached, reader, setter, trail>> /\ told' = LookedUp!NoAnswer
      /\ clock \in Nat /\ clock' = clock + 1
      /\ \A r \in Readers : reader[r].pc # "idle" => clock - reader[r].since < MaxRead
      /\ DOMAIN past' = 0..clock' /\ past'[clock'] = {current}
      /\ \A d \in 0..clock : past'[d] = past[d]
  BY DEF LookedUp!Tick, LookInv, LookTyped
<1>2. LookTyped'
  BY <1>1 DEF LookTyped
<1>3. ASSUME NEW r \in Readers
      PROVE  ReaderOK(r)'
  <2> SUFFICES ASSUME reader[r].pc # "idle"
               PROVE  /\ reader[r].since <= clock' /\ clock' - reader[r].since <= MaxRead
                      /\ reader[r].pc = "storing" => \E d \in reader[r].since..clock' : reader[r].version \in past'[d]
    BY <1>1 DEF ReaderOK
  <2>1. /\ reader[r].since <= clock /\ reader[r].since \in Nat
        /\ reader[r].pc = "storing" => \E d \in reader[r].since..clock : reader[r].version \in past[d]
    BY DEF LookInv, ReadersOK, ReaderOK, LookTyped, Reading
  <2>2. reader[r].since <= clock' /\ clock' - reader[r].since <= MaxRead
    BY <1>1, <2>1, TtlIs
  <2>3. \A d \in reader[r].since..clock : d \in 0..clock /\ d \in reader[r].since..clock'
    BY <1>1, <2>1
  <2> QED BY <1>1, <2>1, <2>2, <2>3
<1>4. EntryOK'
  <2> SUFFICES ASSUME cached # LookedUp!NoEntry
               PROVE  /\ cached.at \in 0..clock'
                      /\ \E d \in 0..clock' : cached.at - d <= MaxRead /\ cached.version \in past'[d]
    BY <1>1 DEF EntryOK
  <2>1. cached.at \in 0..clock
    BY DEF LookInv, EntryOK
  <2>2. PICK d \in 0..clock : cached.at - d <= MaxRead /\ cached.version \in past[d]
    BY DEF LookInv, EntryOK
  <2>3. d \in 0..clock' /\ cached.at \in 0..clock'
    BY <1>1, <2>1
  <2> QED BY <1>1, <2>2, <2>3
<1>5. LookedUp!NeverTooOld'
  BY <1>1 DEF LookedUp!NeverTooOld, LookedUp!NoAnswer
<1>6. LookedUp!ChangesSeen' /\ SettersOK'
  <2> SUFFICES ASSUME about = "flag"
               PROVE  \A d \in 0..clock' : past'[d] \subseteq trail \cup {1}
    BY <1>1 DEF LookInv, LookedUp!ChangesSeen, SettersOK
  <2>1. current \in trail \cup {1} /\ \A d \in 0..clock : past[d] \subseteq trail \cup {1}
    BY <1>1 DEF LookInv, LookedUp!ChangesSeen, LookTyped
  <2>2. \A d \in 0..clock' : d = clock' \/ d \in 0..clock
    BY <1>1
  <2> QED BY <1>1, <2>1, <2>2
<1> QED BY <1>2, <1>3, <1>4, <1>5, <1>6 DEF LookInv, ReadersOK

LEMMA SearchStep ==
    ASSUME LookInv, UNCHANGED <<about, clock, current, past, made, cached, reader, setter, trail>>,
           told' \in {told, LookedUp!NoAnswer}
    PROVE  LookInv'
<1>1. ReadersOK' /\ EntryOK'
  BY Remembered DEF LookInv
<1>2. LookedUp!NeverTooOld'
  <2>1. CASE told' = told
    BY <2>1 DEF LookInv, LookedUp!NeverTooOld, LookedUp!Ttl
  <2>2. CASE told' = LookedUp!NoAnswer
    BY <2>2 DEF LookedUp!NeverTooOld, LookedUp!NoAnswer
  <2> QED BY <2>1, <2>2
<1>3. LookTyped'
  BY DEF LookInv, LookTyped
<1> QED BY <1>1, <1>2, <1>3, SameChanges DEF LookInv

LEMMA NextLook == ASSUME LookedUp!LookupsAssumption, LookInv, [LookedUp!LookupsNext]_LookedUp!lookupVars PROVE LookInv'
<1>1. ASSUME NEW r \in Readers, LookedUp!GetCached(r) \/ LookedUp!MetaGet(r) PROVE LookInv'
  <2>1. CASE LookedUp!GetCached(r)
    BY <2>1, LookupStep, TtlIs DEF LookedUp!GetCached
  <2>2. CASE LookedUp!MetaGet(r)
    BY <2>2, LookupStep, TtlIs DEF LookedUp!MetaGet
  <2> QED BY <1>1, <2>1, <2>2
<1>2. ASSUME NEW r \in Readers, LookedUp!FlagGet(r) \/ LookedUp!GetEndpointMetadata(r) PROVE LookInv'
  BY <1>2, FetchStep DEF LookedUp!FlagGet, LookedUp!GetEndpointMetadata
<1>3. ASSUME NEW r \in Readers, LookedUp!Store(r) PROVE LookInv'
  <2>1. /\ reader[r].pc = "storing" /\ LookedUp!Stored(r) /\ reader' = [reader EXCEPT ![r] = LookedUp!Idle]
        /\ UNCHANGED <<about, clock, current, past, made, setter, trail>>
        /\ told' = [version |-> reader[r].version, at |-> clock, fresh |-> TRUE]
    BY <1>3 DEF LookedUp!Store, LookedUp!restOfFlags, LookedUp!Answer
  <2> QED BY <2>1, StoredStep
<1>4. ASSUME NEW r \in Readers, LookedUp!FetchAndStore(r) PROVE LookInv'
  <2>1. /\ reader[r].pc = "storing" /\ LookedUp!Stored(r) /\ reader' = [reader EXCEPT ![r] = LookedUp!Idle]
        /\ UNCHANGED <<about, clock, current, past, made, setter, trail>> /\ told' = LookedUp!NoAnswer
    BY <1>4 DEF LookedUp!FetchAndStore, LookedUp!restOfFlags
  <2> QED BY <2>1, StoredStep
<1>5. ASSUME NEW r \in Readers, LookedUp!ReadFails(r) \/ LookedUp!ShouldOCR(r) \/ LookedUp!ModuleState(r) PROVE LookInv'
  BY <1>5, FailStep, GateStep, StateStep
<1>6. ASSUME LookedUp!Changes \/ LookedUp!Tick PROVE LookInv'
  BY <1>6, ChangesStep, LookTick
<1>7. ASSUME NEW a \in Setters,
             \/ \E new \in {0, made + 2} : LookedUp!Set(a, new)
             \/ LookedUp!Audit(a) \/ LookedUp!Upsert(a) \/ LookedUp!Invalidate(a) \/ LookedUp!SetFails(a)
      PROVE  LookInv'
  BY <1>7, SetStep, AuditStep, UpsertStep, InvalidateStep, SetFailsStep
<1>8. ASSUME \/ \E d \in Docs : LookedUp!DocArrives(d)
             \/ \E from \in {LookedUp!Absent, 0, 1}, to \in {LookedUp!Absent, 2} : LookedUp!WalkStarts(from, to)
             \/ LookedUp!NextPage
             \/ UNCHANGED LookedUp!lookupVars
      PROVE  LookInv'
  <2>1. UNCHANGED <<about, clock, current, past, made, cached, reader, setter, trail>> /\ told' \in {told, LookedUp!NoAnswer}
    BY <1>8 DEF LookedUp!DocArrives, LookedUp!WalkStarts, LookedUp!NextPage, LookedUp!lookupVars
  <2> QED BY <2>1, SearchStep
<1> QED BY <1>1, <1>2, <1>3, <1>4, <1>5, <1>6, <1>7, <1>8 DEF LookedUp!LookupsNext

LEMMA FlagRules == LookedUp!FlagsTrue
<1> SUFFICES ASSUME NEW f \in LookedUp!Flags, NEW bucket \in 0..(LookedUp!Buckets - 1)
             PROVE  /\ f.rollout < LookedUp!Buckets /\ LookedUp!Evaluate(f, bucket)
                          => LookedUp!Evaluate([f EXCEPT !.rollout = @ + 1], bucket)
                    /\ LookedUp!Evaluate(f, bucket) => f.enabled
                    /\ ~f.default /\ f.rollout = 0 /\ TRUE \notin LookedUp!Override1(f) => ~LookedUp!Evaluate(f, bucket)
  BY DEF LookedUp!FlagsTrue
<1> DEFINE g == [f EXCEPT !.rollout = @ + 1]
<1>1. /\ f.rollout \in 0..4 /\ g.rollout = f.rollout + 1 /\ g.enabled = f.enabled /\ g.default = f.default
      /\ g.user = f.user /\ g.role = f.role /\ g.tenant = f.tenant
  BY DEF LookedUp!Flags, LookedUp!Buckets
<1>2. LookedUp!Override1(g) = LookedUp!Override1(f)
  BY <1>1 DEF LookedUp!Override1
<1>3. f.rollout < LookedUp!Buckets /\ LookedUp!Evaluate(f, bucket) => LookedUp!Evaluate(g, bucket)
  <2> HIDE DEF g
  <2>1. /\ f.rollout < 4 /\ bucket < f.rollout => bucket < g.rollout
        /\ f.rollout < 4 => ~ f.rollout >= 4
    BY <1>1 DEF LookedUp!Buckets
  <2>2. CASE LookedUp!Override1(f) # {}
    BY <1>1, <1>2, <2>2, Zenon DEF LookedUp!Evaluate
  <2>3. CASE LookedUp!Override1(f) = {}
    BY <1>1, <1>2, <2>1, <2>3, Zenon DEF LookedUp!Evaluate, LookedUp!Buckets
  <2> QED BY <2>2, <2>3
<1>4. LookedUp!Evaluate(f, bucket) => f.enabled
  BY DEF LookedUp!Evaluate
<1>5. ASSUME ~f.default, f.rollout = 0, TRUE \notin LookedUp!Override1(f)
      PROVE  ~LookedUp!Evaluate(f, bucket)
  <2>1. ~ f.rollout >= LookedUp!Buckets /\ ~ bucket < f.rollout
    BY <1>5 DEF LookedUp!Buckets
  <2> QED BY <1>5, <2>1, Zenon DEF LookedUp!Evaluate
<1> QED BY <1>3, <1>4, <1>5

LEMMA SearchRules == ASSUME LookedUp!LookupsAssumption, clock \in Nat PROVE LookedUp!SearchTrue
<1> SUFFICES ASSUME NEW from \in {LookedUp!Absent} \cup 0..(Cap + 2), NEW to \in {LookedUp!Absent} \cup 0..(Cap + 2),
                    NEW page \in -1..(MaxPage + 1), NEW size \in 0..(MaxSize + 1),
                    NEW q, q = [from |-> from, to |-> to, page |-> page, size |-> size], LookedUp!Valid(q)
             PROVE  /\ from = LookedUp!Absent \/ to # LookedUp!Absent
                         => LookedUp!NormaliseRange(q)[2] - LookedUp!NormaliseRange(q)[1] <= Cap
                    /\ LookedUp!NormalisePage(q).page \in 1..MaxPage /\ LookedUp!NormalisePage(q).size \in Size..MaxSize
  BY DEF LookedUp!SearchTrue
<1>1. /\ q.from = from /\ q.to = to /\ q.page = page /\ q.size = size
  OBVIOUS
<1>2. ASSUME from = LookedUp!Absent \/ to # LookedUp!Absent
      PROVE  LookedUp!NormaliseRange(q)[2] - LookedUp!NormaliseRange(q)[1] <= Cap
  BY <1>1, <1>2 DEF LookedUp!NormaliseRange, LookedUp!Valid, LookedUp!Absent, LookedUp!LookupsAssumption
<1>3. LookedUp!NormalisePage(q).page \in 1..MaxPage /\ LookedUp!NormalisePage(q).size \in Size..MaxSize
  BY <1>1 DEF LookedUp!NormalisePage, LookedUp!Valid, LookedUp!LookupsAssumption
<1> QED BY <1>2, <1>3

-----------------------------------------------------------------------------
(* The walk through the pages. *)

Low == LookedUp!NormaliseRange(walk.q)[1]
High == LookedUp!NormaliseRange(walk.q)[2]
Mine == LookedUp!Matching("t1", LookedUp!NormaliseRange(walk.q))

\* What comes before a document by the time of the next page.
Newer(d) == {e \in docs : e.tenant = "t1" /\ d.at < e.at /\ e.at <= High}

Due(d) == d.tenant = "t1" /\ d.decodes /\ walk.lo <= d.at /\ d.at <= walk.hi /\ LookedUp!Alone(d)

\* What was not shown is not before the next page.
OnTheWay ==
    /\ walk.q.page \in Nat \ {0} /\ walk.q.size = Size
    /\ walk.q.from \in Nat \cup {LookedUp!Absent} /\ walk.q.to \in Nat \cup {LookedUp!Absent}
    /\ walk.q.page = 1 => walk.hi = LookedUp!Absent
    /\ walk.q.page > 1 =>
         /\ walk.lo \in Int /\ walk.hi \in Nat /\ walk.lo <= Low /\ walk.hi <= High
         /\ \A d \in walk.start : Due(d) =>
              LookedUp!Blacked(d) \in walk.seen \/ (walk.q.page - 1) * Size <= Cardinality(Newer(d))

WalkOK ==
    /\ clock \in Nat /\ docs \subseteq Docs /\ IsFiniteSet(docs)
    /\ walk.start \subseteq docs
    /\ walk.status = "none" => walk = LookedUp!NoWalk
    /\ walk.status = "on" => OnTheWay
    /\ LookedUp!WalkTrue

LEMMA NatProducts == \A a, b \in Nat : a * b \in Nat
OBVIOUS

LEMMA InitWalk == ASSUME LookedUp!LookupsInit PROVE WalkOK
BY FS_EmptySet DEF LookedUp!LookupsInit, WalkOK, LookedUp!NoWalk, LookedUp!WalkTrue

LEMMA SameSize == ASSUME NEW S PROVE LookedUp!Cardinality(S) = Cardinality(S)
BY DEF LookedUp!Cardinality, Cardinality

\* Whatever the order, a document that shares its instant with no other comes right
\* after those that are newer.
LEMMA Placed ==
    ASSUME NEW S, IsFiniteSet(S), \A e \in S : e.at \in Int, NEW place \in LookedUp!Orders(S),
           NEW d \in S, \A e \in S : e.at = d.at => e = d
    PROVE  /\ place[d] \in 1..Cardinality(S) /\ Cardinality(S) \in Nat
           /\ place[d] = Cardinality({e \in S : d.at < e.at}) + 1
<1> DEFINE n == Cardinality(S)
<1> DEFINE N == {e \in S : d.at < e.at}
<1>1. n \in Nat /\ IsFiniteSet(1..n) /\ Cardinality(1..n) = n
  BY FS_CardinalityType, FS_Interval
<1>2. /\ place \in [S -> 1..n] /\ place[d] \in 1..n
      /\ \A a, b \in S : a # b => place[a] # place[b] /\ (a.at > b.at => place[a] < place[b])
  <2>1. LookedUp!Cardinality(S) = n
    BY SameSize
  <2>2. place \in [S -> 1..n]
    BY <2>1 DEF LookedUp!Orders
  <2> QED BY <2>2 DEF LookedUp!Orders
<1>3. place \in Injection(S, 1..n)
  BY <1>1, <1>2 DEF Injection, IsInjective
<1>4. place \in Surjection(S, 1..n)
  BY <1>1, <1>3, FS_Injection
<1>5. PICK m \in Nat : place[d] = m + 1
  BY <1>1, <1>2
<1> DEFINE g == [e \in N |-> place[e]]
<1>6. g \in Bijection(N, 1..m)
  <2>1. \A e \in N : place[e] \in 1..m
    BY <1>1, <1>2, <1>5
  <2>2. ASSUME NEW k \in 1..m
        PROVE  \E e \in N : g[e] = k
    <3>1. k \in 1..n /\ k < place[d]
      BY <1>1, <1>2, <1>5
    <3>2. PICK e \in S : place[e] = k
      BY <1>4, <3>1 DEF Surjection
    <3>3. e # d /\ ~ d.at > e.at
      BY <1>1, <1>2, <3>1, <3>2
    <3>4. e.at \in Int /\ d.at \in Int /\ e.at # d.at
      BY <3>3
    <3> QED BY <3>2, <3>3, <3>4
  <2>3. g \in [N -> 1..m]
    BY <2>1
  <2>4. \A a, b \in N : g[a] = g[b] => a = b
    <3> SUFFICES ASSUME NEW a \in N, NEW b \in N, place[a] = place[b] PROVE a = b
      OBVIOUS
    <3> QED BY <1>2
  <2>5. g \in Injection(N, 1..m)
    BY <2>3, <2>4 DEF Injection, IsInjective
  <2>6. g \in Surjection(N, 1..m)
    BY <2>2, <2>3 DEF Surjection
  <2> QED BY <2>5, <2>6 DEF Bijection
<1>7. IsFiniteSet(N) /\ IsFiniteSet(1..m) /\ Cardinality(1..m) = m
  BY <1>5, FS_Subset, FS_Interval
<1>8. Cardinality(N) = m
  <2>1. ExistsBijection(N, 1..m)
    BY <1>6 DEF ExistsBijection
  <2> QED BY <1>7, <2>1, FS_Bijection
<1> QED BY <1>1, <1>2, <1>5, <1>8

\* The window of a walk under way: both its ends only grow.
LEMMA WindowIs ==
    ASSUME LookedUp!LookupsAssumption, clock \in Nat, OnTheWay
    PROVE  /\ Low \in Int /\ High \in Nat
           /\ High = IF walk.q.to = LookedUp!Absent THEN clock ELSE walk.q.to
           /\ Low = IF walk.q.from = LookedUp!Absent THEN High - Lookback ELSE walk.q.from
           /\ LookedUp!NormaliseRange(walk.q) = <<Low, High>>
           /\ LookedUp!NormalisePage(walk.q).page = walk.q.page /\ LookedUp!NormalisePage(walk.q).size = Size
BY DEF LookedUp!LookupsAssumption, OnTheWay, Low, High, LookedUp!NormaliseRange, LookedUp!NormalisePage, LookedUp!Absent

\* What was before a document stays there.
LEMMA NewerGrows ==
    ASSUME IsFiniteSet(docs'), docs \subseteq docs', docs \subseteq Docs, LookedUp!LookupsAssumption,
           High \in Int, High' \in Int, High <= High', NEW d
    PROVE  Cardinality(Newer(d)) \in Nat /\ Cardinality(Newer(d))' \in Nat /\ Cardinality(Newer(d)) <= Cardinality(Newer(d))'
<1>1. Newer(d) \subseteq Newer(d)'
  <2> SUFFICES ASSUME NEW e \in Newer(d) PROVE e \in Newer(d)'
    OBVIOUS
  <2>1. e \in docs' /\ e.tenant = "t1" /\ d.at < e.at /\ e.at <= High /\ e.at \in Int
    BY DEF Newer, LookedUp!LookupsAssumption
  <2>2. e.at <= High'
    BY <2>1
  <2> QED BY <2>1, <2>2 DEF Newer
<1>2. IsFiniteSet(Newer(d)')
  BY FS_Subset DEF Newer
<1> QED BY <1>1, <1>2, FS_Subset, FS_CardinalityType

LEMMA WaitStep ==
    ASSUME LookedUp!LookupsAssumption, WalkOK, UNCHANGED walk,
           clock' \in Nat, clock <= clock', docs' \subseteq Docs, IsFiniteSet(docs'), docs \subseteq docs'
    PROVE  WalkOK'
<1>1. \A d : LookedUp!Alone(d)' => LookedUp!Alone(d)
  BY DEF LookedUp!Alone
<1>2. LookedUp!WalkTrue'
  BY <1>1 DEF WalkOK, LookedUp!WalkTrue
<1>3. ASSUME walk.status = "on"
      PROVE  OnTheWay'
  <2>1. OnTheWay /\ clock \in Nat
    BY <1>3 DEF WalkOK
  <2>2. /\ Low \in Int /\ High \in Nat
        /\ High = IF walk.q.to = LookedUp!Absent THEN clock ELSE walk.q.to
        /\ Low = IF walk.q.from = LookedUp!Absent THEN High - Lookback ELSE walk.q.from
    BY <2>1, WindowIs
  <2>3. /\ High' = IF walk.q.to = LookedUp!Absent THEN clock' ELSE walk.q.to
        /\ Low' = IF walk.q.from = LookedUp!Absent THEN High' - Lookback ELSE walk.q.from
    BY DEF Low, High, LookedUp!NormaliseRange
  <2>4. High' \in Nat /\ Low' \in Int /\ High <= High' /\ Low <= Low'
    <3>1. PICK from \in Int, to \in Int : from = walk.q.from /\ to = walk.q.to /\ (to = -1 \/ to \in Nat)
      BY <2>1 DEF OnTheWay, LookedUp!Absent
    <3>2. Lookback \in Nat
      BY DEF LookedUp!LookupsAssumption
    <3>3. /\ High = IF to = -1 THEN clock ELSE to
          /\ Low = IF from = -1 THEN High - Lookback ELSE from
          /\ High' = IF to = -1 THEN clock' ELSE to
          /\ Low' = IF from = -1 THEN High' - Lookback ELSE from
      BY <2>2, <2>3, <3>1 DEF LookedUp!Absent
    <3>4. PICK h \in Nat, k \in Nat : h = High /\ k = High' /\ h <= k
      <4>1. CASE to = -1
        BY <2>1, <3>3, <4>1
      <4>2. CASE to # -1
        BY <3>1, <3>3, <4>2
      <4> QED BY <4>1, <4>2
    <3>5. CASE from = -1
      <4>1. Low = h - Lookback /\ Low' = k - Lookback
        BY <3>3, <3>4, <3>5
      <4>2. h - Lookback \in Int /\ k - Lookback \in Int /\ h - Lookback <= k - Lookback
        <5>1. \A a, b, c \in Nat : a <= b => a - c \in Int /\ b - c \in Int /\ a - c <= b - c
          OBVIOUS
        <5> QED BY <3>2, <3>4, <5>1
      <4> QED BY <3>4, <4>1, <4>2
    <3>6. CASE from # -1
      BY <3>1, <3>3, <3>4, <3>6
    <3> QED BY <3>5, <3>6
  <2>5. ASSUME walk.q.page > 1
        PROVE  /\ walk.lo \in Int /\ walk.hi \in Nat /\ walk.lo <= Low' /\ walk.hi <= High'
               /\ \A d \in walk.start : Due(d)' =>
                    LookedUp!Blacked(d)' \in walk.seen \/ (walk.q.page - 1) * Size <= Cardinality(Newer(d))'
    <3>1. /\ walk.lo \in Int /\ walk.hi \in Nat /\ walk.lo <= Low /\ walk.hi <= High
          /\ \A d \in walk.start : Due(d) =>
               LookedUp!Blacked(d) \in walk.seen \/ (walk.q.page - 1) * Size <= Cardinality(Newer(d))
      BY <2>1, <2>5 DEF OnTheWay
    <3>2. ASSUME NEW d \in walk.start, Due(d)'
          PROVE  LookedUp!Blacked(d) \in walk.seen \/ (walk.q.page - 1) * Size <= Cardinality(Newer(d))'
      <4>1. Due(d)
        BY <1>1, <3>2 DEF Due
      <4>2. CASE LookedUp!Blacked(d) \in walk.seen
        BY <4>2
      <4>3. CASE (walk.q.page - 1) * Size <= Cardinality(Newer(d))
        <5>1. Cardinality(Newer(d)) \in Nat /\ Cardinality(Newer(d))' \in Nat /\ Cardinality(Newer(d)) <= Cardinality(Newer(d))'
          BY <2>2, <2>4, NewerGrows DEF WalkOK
        <5>2. PICK k \in Nat : k = (walk.q.page - 1) * Size
          <6>1. PICK page \in Nat : page = walk.q.page - 1
            BY <2>1 DEF OnTheWay
          <6> QED BY <6>1, NatProducts DEF LookedUp!LookupsAssumption
        <5> QED BY <4>3, <5>1, <5>2
      <4> QED BY <3>1, <4>1, <4>2, <4>3
    <3>3. \A d : LookedUp!Blacked(d)' = LookedUp!Blacked(d)
      BY DEF LookedUp!Blacked
    <3>4. walk.lo \in Int /\ walk.hi \in Nat /\ walk.lo <= Low' /\ walk.hi <= High'
      BY <2>2, <2>4, <3>1
    <3> QED BY <3>2, <3>3, <3>4, Zenon
  <2>6. /\ walk.q.page \in Nat \ {0} /\ walk.q.size = Size
        /\ walk.q.from \in Nat \cup {LookedUp!Absent} /\ walk.q.to \in Nat \cup {LookedUp!Absent}
        /\ walk.q.page = 1 => walk.hi = LookedUp!Absent
    BY <2>1 DEF OnTheWay
  <2> QED BY <2>5, <2>6 DEF OnTheWay, LookedUp!Absent
<1>4. walk.start \subseteq docs' /\ (walk.status = "none" => walk = LookedUp!NoWalk)
  BY DEF WalkOK
<1> QED BY <1>2, <1>3, <1>4 DEF WalkOK, LookedUp!NoWalk, LookedUp!Absent

LEMMA StartStep ==
    ASSUME LookedUp!LookupsAssumption, WalkOK, NEW from \in {LookedUp!Absent, 0, 1}, NEW to \in {LookedUp!Absent, 2},
           LookedUp!WalkStarts(from, to)
    PROVE  WalkOK'
<1> DEFINE q == [from |-> from, to |-> to, page |-> 1, size |-> Size]
<1>1. /\ UNCHANGED <<clock, docs>> /\ walk.status = "none" /\ walk = LookedUp!NoWalk
      /\ walk' = [LookedUp!NoWalk EXCEPT !.q = q, !.status = "on", !.start = docs]
  BY DEF LookedUp!WalkStarts, WalkOK
<1>2. /\ walk'.q = q /\ walk'.status = "on" /\ walk'.start = docs /\ walk'.seen = {} /\ walk'.hi = LookedUp!Absent
  BY <1>1 DEF LookedUp!NoWalk
<1>3. OnTheWay'
  BY <1>2 DEF OnTheWay, LookedUp!Absent
<1>4. LookedUp!WalkTrue'
  BY <1>2 DEF LookedUp!WalkTrue
<1> QED BY <1>1, <1>2, <1>3, <1>4 DEF WalkOK

LEMMA PageStep == ASSUME LookedUp!LookupsAssumption, WalkOK, LookedUp!NextPage PROVE WalkOK'
<1> DEFINE page == walk.q.page
<1>1. /\ walk.status = "on" /\ OnTheWay /\ UNCHANGED <<clock, docs>> /\ clock \in Nat
      /\ page \in Nat \ {0} /\ Size \in Nat \ {0}
  BY DEF LookedUp!NextPage, WalkOK, OnTheWay, LookedUp!LookupsAssumption
<1>2. /\ Low \in Int /\ High \in Nat /\ LookedUp!NormaliseRange(walk.q) = <<Low, High>>
      /\ LookedUp!NormalisePage(walk.q).page = page /\ LookedUp!NormalisePage(walk.q).size = Size
  BY <1>1, WindowIs
<1> DEFINE p == LookedUp!NormalisePage(walk.q)
<1>3. PICK place \in LookedUp!Orders(Mine) :
        \/ walk' = [walk EXCEPT !.status = "cut"]
        \/ walk' = [q |-> [walk.q EXCEPT !.page = p.page + 1],
                    seen |-> walk.seen \cup LookedUp!PageOf(Mine, place, p).hits,
                    start |-> walk.start,
                    status |-> IF p.page * p.size >= LookedUp!PageOf(Mine, place, p).total THEN "done" ELSE "on",
                    lo |-> LookedUp!NormaliseRange(walk.q)[1],
                    hi |-> IF walk.hi = LookedUp!Absent THEN LookedUp!NormaliseRange(walk.q)[2] ELSE walk.hi]
  BY DEF LookedUp!NextPage, Mine
<1>4. CASE walk' = [walk EXCEPT !.status = "cut"]
  <2>1. walk'.status = "cut" /\ walk'.start = walk.start /\ walk'.seen = walk.seen
    BY <1>4
  <2>2. LookedUp!WalkTrue'
    BY <2>1 DEF WalkOK, LookedUp!WalkTrue
  <2> QED BY <1>1, <2>1, <2>2 DEF WalkOK
<1>5. CASE walk' = [q |-> [walk.q EXCEPT !.page = p.page + 1],
                    seen |-> walk.seen \cup LookedUp!PageOf(Mine, place, p).hits,
                    start |-> walk.start,
                    status |-> IF p.page * p.size >= LookedUp!PageOf(Mine, place, p).total THEN "done" ELSE "on",
                    lo |-> LookedUp!NormaliseRange(walk.q)[1],
                    hi |-> IF walk.hi = LookedUp!Absent THEN LookedUp!NormaliseRange(walk.q)[2] ELSE walk.hi]
  <2> DEFINE hits == {LookedUp!Blacked(d) : d \in {h \in Mine : h.decodes /\ (page - 1) * Size < place[h] /\ place[h] <= page * Size}}
  <2> DEFINE total == Cardinality(Mine)
  <2>1. LookedUp!PageOf(Mine, place, p).hits = hits /\ LookedUp!PageOf(Mine, place, p).total = total
    <3>1. LookedUp!PageOf(Mine, place, p).total = total
      BY SameSize DEF LookedUp!PageOf
    <3>2. LookedUp!PageOf(Mine, place, p).hits = hits
      BY <1>2 DEF LookedUp!PageOf
    <3> QED BY <3>1, <3>2
  <2>2. /\ walk'.q = [walk.q EXCEPT !.page = page + 1] /\ walk'.seen = walk.seen \cup hits /\ walk'.start = walk.start
        /\ walk'.status = IF page * Size >= total THEN "done" ELSE "on"
        /\ walk'.lo = Low /\ walk'.hi = IF walk.hi = LookedUp!Absent THEN High ELSE walk.hi
    <3> HIDE DEF hits, total
    <3> QED BY <1>2, <1>5, <2>1
  <2>3. /\ High' = High /\ Low' = Low /\ walk'.hi \in Nat /\ walk'.hi <= High
        /\ page > 1 => walk'.hi = walk.hi /\ walk.lo <= Low /\ walk.lo \in Int
    <3>1. walk'.q.from = walk.q.from /\ walk'.q.to = walk.q.to
      BY <2>2
    <3>2. High' = High /\ Low' = Low
      BY <1>1, <3>1 DEF Low, High, LookedUp!NormaliseRange
    <3>3. /\ walk'.hi = IF walk.hi = LookedUp!Absent THEN High ELSE walk.hi
          /\ page = 1 => walk.hi = LookedUp!Absent
          /\ page > 1 => walk.lo \in Int /\ walk.hi \in Nat /\ walk.lo <= Low /\ walk.hi <= High
      BY <1>1, <2>2 DEF OnTheWay
    <3>4. page = 1 \/ page > 1
      BY <1>1
    <3> HIDE DEF hits, total, page
    <3>5. /\ walk'.hi \in Nat /\ walk'.hi <= High
          /\ page > 1 => walk'.hi = walk.hi /\ walk.lo <= Low /\ walk.lo \in Int
      <4>1. CASE page = 1 /\ ~ page > 1
        BY <1>2, <3>3, <4>1
      <4>2. CASE page > 1
        BY <1>2, <3>3, <4>2 DEF LookedUp!Absent
      <4> QED BY <3>4, <4>1, <4>2
    <3> QED BY <3>2, <3>5
  <2>4. IsFiniteSet(Mine) /\ total \in Nat /\ Mine \subseteq docs
    BY <1>1, FS_Subset, FS_CardinalityType DEF WalkOK, Mine, LookedUp!Matching
  <2>5. PICK before \in Nat, upto \in Nat : before = (page - 1) * Size /\ upto = page * Size /\ (page = 1 => before = 0)
    <3>1. PICK k \in Nat : page = k + 1 /\ k = page - 1
      BY <1>1
    <3>2. k * Size \in Nat /\ (k + 1) * Size \in Nat
      BY <1>1, <3>1, NatProducts
    <3>3. k = 0 => k * Size = 0
      BY <1>1
    <3> QED BY <3>1, <3>2, <3>3
  <2>6. ASSUME NEW d \in walk.start, Due(d)'
        PROVE  LookedUp!Blacked(d) \in walk.seen \cup hits \/ (upto <= Cardinality(Newer(d)) /\ upto < total)
    <3>1. /\ d \in docs /\ d \in Docs /\ d.at \in Int /\ d.tenant = "t1" /\ d.decodes /\ Low <= d.at /\ d.at <= High
          /\ LookedUp!Alone(d)
      <4>1. d \in docs /\ d \in Docs /\ d.at \in Int
        BY DEF WalkOK, LookedUp!LookupsAssumption
      <4>2. d.tenant = "t1" /\ d.decodes /\ Low <= d.at /\ d.at <= walk'.hi
        BY <2>2, <2>6 DEF Due
      <4>3. LookedUp!Alone(d)
        BY <1>1, <2>6 DEF Due, LookedUp!Alone
      <4> QED BY <1>2, <2>3, <4>1, <4>2, <4>3
    <3>2. d \in Mine /\ \A e \in Mine : e.at \in Int /\ (e.at = d.at => e = d)
      <4>1. Mine = {e \in docs : e.tenant = "t1" /\ Low <= e.at /\ e.at <= High}
        BY <1>2 DEF Mine, LookedUp!Matching
      <4> QED BY <3>1, <4>1 DEF LookedUp!Alone, WalkOK, LookedUp!LookupsAssumption
    <3>3. /\ place[d] \in 1..total /\ place[d] = Cardinality({e \in Mine : d.at < e.at}) + 1
      <4> HIDE DEF hits, total
      <4>1. \A S : IsFiniteSet(S) /\ (\A e \in S : e.at \in Int) /\ place \in LookedUp!Orders(S) =>
              \A x \in S : (\A e \in S : e.at = x.at => e = x) =>
                place[x] \in 1..Cardinality(S) /\ place[x] = Cardinality({e \in S : x.at < e.at}) + 1
        BY Placed
      <4>2. place[d] \in 1..Cardinality(Mine) /\ place[d] = Cardinality({e \in Mine : d.at < e.at}) + 1
        BY <2>4, <3>2, <4>1, Zenon
      <4> QED BY <4>2 DEF total
    <3>4. {e \in Mine : d.at < e.at} = Newer(d)
      <4>1. Mine = {e \in docs : e.tenant = "t1" /\ Low <= e.at /\ e.at <= High}
        BY <1>2 DEF Mine, LookedUp!Matching
      <4>2. ASSUME NEW e \in docs, e.tenant = "t1", d.at < e.at, e.at <= High
            PROVE  Low <= e.at
        <5>1. e.at \in Int
          BY DEF WalkOK, LookedUp!LookupsAssumption
        <5> QED BY <1>2, <3>1, <4>2, <5>1
      <4> QED BY <4>1, <4>2 DEF Newer
    <3>5. PICK c \in Nat : c = Cardinality(Newer(d)) /\ place[d] = c + 1
      <4>1. IsFiniteSet(Newer(d))
        BY <2>4, <3>4, FS_Subset
      <4> QED BY <3>3, <3>4, <4>1, FS_CardinalityType
    <3>6. LookedUp!Blacked(d) \in walk.seen \/ before <= c
      <4>1. CASE page = 1
        BY <2>5, <4>1
      <4>2. CASE page > 1
        <5>1. Due(d)
          <6>1. walk.lo <= d.at
            BY <1>2, <2>3, <3>1, <4>2
          <6>2. d.at <= walk.hi
            BY <2>3, <2>6, <4>2 DEF Due
          <6> QED BY <3>1, <6>1, <6>2 DEF Due
        <5> QED BY <1>1, <2>5, <3>5, <4>2, <5>1 DEF OnTheWay
      <4> QED BY <1>1, <4>1, <4>2
    <3>7. CASE c + 1 <= upto /\ before <= c
      <4>1. before < place[d] /\ place[d] <= upto
        BY <3>5, <3>7
      <4>2. LookedUp!Blacked(d) \in hits
        BY <2>5, <3>1, <3>2, <4>1
      <4> QED BY <4>2
    <3>8. CASE ~ c + 1 <= upto
      <4>1. upto <= c /\ c < total
        BY <2>4, <3>3, <3>5, <3>8
      <4>2. upto <= Cardinality(Newer(d)) /\ upto < total
        BY <2>4, <3>5, <4>1
      <4> HIDE DEF hits, total
      <4> QED BY <4>2
    <3> HIDE DEF hits, total
    <3> QED BY <3>6, <3>7, <3>8
  <2>7. \A d \in walk.seen \cup hits : d.tenant = "t1" /\ ~d.typed
    <3>1. \A d \in walk.seen : d.tenant = "t1" /\ ~d.typed
      BY DEF WalkOK, LookedUp!WalkTrue
    <3>2. ASSUME NEW d \in Mine
          PROVE  LookedUp!Blacked(d).tenant = "t1" /\ ~LookedUp!Blacked(d).typed
      <4>1. d.tenant = "t1" /\ d \in [at : Int, tenant : STRING, decodes : BOOLEAN, typed : BOOLEAN]
        BY <2>4 DEF WalkOK, LookedUp!LookupsAssumption, Mine, LookedUp!Matching
      <4> QED BY <4>1 DEF LookedUp!Blacked
    <3> QED BY <3>1, <3>2
  <2>8. LookedUp!WalkTrue'
    <3> HIDE DEF hits, total
    <3>1. ASSUME walk'.status = "done", NEW d \in walk'.start, d.tenant = "t1", d.decodes, walk'.lo <= d.at, d.at <= walk'.hi, LookedUp!Alone(d)'
          PROVE  LookedUp!Blacked(d) \in walk'.seen
      <4>1. Due(d)' /\ d \in walk.start
        BY <2>2, <3>1 DEF Due
      <4>2. ~ upto < total
        BY <2>2, <2>4, <2>5, <3>1
      <4> QED BY <2>2, <2>6, <4>1, <4>2
    <3>2. \A d : LookedUp!Blacked(d)' = LookedUp!Blacked(d)
      BY DEF LookedUp!Blacked
    <3> QED BY <2>2, <2>7, <3>1, <3>2 DEF LookedUp!WalkTrue
  <2>9. ASSUME walk'.status = "on"
        PROVE  OnTheWay'
    <3> HIDE DEF hits, total
    <3>1. /\ walk'.q.page = page + 1 /\ walk'.q.size = Size
          /\ walk'.q.from \in Nat \cup {LookedUp!Absent} /\ walk'.q.to \in Nat \cup {LookedUp!Absent}
      BY <1>1, <2>2 DEF OnTheWay
    <3>2. ASSUME NEW d \in walk'.start, Due(d)'
          PROVE  LookedUp!Blacked(d) \in walk'.seen \/ (walk'.q.page - 1) * Size <= Cardinality(Newer(d))'
      <4>1. d \in walk.start
        BY <2>2
      <4>2. Newer(d)' = Newer(d)
        BY <1>1, <2>3 DEF Newer
      <4>3. walk'.q.page - 1 = page
        BY <1>1, <3>1
      <4> QED BY <2>2, <2>5, <2>6, <3>2, <4>1, <4>2, <4>3
    <3>3. \A d : LookedUp!Blacked(d)' = LookedUp!Blacked(d)
      BY DEF LookedUp!Blacked
    <3>4. walk'.q.page \in Nat \ {0} /\ walk'.q.page # 1
      BY <1>1, <3>1
    <3>5. /\ walk'.lo \in Int /\ walk'.hi \in Nat /\ walk'.lo <= Low' /\ walk'.hi <= High'
      BY <1>2, <2>2, <2>3
    <3> QED BY <3>1, <3>2, <3>3, <3>4, <3>5 DEF OnTheWay, LookedUp!Absent
  <2> HIDE DEF hits, total
  <2> QED BY <1>1, <2>2, <2>8, <2>9 DEF WalkOK
<1> QED BY <1>3, <1>4, <1>5

\* Whatever else happens leaves the walk, the clock and the documents.
LEMMA LeavesWalk ==
    ASSUME LookedUp!LookupsNext,
           ~ LookedUp!Tick, ~ LookedUp!NextPage, \A d \in Docs : ~ LookedUp!DocArrives(d),
           \A from \in {LookedUp!Absent, 0, 1}, to \in {LookedUp!Absent, 2} : ~ LookedUp!WalkStarts(from, to)
    PROVE  UNCHANGED <<walk, clock, docs>>
<1>1. ASSUME NEW r \in Readers,
             \/ LookedUp!GetCached(r) \/ LookedUp!FlagGet(r) \/ LookedUp!MetaGet(r) \/ LookedUp!GetEndpointMetadata(r)
             \/ LookedUp!Store(r) \/ LookedUp!ReadFails(r) \/ LookedUp!ShouldOCR(r) \/ LookedUp!ModuleState(r)
             \/ LookedUp!FetchAndStore(r)
      PROVE  UNCHANGED <<walk, clock, docs>>
  BY <1>1 DEF LookedUp!GetCached, LookedUp!FlagGet, LookedUp!MetaGet, LookedUp!GetEndpointMetadata, LookedUp!Store,
              LookedUp!ReadFails, LookedUp!ShouldOCR, LookedUp!ModuleState, LookedUp!FetchAndStore, LookedUp!Lookup,
              LookedUp!Fetch, LookedUp!restOfFlags
<1>2. ASSUME LookedUp!Changes
      PROVE  UNCHANGED <<walk, clock, docs>>
  BY <1>2 DEF LookedUp!Changes, LookedUp!restOfFlags
<1>3. ASSUME NEW a \in Setters,
             \/ \E new \in {0, made + 2} : LookedUp!Set(a, new)
             \/ LookedUp!Audit(a) \/ LookedUp!Upsert(a) \/ LookedUp!Invalidate(a) \/ LookedUp!SetFails(a)
      PROVE  UNCHANGED <<walk, clock, docs>>
  BY <1>3 DEF LookedUp!Set, LookedUp!Audit, LookedUp!Upsert, LookedUp!Invalidate, LookedUp!SetFails,
              LookedUp!SetterStep, LookedUp!restOfFlags
<1> QED BY <1>1, <1>2, <1>3 DEF LookedUp!LookupsNext

LEMMA NextWalk == ASSUME LookedUp!LookupsAssumption, WalkOK, [LookedUp!LookupsNext]_LookedUp!lookupVars PROVE WalkOK'
<1>1. /\ clock \in Nat /\ docs \subseteq Docs /\ IsFiniteSet(docs)
  BY DEF WalkOK
<1>2. ASSUME UNCHANGED <<walk, clock, docs>>
      PROVE  WalkOK'
  BY <1>1, <1>2, WaitStep
<1>3. CASE LookedUp!Tick
  BY <1>1, <1>3, WaitStep DEF LookedUp!Tick
<1>4. CASE LookedUp!NextPage
  BY <1>4, PageStep
<1>5. ASSUME NEW d \in Docs, LookedUp!DocArrives(d)
      PROVE  WalkOK'
  <2>1. UNCHANGED <<walk, clock>> /\ docs' = docs \cup {d}
    BY <1>5 DEF LookedUp!DocArrives
  <2>2. IsFiniteSet(docs') /\ docs' \subseteq Docs /\ docs \subseteq docs'
    BY <1>1, <2>1, FS_AddElement
  <2> QED BY <1>1, <2>1, <2>2, WaitStep
<1>6. ASSUME NEW from \in {LookedUp!Absent, 0, 1}, NEW to \in {LookedUp!Absent, 2}, LookedUp!WalkStarts(from, to)
      PROVE  WalkOK'
  BY <1>6, StartStep
<1>7. CASE UNCHANGED LookedUp!lookupVars
  BY <1>2, <1>7 DEF LookedUp!lookupVars
<1> QED BY <1>2, <1>3, <1>4, <1>5, <1>6, <1>7, LeavesWalk

\* LookupsTrue: whatever goroutines read at once, and however changes, invalidations and
\* refreshes fall between their steps, an answer taken for fresh was true no longer ago
\* than the entry's time and the slowest read (getCached, metaCache.get, ShouldOCR); what a
\* flag became was in the audit log before, and a stale entry was read before the change or
\* is about to be dropped (Set, invalidate); a walk that came to its end has seen all that
\* was there, alone at its instant, when it began (SearchAudit, SearchEvents); the rules of
\* evaluate and of validateCommon hold of every flag and every search.
THEOREM LookupsHold ==
    ASSUME LookedUp!LookupsAssumption
    PROVE  LookedUp!LookupsSpec => []LookedUp!LookupsTrue
<1>1. LookInv /\ WalkOK => LookedUp!LookupsTrue
  <2>1. LookInv => LookedUp!NeverTooOld /\ LookedUp!ChangesSeen
    BY DEF LookInv
  <2>2. WalkOK => LookedUp!WalkTrue /\ clock \in Nat
    BY DEF WalkOK
  <2> QED BY <2>1, <2>2, FlagRules, SearchRules DEF LookedUp!LookupsTrue
<1>2. LookedUp!LookupsInit => LookInv /\ WalkOK
  BY InitLook, InitWalk
<1>3. LookInv /\ WalkOK /\ [LookedUp!LookupsNext]_LookedUp!lookupVars => LookInv' /\ WalkOK'
  BY NextLook, NextWalk
<1> QED BY <1>1, <1>2, <1>3, PTL DEF LookedUp!LookupsSpec


-----------------------------------------------------------------------------
(* The export of a report, from its rendering to its link. *)

CONSTANTS Samples, MaxEvents, Hours, Span, ReportLookback, ChDays, PgDays, RowCap, Week,
    BaselineDays, HistoryMin, WindowMin, WindowMax, TrendDays, Metric, Exporters, MaxExportFaults
VARIABLES kind, now, events, ch, daily, shownPage, exports, bucket, puts, exportFaults

Reported == INSTANCE Reports WITH Lookback <- ReportLookback, MaxFaults <- MaxExportFaults,
    page <- shownPage, faults <- exportFaults

Export == [step : {"idle", "put", "presign", "linked", "failed"},
           key : {<<>>} \cup ({"t1", "t2"} \X {"top_apps", "trend"} \X Int), data : Nat]

\* What is in the bucket under a key was put there by an export of that key, which
\* has its link, waits for it or failed to get it; and what waits has its file there.
Stored(k) == \E x \in Exporters :
    exports[x].step \in {"presign", "linked", "failed"} /\ exports[x].key = k /\ exports[x].data = bucket[k]

FilesOK ==
    /\ exports \in [Exporters -> Export] /\ puts \in Nat /\ now \in Int
    /\ \A x \in Exporters : exports[x].step \in {"presign", "linked"} => exports[x].key \in DOMAIN bucket
    /\ \A k \in DOMAIN bucket : Stored(k)

LEMMA InitFiles == ASSUME Span \in Int, Week \in Int, Reported!ReportsInit PROVE FilesOK
<1>1. /\ kind \in {"events", "trend", "page", "export"}
      /\ now = CASE kind = "events" -> Span [] kind = "page" -> Week + 1 [] OTHER -> 0
      /\ exports = [x \in Exporters |-> Reported!NoExport] /\ bucket = <<>> /\ puts = 0
  BY Zenon DEF Reported!ReportsInit
<1>2. now \in Int
  <2>1. CASE kind = "events"
    BY <1>1, <2>1
  <2>2. CASE kind = "page"
    BY <1>1, <2>2
  <2>3. CASE kind \notin {"events", "page"}
    BY <1>1, <2>3
  <2> QED BY <2>1, <2>2, <2>3
<1>3. Reported!NoExport \in Export /\ Reported!NoExport.step = "idle"
  BY DEF Reported!NoExport, Export
<1>4. DOMAIN bucket = {}
  BY <1>1
<1>5. puts \in Nat
  BY <1>1
<1>6. exports \in [Exporters -> Export]
  BY <1>1, <1>3
<1> QED BY <1>1, <1>2, <1>3, <1>4, <1>5, <1>6 DEF FilesOK

LEMMA StepFiles ==
    ASSUME FilesOK, NEW x \in Exporters, NEW e \in Export, exports' = [exports EXCEPT ![x] = e],
           now' \in Int, puts' \in Nat, UNCHANGED bucket,
           exports[x].step = "idle" \/ (e.key = exports[x].key /\ e.data = exports[x].data),
           exports[x].step \in {"idle", "put", "presign"},
           exports[x].step = "presign" => e.step \in {"presign", "linked", "failed"},
           exports[x].step # "presign" => e.step \in {"put", "failed"}
    PROVE  FilesOK'
<1>1. exports' \in [Exporters -> Export]
  BY DEF FilesOK
<1>2. ASSUME NEW y \in Exporters, exports'[y].step \in {"presign", "linked"}
      PROVE  exports'[y].key \in DOMAIN bucket'
  BY <1>2 DEF FilesOK
<1>3. ASSUME NEW k \in DOMAIN bucket'
      PROVE  Stored(k)'
  <2>1. PICK y \in Exporters :
          exports[y].step \in {"presign", "linked", "failed"} /\ exports[y].key = k /\ exports[y].data = bucket[k]
    BY <1>3 DEF FilesOK, Stored
  <2>2. exports'[y].step \in {"presign", "linked", "failed"} /\ exports'[y].key = k /\ exports'[y].data = bucket[k]
    BY <2>1 DEF FilesOK
  <2> QED BY <2>2 DEF Stored
<1> QED BY <1>1, <1>2, <1>3 DEF FilesOK

LEMMA PutFiles == ASSUME FilesOK, NEW x \in Exporters, Reported!Put(x) PROVE FilesOK'
<1> DEFINE key == exports[x].key
<1>1. /\ exports[x].step = "put" /\ UNCHANGED <<now, puts>>
      /\ DOMAIN bucket' = DOMAIN bucket \cup {key}
      /\ bucket'[key] = exports[x].data
      /\ \A k \in DOMAIN bucket : k # key => bucket'[k] = bucket[k]
      /\ exports' = [exports EXCEPT ![x].step = "presign"]
  BY DEF Reported!Put
<1>2. exports' \in [Exporters -> Export]
  BY <1>1 DEF FilesOK, Export
<1>3. /\ exports'[x].step = "presign" /\ exports'[x].key = key /\ exports'[x].data = exports[x].data
      /\ \A y \in Exporters : y # x => exports'[y] = exports[y]
  BY <1>1 DEF FilesOK, Export
<1>4. ASSUME NEW y \in Exporters, exports'[y].step \in {"presign", "linked"}
      PROVE  exports'[y].key \in DOMAIN bucket'
  BY <1>1, <1>3, <1>4 DEF FilesOK
<1>5. ASSUME NEW k \in DOMAIN bucket'
      PROVE  Stored(k)'
  <2>1. CASE k = key
    BY <1>1, <1>3, <2>1 DEF Stored
  <2>2. CASE k # key
    <3>1. PICK y \in Exporters :
            exports[y].step \in {"presign", "linked", "failed"} /\ exports[y].key = k /\ exports[y].data = bucket[k]
      BY <1>1, <1>5, <2>2 DEF FilesOK, Stored
    <3>2. y # x /\ bucket'[k] = bucket[k]
      BY <1>1, <1>5, <2>2, <3>1
    <3> QED BY <1>3, <3>1, <3>2 DEF Stored
  <2> QED BY <2>1, <2>2
<1> QED BY <1>1, <1>2, <1>4, <1>5 DEF FilesOK

LEMMA NextFiles == ASSUME FilesOK, [Reported!ReportsNext]_Reported!reportVars PROVE FilesOK'
<1>1. ASSUME UNCHANGED <<exports, bucket, puts>>, now' \in Int
      PROVE  FilesOK'
  BY <1>1 DEF FilesOK, Stored
<1>2. now \in Int /\ now + 1 \in Int
  BY DEF FilesOK
<1>3. ASSUME NEW e \in Samples, Reported!Arrives(e) PROVE FilesOK'
  BY <1>1, <1>2, <1>3 DEF Reported!Arrives
<1>4. ASSUME NEW row, Reported!DayEnds(row) PROVE FilesOK'
  BY <1>1, <1>2, <1>4 DEF Reported!DayEnds
<1>5. CASE Reported!ReadProfile \/ Reported!ReadToday \/ Reported!ReadHours \/ Reported!ReadWeek \/ Reported!ReadEndpoints
  <2>1. UNCHANGED <<now, exports, bucket, puts>>
    BY <1>5 DEF Reported!ReadProfile, Reported!ReadToday, Reported!ReadHours, Reported!ReadWeek, Reported!ReadEndpoints,
                Reported!PageStep
  <2> QED BY <1>1, <1>2, <2>1
<1>6. ASSUME NEW d, NEW v, Reported!RollUp(d, v) PROVE FilesOK'
  BY <1>1, <1>2, <1>6 DEF Reported!RollUp
<1>7. ASSUME NEW x \in Exporters, NEW tenant \in {"t1", "t2"}, NEW type \in {"top_apps", "trend"}, Reported!Render(x, tenant, type)
      PROVE  FilesOK'
  <2> DEFINE e == [step |-> "put", key |-> <<tenant, type, now>>, data |-> puts + 1]
  <2>1. /\ exports[x].step = "idle" /\ puts' = puts + 1 /\ exports' = [exports EXCEPT ![x] = e] /\ UNCHANGED <<now, bucket>>
    BY <1>7 DEF Reported!Render
  <2>2. e \in Export /\ e.step = "put" /\ puts + 1 \in Nat
    BY <1>2 DEF Export, FilesOK
  <2> HIDE DEF e
  <2> QED BY <1>2, <2>1, <2>2, StepFiles
<1>8. ASSUME NEW x \in Exporters, NEW s \in {"failed", "linked"}, exports' = [exports EXCEPT ![x].step = s],
             UNCHANGED <<now, bucket, puts>>, exports[x].step \in {"idle", "put", "presign"},
             s = "linked" => exports[x].step = "presign"
      PROVE  FilesOK'
  <2> DEFINE e == [exports[x] EXCEPT !.step = s]
  <2>1. exports[x] \in Export /\ puts \in Nat
    BY DEF FilesOK
  <2>2. e \in Export /\ e.step = s /\ e.key = exports[x].key /\ e.data = exports[x].data
    BY <2>1 DEF Export
  <2>3. exports' = [exports EXCEPT ![x] = e]
    BY <1>8
  <2> HIDE DEF e
  <2> QED BY <1>2, <1>8, <2>1, <2>2, <2>3, StepFiles
<1>9. ASSUME NEW x \in Exporters, Reported!Refused(x) \/ Reported!MinioFails(x) \/ Reported!Presign(x) PROVE FilesOK'
  <2>1. /\ UNCHANGED <<now, bucket, puts>>
        /\ \/ exports[x].step \in {"idle", "put", "presign"} /\ exports' = [exports EXCEPT ![x].step = "failed"]
           \/ exports[x].step = "presign" /\ exports' = [exports EXCEPT ![x].step = "linked"]
    BY <1>9 DEF Reported!Refused, Reported!MinioFails, Reported!Presign
  <2> QED BY <1>8, <2>1
<1>10. CASE Reported!SecondPasses
  BY <1>1, <1>2, <1>10 DEF Reported!SecondPasses
<1>11. CASE UNCHANGED Reported!reportVars
  BY <1>1, <1>2, <1>11 DEF Reported!reportVars
<1> QED BY <1>3, <1>4, <1>5, <1>6, <1>7, <1>9, <1>10, <1>11, PutFiles DEF Reported!ReportsNext

\* A link of an export leads to the file it was given for, unless another of the same
\* tenant and report was put in the same second, whose key is the same; and never to
\* another tenant's (Exporter.Export: render, MinIO's put, the presigned link): for any
\* number of exports at once, any renderings that fail and any second.
THEOREM ExportsHold ==
    ASSUME Span \in Int, Week \in Int
    PROVE  Reported!ReportsSpec => []Reported!ExportTrue
<1>1. FilesOK => Reported!ExportTrue
  <2> SUFFICES ASSUME FilesOK, NEW x \in Exporters, exports[x].step = "linked"
               PROVE  /\ exports[x].key \in DOMAIN bucket
                      /\ \/ bucket[exports[x].key] = exports[x].data
                         \/ \E y \in Exporters \ {x} :
                               exports[y].key = exports[x].key /\ bucket[exports[x].key] = exports[y].data
    BY DEF Reported!ExportTrue
  <2>1. exports[x].key \in DOMAIN bucket /\ Stored(exports[x].key)
    BY DEF FilesOK
  <2> QED BY <2>1 DEF Stored
<1> QED BY <1>1, InitFiles, NextFiles, PTL DEF Reported!ReportsSpec
=============================================================================
