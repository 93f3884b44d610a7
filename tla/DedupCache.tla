----------------------------- MODULE DedupCache -----------------------------
(***************************************************************************)
(* The enricher's cache of recent event hashes                             *)
(* (gateway/internal/enricher/dedup.go): a map from a hash to the instant  *)
(* it was recorded, and a list of hashes that says what to evict first.    *)
(* Every operation holds the one mutex, so each is one step.               *)
(***************************************************************************)
EXTENDS Integers, Sequences, FiniteSets, Functions

CONSTANTS
    Keys,       \* canonical hashes
    Capacity,   \* d.capacity
    Ttl,        \* d.ttl, in ticks of the clock
    MaxTime     \* bound: the clock

ASSUME DedupAssumption ==
    /\ Capacity \in Nat \ {0}
    /\ Ttl \in Nat \ {0}
    /\ MaxTime \in Nat

VARIABLES
    seen,       \* d.seen
    order,      \* d.order
    now,        \* the clock
    swept,      \* when the sweeper last ran
    reinserts   \* history: hashes recorded again before the sweeper took them

vars == <<seen, order, now, swept, reinserts>>

NoEntries == [k \in {} |-> 0]
Fresh(k) == k \in DOMAIN seen /\ now - seen[k] <= Ttl

Init ==
    /\ seen = NoEntries
    /\ order = <<>>
    /\ now = 0
    /\ swept = 0
    /\ reinserts = 0

\* What is left of the map after the FIFO eviction that makes room.
Full == Cardinality(DOMAIN seen) >= Capacity /\ order # <<>>
Evicted == IF Full THEN {Head(order)} ELSE {}

\* Mutant: the victim leaves the map but stays on the list.
MissKeepsPlace(k) ==
    /\ ~Fresh(k)
    /\ seen' = [j \in (DOMAIN seen \ Evicted) \cup {k} |-> IF j = k THEN now ELSE seen[j]]
    /\ order' = Append(order, k)
    /\ reinserts' = IF k \in DOMAIN seen THEN reinserts + 1 ELSE reinserts
    /\ UNCHANGED <<now, swept>>

\* Seen(k) answers FALSE: k is not there, or too old and not swept yet.
Miss(k) ==
    /\ ~Fresh(k)
    /\ seen' = [j \in (DOMAIN seen \ Evicted) \cup {k} |-> IF j = k THEN now ELSE seen[j]]
    /\ order' = Append(IF Full THEN Tail(order) ELSE order, k)
    /\ reinserts' = IF k \in DOMAIN seen THEN reinserts + 1 ELSE reinserts
    /\ UNCHANGED <<now, swept>>

\* Seen(k) answers TRUE.
Hit(k) ==
    /\ Fresh(k)
    /\ UNCHANGED vars

\* sweepLoop: the ticker fires every Ttl / 2.
SweepEvery == IF Ttl \div 2 = 0 THEN 1 ELSE Ttl \div 2

\* The first n places of the list, and the hashes at them, are dropped.
DropHead(n) ==
    /\ now - swept >= SweepEvery
    /\ seen' = Restrict(seen, DOMAIN seen \ {order[i] : i \in 1 .. n})
    /\ order' = SubSeq(order, n + 1, Len(order))
    /\ swept' = now
    /\ UNCHANGED <<now, reinserts>>

\* Mutant: the sweep stops one hash early.
SweepShort ==
    \E n \in 0 .. Len(order) :
        /\ \A i \in 1 .. n : ~Fresh(order[i])
        /\ n < Len(order) => Fresh(order[n + 1])
        /\ DropHead(IF n = 0 THEN 0 ELSE n - 1)

\* sweep: drops the head of the list up to the first hash that is fresh.
Sweep ==
    \E n \in 0 .. Len(order) :
        /\ \A i \in 1 .. n : ~Fresh(order[i])
        /\ n < Len(order) => Fresh(order[n + 1])
        /\ DropHead(n)

Tick ==
    /\ now < MaxTime
    /\ now - swept < SweepEvery
    /\ now' = now + 1
    /\ UNCHANGED <<seen, order, swept, reinserts>>

Next ==
    \/ \E k \in Keys : Miss(k) \/ Hit(k)
    \/ Sweep
    \/ Tick

Spec == Init /\ [][Next]_vars

-----------------------------------------------------------------------------
(* Properties *)

\* Every variable stays in its type.
TypeOK ==
    /\ DOMAIN seen \subseteq Keys
    /\ seen \in [DOMAIN seen -> 0 .. now]
    /\ order \in Seq(Keys)
    /\ now \in Nat
    /\ swept \in 0 .. now
    /\ reinserts \in Nat

\* Nothing stays in the map for ever: every hash in it is also in the list, so
\* the sweeper or an eviction gets to it.
Evictable == \A k \in DOMAIN seen : \E i \in 1 .. Len(order) : order[i] = k

\* The memory bound: every hash recorded again before its sweep can cost one
\* entry above the capacity, and nothing else can.
OrderBounded == Len(order) <= Capacity + reinserts

\* A hash younger than the TTL is only forgotten to make room.
FreshKept == \A k \in Keys : Fresh(k) /\ k \notin DOMAIN seen' => Full

\* Only a hash recorded again before its sweep keeps others longer than one
\* sweep beyond their TTL: its first place in the list, now fresh, stops the sweep.
LateOnlyAfterReinsert ==
    reinserts = 0 => \A k \in DOMAIN seen : now - seen[k] <= Ttl + SweepEvery

\* When Deduper forgets a hash: not before its TTL but to make room, and not later
\* than a sweep after it but behind one recorded again.
ForgetsOnTime == [][FreshKept /\ LateOnlyAfterReinsert']_vars
=============================================================================
