-------------------------- MODULE DedupCacheProofs --------------------------
(***************************************************************************)
(* For any set of hashes, capacity and TTL: whatever is in the dedup map   *)
(* can be evicted, the eviction list is bounded by the capacity plus the   *)
(* hashes recorded again before their sweep, and without one of those the  *)
(* list is in the order of time, so that a sweep takes all that is stale.  *)
(* For any messages and replays: no dead letter is gone by a replay.       *)
(* For any licences, callers and failures: the rows kept of people, the    *)
(* ticket and the licence tell what their logs and files do.               *)
(***************************************************************************)
EXTENDS MCPipeline, FiniteSetTheorems, SequenceTheorems, WellFoundedInduction, TLAPS

\* Every cached hash has at least one place on the list, so the list is at
\* least as long as the map is large; the surplus is at most one place for
\* every hash recorded again.
Surplus ==
    /\ IsFiniteSet(DOMAIN seen)
    /\ Cardinality(DOMAIN seen) \in Nat
    /\ Len(order) <= Cardinality(DOMAIN seen) + reinserts

IInv == TypeOK /\ Evictable /\ Surplus /\ OrderBounded

\* The initial state satisfies the invariant.
LEMMA InitIInv == Init => IInv
  BY DedupAssumption, FS_EmptySet
  DEF Init, IInv, TypeOK, Evictable, Surplus, OrderBounded, NoEntries

\* What recording a hash does to the list.
LEMMA MissOrder ==
  ASSUME TypeOK, Evictable, NEW k \in Keys, Miss(k)
  PROVE  /\ order' \in Seq(Keys)
         /\ Len(order') = IF Full THEN Len(order) ELSE Len(order) + 1
         /\ order'[Len(order')] = k
         /\ \A i \in 1 .. Len(order) : ~Full => order'[i] = order[i]
         /\ \A i \in 2 .. Len(order) : Full => order'[i - 1] = order[i]
  <1>1. CASE Full
    BY <1>1 DEF Miss, Full, TypeOK
  <1>2. CASE ~Full
    BY <1>2 DEF Miss, TypeOK
  <1> QED BY <1>1, <1>2

\* What a sweep of n places does to the list.
LEMMA SweepOrder ==
  ASSUME TypeOK, NEW n \in 0 .. Len(order), DropHead(n)
  PROVE  /\ order' \in Seq(Keys)
         /\ Len(order') = Len(order) - n
         /\ \A i \in (n + 1) .. Len(order) : order'[i - n] = order[i]
  BY DEF DropHead, TypeOK

\* Recording a hash keeps every cached hash on the list.
LEMMA MissEvictable ==
  ASSUME TypeOK, Evictable, NEW k \in Keys, Miss(k)
  PROVE  Evictable'
  <1>1. SUFFICES ASSUME NEW j \in DOMAIN seen'
                 PROVE  \E i \in 1 .. Len(order') : order'[i] = j
    BY DEF Evictable
  <1>2. Len(order) \in Nat
    BY DEF TypeOK
  <1>3. CASE j = k
    BY <1>2, <1>3, MissOrder DEF Full
  <1>4. CASE j # k
    <2>1. j \in DOMAIN seen \ Evicted
      BY <1>4 DEF Miss
    <2>2. PICK i \in 1 .. Len(order) : order[i] = j
      BY <2>1 DEF Evictable
    <2>3. CASE Full
      <3>1. i # 1
        BY <2>1, <2>2, <2>3 DEF Evicted, Full, TypeOK
      <3>2. i - 1 \in 1 .. Len(order') /\ order'[i - 1] = j
        BY <1>2, <2>2, <2>3, <3>1, MissOrder
      <3> QED BY <3>2
    <2>4. CASE ~Full
      BY <1>2, <2>2, <2>4, MissOrder
    <2> QED BY <2>3, <2>4
  <1> QED BY <1>3, <1>4

\* A sweep keeps every cached hash on the list.
LEMMA SweepEvictable ==
  ASSUME TypeOK, Evictable, NEW n \in 0 .. Len(order), DropHead(n)
  PROVE  Evictable'
  <1>1. SUFFICES ASSUME NEW j \in DOMAIN seen'
                 PROVE  \E i \in 1 .. Len(order') : order'[i] = j
    BY DEF Evictable
  <1>2. j \in DOMAIN seen /\ j \notin {order[i] : i \in 1 .. n}
    BY DEF DropHead, Restrict
  <1>3. PICK i \in 1 .. Len(order) : order[i] = j
    BY <1>2 DEF Evictable
  <1>4. Len(order) \in Nat /\ i > n
    BY <1>2, <1>3 DEF TypeOK
  <1>5. i - n \in 1 .. Len(order') /\ order'[i - n] = j
    BY <1>3, <1>4, SweepOrder
  <1> QED BY <1>5

\* Recording a hash keeps the surplus and the bound.
LEMMA MissBounded ==
  ASSUME IInv, NEW k \in Keys, Miss(k)
  PROVE  Surplus' /\ OrderBounded'
  <1> DEFINE D == DOMAIN seen
  <1>1. /\ Len(order) \in Nat
        /\ reinserts \in Nat
        /\ Capacity \in Nat \ {0}
        /\ IsFiniteSet(D)
        /\ Cardinality(D) \in Nat
        /\ Len(order) <= Cardinality(D) + reinserts
        /\ Len(order) <= Capacity + reinserts
    BY DedupAssumption DEF IInv, TypeOK, Surplus, OrderBounded
  <1>2. DOMAIN seen' = (D \ Evicted) \cup {k}
    BY DEF Miss
  <1>3. reinserts' = IF k \in D THEN reinserts + 1 ELSE reinserts
    BY DEF Miss
  <1>4. Len(order') = IF Full THEN Len(order) ELSE Len(order) + 1
    BY MissOrder DEF IInv
  <1> HIDE DEF D
  <1>5. CASE Full
    <2>1. Evicted = {Head(order)}
      BY <1>5 DEF Evicted
    <2>2. /\ IsFiniteSet(D \ Evicted)
          /\ Cardinality(D \ Evicted) =
               IF Head(order) \in D THEN Cardinality(D) - 1 ELSE Cardinality(D)
      BY <1>1, <2>1, FS_RemoveElement
    <2>3. /\ IsFiniteSet(DOMAIN seen')
          /\ Cardinality(DOMAIN seen') =
               IF k \in D \ Evicted THEN Cardinality(D \ Evicted)
                                    ELSE Cardinality(D \ Evicted) + 1
      BY <1>2, <2>2, FS_AddElement
    <2>4. Cardinality(D) >= Capacity
      BY <1>5 DEF Full, D
    <2>5. Len(order') = Len(order)
      BY <1>4, <1>5
    <2>6. Cardinality(D \ Evicted) \in Nat
      BY <1>1, <2>2, <2>4
    <2>7. Cardinality(D) + reinserts <= Cardinality(DOMAIN seen') + reinserts'
      <3>1. CASE k \in D \ Evicted
        BY <1>1, <1>3, <2>2, <2>3, <2>6, <3>1
      <3>2. CASE k \notin D \ Evicted
        BY <1>1, <1>3, <2>2, <2>3, <2>6, <3>2
      <3> QED BY <3>1, <3>2
    <2>8. Cardinality(DOMAIN seen') \in Nat /\ reinserts' \in Nat
      BY <1>1, <1>3, <2>3, <2>6
    <2>9. Len(order') <= Cardinality(DOMAIN seen') + reinserts'
      BY <1>1, <2>5, <2>7, <2>8
    <2>10. Len(order') <= Capacity + reinserts'
      BY <1>1, <1>3, <2>5
    <2> QED BY <2>3, <2>8, <2>9, <2>10 DEF Surplus, OrderBounded
  <1>6. CASE ~Full
    <2>1. DOMAIN seen' = D \cup {k}
      BY <1>2, <1>6 DEF Evicted
    <2>2. /\ IsFiniteSet(DOMAIN seen')
          /\ Cardinality(DOMAIN seen') =
               IF k \in D THEN Cardinality(D) ELSE Cardinality(D) + 1
      <3>1. IsFiniteSet(D)
        BY <1>1
      <3>2. /\ IsFiniteSet(D \cup {k})
            /\ Cardinality(D \cup {k}) = IF k \in D THEN Cardinality(D) ELSE Cardinality(D) + 1
        BY <3>1, FS_AddElement
      <3> QED BY <2>1, <3>2
    <2>3. Cardinality(DOMAIN seen') \in Nat /\ reinserts' \in Nat
      BY <1>1, <1>3, <2>2
    <2>4. Len(order') <= Cardinality(DOMAIN seen') + reinserts'
      BY <1>1, <1>3, <1>4, <1>6, <2>2
    <2>5. Len(order') <= Capacity + reinserts'
      <3>1. CASE order = <<>>
        BY <1>1, <1>3, <1>4, <1>6, <3>1
      <3>2. CASE Cardinality(D) < Capacity
        BY <1>1, <1>3, <1>4, <1>6, <3>2
      <3> QED BY <1>1, <1>6, <3>1, <3>2 DEF Full, D
    <2> QED BY <2>2, <2>3, <2>4, <2>5 DEF Surplus, OrderBounded
  <1> QED BY <1>5, <1>6

\* The n places a sweep drops hold at most n hashes.
LEMMA DroppedBound ==
  ASSUME NEW n \in Nat
  PROVE  /\ IsFiniteSet({order[i] : i \in 1 .. n})
         /\ Cardinality({order[i] : i \in 1 .. n}) <= n
  <1> DEFINE S == {order[i] : i \in 1 .. n}
             f == [i \in 1 .. n |-> order[i]]
  <1>1. f \in Surjection(1 .. n, S)
    BY DEF Surjection
  <1>2. IsFiniteSet(1 .. n) /\ Cardinality(1 .. n) = n
    BY FS_Interval
  <1> HIDE DEF f, S
  <1>3. IsFiniteSet(S) /\ Cardinality(S) <= n
    BY <1>1, <1>2, FS_Surjection
  <1> QED BY <1>3 DEF S

\* A sweep keeps the surplus and the bound: it drops at least as many places
\* as hashes.
LEMMA SweepBounded ==
  ASSUME IInv, NEW n \in 0 .. Len(order), DropHead(n)
  PROVE  Surplus' /\ OrderBounded'
  <1> DEFINE D == DOMAIN seen
             S == {order[i] : i \in 1 .. n}
             T == D \cap S
  <1>1. /\ Len(order) \in Nat
        /\ n \in Nat
        /\ reinserts \in Nat
        /\ Capacity \in Nat \ {0}
        /\ IsFiniteSet(D)
        /\ Cardinality(D) \in Nat
        /\ Len(order) <= Cardinality(D) + reinserts
        /\ Len(order) <= Capacity + reinserts
    BY DedupAssumption DEF IInv, TypeOK, Surplus, OrderBounded
  <1>2. DOMAIN seen' = D \ S /\ reinserts' = reinserts
    BY DEF DropHead, Restrict
  <1>3. Len(order') = Len(order) - n
    BY SweepOrder DEF IInv
  <1>4. IsFiniteSet(S) /\ Cardinality(S) <= n /\ Cardinality(S) \in Nat
    BY <1>1, DroppedBound, FS_CardinalityType
  <1> HIDE DEF D, S
  <1>5. IsFiniteSet(D \ S) /\ Cardinality(D \ S) \in Nat
    BY <1>1, FS_Subset, FS_CardinalityType
  <1>6. Cardinality(D \ S) = Cardinality(D) - Cardinality(T) /\ Cardinality(T) <= Cardinality(S)
        /\ Cardinality(T) \in Nat
    BY <1>1, <1>4, FS_Difference, FS_Subset, FS_CardinalityType
  <1>7. Len(order') <= Cardinality(D \ S) + reinserts'
    BY <1>1, <1>2, <1>3, <1>4, <1>5, <1>6
  <1>8. Len(order') <= Capacity + reinserts'
    BY <1>1, <1>2, <1>3
  <1> QED BY <1>2, <1>5, <1>7, <1>8 DEF Surplus, OrderBounded

\* Every step keeps the types.
LEMMA NextTypeOK == TypeOK /\ Evictable /\ [Next]_vars => TypeOK'
  <1> SUFFICES ASSUME TypeOK, Evictable, [Next]_vars
               PROVE  TypeOK'
    OBVIOUS
  <1>1. ASSUME NEW k \in Keys, Miss(k)
        PROVE  TypeOK'
    <2>1. order' \in Seq(Keys)
      BY <1>1, MissOrder
    <2>2. DOMAIN seen' \subseteq Keys /\ seen' \in [DOMAIN seen' -> 0 .. now']
      BY <1>1 DEF Miss, TypeOK
    <2> QED BY <1>1, <2>1, <2>2 DEF Miss, TypeOK
  <1>2. ASSUME NEW n \in 0 .. Len(order), DropHead(n)
        PROVE  TypeOK'
    <2>1. order' \in Seq(Keys)
      BY <1>2, SweepOrder
    <2>2. DOMAIN seen' \subseteq Keys /\ seen' \in [DOMAIN seen' -> 0 .. now']
      BY <1>2 DEF DropHead, TypeOK, Restrict
    <2> QED BY <1>2, <2>1, <2>2 DEF DropHead, TypeOK
  <1>3. CASE Tick
    BY <1>3 DEF Tick, TypeOK
  <1>4. CASE UNCHANGED vars
    BY <1>4 DEF vars, TypeOK
  <1> QED BY <1>1, <1>2, <1>3, <1>4 DEF Next, Hit, Sweep

\* Every step keeps the invariant.
LEMMA NextIInv == IInv /\ [Next]_vars => IInv'
  <1> SUFFICES ASSUME IInv, [Next]_vars
               PROVE  Evictable' /\ Surplus' /\ OrderBounded'
    BY NextTypeOK DEF IInv
  <1>1. ASSUME NEW k \in Keys, Miss(k)
        PROVE  Evictable' /\ Surplus' /\ OrderBounded'
    BY <1>1, MissEvictable, MissBounded DEF IInv
  <1>2. ASSUME NEW n \in 0 .. Len(order), DropHead(n)
        PROVE  Evictable' /\ Surplus' /\ OrderBounded'
    BY <1>2, SweepEvictable, SweepBounded DEF IInv
  <1>3. CASE Tick \/ UNCHANGED vars
    BY <1>3 DEF Tick, vars, IInv, Evictable, Surplus, OrderBounded
  <1> QED BY <1>1, <1>2, <1>3 DEF Next, Hit, Sweep

\* The state of the cache stays in its type, for any keys, capacity and TTL.
THEOREM Typed == Spec => []TypeOK
  <1>1. IInv => TypeOK
    BY DEF IInv
  <1> QED BY <1>1, InitIInv, NextIInv, PTL DEF Spec

\* Dedup never strands a hash: whatever is in the map, the sweeper or an
\* eviction gets to it.
THEOREM NothingStranded == Spec => []Evictable
  <1>1. IInv => Evictable
    BY DEF IInv
  <1> QED BY <1>1, InitIInv, NextIInv, PTL DEF Spec

\* The memory of the cache is bounded by its capacity and by the hashes
\* recorded again before the sweeper took them.
THEOREM MemoryBound == Spec => []OrderBounded
  <1>1. IInv => OrderBounded
    BY DEF IInv
  <1> QED BY <1>1, InitIInv, NextIInv, PTL DEF Spec

-----------------------------------------------------------------------------
(* When a hash is forgotten.  As long as none was recorded again before its  *)
(* sweep, the list has each cached hash once, the oldest first, so a sweep   *)
(* that stops at a fresh hash leaves no stale one behind.                    *)

Sorted ==
    /\ \A i, j \in 1 .. Len(order) : order[i] = order[j] => i = j
    /\ \A i \in 1 .. Len(order) : order[i] \in DOMAIN seen
    /\ \A i, j \in 1 .. Len(order) : i < j => seen[order[i]] <= seen[order[j]]

SweptClean == \A k \in DOMAIN seen : swept - seen[k] <= Ttl

InTime ==
    /\ now - swept <= SweepEvery
    /\ reinserts = 0 => Sorted /\ SweptClean

LEMMA SweepEveryType == SweepEvery \in Nat \ {0}
  BY DedupAssumption DEF SweepEvery

LEMMA InitInTime == Init => InTime
  BY DedupAssumption, SweepEveryType DEF Init, InTime, Sorted, SweptClean, NoEntries

\* A hash recorded for the first time is the youngest and goes to the end.
LEMMA MissInTime ==
  ASSUME IInv, InTime, NEW k \in Keys, Miss(k)
  PROVE  InTime'
  <1> DEFINE shift == IF Full THEN 1 ELSE 0
             L == Len(order')
  <1>1. now \in Nat /\ swept \in 0 .. now /\ Len(order) \in Nat /\ reinserts \in Nat
    BY DEF IInv, TypeOK
  <1>2. UNCHANGED <<now, swept>>
    BY DEF Miss
  <1>3. SUFFICES ASSUME reinserts' = 0
                 PROVE  Sorted' /\ SweptClean'
    BY <1>2 DEF InTime, SweepEvery
  <1>4. k \notin DOMAIN seen /\ reinserts = 0
    BY <1>1, <1>3 DEF Miss
  <1>5. Sorted /\ SweptClean
    BY <1>4 DEF InTime
  <1>6. /\ DOMAIN seen' = (DOMAIN seen \ Evicted) \cup {k}
        /\ seen'[k] = now
        /\ \A j \in DOMAIN seen \ Evicted : seen'[j] = seen[j]
    BY <1>4 DEF Miss
  <1>7. \A j \in DOMAIN seen : seen[j] \in 0 .. now
    BY DEF IInv, TypeOK
  <1>8. /\ L = Len(order) + 1 - shift /\ L \in Nat \ {0}
        /\ order'[L] = k
        /\ \A i \in 1 .. (L - 1) : i + shift \in 1 .. Len(order) /\ order'[i] = order[i + shift]
    <2>1. CASE Full
      <3>1. Len(order) \in Nat \ {0}
        BY <2>1 DEF Full, IInv, TypeOK
      <3>2. Len(order') = Len(order) /\ order'[Len(order')] = k
        BY <2>1, MissOrder DEF IInv
      <3>3. \A i \in 2 .. Len(order) : order'[i - 1] = order[i]
        BY <2>1, MissOrder DEF IInv
      <3>4. ASSUME NEW i \in 1 .. (Len(order) - 1)
            PROVE  i + 1 \in 2 .. Len(order) /\ order'[i] = order[i + 1]
        <4>1. i + 1 \in 2 .. Len(order) /\ (i + 1) - 1 = i
          BY <3>1, <3>4
        <4> QED BY <3>3, <4>1
      <3> QED BY <2>1, <3>1, <3>2, <3>4
    <2>2. CASE ~Full
      <3>1. Len(order') = Len(order) + 1 /\ order'[Len(order')] = k
        BY <2>2, MissOrder DEF IInv
      <3>2. \A i \in 1 .. Len(order) : order'[i] = order[i]
        BY <2>2, MissOrder DEF IInv
      <3> QED BY <1>1, <2>2, <3>1, <3>2
    <2> QED BY <2>1, <2>2
  <1>9. ASSUME NEW i \in 1 .. (L - 1)
        PROVE  order'[i] \in DOMAIN seen \ Evicted
    <2>1. i + shift \in 1 .. Len(order) /\ order'[i] = order[i + shift]
      BY <1>8
    <2>2. order[i + shift] \in DOMAIN seen
      BY <1>5, <2>1 DEF Sorted
    <2>3. ASSUME Full PROVE order[i + shift] # Head(order)
      <3>1. Head(order) = order[1] /\ 1 \in 1 .. Len(order) /\ i + shift # 1
        BY <1>8, <2>3 DEF Full, IInv, TypeOK
      <3> QED BY <1>5, <2>1, <3>1 DEF Sorted
    <2> QED BY <2>1, <2>2, <2>3 DEF Evicted
  <1> HIDE DEF shift, L
  <1>10. \A i \in 1 .. L : i \in 1 .. (L - 1) \/ i = L
    BY <1>8
  <1>11. \A i \in 1 .. (L - 1) : order'[i] # k
    BY <1>4, <1>9
  <1>12. \A i, j \in 1 .. L : order'[i] = order'[j] => i = j
    <2>1. ASSUME NEW i \in 1 .. (L - 1), NEW j \in 1 .. (L - 1), order'[i] = order'[j]
          PROVE  i = j
      <3>1. i + shift = j + shift
        BY <1>5, <1>8, <2>1 DEF Sorted
      <3> QED BY <3>1 DEF shift
    <2> QED BY <1>8, <1>10, <1>11, <2>1
  <1>13. \A i \in 1 .. L : order'[i] \in DOMAIN seen'
    BY <1>6, <1>8, <1>9, <1>10
  <1>14. ASSUME NEW i \in 1 .. L, NEW j \in 1 .. L, i < j
         PROVE  seen'[order'[i]] <= seen'[order'[j]]
    <2>1. i \in 1 .. (L - 1)
      BY <1>8, <1>14
    <2>2. seen'[order'[i]] = seen[order'[i]] /\ seen[order'[i]] \in 0 .. now
      BY <1>6, <1>7, <1>9, <2>1
    <2>3. CASE j = L
      BY <1>1, <1>6, <1>8, <2>2, <2>3
    <2>4. CASE j \in 1 .. (L - 1)
      <3>1. /\ i + shift \in 1 .. Len(order) /\ order'[i] = order[i + shift]
            /\ j + shift \in 1 .. Len(order) /\ order'[j] = order[j + shift]
        BY <1>8, <2>1, <2>4
      <3>2. i + shift < j + shift
        BY <1>14 DEF shift
      <3>3. seen[order[i + shift]] <= seen[order[j + shift]]
        BY <1>5, <3>1, <3>2 DEF Sorted
      <3>4. seen'[order'[j]] = seen[order'[j]]
        BY <1>6, <1>9, <2>4
      <3> QED BY <2>2, <3>1, <3>3, <3>4
    <2> QED BY <1>10, <2>3, <2>4
  <1>15. Sorted'
    BY <1>12, <1>13, <1>14 DEF Sorted, L
  <1>16. SweptClean'
    <2>1. swept - now <= Ttl
      BY <1>1, DedupAssumption
    <2> QED BY <1>2, <1>5, <1>6, <2>1 DEF SweptClean
  <1> QED BY <1>15, <1>16

\* A sweep that stops at a fresh hash has dropped every stale one.
LEMMA SweepInTime == IInv /\ InTime /\ Sweep => InTime'
  <1> SUFFICES ASSUME IInv, InTime, Sweep PROVE InTime'
    OBVIOUS
  <1>1. PICK n \in 0 .. Len(order) :
           /\ \A i \in 1 .. n : ~Fresh(order[i])
           /\ n < Len(order) => Fresh(order[n + 1])
           /\ DropHead(n)
    BY DEF Sweep
  <1>2. now \in Nat /\ swept \in 0 .. now /\ Len(order) \in Nat /\ n \in Nat
    BY DEF IInv, TypeOK
  <1>3. /\ DOMAIN seen' = DOMAIN seen \ {order[i] : i \in 1 .. n}
        /\ \A k \in DOMAIN seen' : seen'[k] = seen[k]
        /\ swept' = now /\ now' = now /\ reinserts' = reinserts
    BY <1>1 DEF DropHead, Restrict
  <1>4. /\ Len(order') = Len(order) - n
        /\ \A i \in (n + 1) .. Len(order) : order'[i - n] = order[i]
    BY <1>1, SweepOrder DEF IInv
  <1>5. \A i \in 1 .. Len(order') : i + n \in (n + 1) .. Len(order) /\ order'[i] = order[i + n]
    <2> TAKE i \in 1 .. Len(order')
    <2>1. i + n \in (n + 1) .. Len(order) /\ (i + n) - n = i
      BY <1>2, <1>4
    <2> QED BY <1>4, <2>1
  <1>6. now' - swept' <= SweepEvery'
    BY <1>2, <1>3, SweepEveryType DEF SweepEvery
  <1>7. SUFFICES ASSUME reinserts = 0
                 PROVE  Sorted' /\ SweptClean'
    BY <1>3, <1>6 DEF InTime
  <1>8. Sorted
    BY <1>7 DEF InTime
  <1>9. \A i \in (n + 1) .. Len(order) : order[i] \in DOMAIN seen'
    <2> TAKE i \in (n + 1) .. Len(order)
    <2>1. i \in 1 .. Len(order) /\ \A j \in 1 .. n : j \in 1 .. Len(order) /\ j # i
      BY <1>2
    <2>2. order[i] \in DOMAIN seen /\ \A j \in 1 .. n : order[j] # order[i]
      BY <1>8, <2>1 DEF Sorted
    <2> QED BY <1>3, <2>2
  <1>10. Sorted'
    <2>1. \A i, j \in 1 .. Len(order') : order'[i] = order'[j] => i = j
      <3> SUFFICES ASSUME NEW i \in 1 .. Len(order'), NEW j \in 1 .. Len(order'),
              order'[i] = order'[j]
                   PROVE  i = j
        OBVIOUS
      <3>1. i + n \in 1 .. Len(order) /\ j + n \in 1 .. Len(order) /\ order[i + n] = order[j + n]
        BY <1>2, <1>5
      <3>2. i + n = j + n
        BY <1>8, <3>1 DEF Sorted
      <3> QED BY <1>2, <3>2
    <2>2. \A i \in 1 .. Len(order') : order'[i] \in DOMAIN seen'
      BY <1>5, <1>9
    <2>3. \A i, j \in 1 .. Len(order') : i < j => seen'[order'[i]] <= seen'[order'[j]]
      <3> SUFFICES ASSUME NEW i \in 1 .. Len(order'), NEW j \in 1 .. Len(order'), i < j
                   PROVE  seen'[order'[i]] <= seen'[order'[j]]
        OBVIOUS
      <3>1. i + n \in 1 .. Len(order) /\ j + n \in 1 .. Len(order) /\ i + n < j + n
        BY <1>2, <1>5
      <3>2. seen[order[i + n]] <= seen[order[j + n]]
        BY <1>8, <3>1 DEF Sorted
      <3>3. seen'[order'[i]] = seen[order[i + n]] /\ seen'[order'[j]] = seen[order[j + n]]
        BY <1>3, <1>5, <2>2
      <3> QED BY <3>2, <3>3
    <2> QED BY <2>1, <2>2, <2>3 DEF Sorted
  <1>11. SweptClean'
    <2> SUFFICES ASSUME NEW k \in DOMAIN seen'
                 PROVE  now - seen[k] <= Ttl
      BY <1>3 DEF SweptClean
    <2>1. k \in DOMAIN seen /\ k \notin {order[i] : i \in 1 .. n}
      BY <1>3
    <2>2. PICK i \in 1 .. Len(order) : order[i] = k
      BY <2>1 DEF IInv, Evictable
    <2>3. i > n /\ n < Len(order) /\ n + 1 \in 1 .. Len(order)
      BY <1>2, <2>1, <2>2
    <2>4. order[n + 1] \in DOMAIN seen /\ now - seen[order[n + 1]] <= Ttl
      BY <1>1, <2>3 DEF Fresh
    <2>5. seen[order[n + 1]] <= seen[order[i]]
      <3>1. CASE i = n + 1
        BY <2>1, <2>2, <3>1 DEF IInv, TypeOK
      <3>2. CASE n + 1 < i
        BY <1>8, <2>3, <3>2 DEF Sorted
      <3> QED BY <1>2, <2>3, <3>1, <3>2
    <2>6. seen[order[n + 1]] \in Nat /\ seen[k] \in Nat
      BY <2>1, <2>4 DEF IInv, TypeOK
    <2> QED BY <1>2, <2>2, <2>4, <2>5, <2>6, DedupAssumption
  <1> QED BY <1>10, <1>11

LEMMA NextInTime == IInv /\ InTime /\ [Next]_vars => InTime'
  <1> SUFFICES ASSUME IInv, InTime, [Next]_vars PROVE InTime'
    OBVIOUS
  <1>1. CASE Tick
    <2>1. now \in Nat /\ swept \in 0 .. now
      BY DEF IInv, TypeOK
    <2>2. UNCHANGED <<seen, order, swept, reinserts>> /\ now' - swept' <= SweepEvery
      BY <1>1, <2>1, SweepEveryType DEF Tick
    <2> QED BY <2>2 DEF InTime, Sorted, SweptClean, SweepEvery
  <1>2. CASE UNCHANGED vars
    BY <1>2 DEF vars, InTime, Sorted, SweptClean, SweepEvery
  <1>3. ASSUME NEW k \in Keys, Miss(k) PROVE InTime'
    BY <1>3, MissInTime
  <1> QED BY <1>1, <1>2, <1>3, SweepInTime DEF Next, Hit

LEMMA InTimeIsLate == IInv /\ InTime => LateOnlyAfterReinsert
  <1> SUFFICES ASSUME IInv, InTime, reinserts = 0, NEW k \in DOMAIN seen
               PROVE  now - seen[k] <= Ttl + SweepEvery
    BY DEF LateOnlyAfterReinsert
  <1>1. now \in Nat /\ swept \in 0 .. now /\ seen[k] \in 0 .. now
    BY DEF IInv, TypeOK
  <1>2. now - swept <= SweepEvery /\ swept - seen[k] <= Ttl
    BY DEF InTime, SweptClean
  <1> QED BY <1>1, <1>2, SweepEveryType, DedupAssumption

LEMMA NextFreshKept == [Next]_vars => FreshKept
  <1> SUFFICES ASSUME [Next]_vars, NEW k \in Keys, Fresh(k), k \notin DOMAIN seen'
               PROVE  Full
    BY DEF FreshKept
  <1>1. ASSUME NEW j \in Keys, Miss(j) PROVE Full
    BY <1>1 DEF Miss, Evicted, Fresh
  <1>2. CASE Sweep
    <2>1. PICK n \in 0 .. Len(order) : (\A i \in 1 .. n : ~Fresh(order[i])) /\ DropHead(n)
      BY <1>2 DEF Sweep
    <2>2. k \in {order[i] : i \in 1 .. n}
      BY <2>1 DEF DropHead, Restrict, Fresh
    <2> QED BY <2>1, <2>2
  <1>3. CASE Tick \/ UNCHANGED vars
    BY <1>3 DEF Tick, vars, Fresh
  <1> QED BY <1>1, <1>2, <1>3 DEF Next, Hit

\* For any hashes, capacity and TTL: a hash younger than the TTL is forgotten only
\* to make room, and one is kept longer than a sweep beyond the TTL only behind
\* one that was recorded again.
THEOREM OnTime == Spec => ForgetsOnTime
  <1>1. IInv /\ InTime /\ [Next]_vars => [FreshKept /\ LateOnlyAfterReinsert']_vars
    <2>1. IInv /\ InTime /\ [Next]_vars => IInv' /\ InTime'
      BY NextIInv, NextInTime
    <2>2. IInv' /\ InTime' => LateOnlyAfterReinsert'
      BY InTimeIsLate, PTL
    <2> QED BY <2>1, <2>2, NextFreshKept
  <1> QED BY <1>1, InitIInv, InitInTime, NextIInv, NextInTime, PTL DEF Spec, ForgetsOnTime
-----------------------------------------------------------------------------
(* Dead letters and their replay (DlqReplay, the part "dlq" of MCPipeline). *)

ReplayType == [pc : {"idle", "audit", "get", "publish", "delete"}, id : 0..MaxCalls,
        seq : 0..MaxSeq,
               msg : Messages \cup {"none"}, all : BOOLEAN, del : BOOLEAN]
WalkType == [pc : {"idle", "page", "end"}, cursor : 0..MaxSeq, seen : SUBSET Replay!Seq,
        must : SUBSET Replay!Seq,
             whole : BOOLEAN, twice : BOOLEAN]
EntryType == [msg : Messages \cup {"none"}, tenant : {"none", "unknown"}]

\* The replays that published.
Ids(st) == {p.id : p \in st}

\* A replay under way: n in the log lg, the sent ones st, the calls so far cs, the stream d.
ReplayOK(n, lg, st, cs, d, la) ==
    /\ n \in ReplayType
    /\ n.pc # "idle" => n.id \in 1..cs /\ n.seq \in 1..la
    /\ n.pc \in {"audit", "get", "publish"} => n.id \notin Ids(st)
    /\ n.pc \in {"get", "publish", "delete"} => [id |-> n.id, seq |-> n.seq] \in lg
    /\ n.pc \in {"publish", "delete"} => n.all /\ n.msg \in Messages
       /\ d[n.seq].msg \in {"none", n.msg}

Stored == /\ last \in 0..MaxSeq /\ dlq \in [Replay!Seq -> EntryType]
          /\ \A s \in Replay!Seq : s > last => dlq[s] = Replay!NoEntry
Plain == /\ good \subseteq Messages /\ lost \subseteq Messages
         /\ repaired \in BOOLEAN /\ calls \in 0..MaxCalls
Written == log \subseteq [id : 1..MaxCalls, seq : Replay!Seq]
Replays == /\ run \in [Runs -> ReplayType]
           /\ \A w \in Runs : ReplayOK(run[w], log, sent, calls, dlq, last)
OwnIds == \A w, v \in Runs :
    run[w].pc # "idle" /\ run[v].pc # "idle" /\ run[w].id = run[v].id => w = v
SentOK == /\ sent \subseteq [id : 1..calls, seq : Replay!Seq, all : BOOLEAN]
          /\ \A p \in sent : p.all /\ [id |-> p.id, seq |-> p.seq] \in log

\* A replay publishes once.
RawOK(r, st) == r \in [Messages -> Nat] /\ \A m \in Messages : r[m] <= 1 + Cardinality(Ids(st))
Counted == RawOK(raw, sent)

\* The entries no replay is about to delete.
Firm == {s \in Replay!Entries : \A w \in Runs : run[w].pc = "delete" => run[w].seq # s}
FirmKept == \A m \in Messages :
    m \notin good \cup lost => raw[m] > 0 \/ \E s \in Firm : dlq[s].msg = m

\* What a walk has shown, and has still to show: e are the entries.
WalkOK(k, e) ==
    /\ k \in WalkType /\ k.must \subseteq e /\ ~k.twice
    /\ k.pc = "page" => /\ \A s \in k.seen : s <= k.cursor
                        /\ k.whole => \A s \in k.must : s <= k.cursor => s \in k.seen
    /\ k.pc = "end" /\ k.whole => k.must \subseteq k.seen
Walked == WalkOK(walk, Replay!Entries)

DqInv == Stored /\ Plain /\ Written /\ Replays /\ OwnIds /\ SentOK /\ Counted /\ FirmKept /\ Walked

LEMMA DlqImplies == DqInv => Replay!DlqTrue
<1> SUFFICES ASSUME DqInv PROVE Replay!DlqTrue
  OBVIOUS
<1>1. Ids(sent) \subseteq 1..calls /\ calls \in 0..MaxCalls
  BY DEF DqInv, SentOK, Ids, Plain
<1>2. Cardinality(Ids(sent)) \in Nat /\ Cardinality(Ids(sent)) <= calls
  <2>1. IsFiniteSet(1..calls) /\ Cardinality(1..calls) = calls
    BY <1>1, FS_Interval, DlqAssumption
  <2> QED
    BY <1>1, <2>1, FS_Subset, FS_CardinalityType
<1>3. raw \in [Messages -> 0..(MaxCalls + 1)]
  BY <1>1, <1>2, DlqAssumption DEF DqInv, Counted, RawOK
<1>4. Replay!TypeOK
  <2>1. /\ dlq \in [Replay!Seq -> [msg : Messages \cup {"none"}, tenant : {"none", "unknown"}]]
        /\ last \in 0..MaxSeq
        /\ good \subseteq Messages /\ lost \subseteq Messages /\ repaired \in BOOLEAN
           /\ calls \in 0..MaxCalls
    BY DEF DqInv, Stored, EntryType, Plain
  <2>2. log \subseteq [id : 1..MaxCalls, seq : Replay!Seq]
        /\ sent \subseteq [id : 1..MaxCalls, seq : Replay!Seq, all : BOOLEAN]
    BY <2>1 DEF DqInv, Written, SentOK
  <2>3. \A w \in Runs : run[w].pc \in {"idle", "audit", "get", "publish", "delete"}
    BY DEF DqInv, Replays, ReplayType
  <2>4. walk.pc \in {"idle", "page", "end"} /\ walk.cursor \in 0..MaxSeq
    BY DEF DqInv, Walked, WalkOK, WalkType
  <2> QED
    BY <1>3, <2>1, <2>2, <2>3, <2>4 DEF Replay!TypeOK
<1>5. Replay!Kept
  BY DEF DqInv, FirmKept, Firm, Replay!Kept
<1>6. Replay!ReplayLogged
  BY DEF DqInv, SentOK, Replay!ReplayLogged
<1>7. Replay!WalkTrue
  BY DEF DqInv, Walked, WalkOK, Replay!WalkTrue
<1> QED
  BY <1>4, <1>5, <1>6, <1>7 DEF Replay!DlqTrue

LEMMA IdleIs == Replay!Idle \in ReplayType /\ Replay!Idle.pc = "idle" /\ \A lg, st, cs, d,
    la : ReplayOK(Replay!Idle, lg, st, cs, d, la)
<1>1. Replay!Idle \in ReplayType /\ Replay!Idle.pc = "idle"
  BY DlqAssumption DEF Replay!Idle, ReplayType
<1> QED
  BY <1>1 DEF ReplayOK

LEMMA DlqBegins == Replay!Init => DqInv
<1> SUFFICES ASSUME Replay!Init PROVE DqInv
  OBVIOUS
<1>1. Stored
  BY DlqAssumption DEF Replay!Init, Stored, Replay!NoEntry, EntryType
<1>2. Plain /\ Written
  <2>1. repaired \in BOOLEAN
    BY Zenon DEF Replay!Init
  <2>2. good \subseteq Messages /\ lost \subseteq Messages /\ calls \in 0..MaxCalls /\ Written
    BY DlqAssumption DEF Replay!Init, Written
  <2> QED
    BY <2>1, <2>2 DEF Plain
<1>3. Replays /\ OwnIds
  BY IdleIs DEF Replay!Init, Replays, OwnIds
<1>4. SentOK
  BY DEF Replay!Init, SentOK
<1>5. Counted
  BY FS_EmptySet DEF Replay!Init, Counted, RawOK, Ids
<1>6. FirmKept
  BY DEF Replay!Init, FirmKept
<1>7. Walked
  BY DlqAssumption DEF Replay!Init, Walked, WalkOK, Replay!NoWalk, WalkType
<1> QED
  BY <1>1, <1>2, <1>3, <1>4, <1>5, <1>6, <1>7 DEF DqInv

LEMMA ReplayKeeps ==
    ASSUME NEW n, NEW lg, NEW lg2, NEW st, NEW st2, NEW cs \in Nat, NEW cs2 \in Nat, NEW d, NEW d2,
           NEW la \in Nat, NEW la2 \in Nat, ReplayOK(n, lg, st, cs, d, la), lg \subseteq lg2,
           cs <= cs2, la <= la2,
           n.pc \in {"audit", "get", "publish"} => n.id \notin Ids(st2),
           \A s \in 1..la : d2[s].msg \in {"none", d[s].msg}
    PROVE  ReplayOK(n, lg2, st2, cs2, d2, la2)
<1>1. n.pc # "idle" => n.id \in 1..cs2 /\ n.seq \in 1..la2 /\ n.seq \in 1..la
  BY DEF ReplayOK
<1>2. n.pc \in {"publish", "delete"} => n.all /\ n.msg \in Messages
      /\ d2[n.seq].msg \in {"none", n.msg}
  BY <1>1 DEF ReplayOK
<1> QED
  BY <1>1, <1>2 DEF ReplayOK

\* What is left of the invariant when no replay takes a step.
LEMMA DqStays ==
    ASSUME DqInv, UNCHANGED <<run, log, sent>>, calls <= calls', Plain', Stored', last <= last',
           \A s \in 1..last : dlq'[s].msg \in {"none", dlq[s].msg},
           RawOK(raw', sent), FirmKept', Walked'
    PROVE  DqInv'
<1>1. calls \in Nat /\ calls' \in Nat /\ last \in Nat /\ last' \in Nat
  BY DlqAssumption DEF DqInv, Plain, Stored
<1>2. \A w \in Runs : ReplayOK(run[w], log, sent, calls', dlq', last')
  <2> SUFFICES ASSUME NEW w \in Runs PROVE ReplayOK(run[w], log, sent, calls', dlq', last')
    OBVIOUS
  <2>1. ReplayOK(run[w], log, sent, calls, dlq, last)
    BY DEF DqInv, Replays
  <2>2. run[w].pc \in {"audit", "get", "publish"} => run[w].id \notin Ids(sent)
    BY <2>1 DEF ReplayOK
  <2> QED
    BY <1>1, <2>1, <2>2, ReplayKeeps
<1>3. Replays'
  BY <1>2 DEF DqInv, Replays
<1>4. Written' /\ OwnIds' /\ Counted'
  BY DEF DqInv, Written, OwnIds, Counted
<1>5. SentOK'
  <2>1. [id : 1..calls, seq : Replay!Seq, all : BOOLEAN] \subseteq [id : 1..calls',
          seq : Replay!Seq, all : BOOLEAN]
    BY <1>1
  <2> QED
    BY <2>1 DEF DqInv, SentOK
<1> QED
  BY <1>3, <1>4, <1>5 DEF DqInv

\* A step of the replay w, which becomes n.
LEMMA DqMoves ==
    ASSUME DqInv, NEW w \in Runs, NEW n, run' = [run EXCEPT ![w] = n],
           ReplayOK(n, log', sent', calls', dlq', last), log \subseteq log', calls <= calls',
           n.pc # "idle" => n.id \notin 1..calls \/ (n.id = run[w].id /\ run[w].pc # "idle"),
           \A v \in Runs \ {w} : run[v].pc # "idle" /\ run[v].id \in Ids(sent')
           => run[v].id \in Ids(sent),
           \A s \in 1..last : dlq'[s].msg \in {"none", dlq[s].msg},
           last' = last, Stored', Plain', Written', SentOK', Counted', FirmKept', Walked'
    PROVE  DqInv'
<1>1. calls \in Nat /\ calls' \in Nat /\ last \in Nat
  BY DlqAssumption DEF DqInv, Plain, Stored
<1>2. n \in ReplayType
  BY DEF ReplayOK
<1>3. run' \in [Runs -> ReplayType] /\ run'[w] = n /\ \A v \in Runs : v # w => run'[v] = run[v]
  BY <1>2 DEF DqInv, Replays
<1>4. \A v \in Runs : v # w => ReplayOK(run[v], log', sent', calls', dlq', last')
  <2> SUFFICES ASSUME NEW v \in Runs, v # w PROVE ReplayOK(run[v], log', sent', calls', dlq', last')
    OBVIOUS
  <2>1. ReplayOK(run[v], log, sent, calls, dlq, last)
    BY DEF DqInv, Replays
  <2>2. run[v].pc \in {"audit", "get", "publish"} => run[v].id \notin Ids(sent')
    BY <2>1 DEF ReplayOK
  <2> QED
    BY <1>1, <2>1, <2>2, ReplayKeeps
<1>5. Replays'
  BY <1>3, <1>4 DEF Replays
<1>6. \A v \in Runs : run[v].pc # "idle" => run[v].id \in 1..calls
  BY DEF DqInv, Replays, ReplayOK
<1>7. OwnIds'
  BY <1>3, <1>6 DEF DqInv, OwnIds
<1> QED
  BY <1>5, <1>7 DEF DqInv

LEMMA Replaying ==
    ASSUME DqInv, NEW w \in Runs
    PROVE  /\ run \in [Runs -> ReplayType] /\ run[w] \in ReplayType
           /\ ReplayOK(run[w], log, sent, calls, dlq, last)
           /\ calls \in Nat /\ last \in Nat /\ last <= MaxSeq /\ calls \in 0..MaxCalls
  BY DlqAssumption DEF DqInv, Replays, Plain, Stored

\* A step of a replay that leaves the stream alone, and is not about to delete.
LEMMA ReplayMoves ==
    ASSUME DqInv, NEW w \in Runs, NEW n, run' = [run EXCEPT ![w] = n], n.pc # "delete",
           ReplayOK(n, log', sent, calls', dlq, last), log \subseteq log', Written',
           calls <= calls', calls' \in 0..MaxCalls,
           n.pc # "idle" => n.id \notin 1..calls \/ (n.id = run[w].id /\ run[w].pc # "idle"),
           UNCHANGED <<dlq, last, lost, raw, good, repaired, sent, walk>>
    PROVE  DqInv'
<1>1. calls \in Nat /\ calls' \in Nat /\ last \in Nat
  BY DlqAssumption DEF DqInv, Plain, Stored
<1>2. Stored' /\ Plain' /\ Counted' /\ Walked'
  BY DEF DqInv, Stored, Plain, Counted, Walked, Replay!Entries
<1>3. SentOK'
  <2>1. [id : 1..calls, seq : Replay!Seq, all : BOOLEAN] \subseteq [id : 1..calls',
          seq : Replay!Seq, all : BOOLEAN]
    BY <1>1
  <2> QED
    BY <2>1 DEF DqInv, SentOK
<1>4. Firm \subseteq Firm'
  BY DEF DqInv, Replays, Firm, Replay!Entries
<1>5. FirmKept'
  BY <1>4 DEF DqInv, FirmKept
<1> QED
  BY <1>2, <1>3, <1>5, DqMoves

LEMMA FailStep == ASSUME DqInv, NEW w \in Runs, Replay!Fail(w) PROVE DqInv'
<1>1. run' = [run EXCEPT ![w] = Replay!Idle]
      /\ UNCHANGED <<dlq, last, lost, raw, good, repaired, sent, walk, log, calls>>
  BY DEF Replay!Fail, Replay!Done, Replay!stream, Replay!enricher
<1>2. Written' /\ calls' \in 0..MaxCalls /\ calls <= calls'
  BY <1>1, DlqAssumption DEF DqInv, Written, Plain
<1>3. ReplayOK(Replay!Idle, log', sent, calls', dlq, last) /\ Replay!Idle.pc = "idle"
  BY IdleIs
<1> QED
  BY <1>1, <1>2, <1>3, ReplayMoves

LEMMA ReplayStep == ASSUME DqInv, NEW w \in Runs, NEW s \in Replay!Seq, Replay!Replay(w, s)
    PROVE DqInv'
<1>1. PICK all \in BOOLEAN, del \in BOOLEAN : Replay!Asked(w, s, all, del)
  BY DEF Replay!Replay
<1> DEFINE n == [Replay!Idle EXCEPT !.pc = "audit", !.id = calls + 1, !.seq = s, !.all = all,
        !.del = del]
<1>2. /\ calls' = calls + 1 /\ calls < MaxCalls /\ s <= last /\ run[w].pc = "idle"
      /\ UNCHANGED <<dlq, last, lost, raw, good, repaired, sent, walk, log>>
         /\ run' = [run EXCEPT ![w] = n]
  BY <1>1 DEF Replay!Replay, Replay!stream, Replay!enricher, Replay!Asked
<1>3. calls \in 0..MaxCalls /\ calls' \in 0..MaxCalls /\ calls <= calls' /\ calls' \in 1..calls'
      /\ calls' \notin 1..calls /\ s \in 1..last
  BY <1>2, DlqAssumption DEF DqInv, Plain, Stored, Replay!Seq
<1>4. n \in ReplayType /\ n.pc = "audit" /\ n.id = calls' /\ n.seq = s
  <2>1. calls + 1 \in 0..MaxCalls /\ s \in 0..MaxSeq /\ calls' = calls + 1
    BY <1>2, <1>3, DlqAssumption DEF Replay!Seq
  <2>2. n \in ReplayType /\ n.pc = "audit" /\ n.id = calls + 1 /\ n.seq = s
    BY <2>1, IdleIs DEF ReplayType
  <2> QED
    BY <2>1, <2>2
<1> HIDE DEF n
<1>5. calls' \notin Ids(sent)
  BY <1>3 DEF DqInv, SentOK, Ids
<1>6. ReplayOK(n, log', sent, calls', dlq, last)
  BY <1>3, <1>4, <1>5 DEF ReplayOK
<1>7. Written'
  BY <1>2 DEF DqInv, Written
<1>8. n.pc # "delete" /\ log \subseteq log' /\ n.id \notin 1..calls
  BY <1>2, <1>3, <1>4
<1>9. UNCHANGED <<dlq, last, lost, raw, good, repaired, sent, walk>> /\ run' = [run EXCEPT ![w] = n]
  BY <1>2
<1>10. calls <= calls' /\ calls' \in 0..MaxCalls /\ log \subseteq log' /\ n.pc # "delete"
       /\ (n.pc # "idle" => n.id \notin 1..calls \/ (n.id = run[w].id /\ run[w].pc # "idle"))
  BY <1>3, <1>8
<1> QED
  BY <1>6, <1>7, <1>9, <1>10, ReplayMoves

LEMMA AuditReplayStep == ASSUME DqInv, NEW w \in Runs, Replay!AuditReplay(w) PROVE DqInv'
<1> DEFINE n == [run[w] EXCEPT !.pc = "get"]
           e == [id |-> run[w].id, seq |-> run[w].seq]
<1>1. /\ run \in [Runs -> ReplayType] /\ run[w] \in ReplayType
      /\ ReplayOK(run[w], log, sent, calls, dlq, last)
      /\ calls \in Nat /\ last \in Nat /\ last <= MaxSeq /\ calls \in 0..MaxCalls
  BY Replaying
<1>2. run[w].pc = "audit" /\ log' = log \cup {e}
      /\ UNCHANGED <<dlq, last, lost, raw, good, repaired, sent, walk, calls>>
  BY DEF Replay!AuditReplay, Replay!stream, Replay!enricher
<1>3. n \in ReplayType /\ n.pc = "get" /\ n.id = run[w].id /\ n.seq = run[w].seq
      /\ run' = [run EXCEPT ![w] = n]
  BY <1>1 DEF Replay!AuditReplay, Replay!Goto, ReplayType
<1>4. n.id \in 1..calls /\ n.seq \in 1..last /\ n.id \notin Ids(sent)
  BY <1>1, <1>2, <1>3 DEF ReplayOK
<1>5. Written'
  <2>1. run[w].id \in 1..MaxCalls /\ run[w].seq \in Replay!Seq
    BY <1>1, <1>3, <1>4, DlqAssumption DEF Replay!Seq
  <2>2. e \in [id : 1..MaxCalls, seq : Replay!Seq]
    BY <2>1
  <2> QED
    BY <1>2, <2>2 DEF DqInv, Written
<1>6. [id |-> n.id, seq |-> n.seq] \in log'
  BY <1>2, <1>3
<1> HIDE DEF n
<1>7. ReplayOK(n, log', sent, calls', dlq, last)
  BY <1>2, <1>3, <1>4, <1>6 DEF ReplayOK
<1>8. calls <= calls' /\ calls' \in 0..MaxCalls /\ log \subseteq log' /\ n.pc # "delete"
      /\ run[w].pc # "idle"
  BY <1>1, <1>2, <1>3
<1> QED
  BY <1>2, <1>3, <1>5, <1>7, <1>8, ReplayMoves

\* No entry has a tenant, so what is taken was asked for by who may see all.
LEMMA GetStep == ASSUME DqInv, NEW w \in Runs, Replay!GetByID(w) PROVE DqInv'
<1> DEFINE n == [run[w] EXCEPT !.pc = "publish", !.msg = dlq[run[w].seq].msg]
<1>1. /\ run \in [Runs -> ReplayType] /\ run[w] \in ReplayType
      /\ ReplayOK(run[w], log, sent, calls, dlq, last)
      /\ calls \in Nat /\ last \in Nat /\ last <= MaxSeq /\ calls \in 0..MaxCalls
  BY Replaying
<1>2. run[w].pc = "get"
      /\ UNCHANGED <<dlq, last, lost, raw, good, repaired, sent, walk, calls, log>>
  BY DEF Replay!GetByID, Replay!stream, Replay!enricher
<1>3. run[w].seq \in Replay!Seq /\ dlq[run[w].seq].msg \in Messages /\ dlq[run[w].seq] \in EntryType
  BY DEF Replay!GetByID, Replay!Found, Replay!Scanned, Replay!Entries, DqInv, Stored, EntryType
<1>4. run[w].all
  BY <1>3 DEF Replay!GetByID, Replay!Tenant, EntryType
<1>5. n \in ReplayType /\ n.pc = "publish" /\ n.id = run[w].id /\ n.seq = run[w].seq
      /\ n.all = run[w].all
      /\ n.msg = dlq[run[w].seq].msg /\ run' = [run EXCEPT ![w] = n]
  BY <1>1, <1>3 DEF Replay!GetByID, Replay!Take, ReplayType
<1> HIDE DEF n
<1>6. ReplayOK(n, log', sent, calls', dlq, last)
  BY <1>1, <1>2, <1>3, <1>4, <1>5 DEF ReplayOK
<1>7. Written'
  BY <1>2 DEF DqInv, Written
<1>8. calls <= calls' /\ calls' \in 0..MaxCalls /\ log \subseteq log' /\ n.pc # "delete"
      /\ run[w].pc # "idle"
  BY <1>1, <1>2, <1>5
<1> QED
  BY <1>2, <1>5, <1>6, <1>7, <1>8, ReplayMoves

\* An entry that is gone is none the walk has still to show.
LEMMA WalkDrops ==
    ASSUME DqInv, NEW s, walk' = [walk EXCEPT !.must = @ \ {s}],
           Replay!Entries' = Replay!Entries \ {s}
    PROVE  Walked'
<1>1. WalkOK(walk, Replay!Entries) /\ walk \in WalkType
  BY DEF DqInv, Walked, WalkOK
<1>2. /\ walk' \in WalkType /\ walk'.must = walk.must \ {s} /\ walk'.pc = walk.pc
      /\ walk'.seen = walk.seen
      /\ walk'.cursor = walk.cursor /\ walk'.whole = walk.whole /\ walk'.twice = walk.twice
  BY <1>1 DEF WalkType
<1> QED
  BY <1>1, <1>2 DEF Walked, WalkOK

LEMMA IdsFinite == ASSUME DqInv PROVE Ids(sent) \subseteq 1..calls /\ IsFiniteSet(Ids(sent))
    /\ Cardinality(Ids(sent)) \in Nat
<1>1. Ids(sent) \subseteq 1..calls /\ calls \in 0..MaxCalls
  BY DEF DqInv, SentOK, Ids, Plain
<1>2. IsFiniteSet(1..calls)
  BY <1>1, FS_Interval, DlqAssumption
<1> QED
  BY <1>1, <1>2, FS_Subset, FS_CardinalityType

\* The entry that was read still holds its message, or is gone, so the message waits
\* in events_raw before the entry may go.
LEMMA PublishStep == ASSUME DqInv, NEW w \in Runs, Replay!Publish(w) PROVE DqInv'
<1> DEFINE p == [id |-> run[w].id, seq |-> run[w].seq, all |-> run[w].all]
           i == run[w].id
           msg == run[w].msg
<1>1. /\ run \in [Runs -> ReplayType] /\ run[w] \in ReplayType
      /\ ReplayOK(run[w], log, sent, calls, dlq, last)
      /\ calls \in Nat /\ last \in Nat /\ last <= MaxSeq /\ calls \in 0..MaxCalls
  BY Replaying
<1>2. /\ run[w].pc = "publish" /\ raw' = [raw EXCEPT ![msg] = @ + 1] /\ sent' = sent \cup {p}
      /\ UNCHANGED <<dlq, last, lost, good, repaired, walk, calls, log>>
  BY DEF Replay!Publish, Replay!PublishRaw, Replay!stream, Replay!enricher
<1>3. /\ i \in 1..calls /\ run[w].seq \in 1..last /\ run[w].all /\ msg \in Messages
      /\ i \notin Ids(sent) /\ [id |-> i, seq |-> run[w].seq] \in log
         /\ dlq[run[w].seq].msg \in {"none", msg}
  BY <1>1, <1>2 DEF ReplayOK
<1>4. p.id = i /\ p.seq = run[w].seq /\ p.all = run[w].all /\ p.all \in BOOLEAN
  BY <1>1 DEF ReplayType
<1> HIDE DEF p, i
<1>5. Ids(sent') = Ids(sent) \cup {i}
  BY <1>2, <1>4 DEF Ids
<1>6. SentOK'
  <2>1. p \in [id : 1..calls, seq : Replay!Seq, all : BOOLEAN]
    BY <1>1, <1>3, <1>4, DlqAssumption DEF Replay!Seq, p
  <2>2. sent' \subseteq [id : 1..calls, seq : Replay!Seq, all : BOOLEAN]
    BY <1>2, <2>1 DEF DqInv, SentOK
  <2>3. \A q \in sent' : q.all /\ [id |-> q.id, seq |-> q.seq] \in log
    BY <1>2, <1>3, <1>4 DEF DqInv, SentOK
  <2> QED
    BY <1>2, <2>2, <2>3 DEF SentOK
<1>7. raw \in [Messages -> Nat] /\ raw' \in [Messages -> Nat] /\ raw'[msg] = raw[msg] + 1
      /\ \A m \in Messages : m # msg => raw'[m] = raw[m]
  BY <1>2, <1>3 DEF DqInv, Counted, RawOK
<1>8. Counted'
  <2>1. Cardinality(Ids(sent')) = Cardinality(Ids(sent)) + 1 /\ Cardinality(Ids(sent)) \in Nat
    BY <1>3, <1>5, IdsFinite, FS_AddElement
  <2>2. \A m \in Messages : raw[m] \in Nat /\ raw[m] <= 1 + Cardinality(Ids(sent))
    BY DEF DqInv, Counted, RawOK
  <2>3. \A m \in Messages : raw'[m] <= 1 + Cardinality(Ids(sent'))
    BY <1>7, <2>1, <2>2
  <2> QED
    BY <1>7, <2>3 DEF Counted, RawOK
<1>9. Stored' /\ Plain' /\ Written' /\ Walked'
  BY <1>2 DEF DqInv, Stored, Plain, Written, Walked, Replay!Entries
<1>10. PICK n \in {Replay!Idle, [run[w] EXCEPT !.pc = "delete"]} : run' = [run EXCEPT ![w] = n]
  BY <1>1 DEF Replay!Publish, Replay!Goto, Replay!Done
<1>11. n \in ReplayType /\ n.pc \in {"idle", "delete"} /\ (n.pc = "delete" =>
         n.id = run[w].id /\ n.seq = run[w].seq /\ n.all = run[w].all /\ n.msg = msg)
  BY <1>1, <1>10, IdleIs DEF ReplayType
<1>12. ReplayOK(n, log', sent', calls', dlq', last)
  BY <1>2, <1>3, <1>11 DEF ReplayOK, i
<1>13. FirmKept'
  <2>1. \A s \in Firm : s \in Firm' \/ s = run[w].seq
    BY <1>1, <1>2, <1>10, <1>11 DEF Firm, Replay!Entries
  <2>2. ASSUME NEW m \in Messages, m \notin good \cup lost, m # msg, NEW s \in Firm, dlq[s].msg = m
        PROVE  s \in Firm'
    BY <1>3, <2>1, <2>2 DEF Firm, Replay!Entries
  <2> QED
    BY <1>2, <1>7, <2>2 DEF DqInv, FirmKept
<1>14. \A v \in Runs \ {w} : run[v].pc # "idle" /\ run[v].id \in Ids(sent')
       => run[v].id \in Ids(sent)
  BY <1>2, <1>5 DEF DqInv, OwnIds, i
<1>15. /\ log \subseteq log' /\ calls <= calls' /\ last' = last /\ run[w].pc # "idle"
       /\ \A s \in 1..last : dlq'[s].msg \in {"none", dlq[s].msg}
  BY <1>1, <1>2
<1>16. n.pc # "idle" => n.id = run[w].id
  BY <1>11
<1> HIDE DEF msg
<1> QED
  BY <1>6, <1>8, <1>9, <1>10, <1>12, <1>13, <1>14, <1>15, <1>16, DqMoves

LEMMA DeleteStep == ASSUME DqInv, NEW w \in Runs, Replay!Delete(w) PROVE DqInv'
<1> DEFINE s == run[w].seq
<1>1. /\ run \in [Runs -> ReplayType] /\ run[w] \in ReplayType
      /\ ReplayOK(run[w], log, sent, calls, dlq, last)
      /\ calls \in Nat /\ last \in Nat /\ last <= MaxSeq /\ calls \in 0..MaxCalls
  BY Replaying
<1>2. /\ run[w].pc = "delete" /\ dlq' = [dlq EXCEPT ![s] = Replay!NoEntry]
      /\ walk' = [walk EXCEPT !.must = @ \ {s}]
      /\ run' = [run EXCEPT ![w] = Replay!Idle]
         /\ UNCHANGED <<last, lost, raw, good, repaired, log, sent, calls>>
  BY DEF Replay!Delete, Replay!DeleteMsg, Replay!Done, Replay!enricher
<1>3. s \in 1..last /\ s \in Replay!Seq
  BY <1>1, <1>2, DlqAssumption DEF ReplayOK, Replay!Seq
<1> HIDE DEF s
<1>4. Stored' /\ Replay!Entries' = Replay!Entries \ {s} /\ \A u \in Replay!Seq : u # s
      => dlq'[u] = dlq[u]
  <2>1. Replay!NoEntry \in EntryType /\ Replay!NoEntry.msg = "none"
    BY DEF Replay!NoEntry, EntryType
  <2>2. dlq \in [Replay!Seq -> EntryType] /\ dlq' \in [Replay!Seq -> EntryType]
        /\ dlq'[s] = Replay!NoEntry
        /\ \A u \in Replay!Seq : u # s => dlq'[u] = dlq[u]
    BY <1>2, <1>3, <2>1 DEF DqInv, Stored
  <2> QED
    BY <1>2, <1>3, <2>1, <2>2 DEF DqInv, Stored, Replay!Entries
<1>5. Walked'
  BY <1>2, <1>4, WalkDrops
<1>6. Plain' /\ Written' /\ SentOK' /\ Counted'
  BY <1>2 DEF DqInv, Plain, Written, SentOK, Counted
<1>7. \A u \in Firm : u \in Firm' /\ u # s
  BY <1>1, <1>2, <1>4, IdleIs DEF Firm, s
<1>8. FirmKept'
  BY <1>2, <1>4, <1>7 DEF DqInv, FirmKept, Firm, Replay!Entries
<1>9. ReplayOK(Replay!Idle, log', sent', calls', dlq', last) /\ Replay!Idle.pc = "idle"
  BY IdleIs
<1>10. \A u \in 1..last : dlq'[u].msg \in {"none", dlq[u].msg}
  BY <1>1, <1>2, <1>3, <1>4, DlqAssumption DEF DqInv, Stored, Replay!Seq, Replay!NoEntry
<1>11. log \subseteq log' /\ calls <= calls' /\ last' = last
  BY <1>1, <1>2
<1> QED
  BY <1>2, <1>4, <1>5, <1>6, <1>8, <1>9, <1>10, <1>11, DqMoves

\* The entries stay, and the walk.
LEMMA Apart ==
    ASSUME DqInv, UNCHANGED <<dlq, last, run, log, sent, walk>>, Plain', calls <= calls',
           RawOK(raw', sent), FirmKept'
    PROVE  DqInv'
<1>1. Stored' /\ Walked' /\ last <= last' /\ \A s \in 1..last : dlq'[s].msg \in {"none", dlq[s].msg}
  BY DlqAssumption DEF DqInv, Stored, Walked, Replay!Entries
<1> QED
  BY <1>1, DqStays

LEMMA RawFalls ==
    ASSUME DqInv, NEW m \in Messages, raw[m] > 0, raw' = [raw EXCEPT ![m] = @ - 1]
    PROVE  /\ RawOK(raw', sent) /\ raw[m] \in Nat
           /\ \A x \in Messages : x # m => raw'[x] = raw[x]
<1>1. Cardinality(Ids(sent)) \in Nat
  BY IdsFinite
<1>2. raw \in [Messages -> Nat] /\ \A x \in Messages : raw[x] <= 1 + Cardinality(Ids(sent))
  BY DEF DqInv, Counted, RawOK
<1>3. raw' \in [Messages -> Nat] /\ raw'[m] = raw[m] - 1 /\ \A x \in Messages : x # m
      => raw'[x] = raw[x]
  BY <1>2
<1>4. \A x \in Messages : raw'[x] <= 1 + Cardinality(Ids(sent))
  BY <1>1, <1>2, <1>3
<1> QED
  BY <1>2, <1>3, <1>4 DEF RawOK

LEMMA DispatchStep == ASSUME DqInv, NEW m \in Messages, Replay!Dispatch(m) PROVE DqInv'
<1>1. /\ raw[m] > 0 /\ raw' = [raw EXCEPT ![m] = @ - 1] /\ good' = good \cup {m}
      /\ UNCHANGED <<dlq, last, lost, repaired, run, log, sent, walk, calls>>
  BY DEF Replay!Dispatch, Replay!stream
<1>2. RawOK(raw', sent) /\ \A x \in Messages : x # m => raw'[x] = raw[x]
  BY <1>1, RawFalls
<1>3. Plain' /\ calls <= calls'
  BY <1>1, DlqAssumption DEF DqInv, Plain
<1>4. FirmKept'
  BY <1>1, <1>2 DEF DqInv, FirmKept, Firm, Replay!Entries
<1> QED
  BY <1>1, <1>2, <1>3, <1>4, Apart

LEMMA DeployStep == ASSUME DqInv, Replay!Deploy PROVE DqInv'
<1>1. repaired' = TRUE /\ UNCHANGED <<dlq, last, lost, good, raw, run, log, sent, walk, calls>>
  BY DEF Replay!Deploy, Replay!stream
<1>2. repaired' \in BOOLEAN
  BY <1>1, Zenon
<1>3. Plain' /\ calls <= calls'
  BY <1>1, <1>2, DlqAssumption DEF DqInv, Plain
<1>4. FirmKept' /\ RawOK(raw', sent)
  BY <1>1 DEF DqInv, FirmKept, Firm, Replay!Entries, Counted
<1> QED
  BY <1>1, <1>3, <1>4, Apart

\* What is parked has a number that no replay has asked for yet.
LEMMA ParkStep == ASSUME DqInv, NEW m \in Messages, Replay!SendToDLQ(m) PROVE DqInv'
<1>1. /\ raw[m] > 0 /\ raw' = [raw EXCEPT ![m] = @ - 1]
      /\ UNCHANGED <<good, repaired, run, log, sent, walk, calls>>
  BY DEF Replay!SendToDLQ, Replay!enricher
<1>2. RawOK(raw', sent) /\ \A x \in Messages : x # m => raw'[x] = raw[x]
  BY <1>1, RawFalls
<1>3. CASE Replay!Lose(m)
  <2>1. lost' = lost \cup {m} /\ UNCHANGED <<dlq, last>>
    BY <1>3 DEF Replay!Lose
  <2>2. Plain' /\ calls <= calls'
    BY <1>1, <2>1, DlqAssumption DEF DqInv, Plain
  <2>3. FirmKept'
    BY <1>1, <1>2, <2>1 DEF DqInv, FirmKept, Firm, Replay!Entries
  <2> QED
    BY <1>1, <1>2, <2>1, <2>2, <2>3, Apart
<1>4. CASE Replay!Park(m)
  <2> DEFINE n == last + 1
             e == [msg |-> m, tenant |-> "unknown"]
  <2>1. last < MaxSeq /\ last' = n /\ dlq' = [dlq EXCEPT ![n] = e] /\ lost' = lost
    BY <1>4 DEF Replay!Park, Replay!BuildDLQMessage
  <2>2. n \in Replay!Seq /\ last' \in 0..MaxSeq /\ last <= last' /\ n > last /\ last \in Nat
        /\ n \notin 1..last
    BY <2>1, DlqAssumption DEF DqInv, Stored, Replay!Seq
  <2>3. e \in EntryType /\ e.msg = m /\ e.msg # "none"
    BY DlqAssumption DEF EntryType
  <2> HIDE DEF n, e
  <2>4. dlq' \in [Replay!Seq -> EntryType] /\ dlq'[n] = e /\ \A u \in Replay!Seq : u # n
        => dlq'[u] = dlq[u]
    BY <2>1, <2>2, <2>3 DEF DqInv, Stored
  <2>5. Stored'
    <3>1. \A s \in Replay!Seq : s > last' => dlq'[s] = Replay!NoEntry
      BY <2>1, <2>2, <2>4, DlqAssumption DEF DqInv, Stored, Replay!Seq
    <3> QED
      BY <2>2, <2>4, <3>1 DEF Stored
  <2>6. Replay!Entries \subseteq Replay!Entries' /\ n \in Replay!Entries'
    BY <2>1, <2>2, <2>3, <2>4, DlqAssumption DEF DqInv, Stored, Replay!Entries, Replay!NoEntry
  <2>7. \A s \in 1..last : dlq'[s].msg \in {"none", dlq[s].msg}
    BY <2>2, <2>4, DlqAssumption DEF DqInv, Stored, Replay!Seq
  <2>8. n \in Firm'
    BY <1>1, <2>2, <2>6 DEF DqInv, Replays, ReplayOK, Firm
  <2>9. \A s \in Firm : s \in Firm' /\ dlq'[s].msg = dlq[s].msg
    <3>1. \A s \in Replay!Entries : s # n
      BY <2>2, DlqAssumption DEF DqInv, Stored, Replay!Entries, Replay!NoEntry
    <3> QED
      BY <1>1, <2>4, <2>6, <3>1 DEF Firm, Replay!Entries
  <2>10. FirmKept'
    BY <1>1, <1>2, <2>1, <2>3, <2>4, <2>8, <2>9 DEF DqInv, FirmKept
  <2>11. Walked'
    BY <1>1, <2>6 DEF DqInv, Walked, WalkOK
  <2>12. Plain' /\ calls <= calls'
    BY <1>1, <2>1, DlqAssumption DEF DqInv, Plain
  <2> QED
    BY <1>1, <1>2, <2>2, <2>5, <2>7, <2>10, <2>11, <2>12, DqStays
<1> QED
  BY <1>3, <1>4 DEF Replay!SendToDLQ

LEMMA AgeOutStep == ASSUME DqInv, NEW s \in Replay!Seq, Replay!AgeOut(s) PROVE DqInv'
<1>1. /\ s \in Replay!Entries /\ dlq' = [dlq EXCEPT ![s] = Replay!NoEntry]
      /\ lost' = lost \cup {dlq[s].msg}
      /\ walk' = [walk EXCEPT !.must = @ \ {s}]
      /\ UNCHANGED <<last, raw, good, repaired, log, sent, run, calls>>
  BY DEF Replay!AgeOut, Replay!enricher
<1>2. Replay!NoEntry \in EntryType /\ Replay!NoEntry.msg = "none" /\ dlq[s].msg \in Messages
  BY <1>1 DEF Replay!NoEntry, EntryType, Replay!Entries, DqInv, Stored
<1>3. dlq \in [Replay!Seq -> EntryType] /\ dlq' \in [Replay!Seq -> EntryType]
      /\ dlq'[s] = Replay!NoEntry
      /\ \A u \in Replay!Seq : u # s => dlq'[u] = dlq[u]
  BY <1>1, <1>2 DEF DqInv, Stored
<1>4. Stored' /\ Replay!Entries' = Replay!Entries \ {s}
  BY <1>1, <1>2, <1>3 DEF DqInv, Stored, Replay!Entries
<1>5. Walked'
  BY <1>1, <1>4, WalkDrops
<1>6. Plain' /\ calls <= calls' /\ last <= last' /\ RawOK(raw', sent)
  BY <1>1, <1>2, DlqAssumption DEF DqInv, Plain, Stored, Counted
<1>7. \A u \in 1..last : dlq'[u].msg \in {"none", dlq[u].msg}
  BY <1>2, <1>3, DlqAssumption DEF DqInv, Stored, Replay!Seq
<1>8. \A u \in Firm : u = s \/ (u \in Firm' /\ dlq'[u].msg = dlq[u].msg)
  BY <1>1, <1>3, <1>4 DEF Firm, Replay!Entries
<1>9. FirmKept'
  BY <1>1, <1>8 DEF DqInv, FirmKept
<1> QED
  BY <1>1, <1>4, <1>5, <1>6, <1>7, <1>9, DqStays

\* A step of the walk.
LEMMA WalkMoves ==
    ASSUME DqInv, UNCHANGED <<dlq, last, raw, good, lost, repaired, run, log, sent>>,
           calls <= calls', calls' \in 0..MaxCalls,
           WalkOK(walk', Replay!Entries)
    PROVE  DqInv'
<1>1. Stored' /\ Plain' /\ last <= last' /\ Replay!Entries' = Replay!Entries /\ RawOK(raw', sent)
      /\ \A s \in 1..last : dlq'[s].msg \in {"none", dlq[s].msg}
  BY DlqAssumption DEF DqInv, Stored, Plain, Replay!Entries, Counted
<1>2. Walked'
  BY <1>1 DEF Walked
<1>3. FirmKept'
  BY <1>1 DEF DqInv, FirmKept, Firm
<1> QED
  BY <1>1, <1>2, <1>3, DqStays

LEMMA ListStep == ASSUME DqInv, Replay!ListDLQ PROVE DqInv'
<1>1. /\ calls' = calls + 1 /\ calls < MaxCalls
      /\ walk' = [Replay!NoWalk EXCEPT !.pc = "page", !.must = Replay!Entries]
      /\ UNCHANGED <<dlq, last, raw, good, lost, repaired, run, log, sent>>
  BY DEF Replay!ListDLQ, Replay!stream, Replay!enricher
<1>2. calls <= calls' /\ calls' \in 0..MaxCalls
  BY <1>1, DlqAssumption DEF DqInv, Plain
<1>3. Replay!Entries \subseteq Replay!Seq
  BY DEF Replay!Entries
<1>4. walk' \in WalkType /\ walk'.pc = "page" /\ walk'.must = Replay!Entries /\ walk'.seen = {}
      /\ walk'.cursor = 0
      /\ ~walk'.twice
  <2>1. Replay!NoWalk \in WalkType /\ Replay!NoWalk.seen = {} /\ Replay!NoWalk.cursor = 0
        /\ ~Replay!NoWalk.twice
    BY DlqAssumption DEF Replay!NoWalk, WalkType
  <2> QED
    BY <1>1, <1>3, <2>1 DEF WalkType
<1>5. \A s \in Replay!Entries : ~(s <= 0)
  BY <1>3, DlqAssumption DEF Replay!Seq
<1>6. WalkOK(walk', Replay!Entries)
  BY <1>4, <1>5 DEF WalkOK
<1> QED
  BY <1>1, <1>2, <1>6, WalkMoves

\* A set of numbers has a least one.
NatLess == {p \in Nat \X Nat : p[1] < p[2]}

LEMMA LeastIs == ASSUME NEW S \in SUBSET Nat, S # {} PROVE \E s \in S : \A u \in S : s <= u
<1>1. IsWellFoundedOn(NatLess, Nat)
  BY NatLessThanWellFounded DEF OpToRel, NatLess
<1>2. PICK s \in S : \A u \in S : ~(<<u, s>> \in NatLess)
  BY <1>1, WFMin, Zenon
<1>3. ASSUME NEW u \in S PROVE s <= u
  <2>1. u \in Nat /\ s \in Nat
    OBVIOUS
  <2>2. u < s => <<u, s>> \in NatLess
    BY <2>1 DEF NatLess
  <2> QED
    BY <1>2, <2>1, <2>2
<1> QED
  BY <1>3

LEMMA GreatestIs == ASSUME NEW S \in SUBSET Replay!Seq, S # {}
    PROVE \E s \in S : \A u \in S : u <= s
<1> DEFINE T == {MaxSeq - s : s \in S}
<1>1. \A u \in S : u \in Int /\ MaxSeq - u \in Nat
  BY DlqAssumption DEF Replay!Seq
<1>2. T \in SUBSET Nat /\ T # {}
  BY <1>1
<1>3. PICK t \in T : \A u \in T : t <= u
  <2> HIDE DEF T
  <2> QED
    BY <1>2, LeastIs
<1>4. PICK s \in S : t = MaxSeq - s
  BY <1>3
<1>5. \A u \in S : MaxSeq - s <= MaxSeq - u
  BY <1>3, <1>4
<1> QED
  BY <1>1, <1>5, DlqAssumption

\* The entries that come before s among those of S.
Before(S, s) == {u \in S : u < s}

LEMMA BeforeIs ==
    ASSUME NEW S \in SUBSET Replay!Seq, NEW s \in S, NEW t \in S, s <= t
    PROVE  /\ IsFiniteSet(S) /\ Cardinality(Before(S, s)) \in Nat
           /\ Cardinality(Before(S, s)) <= Cardinality(Before(S, t))
              /\ Cardinality(Before(S, t)) \in Nat
           /\ Cardinality(Before(S, s)) <= Cardinality(S) /\ Cardinality(S) \in Nat
           /\ Cardinality(Before(S, s)) # Cardinality(S)
<1>1. IsFiniteSet(S)
  <2>1. IsFiniteSet(1..MaxSeq)
    BY FS_Interval, DlqAssumption
  <2> QED
    BY <2>1, FS_Subset DEF Replay!Seq
<1>2. Before(S, s) \subseteq Before(S, t) /\ Before(S, t) \subseteq S /\ s \notin Before(S, s)
  <2>1. \A u \in S : u \in Int
    BY DlqAssumption DEF Replay!Seq
  <2>2. \A u \in S : u < s => u < t
    BY <2>1
  <2>3. ~(s < s)
    BY <2>1
  <2> QED
    BY <2>2, <2>3 DEF Before
<1>3. IsFiniteSet(Before(S, t)) /\ IsFiniteSet(Before(S, s))
  BY <1>1, <1>2, FS_Subset
<1>4. Cardinality(Before(S, s)) \in Nat /\ Cardinality(Before(S, t)) \in Nat
      /\ Cardinality(S) \in Nat
  BY <1>1, <1>3, FS_CardinalityType
<1>5. Cardinality(Before(S, s)) <= Cardinality(Before(S, t))
  BY <1>2, <1>3, FS_Subset
<1>6. Before(S, s) \in SUBSET S /\ Before(S, s) # S
  BY <1>2
<1>7. Cardinality(Before(S, s)) <= Cardinality(S) /\ Cardinality(Before(S, s)) # Cardinality(S)
  BY <1>1, <1>6, FS_Subset
<1> QED
  BY <1>1, <1>4, <1>5, <1>7

LEMMA SameCount == ASSUME NEW S PROVE Replay!Cardinality(S) = Cardinality(S)
  BY DEF Replay!Cardinality, Cardinality

LEMMA ScanIs == Replay!Scanned = {s \in Replay!Entries : Cardinality(Before(Replay!Entries,
        s)) < MaxScan}
  BY SameCount DEF Replay!Scanned, Before

LEMMA PageIs == ASSUME NEW c
    PROVE Replay!Page(c) = {s \in Replay!After(c) : Cardinality(Before(Replay!After(c),
            s)) < PageSize}
  BY SameCount DEF Replay!Page, Before

\* A scan that reaches the end of the stream has all entries, and a page is the first of
\* those after the cursor.
LEMMA Scans ==
    ASSUME Cardinality(Replay!Entries) <= MaxScan
    PROVE  Replay!Scanned = Replay!Entries
<1>1. Replay!Entries \in SUBSET Replay!Seq
  BY DEF Replay!Entries
<1>2. ASSUME NEW s \in Replay!Entries PROVE Cardinality(Before(Replay!Entries, s)) < MaxScan
  <2>1. s <= s
    BY <1>1, DlqAssumption DEF Replay!Seq
  <2> QED
    BY <1>1, <2>1, BeforeIs, DlqAssumption
<1> QED
  BY <1>2, ScanIs

LEMMA Pages ==
    ASSUME NEW c \in 0..MaxSeq
    PROVE  /\ Replay!Page(c) \in SUBSET Replay!Seq /\ Replay!Page(c) \subseteq Replay!After(c)
           /\ Replay!After(c) = {s \in Replay!Scanned : s > c}
           /\ Replay!Page(c) = {} => Replay!After(c) = {}
           /\ \A s \in Replay!Page(c), u \in Replay!After(c) : u <= s => u \in Replay!Page(c)
<1>1. Replay!After(c) \in SUBSET Replay!Seq /\ Replay!After(c) = {s \in Replay!Scanned : s > c}
      /\ Replay!Page(c) \subseteq Replay!After(c)
  BY PageIs DEF Replay!After, Replay!Scanned, Replay!Entries
<1>2. ASSUME Replay!After(c) # {} PROVE Replay!Page(c) # {}
  <2>1. PICK s \in Replay!After(c) : \A u \in Replay!After(c) : s <= u
    BY <1>1, <1>2, LeastIs DEF Replay!Seq
  <2>2. Before(Replay!After(c), s) = {}
    BY <1>1, <2>1, DlqAssumption DEF Before, Replay!Seq
  <2>3. Cardinality(Before(Replay!After(c), s)) < PageSize
    BY <2>2, FS_EmptySet, DlqAssumption
  <2> QED
    BY <2>3, PageIs
<1>3. ASSUME NEW s \in Replay!Page(c), NEW u \in Replay!After(c), u <= s PROVE u \in Replay!Page(c)
  <2>1. s \in Replay!After(c) /\ Cardinality(Before(Replay!After(c), s)) < PageSize
    BY PageIs
  <2>2. Cardinality(Before(Replay!After(c), u)) <= Cardinality(Before(Replay!After(c), s))
        /\ Cardinality(Before(Replay!After(c), u)) \in Nat
           /\ Cardinality(Before(Replay!After(c), s)) \in Nat
    BY <1>1, <1>3, <2>1, BeforeIs
  <2>3. Cardinality(Before(Replay!After(c), u)) < PageSize
    BY <2>1, <2>2, DlqAssumption
  <2> QED
    BY <2>3, PageIs
<1> QED
  BY <1>1, <1>2, <1>3

LEMMA PageStep == ASSUME DqInv, Replay!NextPage PROVE DqInv'
<1> DEFINE page == Replay!Page(walk.cursor)
           next == IF page = {} THEN 0 ELSE CHOOSE s \in page : \A u \in page : u <= s
           fits == Cardinality(Replay!Entries) <= MaxScan
<1>1. walk.pc = "page" /\ Replay!Turn(next, page)
      /\ UNCHANGED <<dlq, last, raw, good, lost, repaired, run, log, sent, calls>>
  BY DEF Replay!NextPage, Replay!stream, Replay!enricher
<1>2. WalkOK(walk, Replay!Entries) /\ walk \in WalkType /\ walk.cursor \in 0..MaxSeq /\ ~walk.twice
  BY DEF DqInv, Walked, WalkOK, WalkType
<1>3. /\ page \in SUBSET Replay!Seq /\ page \subseteq Replay!After(walk.cursor)
      /\ Replay!After(walk.cursor) = {s \in Replay!Scanned : s > walk.cursor}
      /\ page = {} => Replay!After(walk.cursor) = {}
      /\ \A s \in page, u \in Replay!After(walk.cursor) : u <= s => u \in page
  BY <1>2, Pages
<1>4. next \in 0..MaxSeq /\ (page # {} => next \in page /\ \A u \in page : u <= next)
  <2>1. CASE page = {}
    BY <2>1, DlqAssumption
  <2>2. CASE page # {}
    <3>1. \E s \in page : \A u \in page : u <= s
      BY <1>3, <2>2, GreatestIs
    <3>2. next \in page /\ \A u \in page : u <= next
      BY <2>2, <3>1
    <3>3. next \in 0..MaxSeq
      <4> HIDE DEF page, next
      <4> QED
        BY <1>3, <3>2, DlqAssumption DEF Replay!Seq
    <3> QED
      BY <3>2, <3>3
  <2> QED
    BY <2>1, <2>2
<1> HIDE DEF page, next, fits
<1>5. /\ walk'.seen = walk.seen \cup page /\ walk'.must = walk.must /\ walk'.cursor = next
      /\ walk'.pc = IF page = {} THEN "end" ELSE "page"
  BY <1>1, <1>2 DEF Replay!Turn, WalkType
<1>6. walk'.twice = (walk.twice \/ walk.seen \cap page # {}) /\ walk'.whole = (walk.whole /\ fits)
  BY <1>1, <1>2, SameCount DEF Replay!Turn, WalkType, fits
<1>7. walk' \in WalkType
  BY <1>1, <1>2, <1>3, <1>4 DEF Replay!Turn, WalkType
<1>8. \A s \in page : s > walk.cursor
  BY <1>3
<1>9. walk.seen \cap page = {}
  BY <1>1, <1>2, <1>8, <1>3, DlqAssumption DEF WalkOK, WalkType, Replay!Seq
<1>10. ~walk'.twice
  BY <1>2, <1>6, <1>9, Zenon
<1>11. ASSUME walk'.whole, NEW s \in walk.must
       PROVE  page = {} \/ s <= next => s \in walk.seen \cup page
  <2>1. walk.whole /\ fits
    BY <1>6, <1>11, Zenon
  <2>2. Replay!Scanned = Replay!Entries
    BY <2>1, Scans DEF fits
  <2>3. s \in Replay!Scanned /\ s \in Replay!Seq
    BY <1>2, <2>2 DEF WalkOK, WalkType
  <2>4. CASE s <= walk.cursor
    BY <1>1, <1>2, <2>1, <2>4 DEF WalkOK
  <2>5. CASE s > walk.cursor
    BY <1>3, <1>4, <2>3, <2>5
  <2> QED
    BY <1>2, <2>3, <2>4, <2>5, DlqAssumption DEF Replay!Seq
<1>12. \A s \in walk.seen \cup page : page # {} => s <= next
  BY <1>1, <1>2, <1>3, <1>4, <1>8, DlqAssumption DEF WalkOK, WalkType, Replay!Seq
<1>13. WalkOK(walk', Replay!Entries)
  BY <1>2, <1>5, <1>7, <1>10, <1>11, <1>12 DEF WalkOK
<1>14. calls <= calls' /\ calls' \in 0..MaxCalls
  BY <1>1, DlqAssumption DEF DqInv, Plain
<1> QED
  BY <1>1, <1>13, <1>14, WalkMoves

LEMMA DlqStays == ASSUME DqInv,
    UNCHANGED <<dlq, last, raw, good, repaired, lost, log, sent, run, walk>>,
                         calls <= calls', calls' \in 0..MaxCalls
                  PROVE  DqInv'
<1>1. Plain' /\ RawOK(raw', sent)
  BY DEF DqInv, Plain, Counted
<1>2. FirmKept'
  BY DEF DqInv, FirmKept, Firm, Replay!Entries
<1> QED
  BY <1>1, <1>2, Apart

LEMMA DlqStep == DqInv /\ Replay!Next => DqInv'
  BY DispatchStep, ParkStep, DeployStep, AgeOutStep, ReplayStep, AuditReplayStep, GetStep,
  PublishStep,
     DeleteStep, FailStep, ListStep, PageStep
     DEF Replay!Next

\* The calls of a ticket count against the same bound.
LEMMA TicketCalls == ASSUME calls \in 0..MaxCalls, Desk!TicketsNext PROVE calls <= calls'
    /\ calls' \in 0..MaxCalls
<1>1. calls' = calls \/ (calls < MaxCalls /\ calls' = calls + 1)
  BY DEF Desk!TicketsNext, Desk!TheirChange, Desk!Create, Desk!InsertTicket, Desk!ProviderCreate,
  Desk!Link,
         Desk!Load, Desk!LogChange, Desk!WriteState, Desk!ProviderUpdate, Desk!Webhook, Desk!Apply
<1> QED
  BY <1>1, DlqAssumption

\* For any messages, replays at once, entries parked, and pages and scans of any size, and
\* whichever calls fail: no message is gone, a replay was logged before it published, once,
\* and was asked for by who may see all tenants, and a walk shows every entry that stayed,
\* none twice, as long as a scan reaches the end.
THEOREM DlqHolds == PartsSpec => []DlqTrue
<1>1. PartsInit => DqInv
  BY DlqBegins DEF PartsInit
<1>2. ASSUME DqInv,
             [PartsNext]_<<part, vars, dlqVars, userVars, ticketVars, licVars, calls, faults>>
             PROVE DqInv'
  <2>1. calls \in 0..MaxCalls
    BY <1>2 DEF DqInv, Plain
  <2>2. CASE UNCHANGED dlqVars /\ calls' = calls
    <3>1. calls <= calls' /\ calls' \in 0..MaxCalls
      BY <2>1, <2>2, DlqAssumption
    <3> QED
      BY <1>2, <2>2, <3>1, DlqStays DEF dlqVars
  <2>3. CASE UNCHANGED dlqVars /\ Desk!TicketsNext
    BY <1>2, <2>1, <2>3, TicketCalls, DlqStays DEF dlqVars
  <2>4. CASE Replay!Next
    BY <1>2, <2>4, DlqStep
  <2> QED
    BY <1>2, <2>2, <2>3, <2>4 DEF PartsNext
<1>3. DqInv => DlqTrue
  BY DlqImplies DEF DlqTrue
<1> QED
  BY <1>1, <1>2, <1>3, PTL DEF PartsSpec

-----------------------------------------------------------------------------
(* The licence.  What a refresh made of the file was true when it was made.   *)

Judged ==
    /\ now \in Nat /\ checked \in 0 .. now /\ disk \in Files \cup {"missing", "unreadable"}
    /\ state \in {"missing", "invalid", "valid", "grace", "expired"}
    /\ claims \in Signed \cup {Vendor!None, Vendor!Dev}
    /\ claims = Vendor!Dev => Permissive
    /\ state = "valid" => claims # Vendor!None
    /\ state = "valid" /\ claims \in Signed => checked < EndsAt[claims]
    /\ state = "grace" =>
           claims \in Signed /\ checked >= EndsAt[claims] /\ checked < EndsAt[claims] + Grace
    /\ state = "expired" => claims \in Signed /\ checked >= EndsAt[claims] + Grace

LastWord ==
    /\ wordAt = -1 \/ wordAt \in 0 .. now
    /\ heard.at <= now /\ heard.at \in Nat
    /\ heard.from = "cache" /\ heard.ok /\ heard.at = now =>
           wordAt # -1 /\ now - wordAt <= StaleAfter /\ heard.valid = word

LicInv == Judged /\ LastWord

LEMMA LicImplies == LicInv => Vendor!LicenceTrue
<1> SUFFICES ASSUME LicInv PROVE Vendor!LicenceTrue
  OBVIOUS
<1>1. Vendor!AsChecked
  <2>1. claims \in Signed => EndsAt[claims] \in Nat
    BY VendorAssumption
  <2>2. claims \in Files => claims \in Signed
    BY VendorAssumption DEF LicInv, Judged, Vendor!None, Vendor!Dev
  <2> QED
    BY <2>1, <2>2, VendorAssumption DEF LicInv, Judged, Vendor!AsChecked, Vendor!Writable
<1>2. Vendor!CacheTrue
  BY DEF LicInv, Judged, LastWord, Vendor!CacheTrue
<1> QED
  BY <1>1, <1>2 DEF Vendor!LicenceTrue

\* A refresh says of the file what holds now.
LEMMA RefreshTells ==
    ASSUME NEW file \in Files \cup {"missing", "unreadable"}, NEW old \in Signed \cup {Vendor!None, Vendor!Dev}, now \in Nat
    PROVE  /\ Vendor!StateOf(file) \in {"missing", "invalid", "valid", "grace", "expired"}
           /\ Vendor!StateOf(file) \in {"valid", "grace", "expired"} => file \in Signed
           /\ Vendor!StateOf(file) = "valid" => now < EndsAt[file]
           /\ Vendor!StateOf(file) = "grace" => now >= EndsAt[file] /\ now < EndsAt[file] + Grace
           /\ Vendor!StateOf(file) = "expired" => now >= EndsAt[file] + Grace
           /\ Vendor!Loaded(file, old) = IF file \in Signed THEN file ELSE old
<1>1. file \in Signed => file \notin Files \ Signed /\ file # "missing" /\ file # "unreadable"
  BY VendorAssumption
<1>2. file \in Signed => EndsAt[file] \in Nat /\ Grace \in Nat
  BY VendorAssumption
<1>3. CASE file \in Signed
  BY <1>1, <1>2, <1>3 DEF Vendor!StateOf, Vendor!Loaded
<1>4. CASE file \notin Signed
  <2>1. Vendor!StateOf(file) \in {"missing", "invalid"}
    BY <1>4 DEF Vendor!StateOf
  <2> QED
    BY <1>4, <2>1 DEF Vendor!Loaded
<1> QED
  BY <1>3, <1>4

LEMMA LicBegins == Vendor!LicInit => LicInv
<1> SUFFICES ASSUME Vendor!LicInit PROVE LicInv
  OBVIOUS
<1>1. /\ now = 0 /\ checked = 0 /\ wordAt = -1 /\ heard = Vendor!NoAnswer
      /\ disk \in Files \cup {"missing", "unreadable"}
  BY DEF Vendor!LicInit
<1>2. LastWord
  BY <1>1 DEF LastWord, Vendor!NoAnswer
<1>3. Judged
  <2>1. CASE disk = "missing" /\ Permissive
    BY <1>1, <2>1, VendorAssumption DEF Vendor!LicInit, Judged, Vendor!Dev, Vendor!None
  <2>2. CASE ~ (disk = "missing" /\ Permissive)
    <3>1. state = Vendor!StateOf(disk) /\ claims = Vendor!Loaded(disk, Vendor!None)
      BY <2>2 DEF Vendor!LicInit
    <3>2. Vendor!None \in Signed \cup {Vendor!None, Vendor!Dev} /\ Vendor!None # Vendor!Dev
            /\ Vendor!Dev \notin Signed /\ Vendor!None \notin Signed
      BY VendorAssumption DEF Vendor!None, Vendor!Dev
    <3> QED
      BY <1>1, <3>1, <3>2, RefreshTells, VendorAssumption DEF Judged
  <2> QED
    BY <2>1, <2>2
<1> QED
  BY <1>2, <1>3 DEF LicInv

LEMMA RefreshStep == ASSUME LicInv, Vendor!Refresh PROVE LicInv'
<1>1. /\ checked' = now /\ state' = Vendor!StateOf(disk) /\ claims' = Vendor!Loaded(disk, claims)
      /\ UNCHANGED <<disk, now, word, wordAt, heard>>
  BY DEF Vendor!Refresh
<1>2. LastWord'
  BY <1>1 DEF LicInv, LastWord
<1>3. Vendor!None # Vendor!Dev /\ Vendor!Dev \notin Signed /\ Vendor!None \notin Signed
        /\ claims \in Signed \cup {Vendor!None, Vendor!Dev} /\ now \in Nat
        /\ disk \in Files \cup {"missing", "unreadable"}
  BY VendorAssumption DEF Vendor!None, Vendor!Dev, LicInv, Judged
<1>4. Judged'
  BY <1>1, <1>3, RefreshTells, VendorAssumption DEF LicInv, Judged
<1> QED
  BY <1>2, <1>4 DEF LicInv

LEMMA TickStep == ASSUME LicInv, Vendor!Tick PROVE LicInv'
<1>1. now' = now + 1 /\ UNCHANGED <<disk, checked, state, claims, word, wordAt, heard>>
  BY DEF Vendor!Tick
<1> QED
  BY <1>1, VendorAssumption DEF LicInv, Judged, LastWord

LEMMA ValidateStep == ASSUME LicInv, Vendor!Validate \/ Vendor!FallbackCache PROVE LicInv'
<1>1. UNCHANGED <<disk, now, checked, state, claims>>
  BY DEF Vendor!Validate, Vendor!FallbackCache
<1>2. Judged'
  BY <1>1 DEF LicInv, Judged
<1>3. CASE Vendor!Validate
  BY <1>3 DEF Vendor!Validate, LicInv, Judged, LastWord
<1>4. CASE Vendor!FallbackCache
  <2>1. CASE wordAt = -1
    BY <1>4, <2>1 DEF Vendor!FallbackCache, LicInv, Judged, LastWord, Vendor!NoAnswer
  <2>2. CASE wordAt # -1
    <3>1. /\ heard' = [valid |-> word, ok |-> now - wordAt <= StaleAfter, from |-> "cache",
            at |-> now]
          /\ UNCHANGED <<now, word, wordAt>>
      BY <1>4, <2>2 DEF Vendor!FallbackCache
    <3>2. heard'.at = now /\ heard'.valid = word /\ (heard'.ok => now - wordAt <= StaleAfter)
      BY <3>1
    <3> QED
      BY <1>2, <2>2, <3>1, <3>2 DEF LicInv, Judged, LastWord
  <2> QED
    BY <2>1, <2>2
<1> QED
  BY <1>2, <1>3, <1>4 DEF LicInv

LEMMA LicStays == ASSUME LicInv, UNCHANGED <<now, checked, state, claims, word, wordAt, heard>>,
                         disk' \in Files \cup {"missing", "unreadable"}
                  PROVE  LicInv'
  BY DEF LicInv, Judged, LastWord

LEMMA LicStep == ASSUME LicInv, Vendor!LicNext PROVE LicInv'
<1>1. CASE (\E f \in Files \cup {"missing", "unreadable"} : Vendor!Drop(f)) \/ Vendor!ServerDecides
  BY <1>1, LicStays DEF Vendor!Drop, Vendor!ServerDecides, LicInv, Judged
<1> QED
  BY <1>1, RefreshStep, TickStep, ValidateStep DEF Vendor!LicNext

-----------------------------------------------------------------------------
(* The ticket.  A caller that is past its load carries a change the table     *)
(* allows, from the state the row was given by the write it saw last; one     *)
(* that is past its entry has that entry in the log, for itself.              *)

Line == [by : {"create", "change", "webhook"}, from : Desk!States \cup {"none"}, to : Desk!States]
Mark == [by : {"create", "change", "webhook"}, from : Desk!States \cup {"none"}, to : Desk!States,
         since : Nat, entry : Nat]
Steps == {"free", "insert", "forward", "link", "log", "write", "update", "apply"}
Post == [step : Steps, from : Desk!States \cup {"none"}, to : Desk!States \cup {"none"},
         since : Nat, entry : Nat]

DeskType ==
    /\ ticket \in Desk!States \cup {"none"} /\ theirs \in Desk!States \cup {"none"}
    /\ linked \in BOOLEAN
    /\ entries \in Seq(Line) /\ written \in Seq(Mark)
    /\ at \in [Callers -> Post]

\* No write of the row was made on the n-th entry of the log.
Unspent(ws, n) == \A k \in DOMAIN ws : ws[k].by # "webhook" => ws[k].entry # n
Entered(es, n, by, to) == n \in DOMAIN es /\ es[n].by = by /\ es[n].to = to

\* Announced and OnlyOvertaken, of the i-th write of a history and of a log.
Told(es, ws, i) ==
    /\ Entered(es, ws[i].entry, ws[i].by, ws[i].to)
    /\ ws[i].by = "change" =>
           /\ ws[i].since \in 1..(i - 1) /\ es[ws[i].entry].from = ws[ws[i].since].to
           /\ Desk!CanTransition(ws[ws[i].since].to, ws[i].to)
    /\ \A k \in 1..(i - 1) : ws[k].by # "webhook" => ws[k].entry # ws[i].entry
Overtaken(ws, i) ==
    ws[i].by = "change" /\ ~Desk!CanTransition(ws[i].from, ws[i].to) =>
        \E k \in (ws[i].since + 1)..(i - 1) : ws[k].to = ws[i].from
AllTold(es, ws) == \A i \in DOMAIN ws : (ws[i].by # "webhook" => Told(es, ws, i)) /\ Overtaken(ws, i)

LEMMA ToldIs == Desk!Announced /\ Desk!OnlyOvertaken <=> AllTold(entries, written)
  BY DEF Desk!Announced, Desk!OnlyOvertaken, AllTold, Told, Overtaken, Entered

Owes(c) == at[c].step \in {"insert", "write"}

Carried(c) ==
    /\ Owes(c) =>
           /\ Entered(entries, at[c].entry, IF at[c].step = "insert" THEN "create" ELSE "change", at[c].to)
           /\ Unspent(written, at[c].entry)
           /\ \A d \in Callers \ {c} : Owes(d) => at[d].entry # at[c].entry
    /\ at[c].step = "insert" =>
           ticket = "none" /\ at[c].to = "open" /\ \A d \in Callers : at[d].step = "insert" => d = c
    /\ at[c].step \in {"forward", "link", "log", "write", "update", "apply"} => ticket # "none"
    /\ at[c].step \in {"log", "write"} =>
           /\ at[c].since \in DOMAIN written /\ at[c].from = written[at[c].since].to
           /\ Desk!CanTransition(at[c].from, at[c].to)
    /\ at[c].step = "write" => entries[at[c].entry].from = at[c].from
    /\ at[c].step \in {"insert", "log", "write", "update", "apply"} => at[c].to \in Desk!States
    /\ at[c].step = "link" => theirs # "none"

DeskInv ==
    /\ DeskType
    /\ \A c \in Callers : Carried(c)
    /\ linked => ticket # "none"
    /\ ticket # "none" => entries # <<>>
    /\ AllTold(entries, written) /\ Desk!Stamped

LEMMA NamesApart == "none" \notin Desk!States
  BY DEF Desk!States

\* Grown logs lose nothing.
Grown(new, old) == DOMAIN old \subseteq DOMAIN new /\ \A i \in DOMAIN old : new[i] = old[i]

LEMMA Appended ==
    ASSUME NEW S, NEW s \in Seq(S), NEW e \in S
    PROVE  /\ Append(s, e) \in Seq(S) /\ Append(s, e) # <<>>
           /\ Len(Append(s, e)) = Len(s) + 1 /\ Append(s, e)[Len(s) + 1] = e
           /\ DOMAIN Append(s, e) = DOMAIN s \cup {Len(s) + 1}
           /\ \A i \in DOMAIN s : Append(s, e)[i] = s[i] /\ i \in DOMAIN Append(s, e)
           /\ Len(s) + 1 \notin DOMAIN s /\ DOMAIN s = 1 .. Len(s) /\ Len(s) \in Nat
           /\ Grown(Append(s, e), s)
  BY AppendProperties, LenProperties DEF Grown

LEMMA GrownSelf == \A s : Grown(s, s)
  BY DEF Grown

\* What a write was announced by, and what it was overtaken by, stays.
LEMMA ToldStays ==
    ASSUME NEW es, NEW fs, NEW ws \in Seq(Mark), NEW xs, Grown(fs, es), Grown(xs, ws), NEW i \in DOMAIN ws
    PROVE  /\ Told(es, ws, i) => Told(fs, xs, i)
           /\ Overtaken(ws, i) => Overtaken(xs, i)
<1>1. xs[i] = ws[i] /\ \A k \in 1 .. (i - 1) : k \in DOMAIN ws /\ xs[k] = ws[k]
  BY LenProperties DEF Grown
<1>2. ws[i].since \in Nat /\ i \in Nat
  <2>1. ws[i] \in Mark /\ i \in Nat
    BY LenProperties
  <2> QED
    BY <2>1 DEF Mark
<1>3. ASSUME Told(es, ws, i) PROVE Told(fs, xs, i)
  <2>1. Entered(fs, xs[i].entry, xs[i].by, xs[i].to) /\ fs[xs[i].entry] = es[ws[i].entry]
    BY <1>1, <1>3 DEF Told, Entered, Grown
  <2>2. ws[i].by = "change" => xs[ws[i].since] = ws[ws[i].since]
    BY <1>1, <1>3 DEF Told
  <2>3. \A k \in 1 .. (i - 1) : xs[k].by # "webhook" => xs[k].entry # xs[i].entry
    BY <1>1, <1>3 DEF Told
  <2> QED
    BY <1>1, <1>3, <2>1, <2>2, <2>3 DEF Told
<1>4. ASSUME Overtaken(ws, i) PROVE Overtaken(xs, i)
  <2>1. \A k \in (ws[i].since + 1) .. (i - 1) : xs[k] = ws[k]
    BY <1>1, <1>2
  <2> QED
    BY <1>1, <1>4, <2>1 DEF Overtaken
<1> QED
  BY <1>3, <1>4

LEMMA AllToldStays ==
    ASSUME DeskInv, Grown(entries', entries), written' = written
    PROVE  AllTold(entries', written')
<1>1. written \in Seq(Mark) /\ Grown(written', written) /\ AllTold(entries, written)
  BY GrownSelf DEF DeskInv, DeskType
<1> QED
  BY <1>1, ToldStays DEF AllTold

\* One more write, of which the log tells.
LEMMA TrueGrows ==
    ASSUME DeskInv, NEW w \in Mark, written' = Append(written, w), ticket' = w.to,
           UNCHANGED <<linked, theirs, entries>>,
           w.by # "webhook" => Told(entries, Append(written, w), Len(written) + 1),
           Overtaken(Append(written, w), Len(written) + 1),
           written = <<>> => w.by = "create",
           stamps' = stamps \/ (w.by = "change" /\ stamps' \subseteq stamps \cup {w.to})
    PROVE  AllTold(entries', written') /\ Desk!Stamped'
<1>1. written \in Seq(Mark) /\ AllTold(entries, written) /\ Desk!Stamped
  BY DEF DeskInv, DeskType
<1>2. Grown(written', written) /\ Grown(entries', entries)
  BY <1>1, Appended, GrownSelf
<1>3. /\ DOMAIN written' = DOMAIN written \cup {Len(written) + 1} /\ written'[Len(written) + 1] = w
      /\ \A i \in DOMAIN written : written'[i] = written[i]
      /\ Len(written') = Len(written) + 1 /\ written' # <<>>
  BY <1>1, Appended
<1>4. AllTold(entries', written')
  <2> SUFFICES ASSUME NEW i \in DOMAIN written'
               PROVE  (written'[i].by # "webhook" => Told(entries', written', i)) /\ Overtaken(written', i)
    BY DEF AllTold
  <2>1. CASE i \in DOMAIN written
    BY <1>1, <1>2, <1>3, <2>1, ToldStays DEF AllTold
  <2>2. CASE i = Len(written) + 1
    BY <1>3, <2>2
  <2> QED
    BY <1>3, <2>1, <2>2
<1>6. ticket' # "none"
  BY NamesApart DEF Mark
<1>7. written'[1].by = "create"
  <2>1. CASE written = <<>>
    BY <1>3, <2>1
  <2>2. CASE written # <<>>
    <3>1. 1 \in DOMAIN written
      BY <1>1, <2>2, EmptySeq, LenProperties
    <3> QED
      BY <1>1, <1>3, <2>2, <3>1 DEF Desk!Stamped
  <2> QED
    BY <2>1, <2>2
<1>8. \A s \in stamps' : \E i \in DOMAIN written' : written'[i].by = "change" /\ written'[i].to = s
  <2> SUFFICES ASSUME NEW s \in stamps'
               PROVE  \E i \in DOMAIN written' : written'[i].by = "change" /\ written'[i].to = s
    OBVIOUS
  <2>1. CASE s \in stamps
    BY <1>1, <1>3, <2>1 DEF Desk!Stamped
  <2>2. CASE w.by = "change" /\ s = w.to
    BY <1>3, <2>2
  <2> QED
    BY <2>1, <2>2
<1>9. Desk!Stamped'
  BY <1>1, <1>3, <1>6, <1>7, <1>8 DEF Desk!Stamped
<1> QED
  BY <1>4, <1>9

LEMMA DeskBegins == Desk!TicketsInit => DeskInv
<1> SUFFICES ASSUME Desk!TicketsInit PROVE DeskInv
  OBVIOUS
<1>1. DeskType
  <2>1. <<>> \in Seq(Line) /\ <<>> \in Seq(Mark)
    OBVIOUS
  <2> QED
    BY <2>1 DEF Desk!TicketsInit, DeskType, Desk!Free, Steps, Post
<1>2. \A c \in Callers : Carried(c)
  BY DEF Desk!TicketsInit, Carried, Desk!Free, Owes
<1>3. AllTold(entries, written) /\ Desk!Stamped
  BY DEF Desk!TicketsInit, AllTold, Desk!Stamped
<1> QED
  BY <1>1, <1>2, <1>3 DEF Desk!TicketsInit, DeskInv

LEMMA TypesHold ==
    ASSUME DeskInv
    PROVE  /\ ticket \in Desk!States \cup {"none"} /\ theirs \in Desk!States \cup {"none"}
           /\ linked \in BOOLEAN
           /\ entries \in Seq(Line) /\ written \in Seq(Mark) /\ Len(written) \in Nat
           /\ (linked => ticket # "none" /\ theirs # "none") /\ (ticket # "none" => entries # <<>>)
           /\ (ticket = "none" <=> written = <<>>)
           /\ written # <<>> => Len(written) \in DOMAIN written /\ written[Len(written)].to = ticket
           /\ \A c \in Callers : Carried(c) /\ at[c] \in Post
           /\ at \in [Callers -> Post]
           /\ AllTold(entries, written) /\ Desk!Stamped
<1>1. written \in Seq(Mark) /\ Desk!Stamped
  BY DEF DeskInv, DeskType
<1>2. Len(written) \in Nat /\ (written # <<>> => Len(written) \in DOMAIN written)
  BY <1>1, EmptySeq, LenProperties
<1>3. at \in [Callers -> Post] /\ \A c \in Callers : at[c] \in Post
  BY DEF DeskInv, DeskType
<1> QED
  BY <1>1, <1>2, <1>3 DEF DeskInv, DeskType, Desk!Stamped

LEMMA Posts ==
    ASSUME DeskInv, NEW c \in Callers
    PROVE  /\ Desk!Free \in Post /\ Desk!Free.step = "free"
           /\ \A s \in Steps : LET r == [at[c] EXCEPT !.step = s] IN
                  r \in Post /\ r.step = s /\ r.from = at[c].from /\ r.to = at[c].to
           /\ \A n \in Nat : LET r == [at[c] EXCEPT !.step = "write", !.entry = n] IN
                  /\ r \in Post /\ r.step = "write" /\ r.from = at[c].from /\ r.to = at[c].to
                  /\ r.since = at[c].since /\ r.entry = n
<1>1. Desk!Free \in Post /\ Desk!Free.step = "free"
  BY DEF Desk!Free, Post, Steps
<1>2. at[c] \in Post
  BY TypesHold
<1> QED
  BY <1>1, <1>2 DEF Post, Steps

\* What the others carry stays while the log and the history grow, and nobody
\* writes on their entries.
LEMMA OthersStay ==
    ASSUME DeskInv, NEW c \in Callers, NEW d \in Callers \ {c},
           \A e \in Callers \ {c} : at'[e] = at[e],
           Grown(entries', entries), Grown(written', written),
           Owes(d) => Unspent(written', at[d].entry),
           at'[c].step \in {"insert", "write"} => (Owes(d) => at[d].entry # at'[c].entry),
           ticket # "none" => ticket' # "none", at[d].step = "insert" => ticket' = "none",
           theirs # "none" => theirs' # "none",
           at'[c].step = "insert" => at[d].step # "insert"
    PROVE  Carried(d)'
<1>1. Carried(d) /\ at'[d] = at[d] /\ (Owes(d)' <=> Owes(d))
  BY DEF DeskInv, Owes
<1>2. Owes(d) =>
          Entered(entries', at[d].entry, IF at[d].step = "insert" THEN "create" ELSE "change", at[d].to)
  BY <1>1 DEF Carried, Entered, Grown
<1>3. Owes(d) => \A e \in Callers \ {d} : Owes(e)' => at'[e].entry # at[d].entry
  <2> SUFFICES ASSUME Owes(d), NEW e \in Callers \ {d}, Owes(e)' PROVE at'[e].entry # at[d].entry
    OBVIOUS
  <2>1. CASE e = c
    BY <2>1 DEF Owes
  <2>2. CASE e # c
    BY <1>1, <2>2 DEF Owes, Carried
  <2> QED
    BY <2>1, <2>2
<1>4. at[d].step = "insert" => \A e \in Callers : at'[e].step = "insert" => e = d
  BY <1>1 DEF Carried
<1>5. at[d].step \in {"log", "write"} => at[d].since \in DOMAIN written' /\ at[d].from = written'[at[d].since].to
  BY <1>1 DEF Carried, Grown
<1>6. at[d].step = "write" => entries'[at[d].entry].from = at[d].from
  BY <1>1 DEF Carried, Owes, Entered, Grown
<1>7. Owes(d)' => /\ Entered(entries', at'[d].entry, IF at'[d].step = "insert" THEN "create" ELSE "change", at'[d].to)
                  /\ Unspent(written', at'[d].entry)
                  /\ \A e \in Callers \ {d} : Owes(e)' => at'[e].entry # at'[d].entry
  BY <1>1, <1>2, <1>3
<1> QED
  BY <1>1, <1>4, <1>5, <1>6, <1>7 DEF Carried

\* What a step of one caller has to keep.
LEMMA Keeps ==
    ASSUME DeskInv, NEW c \in Callers, NEW r \in Post, at' = [at EXCEPT ![c] = r],
           ticket' \in Desk!States \cup {"none"}, theirs' \in Desk!States \cup {"none"},
           linked' \in BOOLEAN,
           entries' \in Seq(Line), written' \in Seq(Mark),
           Grown(entries', entries), Grown(written', written),
           \A d \in Callers \ {c} : Owes(d) => Unspent(written', at[d].entry),
           r.step \in {"insert", "write"} => \A d \in Callers \ {c} : Owes(d) => at[d].entry # r.entry,
           ticket # "none" => ticket' # "none",
           ticket' = ticket \/ \A d \in Callers \ {c} : at[d].step # "insert",
           theirs # "none" => theirs' # "none",
           r.step = "insert" => \A d \in Callers \ {c} : at[d].step # "insert",
           at'[c] = r => Carried(c)',
           linked' => ticket' # "none", ticket' # "none" => entries' # <<>>,
           AllTold(entries', written') /\ Desk!Stamped'
    PROVE  DeskInv'
<1>1. at' \in [Callers -> Post] /\ at'[c] = r /\ \A d \in Callers \ {c} : at'[d] = at[d]
  BY TypesHold
<1>2. DeskType'
  BY <1>1 DEF DeskType
<1>3. ASSUME NEW d \in Callers \ {c} PROVE Carried(d)'
  <2>1. at[d].step = "insert" => ticket' = "none"
    BY DEF DeskInv, Carried
  <2> QED
    BY <1>1, <2>1, OthersStay
<1> QED
  BY <1>1, <1>2, <1>3 DEF DeskInv

\* A step after which the row is as it was.
LEMMA QuietKeeps ==
    ASSUME DeskInv, NEW c \in Callers, NEW r \in Post, at' = [at EXCEPT ![c] = r],
           UNCHANGED <<ticket, stamps, written>>,
           theirs' \in Desk!States \cup {"none"}, linked' \in BOOLEAN,
           entries' \in Seq(Line), Grown(entries', entries), entries # <<>> => entries' # <<>>,
           r.step \in {"insert", "write"} => \A d \in Callers \ {c} : Owes(d) => at[d].entry # r.entry,
           theirs # "none" => theirs' # "none",
           linked' => linked \/ (theirs # "none" /\ ticket # "none"),
           r.step = "insert" => \A d \in Callers \ {c} : at[d].step # "insert",
           at'[c] = r => Carried(c)'
    PROVE  DeskInv'
<1>1. AllTold(entries', written')
  BY AllToldStays
<1>2. Desk!Stamped'
  BY TypesHold DEF Desk!Stamped
<1>3. Grown(written', written)
  BY GrownSelf
<1>4. \A d \in Callers \ {c} : Owes(d) => Unspent(written', at[d].entry)
  BY TypesHold DEF Carried
<1> QED
  BY <1>1, <1>2, <1>3, <1>4, TypesHold, Keeps

LEMMA CreateStep == ASSUME DeskInv, NEW c \in Callers, Desk!Create(c) PROVE DeskInv'
<1> DEFINE e == [by |-> "create", from |-> "none", to |-> "open"]
           r == [Desk!Free EXCEPT !.step = "insert", !.to = "open", !.entry = 1]
<1>1. /\ ticket = "none" /\ entries = <<>> /\ entries' = <<e>>
      /\ at' = [at EXCEPT ![c] = r] /\ UNCHANGED <<ticket, stamps, linked, theirs, written>>
  BY DEF Desk!Create
<1>2. e \in Line /\ e.by = "create" /\ e.to = "open" /\ "open" \in Desk!States
  BY DEF Line, Desk!States
<1>3. /\ r \in Post /\ r.step = "insert" /\ r.to = "open" /\ r.entry = 1
  BY <1>2 DEF Post, Steps, Desk!Free
<1>4. \A d \in Callers : ~Owes(d) /\ at[d].step # "insert"
  BY <1>1, TypesHold DEF Carried, Entered, Owes
<1>5. entries' \in Seq(Line) /\ Grown(entries', entries) /\ entries' # <<>>
  BY <1>1, <1>2 DEF Grown
<1>6. Entered(entries', 1, "create", "open")
  BY <1>1, <1>2 DEF Entered
<1>7. Unspent(written', 1)
  BY <1>1, TypesHold DEF Unspent
<1> HIDE DEF r, e
<1>8. ASSUME at'[c] = r PROVE Carried(c)'
  <2>1. \A d \in Callers \ {c} : ~Owes(d)' /\ at'[d].step # "insert"
    BY <1>1, <1>4, TypesHold DEF Owes
  <2> QED
    BY <1>1, <1>2, <1>3, <1>6, <1>7, <1>8, <2>1 DEF Carried, Owes
<1> QED
  BY <1>1, <1>3, <1>4, <1>5, <1>8, TypesHold, QuietKeeps

\* A caller that gives up carries nothing.
LEMMA EndsQuietly ==
    ASSUME DeskInv, NEW c \in Callers, at' = [at EXCEPT ![c] = Desk!Free],
           UNCHANGED <<ticket, stamps, entries, written>>,
           theirs' \in Desk!States \cup {"none"}, linked' \in BOOLEAN,
           theirs # "none" => theirs' # "none",
           linked' => linked \/ (theirs # "none" /\ ticket # "none")
    PROVE  DeskInv'
<1>1. Desk!Free \in Post /\ Desk!Free.step = "free"
  BY Posts
<1>2. at'[c] = Desk!Free => Carried(c)'
  BY <1>1 DEF Carried, Owes
<1> QED
  BY <1>1, <1>2, GrownSelf, TypesHold, QuietKeeps

\* A step that moves a caller on and writes nothing down.
LEMMA MovesOn ==
    ASSUME DeskInv, NEW c \in Callers, NEW s \in Steps \ {"insert", "write"}, NEW r \in Post, r.step = s,
           at' = [at EXCEPT ![c] = r],
           UNCHANGED <<ticket, stamps, linked, entries, written>>,
           theirs' \in Desk!States \cup {"none"}, theirs # "none" => theirs' # "none",
           at'[c] = r => Carried(c)'
    PROVE  DeskInv'
  BY GrownSelf, TypesHold, QuietKeeps

\* A write of the row, and what the writer carried before it.
LEMMA RowWritten ==
    ASSUME DeskInv, NEW c \in Callers, NEW w \in Mark, NEW r \in Post, at' = [at EXCEPT ![c] = r],
           written' = Append(written, w), ticket' = w.to, UNCHANGED <<linked, theirs, entries>>,
           entries # <<>>, r.step \in {"free", "forward", "update"},
           w.by # "webhook" => Owes(c) /\ w.entry = at[c].entry
                               /\ Told(entries, Append(written, w), Len(written) + 1),
           Overtaken(Append(written, w), Len(written) + 1),
           written = <<>> => w.by = "create",
           \A d \in Callers \ {c} : at[d].step # "insert",
           stamps' = stamps \/ (w.by = "change" /\ stamps' \subseteq stamps \cup {w.to}),
           r.step = "update" => r.to \in Desk!States
    PROVE  DeskInv'
<1>1. AllTold(entries', written') /\ Desk!Stamped'
  BY TrueGrows
<1>2. /\ written' \in Seq(Mark) /\ Grown(written', written) /\ Grown(entries', entries)
      /\ DOMAIN written' = DOMAIN written \cup {Len(written) + 1} /\ written'[Len(written) + 1] = w
      /\ \A i \in DOMAIN written : written'[i] = written[i]
  BY Appended, TypesHold, GrownSelf
<1>3. ticket' \in Desk!States /\ ticket' # "none"
  BY NamesApart DEF Mark
<1>4. \A d \in Callers \ {c} : Owes(d) => Unspent(written', at[d].entry)
  <2> SUFFICES ASSUME NEW d \in Callers \ {c}, Owes(d), NEW k \in DOMAIN written', written'[k].by # "webhook"
               PROVE  written'[k].entry # at[d].entry
    BY DEF Unspent
  <2>1. CASE k \in DOMAIN written
    BY <1>2, <2>1, TypesHold DEF Carried, Unspent
  <2>2. CASE k = Len(written) + 1
    BY <1>2, <2>2, TypesHold DEF Carried
  <2> QED
    BY <1>2, <2>1, <2>2
<1>5. at'[c] = r => Carried(c)'
  BY <1>3 DEF Carried, Owes
<1> QED
  BY <1>1, <1>2, <1>3, <1>4, <1>5, TypesHold, Keeps

LEMMA MarkIs ==
    ASSUME DeskInv, NEW c \in Callers, NEW by \in {"create", "change", "webhook"},
           NEW over \in Desk!States \cup {"none"}, at[c].to \in Desk!States
    PROVE  LET w == Desk!Write(c, by, over) IN
           /\ w \in Mark /\ w.by = by /\ w.from = over /\ w.to = at[c].to
           /\ w.since = at[c].since /\ w.entry = at[c].entry
<1>1. at[c].since \in Nat /\ at[c].entry \in Nat
  BY TypesHold DEF Post
<1> QED
  BY <1>1 DEF Desk!Write, Mark

\* The write a caller makes on its entry is told of by it.
LEMMA ToldByOwn ==
    ASSUME DeskInv, NEW c \in Callers, Owes(c), NEW w \in Mark, w.to = at[c].to, w.since = at[c].since,
           w.entry = at[c].entry, w.by = IF at[c].step = "insert" THEN "create" ELSE "change"
    PROVE  Told(entries, Append(written, w), Len(written) + 1)
<1> DEFINE xs == Append(written, w)
           n == Len(written)
<1>1. /\ xs[n + 1] = w /\ n \in Nat /\ DOMAIN written = 1 .. n
      /\ \A k \in DOMAIN written : xs[k] = written[k]
  BY Appended, TypesHold
<1>2. Carried(c)
  BY TypesHold
<1> HIDE DEF xs, n
<1>3. Entered(entries, w.entry, w.by, w.to)
  BY <1>2 DEF Carried
<1>4. w.by = "change" =>
        /\ w.since \in 1 .. (n + 1 - 1) /\ entries[w.entry].from = xs[w.since].to
        /\ Desk!CanTransition(xs[w.since].to, w.to)
  BY <1>1, <1>2 DEF Carried, Owes
<1>5. \A k \in 1 .. (n + 1 - 1) : xs[k].by # "webhook" => xs[k].entry # w.entry
  BY <1>1, <1>2 DEF Carried, Unspent
<1>6. Told(entries, xs, n + 1)
  BY <1>1, <1>3, <1>4, <1>5 DEF Told
<1> QED
  BY <1>6 DEF xs, n

LEMMA InsertStep == ASSUME DeskInv, NEW c \in Callers, Desk!InsertTicket(c) PROVE DeskInv'
<1> DEFINE w == Desk!Write(c, "create", "none")
           r == [at[c] EXCEPT !.step = "forward"]
<1>1. /\ ticket = "none" /\ written = <<>> /\ entries # <<>> /\ Owes(c)
      /\ at[c].step = "insert" /\ at[c].to = "open" /\ "open" \in Desk!States
      /\ \A d \in Callers \ {c} : at[d].step # "insert"
  <2>1. Carried(c) /\ at[c].step = "insert"
    BY TypesHold DEF Desk!InsertTicket
  <2>2. Owes(c) /\ entries # <<>>
    BY <2>1 DEF Carried, Owes, Entered
  <2> QED
    BY <2>1, <2>2, TypesHold DEF Carried, Desk!States
<1>2. CASE ticket' = "open" /\ written' = Append(written, w) /\ Desk!Go(c, "forward")
  <2>1. w \in Mark /\ w.by = "create" /\ w.to = at[c].to /\ w.since = at[c].since /\ w.entry = at[c].entry
    BY <1>1, MarkIs
  <2>2. r \in Post /\ r.step = "forward"
    BY Posts DEF Steps
  <2>3. at' = [at EXCEPT ![c] = r] /\ UNCHANGED <<stamps, linked, theirs, entries>>
    BY <1>2 DEF Desk!Go, Desk!InsertTicket
  <2> HIDE DEF w, r
  <2>4. Told(entries, Append(written, w), Len(written) + 1)
    BY <1>1, <2>1, ToldByOwn
  <2>5. Overtaken(Append(written, w), Len(written) + 1)
    BY <2>1, Appended, TypesHold DEF Overtaken
  <2> QED
    BY <1>1, <1>2, <2>1, <2>2, <2>3, <2>4, <2>5, RowWritten
<1>3. CASE Desk!Ends(c) /\ UNCHANGED <<ticket, written>>
  BY <1>3, EndsQuietly, TypesHold DEF Desk!Ends, Desk!InsertTicket
<1> QED
  BY <1>2, <1>3 DEF Desk!InsertTicket

LEMMA ProviderStep == ASSUME DeskInv, NEW c \in Callers, Desk!ProviderCreate(c) PROVE DeskInv'
<1>1. CASE theirs' = "open" /\ Desk!Go(c, "link")
  <2> DEFINE r == [at[c] EXCEPT !.step = "link"]
  <2>1. r \in Post /\ r.step = "link" /\ "open" \in Desk!States
    BY Posts DEF Desk!States, Steps
  <2>2. at' = [at EXCEPT ![c] = r] /\ UNCHANGED <<ticket, stamps, linked, entries, written>>
    BY <1>1 DEF Desk!Go, Desk!ProviderCreate
  <2>3. ticket # "none"
    BY TypesHold DEF Carried, Desk!ProviderCreate
  <2> HIDE DEF r
  <2>4. at'[c] = r => Carried(c)'
    BY <1>1, <2>1, <2>2, <2>3, NamesApart DEF Carried, Owes
  <2>5. "link" \in Steps \ {"insert", "write"}
    BY DEF Steps
  <2> QED
    BY <1>1, <2>1, <2>2, <2>4, <2>5, NamesApart, MovesOn
<1>2. CASE theirs' = theirs /\ Desk!Ends(c)
  BY <1>2, EndsQuietly, TypesHold DEF Desk!Ends, Desk!ProviderCreate
<1> QED
  BY <1>1, <1>2 DEF Desk!ProviderCreate

LEMMA LinkStep == ASSUME DeskInv, NEW c \in Callers, Desk!Link(c) PROVE DeskInv'
<1>1. theirs # "none" /\ ticket # "none"
  BY TypesHold DEF Carried, Desk!Link
<1>2. linked' \in BOOLEAN
  BY TypesHold DEF Desk!Link
<1> QED
  BY <1>1, <1>2, EndsQuietly, TypesHold DEF Desk!Ends, Desk!Link

LEMMA LoadStep == ASSUME DeskInv, NEW c \in Callers, NEW to \in Desk!States, Desk!Load(c, to)
                  PROVE  DeskInv'
<1> DEFINE r == [step |-> "log", from |-> ticket, to |-> to, since |-> Len(written), entry |-> 0]
<1>1. /\ ticket # "none" /\ Desk!CanTransition(ticket, to) /\ at' = [at EXCEPT ![c] = r]
      /\ UNCHANGED <<ticket, stamps, linked, theirs, entries, written>>
  BY DEF Desk!Load
<1>2. /\ r \in Post /\ r.step = "log" /\ r.from = ticket /\ r.to = to /\ r.since = Len(written)
      /\ "log" \in Steps \ {"insert", "write"}
  BY TypesHold DEF Post, Steps
<1>3. written # <<>> /\ Len(written) \in DOMAIN written /\ written[Len(written)].to = ticket
  BY <1>1, TypesHold
<1> HIDE DEF r
<1>4. at'[c] = r => Carried(c)'
  BY <1>1, <1>2, <1>3 DEF Carried, Owes
<1> QED
  BY <1>1, <1>2, <1>4, TypesHold, MovesOn

LEMMA LogStep == ASSUME DeskInv, NEW c \in Callers, Desk!LogChange(c) PROVE DeskInv'
<1> DEFINE e == [by |-> "change", from |-> at[c].from, to |-> at[c].to]
           n == Len(entries) + 1
           r == [at[c] EXCEPT !.step = "write", !.entry = n]
<1>1. /\ ticket # "none" /\ Desk!CanTransition(at[c].from, at[c].to)
      /\ at[c].since \in DOMAIN written /\ at[c].from = written[at[c].since].to
      /\ at[c].to \in Desk!States /\ at[c].from \in Desk!States \cup {"none"}
  BY TypesHold DEF Carried, Desk!LogChange, Post
<1>2. CASE entries' = Append(entries, e) /\ at' = [at EXCEPT ![c] = [@ EXCEPT !.step = "write", !.entry = Len(entries')]]
  <2>1. e \in Line /\ e.by = "change" /\ e.from = at[c].from /\ e.to = at[c].to
    BY <1>1 DEF Line
  <2>2. /\ Len(entries') = n /\ n \in Nat /\ n \in DOMAIN entries' /\ entries'[n] = e /\ n \notin DOMAIN entries
        /\ entries' \in Seq(Line) /\ Grown(entries', entries) /\ entries' # <<>>
    <3> HIDE DEF e
    <3> QED
      BY <1>2, <2>1, Appended, TypesHold
  <2>3. at' = [at EXCEPT ![c] = r] /\ UNCHANGED <<ticket, stamps, linked, theirs, written>>
    BY <1>2, <2>2, TypesHold DEF Desk!LogChange
  <2>4. /\ r \in Post /\ r.step = "write" /\ r.from = at[c].from /\ r.to = at[c].to
        /\ r.since = at[c].since /\ r.entry = n
    BY <2>2, Posts
  <2>5. Entered(entries', n, "change", at[c].to) /\ entries'[n].from = at[c].from
    BY <2>1, <2>2 DEF Entered
  <2>6. Unspent(written', n)
    BY <2>2, <2>3, TypesHold DEF Unspent, AllTold, Told, Entered
  <2>7. \A d \in Callers \ {c} : Owes(d) => at[d].entry # n
    BY <2>2, TypesHold DEF Carried, Entered
  <2> HIDE DEF r, n, e
  <2>8. ASSUME at'[c] = r PROVE Carried(c)'
    <3>1. \A d \in Callers \ {c} : Owes(d)' => at'[d].entry # n
      BY <2>3, <2>7, TypesHold DEF Owes
    <3> QED
      BY <1>1, <2>3, <2>4, <2>5, <2>6, <2>8, <3>1 DEF Carried, Owes
  <2> QED
    BY <2>2, <2>3, <2>4, <2>7, <2>8, TypesHold, QuietKeeps
<1>3. CASE Desk!Ends(c) /\ entries' = entries
  BY <1>3, EndsQuietly, TypesHold DEF Desk!Ends, Desk!LogChange
<1> QED
  BY <1>2, <1>3 DEF Desk!LogChange

LEMMA WriteStep == ASSUME DeskInv, NEW c \in Callers, Desk!WriteState(c) PROVE DeskInv'
<1> DEFINE w == Desk!Write(c, "change", ticket)
           r == [at[c] EXCEPT !.step = "update"]
<1>1. /\ ticket # "none" /\ Desk!CanTransition(at[c].from, at[c].to) /\ at[c].step = "write" /\ Owes(c)
      /\ at[c].since \in DOMAIN written /\ at[c].from = written[at[c].since].to
      /\ at[c].to \in Desk!States
  BY TypesHold DEF Carried, Desk!WriteState, Owes
<1>2. CASE /\ ticket' = at[c].to /\ stamps' = stamps \cup ({at[c].to} \cap {"resolved", "closed"})
           /\ written' = Append(written, w) /\ Desk!Go(c, "update")
  <2>1. /\ w \in Mark /\ w.by = "change" /\ w.from = ticket /\ w.to = at[c].to /\ w.since = at[c].since
        /\ w.entry = at[c].entry
    BY <1>1, MarkIs, TypesHold
  <2>2. r \in Post /\ r.step = "update" /\ r.to = at[c].to
    BY Posts DEF Steps
  <2>3. at' = [at EXCEPT ![c] = r] /\ UNCHANGED <<linked, theirs, entries>>
    BY <1>2 DEF Desk!Go, Desk!WriteState
  <2>4. stamps' \subseteq stamps \cup {at[c].to}
    BY <1>2
  <2> HIDE DEF w, r
  <2>5. Told(entries, Append(written, w), Len(written) + 1)
    BY <1>1, <2>1, ToldByOwn
  <2>6. Overtaken(Append(written, w), Len(written) + 1)
    <3>1. /\ Append(written, w)[Len(written) + 1] = w /\ Len(written) \in Nat
          /\ DOMAIN written = 1 .. Len(written)
          /\ \A k \in DOMAIN written : Append(written, w)[k] = written[k]
      BY <2>1, Appended, TypesHold
    <3>2. Len(written) \in DOMAIN written /\ written[Len(written)].to = ticket
      BY <1>1, TypesHold
    <3>3. ~Desk!CanTransition(ticket, at[c].to) => w.since + 1 <= Len(written)
      BY <1>1, <2>1, <3>1, <3>2
    <3>4. w.since \in Nat
      BY <2>1, TypesHold DEF Post
    <3>5. Append(written, w)[Len(written)].to = w.from
      BY <2>1, <3>1, <3>2
    <3>6. ~Desk!CanTransition(ticket, at[c].to) => Len(written) \in (w.since + 1) .. (Len(written) + 1 - 1)
      BY <3>1, <3>3, <3>4
    <3> DEFINE n == Len(written)
               xs == Append(written, w)
    <3>7. xs[n + 1] = w /\ xs[n].to = w.from
      BY <3>1, <3>5
    <3> HIDE DEF n, xs
    <3>8. ASSUME Desk!CanTransition(w.from, w.to) PROVE Overtaken(xs, n + 1)
      BY <3>7, <3>8 DEF Overtaken
    <3>9. ASSUME ~Desk!CanTransition(w.from, w.to) PROVE Overtaken(xs, n + 1)
      <4>1. n \in (xs[n + 1].since + 1) .. (n + 1 - 1) /\ xs[n].to = xs[n + 1].from
        BY <2>1, <3>6, <3>7, <3>9 DEF n
      <4> QED
        BY <4>1 DEF Overtaken
    <3>10. Overtaken(xs, n + 1)
      BY <3>8, <3>9
    <3> QED
      BY <3>10 DEF xs, n
  <2>7. \A d \in Callers \ {c} : at[d].step # "insert"
    BY <1>1, TypesHold DEF Carried
  <2>8. entries # <<>> /\ written # <<>>
    BY <1>1, TypesHold
  <2> QED
    BY <1>1, <1>2, <2>1, <2>2, <2>3, <2>4, <2>5, <2>6, <2>7, <2>8, RowWritten
<1>3. CASE Desk!Ends(c) /\ UNCHANGED <<ticket, stamps, written>>
  BY <1>3, EndsQuietly, TypesHold DEF Desk!Ends, Desk!WriteState
<1> QED
  BY <1>2, <1>3 DEF Desk!WriteState

LEMMA UpdateStep == ASSUME DeskInv, NEW c \in Callers, Desk!ProviderUpdate(c) PROVE DeskInv'
<1>1. at[c].to \in Desk!States /\ at[c].to # "none"
  BY TypesHold, NamesApart DEF Carried, Desk!ProviderUpdate
<1>2. theirs' \in Desk!States \cup {"none"} /\ (theirs # "none" => theirs' # "none")
  BY <1>1, TypesHold DEF Desk!ProviderUpdate
<1> QED
  BY <1>2, EndsQuietly, TypesHold DEF Desk!Ends, Desk!ProviderUpdate

LEMMA WebhookStep == ASSUME DeskInv, NEW c \in Callers, Desk!Webhook(c) PROVE DeskInv'
<1> DEFINE e == [by |-> "webhook", from |-> "none", to |-> theirs]
<1>1. linked /\ ticket # "none" /\ theirs # "none" /\ theirs \in Desk!States
        /\ UNCHANGED <<ticket, stamps, linked, theirs, written>>
  BY TypesHold DEF Desk!Webhook
<1>2. PICK to \in {theirs, "none"} :
          at' = [at EXCEPT ![c] = IF to = "none" THEN Desk!Free
                                  ELSE [Desk!Free EXCEPT !.step = "apply", !.to = to]]
  BY DEF Desk!Webhook
<1> DEFINE r == IF to = "none" THEN Desk!Free ELSE [Desk!Free EXCEPT !.step = "apply", !.to = to]
<1>3. r \in Post /\ (r.step = "free" \/ (r.step = "apply" /\ r.to \in Desk!States))
  BY <1>1 DEF Post, Steps, Desk!Free
<1> HIDE DEF r
<1>4. at' = [at EXCEPT ![c] = r]
  BY <1>2 DEF r
<1>5. entries' \in Seq(Line) /\ Grown(entries', entries) /\ (entries # <<>> => entries' # <<>>)
  <2>1. CASE entries' = entries
    BY <2>1, GrownSelf, TypesHold
  <2>2. CASE entries' = Append(entries, e)
    <3>1. e \in Line
      BY <1>1 DEF Line
    <3> HIDE DEF e
    <3> QED
      BY <2>2, <3>1, Appended, TypesHold
  <2> QED
    BY <2>1, <2>2 DEF Desk!Webhook
<1>6. at'[c] = r => Carried(c)'
  BY <1>1, <1>3 DEF Carried, Owes
<1> QED
  BY <1>1, <1>3, <1>4, <1>5, <1>6, TypesHold, QuietKeeps

LEMMA ApplyStep == ASSUME DeskInv, NEW c \in Callers, Desk!Apply(c) PROVE DeskInv'
<1> DEFINE w == Desk!Write(c, "webhook", ticket)
<1>1. ticket # "none" /\ at[c].to \in Desk!States
  BY TypesHold DEF Carried, Desk!Apply
<1>2. CASE ticket' = at[c].to /\ written' = Append(written, w)
  <2>1. w \in Mark /\ w.by = "webhook" /\ w.to = at[c].to
    <3>1. ticket \in Desk!States \cup {"none"}
      BY TypesHold
    <3> QED
      BY <1>1, <3>1, MarkIs
  <2>2. at' = [at EXCEPT ![c] = Desk!Free] /\ UNCHANGED <<stamps, linked, theirs, entries>>
    BY <1>2 DEF Desk!Ends, Desk!Apply
  <2>6. Desk!Free \in Post /\ Desk!Free.step = "free"
    BY Posts
  <2> HIDE DEF w
  <2>3. Overtaken(Append(written, w), Len(written) + 1)
    BY <2>1, Appended, TypesHold DEF Overtaken
  <2>4. \A d \in Callers \ {c} : at[d].step # "insert"
    BY <1>1, TypesHold DEF Carried
  <2>5. entries # <<>> /\ written # <<>>
    BY <1>1, TypesHold
  <2> QED
    BY <1>2, <2>1, <2>2, <2>3, <2>4, <2>5, <2>6, RowWritten
<1>3. CASE UNCHANGED <<ticket, written>>
  BY <1>3, EndsQuietly, TypesHold DEF Desk!Ends, Desk!Apply
<1> QED
  BY <1>2, <1>3 DEF Desk!Apply

LEMMA DeskStays == ASSUME DeskInv, UNCHANGED <<ticket, stamps, linked, entries, at, written>>,
                          theirs' \in Desk!States \cup {"none"}, theirs # "none" => theirs' # "none"
                   PROVE  DeskInv'
<1>1. AllTold(entries', written')
  BY AllToldStays, GrownSelf
<1>2. DeskType' /\ Desk!Stamped'
  BY DEF DeskInv, DeskType, Desk!Stamped
<1>3. \A c \in Callers : Carried(c)'
  BY TypesHold DEF Carried, Owes
<1> QED
  BY <1>1, <1>2, <1>3 DEF DeskInv

LEMMA DeskStep == ASSUME DeskInv, Desk!TicketsNext PROVE DeskInv'
<1>1. CASE Desk!TheirChange
  BY <1>1, DeskStays DEF Desk!TheirChange, Desk!States
<1> QED
  BY <1>1, CreateStep, InsertStep, ProviderStep, LinkStep, LoadStep, LogStep, WriteStep, UpdateStep,
     WebhookStep, ApplyStep
     DEF Desk!TicketsNext

\* For any callers, changes, webhooks and failures, and for any licences, signatures and
\* periods: a change to a ticket's row has an entry of its own in the log, from the state it
\* was loaded in, as the table allows; only a write that came between can make it one that
\* the table forbids; a licence is answered for as the last check of its file found it, and
\* the server's word from the cache is the last one kept, for the days it counts.
THEOREM VendorsHold == PartsSpec => []VendorsTrue
<1> DEFINE I == DeskInv /\ part \in {"dedup", "dlq", "people", "tickets", "licence"}
                        /\ (part = "licence" => LicInv)
<1>1. PartsInit => I
  BY DeskBegins, LicBegins DEF PartsInit
<1>2. ASSUME I, [PartsNext]_<<part, vars, dlqVars, userVars, ticketVars, licVars, calls, faults>>
      PROVE I'
  <2>1. DeskInv'
    <3>1. CASE UNCHANGED ticketVars
      <4>1. theirs \in Desk!States \cup {"none"}
        BY <1>2, TypesHold
      <4> QED
        BY <1>2, <3>1, <4>1, DeskStays DEF ticketVars
    <3>2. CASE Desk!TicketsNext
      BY <1>2, <3>2, DeskStep
    <3> QED
      BY <1>2, <3>1, <3>2 DEF PartsNext
  <2>2. part' = part
    BY <1>2 DEF PartsNext
  <2>3. ASSUME part = "licence" PROVE LicInv'
    <3>1. CASE UNCHANGED <<vars, licVars>>
      BY <1>2, <2>3, <3>1, LicStays DEF licVars, vars, LicInv, Judged
    <3>2. CASE Vendor!LicNext
      BY <1>2, <2>3, <3>2, LicStep
    <3> QED
      BY <1>2, <2>3, <3>1, <3>2 DEF PartsNext
  <2> QED
    BY <1>2, <2>1, <2>2, <2>3
<1>3. I => VendorsTrue
  BY LicImplies, ToldIs DEF VendorsTrue, DeskInv, Desk!TicketsTrue
<1> QED
  BY <1>1, <1>2, <1>3, PTL DEF PartsSpec

-----------------------------------------------------------------------------
(* The rows kept of people.  Replaying a log is a recursive function; that it  *)
(* is one, and what an entry more makes of it, follow by a least               *)
(* counterexample.                                                             *)

Vals == {"hr", "dpo", "dlp_admin", "low", "max", "tenant", "system", ""}
UserRow == [role : Vals, active : BOOLEAN]
Fact == [act : People!Ops, val : Vals]
OldUser == [role |-> "hr", active |-> TRUE]

ReplayOf(s, row) ==
    LET upTo[n \in 0 .. Len(s)] == IF n = 0 THEN row ELSE People!Follow(upTo[n - 1], s[n])
    IN  upTo[Len(s)]

Chain(f, s, n) == \A k \in 1 .. n : f[k] = People!Follow(f[k - 1], s[k])
Path(g, s, row, n) ==
    /\ g \in [0 .. n -> UserRow] /\ g[0] = row
    /\ \A k \in 1 .. n : g[k] = People!Follow(g[k - 1], s[k])

LEMMA FollowType == ASSUME NEW u \in UserRow, NEW e \in Fact PROVE People!Follow(u, e) \in UserRow
  BY DEF People!Follow, UserRow, Fact, Vals, People!NoUser

LEMMA PathIs == ASSUME NEW s \in Seq(Fact), NEW row \in UserRow, NEW n \in 0 .. Len(s)
                PROVE  \E g : Path(g, s, row, n)
<1> DEFINE S == {k \in 0 .. Len(s) : ~ \E g : Path(g, s, row, k)}
<1>1. SUFFICES ASSUME S # {} PROVE FALSE
  OBVIOUS
<1>2. S \in SUBSET Nat
  OBVIOUS
<1>3. PICK k \in S : \A u \in S : k <= u
  <2> HIDE DEF S
  <2> QED
    BY <1>1, <1>2, LeastIs
<1>4. k \in 0 .. Len(s) /\ ~ \E g : Path(g, s, row, k)
  OBVIOUS
<1>5. CASE k = 0
  <2>1. Path([i \in 0 .. 0 |-> row], s, row, 0)
    BY DEF Path
  <2> QED
    BY <1>4, <1>5, <2>1
<1>6. CASE k # 0
  <2>1. k - 1 \in 0 .. Len(s) /\ ~(k <= k - 1) /\ k \in 1 .. Len(s)
    BY <1>4, <1>6, LenProperties
  <2>2. k - 1 \notin S
    BY <1>3, <2>1
  <2>3. PICK g : Path(g, s, row, k - 1)
    BY <2>1, <2>2
  <2> DEFINE h == [i \in 0 .. k |-> IF i = k THEN People!Follow(g[k - 1], s[k]) ELSE g[i]]
  <2>4. s[k] \in Fact /\ g[k - 1] \in UserRow
    BY <2>1, <2>3, ElementOfSeq DEF Path
  <2>5. \A i \in 0 .. k : i # k => i \in 0 .. (k - 1)
    BY <2>1
  <2>6. h \in [0 .. k -> UserRow]
    BY <2>3, <2>4, <2>5, FollowType DEF Path
  <2>7. h[0] = row
    BY <1>6, <2>1, <2>3 DEF Path
  <2>8. \A i \in 1 .. k : h[i] = People!Follow(h[i - 1], s[i])
    <3> SUFFICES ASSUME NEW i \in 1 .. k PROVE h[i] = People!Follow(h[i - 1], s[i])
      OBVIOUS
    <3>1. i - 1 \in 0 .. k /\ i - 1 # k /\ h[i - 1] = g[i - 1]
      BY <2>1
    <3>2. CASE i = k
      BY <3>1, <3>2
    <3>3. CASE i # k
      <4>1. i \in 1 .. (k - 1)
        BY <2>1, <3>3
      <4> QED
        BY <2>3, <3>1, <3>3, <4>1 DEF Path
    <3> QED
      BY <3>2, <3>3
  <2>9. Path(h, s, row, k)
    BY <2>6, <2>7, <2>8 DEF Path
  <2> QED
    BY <1>4, <2>9
<1> QED
  BY <1>5, <1>6

\* Two that follow the same entries are the same.
LEMMA PathsAgree ==
    ASSUME NEW s, NEW n \in Nat, NEW g, NEW h, g[0] = h[0], Chain(g, s, n), Chain(h, s, n)
    PROVE  g[n] = h[n]
<1> DEFINE S == {k \in 0 .. n : g[k] # h[k]}
<1>1. SUFFICES ASSUME S # {} PROVE FALSE
  OBVIOUS
<1>2. S \in SUBSET Nat
  OBVIOUS
<1>3. PICK k \in S : \A u \in S : k <= u
  <2> HIDE DEF S
  <2> QED
    BY <1>1, <1>2, LeastIs
<1>4. k # 0 /\ k \in 0 .. n
  OBVIOUS
<1>5. k - 1 \in 0 .. n /\ ~(k <= k - 1) /\ k \in 1 .. n
  BY <1>4
<1>6. g[k - 1] = h[k - 1]
  BY <1>3, <1>5
<1>7. g[k] = h[k]
  BY <1>5, <1>6 DEF Chain
<1> QED
  BY <1>7

LEMMA ReplayIs == ASSUME NEW s \in Seq(Fact), NEW row \in UserRow
                  PROVE  \E g : Path(g, s, row, Len(s)) /\ ReplayOf(s, row) = g[Len(s)]
<1>1. PICK g : Path(g, s, row, Len(s))
  BY PathIs, LenProperties
<1> DEFINE R(f) == f = [n \in 0 .. Len(s) |-> IF n = 0 THEN row ELSE People!Follow(f[n - 1], s[n])]
           r == CHOOSE f : R(f)
<1>2. R(g)
  <2>1. \A n \in 0 .. Len(s) : g[n] = IF n = 0 THEN row ELSE People!Follow(g[n - 1], s[n])
    BY <1>1, LenProperties DEF Path
  <2> QED
    BY <1>1, <2>1 DEF Path
<1>3. R(r)
  <2> HIDE DEF R
  <2> QED
    BY <1>2
<1>4. r[0] = row /\ \A k \in 1 .. Len(s) : r[k] = People!Follow(r[k - 1], s[k])
  <2> HIDE DEF r
  <2>1. Len(s) \in Nat
    BY LenProperties
  <2>2. 0 \in 0 .. Len(s) /\ \A k \in 1 .. Len(s) : k \in 0 .. Len(s) /\ k # 0
    BY <2>1
  <2> QED
    BY <1>3, <2>2
<1>5. r[Len(s)] = g[Len(s)]
  <2> HIDE DEF r
  <2> QED
    <3>1. Len(s) \in Nat /\ g[0] = r[0]
      BY <1>1, <1>4, LenProperties DEF Path
    <3>2. Chain(g, s, Len(s)) /\ Chain(r, s, Len(s))
      BY <1>1, <1>4 DEF Path, Chain
    <3> QED
      BY <3>1, <3>2, PathsAgree, Zenon
<1>6. ReplayOf(s, row) = r[Len(s)]
  BY DEF ReplayOf
<1> QED
  BY <1>1, <1>5, <1>6

\* An entry more.
LEMMA ReplayGrows ==
    ASSUME NEW s \in Seq(Fact), NEW e \in Fact, NEW row \in UserRow
    PROVE  ReplayOf(Append(s, e), row) = People!Follow(ReplayOf(s, row), e)
<1> DEFINE t == Append(s, e)
<1>1. /\ t \in Seq(Fact) /\ Len(t) = Len(s) + 1 /\ t[Len(s) + 1] = e /\ Len(s) \in Nat
      /\ \A k \in 1 .. Len(s) : t[k] = s[k]
  BY AppendProperties, LenProperties
<1> HIDE DEF t
<1>2. PICK g : Path(g, s, row, Len(s)) /\ ReplayOf(s, row) = g[Len(s)]
  BY ReplayIs
<1>3. PICK h : Path(h, t, row, Len(t)) /\ ReplayOf(t, row) = h[Len(t)]
  BY <1>1, ReplayIs
<1>4. Chain(g, s, Len(s)) /\ Chain(h, s, Len(s))
  BY <1>1, <1>2, <1>3 DEF Path, Chain
<1>5. g[Len(s)] = h[Len(s)]
  <2>1. g[0] = h[0]
    BY <1>2, <1>3 DEF Path
  <2> QED
    BY <1>1, <1>4, <2>1, PathsAgree, Zenon
<1>6. h[Len(s) + 1] = People!Follow(h[Len(s)], e)
  <2>1. Len(s) + 1 \in 1 .. Len(t) /\ Len(s) + 1 - 1 = Len(s)
    BY <1>1
  <2>2. h[Len(s) + 1] = People!Follow(h[Len(s) + 1 - 1], t[Len(s) + 1])
    BY <1>3, <2>1 DEF Path
  <2> QED
    BY <1>1, <2>1, <2>2
<1> QED
  BY <1>1, <1>2, <1>3, <1>5, <1>6 DEF t

LEMMA ReplayEmpty == ASSUME NEW row \in UserRow PROVE ReplayOf(<<>>, row) = row
<1>1. <<>> \in Seq(Fact) /\ Len(<<>>) = 0
  OBVIOUS
<1>2. PICK g : Path(g, <<>>, row, 0) /\ ReplayOf(<<>>, row) = g[0]
  BY <1>1, ReplayIs
<1> QED
  BY <1>2 DEF Path

LEMMA ReplayedOf == \A row : People!Replayed(row) = ReplayOf(userLog, row)
  BY DEF People!Replayed, ReplayOf

-----------------------------------------------------------------------------
(* Where each call is, what it has logged, and, while none overlaps another   *)
(* and none fails, how far the log is ahead of the row or behind it.          *)

Places == {"idle", "audit", "write", "look", "log", "store", "read", "update", "note", "insert",
        "revoke"}
CallerRow == [op : People!Ops \cup {"none"}, at : Places, val : Vals, ref : Nat]

DirType ==
    /\ user \in UserRow /\ (user = People!NoUser \/ user.role \in People!ColumnRoles)
    /\ ack \in Nat /\ gap \in BOOLEAN /\ userLog \in Seq(Fact) /\ clean \in BOOLEAN
    /\ caller \in [Callers -> CallerRow]

\* Which call is at which place, and that it has its entry where it writes by one.
Stands(c) ==
    /\ caller[c].at = "idle" => caller[c] = People!Idle
    /\ caller[c].at \in {"audit", "write"} => caller[c].op \in People!Audited
    /\ caller[c].at \in {"look", "log", "store"} => caller[c].op = "acknowledge"
    /\ caller[c].at \in {"read", "update"} => caller[c].op = "preset"
    /\ caller[c].at = "insert" => caller[c].op = "key"
    /\ caller[c].at = "note" => caller[c].op = "preset" \/ (caller[c].op = "key"
            /\ caller[c].val = "tenant")
    /\ caller[c].at \in {"write", "store"} =>
           /\ caller[c].ref \in DOMAIN userLog
           /\ userLog[caller[c].ref].act = caller[c].op
                   /\ userLog[caller[c].ref].val = caller[c].val

\* What holds while no call overlaps another and none fails.
OneAtWork == \A c, d \in Callers : caller[c] # People!Idle /\ caller[d] # People!Idle => c = d

RowTold ==
    /\ (\A c \in Callers : caller[c].at # "write") =>
           user = ReplayOf(userLog, People!NoUser) \/ user = ReplayOf(userLog, OldUser)
    /\ \A c \in Callers : caller[c].at = "write" =>
           \/ People!Follow(user, People!Entry(c)) = ReplayOf(userLog, People!NoUser)
           \/ People!Follow(user, People!Entry(c)) = ReplayOf(userLog, OldUser)

Last(s) == \E i \in People!Logged("preset") : (\A j \in People!Logged("preset") : j <= i)
        /\ userLog[i].val = s
Noting(c, op) == caller[c].at = "note" /\ caller[c].op = op

PresetTold ==
    /\ (\A c \in Callers : ~Noting(c, "preset")) =>
           (People!Logged("preset") = {} /\ preset = "low") \/ Last(preset)
    /\ \A c \in Callers : Noting(c, "preset") => preset = caller[c].val

KeyTold ==
    "tenant" \in keys =>
        \/ \E i \in People!Logged("key") : userLog[i].val = "tenant"
        \/ \E c \in Callers : Noting(c, "key")

CleanOK == OneAtWork /\ RowTold /\ PresetTold /\ KeyTold

DirInv ==
    /\ DirType
    /\ \A c \in Callers : Stands(c)
    /\ People!LoggedFirst
    /\ clean => CleanOK

LEMMA IdleKind == People!Idle \in CallerRow /\ People!Idle.at = "idle" /\ People!Idle.op = "none"
  BY DEF People!Idle, CallerRow, Places, Vals

LEMMA LastIs == ASSUME userLog \in Seq(Fact), Last(preset)
        PROVE userLog[People!LastOf(People!Logged("preset"))].val = preset
<1> DEFINE S == People!Logged("preset")
           k == People!LastOf(S)
<1>1. PICK i \in S : (\A j \in S : j <= i) /\ userLog[i].val = preset
  BY DEF Last
<1>2. \A j \in S : j \in Nat
  BY LenProperties DEF People!Logged
<1> HIDE DEF S
<1>3. k \in S /\ \A j \in S : j <= k
  BY <1>1 DEF People!LastOf
<1>4. k = i
  BY <1>1, <1>2, <1>3
<1> QED
  BY <1>1, <1>4 DEF S

LEMMA DirImplies == DirInv => People!DirectoryTrue
<1> SUFFICES ASSUME DirInv, clean, People!Quiet PROVE People!LogTellsRow
  BY DEF DirInv, People!DirectoryTrue, People!LogTellsRow
<1>1. \A c \in Callers : caller[c].at = "idle"
  BY IdleKind DEF People!Quiet
<1>2. user \in {People!Replayed(People!NoUser), People!Replayed(OldUser)}
  BY <1>1, ReplayedOf DEF DirInv, CleanOK, RowTold
<1>3. /\ People!Logged("preset") # {} =>
        userLog[People!LastOf(People!Logged("preset"))].val = preset
      /\ People!Logged("preset") = {} => preset = "low"
  <2>1. (People!Logged("preset") = {} /\ preset = "low") \/ Last(preset)
    BY <1>1 DEF DirInv, CleanOK, PresetTold, Noting
  <2>2. Last(preset) => People!Logged("preset") # {}
    BY DEF Last
  <2> QED
    BY <2>1, <2>2, LastIs DEF DirInv, DirType
<1>4. "tenant" \in keys => \E i \in People!Logged("key") : userLog[i].val = "tenant"
  BY <1>1 DEF DirInv, CleanOK, KeyTold, Noting
<1> QED
  BY <1>2, <1>3, <1>4 DEF People!LogTellsRow, OldUser

LEMMA RowKinds == People!NoUser \in UserRow /\ OldUser \in UserRow
        /\ OldUser.role \in People!ColumnRoles /\ People!NoUser.role = ""
  BY DEF People!NoUser, OldUser, UserRow, Vals, People!ColumnRoles

LEMMA DirBegins == People!DirInit => DirInv
<1> SUFFICES ASSUME People!DirInit PROVE DirInv
  OBVIOUS
<1>1. userLog \in Seq(Fact) /\ DOMAIN userLog = {} /\ \A a : People!Logged(a) = {}
  BY DEF People!DirInit, People!Logged
<1>2. DirType
  BY <1>1, RowKinds, IdleKind DEF People!DirInit, DirType, OldUser
<1>3. \A c \in Callers : Stands(c) /\ caller[c] = People!Idle /\ caller[c].at = "idle"
  BY IdleKind DEF People!DirInit, Stands
<1>4. People!LoggedFirst
  <2>1. user.role \in {"", "hr"} /\ (user # People!NoUser => user.active)
    <3>1. user = People!NoUser \/ user = OldUser
      BY DEF People!DirInit, OldUser
    <3>2. People!NoUser.role = "" /\ OldUser.role = "hr" /\ OldUser.active
      BY DEF People!NoUser, OldUser
    <3> QED
      BY <3>1, <3>2
  <2> QED
    BY <2>1 DEF People!DirInit, People!LoggedFirst
<1>5. CleanOK
  <2>1. user = ReplayOf(userLog, People!NoUser) \/ user = ReplayOf(userLog, OldUser)
    BY RowKinds, ReplayEmpty DEF People!DirInit, OldUser
  <2> QED
    BY <1>1, <1>3, <2>1 DEF People!DirInit, CleanOK, OneAtWork, RowTold, PresetTold, KeyTold, Noting
<1> QED
  BY <1>2, <1>3, <1>4, <1>5 DEF DirInv

LEMMA FactMore ==
    ASSUME userLog \in Seq(Fact), NEW e \in Fact, userLog' = Append(userLog, e)
    PROVE  /\ userLog' \in Seq(Fact) /\ DOMAIN userLog' = DOMAIN userLog \cup {Len(userLog) + 1}
           /\ userLog'[Len(userLog) + 1] = e /\ Len(userLog) + 1 \notin DOMAIN userLog
           /\ \A i \in DOMAIN userLog : userLog'[i] = userLog[i] /\ i < Len(userLog) + 1
           /\ Len(userLog) + 1 \in Nat
  BY AppendProperties, LenProperties

LEMMA LoggedMore ==
    ASSUME userLog \in Seq(Fact), NEW e \in Fact, userLog' = Append(userLog, e)
    PROVE  /\ \A a : People!Logged(a) \subseteq People!Logged(a)'
            /\ (e.act # a => People!Logged(a)' = People!Logged(a))
           /\ Len(userLog) + 1 \in People!Logged(e.act)'
           /\ \A i \in People!Logged(e.act)' : i <= Len(userLog) + 1
  BY FactMore DEF People!Logged

\* An entry more, or none.
Longer == userLog' = userLog \/ \E e \in Fact : userLog' = Append(userLog, e)

LEMMA LongerIs == ASSUME DirInv, Longer
    PROVE /\ userLog' \in Seq(Fact) /\ DOMAIN userLog \subseteq DOMAIN userLog'
            /\ \A i \in DOMAIN userLog : userLog'[i] = userLog[i]
          /\ \A a : People!Logged(a) \subseteq People!Logged(a)'
  BY FactMore, LoggedMore DEF Longer, DirInv, DirType, People!Logged

LEMMA FirstStays ==
    ASSUME DirInv, Longer,
           user'.role \notin {"", "hr"} => user'.role = user.role
               \/ \E i \in People!Logged("created")' \cup People!Logged("role_changed")' :
                       userLog'[i].val = user'.role,
           user' # People!NoUser /\ ~user'.active => (user # People!NoUser
                   /\ ~user.active) \/ People!Logged("disabled")' # {},
           gap' => gap \/ People!Logged("silence_acknowledged")' # {},
           ack' # 0 => (ack' = ack \/ ack' \in People!Logged("acknowledge")')
                   /\ user' # People!NoUser,
           said' \subseteq said \cup People!Logged("acknowledge")'
    PROVE  People!LoggedFirst'
<1>1. \A i \in DOMAIN userLog : userLog'[i] = userLog[i]
  BY LongerIs
<1>2. \A a : People!Logged(a) \subseteq People!Logged(a)'
  BY LongerIs
<1>3. People!LoggedFirst
  BY DEF DirInv
<1>4. user'.role \notin {"", "hr"} =>
           \E i \in People!Logged("created")' \cup People!Logged("role_changed")' :
                   userLog'[i].val = user'.role
  <2>1. ASSUME user'.role \notin {"", "hr"}, user'.role = user.role
        PROVE  \E i \in People!Logged("created")' \cup People!Logged("role_changed")' :
                userLog'[i].val = user'.role
    <3>1. PICK i \in People!Logged("created") \cup People!Logged("role_changed") :
            userLog[i].val = user.role
      BY <1>3, <2>1 DEF People!LoggedFirst
    <3>2. i \in DOMAIN userLog
      BY <3>1 DEF People!Logged
    <3> QED
      BY <1>1, <1>2, <2>1, <3>1, <3>2
  <2> QED
    BY <2>1
<1>5. user' # People!NoUser /\ ~user'.active => People!Logged("disabled")' # {}
  BY <1>2, <1>3 DEF People!LoggedFirst
<1>6. gap' => People!Logged("silence_acknowledged")' # {}
  BY <1>2, <1>3 DEF People!LoggedFirst
<1>7. ack' # 0 => ack' \in People!Logged("acknowledge")' /\ user' # People!NoUser
  BY <1>2, <1>3 DEF People!LoggedFirst
<1>8. said' \subseteq People!Logged("acknowledge")'
  BY <1>2, <1>3 DEF People!LoggedFirst
<1> QED
  BY <1>4, <1>5, <1>6, <1>7, <1>8 DEF People!LoggedFirst

\* What a step of one caller has to keep.
LEMMA DirKeeps ==
    ASSUME DirInv, NEW c \in Callers, NEW r \in CallerRow, caller' = [caller EXCEPT ![c] = r],
            Longer,
           user' \in UserRow, user' = People!NoUser \/ user'.role \in People!ColumnRoles,
           ack' \in Nat, gap' \in BOOLEAN, clean' \in BOOLEAN,
           Stands(c)', People!LoggedFirst', clean' => CleanOK'
    PROVE  DirInv'
<1>1. caller' \in [Callers -> CallerRow] /\ \A d \in Callers \ {c} : caller'[d] = caller[d]
  BY DEF DirInv, DirType
<1>2. DirType'
  BY <1>1, LongerIs DEF DirType
<1>3. ASSUME NEW d \in Callers \ {c} PROVE Stands(d)'
  BY <1>1, LongerIs DEF DirInv, Stands
<1> QED
  BY <1>2, <1>3 DEF DirInv

LEMMA DirHas == ASSUME DirInv PROVE
    /\ user \in UserRow /\ (user = People!NoUser \/ user.role \in People!ColumnRoles)
    /\ ack \in Nat /\ gap \in BOOLEAN /\ userLog \in Seq(Fact) /\ clean \in BOOLEAN
    /\ People!LoggedFirst /\ (ack # 0 => user # People!NoUser) /\ (clean => CleanOK)
    /\ \A c \in Callers : Stands(c) /\ caller[c] \in CallerRow
  BY DEF DirInv, DirType, People!LoggedFirst

\* While nothing overlaps, the others are idle.
LEMMA Alone ==
    ASSUME DirInv, clean, NEW c \in Callers, caller[c].at # "idle", NEW r \in CallerRow,
           caller' = [caller EXCEPT ![c] = r]
    PROVE  /\ caller'[c] = r /\ \A d \in Callers \ {c} : caller'[d] = People!Idle
            /\ caller[d] = People!Idle
           /\ OneAtWork'
<1>1. \A d \in Callers \ {c} : caller[d] = People!Idle
  BY IdleKind, DirHas DEF CleanOK, OneAtWork
<1>2. caller'[c] = r /\ \A d \in Callers \ {c} : caller'[d] = People!Idle
  BY <1>1 DEF DirInv, DirType
<1> QED
  BY <1>1, <1>2 DEF OneAtWork

Plainly == {"created", "role_changed", "disabled", "deleted"}

LEMMA FollowOther == ASSUME NEW u, NEW e, e.act \notin Plainly PROVE People!Follow(u, e) = u
  BY DEF People!Follow, Plainly

LEMMA AloneIs ==
    ASSUME DirInv, clean, NEW c \in Callers, caller[c].at # "idle"
    PROVE  \A d \in Callers \ {c} : caller[d] = People!Idle
  BY IdleKind, DirHas DEF CleanOK, OneAtWork

\* A step that writes no row: the log may grow by an entry that is about none.
LEMMA CleanQuiet ==
    ASSUME DirInv, clean, NEW c \in Callers, \A d \in Callers \ {c} : caller[d] = People!Idle,
           NEW r \in CallerRow, caller' = [caller EXCEPT ![c] = r],
           caller[c].at \notin {"write", "note"}, r.at \notin {"write", "note"},
           UNCHANGED <<user, preset, keys>>,
           userLog' = userLog \/ \E e \in Fact : userLog' = Append(userLog, e)
                   /\ e.act \notin Plainly \cup {"preset"}
    PROVE  CleanOK'
<1>1. caller'[c] = r /\ \A d \in Callers \ {c} : caller'[d] = People!Idle /\ caller[d] = People!Idle
  BY DEF DirInv, DirType
<1>2. \A d \in Callers : caller'[d].at \notin {"write", "note"}
        /\ caller[d].at \notin {"write", "note"}
  BY <1>1, IdleKind
<1>3. OneAtWork'
  BY <1>1 DEF OneAtWork
<1>4. Longer
  BY DEF Longer
<1>5. RowTold'
  <2>1. user = ReplayOf(userLog, People!NoUser) \/ user = ReplayOf(userLog, OldUser)
    BY <1>2, DirHas DEF CleanOK, RowTold
  <2>2. user' = ReplayOf(userLog', People!NoUser) \/ user' = ReplayOf(userLog', OldUser)
    <3>1. CASE userLog' = userLog
      BY <2>1, <3>1
    <3>2. ASSUME NEW e \in Fact, userLog' = Append(userLog, e), e.act \notin Plainly \cup {"preset"}
          PROVE  user' = ReplayOf(userLog', People!NoUser) \/ user' = ReplayOf(userLog', OldUser)
      <4>1. People!Follow(user, e) = user
        BY <3>2, FollowOther
      <4>2. ReplayOf(userLog', People!NoUser) = People!Follow(ReplayOf(userLog, People!NoUser), e)
            /\ ReplayOf(userLog', OldUser) = People!Follow(ReplayOf(userLog, OldUser), e)
        BY <3>2, ReplayGrows, RowKinds, DirHas
      <4> QED
        BY <2>1, <4>1, <4>2
    <3> QED
      BY <3>1, <3>2
  <2> QED
    BY <1>2, <2>2 DEF RowTold
<1>6. PresetTold'
  <2>1. (People!Logged("preset") = {} /\ preset = "low") \/ Last(preset)
    BY <1>2, DirHas DEF CleanOK, PresetTold, Noting
  <2>2. People!Logged("preset")' = People!Logged("preset")
    <3>1. CASE userLog' = userLog
      BY <3>1 DEF People!Logged
    <3>2. ASSUME NEW e \in Fact, userLog' = Append(userLog, e),
            e.act # "preset" PROVE People!Logged("preset")' = People!Logged("preset")
      BY <3>2, LoggedMore, DirHas
    <3> QED
      BY <3>1, <3>2
  <2>3. Last(preset) => Last(preset)'
    BY <1>4, <2>2, LongerIs DEF Last, People!Logged
  <2> QED
    BY <1>2, <2>1, <2>2, <2>3 DEF PresetTold, Noting
<1>7. KeyTold'
  <2>1. "tenant" \in keys => \E i \in People!Logged("key") : userLog[i].val = "tenant"
    BY <1>2, DirHas DEF CleanOK, KeyTold, Noting
  <2>2. People!Logged("key") \subseteq People!Logged("key")'
          /\ \A i \in People!Logged("key") : userLog'[i] = userLog[i]
    BY <1>4, LongerIs DEF People!Logged
  <2> QED
    BY <2>1, <2>2 DEF KeyTold
<1> QED
  BY <1>3, <1>5, <1>6, <1>7 DEF CleanOK

\* A step that makes a user's row what the call's entry says.
LEMMA CleanWrite ==
    ASSUME DirInv, clean, NEW c \in Callers, caller[c].at = "write",
            caller' = [caller EXCEPT ![c] = People!Idle],
           user' = People!Follow(user, People!Entry(c)), UNCHANGED <<preset, keys, userLog>>
    PROVE  CleanOK'
<1>1. caller'[c] = People!Idle /\ OneAtWork' /\ \A d \in Callers : caller'[d].at = "idle"
  <2>1. People!Idle \in CallerRow /\ caller[c].at # "idle"
    BY IdleKind
  <2> QED
    BY <2>1, Alone, IdleKind
<1>2. \A d \in Callers : caller[d].at # "note"
  BY AloneIs, IdleKind
<1>3. RowTold'
  <2>1. user' = ReplayOf(userLog', People!NoUser) \/ user' = ReplayOf(userLog', OldUser)
    BY DirHas DEF CleanOK, RowTold
  <2> QED
    BY <1>1, <2>1 DEF RowTold
<1>4. PresetTold'
  BY <1>1, <1>2, DirHas DEF CleanOK, PresetTold, Noting, Last, People!Logged
<1>5. KeyTold'
  BY <1>1, <1>2, DirHas DEF CleanOK, KeyTold, Noting, People!Logged
<1> QED
  BY <1>1, <1>3, <1>4, <1>5 DEF CleanOK

LEMMA CallStep == ASSUME DirInv, NEW c \in Callers, NEW op \in People!Ops,
        NEW val \in People!Values(op), People!Call(c, op, val)
                  PROVE  DirInv'
<1> DEFINE r == [op |-> op, at |-> People!First(op), val |-> val, ref |-> 0]
<1>1. /\ caller' = [caller EXCEPT ![c] = r] /\ UNCHANGED <<user, ack, gap, preset, keys, userLog,
        said>>
      /\ clean' = (clean /\ \A d \in Callers : caller[d] = People!Idle)
      /\ caller[c] = People!Idle
  BY DEF People!Call
<1>2. People!First(op) = IF op \in People!Audited THEN "audit"
                         ELSE IF op = "acknowledge" THEN "look"
                         ELSE IF op = "preset" THEN "read"
                         ELSE IF op = "key" THEN "insert" ELSE "revoke"
  BY DEF People!First, People!Ops, People!Audited
<1>3. val \in Vals
  BY DEF People!Values, Vals, People!AskedRoles, People!ColumnRoles, People!Presets
<1>4. r \in CallerRow /\ r.at \notin {"write", "note", "idle"}
  BY <1>2, <1>3 DEF CallerRow, Places
<1>5. caller'[c] = r
  BY <1>1 DEF DirInv, DirType
<1>6. Stands(c)'
  BY <1>2, <1>5 DEF Stands, People!Audited, People!Ops
<1>7. People!LoggedFirst'
  BY <1>1, DirHas DEF People!LoggedFirst, People!Logged
<1>8. clean' \in BOOLEAN
  BY <1>1
<1>9. clean' => CleanOK'
  <2> SUFFICES ASSUME clean' PROVE CleanOK'
    OBVIOUS
  <2>1. clean /\ \A d \in Callers \ {c} : caller[d] = People!Idle
    BY <1>1
  <2>2. caller[c].at \notin {"write", "note"}
    BY <1>1, IdleKind
  <2> QED
    BY <1>1, <1>4, <2>1, <2>2, CleanQuiet
<1>10. Longer /\ user' \in UserRow
        /\ (user' = People!NoUser \/ user'.role \in People!ColumnRoles) /\ ack' \in Nat
        /\ gap' \in BOOLEAN
  BY <1>1, DirHas DEF Longer
<1> QED
  BY <1>1, <1>4, <1>6, <1>7, <1>8, <1>9, <1>10, DirKeeps

\* A call that ends without a write.
LEMMA RefusedStep ==
    ASSUME DirInv, NEW c \in Callers, caller' = [caller EXCEPT ![c] = People!Idle], clean' = FALSE,
           UNCHANGED <<user, ack, gap, preset, keys, userLog, said>>
    PROVE  DirInv'
<1>1. People!Idle \in CallerRow /\ caller'[c] = People!Idle
  BY IdleKind DEF DirInv, DirType
<1>2. Stands(c)'
  BY <1>1, IdleKind DEF Stands
<1>3. People!LoggedFirst'
  BY DirHas DEF People!LoggedFirst, People!Logged
<1>4. Longer /\ user' \in UserRow /\ (user' = People!NoUser \/ user'.role \in People!ColumnRoles)
        /\ ack' \in Nat /\ gap' \in BOOLEAN
  BY DirHas DEF Longer
<1> QED
  BY <1>1, <1>2, <1>3, <1>4, DirKeeps

LEMMA RefusedSteps ==
    ASSUME DirInv, NEW c \in Callers,
           \/ People!InsertRefused(c) \/ People!ChangeRoleRefused(c) \/ People!DeleteRefused(c)
                   \/ People!AcknowledgeSilenceRefused(c)
           \/ People!StoreAckRefused(c) \/ People!InsertKeyRefused(c) \/ People!RevokeKey(c)
                   \/ People!Breaks(c)
    PROVE  DirInv'
<1>1. People!Refused(c) \/ People!Breaks(c)
  BY DEF People!InsertRefused, People!ChangeRoleRefused, People!DeleteRefused,
     People!AcknowledgeSilenceRefused, People!StoreAckRefused,
         People!InsertKeyRefused, People!RevokeKey
<1> QED
  BY <1>1, RefusedStep DEF People!Refused, People!Breaks, People!Ends

LEMMA EntryIs == ASSUME DirInv, NEW c \in Callers, caller[c].op # "none"
                 PROVE  People!Entry(c) \in Fact /\ People!Entry(c).act = caller[c].op
                         /\ People!Entry(c).val = caller[c].val
  BY DirHas DEF People!Entry, Fact, CallerRow

LEMMA AuditStep == ASSUME DirInv, NEW c \in Callers, People!Audit(c) PROVE DirInv'
<1> DEFINE r == [caller[c] EXCEPT !.at = "write", !.ref = Len(userLog) + 1]
           e == People!Entry(c)
<1>1. /\ caller' = [caller EXCEPT ![c] = r] /\ userLog' = Append(userLog, e)
        /\ caller[c].at = "audit"
      /\ UNCHANGED <<user, ack, gap, preset, keys, said, clean>>
  BY DEF People!Audit, DirInv, DirType
<1>2. caller[c].op \in People!Audited /\ caller[c].op # "none" /\ caller[c].op # "preset"
        /\ caller[c].op # "key"
  BY <1>1, DirHas DEF Stands, People!Audited
<1>3. e \in Fact /\ e.act = caller[c].op /\ e.val = caller[c].val
  BY <1>2, EntryIs
<1>4. Len(userLog) + 1 \in Nat /\ Len(userLog) + 1 \in DOMAIN userLog'
        /\ userLog'[Len(userLog) + 1] = e
  BY <1>1, <1>3, FactMore, DirHas
<1>5. r \in CallerRow /\ r.at = "write" /\ r.op = caller[c].op /\ r.val = caller[c].val
        /\ r.ref = Len(userLog) + 1
  BY <1>4, DirHas DEF CallerRow, Places
<1>6. caller'[c] = r
  BY <1>1 DEF DirInv, DirType
<1> HIDE DEF r, e
<1>7. Stands(c)'
  BY <1>2, <1>3, <1>4, <1>5, <1>6 DEF Stands
<1>8. Longer
  BY <1>1, <1>3 DEF Longer
<1>9. People!LoggedFirst'
  BY <1>1, <1>8, DirHas, FirstStays
<1>10. clean => CleanOK'
  <2> SUFFICES ASSUME clean PROVE CleanOK'
    OBVIOUS
  <2>1. OneAtWork' /\ \A d \in Callers \ {c} : caller'[d] = People!Idle /\ caller[d] = People!Idle
    BY <1>1, <1>5, Alone
  <2>2. \A d \in Callers \ {c} : caller'[d].at = "idle" /\ caller[d].at = "idle"
    BY <2>1, IdleKind
  <2>3. \A d \in Callers : caller[d].at # "write" /\ caller[d].at # "note" /\ caller'[d].at # "note"
    BY <1>1, <1>5, <1>6, <2>2
  <2>4. RowTold'
    <3>1. user = ReplayOf(userLog, People!NoUser) \/ user = ReplayOf(userLog, OldUser)
      BY <2>3, DirHas DEF CleanOK, RowTold
    <3>2. ReplayOf(userLog', People!NoUser) = People!Follow(ReplayOf(userLog, People!NoUser), e)
          /\ ReplayOf(userLog', OldUser) = People!Follow(ReplayOf(userLog, OldUser), e)
      BY <1>1, <1>3, ReplayGrows, RowKinds, DirHas
    <3>3. People!Entry(c)' = e
      BY <1>5, <1>6 DEF People!Entry, e
    <3>4. caller'[c].at = "write"
      BY <1>5, <1>6
    <3> QED
      BY <1>1, <2>2, <3>1, <3>2, <3>3, <3>4 DEF RowTold
  <2>5. People!Logged("preset")' = People!Logged("preset")
          /\ People!Logged("key")' = People!Logged("key")
    BY <1>1, <1>2, <1>3, LoggedMore, DirHas
  <2>6. \A i \in People!Logged("preset") \cup People!Logged("key") : userLog'[i] = userLog[i]
    BY <1>8, LongerIs DEF People!Logged
  <2>7. PresetTold'
    BY <1>1, <2>3, <2>5, <2>6, DirHas DEF CleanOK, PresetTold, Noting, Last
  <2>8. KeyTold'
    BY <1>1, <2>3, <2>5, <2>6, DirHas DEF CleanOK, KeyTold, Noting
  <2> QED
    BY <2>1, <2>4, <2>7, <2>8 DEF CleanOK
<1> QED
  BY <1>1, <1>5, <1>7, <1>8, <1>9, <1>10, DirHas, DirKeeps

\* A step that writes a user's row, or a silence's.
LEMMA WritesRow ==
    ASSUME DirInv, NEW c \in Callers, caller[c].at = "write",
            caller' = [caller EXCEPT ![c] = People!Idle],
           UNCHANGED <<preset, keys, userLog, said, clean>>, user' = People!Follow(user,
                   People!Entry(c)),
           user' \in UserRow, user' = People!NoUser \/ user'.role \in People!ColumnRoles,
                   ack' \in Nat, gap' \in BOOLEAN,
           user'.role = user.role \/ user'.role = ""
               \/ (caller[c].op \in {"created", "role_changed"} /\ user'.role = caller[c].val),
           user' # People!NoUser /\ ~user'.active => (user # People!NoUser
                   /\ ~user.active) \/ caller[c].op = "disabled",
           gap' => gap \/ caller[c].op = "silence_acknowledged",
           ack' # 0 => ack' = ack /\ user' # People!NoUser
    PROVE  DirInv'
<1>1. People!Idle \in CallerRow /\ caller'[c] = People!Idle
  BY IdleKind DEF DirInv, DirType
<1>2. Stands(c)'
  BY <1>1, IdleKind DEF Stands
<1>3. Longer /\ \A a : People!Logged(a)' = People!Logged(a)
  BY DEF Longer, People!Logged
<1>4. caller[c].ref \in People!Logged(caller[c].op) /\ userLog[caller[c].ref].val = caller[c].val
  BY DirHas DEF Stands, People!Logged
<1>5. People!LoggedFirst'
  BY <1>3, <1>4, FirstStays
<1>6. clean => CleanOK'
  BY CleanWrite
<1> QED
  BY <1>1, <1>2, <1>3, <1>5, <1>6, DirHas, DirKeeps

LEMMA WriterIs == ASSUME DirInv, NEW c \in Callers, caller[c].at = "write" PROVE
    /\ caller[c].op \in People!Audited /\ People!Entry(c).act = caller[c].op
            /\ People!Entry(c).val = caller[c].val
    /\ People!Entry(c) \in Fact /\ People!Follow(user, People!Entry(c)) \in UserRow
<1>1. caller[c].op \in People!Audited /\ caller[c].op # "none"
  BY DirHas DEF Stands, People!Audited
<1> QED
  BY <1>1, EntryIs, FollowType, DirHas

LEMMA InsertRow == ASSUME DirInv, NEW c \in Callers, People!Insert(c) PROVE DirInv'
<1>1. /\ caller[c].at = "write" /\ caller[c].op = "created" /\ caller[c].val \in People!ColumnRoles
      /\ user' = [role |-> caller[c].val, active |-> TRUE]
              /\ caller' = [caller EXCEPT ![c] = People!Idle]
      /\ UNCHANGED <<ack, gap, preset, keys, userLog, said, clean>> /\ user = People!NoUser
  BY DEF People!Insert, People!Ends
<1>2. user' = People!Follow(user, People!Entry(c)) /\ user' \in UserRow
  BY <1>1, WriterIs DEF People!Follow
<1>3. user'.role = caller[c].val /\ user'.active
  BY <1>1
<1>4. ack = 0
  BY <1>1, DirHas
<1> QED
  BY <1>1, <1>2, <1>3, <1>4, WritesRow, DirHas

LEMMA ChangeRow == ASSUME DirInv, NEW c \in Callers, People!ChangeRole(c) PROVE DirInv'
<1>1. /\ caller[c].at = "write" /\ caller[c].op = "role_changed"
        /\ caller' = [caller EXCEPT ![c] = People!Idle]
      /\ UNCHANGED <<ack, gap, preset, keys, userLog, said, clean>>
  BY DEF People!ChangeRole, People!Ends
<1>2. user' = People!Follow(user, People!Entry(c)) /\ user' \in UserRow
  <2>1. People!Follow(user, People!Entry(c)) =
            IF user # People!NoUser THEN [user EXCEPT !.role = caller[c].val] ELSE user
    BY <1>1, WriterIs DEF People!Follow
  <2>2. user' = People!Follow(user, People!Entry(c))
    BY <2>1 DEF People!ChangeRole
  <2> QED
    BY <1>1, <2>2, WriterIs
<1>3. CASE user = People!NoUser
  <2>1. user' = user
    BY <1>3 DEF People!ChangeRole
  <2> QED
    BY <1>1, <1>2, <2>1, WritesRow, DirHas
<1>4. CASE user # People!NoUser
  <2>1. caller[c].val \in People!ColumnRoles /\ user' = [user EXCEPT !.role = caller[c].val]
    BY <1>4 DEF People!ChangeRole
  <2>2. user'.role = caller[c].val /\ user'.active = user.active /\ user'.role # ""
    BY <2>1, DirHas DEF UserRow, People!ColumnRoles
  <2>3. user' # People!NoUser
    BY <2>2, RowKinds
  <2>4. ~user'.active => ~user.active
    BY <2>2
  <2> QED
    BY <1>1, <1>2, <1>4, <2>1, <2>2, <2>3, <2>4, WritesRow, DirHas
<1> QED
  BY <1>3, <1>4

LEMMA DisableRow == ASSUME DirInv, NEW c \in Callers, People!Disable(c) PROVE DirInv'
<1>1. /\ caller[c].at = "write" /\ caller[c].op = "disabled"
        /\ caller' = [caller EXCEPT ![c] = People!Idle]
      /\ UNCHANGED <<ack, gap, preset, keys, userLog, said, clean>>
      /\ user' = IF user = People!NoUser THEN user ELSE [user EXCEPT !.active = FALSE]
  BY DEF People!Disable, People!Ends
<1>2. user' = People!Follow(user, People!Entry(c)) /\ user' \in UserRow
  <2>1. People!Follow(user, People!Entry(c)) =
            IF user # People!NoUser THEN [user EXCEPT !.active = FALSE] ELSE user
    BY <1>1, WriterIs DEF People!Follow
  <2> QED
    BY <1>1, <2>1, WriterIs
<1>3. user'.role = user.role
  BY <1>1, DirHas DEF UserRow
<1>4. user # People!NoUser => user' # People!NoUser
  <2>1. user # People!NoUser => user'.role # ""
    BY <1>3, DirHas DEF People!ColumnRoles
  <2> QED
    BY <2>1, RowKinds
<1>5. user' = People!NoUser \/ user'.role \in People!ColumnRoles
  BY <1>1, <1>3, DirHas
<1> QED
  BY <1>1, <1>2, <1>3, <1>4, <1>5, WritesRow, DirHas

LEMMA DeleteRow == ASSUME DirInv, NEW c \in Callers, People!Delete(c) PROVE DirInv'

        <1>1. /\ caller[c].at = "write" /\ caller[c].op = "deleted"
                /\ caller' = [caller EXCEPT ![c] = People!Idle]
      /\ UNCHANGED <<gap, preset, keys, userLog, said, clean>> /\ user' = People!NoUser /\ ack' = 0
  BY DEF People!Delete, People!Ends
<1>2. user' = People!Follow(user, People!Entry(c)) /\ user' \in UserRow
  BY <1>1, WriterIs DEF People!Follow
<1>3. user'.role = ""
  BY <1>1 DEF People!NoUser
<1> QED
  BY <1>1, <1>2, <1>3, WritesRow, DirHas

LEMMA SilenceRow == ASSUME DirInv, NEW c \in Callers, People!AcknowledgeSilence(c) PROVE DirInv'
<1>1. /\ caller[c].at = "write" /\ caller[c].op = "silence_acknowledged"
        /\ caller' = [caller EXCEPT ![c] = People!Idle]
      /\ UNCHANGED <<user, ack, preset, keys, userLog, said, clean>> /\ gap' = TRUE
  BY DEF People!AcknowledgeSilence, People!Ends
<1>2. user' = People!Follow(user, People!Entry(c))
  BY <1>1, WriterIs, FollowOther DEF Plainly
<1> QED
  BY <1>1, <1>2, WritesRow, DirHas

\* The steps of an acknowledgement, and the first of a preset's change.
LEMMA QuietStep ==
    ASSUME DirInv, NEW c \in Callers, NEW r \in CallerRow, caller' = [caller EXCEPT ![c] = r],
           caller[c].at \notin {"idle", "write", "note"}, r.at \notin {"write", "note"},
           UNCHANGED <<user, gap, preset, keys>>, ack' \in Nat, clean' \in BOOLEAN, clean' => clean,
           userLog' = userLog \/ \E e \in Fact : userLog' = Append(userLog, e)
                   /\ e.act \notin Plainly \cup {"preset"},
           ack' # 0 => (ack' = ack \/ ack' \in People!Logged("acknowledge")')
                   /\ user' # People!NoUser,
           said' \subseteq said \cup People!Logged("acknowledge")', Stands(c)'
    PROVE  DirInv'
<1>1. Longer
  BY DEF Longer
<1>2. People!LoggedFirst'
  BY <1>1, FirstStays
<1>3. clean' => CleanOK'
  BY AloneIs, CleanQuiet
<1> QED
  BY <1>1, <1>2, <1>3, DirHas, DirKeeps

LEMMA LookStep == ASSUME DirInv, NEW c \in Callers,
                         People!LookUpAck(c) \/ People!LookUpFails(c)
                  PROVE  DirInv'
<1>1. /\ caller[c].at = "look" /\ caller[c].op = "acknowledge"
      /\ UNCHANGED <<user, ack, gap, preset, keys, userLog>>
      /\ (ack # 0 => user # People!NoUser /\ ack \in People!Logged("acknowledge")) /\ ack \in Nat
      /\ People!Logged("acknowledge")' = People!Logged("acknowledge") /\ clean' \in BOOLEAN
              /\ (clean' => clean)
  <2>1. caller[c].at = "look" /\ UNCHANGED <<user, ack, gap, preset, keys, userLog>>
        /\ (clean' = clean \/ clean' = FALSE)
    BY DEF People!LookUpAck, People!LookUpFails
  <2>2. caller[c].op = "acknowledge"
    BY <2>1, DirHas DEF Stands
  <2>3. People!Logged("acknowledge")' = People!Logged("acknowledge")
    BY <2>1 DEF People!Logged
  <2>4. ack # 0 => user # People!NoUser /\ ack \in People!Logged("acknowledge")
    BY DirHas DEF People!LoggedFirst
  <2>5. clean' \in BOOLEAN /\ (clean' => clean)
    <3>1. clean \in BOOLEAN
      BY DirHas
    <3>2. CASE clean' = clean
      BY <3>1, <3>2, Zenon
    <3>3. CASE clean' = FALSE
      BY <3>3, Zenon
    <3> QED
      BY <2>1, <3>2, <3>3
  <2> QED
    BY <2>1, <2>2, <2>3, <2>4, <2>5, DirHas
<1>2. CASE caller' = [caller EXCEPT ![c] = People!Idle] /\ ack # 0 /\ said' = said \cup {ack}
  <2>1. caller'[c] = People!Idle
    BY <1>2 DEF DirInv, DirType
  <2>2. Stands(c)'
    BY <2>1, IdleKind DEF Stands
  <2>3. said' \subseteq said \cup People!Logged("acknowledge")'
    BY <1>1, <1>2
  <2> QED
    BY <1>1, <1>2, <2>2, <2>3, IdleKind, QuietStep
<1>3. CASE caller' = [caller EXCEPT ![c].at = "log"] /\ said' = said
  <2> DEFINE r == [caller[c] EXCEPT !.at = "log"]
  <2>1. r \in CallerRow /\ r.at = "log" /\ r.op = caller[c].op /\ caller' = [caller EXCEPT ![c] = r]
    BY <1>3, DirHas DEF CallerRow, Places, DirInv, DirType
  <2>2. caller'[c] = r
    BY <2>1 DEF DirInv, DirType
  <2> HIDE DEF r
  <2>3. Stands(c)'
    BY <1>1, <2>1, <2>2 DEF Stands
  <2> QED
    BY <1>1, <1>3, <2>1, <2>3, QuietStep
<1> QED
  BY <1>2, <1>3 DEF People!LookUpAck, People!LookUpFails, People!Ends

LEMMA LogAckStep == ASSUME DirInv, NEW c \in Callers, People!LogAck(c) PROVE DirInv'
<1> DEFINE r == [caller[c] EXCEPT !.at = "store", !.ref = Len(userLog) + 1]
           e == People!Entry(c)
<1>1. /\ caller' = [caller EXCEPT ![c] = r] /\ userLog' = Append(userLog, e) /\ caller[c].at = "log"
      /\ UNCHANGED <<user, ack, gap, preset, keys, said, clean>>
  BY DEF People!LogAck, DirInv, DirType
<1>2. caller[c].op = "acknowledge"
  BY <1>1, DirHas DEF Stands
<1>3. e \in Fact /\ e.act = "acknowledge" /\ e.val = caller[c].val
  BY <1>2, EntryIs
<1>4. Len(userLog) + 1 \in Nat /\ Len(userLog) + 1 \in DOMAIN userLog'
        /\ userLog'[Len(userLog) + 1] = e
  BY <1>1, <1>3, FactMore, DirHas
<1>5. r \in CallerRow /\ r.at = "store" /\ r.op = caller[c].op /\ r.val = caller[c].val
        /\ r.ref = Len(userLog) + 1
  BY <1>4, DirHas DEF CallerRow, Places
<1>6. caller'[c] = r
  BY <1>1 DEF DirInv, DirType
<1> HIDE DEF r, e
<1>7. Stands(c)'
  BY <1>2, <1>3, <1>4, <1>5, <1>6 DEF Stands
<1>8. e.act \notin Plainly \cup {"preset"}
  BY <1>3 DEF Plainly
<1> QED
  BY <1>1, <1>3, <1>5, <1>7, <1>8, DirHas, QuietStep

LEMMA StoreStep == ASSUME DirInv, NEW c \in Callers, People!StoreAck(c) PROVE DirInv'
<1>1. /\ caller[c].at = "store" /\ caller' = [caller EXCEPT ![c] = People!Idle]
        /\ user # People!NoUser
      /\ ack' = IF ack = 0 THEN caller[c].ref ELSE ack
      /\ said' = said \cup {caller[c].ref} /\ UNCHANGED <<user, gap, preset, keys, userLog, clean>>
  BY DEF People!StoreAck, People!Ends
<1>2. caller[c].ref \in People!Logged("acknowledge") /\ caller[c].ref \in Nat
  BY <1>1, DirHas DEF Stands, People!Logged, CallerRow
<1>3. caller'[c] = People!Idle
  BY <1>1, IdleKind DEF DirInv, DirType
<1>4. Stands(c)'
  BY <1>3, IdleKind DEF Stands
<1>5. People!Logged("acknowledge")' = People!Logged("acknowledge")
  BY <1>1 DEF People!Logged
<1> QED
  BY <1>1, <1>2, <1>4, <1>5, IdleKind, DirHas, QuietStep

LEMMA ReadStep == ASSUME DirInv, NEW c \in Callers, People!ReadPreset(c) PROVE DirInv'
<1> DEFINE r == [caller[c] EXCEPT !.at = "update"]
<1>1. /\ caller' = [caller EXCEPT ![c] = r] /\ caller[c].at = "read"
      /\ UNCHANGED <<user, ack, gap, preset, keys, userLog, said, clean>>
  BY DEF People!ReadPreset, DirInv, DirType
<1>2. r \in CallerRow /\ r.at = "update" /\ r.op = caller[c].op
  BY DirHas DEF CallerRow, Places
<1>3. caller'[c] = r /\ caller[c].op = "preset"
  BY <1>1, DirHas DEF DirInv, DirType, Stands
<1> HIDE DEF r
<1>4. Stands(c)'
  BY <1>2, <1>3 DEF Stands
<1> QED
  BY <1>1, <1>2, <1>4, DirHas, QuietStep

\* The row first, its entry after it: while the entry is to come, the call has it.
LEMMA RowFirst ==
    ASSUME DirInv, NEW c \in Callers, NEW r \in CallerRow, caller' = [caller EXCEPT ![c] = r],
           caller[c].at \in {"update", "insert"}, r.at \in {"idle", "note"}, Stands(c)',
           UNCHANGED <<user, ack, gap, userLog, said, clean>>,
           preset' = preset \/ (r.at = "note" /\ r.op = "preset"),
           r.at = "note" /\ r.op = "preset" => preset' = r.val,
           "tenant" \in keys' => "tenant" \in keys \/ (r.at = "note" /\ r.op = "key")
    PROVE  DirInv'
<1>1. Longer /\ \A a : People!Logged(a)' = People!Logged(a)
  BY DEF Longer, People!Logged
<1>2. People!LoggedFirst'
  BY <1>1, DirHas DEF People!LoggedFirst
<1>3. clean => CleanOK'
  <2> SUFFICES ASSUME clean PROVE CleanOK'
    OBVIOUS
  <2>1. caller'[c] = r /\ OneAtWork' /\ \A d \in Callers \ {c} : caller'[d] = People!Idle
          /\ caller[d] = People!Idle
    BY Alone
  <2>2. \A d \in Callers : caller[d].at \notin {"write", "note"} /\ caller'[d].at # "write"
                           /\ (d # c => caller'[d].at = "idle")
    BY <2>1, IdleKind
  <2>3. RowTold'
    BY <2>2, DirHas DEF CleanOK, RowTold
  <2>4. PresetTold'
    <3>1. (People!Logged("preset") = {} /\ preset = "low") \/ Last(preset)
      BY <2>2, DirHas DEF CleanOK, PresetTold, Noting
    <3>2. Last(preset) /\ preset' = preset => Last(preset)'
      BY <1>1 DEF Last
    <3>3. Noting(c, "preset")' \/ preset' = preset
      BY <2>1 DEF Noting
    <3>4. (\A d \in Callers : ~Noting(d, "preset")') =>
              (People!Logged("preset")' = {} /\ preset' = "low") \/ Last(preset)'
      BY <1>1, <3>1, <3>2, <3>3
    <3>5. \A d \in Callers : Noting(d, "preset")' => preset' = caller'[d].val
      BY <2>1, <2>2 DEF Noting
    <3> QED
      BY <3>4, <3>5 DEF PresetTold
  <2>5. KeyTold'
    <3>1. "tenant" \in keys => \E i \in People!Logged("key") : userLog[i].val = "tenant"
      BY <2>2, DirHas DEF CleanOK, KeyTold, Noting
    <3>2. (r.at = "note" /\ r.op = "key") => Noting(c, "key")'
      BY <2>1 DEF Noting
    <3> QED
      BY <1>1, <3>1, <3>2 DEF KeyTold
  <2> QED
    BY <2>1, <2>3, <2>4, <2>5 DEF CleanOK
<1> QED
  BY <1>1, <1>2, <1>3, DirHas, DirKeeps

LEMMA UpdatePresetStep == ASSUME DirInv, NEW c \in Callers, People!UpdatePreset(c) PROVE DirInv'
<1> DEFINE r == [caller[c] EXCEPT !.at = "note"]
<1>1. /\ caller' = [caller EXCEPT ![c] = r] /\ caller[c].at = "update" /\ preset' = caller[c].val
      /\ UNCHANGED <<user, ack, gap, keys, userLog, said, clean>>
  BY DEF People!UpdatePreset, DirInv, DirType
<1>2. r \in CallerRow /\ r.at = "note" /\ r.op = caller[c].op /\ r.val = caller[c].val
  BY DirHas DEF CallerRow, Places
<1>3. caller'[c] = r /\ caller[c].op = "preset"
  BY <1>1, DirHas DEF DirInv, DirType, Stands
<1> HIDE DEF r
<1>4. Stands(c)'
  BY <1>2, <1>3 DEF Stands
<1> QED
  BY <1>1, <1>2, <1>3, <1>4, RowFirst

LEMMA InsertKeyStep == ASSUME DirInv, NEW c \in Callers, People!InsertKey(c) PROVE DirInv'
<1>1. /\ caller[c].at = "insert" /\ keys' = keys \cup {caller[c].val}
      /\ UNCHANGED <<user, ack, gap, preset, userLog, said, clean>> /\ caller[c].op = "key"
  BY DirHas DEF People!InsertKey, Stands
<1>2. CASE caller[c].val = "tenant" /\ caller' = [caller EXCEPT ![c].at = "note"]
  <2> DEFINE r == [caller[c] EXCEPT !.at = "note"]
  <2>1. r \in CallerRow /\ r.at = "note" /\ r.op = "key" /\ r.val = "tenant"
    BY <1>1, <1>2, DirHas DEF CallerRow, Places
  <2>2. caller' = [caller EXCEPT ![c] = r] /\ caller'[c] = r
    BY <1>2 DEF DirInv, DirType
  <2> HIDE DEF r
  <2>3. Stands(c)'
    BY <2>1, <2>2 DEF Stands
  <2> QED
    BY <1>1, <2>1, <2>2, <2>3, RowFirst
<1>3. CASE caller[c].val = "system" /\ caller' = [caller EXCEPT ![c] = People!Idle]
  <2>1. caller'[c] = People!Idle
    BY <1>3 DEF DirInv, DirType
  <2>2. Stands(c)'
    BY <2>1, IdleKind DEF Stands
  <2> QED
    BY <1>1, <1>3, <2>2, IdleKind, RowFirst
<1> QED
  BY <1>2, <1>3 DEF People!InsertKey, People!Ends

LEMMA NoteStep == ASSUME DirInv, NEW c \in Callers, People!Note(c) PROVE DirInv'
<1> DEFINE e == People!Entry(c)
<1>1. /\ caller[c].at = "note" /\ caller' = [caller EXCEPT ![c] = People!Idle]
      /\ UNCHANGED <<user, ack, gap, preset, keys, said>>
  BY DEF People!Note, People!Ends
<1>2. CASE userLog' = userLog
  <2>1. clean' = FALSE
    <3>1. People!Entry(c) \in Fact
      BY <1>1, EntryIs, DirHas DEF Stands
    <3>2. userLog' # Append(userLog, People!Entry(c))
      <4>1. userLog \in Seq(Fact)
        BY DirHas
      <4>2. Len(Append(userLog, People!Entry(c))) = Len(userLog) + 1 /\ Len(userLog) \in Nat
        BY <3>1, <4>1, AppendProperties, LenProperties
      <4> QED
        BY <1>2, <4>2
    <3> QED
      BY <3>2 DEF People!Note
  <2> QED
    BY <1>1, <1>2, <2>1, RefusedStep
<1>3. CASE userLog' = Append(userLog, e) /\ clean' = clean
  <2>1. e \in Fact /\ e.act = caller[c].op /\ e.val = caller[c].val
        /\ (caller[c].op = "preset" \/ (caller[c].op = "key" /\ caller[c].val = "tenant"))
    BY <1>1, EntryIs, DirHas DEF Stands
  <2> HIDE DEF e
  <2>2. Longer
    BY <1>3, <2>1 DEF Longer
  <2>3. People!LoggedFirst'
    BY <1>1, <2>2, DirHas, FirstStays
  <2>4. People!Idle \in CallerRow /\ caller'[c] = People!Idle
    BY <1>1, IdleKind DEF DirInv, DirType
  <2>5. Stands(c)'
    BY <2>4, IdleKind DEF Stands
  <2>6. clean => CleanOK'
    <3> SUFFICES ASSUME clean PROVE CleanOK'
      OBVIOUS
    <3>1. OneAtWork' /\ \A d \in Callers \ {c} : caller'[d] = People!Idle /\ caller[d] = People!Idle
      BY <1>1, <2>4, Alone
    <3>2. \A d \in Callers : caller'[d].at = "idle" /\ (d # c => caller[d].at = "idle")
            /\ caller[d].at # "write"
      BY <1>1, <2>4, <3>1, IdleKind
    <3>3. e.act \notin Plainly
      BY <2>1 DEF Plainly
    <3>4. RowTold'
      <4>1. user = ReplayOf(userLog, People!NoUser) \/ user = ReplayOf(userLog, OldUser)
        BY <3>2, DirHas DEF CleanOK, RowTold
      <4>2. ReplayOf(userLog', People!NoUser) = People!Follow(ReplayOf(userLog, People!NoUser), e)
            /\ ReplayOf(userLog', OldUser) = People!Follow(ReplayOf(userLog, OldUser), e)
        BY <1>3, <2>1, ReplayGrows, RowKinds, DirHas
      <4>3. People!Follow(user, e) = user
        BY <3>3, FollowOther
      <4> QED
        BY <1>1, <3>2, <4>1, <4>2, <4>3 DEF RowTold
    <3>5. \A i \in DOMAIN userLog : userLog'[i] = userLog[i]
      BY <2>2, LongerIs
    <3>6. CASE caller[c].op = "preset"
      <4>1. preset = e.val
        BY <1>1, <2>1, <3>6, DirHas DEF CleanOK, PresetTold, Noting
      <4>2. Last(preset)'
        <5>1. /\ Len(userLog) + 1 \in People!Logged("preset")' /\ userLog'[Len(userLog) + 1] = e
              /\ \A i \in People!Logged("preset")' : i <= Len(userLog) + 1
          BY <1>3, <2>1, <3>6, LoggedMore, FactMore, DirHas
        <5> QED
          BY <1>1, <4>1, <5>1 DEF Last
      <4>3. PresetTold'
        BY <3>2, <4>2 DEF PresetTold, Noting
      <4>4. KeyTold'
        <5>1. People!Logged("key")' = People!Logged("key")
          BY <1>3, <2>1, <3>6, LoggedMore, DirHas
        <5>2. "tenant" \in keys => \E i \in People!Logged("key") : userLog[i].val = "tenant"
          BY <3>2, <3>6, DirHas DEF CleanOK, KeyTold, Noting
        <5> QED
          BY <1>1, <3>5, <5>1, <5>2 DEF KeyTold, People!Logged
      <4> QED
        BY <3>1, <3>4, <4>3, <4>4 DEF CleanOK
    <3>7. CASE caller[c].op = "key"
      <4>1. KeyTold'
        <5>1. Len(userLog) + 1 \in People!Logged("key")' /\ userLog'[Len(userLog) + 1] = e
          BY <1>3, <2>1, <3>7, LoggedMore, FactMore, DirHas
        <5> QED
          BY <2>1, <3>7, <5>1 DEF KeyTold
      <4>2. PresetTold'
        <5>1. People!Logged("preset")' = People!Logged("preset")
          BY <1>3, <2>1, <3>7, LoggedMore, DirHas
        <5>2. (People!Logged("preset") = {} /\ preset = "low") \/ Last(preset)
          BY <3>2, <3>7, DirHas DEF CleanOK, PresetTold, Noting
        <5>3. Last(preset) => Last(preset)'
          BY <1>1, <3>5, <5>1 DEF Last, People!Logged
        <5> QED
          BY <1>1, <3>2, <5>1, <5>2, <5>3 DEF PresetTold, Noting
      <4> QED
        BY <3>1, <3>4, <4>1, <4>2 DEF CleanOK
    <3> QED
      BY <2>1, <3>6, <3>7
  <2> QED
    BY <1>1, <1>3, <2>2, <2>3, <2>4, <2>5, <2>6, DirHas, DirKeeps
<1> QED
  BY <1>2, <1>3 DEF People!Note

LEMMA DirStays == ASSUME DirInv, UNCHANGED <<user, ack, gap, preset, keys, userLog, caller, said,
        made, clean>>
                  PROVE  DirInv'
<1>1. DirType'
  BY DirHas DEF DirInv, DirType
<1>2. \A c \in Callers : Stands(c)'
  BY DirHas DEF Stands
<1>3. \A a : People!Logged(a)' = People!Logged(a)
  BY DEF People!Logged
<1>4. People!LoggedFirst'
  BY <1>3, DirHas DEF People!LoggedFirst
<1>5. clean => CleanOK'
  <2> SUFFICES ASSUME clean PROVE CleanOK'
    OBVIOUS
  <2>1. OneAtWork'
    BY DirHas DEF CleanOK, OneAtWork
  <2>2. RowTold'
    BY DirHas DEF CleanOK, RowTold, People!Entry
  <2>3. PresetTold'
    BY <1>3, DirHas DEF CleanOK, PresetTold, Noting, Last
  <2>4. KeyTold'
    BY <1>3, DirHas DEF CleanOK, KeyTold, Noting
  <2> QED
    BY <2>1, <2>2, <2>3, <2>4 DEF CleanOK
<1> QED
  BY <1>1, <1>2, <1>4, <1>5 DEF DirInv

LEMMA DirStep == ASSUME DirInv, People!DirNext PROVE DirInv'
<1>1. PICK c \in Callers :
        \/ \E op \in People!Ops : \E val \in People!Values(op) : People!Call(c, op, val)
        \/ People!Audit(c) \/ People!Insert(c) \/ People!InsertRefused(c) \/ People!ChangeRole(c)
                \/ People!ChangeRoleRefused(c)
        \/ People!Disable(c) \/ People!Delete(c) \/ People!DeleteRefused(c)
        \/ People!AcknowledgeSilence(c) \/ People!AcknowledgeSilenceRefused(c)
        \/ People!LookUpAck(c) \/ People!LookUpFails(c) \/ People!LogAck(c) \/ People!StoreAck(c)
                \/ People!StoreAckRefused(c)
        \/ People!ReadPreset(c) \/ People!UpdatePreset(c) \/ People!InsertKey(c)
                \/ People!InsertKeyRefused(c)
        \/ People!Note(c) \/ People!RevokeKey(c) \/ People!Breaks(c)
  BY DEF People!DirNext
<1> QED
  BY <1>1, CallStep, AuditStep, InsertRow, ChangeRow, DisableRow, DeleteRow, SilenceRow,
     RefusedSteps,
     LookStep, LogAckStep, StoreStep, ReadStep, UpdatePresetStep, InsertKeyStep, NoteStep

\* For any calls at once and whichever statements fail: no row kept of people shows what was not
\* logged first, an acknowledgement names an entry that is one, and while no calls overlap and
\* none fails, the log alone tells what the rows are.
THEOREM DirectoryHolds == PartsSpec => []DirectoryTrue
<1>1. PartsInit => DirInv
  BY DirBegins DEF PartsInit
<1>2. ASSUME DirInv,
             [PartsNext]_<<part, vars, dlqVars, userVars, ticketVars, licVars, calls, faults>>
             PROVE DirInv'
  <2>1. CASE UNCHANGED userVars
    BY <1>2, <2>1, DirStays DEF userVars
  <2>2. CASE People!DirNext
    BY <1>2, <2>2, DirStep
  <2> QED
    BY <1>2, <2>1, <2>2 DEF PartsNext
<1>3. DirInv => DirectoryTrue
  BY DirImplies DEF DirectoryTrue
<1> QED
  BY <1>1, <1>2, <1>3, PTL DEF PartsSpec
=============================================================================
