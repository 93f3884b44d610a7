--------------------------- MODULE AuditChainProofs ---------------------------
(* The entries of audit_events have their numbers in the order of time and    *)
(* hang together, and the nightly script sees every fork; the verifier of     *)
(* audit_log raises no alarm without a cause and attests no damage that it    *)
(* could have seen.  Of the evidence locker, the other part of MCEvidence:    *)
(* its rows, objects, entries and packs agree.                                *)
EXTENDS MCEvidence, SequenceTheorems, FiniteSetTheorems, TLAPS

Tailed == Tenants \cup {NoTenant}
ScriptStates == [pc : {"idle", "gaps"}, tenant : Tailed, upto : Nat, broken : BOOLEAN]

LegacyRow == [tenant : Tenants, body : Bodies]

\* What a sequence is made of.
LEMMA SeqIs ==
  ASSUME NEW S, NEW s \in Seq(S)
  PROVE  Len(s) \in Nat /\ DOMAIN s = 1..Len(s) /\ \A i \in 1..Len(s) : s[i] \in S
OBVIOUS

LEMMA SeqMade ==
  ASSUME NEW S, NEW n \in Nat, NEW s \in [1..n -> S] PROVE s \in Seq(S) /\ Len(s) = n
OBVIOUS

LEMMA SeqExcept ==
  ASSUME NEW S, NEW s \in Seq(S), NEW i \in 1..Len(s), NEW e \in S, NEW z, z = [s EXCEPT ![i] = e]
  PROVE  z \in Seq(S) /\ Len(z) = Len(s) /\ \A k \in 1..Len(s) : z[k] = IF k = i THEN e ELSE s[k]
OBVIOUS

-----------------------------------------------------------------------------
(* What the verifier knows of the log *)

RunType == [pc : Phases, tenant : Tailed, prev : Places, last : Places, offset : Places,
            batch : SUBSET Rows, n : 0..BatchSize, cut : BOOLEAN, conn : Writers \cup {Idle}]

TypeLog ==
    /\ events \in Seq(Appending)
    /\ append \in [Writers -> Appending \cup {Idle}]
    /\ script \in ScriptStates /\ (script.pc = "gaps" => script.tenant \in Tenants)
    /\ passed \in [Tenants -> Nat] /\ failed \subseteq Tenants
    /\ day \in 1..MaxDays
    /\ faults \in 0..MaxFaults

TypeRun ==
    /\ legacy \in Seq(LegacyRow) /\ Len(legacy) <= MaxLegacy
    /\ run \in RunType /\ (run.pc # "idle" => run.tenant \in Tenants)
    /\ ran \in [Tenants -> 0..MaxDays]
    /\ checkpoint \in [Tenants -> [id : Places, hash : Places]]
    /\ alarms \subseteq Tenants /\ spent \subseteq Tenants /\ late \subseteq 1..Len(legacy)

Working == run.pc \in {"query", "rows", "sign"}

\* A batch holds every entry of the tenant between what was reached and its own last,
\* as it is or was before it was damaged.
BatchTrue == run.pc = "rows" =>
    /\ IsFiniteSet(run.batch) /\ run.n + Cardinality(run.batch) <= BatchSize
    /\ run.n # 0 => run.last # 0
    /\ \A r \in run.batch :
        /\ Reached < r.id /\ r.id \in OwnLegacy(run.tenant)
        /\ r.body = "bad" => r.id \in Damaged
        /\ r.id \in Damaged => r.body = "bad" \/ r.id \in late
        /\ \A q \in run.batch : q.id = r.id => q = r
        /\ \A i \in OwnLegacy(run.tenant) :
               Reached < i /\ i < r.id => \E q \in run.batch : q.id = i

\* A batch that was not full is the rest of the log.
RestTrue ==
    /\ run.pc = "query" => Reached = run.offset
    /\ run.pc = "rows" /\ ~run.cut /\ run.n + Cardinality(run.batch) < BatchSize =>
           \A i \in OwnLegacy(run.tenant) : i <= Reached \/ \E r \in run.batch : r.id = i
    /\ CoversAll

\* A number and its hash belong together, but for a spent checkpoint.
AnchorsTrue ==
    /\ \A t \in Tenants : checkpoint[t].hash = checkpoint[t].id \/ (checkpoint[t].id = 0 /\ t \in spent)
    /\ Working => run.prev = Reached \/ (Reached = 0 /\ run.tenant \in spent)

\* Damage to what was reached came later.
LateTrue ==
    /\ Working /\ run.last = 0 => run.offset <= checkpoint[run.tenant].id
    /\ Working => \A i \in OwnLegacy(run.tenant) \cap Damaged : i <= Reached => i \in late

Covered == \A i \in Damaged : i <= checkpoint[legacy[i].tenant].id => i \in late

RunInv == TypeRun /\ BatchTrue /\ RestTrue /\ AnchorsTrue /\ LateTrue /\ NoFalseAlarm /\ Covered

VerifierInv == TypeLog /\ RunInv

LEMMA VerifierImplies == VerifierInv => VerifierTrue
<1> SUFFICES ASSUME VerifierInv PROVE VerifierTrue
  OBVIOUS
<1>1. TypeOK
  BY DEF VerifierInv, RunInv, TypeLog, TypeRun, RunType, ScriptStates, Tailed, TypeOK, LegacyRow
<1>2. NoFalseAlarm /\ CoversAll /\ Covered
  BY DEF VerifierInv, RunInv, RestTrue
<1> QED
  BY <1>1, <1>2 DEF VerifierTrue, Attested, Covered

LEMMA NoRunIs == NoRun \in RunType /\ NoRun.pc = "idle"
<1>1. 0 \in Places /\ {} \subseteq Rows /\ 0 \in 0..BatchSize
  BY BatchSizePositive DEF Places
<1> QED
  BY <1>1 DEF NoRun, RunType, Phases, Tailed

LEMMA VerifierBegins == Init => VerifierInv
<1> SUFFICES ASSUME Init PROVE VerifierInv
  OBVIOUS
<1>1. PICK n \in 0..MaxLegacy : legacy \in [1..n -> [tenant : Tenants, body : {"good"}]]
  BY DEF Init
<1>2. legacy \in Seq(LegacyRow) /\ Len(legacy) = n /\ n \in Nat
  <2>1. n \in Nat /\ legacy \in [1..n -> LegacyRow]
    BY <1>1, BoundsAreNumbers DEF Bodies, LegacyRow
  <2> QED
    BY <2>1, SeqMade
<1>3. Damaged = {}
  BY <1>1, <1>2 DEF Damaged
<1>4. run = NoRun /\ run.pc = "idle"
  BY NoRunIs DEF Init
<1>5. TypeLog
  BY BoundsAreNumbers DEF Init, TypeLog, NoScript, ScriptStates, Tailed
<1>6. checkpoint = [t \in Tenants |-> NoCheckpoint] /\ NoCheckpoint.id = 0 /\ NoCheckpoint.hash = 0
      /\ NoCheckpoint \in [id : Places, hash : Places]
  BY <1>2 DEF Init, NoCheckpoint, Places
<1>7. TypeRun
  BY <1>1, <1>2, <1>4, <1>6, NoRunIs, BoundsAreNumbers DEF Init, TypeRun
<1>8. BatchTrue /\ RestTrue /\ AnchorsTrue /\ LateTrue
  BY <1>4, <1>6 DEF BatchTrue, RestTrue, CoversAll, AnchorsTrue, LateTrue, Working
<1>9. NoFalseAlarm /\ Covered
  BY <1>3 DEF Init, NoFalseAlarm, Covered
<1> QED
  BY <1>5, <1>7, <1>8, <1>9 DEF VerifierInv, RunInv

-----------------------------------------------------------------------------
(* RunForTenant *)

others == <<legacy, checkpoint, alarms, spent, late>>

\* A run that reads no more.
LEMMA Aside ==
  ASSUME RunInv, run' \in RunType, run'.pc \in {"idle", "audit", "wait"},
         run'.pc # "idle" => run'.tenant \in Tenants,
         ran' \in [Tenants -> 0..MaxDays], UNCHANGED others
  PROVE  RunInv'
<1>1. UNCHANGED <<legacy, checkpoint, alarms, spent, late>>
  BY DEF others
<1>2. BatchTrue' /\ RestTrue' /\ LateTrue'
  BY DEF BatchTrue, RestTrue, CoversAll, LateTrue, Working
<1>3. AnchorsTrue'
  BY <1>1 DEF RunInv, AnchorsTrue, Working
<1>4. TypeRun'
  BY <1>1 DEF RunInv, TypeRun, RunType, Places, Rows
<1>5. NoFalseAlarm' /\ Covered'
  BY <1>1 DEF RunInv, NoFalseAlarm, Covered, OwnLegacy, Damaged, Shared
<1> QED
  BY <1>2, <1>3, <1>4, <1>5 DEF RunInv

LEMMA RunStays == ASSUME RunInv, UNCHANGED <<runVars, legacy, late>> PROVE RunInv'
<1>1. UNCHANGED <<legacy, run, ran, checkpoint, alarms, spent, late>>
  BY DEF runVars
<1>2. TypeRun'
  BY <1>1 DEF RunInv, TypeRun, RunType, Places, Rows
<1>3. BatchTrue'
  BY <1>1 DEF RunInv, BatchTrue, OwnLegacy, Damaged, Reached
<1>4. RestTrue'
  BY <1>1 DEF RunInv, RestTrue, CoversAll, OwnLegacy, Reached
<1>5. AnchorsTrue' /\ LateTrue'
  BY <1>1 DEF RunInv, AnchorsTrue, LateTrue, Working, OwnLegacy, Damaged, Reached
<1>6. NoFalseAlarm' /\ Covered'
  BY <1>1 DEF RunInv, NoFalseAlarm, Covered, OwnLegacy, Damaged, Shared
<1> QED
  BY <1>2, <1>3, <1>4, <1>5, <1>6 DEF RunInv

\* The rows of audit_log.
LEMMA LegacyIs ==
  ASSUME TypeRun
  PROVE  Len(legacy) \in Nat
         /\ \A i \in 1..Len(legacy) : legacy[i] \in LegacyRow /\ legacy[i].tenant \in Tenants
                /\ legacy[i].body \in Bodies
<1>1. Len(legacy) \in Nat /\ \A i \in 1..Len(legacy) : legacy[i] \in LegacyRow
  BY SeqIs DEF TypeRun
<1> QED
  BY <1>1 DEF LegacyRow

LEMMA RunEnds == ASSUME RunInv, run' = NoRun, UNCHANGED <<ran, others>> PROVE RunInv'
<1>1. ran' \in [Tenants -> 0..MaxDays] /\ run' \in RunType /\ run'.pc = "idle"
  BY NoRunIs DEF RunInv, TypeRun
<1> QED
  BY <1>1, Aside

\* The rest of a step that leaves the tables as they are.
LEMMA Rest ==
  ASSUME RunInv, TypeRun', BatchTrue', RestTrue', AnchorsTrue', LateTrue', UNCHANGED others
  PROVE  RunInv'
<1>1. UNCHANGED <<legacy, checkpoint, alarms, spent, late>>
  BY DEF others
<1>2. NoFalseAlarm' /\ Covered'
  BY <1>1 DEF RunInv, NoFalseAlarm, Covered, OwnLegacy, Damaged, Shared
<1> QED
  BY <1>2 DEF RunInv

LEMMA LoadKeeps ==
  ASSUME RunInv, day \in 1..MaxDays, NEW t \in Tenants, Load(t) PROVE RunInv'
<1>1. PICK from \in {checkpoint[t], NoCheckpoint} :
          run' = [NoRun EXCEPT !.pc = "query", !.tenant = t, !.prev = from.hash, !.offset = from.id]
  BY DEF Load
<1>2. UNCHANGED <<legacy, checkpoint, alarms, spent, late>> /\ ran' = [ran EXCEPT ![t] = day]
  BY DEF Load
<1>3. from \in [id : Places, hash : Places] /\ from.id \in Nat
      /\ (from.hash = from.id \/ (from.id = 0 /\ t \in spent)) /\ from.id <= checkpoint[t].id
  BY DEF RunInv, TypeRun, AnchorsTrue, NoCheckpoint, Places
<1>4. run' = [pc |-> "query", tenant |-> t, prev |-> from.hash, last |-> 0, offset |-> from.id,
              batch |-> {}, n |-> 0, cut |-> FALSE, conn |-> Idle]
  BY <1>1 DEF NoRun
<1>5. TypeRun'
  <2>1. run' \in RunType /\ run'.pc # "rows" /\ run'.tenant \in Tenants
    BY <1>3, <1>4, BatchSizePositive DEF RunType, Phases, Tailed, Places
  <2>2. ran' \in [Tenants -> 0..MaxDays]
    BY <1>2, BoundsAreNumbers DEF RunInv, TypeRun
  <2> QED
    BY <1>2, <2>1, <2>2 DEF RunInv, TypeRun, RunType, Places, Rows
<1>6. BatchTrue' /\ RestTrue'
  BY <1>4 DEF BatchTrue, RestTrue, CoversAll, Reached
<1>7. AnchorsTrue'
  BY <1>2, <1>3, <1>4 DEF RunInv, AnchorsTrue, Working, Reached
<1>8. LateTrue'
  <2>1. \A i \in OwnLegacy(t) \cap Damaged : i <= from.id => i \in late
    <3> TAKE i \in OwnLegacy(t) \cap Damaged
    <3> HAVE i <= from.id
    <3>1. i \in Nat /\ checkpoint[t].id \in Nat /\ legacy[i].tenant = t
      BY DEF OwnLegacy, RunInv, TypeRun, Places
    <3>2. i <= checkpoint[t].id
      BY <1>3, <3>1
    <3> QED
      BY <3>1, <3>2 DEF RunInv, Covered
  <2> QED
    BY <1>2, <1>3, <1>4, <2>1 DEF LateTrue, Working, Reached, OwnLegacy, Damaged
<1> QED
  BY <1>2, <1>5, <1>6, <1>7, <1>8, Rest DEF others

\* What the run has read, as its type says.
LEMMA RunIs ==
  ASSUME RunInv, run.pc # "idle"
  PROVE  /\ run.tenant \in Tenants /\ run.last \in Nat /\ run.offset \in Nat /\ run.prev \in Nat
         /\ run.n \in Nat /\ Reached \in Places /\ Reached \in Nat /\ Len(legacy) \in Nat
         /\ \A r \in run.batch : r \in Rows /\ r.id \in 1..Len(legacy) /\ r.body \in Bodies
         /\ OwnLegacy(run.tenant) \subseteq 1..Len(legacy)
         /\ Places \subseteq Nat
BY DEF RunInv, TypeRun, RunType, Places, Rows, Reached, OwnLegacy

LEMMA QueryKeeps == ASSUME RunInv, Query PROVE RunInv'
<1> DEFINE own == OwnLegacy(run.tenant)
<1>1. PICK some \in Batches(run.tenant, run.offset) :
          run' = [run EXCEPT !.pc = "rows", !.n = 0,
                             !.batch = {[id |-> i, body |-> legacy[i].body] : i \in some}]
  BY DEF Query
<1>2. run.pc = "query" /\ UNCHANGED <<legacy, ran, checkpoint, alarms, spent, late>>
  BY DEF Query
<1>3. /\ \A i \in some : i \in own /\ i > run.offset
      /\ \A i \in some, k \in own : k > run.offset /\ k \notin some => i < k
      /\ \/ Cardinality(some) = BatchSize
         \/ Cardinality(some) < BatchSize /\ \A k \in own : k > run.offset => k \in some
  BY DEF Batches
<1>4. Len(legacy) \in Nat /\ own \subseteq 1..Len(legacy) /\ Reached \in Nat /\ run.offset \in Nat
      /\ Reached = run.offset
  BY <1>2, RunIs DEF RunInv, RestTrue
<1> DEFINE read(i) == [id |-> i, body |-> legacy[i].body]
           new == {read(i) : i \in some}
<1>5. run' = [run EXCEPT !.pc = "rows", !.n = 0, !.batch = new]
  BY <1>1
<1>6. \A i \in some : read(i).id = i /\ read(i).body = legacy[i].body /\ read(i) \in Rows
  <2>1. \A i \in some : i \in 1..Len(legacy) /\ legacy[i].body \in Bodies
    BY <1>3, <1>4, LegacyIs DEF RunInv
  <2> QED
    BY <2>1 DEF Rows
<1>7. IsFiniteSet(new) /\ Cardinality(new) = Cardinality(some)
  <2>1. IsFiniteSet(some)
    <3>1. some \subseteq 1..Len(legacy)
      BY <1>3, <1>4
    <3> QED
      <4>1. IsFiniteSet(1..Len(legacy))
        BY <1>4, FS_Interval
      <4> QED
        BY <3>1, <4>1, FS_Subset
  <2>2. [i \in some |-> read(i)] \in Bijection(some, new)
    BY <1>6 DEF Bijection, Injection, Surjection, IsInjective
  <2>3. ExistsBijection(some, new)
    BY <2>2 DEF ExistsBijection
  <2> QED
    BY <2>1, <2>3, FS_Bijection
<1> HIDE DEF new
<1>8. run \in RunType /\ run.tenant \in Tenants /\ new \subseteq Rows
  BY <1>2, <1>6 DEF RunInv, TypeRun, new
<1>9. run' \in RunType /\ run'.pc = "rows" /\ run'.n = 0 /\ run'.batch = new /\ run'.last = run.last
      /\ run'.offset = run.offset /\ run'.tenant = run.tenant /\ run'.prev = run.prev /\ run'.cut = run.cut
  <2>1. "rows" \in Phases /\ 0 \in 0..BatchSize
    BY BatchSizePositive DEF Phases
  <2>2. run' \in RunType
    BY <1>5, <1>8, <2>1 DEF RunType
  <2>3. run'.pc = "rows" /\ run'.n = 0 /\ run'.batch = new /\ run'.last = run.last
        /\ run'.offset = run.offset /\ run'.tenant = run.tenant /\ run'.prev = run.prev /\ run'.cut = run.cut
    BY <1>5, <1>8 DEF RunType
  <2> QED
    BY <2>2, <2>3
<1>10. Reached' = Reached
  BY <1>9 DEF Reached
<1>11. TypeRun'
  BY <1>2, <1>8, <1>9 DEF RunInv, TypeRun, RunType, Places, Rows
<1>12. Cardinality(new) \in Nat /\ Cardinality(new) <= BatchSize
  BY <1>3, <1>7, BatchSizePositive, FS_CardinalityType
<1>13. BatchTrue'
  <2>1. ASSUME NEW r \in new
        PROVE  /\ Reached < r.id /\ r.id \in own
               /\ r.body = "bad" <=> r.id \in Damaged
               /\ \A q \in new : q.id = r.id => q = r
               /\ \A i \in own : Reached < i /\ i < r.id => \E q \in new : q.id = i
    <3>1. PICK k \in some : r = read(k)
      BY DEF new
    <3>2. r.id = k /\ r.body = legacy[k].body /\ k \in own /\ k > run.offset
      BY <1>3, <1>6, <3>1
    <3>3. \A q \in new : q.id = r.id => q = r
      BY <1>6, <3>1 DEF new
    <3>4. ASSUME NEW i \in own, Reached < i, i < k PROVE \E q \in new : q.id = i
      <4>1. i \in some
        BY <1>3, <1>4, <3>2, <3>4
      <4> QED
        BY <1>6, <4>1 DEF new
    <3>5. k \in 1..Len(legacy)
      BY <1>4, <3>2
    <3> QED
      BY <1>4, <3>2, <3>3, <3>4, <3>5 DEF Damaged
  <2> QED
    BY <1>2, <1>7, <1>9, <1>10, <1>12, <2>1 DEF BatchTrue, OwnLegacy, Damaged
<1>14. RestTrue'
  <2>1. ASSUME Cardinality(new) < BatchSize, NEW i \in own
        PROVE  i <= Reached \/ \E r \in new : r.id = i
    <3>1. i > run.offset => i \in some
      BY <1>3, <1>7, <2>1, BatchSizePositive
    <3> QED
      <4>1. CASE i > run.offset
        <5>1. read(i) \in new /\ read(i).id = i
          BY <1>6, <3>1, <4>1 DEF new
        <5> QED
          BY <5>1
      <4>2. CASE ~(i > run.offset)
        <5>1. i \in Nat
          BY <1>4
        <5> QED
          BY <1>4, <4>2, <5>1
      <4> QED
        BY <4>1, <4>2
  <2> QED
    BY <1>2, <1>9, <1>10, <1>12, <2>1 DEF RestTrue, CoversAll, OwnLegacy
<1>15. AnchorsTrue' /\ LateTrue'
  BY <1>2, <1>9, <1>10 DEF RunInv, AnchorsTrue, LateTrue, Working, OwnLegacy, Damaged
<1> QED
  BY <1>2, <1>11, <1>13, <1>14, <1>15, Rest DEF others

LEMMA CheckKeeps == ASSUME RunInv, Check PROVE RunInv'
<1> DEFINE own == OwnLegacy(run.tenant)
           rest(r) == run.batch \ {r}
<1>1. PICK r \in run.batch :
          /\ IsNext(r) /\ RowOK(r)
          /\ run' = [run EXCEPT !.prev = r.id, !.last = r.id, !.n = run.n + 1, !.batch = run.batch \ {r}]
  BY DEF Check
<1>2. run.pc = "rows" /\ UNCHANGED <<legacy, ran, checkpoint, alarms, spent, late>>
  BY DEF Check
<1>3. /\ Len(legacy) \in Nat /\ own \subseteq 1..Len(legacy) /\ Reached \in Nat /\ run.n \in Nat
      /\ \A q \in run.batch : q \in Rows /\ q.id \in 1..Len(legacy)
      /\ run.tenant \in Tenants
  BY <1>2, RunIs
<1>4. IsFiniteSet(run.batch) /\ run.n + Cardinality(run.batch) <= BatchSize
  BY <1>2 DEF RunInv, BatchTrue
<1>5. \A q \in run.batch :
        /\ Reached < q.id /\ q.id \in own
        /\ q.body = "bad" => q.id \in Damaged
        /\ q.id \in Damaged => q.body = "bad" \/ q.id \in late
        /\ \A p \in run.batch : p.id = q.id => p = q
        /\ \A i \in own : Reached < i /\ i < q.id => \E p \in run.batch : p.id = i
  BY <1>2 DEF RunInv, BatchTrue
<1>6. Cardinality(run.batch) \in Nat /\ Cardinality(run.batch \ {r}) = Cardinality(run.batch) - 1
      /\ IsFiniteSet(run.batch \ {r}) /\ Cardinality(run.batch \ {r}) \in Nat
  BY <1>1, <1>4, FS_RemoveElement, FS_CardinalityType
<1>7. r.id # 0 /\ r.id \in Nat /\ r.id \in Places /\ run.n + 1 \in 0..BatchSize
  BY <1>1, <1>3, <1>4, <1>6, BatchSizePositive DEF Places
<1>8. run \in RunType /\ run.batch \subseteq Rows
  BY <1>3 DEF RunInv, TypeRun
<1>9. run' \in RunType /\ run'.pc = "rows" /\ run'.n = run.n + 1 /\ run'.batch = run.batch \ {r}
      /\ run'.last = r.id /\ run'.offset = run.offset /\ run'.tenant = run.tenant
      /\ run'.prev = r.id /\ run'.cut = run.cut
  <2>1. run.batch \ {r} \subseteq Rows
    BY <1>8
  <2> QED
    BY <1>1, <1>2, <1>7, <1>8, <2>1 DEF RunType
<1>10. Reached' = r.id
  BY <1>7, <1>9 DEF Reached
<1>11. TypeRun'
  BY <1>2, <1>3, <1>9 DEF RunInv, TypeRun, RunType, Places, Rows
<1>12. \A q \in run.batch \ {r} : r.id < q.id
  <2> TAKE q \in run.batch \ {r}
  <2>1. r.id <= q.id /\ r.id # q.id
    BY <1>1, <1>5 DEF IsNext
  <2> QED
    BY <1>1, <1>3, <2>1
<1>13. \A i \in own : i < r.id => i <= Reached
  <2> TAKE i \in own
  <2> HAVE i < r.id
  <2>1. ASSUME Reached < i PROVE FALSE
    <3>1. PICK p \in run.batch : p.id = i
      BY <1>1, <1>5, <2>1
    <3> QED
      BY <1>1, <1>3, <3>1 DEF IsNext
  <2> QED
    BY <1>3, <2>1
<1>14. BatchTrue'
  <2>1. ASSUME NEW q \in run.batch \ {r}
        PROVE  /\ r.id < q.id /\ q.id \in own
               /\ q.body = "bad" => q.id \in Damaged
               /\ q.id \in Damaged => q.body = "bad" \/ q.id \in late
               /\ \A p \in run.batch \ {r} : p.id = q.id => p = q
               /\ \A i \in own : r.id < i /\ i < q.id => \E p \in run.batch \ {r} : p.id = i
    <3>1. ASSUME NEW i \in own, r.id < i, i < q.id PROVE \E p \in run.batch \ {r} : p.id = i
      <4>1. Reached < i
        BY <1>1, <1>3, <1>5, <3>1
      <4>2. PICK p \in run.batch : p.id = i
        BY <1>5, <3>1, <4>1
      <4> QED
        BY <1>3, <3>1, <4>2
    <3> QED
      BY <1>5, <1>12, <3>1
  <2> QED
    BY <1>2, <1>4, <1>6, <1>3, <1>7, <1>9, <1>10, <2>1, BatchSizePositive DEF BatchTrue, OwnLegacy, Damaged
<1>15. RestTrue'
  <2>1. ASSUME ~run.cut, run.n + Cardinality(run.batch) < BatchSize, NEW i \in own
        PROVE  i <= r.id \/ \E q \in run.batch \ {r} : q.id = i
    <3>1. i <= Reached \/ \E q \in run.batch : q.id = i
      BY <1>2, <2>1 DEF RunInv, RestTrue
    <3> QED
      BY <1>1, <1>3, <1>5, <3>1
  <2>2. run.n + 1 + Cardinality(run.batch \ {r}) = run.n + Cardinality(run.batch)
    BY <1>3, <1>6
  <2> QED
    BY <1>2, <1>9, <1>10, <2>1, <2>2 DEF RestTrue, CoversAll, OwnLegacy
<1>16. AnchorsTrue'
  BY <1>2, <1>9, <1>10 DEF RunInv, AnchorsTrue, Working
<1>17. LateTrue'
  <2>1. ASSUME NEW i \in own \cap Damaged, i <= r.id PROVE i \in late
    <3>1. CASE i = r.id
      BY <1>1, <1>5, <3>1 DEF RowOK
    <3>2. CASE i # r.id
      <4>1. i <= Reached
        BY <1>3, <1>7, <1>13, <2>1, <3>2
      <4> QED
        BY <1>2, <4>1 DEF RunInv, LateTrue, Working
    <3> QED
      BY <3>1, <3>2
  <2> QED
    BY <1>2, <1>7, <1>9, <1>10, <2>1 DEF LateTrue, OwnLegacy, Damaged
<1> QED
  BY <1>2, <1>11, <1>14, <1>15, <1>16, <1>17, Rest DEF others

\* A chain reported broken has a cause.
LEMMA BrokenKeeps == ASSUME RunInv, Broken PROVE RunInv'
<1> DEFINE own == OwnLegacy(run.tenant)
<1>1. PICK r \in run.batch : IsNext(r) /\ ~RowOK(r)
  BY DEF Broken
<1>2. run.pc = "rows" /\ UNCHANGED <<legacy, ran, checkpoint, spent, late>>
      /\ alarms' = alarms \cup {run.tenant} /\ run' = [run EXCEPT !.pc = "audit"]
  BY DEF Broken, At
<1>3. /\ Len(legacy) \in Nat /\ own \subseteq 1..Len(legacy) /\ Reached \in Nat
      /\ \A q \in run.batch : q.id \in 1..Len(legacy) /\ q.body \in Bodies
      /\ run.tenant \in Tenants
  BY <1>2, RunIs
<1>4. /\ Reached < r.id /\ r.id \in own
      /\ r.body = "bad" => r.id \in Damaged
      /\ \A i \in own : Reached < i /\ i < r.id => \E p \in run.batch : p.id = i
  BY <1>1, <1>2 DEF RunInv, BatchTrue
<1>5. own \cap Damaged # {} \/ Shared(run.tenant) \/ run.tenant \in spent
  <2>1. CASE r.body = "bad"
    BY <1>4, <2>1
  <2>2. CASE r.body # "bad" /\ run.tenant \notin spent
    <3>1. run.prev = Reached
      BY <1>2, <2>2 DEF RunInv, AnchorsTrue, Working
    <3>2. r.id - 1 # Reached
      BY <1>1, <1>3, <2>2, <3>1 DEF RowOK, Bodies
    <3>3. Reached < r.id - 1 /\ r.id - 1 \in 1..(r.id - 1) /\ r.id - 1 < r.id
      BY <1>1, <1>3, <1>4, <3>2
    <3>4. r.id - 1 \notin own
      BY <1>1, <1>3, <1>4, <3>3 DEF IsNext
    <3>5. legacy[r.id - 1].tenant # run.tenant
      BY <1>1, <1>3, <3>3, <3>4 DEF OwnLegacy
    <3> QED
      BY <1>4, <3>3, <3>5 DEF Shared
  <2> QED
    BY <2>1, <2>2
<1>6. run' \in RunType /\ run'.pc = "audit" /\ run'.tenant = run.tenant
  BY <1>2 DEF RunInv, TypeRun, RunType, Phases
<1>7. TypeRun'
  BY <1>2, <1>3, <1>6 DEF RunInv, TypeRun, RunType, Places, Rows
<1>8. BatchTrue' /\ RestTrue' /\ LateTrue'
  BY <1>6 DEF BatchTrue, RestTrue, CoversAll, LateTrue, Working
<1>9. AnchorsTrue' /\ Covered'
  BY <1>2, <1>6 DEF RunInv, AnchorsTrue, Working, Covered, Damaged
<1>10. NoFalseAlarm'
  BY <1>2, <1>5 DEF RunInv, NoFalseAlarm, OwnLegacy, Damaged, Shared
<1> QED
  BY <1>7, <1>8, <1>9, <1>10 DEF RunInv

LEMMA CutKeeps == ASSUME RunInv, Cut PROVE RunInv'
<1>1. run.pc = "rows" /\ UNCHANGED <<legacy, ran, checkpoint, alarms, spent, late>>
      /\ run' = [run EXCEPT !.batch = {}, !.cut = TRUE]
  BY DEF Cut
<1>2. run' \in RunType /\ run'.pc = run.pc /\ run'.n = run.n /\ run'.batch = {} /\ run'.last = run.last
      /\ run'.offset = run.offset /\ run'.tenant = run.tenant /\ run'.prev = run.prev /\ run'.cut
  BY <1>1 DEF RunInv, TypeRun, RunType
<1>3. Reached' = Reached
  BY <1>2 DEF Reached
<1>4. TypeRun'
  BY <1>1, <1>2 DEF RunInv, TypeRun, RunType, Places, Rows
<1>5. BatchTrue'
  <2>1. run.n \in 0..BatchSize
    BY DEF RunInv, TypeRun, RunType
  <2> QED
    BY <1>1, <1>2, <2>1, FS_EmptySet, BatchSizePositive DEF RunInv, BatchTrue
<1>6. RestTrue'
  BY <1>1, <1>2 DEF RestTrue, CoversAll
<1>7. AnchorsTrue' /\ LateTrue'
  BY <1>1, <1>2, <1>3 DEF RunInv, AnchorsTrue, LateTrue, Working, OwnLegacy, Damaged
<1> QED
  BY <1>1, <1>4, <1>5, <1>6, <1>7, Rest DEF others

LEMMA BatchEndKeeps == ASSUME RunInv, BatchEnd PROVE RunInv'
<1>1. run.pc = "rows" /\ run.batch = {} /\ UNCHANGED <<legacy, ran, checkpoint, alarms, spent, late>>
  BY DEF BatchEnd
<1>2. Reached \in Nat /\ run.last \in Nat /\ run.n \in Nat /\ Cardinality(run.batch) = 0
      /\ OwnLegacy(run.tenant) \subseteq Nat /\ run \in RunType
  BY <1>1, RunIs, FS_EmptySet DEF RunInv, TypeRun, OwnLegacy
<1>3. CASE run.n < BatchSize
  <2>1. run' = [run EXCEPT !.pc = "sign"]
    BY <1>3 DEF BatchEnd, At
  <2>2. run' \in RunType /\ run'.pc = "sign" /\ run'.last = run.last /\ run'.offset = run.offset
        /\ run'.tenant = run.tenant /\ run'.prev = run.prev /\ run'.cut = run.cut
    BY <1>2, <2>1 DEF RunType, Phases
  <2>3. Reached' = Reached
    BY <2>2 DEF Reached
  <2>4. TypeRun'
    BY <1>1, <2>2 DEF RunInv, TypeRun, RunType, Places, Rows
  <2>5. ~run.cut => \A i \in OwnLegacy(run.tenant) : i <= Reached
    BY <1>1, <1>2, <1>3, BatchSizePositive DEF RunInv, RestTrue
  <2>6. BatchTrue' /\ RestTrue'
    BY <1>1, <2>2, <2>3, <2>5 DEF BatchTrue, RestTrue, CoversAll, OwnLegacy
  <2>7. AnchorsTrue' /\ LateTrue'
    BY <1>1, <2>2, <2>3 DEF RunInv, AnchorsTrue, LateTrue, Working, OwnLegacy, Damaged
  <2> QED
    BY <1>1, <2>4, <2>6, <2>7, Rest DEF others
<1>4. CASE ~(run.n < BatchSize)
  <2>1. run' = [run EXCEPT !.pc = "query", !.offset = run.last]
    BY <1>4 DEF BatchEnd
  <2>2. run' \in RunType /\ run'.pc = "query" /\ run'.last = run.last /\ run'.offset = run.last
        /\ run'.tenant = run.tenant /\ run'.prev = run.prev
    BY <1>2, <2>1 DEF RunType, Phases
  <2>3. run.last # 0
    BY <1>1, <1>2, <1>4, BatchSizePositive DEF RunInv, BatchTrue
  <2>4. Reached' = Reached
    BY <2>2, <2>3 DEF Reached
  <2>5. TypeRun'
    BY <1>1, <2>2 DEF RunInv, TypeRun, RunType, Places, Rows
  <2>6. BatchTrue' /\ RestTrue'
    BY <2>2, <2>3, <2>4 DEF BatchTrue, RestTrue, CoversAll, Reached
  <2>7. AnchorsTrue' /\ LateTrue'
    BY <1>1, <2>2, <2>3, <2>4 DEF RunInv, AnchorsTrue, LateTrue, Working, OwnLegacy, Damaged
  <2> QED
    BY <1>1, <2>5, <2>6, <2>7, Rest DEF others
<1> QED
  BY <1>3, <1>4

LEMMA WriteCheckpointKeeps == ASSUME RunInv, WriteCheckpoint PROVE RunInv'
<1> DEFINE t == run.tenant
           new == [id |-> run.last, hash |-> run.prev]
<1>1. run.pc = "sign" /\ UNCHANGED <<legacy, ran, alarms, late>>
      /\ checkpoint' = [checkpoint EXCEPT ![t] = new]
      /\ spent' = (IF run.last = 0 /\ run.prev # 0 THEN spent \cup {t} ELSE spent)
      /\ run' = [run EXCEPT !.pc = "audit"]
  BY DEF WriteCheckpoint, At
<1>2. t \in Tenants /\ run.last \in Nat /\ run.prev \in Nat /\ run \in RunType /\ Reached \in Nat
  BY <1>1, RunIs DEF RunInv, TypeRun
<1>3. run' \in RunType /\ run'.pc = "audit" /\ run'.tenant = t
  <2>1. "audit" \in Phases
    BY DEF Phases
  <2> QED
    BY <1>1, <1>2, <2>1 DEF RunType
<1>4. new \in [id : Places, hash : Places] /\ spent \subseteq spent' /\ spent' \subseteq Tenants
      /\ \A u \in Tenants : checkpoint'[u] = IF u = t THEN new ELSE checkpoint[u]
  <2>1. run.last \in Places /\ run.prev \in Places
    BY <1>2 DEF RunType
  <2>2. new \in [id : Places, hash : Places]
    BY <2>1
  <2>3. spent \subseteq spent' /\ spent' \subseteq Tenants
    BY <1>1, <1>2 DEF RunInv, TypeRun
  <2> HIDE DEF new
  <2>4. \A u \in Tenants : checkpoint'[u] = IF u = t THEN new ELSE checkpoint[u]
    BY <1>1 DEF RunInv, TypeRun
  <2> QED
    BY <2>2, <2>3, <2>4
<1>5. TypeRun'
  BY <1>1, <1>2, <1>3, <1>4 DEF RunInv, TypeRun, RunType, Places, Rows
<1>6. BatchTrue' /\ RestTrue' /\ LateTrue'
  BY <1>3 DEF BatchTrue, RestTrue, CoversAll, LateTrue, Working
<1>7. AnchorsTrue'
  <2>1. new.hash = new.id \/ (new.id = 0 /\ t \in spent')
    BY <1>1, <1>2 DEF RunInv, AnchorsTrue, Working, Reached
  <2> QED
    BY <1>3, <1>4, <2>1 DEF RunInv, AnchorsTrue, Working
<1>8. Covered'
  <2> SUFFICES ASSUME NEW i \in Damaged, i <= checkpoint'[legacy[i].tenant].id PROVE i \in late
    BY <1>1 DEF Covered, Damaged
  <2>1. i \in 1..Len(legacy) /\ legacy[i].tenant \in Tenants
    BY LegacyIs DEF Damaged, RunInv
  <2>2. CASE legacy[i].tenant = t
    <3>1. i <= run.last /\ run.last # 0
      BY <1>2, <1>4, <2>1, <2>2
    <3> QED
      BY <1>1, <2>1, <2>2, <3>1 DEF RunInv, LateTrue, Working, Reached, OwnLegacy
  <2>3. CASE legacy[i].tenant # t
    BY <1>4, <2>1, <2>3 DEF RunInv, Covered
  <2> QED
    BY <2>2, <2>3
<1>9. NoFalseAlarm'
  BY <1>1, <1>4 DEF RunInv, NoFalseAlarm, OwnLegacy, Damaged, Shared
<1> QED
  BY <1>5, <1>6, <1>7, <1>8, <1>9 DEF RunInv

LEMMA RecordKeeps == ASSUME RunInv, Record PROVE RunInv'
<1>1. UNCHANGED <<ran, others>> /\ run.pc = "audit" /\ run \in RunType /\ run.tenant \in Tenants
      /\ ran \in [Tenants -> 0..MaxDays]
  BY DEF Record, others, RunInv, TypeRun
<1>2. CASE run' = NoRun
  BY <1>1, <1>2, RunEnds
<1>3. ASSUME NEW w \in Writers, run' = [run EXCEPT !.pc = "wait", !.conn = w] PROVE RunInv'
  <2>1. run' \in RunType /\ run'.pc = "wait" /\ run'.tenant = run.tenant
    BY <1>1, <1>3 DEF RunType, Phases
  <2> QED
    BY <1>1, <2>1, Aside
<1> QED
  BY <1>2, <1>3 DEF Record

-----------------------------------------------------------------------------
(* The other steps *)

LEMMA CorruptKeeps == ASSUME RunInv, NEW i \in 1..Len(legacy), Corrupt(i) PROVE RunInv'
<1>1. /\ legacy' = [legacy EXCEPT ![i].body = "bad"]
      /\ late' = IF ReadBefore(i) THEN late \cup {i} ELSE late
      /\ UNCHANGED <<run, ran, checkpoint, alarms, spent>>
  BY DEF Corrupt, runVars
<1>2. legacy \in Seq(LegacyRow) /\ Len(legacy) \in Nat
  BY DEF RunInv, TypeRun
<1>3. /\ legacy' \in Seq(LegacyRow) /\ Len(legacy') = Len(legacy)
      /\ \A k \in 1..Len(legacy) : legacy'[k].tenant = legacy[k].tenant
      /\ \A k \in 1..Len(legacy) : legacy'[k].body = IF k = i THEN "bad" ELSE legacy[k].body
  <2> DEFINE row == [legacy[i] EXCEPT !.body = "bad"]
  <2>1. \A k \in 1..Len(legacy) : legacy[k] \in LegacyRow
    BY LegacyIs DEF RunInv
  <2>2. row \in LegacyRow /\ row.tenant = legacy[i].tenant /\ row.body = "bad"
    BY <2>1 DEF LegacyRow, Bodies
  <2>3. legacy' = [legacy EXCEPT ![i] = row]
    BY <1>1
  <2> HIDE DEF row
  <2>4. legacy' \in Seq(LegacyRow) /\ Len(legacy') = Len(legacy)
        /\ \A k \in 1..Len(legacy) : legacy'[k] = IF k = i THEN row ELSE legacy[k]
    BY <1>2, <2>2, <2>3, SeqExcept
  <2> QED
    BY <2>2, <2>4
<1>4. /\ \A t : OwnLegacy(t)' = OwnLegacy(t)
      /\ Damaged' = Damaged \cup {i} /\ \A t \in Tenants : Shared(t) => Shared(t)'
      /\ late \subseteq late' /\ late' \subseteq late \cup {i} /\ Reached' = Reached
  <2>1. \A t : OwnLegacy(t)' = OwnLegacy(t)
    BY <1>3 DEF OwnLegacy
  <2>2. Damaged' = Damaged \cup {i}
    BY <1>3 DEF Damaged
  <2>3. \A t \in Tenants : Shared(t) => Shared(t)'
    <3> TAKE t \in Tenants
    <3> HAVE Shared(t)
    <3>0. PICK j \in OwnLegacy(t) : \E k \in 1..(j - 1) : legacy[k].tenant # t
      BY DEF Shared
    <3>1. PICK k \in 1..(j - 1) : legacy[k].tenant # t
      BY <3>0
    <3>2. j \in OwnLegacy(t)' /\ j \in 1..Len(legacy)
      BY <2>1 DEF OwnLegacy
    <3>3. k \in 1..Len(legacy)
      BY <1>2, <3>2
    <3>4. legacy'[k].tenant # t
      BY <1>3, <3>1, <3>3
    <3> QED
      BY <3>2, <3>4 DEF Shared
  <2> QED
    BY <1>1, <2>1, <2>2, <2>3 DEF Reached
<1>5. TypeRun'
  BY <1>1, <1>2, <1>3, <1>4 DEF RunInv, TypeRun, RunType, Places, Rows
<1>6. BatchTrue'
  <2>1. ASSUME run.pc = "rows", NEW r \in run.batch
        PROVE  /\ r.body = "bad" => r.id \in Damaged'
               /\ r.id \in Damaged' => r.body = "bad" \/ r.id \in late'
    <3>1. (r.body = "bad" => r.id \in Damaged) /\ (r.id \in Damaged => r.body = "bad" \/ r.id \in late)
          /\ r.id \in OwnLegacy(run.tenant)
      BY <2>1 DEF RunInv, BatchTrue
    <3>2. r.id = i => i \in late'
      BY <1>1, <2>1, <3>1 DEF ReadBefore, OwnLegacy
    <3> QED
      BY <1>4, <3>1, <3>2
  <2> QED
    BY <1>1, <1>4, <2>1 DEF RunInv, BatchTrue
<1>7. RestTrue' /\ AnchorsTrue'
  BY <1>1, <1>4 DEF RunInv, RestTrue, CoversAll, AnchorsTrue, Working
<1>8. LateTrue'
  <2>1. Working /\ run.last = 0 => run.offset <= checkpoint[run.tenant].id
    BY DEF RunInv, LateTrue
  <2>2. ASSUME Working, NEW k \in OwnLegacy(run.tenant) \cap Damaged', k <= Reached PROVE k \in late'
    <3>1. CASE k # i
      BY <1>4, <2>2, <3>1 DEF RunInv, LateTrue
    <3>2. CASE k = i
      <4>1. legacy[i].tenant = run.tenant
        BY <2>2, <3>2 DEF OwnLegacy
      <4>2. CASE run.last = 0
        <5>1. i <= run.offset /\ run.offset <= checkpoint[run.tenant].id
          BY <2>1, <2>2, <3>2, <4>2 DEF Reached
        <5>2. run.offset \in Nat /\ checkpoint[run.tenant].id \in Nat
          BY <2>2 DEF Working, RunInv, TypeRun, RunType, Places
        <5> QED
          BY <1>1, <3>2, <4>1, <5>1, <5>2 DEF ReadBefore
      <4>3. CASE run.last # 0
        BY <1>1, <2>2, <3>2, <4>1, <4>3 DEF ReadBefore, Reached
      <4> QED
        BY <4>2, <4>3
    <3> QED
      BY <3>1, <3>2
  <2> QED
    BY <1>1, <1>4, <2>1, <2>2 DEF LateTrue, Working
<1>9. Covered'
  <2> SUFFICES ASSUME NEW k \in Damaged', k <= checkpoint[legacy'[k].tenant].id PROVE k \in late'
    BY <1>1 DEF Covered
  <2>1. k \in 1..Len(legacy) /\ legacy'[k].tenant = legacy[k].tenant
    BY <1>3, <1>4 DEF Damaged
  <2>2. CASE k = i
    BY <1>1, <2>1, <2>2 DEF ReadBefore
  <2>3. CASE k # i
    BY <1>4, <2>1, <2>3 DEF RunInv, Covered
  <2> QED
    BY <2>2, <2>3
<1>10. NoFalseAlarm'
  <2> SUFFICES ASSUME NEW t \in alarms
               PROVE  OwnLegacy(t)' \cap Damaged' # {} \/ Shared(t)' \/ t \in spent
    BY <1>1 DEF NoFalseAlarm
  <2>1. OwnLegacy(t) \cap Damaged # {} \/ Shared(t) \/ t \in spent
    BY DEF RunInv, NoFalseAlarm
  <2>2. t \in Tenants
    BY DEF RunInv, TypeRun
  <2> QED
    BY <1>4, <2>1, <2>2
<1> QED
  BY <1>5, <1>6, <1>7, <1>8, <1>9, <1>10 DEF RunInv

LEMMA ReturnsKeeps ==
  ASSUME RunInv, NEW w \in Writers, Returns(w), UNCHANGED <<legacy, ran, checkpoint, alarms, spent, late>>
  PROVE  RunInv'
<1>1. UNCHANGED <<ran, others>>
  BY DEF others
<1>2. run' = NoRun \/ run' = run
  BY DEF Returns
<1> QED
  BY <1>1, <1>2, RunEnds, RunStays DEF runVars, others

\* The tables of the appends and of the script keep their types.
LEMMA LogTypes == ASSUME TypeLog, TypeRun, [Next]_vars PROVE TypeLog'
<1>1. MaxDays \in Nat /\ MaxFaults \in Nat /\ Len(events) \in Nat
  BY BoundsAreNumbers DEF TypeLog
<1>2. ASSUME Fault PROVE faults' \in 0..MaxFaults
  BY <1>1, <1>2 DEF Fault, TypeLog
<1>3. ASSUME NEW w \in Writers, NEW t \in Tenants, Opened(w, t)
      PROVE  append' \in [Writers -> Appending \cup {Idle}]
  BY <1>1, <1>3 DEF Opened, TypeLog, Appending
<1>4. ASSUME NEW w \in Writers, Link(w) PROVE TypeLog'
  <2>1. append[w] \in Appending
    BY <1>4 DEF Link, Reading, TypeLog
  <2>2. append' \in [Writers -> Appending \cup {Idle}]
    <3>1. CASE Own(append[w].tenant) = {}
      <4>1. append' = [append EXCEPT ![w] = [append[w] EXCEPT !.seq = 1]]
        BY <1>4, <3>1 DEF Link
      <4>2. [append[w] EXCEPT !.seq = 1] \in Appending
        BY <2>1 DEF Appending
      <4> QED
        BY <4>1, <4>2 DEF TypeLog
    <3>2. CASE Own(append[w].tenant) # {}
      <4>1. PICK i \in Newest(append[w].tenant) :
                append' = [append EXCEPT ![w].seq = events[i].seq + 1, ![w].prev = i]
        BY <1>4, <3>2 DEF Link
      <4>2. i \in 1..Len(events)
        BY DEF Newest, Own
      <4>3. i \in Nat /\ events[i].seq + 1 \in Nat
        <5>1. events[i] \in Appending
          BY <4>2, SeqIs DEF TypeLog
        <5> QED
          BY <4>2, <5>1 DEF Appending
      <4>4. [append[w] EXCEPT !.seq = events[i].seq + 1, !.prev = i] \in Appending
        BY <2>1, <4>3 DEF Appending
      <4>5. append' = [append EXCEPT ![w] = [append[w] EXCEPT !.seq = events[i].seq + 1, !.prev = i]]
        BY <4>1 DEF TypeLog
      <4> QED
        BY <4>4, <4>5 DEF TypeLog
    <3> QED
      BY <3>1, <3>2
  <2>3. UNCHANGED <<events, script, passed, failed, day, faults>>
    BY <1>4 DEF Link, scriptVars
  <2> QED
    BY <2>2, <2>3 DEF TypeLog
<1>5. ASSUME NEW w \in Writers, Commit(w) PROVE TypeLog'
  <2>1. append[w] \in Appending
    BY <1>5 DEF Commit, Linked, TypeLog
  <2>2. events' \in Seq(Appending) /\ append' \in [Writers -> Appending \cup {Idle}]
    BY <1>5, <2>1 DEF Commit, TypeLog
  <2> QED
    BY <1>5, <2>2 DEF Commit, TypeLog, scriptVars
<1>6. ASSUME NEW w \in Writers, Abort(w) PROVE TypeLog'
  BY <1>2, <1>6 DEF Abort, TypeLog, scriptVars
<1>7. ASSUME NEW w \in Writers, NEW t \in Tenants, Start(w, t) PROVE TypeLog'
  BY <1>3, <1>7 DEF Start, TypeLog, scriptVars
<1>8. CASE Script
  <2>1. ASSUME NEW t \in Tenants, CheckLinks(t) PROVE TypeLog'
    <3>1. PICK o \in Orders(t) :
              script' = [pc |-> "gaps", tenant |-> t, upto |-> Len(events), broken |-> BrokenLink(o)]
      BY <2>1 DEF CheckLinks
    <3>2. script' \in ScriptStates
      BY <1>1, <3>1 DEF ScriptStates, Tailed, BrokenLink
    <3> QED
      BY <2>1, <3>1, <3>2 DEF CheckLinks, TypeLog, eventVars
  <2>2. CASE CheckGaps \/ ScriptExits
    <3>1. NoScript \in ScriptStates /\ NoScript.pc # "gaps"
      BY DEF NoScript, ScriptStates, Tailed
    <3>2. CASE CheckGaps
      <4>1. script.tenant \in Tenants /\ script.upto \in Nat
        BY <3>2 DEF CheckGaps, TypeLog, ScriptStates
      <4>2. passed' \in [Tenants -> Nat] /\ failed' \subseteq Tenants
        BY <3>2, <4>1 DEF CheckGaps, TypeLog
      <4> QED
        BY <3>1, <3>2, <4>2 DEF CheckGaps, TypeLog, eventVars
    <3>3. CASE ScriptExits
      BY <1>2, <3>1, <3>3 DEF ScriptExits, TypeLog, eventVars
    <3> QED
      BY <2>2, <3>2, <3>3
  <2> QED
    BY <1>8, <2>1, <2>2 DEF Script
<1>9. CASE Record
  <2>1. append' \in [Writers -> Appending \cup {Idle}]
    <3>1. run.pc # "idle"
      BY <1>9 DEF Record
    <3>2. run.tenant \in Tenants
      BY <3>1 DEF TypeRun
    <3> QED
      BY <1>3, <1>9, <3>2 DEF Record, TypeLog
  <2> QED
    BY <1>9, <2>1 DEF Record, TypeLog, scriptVars
<1>10. CASE \E t \in Tenants : Load(t)
  BY <1>2, <1>10 DEF Load, TypeLog, eventVars, scriptVars
<1>11. CASE Query \/ Check \/ Broken \/ BatchEnd \/ WriteCheckpoint \/ UNCHANGED vars
  BY <1>11 DEF Query, Check, Broken, BatchEnd, WriteCheckpoint, vars, TypeLog, eventVars, scriptVars
<1>12. CASE Cut \/ GiveUp \/ (\E i \in 1..Len(legacy) : Corrupt(i))
  BY <1>2, <1>12 DEF Cut, GiveUp, Corrupt, TypeLog, eventVars, scriptVars
<1>13. CASE NextDay
  BY <1>1, <1>13 DEF NextDay, TypeLog, eventVars, scriptVars
<1> QED
  BY <1>4, <1>5, <1>6, <1>7, <1>8, <1>9, <1>10, <1>11, <1>12, <1>13 DEF Next, Appends, Verifier

LEMMA VerifierNext == VerifierInv /\ [Next]_vars => VerifierInv'
<1> SUFFICES ASSUME VerifierInv, [Next]_vars PROVE VerifierInv'
  OBVIOUS
<1>0. TypeLog /\ RunInv /\ TypeRun /\ day \in 1..MaxDays
  BY DEF VerifierInv, RunInv, TypeLog
<1>1. TypeLog'
  BY <1>0, LogTypes
<1>2. RunInv'
  <2>1. CASE Appends
    <3>1. ASSUME NEW w \in Writers, Commit(w) \/ Abort(w) PROVE RunInv'
      BY <1>0, <3>1, ReturnsKeeps DEF Commit, Abort
    <3>2. ASSUME NEW w \in Writers, Link(w) \/ \E t \in Tenants : Start(w, t) PROVE RunInv'
      BY <1>0, <3>2, RunStays DEF Link, Start
    <3> QED
      BY <2>1, <3>1, <3>2 DEF Appends
  <2>2. CASE Script \/ NextDay
    BY <1>0, <2>2, RunStays DEF Script, CheckLinks, CheckGaps, ScriptExits, NextDay
  <2>3. CASE UNCHANGED vars
    BY <1>0, <2>3, RunStays DEF vars
  <2>4. CASE GiveUp
    BY <1>0, <2>4, RunEnds DEF GiveUp, others
  <2>5. CASE (\E t \in Tenants : Load(t)) \/ Query \/ Check \/ Broken \/ Cut \/ BatchEnd \/ WriteCheckpoint \/ Record
    BY <1>0, <2>5, LoadKeeps, QueryKeeps, CheckKeeps, BrokenKeeps, CutKeeps, BatchEndKeeps, WriteCheckpointKeeps,
       RecordKeeps
  <2>6. CASE \E i \in 1..Len(legacy) : Corrupt(i)
    BY <1>0, <2>6, CorruptKeeps
  <2> QED
    BY <2>1, <2>2, <2>3, <2>4, <2>5, <2>6 DEF Next, Verifier
<1> QED
  BY <1>1, <1>2 DEF VerifierInv

\* For any number of connections, tenants, nights and faults, any log of older releases
\* and batches of any size: the verifier reports no chain broken without a cause, and
\* attests no damage that it could have seen.
THEOREM VerifierHolds == Spec => []VerifierTrue
<1>1. Init => VerifierInv
  BY VerifierBegins
<1>2. VerifierInv /\ [Next]_vars => VerifierInv'
  BY VerifierNext
<1>3. VerifierInv => VerifierTrue
  BY VerifierImplies
<1> QED
  BY <1>1, <1>2, <1>3, PTL DEF Spec

-----------------------------------------------------------------------------
(* What is true of the entries *)

\* The entry e is at its place, or may be put there, when n others are before it.
Fits(e, n) ==
    /\ e.since <= n
    /\ \/ e.prev = 0 /\ e.seq = 1
       \/ /\ e.prev \in 1..n /\ events[e.prev].tenant = e.tenant
          /\ e.seq = events[e.prev].seq + 1
    /\ \A i \in Own(e.tenant) : i <= e.since => events[i].seq < e.seq
    /\ \A m \in 1..(e.seq - 1) : \E i \in Own(e.tenant) : i <= n /\ events[i].seq = m

Shapes ==
    /\ events \in Seq(Appending)
    /\ append = [w \in Writers |-> append[w]]
    /\ \A w \in Writers : append[w] # Idle =>
           append[w] \in Appending /\ append[w].since <= Len(events)
           /\ (append[w].seq = 0 => append[w].prev = 0)

Placed == \A j \in 1..Len(events) : Fits(events[j], j - 1)
Fitting == \A w \in Writers : Linked(w) => Fits(append[w], Len(events))

\* What the script has seen is so, and stays so.
Seen ==
    /\ script \in ScriptStates
    /\ passed \in [Tenants -> Nat] /\ \A t \in Tenants : passed[t] <= Len(events)
    /\ script.pc = "gaps" =>
        /\ script.tenant \in Tenants /\ script.upto <= Len(events)
        /\ IF script.broken THEN Forked(script.tenant, Len(events))
           ELSE ~Forked(script.tenant, script.upto)

EntriesInv == Shapes /\ Placed /\ Fitting /\ Seen /\ ScriptTrue

-----------------------------------------------------------------------------
(* append_event *)

\* The invariant has the property.
LEMMA EntriesImply == EntriesInv => EntriesTrue
<1> SUFFICES ASSUME EntriesInv PROVE EntriesTrue
  OBVIOUS
<1>1. \A j \in 1..Len(events) : Fits(events[j], j - 1)
  BY DEF EntriesInv, Placed
<1>2. Rooted
  BY <1>1 DEF Rooted, Fits
<1>3. InTime
  BY <1>1 DEF InTime, Fits
<1> QED
  BY <1>2, <1>3 DEF EntriesInv, EntriesTrue

LEMMA EntriesBegin == Init => EntriesInv
<1> SUFFICES ASSUME Init PROVE EntriesInv
  OBVIOUS
<1>1. events = <<>> /\ Len(events) = 0 /\ \A t : Own(t) = {}
  BY DEF Init, Own
<1>2. Shapes
  BY <1>1 DEF Init, Shapes
<1>3. Placed /\ Fitting
  BY <1>1 DEF Init, Placed, Fitting, Linked
<1>4. script = NoScript /\ passed = [t \in Tenants |-> 0] /\ failed = {}
  BY DEF Init
<1>5. Seen
  BY <1>1, <1>4 DEF Seen, ScriptStates, NoScript, Tailed
<1>6. ScriptTrue
  BY <1>1, <1>4 DEF ScriptTrue, Forked
<1> QED
  BY <1>2, <1>3, <1>5, <1>6 DEF EntriesInv

\* An entry put at the end leaves the others where they are.
LEMMA Grown ==
  ASSUME EntriesInv, NEW e \in Appending, events' = Append(events, e)
  PROVE  /\ Len(events') = Len(events) + 1 /\ Len(events) \in Nat
         /\ \A i \in 1..Len(events) : events'[i] = events[i]
         /\ events'[Len(events) + 1] = e
         /\ events' \in Seq(Appending)
         /\ \A t : Own(t) \subseteq Own(t)' /\ Own(t)' \subseteq Own(t) \cup {Len(events) + 1}
         /\ \A t : Own(t) \subseteq 1..Len(events)
         /\ \A t, n : n <= Len(events) /\ n \in Nat => (Forked(t, n)' <=> Forked(t, n))
         /\ \A t : Forked(t, Len(events)) => Forked(t, Len(events))'
<1>0. events \in Seq(Appending)
  BY DEF EntriesInv, Shapes
<1>1. Len(events') = Len(events) + 1 /\ Len(events) \in Nat /\ events' \in Seq(Appending)
  BY <1>0
<1>2. \A i \in 1..Len(events) : events'[i] = events[i]
  BY <1>0
<1>3. events'[Len(events) + 1] = e
  BY <1>0
<1>4. \A t : Own(t) \subseteq Own(t)' /\ Own(t)' \subseteq Own(t) \cup {Len(events) + 1}
  BY <1>1, <1>2 DEF Own
<1>5. \A t : Own(t) \subseteq 1..Len(events)
  BY DEF Own
<1>6. ASSUME NEW t, NEW n \in Nat, n <= Len(events) PROVE Forked(t, n)' <=> Forked(t, n)
  <2>1. ASSUME NEW i \in Own(t)', NEW j \in Own(t)', i < j, j <= n, events'[i].seq = events'[j].seq
        PROVE  Forked(t, n)
    <3>0. i \in 1..(Len(events) + 1) /\ j \in 1..(Len(events) + 1)
      BY <1>1, <2>1 DEF Own
    <3>1. i \in Own(t) /\ j \in Own(t)
      BY <1>1, <1>4, <1>6, <2>1, <3>0
    <3> QED
      BY <1>2, <1>5, <2>1, <3>1 DEF Forked
  <2>2. ASSUME NEW i \in Own(t), NEW j \in Own(t), i < j, j <= n, events[i].seq = events[j].seq
        PROVE  Forked(t, n)'
    BY <1>2, <1>4, <1>5, <2>2 DEF Forked
  <2> QED
    BY <2>1, <2>2 DEF Forked
<1>7. ASSUME NEW t, Forked(t, Len(events)) PROVE Forked(t, Len(events))'
  <2>1. PICK i, j \in Own(t) : i < j /\ j <= Len(events) /\ events[i].seq = events[j].seq
    BY <1>7 DEF Forked
  <2> QED
    BY <1>1, <1>2, <1>4, <1>5, <2>1 DEF Forked
<1> QED
  BY <1>1, <1>2, <1>3, <1>4, <1>5, <1>6, <1>7

\* What fits goes on to fit.
LEMMA FitsOn ==
  ASSUME EntriesInv, NEW e \in Appending, events' = Append(events, e)
  PROVE  \A f \in Appending, n \in 0..Len(events), k \in 0..(Len(events) + 1) :
             n <= k /\ Fits(f, n) => Fits(f, k)'
<1> TAKE f \in Appending, n \in 0..Len(events), k \in 0..(Len(events) + 1)
<1> HAVE n <= k /\ Fits(f, n)
<1>1. Len(events') = Len(events) + 1 /\ \A i \in 1..Len(events) : events'[i] = events[i]
  BY Grown
<1>2. Own(f.tenant) \subseteq Own(f.tenant)' /\ Own(f.tenant)' \subseteq Own(f.tenant) \cup {Len(events) + 1}
  BY Grown
<1>3. Own(f.tenant) \subseteq 1..Len(events) /\ Len(events) \in Nat
  BY Grown
<1>4. f.since <= n /\ f.since \in Nat /\ f.prev \in Nat /\ f.seq \in Nat
  BY DEF Fits, Appending
<1>5. \/ f.prev = 0 /\ f.seq = 1
      \/ f.prev \in 1..k /\ events'[f.prev].tenant = f.tenant /\ f.seq = events'[f.prev].seq + 1
  BY <1>1, <1>3 DEF Fits
<1>6. \A i \in Own(f.tenant)' : i <= f.since => events'[i].seq < f.seq
  <2> TAKE i \in Own(f.tenant)'
  <2> HAVE i <= f.since
  <2>1. i \in Own(f.tenant)
    BY <1>2, <1>3, <1>4
  <2> QED
    BY <1>1, <1>3, <2>1 DEF Fits
<1>7. \A m \in 1..(f.seq - 1) : \E i \in Own(f.tenant)' : i <= k /\ events'[i].seq = m
  <2> TAKE m \in 1..(f.seq - 1)
  <2>1. PICK i \in Own(f.tenant) : i <= n /\ events[i].seq = m
    BY DEF Fits
  <2> QED
    BY <1>1, <1>2, <1>3, <2>1
<1>8. f.since <= k
  BY <1>3, <1>4
<1> QED
  BY <1>5, <1>6, <1>7, <1>8 DEF Fits

\* Facts about the script stay true when an entry is added.
LEMMA SeenOn ==
  ASSUME EntriesInv, NEW e \in Appending, events' = Append(events, e), UNCHANGED scriptVars
  PROVE  Seen' /\ ScriptTrue'
<1>1. UNCHANGED <<script, passed, failed>>
  BY DEF scriptVars
<1>2. Len(events') = Len(events) + 1 /\ Len(events) \in Nat
  BY Grown
<1>3. Seen /\ ScriptTrue
  BY DEF EntriesInv
<1>4. Seen'
  <2>1. script' \in ScriptStates /\ passed' \in [Tenants -> Nat] /\ \A t \in Tenants : passed'[t] <= Len(events')
    BY <1>1, <1>2, <1>3 DEF Seen
  <2>2. ASSUME script.pc = "gaps", NEW t, t = script.tenant, NEW n, n = script.upto
        PROVE  /\ t \in Tenants /\ n <= Len(events')
               /\ IF script.broken THEN Forked(t, Len(events))' ELSE ~Forked(t, n)'
    <3>1. t \in Tenants /\ n <= Len(events) /\ n \in Nat
          /\ IF script.broken THEN Forked(t, Len(events)) ELSE ~Forked(t, n)
      BY <1>3, <2>2 DEF Seen, ScriptStates
    <3>2. Forked(t, n)' <=> Forked(t, n)
      BY <3>1, Grown
    <3>3. Forked(t, Len(events)) => Forked(t, Len(events))'
      BY Grown
    <3> QED
      BY <1>2, <3>1, <3>2, <3>3
  <2> QED
    BY <1>1, <2>1, <2>2 DEF Seen, Forked, Own
<1>5. ScriptTrue'
  <2> SUFFICES ASSUME NEW t \in Tenants
               PROVE  (t \in failed' => Forked(t, Len(events))') /\ ~Forked(t, passed[t])'
    BY DEF ScriptTrue
  <2>1. t \in failed => Forked(t, Len(events))
    BY <1>3 DEF ScriptTrue
  <2>2. ~Forked(t, passed[t]) /\ passed[t] \in Nat /\ passed[t] <= Len(events)
    BY <1>3 DEF ScriptTrue, Seen
  <2>3. ~Forked(t, passed[t])'
    BY <1>1, <2>2, Grown
  <2> QED
    BY <1>1, <2>1, <2>3, Grown
<1> QED
  BY <1>4, <1>5

-----------------------------------------------------------------------------
(* Its steps *)

LEMMA PlacedStays == ASSUME Placed, UNCHANGED events PROVE Placed'
BY DEF Placed, Fits, Own

LEMMA FittingStays == ASSUME Fitting, UNCHANGED <<events, append>> PROVE Fitting'
BY DEF Fitting, Fits, Own, Linked

LEMMA SeenStays == ASSUME Seen, UNCHANGED <<events, script, passed>> PROVE Seen'
BY DEF Seen, Forked, Own

LEMMA ScriptTrueStays == ASSUME ScriptTrue, UNCHANGED <<events, passed, failed>> PROVE ScriptTrue'
BY DEF ScriptTrue, Forked, Own

LEMMA OpenedKeeps ==
  ASSUME EntriesInv, NEW w \in Writers, NEW t \in Tenants, Opened(w, t), UNCHANGED <<events, scriptVars>>
  PROVE  EntriesInv'
<1>1. append' = [append EXCEPT ![w] = [tenant |-> t, since |-> Len(events), seq |-> 0, prev |-> 0]]
  BY DEF Opened
<1>2. UNCHANGED <<events, script, passed, failed>>
  BY DEF scriptVars
<1>3. Shapes'
  BY <1>1, <1>2 DEF EntriesInv, Shapes, Appending
<1>4. Fitting'
  <2> SUFFICES ASSUME NEW v \in Writers, Linked(v)' PROVE Fits(append[v], Len(events))'
    BY DEF Fitting
  <2>1. v # w /\ append'[v] = append[v] /\ Linked(v)
    BY <1>1 DEF EntriesInv, Shapes, Linked
  <2>2. Fits(append[v], Len(events))
    BY <2>1 DEF EntriesInv, Fitting
  <2> QED
    BY <1>2, <2>1, <2>2 DEF Fits, Own
<1>5. Placed' /\ Seen' /\ ScriptTrue'
  BY <1>2, PlacedStays, SeenStays, ScriptTrueStays DEF EntriesInv
<1> QED
  BY <1>3, <1>4, <1>5 DEF EntriesInv

\* The newest entries have the number of entries that are one behind another.
LEMMA NewestFits ==
  ASSUME EntriesInv, NEW a \in Appending, a.since <= Len(events),
         NEW i \in Newest(a.tenant), NEW b \in Appending,
         b = [a EXCEPT !.seq = events[i].seq + 1, !.prev = i]
  PROVE  Fits(b, Len(events))
<1>1. i \in Own(a.tenant) /\ \A k \in Own(a.tenant) : events[k].seq <= events[i].seq
  BY DEF Newest
<1>2. i \in 1..Len(events) /\ events[i].tenant = a.tenant
  BY <1>1 DEF Own
<1>3. events \in Seq(Appending) /\ Len(events) \in Nat
  BY DEF EntriesInv, Shapes
<1>4. \A k \in 1..Len(events) : events[k] \in Appending /\ events[k].seq \in Nat
  <2>1. \A k \in 1..Len(events) : events[k] \in Appending
    BY <1>3, SeqIs
  <2> QED
    BY <2>1 DEF Appending
<1>5. b.tenant = a.tenant /\ b.since = a.since /\ b.seq = events[i].seq + 1 /\ b.prev = i
  BY DEF Appending
<1>6. Fits(events[i], i - 1)
  BY <1>2 DEF EntriesInv, Placed
<1>7. \A k \in Own(a.tenant) : events[k].seq < b.seq
  BY <1>1, <1>4, <1>5 DEF Own
<1>8. \A m \in 1..(b.seq - 1) : \E k \in Own(a.tenant) : k <= Len(events) /\ events[k].seq = m
  <2> TAKE m \in 1..(b.seq - 1)
  <2>1. CASE m = events[i].seq
    BY <1>1, <1>2, <2>1
  <2>2. CASE m # events[i].seq
    <3>1. m \in 1..(events[i].seq - 1)
      BY <1>2, <1>4, <1>5, <2>2
    <3>2. PICK k \in Own(events[i].tenant) : k <= i - 1 /\ events[k].seq = m
      BY <1>6, <3>1 DEF Fits
    <3> QED
      BY <1>2, <1>3, <3>2 DEF Own
  <2> QED
    BY <2>1, <2>2
<1> QED
  BY <1>2, <1>3, <1>5, <1>7, <1>8 DEF Fits

LEMMA LinkKeeps == ASSUME EntriesInv, NEW w \in Writers, Link(w) PROVE EntriesInv'
<1> DEFINE a == append[w]
<1>1. append[w] \in Appending /\ append[w].since <= Len(events)
  BY DEF Link, Reading, EntriesInv, Shapes
<1>2. UNCHANGED <<events, script, passed, failed>>
  BY DEF Link, scriptVars
<1>3. append'[w] \in Appending /\ append'[w].since <= Len(events) /\ Fits(append'[w], Len(events))
      /\ append'[w].seq # 0
      /\ append' = [v \in Writers |-> append'[v]] /\ \A v \in Writers : v # w => append'[v] = append[v]
  <2>0. append = [v \in Writers |-> append[v]]
    BY DEF EntriesInv, Shapes
  <2>4. events \in Seq(Appending) /\ Len(events) \in Nat
    BY DEF EntriesInv, Shapes
  <2>1. CASE Own(append[w].tenant) = {}
    <3>1. append' = [append EXCEPT ![w].seq = 1]
      BY <2>1 DEF Link
    <3>2. append'[w] = [append[w] EXCEPT !.seq = 1] /\ append[w].prev = 0
      BY <2>0, <3>1 DEF Link, Reading, EntriesInv, Shapes
    <3>3. append'[w] = [append[w] EXCEPT !.seq = 1, !.prev = 0]
      BY <1>1, <3>2 DEF Appending
    <3>4. append'[w] \in Appending /\ append'[w].tenant = append[w].tenant
          /\ append'[w].since = append[w].since /\ append'[w].seq = 1 /\ append'[w].prev = 0
      <4>0. PICK d \in Appending : d = append[w]
        BY <1>1
      <4> DEFINE b == [d EXCEPT !.seq = 1, !.prev = 0]
      <4>1. b \in Appending /\ b.tenant = d.tenant /\ b.since = d.since /\ b.seq = 1 /\ b.prev = 0
        BY DEF Appending
      <4> QED
        BY <3>3, <4>0, <4>1
    <3>5. append' = [v \in Writers |-> append'[v]] /\ \A v \in Writers : v # w => append'[v] = append[v]
      BY <2>0, <3>1
    <3>6. Fits(append'[w], Len(events))
      BY <1>1, <2>1, <3>4 DEF Fits
    <3> QED
      BY <1>1, <3>4, <3>5, <3>6
  <2>2. CASE Own(append[w].tenant) # {}
    <3>1. PICK i \in Newest(append[w].tenant) :
              append' = [append EXCEPT ![w].seq = events[i].seq + 1, ![w].prev = i]
      BY <2>2 DEF Link
    <3>2. append'[w] = [append[w] EXCEPT !.seq = events[i].seq + 1, !.prev = i]
          /\ append' = [v \in Writers |-> append'[v]] /\ \A v \in Writers : v # w => append'[v] = append[v]
      BY <2>0, <3>1
    <3>3. i \in 1..Len(events) /\ events[i].seq \in Nat
      <4>1. i \in 1..Len(events)
        BY DEF Newest, Own
      <4>2. events[i] \in Appending
        BY <2>4, <4>1, SeqIs
      <4> QED
        BY <4>1, <4>2 DEF Appending
    <3>4. append'[w] \in Appending /\ append'[w].since = append[w].since /\ append'[w].seq # 0
      <4>1. i \in Nat /\ events[i].seq + 1 \in Nat /\ events[i].seq + 1 # 0
        BY <3>3
      <4> QED
        <5>1. PICK d \in Appending, q \in Nat : d = append[w] /\ q = events[i].seq + 1
          BY <1>1, <4>1
        <5> DEFINE b == [d EXCEPT !.seq = q, !.prev = i]
        <5>2. b \in Appending /\ b.since = d.since /\ b.seq = q
          BY <4>1 DEF Appending
        <5>3. append'[w] = b
          BY <3>2, <5>1
        <5> QED
          BY <4>1, <5>1, <5>2, <5>3
    <3>5. Fits(append'[w], Len(events))
      BY <1>1, <3>1, <3>2, <3>4, NewestFits
    <3> QED
      BY <1>1, <3>2, <3>4, <3>5
  <2> QED
    BY <2>1, <2>2
<1>4. Shapes'
  BY <1>2, <1>3 DEF EntriesInv, Shapes
<1>5. Fitting'
  <2> SUFFICES ASSUME NEW v \in Writers, Linked(v)' PROVE Fits(append[v], Len(events))'
    BY DEF Fitting
  <2>1. Fits(append'[v], Len(events))
    BY <1>3 DEF EntriesInv, Fitting, Linked
  <2> QED
    BY <1>2, <2>1 DEF Fits, Own
<1>6. Placed' /\ Seen' /\ ScriptTrue'
  BY <1>2, PlacedStays, SeenStays, ScriptTrueStays DEF EntriesInv
<1> QED
  BY <1>4, <1>5, <1>6 DEF EntriesInv

LEMMA CommitKeeps == ASSUME EntriesInv, NEW w \in Writers, Commit(w) PROVE EntriesInv'
<1>1. append[w] \in Appending /\ Linked(w) /\ append' = [append EXCEPT ![w] = Idle]
      /\ events' = Append(events, append[w]) /\ UNCHANGED scriptVars
  BY DEF Commit, Linked, EntriesInv, Shapes
<1>2. Len(events') = Len(events) + 1 /\ Len(events) \in Nat /\ events' \in Seq(Appending)
      /\ events'[Len(events) + 1] = append[w] /\ \A i \in 1..Len(events) : events'[i] = events[i]
  BY <1>1, Grown
<1>3. Fits(append[w], Len(events))
  BY <1>1 DEF EntriesInv, Fitting
<1>0. \A f \in Appending, n \in 0..Len(events), k \in 0..(Len(events) + 1) :
          n <= k /\ Fits(f, n) => Fits(f, k)'
  BY <1>1, FitsOn
<1>4. Placed'
  <2> SUFFICES ASSUME NEW j \in 1..Len(events') PROVE Fits(events[j], j - 1)'
    BY DEF Placed
  <2>1. CASE j = Len(events) + 1
    <3>1. Fits(append[w], j - 1)
      BY <1>2, <1>3, <2>1
    <3>2. \A f \in Appending : Fits(f, j - 1) => Fits(f, j - 1)'
      BY <1>0, <1>2, <2>1
    <3>3. \A f \in Appending : f = append[w] => Fits(f, j - 1)'
      BY <3>1, <3>2
    <3> QED
      BY <1>1, <1>2, <2>1, <3>3
  <2>2. CASE j # Len(events) + 1
    <3>1. j \in 1..Len(events) /\ events'[j] = events[j] /\ events[j] \in Appending
      BY <1>2, <2>2 DEF EntriesInv, Shapes
    <3>2. Fits(events[j], j - 1)
      BY <3>1 DEF EntriesInv, Placed
    <3>3. \A f \in Appending : f = events[j] => Fits(f, j - 1)'
      BY <1>0, <1>2, <3>1, <3>2
    <3> QED
      BY <3>1, <3>3
  <2> QED
    BY <2>1, <2>2
<1>5. Fitting'
  <2> SUFFICES ASSUME NEW v \in Writers, Linked(v)' PROVE Fits(append[v], Len(events))'
    BY DEF Fitting
  <2>1. v # w /\ append'[v] = append[v] /\ Linked(v) /\ append[v] \in Appending
    BY <1>1 DEF EntriesInv, Shapes, Linked
  <2>2. Fits(append[v], Len(events))
    BY <2>1 DEF EntriesInv, Fitting
  <2>3. \A f \in Appending, k \in {Len(events) + 1} : f = append[v] => Fits(f, k)'
    BY <1>0, <1>2, <2>1, <2>2
  <2> QED
    BY <1>2, <2>1, <2>3
<1>6. Shapes'
  <2>1. Shapes /\ Len(events) <= Len(events')
    BY <1>2 DEF EntriesInv
  <2>2. append' = [v \in Writers |-> append'[v]]
    BY <1>1, <2>1 DEF Shapes
  <2>3. ASSUME NEW v \in Writers, append'[v] # Idle
        PROVE  append'[v] \in Appending /\ append'[v].since <= Len(events')
               /\ (append'[v].seq = 0 => append'[v].prev = 0)
    <3>1. v # w /\ append'[v] = append[v]
      BY <1>1, <2>1, <2>3 DEF Shapes
    <3>2. append[v] \in Appending /\ append[v].since <= Len(events) /\ (append[v].seq = 0 => append[v].prev = 0)
      BY <2>1, <2>3, <3>1 DEF Shapes
    <3>3. append[v].since \in Nat
      BY <3>2 DEF Appending
    <3> QED
      BY <1>2, <2>1, <3>1, <3>2, <3>3
  <2> QED
    BY <1>2, <2>2, <2>3 DEF Shapes
<1>7. Seen' /\ ScriptTrue'
  BY <1>1, SeenOn
<1> QED
  BY <1>4, <1>5, <1>6, <1>7 DEF EntriesInv

LEMMA AbortKeeps == ASSUME EntriesInv, NEW w \in Writers, Abort(w) PROVE EntriesInv'
<1>1. append' = [append EXCEPT ![w] = Idle] /\ UNCHANGED <<events, script, passed, failed>>
  BY DEF Abort, scriptVars
<1>2. Shapes'
  BY <1>1 DEF EntriesInv, Shapes
<1>3. Fitting'
  <2> SUFFICES ASSUME NEW v \in Writers, Linked(v)' PROVE Fits(append[v], Len(events))'
    BY DEF Fitting
  <2>1. v # w /\ append'[v] = append[v] /\ Linked(v)
    BY <1>1 DEF EntriesInv, Shapes, Linked
  <2>2. Fits(append[v], Len(events))
    BY <2>1 DEF EntriesInv, Fitting
  <2> QED
    BY <1>1, <2>1, <2>2 DEF Fits, Own
<1>4. Placed' /\ Seen' /\ ScriptTrue'
  BY <1>1, PlacedStays, SeenStays, ScriptTrueStays DEF EntriesInv
<1> QED
  BY <1>2, <1>3, <1>4 DEF EntriesInv

-----------------------------------------------------------------------------
(* verify-audit-chain.sh *)

\* An order has every entry of the tenant.
LEMMA OrderIs ==
  ASSUME EntriesInv, NEW t \in Tenants, NEW o \in Orders(t)
  PROVE  /\ Cardinality(Own(t)) \in Nat /\ DOMAIN o = 1..Cardinality(Own(t))
         /\ \A a \in DOMAIN o : o[a] \in Own(t)
         /\ \A i \in Own(t) : \E a \in DOMAIN o : o[a] = i
         /\ \A a, b \in DOMAIN o : a < b => o[a] # o[b] /\ events[o[a]].seq <= events[o[b]].seq
<1> DEFINE n == Cardinality(Own(t))
<1>1. Len(events) \in Nat
  BY DEF EntriesInv, Shapes
<1>2. IsFiniteSet(1..Len(events)) /\ Own(t) \subseteq 1..Len(events)
  BY <1>1, FS_Interval DEF Own
<1>3. IsFiniteSet(Own(t)) /\ n \in Nat
  BY <1>2, FS_Subset, FS_CardinalityType
<1>4. o \in [1..n -> Own(t)]
      /\ \A a, b \in 1..n : a < b => o[a] # o[b] /\ events[o[a]].seq <= events[o[b]].seq
  BY DEF Orders
<1>5. o \in Injection(1..n, Own(t))
  BY <1>3, <1>4 DEF Injection, IsInjective
<1>6. Cardinality(1..n) = n
  BY <1>3, FS_Interval
<1>7. o \in Surjection(1..n, Own(t))
  BY <1>3, <1>5, <1>6, FS_Injection
<1> QED
  BY <1>3, <1>4, <1>7 DEF Surjection

\* Two entries in the place of one are found by either query, and nothing else is.
LEMMA OrderTells ==
  ASSUME EntriesInv, NEW t \in Tenants, NEW o \in Orders(t)
  PROVE  (BrokenLink(o) <=> Forked(t, Len(events))) /\ (Gap(o) => Forked(t, Len(events)))
<1>1. /\ Cardinality(Own(t)) \in Nat /\ DOMAIN o = 1..Cardinality(Own(t))
      /\ \A a \in DOMAIN o : o[a] \in Own(t)
      /\ \A i \in Own(t) : \E a \in DOMAIN o : o[a] = i
      /\ \A a, b \in DOMAIN o : a < b => o[a] # o[b] /\ events[o[a]].seq <= events[o[b]].seq
  BY OrderIs
<1>2. events \in Seq(Appending) /\ Len(events) \in Nat
  BY DEF EntriesInv, Shapes
<1>3. \A i \in Own(t) : i \in 1..Len(events) /\ events[i].seq \in Nat /\ events[i].tenant = t
      /\ Fits(events[i], i - 1)
  <2> TAKE i \in Own(t)
  <2>1. i \in 1..Len(events) /\ events[i].tenant = t
    BY DEF Own
  <2>2. events[i] \in Appending
    BY <1>2, <2>1, SeqIs
  <2>3. events[i].seq \in Nat
    BY <2>2 DEF Appending
  <2> QED
    BY <2>1, <2>3 DEF EntriesInv, Placed
<1>4. ASSUME NEW i \in Own(t) PROVE events[i].seq # 0 /\ (events[i].prev # 0 =>
          events[i].prev \in Own(t) /\ events[events[i].prev].seq = events[i].seq - 1)
  <2>1. i \in 1..Len(events) /\ events[i].seq \in Nat /\ events[i].tenant = t /\ Fits(events[i], i - 1)
    BY <1>3
  <2>2. CASE events[i].prev = 0 /\ events[i].seq = 1
    BY <2>2
  <2>3. CASE events[i].prev \in 1..(i - 1) /\ events[events[i].prev].tenant = t
             /\ events[i].seq = events[events[i].prev].seq + 1
    <3>1. events[i].prev \in 1..Len(events)
      BY <1>2, <2>1, <2>3
    <3>2. events[i].prev \in Own(t)
      BY <2>3, <3>1 DEF Own
    <3>3. events[events[i].prev].seq \in Nat
      BY <1>3, <3>2
    <3> QED
      BY <2>1, <2>3, <3>2, <3>3
  <2> QED
    BY <2>1, <2>2, <2>3 DEF Fits
<1>5. ASSUME NEW k \in DOMAIN o, k + 1 \in DOMAIN o, ~Forked(t, Len(events))
      PROVE  events[o[k + 1]].prev = o[k] /\ events[o[k + 1]].seq = events[o[k]].seq + 1
  <2> DEFINE p == o[k]
             q == o[k + 1]
  <2>1. p \in Own(t) /\ q \in Own(t) /\ p # q /\ events[p].seq <= events[q].seq /\ k < k + 1
    BY <1>1, <1>5
  <2>2. events[p].seq # events[q].seq
    BY <1>2, <1>3, <1>5, <2>1 DEF Forked
  <2>3. events[p].seq < events[q].seq
    BY <1>3, <2>1, <2>2
  <2>4. events[q].seq # 1
    BY <1>3, <1>4, <2>1, <2>3
  <2>5. events[q].prev \in Own(t) /\ events[events[q].prev].seq = events[q].seq - 1
    BY <1>3, <1>4, <2>1, <2>4 DEF Fits
  <2>6. PICK m \in DOMAIN o : o[m] = events[q].prev
    BY <1>1, <2>5
  <2>7. events[o[m]].seq < events[q].seq
    BY <1>3, <2>1, <2>5, <2>6
  <2>8. ~(k + 1 < m) /\ m # k + 1
    <3>1. m \in Nat /\ k + 1 \in DOMAIN o /\ events[q].seq \in Nat /\ events[o[m]].seq \in Nat
      BY <1>1, <1>3, <1>5, <2>1, <2>5, <2>6
    <3>2. m # k + 1
      BY <2>7, <3>1
    <3>3. k + 1 < m => events[q].seq <= events[o[m]].seq
      BY <1>1, <2>6, <3>1
    <3> QED
      BY <2>7, <3>1, <3>2, <3>3
  <2>9. ~(m < k)
    <3> SUFFICES ASSUME m < k PROVE FALSE
      OBVIOUS
    <3>1. o[m] # p /\ events[o[m]].seq <= events[p].seq
      BY <1>1, <2>6
    <3>2. events[o[m]].seq = events[p].seq
      <4>1. events[q].seq \in Nat /\ events[p].seq \in Nat /\ events[o[m]].seq \in Nat
        BY <1>3, <2>1, <2>5, <2>6
      <4>2. events[o[m]].seq = events[q].seq - 1
        BY <2>5, <2>6
      <4> QED
        BY <2>3, <3>1, <4>1, <4>2
    <3> QED
      <4>1. o[m] \in Own(t) /\ o[m] \in 1..Len(events) /\ p \in 1..Len(events)
        BY <1>3, <2>1, <2>5, <2>6
      <4>2. o[m] < p \/ p < o[m]
        BY <1>2, <3>1, <4>1
      <4> QED
        BY <1>2, <1>5, <2>1, <3>2, <4>1, <4>2 DEF Forked
  <2>10. m = k
    BY <1>1, <2>8, <2>9
  <2> QED
    <3>1. events[q].seq \in Nat /\ events[p].seq \in Nat /\ events[q].prev = p
      BY <1>3, <2>1, <2>6, <2>10
    <3> QED
      BY <2>5, <3>1
<1>6. ASSUME Forked(t, Len(events)) PROVE BrokenLink(o)
  <2>1. PICK i, j \in Own(t) : i < j /\ events[i].seq = events[j].seq
    BY <1>6 DEF Forked
  <2>2. PICK a, b \in DOMAIN o : a < b /\ events[o[a]].seq = events[o[b]].seq
    <3>1. PICK a, b \in DOMAIN o : o[a] = i /\ o[b] = j
      BY <1>1, <2>1
    <3>2. i # j
      BY <1>3, <2>1
    <3> QED
      BY <1>1, <2>1, <3>1, <3>2
  <2>3. a + 1 \in DOMAIN o /\ a + 1 <= b /\ a \in Nat /\ a < a + 1
    BY <1>1, <2>2
  <2>4. o[a] \in Own(t) /\ o[a + 1] \in Own(t) /\ o[b] \in Own(t)
    BY <1>1, <2>2, <2>3
  <2>5. events[o[a]].seq <= events[o[a + 1]].seq /\ events[o[a + 1]].seq <= events[o[b]].seq
    <3>1. events[o[a]].seq <= events[o[a + 1]].seq
      BY <1>1, <2>2, <2>3
    <3>2. CASE a + 1 = b
      BY <1>3, <2>4, <3>1, <3>2
    <3>3. CASE a + 1 # b
      BY <1>1, <2>2, <2>3, <3>1, <3>3
    <3> QED
      BY <3>2, <3>3
  <2>6. events[o[a]].seq = events[o[a + 1]].seq
    <3>1. events[o[a]].seq \in Nat /\ events[o[a + 1]].seq \in Nat /\ events[o[b]].seq \in Nat
      BY <1>3, <2>4
    <3> QED
      BY <2>2, <2>5, <3>1
  <2>7. events[o[a + 1]].prev # o[a]
    <3>1. events[o[a + 1]].prev # 0 => events[events[o[a + 1]].prev].seq = events[o[a + 1]].seq - 1
      BY <1>4, <2>4
    <3>2. events[o[a]].seq \in Nat /\ o[a] # 0
      BY <1>3, <2>4
    <3> QED
      BY <2>6, <3>1, <3>2
  <2> QED
    BY <2>2, <2>3, <2>7 DEF BrokenLink
<1> QED
  BY <1>5, <1>6 DEF BrokenLink, Gap

LEMMA CheckLinksKeeps == ASSUME EntriesInv, NEW t \in Tenants, CheckLinks(t) PROVE EntriesInv'
<1>1. PICK o \in Orders(t) :
          script' = [pc |-> "gaps", tenant |-> t, upto |-> Len(events), broken |-> BrokenLink(o)]
  BY DEF CheckLinks
<1>2. UNCHANGED <<events, append, passed, failed>>
  BY DEF CheckLinks, eventVars
<1>3. BrokenLink(o) <=> Forked(t, Len(events))
  BY OrderTells
<1>4. Len(events) \in Nat
  BY DEF EntriesInv, Shapes
<1>5. script'.pc = "gaps" /\ script'.tenant = t /\ script'.upto = Len(events) /\ script'.broken = BrokenLink(o)
  BY <1>1
<1>6. script' \in ScriptStates
  BY <1>1, <1>4 DEF ScriptStates, Tailed, BrokenLink
<1>7. Seen'
  BY <1>2, <1>3, <1>4, <1>5, <1>6 DEF EntriesInv, Seen, Forked, Own
<1>8. Shapes' /\ Placed' /\ Fitting' /\ ScriptTrue'
  BY <1>2, PlacedStays, FittingStays, ScriptTrueStays DEF EntriesInv, Shapes
<1> QED
  BY <1>7, <1>8 DEF EntriesInv

LEMMA NoScriptIs == NoScript \in ScriptStates /\ NoScript.pc # "gaps"
BY DEF NoScript, ScriptStates, Tailed

LEMMA CheckGapsKeeps == ASSUME EntriesInv, CheckGaps PROVE EntriesInv'
<1> DEFINE t == script.tenant
<1>1. PICK o \in Orders(t) :
          IF script.broken \/ Gap(o)
          THEN failed' = failed \cup {t} /\ passed' = passed
          ELSE passed' = [passed EXCEPT ![t] = script.upto] /\ failed' = failed
  BY DEF CheckGaps
<1>2. UNCHANGED <<events, append>> /\ script' = NoScript /\ script.pc = "gaps"
  BY DEF CheckGaps, eventVars
<1>3. /\ script \in ScriptStates /\ t \in Tenants /\ script.upto <= Len(events)
      /\ passed \in [Tenants -> Nat] /\ \A u \in Tenants : passed[u] <= Len(events)
      /\ IF script.broken THEN Forked(t, Len(events)) ELSE ~Forked(t, script.upto)
  BY <1>2 DEF EntriesInv, Seen
<1>4. script.upto \in Nat
  BY <1>3 DEF ScriptStates
<1>5. Gap(o) => Forked(t, Len(events))
  BY <1>3, OrderTells
<1>6. passed' \in [Tenants -> Nat] /\ \A u \in Tenants : passed'[u] <= Len(events)
  BY <1>1, <1>3, <1>4
<1>7. Seen'
  BY <1>2, <1>6, NoScriptIs DEF Seen
<1>8. ScriptTrue'
  <2> SUFFICES ASSUME NEW u \in Tenants
               PROVE  (u \in failed' => Forked(u, Len(events))') /\ ~Forked(u, passed[u])'
    BY DEF ScriptTrue
  <2>1. (u \in failed => Forked(u, Len(events))) /\ ~Forked(u, passed[u])
    BY DEF EntriesInv, ScriptTrue
  <2>2. u \in failed' => Forked(u, Len(events))
    BY <1>1, <1>3, <1>5, <2>1
  <2>3. ~Forked(u, passed'[u])
    <3>1. CASE passed'[u] = passed[u]
      BY <2>1, <3>1
    <3>2. CASE passed'[u] # passed[u]
      BY <1>1, <1>3, <3>2
    <3> QED
      BY <3>1, <3>2
  <2> QED
    BY <1>2, <2>2, <2>3 DEF Forked, Own
<1>9. Shapes' /\ Placed' /\ Fitting'
  BY <1>2, PlacedStays, FittingStays DEF EntriesInv, Shapes
<1> QED
  BY <1>7, <1>8, <1>9 DEF EntriesInv

LEMMA ScriptExitsKeeps == ASSUME EntriesInv, ScriptExits PROVE EntriesInv'
<1>1. UNCHANGED <<events, append, passed, failed>> /\ script' = NoScript
  BY DEF ScriptExits, eventVars
<1>2. Seen'
  BY <1>1, NoScriptIs DEF EntriesInv, Seen
<1>3. Shapes' /\ Placed' /\ Fitting' /\ ScriptTrue'
  BY <1>1, PlacedStays, FittingStays, ScriptTrueStays DEF EntriesInv, Shapes
<1> QED
  BY <1>2, <1>3 DEF EntriesInv

LEMMA EntriesStay == ASSUME EntriesInv, UNCHANGED <<eventVars, scriptVars>> PROVE EntriesInv'
<1>1. UNCHANGED <<events, append, script, passed, failed>>
  BY DEF eventVars, scriptVars
<1> QED
  BY <1>1, PlacedStays, FittingStays, SeenStays, ScriptTrueStays DEF EntriesInv, Shapes

\* The verifier keeps the invariant, by its own entry too, whose append is one of
\* the others.
LEMMA EntriesNext == EntriesInv /\ VerifierInv /\ [Next]_vars => EntriesInv'
<1> SUFFICES ASSUME EntriesInv, VerifierInv, [Next]_vars PROVE EntriesInv'
  OBVIOUS
<1>1. CASE Appends
  <2>1. ASSUME NEW w \in Writers, NEW t \in Tenants, Start(w, t) PROVE EntriesInv'
    BY <2>1, OpenedKeeps DEF Start
  <2> QED
    BY <1>1, <2>1, LinkKeeps, CommitKeeps, AbortKeeps DEF Appends
<1>2. CASE Script
  BY <1>2, CheckLinksKeeps, CheckGapsKeeps, ScriptExitsKeeps DEF Script
<1>3. CASE Record
  <2>1. ASSUME NEW w \in Writers, Opened(w, run.tenant) PROVE EntriesInv'
    <3>1. run.tenant \in Tenants
      BY <1>3 DEF Record, VerifierInv, RunInv, TypeRun
    <3> QED
      BY <1>3, <2>1, <3>1, OpenedKeeps DEF Record
  <2>2. CASE UNCHANGED append
    BY <1>3, <2>2, EntriesStay DEF Record, eventVars
  <2> QED
    BY <1>3, <2>1, <2>2 DEF Record
<1>4. CASE (\E t \in Tenants : Load(t)) \/ Query \/ Check \/ Broken \/ Cut \/ BatchEnd \/ GiveUp
           \/ WriteCheckpoint \/ (\E i \in 1..Len(legacy) : Corrupt(i)) \/ NextDay \/ UNCHANGED vars
  <2>1. UNCHANGED <<eventVars, scriptVars>>
    BY <1>4 DEF Load, Query, Check, Broken, Cut, BatchEnd, GiveUp, WriteCheckpoint, Corrupt, NextDay, vars
  <2> QED
    BY <2>1, EntriesStay
<1> QED
  BY <1>1, <1>2, <1>3, <1>4 DEF Next, Verifier

\* For any number of connections and tenants, rollbacks and entries of the verifier
\* included: the numbers are in the order of time, and the script passes no fork that
\* it could have seen and reports none that is not there.
THEOREM EntriesHold == Spec => []EntriesTrue
<1>1. Init => EntriesInv /\ VerifierInv
  BY EntriesBegin, VerifierBegins
<1>2. EntriesInv /\ VerifierInv /\ [Next]_vars => EntriesInv' /\ VerifierInv'
  BY EntriesNext, VerifierNext
<1>3. EntriesInv => EntriesTrue
  BY EntriesImply
<1> QED
  BY <1>1, <1>2, <1>3, PTL DEF Spec
-----------------------------------------------------------------------------
(* The evidence locker *)

Reps == Locker!ReviewReport \cup Locker!IncidentReport \cup Locker!DrillReport \cup Locker!RunReport
Payloads == [second : {"none", "same", "other"}, dual : BOOLEAN, flag : BOOLEAN]
Drafts == [id : Nat, control : Locker!Kinds, period : Months, recordedAt : Months, payload : Payloads, ref : Nat]
Sigs == [over : {Locker!Canonicalize(i) : i \in Drafts} \cup {{}}, made : Nat, label : Nat]
RequestType == [pc : {"idle", "audit", "sign", "put", "insert"}, ref : Nat, rep : Reps \cup {<<>>},
            item : Drafts \cup {<<>>}, sig : Sigs]
ItemType == [item : Drafts, sig : Sigs, wormKey : Months \X Nat]
Lines == [id : Nat, control : Locker!Kinds, wormKey : Months \X Nat]
PackType == [pc : {"idle", "items", "sign", "finish"}, month : Months \cup {0}, left : SUBSET ItemType,
             files : SUBSET ItemType, manifest : SUBSET Lines,
             sig : [over : SUBSET Lines, made : Nat, label : Nat]]

Logging == {"sign", "put", "insert"}
States(i) == [control |-> i.control, second |-> i.payload.second, flag |-> i.payload.flag]

\* Whatever version a signature was made with, its label is the first.
Labelled(s, k) == s.made \in 1..k /\ s.label = 1

\* What a request has logged, signed and locked so far: l is the log, k the key's
\* version and o the bucket.
RequestOK(n, l, k, o) ==
    /\ n \in RequestType
    /\ n.pc \in {"audit", "sign"} => n.rep \in Reps
    /\ n.pc \in Logging => n.ref \in DOMAIN l
    /\ n.pc = "sign" => l[n.ref] = Locker!Entry(n.rep)
    /\ n.pc \in {"put", "insert"} =>
          /\ n.item \in Drafts /\ n.item.ref = n.ref /\ l[n.ref] = States(n.item)
          /\ n.sig.over = Locker!Canonicalize(n.item) /\ Labelled(n.sig, k)
    /\ n.pc = "insert"
       => [key |-> Locker!EvidenceObjectKey(n.item), bytes |-> Locker!Canonicalize(n.item)] \in o

ItemOK(i, l, k, o) ==
    /\ i \in ItemType
    /\ i.sig.over = Locker!Canonicalize(i.item) /\ Labelled(i.sig, k)
    /\ i.wormKey = Locker!EvidenceObjectKey(i.item)
    /\ [key |-> i.wormKey, bytes |-> i.sig.over] \in o
    /\ i.item.ref \in DOMAIN l /\ l[i.item.ref] = States(i.item)

\* Two requests, a request and a row, or two rows never stand for one entry.
OneEach ==
    /\ \A w, v \in Recorders : request[w].pc \in Logging /\ request[v].pc \in Logging
       /\ request[w].ref = request[v].ref => w = v
    /\ \A w \in Recorders, i \in items : request[w].pc \in Logging => request[w].ref # i.item.ref
    /\ \A i, j \in items : i.item.ref = j.item.ref => i = j

\* A pack holds rows that are there, of its month.
PackOK(p, q) ==
    /\ p \in PackType
    /\ p.left \subseteq q /\ p.files \subseteq q
    /\ \A i \in p.left \cup p.files : i.item.period = p.month
    /\ p.manifest = {Locker!ManifestRow(i) : i \in p.files}
Signed(p, k) == p.sig.over = p.manifest /\ Labelled(p.sig, k)
PackedOK(p, k, q) ==
    /\ Signed(p, k)
    /\ p.manifest = {Locker!ManifestRow(i) : i \in p.files}
    /\ p.files \subseteq q /\ \A i \in p.files : i.item.period = p.month

RequestsOK == request \in [Recorders -> RequestType]
/\ \A w \in Recorders : RequestOK(request[w], log, key, objects)
ItemsOK == \A i \in items : ItemOK(i, log, key, objects)
Basics == wired \in BOOLEAN /\ key \in 1..MaxKey /\ itemId \in Nat /\ IsFiniteSet(items)
Logged == log \in Seq({States(i) : i \in Drafts})
Objects == \A o \in objects : o.key[1] \in Months
Packing == PackOK(pack, items) /\ (pack.pc = "finish" => Signed(pack, key))

Handed == \A p \in packs : PackedOK(p, key, items)

LkInv == Basics /\ Logged /\ Objects /\ RequestsOK /\ ItemsOK /\ OneEach /\ Packing /\ Handed

LEMMA LockerImplies == LkInv => Locker!LockerTrue
<1> SUFFICES ASSUME LkInv PROVE Locker!LockerTrue
  OBVIOUS
<1>1. Locker!TypeOK
  BY DEF LkInv, Basics, Objects, ItemsOK, ItemOK, RequestsOK, Packing, PackOK, PackType,
  RequestType, ItemType, Drafts, Locker!TypeOK
<1>2. \A i \in items : Locker!FirstKey(i.sig) => Locker!VerifyItem(i)
  BY DEF LkInv, Basics, ItemsOK, ItemOK, Labelled, Locker!FirstKey, Locker!VerifyItem, Locker!Verify
<1>3. Locker!RowsVerify
  BY <1>2 DEF LkInv, ItemsOK, ItemOK, Locker!RowsVerify, States
<1>4. Locker!CountedOnce
  <2>1. \A i, j \in items : i.item.ref = j.item.ref => i = j
    BY DEF LkInv, OneEach
  <2>2. ASSUME NEW m \in Months, NEW i \in Locker!ListByPeriod(m, {}),
               i.item.control \in Locker!GetCoverage(m)
        PROVE  FALSE
    <3> DEFINE S == {j \in items : j.item.period = m /\ j.item.control = i.item.control}
    <3>1. IsFiniteSet(S) /\ i \in S
      BY <2>2, FS_Subset DEF LkInv, Basics, Locker!ListByPeriod
    <3>2. Cardinality(S) # 0
      BY <3>1, FS_EmptySet
    <3>3. Locker!CountByControl(m)[i.item.control] = 0 /\ i.item.control \in Locker!ExpectedControls
      BY <2>2 DEF Locker!GetCoverage
    <3>4. Locker!CountByControl(m)[i.item.control] = Locker!Cardinality(S)
      BY <3>3, Zenon DEF Locker!CountByControl
    <3>5. Locker!Cardinality(S) = Cardinality(S)
      BY DEF Locker!Cardinality, Cardinality
    <3> QED
      BY <3>2, <3>3, <3>4, <3>5
  <2> QED
    BY <2>1, <2>2 DEF Locker!CountedOnce
<1>5. Locker!PackWhole
  <2>1. ASSUME NEW p \in packs
        PROVE  /\ p.sig.over = p.manifest /\ (Locker!FirstKey(p.sig) => Locker!Verify(p.manifest, p.sig))
               /\ p.manifest = {Locker!ManifestRow(i) : i \in p.files}
               /\ p.files \subseteq items /\ \A i \in p.files : i.item.period = p.month
    BY DEF LkInv, Basics, Handed, PackedOK, Signed, Labelled, Locker!FirstKey, Locker!Verify
  <2> QED
    BY <2>1 DEF Locker!PackWhole
<1> QED
  BY <1>1, <1>3, <1>4, <1>5 DEF Locker!LockerTrue

LEMMA LockerBegins == Locker!Init => LkInv
<1> SUFFICES ASSUME Locker!Init PROVE LkInv
  OBVIOUS
<1>1. Basics
  BY LockerAssumption, FS_EmptySet DEF Locker!Init, Basics
<1>2. Locker!NoSig \in Sigs /\ Locker!NoSig \in [over : SUBSET Lines, made : Nat, label : Nat]
  BY DEF Locker!NoSig, Sigs
<1>3. Locker!NoRun \in RequestType /\ Locker!NoRun.pc = "idle"
  BY <1>2 DEF Locker!NoRun, RequestType
<1>4. RequestsOK /\ OneEach
  BY <1>3 DEF Locker!Init, RequestsOK, RequestOK, OneEach, Logging
<1>5. PackOK(Locker!NoPack, items) /\ Locker!NoPack.pc = "idle"
  BY <1>2 DEF Locker!NoPack, PackOK, PackType
<1>6. Logged /\ Objects /\ ItemsOK /\ Packing /\ Handed
  BY <1>5 DEF Locker!Init, Logged, Objects, ItemsOK, Packing, Handed
<1> QED
  BY <1>1, <1>4, <1>6 DEF LkInv

LogGrows(l, m) == DOMAIN l \subseteq DOMAIN m /\ \A i \in DOMAIN l : m[i] = l[i]

LEMMA RequestKeeps ==
    ASSUME NEW n, NEW l, NEW m, NEW k \in Nat, NEW j \in Nat, NEW o, NEW p,
           RequestOK(n, l, k, o), LogGrows(l, m), k <= j, o \subseteq p
    PROVE  RequestOK(n, m, j, p)
<1>1. n.pc \in Logging => n.ref \in DOMAIN l /\ n.ref \in DOMAIN m /\ m[n.ref] = l[n.ref]
  BY DEF RequestOK, LogGrows
<1>2. Labelled(n.sig, k) => Labelled(n.sig, j)
  BY DEF Labelled
<1> QED
  BY <1>1, <1>2 DEF RequestOK, Logging

LEMMA PackKeeps ==
    ASSUME NEW p, NEW q, NEW r, PackOK(p, q), q \subseteq r
    PROVE  PackOK(p, r)
<1> DEFINE M == {Locker!ManifestRow(i) : i \in p.files}
<1>1. p \in PackType /\ p.left \subseteq q /\ p.files \subseteq q /\ p.manifest = M
      /\ \A i \in p.left \cup p.files : i.item.period = p.month
  BY DEF PackOK
<1> HIDE DEF M
<1>2. p.left \subseteq r /\ p.files \subseteq r
  BY <1>1
<1>3. p.manifest = {Locker!ManifestRow(i) : i \in p.files}
  BY <1>1 DEF M
<1> QED
  BY <1>1, <1>2, <1>3, Zenon DEF PackOK

LEMMA SignedKeeps == ASSUME NEW p, NEW k \in Nat, NEW j \in Nat, Signed(p, k), k <= j
    PROVE Signed(p, j)
  BY DEF Signed, Labelled

LEMMA PackedKeeps ==
    ASSUME NEW p, NEW k \in Nat, NEW j \in Nat, NEW q, NEW r, PackedOK(p, k, q), k <= j,
           q \subseteq r
    PROVE  PackedOK(p, j, r)
<1>1. Signed(p, j)
  BY SignedKeeps DEF PackedOK
<1>2. p.files \subseteq q /\ p.manifest = {Locker!ManifestRow(i) : i \in p.files}
      /\ \A i \in p.files : i.item.period = p.month
  BY Zenon DEF PackedOK
<1>3. p.files \subseteq r
  BY <1>2
<1> QED
  BY <1>1, <1>2, <1>3, Zenon DEF PackedOK

LEMMA ItemKeeps ==
    ASSUME NEW n, NEW l, NEW m, NEW k \in Nat, NEW j \in Nat, NEW o, NEW p,
           ItemOK(n, l, k, o), LogGrows(l, m), k <= j, o \subseteq p
    PROVE  ItemOK(n, m, j, p)
  BY DEF ItemOK, LogGrows, Labelled

\* A step of a request w, which becomes n: the log has grown, the key is no older and
\* the bucket no smaller.
LEMMA LkKeeps ==
    ASSUME LkInv, NEW w \in Recorders, NEW n, request' = [request EXCEPT ![w] = n],
           RequestOK(n, log', key, objects'), LogGrows(log, log'), Logged',
           objects \subseteq objects', Objects',
           n.pc \in Logging => (/\ request[w].pc \in Logging /\ n.ref = request[w].ref)
           \/ n.ref \notin DOMAIN log,
           UNCHANGED <<wired, key, items, pack, packs>>, itemId' \in Nat
    PROVE  LkInv'
<1>1. key \in Nat /\ key <= key
  BY LockerAssumption DEF LkInv, Basics
<1>2. \A v \in Recorders : RequestOK(request[v], log', key', objects')
  BY <1>1, RequestKeeps DEF LkInv, RequestsOK
<1>3. request'[w] = n /\ (\A v \in Recorders : v # w => request'[v] = request[v])
      /\ request' \in [Recorders -> RequestType]
  BY DEF LkInv, RequestsOK, RequestOK
<1>4. RequestsOK'
  BY <1>2, <1>3 DEF RequestsOK
<1>5. \A i \in items : ItemOK(i, log', key', objects')
  BY <1>1, ItemKeeps DEF LkInv, ItemsOK
<1>6. ItemsOK'
  BY <1>5 DEF ItemsOK
<1>7. /\ \A v \in Recorders : request[v].pc \in Logging => request[v].ref \in DOMAIN log
      /\ \A i \in items : i.item.ref \in DOMAIN log
  BY DEF LkInv, RequestsOK, RequestOK, ItemsOK, ItemOK
<1>8. OneEach'
  BY <1>3, <1>7 DEF LkInv, OneEach
<1>9. Basics'
  BY DEF LkInv, Basics
<1>10. Packing'
  BY DEF LkInv, Packing
<1>11. Handed'
  BY DEF LkInv, Handed
<1> QED
  BY <1>4, <1>6, <1>8, <1>9, <1>10, <1>11 DEF LkInv

LEMMA Serving ==
    ASSUME LkInv, NEW w \in Recorders
    PROVE  request \in [Recorders -> RequestType] /\ request[w] \in RequestType
           /\ RequestOK(request[w], log, key, objects) /\ itemId \in Nat
  BY DEF LkInv, RequestsOK, Basics

LEMMA NoRequestIs == Locker!NoRun \in RequestType /\ Locker!NoRun.pc = "idle" /\ \A l, k,
    o : RequestOK(Locker!NoRun, l, k, o)
<1>1. Locker!NoSig \in Sigs
  BY DEF Locker!NoSig, Sigs
<1>2. Locker!NoRun \in RequestType /\ Locker!NoRun.pc = "idle"
  BY <1>1 DEF Locker!NoRun, RequestType
<1> QED
  BY <1>2 DEF RequestOK, Logging

LEMMA LogSame == ASSUME NEW l PROVE LogGrows(l, l)
  BY DEF LogGrows

\* A request ends, whatever it had done.
LEMMA Ends ==
    ASSUME LkInv, NEW w \in Recorders, Locker!Done(w), log' = log, objects \subseteq objects',
           Objects',
           UNCHANGED <<wired, key, items, itemId, pack, packs>>
    PROVE  LkInv'
<1>1. request' = [request EXCEPT ![w] = Locker!NoRun] /\ Logged' /\ LogGrows(log, log')
      /\ itemId' \in Nat
  BY LogSame DEF Locker!Done, LkInv, Logged, Basics
<1> QED
  BY <1>1, NoRequestIs, LkKeeps DEF Logging

LEMMA HandlerStep ==
    ASSUME LkInv, NEW w \in Recorders, NEW r \in Reps, Locker!Handler(w, r)
    PROVE  LkInv'
<1> DEFINE rep == [r EXCEPT !.start = r.done]
           n == [Locker!NoRun EXCEPT !.pc = "audit", !.rep = rep]
<1>1. rep \in Reps
  BY DEF Reps, Locker!ReviewReport, Locker!IncidentReport, Locker!DrillReport, Locker!RunReport
<1>2. n \in RequestType /\ n.pc = "audit" /\ n.rep = rep
  BY <1>1, NoRequestIs DEF Locker!NoRun, RequestType
<1> HIDE DEF rep
<1>3. RequestOK(n, log', key, objects') /\ n.pc \notin Logging
  BY <1>1, <1>2 DEF RequestOK, Logging
<1>4. request' = [request EXCEPT ![w] = n]
      /\ UNCHANGED <<wired, key, items, itemId, objects, log, pack, packs>>
  BY DEF Locker!Handler, Locker!store, Locker!building, rep
<1>5. Logged' /\ Objects' /\ itemId' \in Nat
  BY <1>4 DEF LkInv, Logged, Objects, Basics
<1> HIDE DEF n
<1> QED
  BY <1>3, <1>4, <1>5, LogSame, LkKeeps

LEMMA RecordingSteps ==
    ASSUME LkInv, NEW w \in Recorders, Locker!RecordReview(w) \/ Locker!RecordClosure(w)
           \/ Locker!RecordDrill(w) \/ Locker!RecordRun(w)
    PROVE  LkInv'
  BY HandlerStep DEF Locker!RecordReview, Locker!RecordClosure, Locker!RecordDrill,
  Locker!RecordRun, Reps

\* The draft a report becomes, and what its entry says of it.
LEMMA ItemIs ==
    ASSUME NEW r \in Reps, NEW ref \in Nat
    PROVE  Locker!Item(r, ref) \in [id : Nat, control : Locker!Kinds, period : Nat, recordedAt : Months, payload : Payloads, ref : Nat]
           /\ Locker!Item(r, ref).ref = ref /\ States(Locker!Item(r, ref)) = Locker!Entry(r)
<1>1. r.control \in Locker!Kinds /\ r.done \in Months /\ r.second \in {"none", "same", "other"}
      /\ r.dual \in BOOLEAN /\ r.flag \in BOOLEAN
  BY DEF Reps, Locker!ReviewReport, Locker!IncidentReport, Locker!DrillReport, Locker!RunReport,
  Locker!Kinds
<1> QED
  BY <1>1 DEF Locker!Item, Payloads, States, Locker!Entry

LEMMA EntryIs ==
    ASSUME NEW r \in Reps
    PROVE  Locker!Entry(r) \in {States(i) : i \in Drafts}
<1> DEFINE i == [Locker!Item(r, 0) EXCEPT !.period = r.done]
<1>1. r.done \in Months
  BY DEF Reps, Locker!ReviewReport, Locker!IncidentReport, Locker!DrillReport, Locker!RunReport
<1>2. i \in Drafts /\ i.control = Locker!Item(r, 0).control /\ i.payload = Locker!Item(r, 0).payload
  BY <1>1, ItemIs DEF Drafts
<1>3. States(i) = Locker!Entry(r)
  BY <1>2, ItemIs DEF States
<1> QED
  BY <1>2, <1>3

\* The entry is the log's newest, so its number is nobody's yet.
LEMMA AuditStep == ASSUME LkInv, NEW w \in Recorders, Locker!AuditAppend(w) PROVE LkInv'
<1>1. request \in [Recorders -> RequestType] /\ request[w] \in RequestType
      /\ RequestOK(request[w], log, key, objects) /\ itemId \in Nat
  BY Serving
<1>2. request[w].pc = "audit" /\ request[w].rep \in Reps
      /\ UNCHANGED <<wired, key, objects, items, itemId, pack, packs>>
  BY <1>1 DEF Locker!AuditAppend, Locker!store, Locker!building, RequestOK
<1>3. CASE log' = Append(log, Locker!Entry(request[w].rep))
           /\ request' = [request EXCEPT ![w].pc = "sign", ![w].ref = Len(log')]
  <2> DEFINE n == [request[w] EXCEPT !.pc = "sign", !.ref = Len(log')]
             E == {States(i) : i \in Drafts}
  <2>1. Locker!Entry(request[w].rep) \in E /\ log \in Seq(E)
    BY <1>2, EntryIs DEF LkInv, Logged
  <2> HIDE DEF E
  <2>2. /\ log' \in Seq(E) /\ LogGrows(log, log') /\ Len(log') \in Nat
        /\ Len(log') \in DOMAIN log' /\ log'[Len(log')] = Locker!Entry(request[w].rep)
           /\ Len(log') \notin DOMAIN log
    BY <1>3, <2>1 DEF LogGrows
  <2>3. Logged' /\ Objects' /\ itemId' \in Nat
    BY <1>1, <1>2, <2>2 DEF Logged, E, LkInv, Objects
  <2>4. n \in RequestType /\ n.pc = "sign" /\ n.ref = Len(log') /\ n.rep = request[w].rep
        /\ request' = [request EXCEPT ![w] = n]
    BY <1>1, <1>3, <2>2 DEF RequestType
  <2>5. RequestOK(n, log', key, objects')
    BY <1>2, <2>2, <2>4 DEF RequestOK, Logging
  <2> HIDE DEF n
  <2> QED
    BY <1>2, <2>2, <2>3, <2>4, <2>5, LkKeeps
<1>4. CASE Locker!Done(w) /\ log' = log
  BY <1>2, <1>4, Ends DEF LkInv, Objects
<1> QED
  BY <1>3, <1>4 DEF Locker!AuditAppend

\* The request that records signs what it will lock and insert.
LEMMA SignStep == ASSUME LkInv, NEW w \in Recorders, Locker!Record(w) PROVE LkInv'
<1> DEFINE draft == Locker!Item(request[w].rep, request[w].ref)
           item == [draft EXCEPT !.id = itemId + 1, !.period = draft.recordedAt]
           sig == Locker!Sign(Locker!SignedBytes(item))
           n == [request[w] EXCEPT !.pc = "put", !.item = item, !.sig = sig]
<1>1. request \in [Recorders -> RequestType] /\ request[w] \in RequestType
      /\ RequestOK(request[w], log, key, objects) /\ itemId \in Nat
  BY Serving
<1>2. request[w].pc = "sign" /\ request[w].rep \in Reps /\ request[w].ref \in Nat
      /\ request[w].ref \in DOMAIN log
      /\ log[request[w].ref] = Locker!Entry(request[w].rep)
      /\ UNCHANGED <<wired, key, objects, items, log, pack, packs>> /\ itemId' = itemId + 1
  BY <1>1 DEF Locker!Record, Locker!building, RequestOK, RequestType, Logging
<1>3. draft.ref = request[w].ref /\ States(draft) = Locker!Entry(request[w].rep)
      /\ draft \in [id : Nat, control : Locker!Kinds, period : Nat, recordedAt : Months, payload : Payloads, ref : Nat]
  BY <1>2, ItemIs
<1> HIDE DEF draft
<1>4. item \in Drafts /\ item.ref = draft.ref /\ States(item) = States(draft)
  <2>1. itemId + 1 \in Nat /\ draft.recordedAt \in Months
    BY <1>1, <1>3
  <2>2. /\ item \in Drafts /\ item.ref = draft.ref
        /\ item.control = draft.control /\ item.payload = draft.payload
    BY <1>3, <2>1 DEF Drafts
  <2> QED
    BY <2>2 DEF States
<1>5. key \in Nat /\ key \in 1..key
  BY LockerAssumption DEF LkInv, Basics
<1>6. sig \in Sigs /\ sig.over = Locker!Canonicalize(item) /\ Labelled(sig, key)
  BY <1>4, <1>5 DEF Locker!Sign, Locker!SignedBytes, Sigs, Labelled
<1>7. request' = [request EXCEPT ![w] = n]
  BY <1>1 DEF Locker!Record, Locker!Derive, RequestType, draft
<1> HIDE DEF item, sig
<1>8. n \in RequestType /\ n.pc = "put" /\ n.item = item /\ n.sig = sig /\ n.ref = request[w].ref
  BY <1>1, <1>4, <1>6 DEF RequestType
<1>9. RequestOK(n, log', key, objects')
  BY <1>2, <1>3, <1>4, <1>5, <1>6, <1>8 DEF RequestOK, Logging
<1>10. Logged' /\ Objects' /\ itemId' \in Nat /\ request[w].pc \in Logging /\ LogGrows(log, log')
  BY <1>1, <1>2, LogSame DEF LkInv, Logged, Objects, Logging
<1> HIDE DEF n
<1> QED
  BY <1>2, <1>7, <1>8, <1>9, <1>10, LkKeeps

LEMMA PutStep == ASSUME LkInv, NEW w \in Recorders, Locker!PutEvidence(w) PROVE LkInv'
<1> DEFINE o == [key |-> Locker!EvidenceObjectKey(request[w].item), bytes |-> Locker!Canonicalize(request[w].item)]
<1>1. request \in [Recorders -> RequestType] /\ request[w] \in RequestType
      /\ RequestOK(request[w], log, key, objects) /\ itemId \in Nat
  BY Serving
<1>2. request[w].pc = "put" /\ request[w].item \in Drafts /\ objects' = objects \cup {o}
      /\ UNCHANGED <<wired, key, items, itemId, log, pack, packs>>
  BY <1>1 DEF Locker!PutEvidence, Locker!building, RequestOK
<1>3. Objects' /\ objects \subseteq objects'
  BY <1>2 DEF LkInv, Objects, Locker!EvidenceObjectKey, Drafts
<1>4. CASE Locker!Done(w)
  BY <1>2, <1>3, <1>4, Ends
<1>5. CASE request' = [request EXCEPT ![w].pc = "insert"]
  <2> DEFINE n == [request[w] EXCEPT !.pc = "insert"]
  <2>1. n \in RequestType /\ n.pc = "insert" /\ n.ref = request[w].ref /\ n.item = request[w].item
        /\ n.sig = request[w].sig
        /\ request' = [request EXCEPT ![w] = n]
    BY <1>1, <1>5 DEF RequestType
  <2>2. RequestOK(n, log', key, objects')
    BY <1>1, <1>2, <2>1 DEF RequestOK, Logging
  <2>3. Logged' /\ itemId' \in Nat /\ request[w].pc \in Logging /\ LogGrows(log, log')
    BY <1>1, <1>2, LogSame DEF LkInv, Logged, Logging
  <2> HIDE DEF n
  <2> QED
    BY <1>2, <1>3, <2>1, <2>2, <2>3, LkKeeps
<1> QED
  BY <1>4, <1>5 DEF Locker!PutEvidence

LEMMA QuietSteps == ASSUME LkInv, NEW w \in Recorders, Locker!Swallow(w) \/ Locker!PanicUnwired(w)
    PROVE LkInv'
<1>1. Locker!Done(w) /\ UNCHANGED <<wired, key, objects, items, itemId, log, pack, packs>>
  BY DEF Locker!Swallow, Locker!PanicUnwired, Locker!store, Locker!building
<1> QED
  BY <1>1, Ends DEF LkInv, Objects

\* The row that is inserted is the one row of its entry.
LEMMA InsertStep == ASSUME LkInv, NEW w \in Recorders, Locker!Insert(w) PROVE LkInv'
<1> DEFINE r == [item |-> request[w].item, sig |-> request[w].sig, wormKey |-> Locker!EvidenceObjectKey(request[w].item)]
<1>1. request \in [Recorders -> RequestType] /\ request[w] \in RequestType
      /\ RequestOK(request[w], log, key, objects) /\ itemId \in Nat
  BY Serving
<1>2. request[w].pc = "insert" /\ request[w].pc \in Logging /\ items' = items \cup {r}
      /\ request' = [request EXCEPT ![w] = Locker!NoRun]
      /\ UNCHANGED <<wired, key, objects, itemId, log, pack, packs>>
  BY DEF Locker!Insert, Locker!Done, Locker!building, Logging
<1>3. r \in ItemType /\ r.item = request[w].item /\ r.item.ref = request[w].ref
      /\ ItemOK(r, log, key, objects)
  <2>1. request[w].item \in Drafts /\ request[w].sig \in Sigs
        /\ Locker!EvidenceObjectKey(request[w].item) \in Months \X Nat
    BY <1>1, <1>2 DEF RequestOK, RequestType, Locker!EvidenceObjectKey, Drafts
  <2>2. r \in ItemType /\ r.item = request[w].item /\ r.sig = request[w].sig
        /\ r.wormKey = Locker!EvidenceObjectKey(request[w].item)
    BY <2>1 DEF ItemType
  <2> HIDE DEF r
  <2> QED
    BY <1>1, <1>2, <2>2 DEF RequestOK, ItemOK, Logging
<1> HIDE DEF r
<1>4. /\ request'[w] = Locker!NoRun /\ Locker!NoRun.pc \notin Logging
      /\ request' \in [Recorders -> RequestType]
      /\ \A v \in Recorders : v # w => request'[v] = request[v]
  BY <1>1, <1>2, NoRequestIs DEF Logging
<1>5. RequestsOK'
  BY <1>2, <1>4, NoRequestIs DEF LkInv, RequestsOK
<1>6. ItemsOK'
  BY <1>2, <1>3 DEF LkInv, ItemsOK
<1>7. OneEach'
  BY <1>2, <1>3, <1>4 DEF LkInv, OneEach
<1>8. Basics' /\ Logged' /\ Objects'
  BY <1>2, FS_AddElement DEF LkInv, Basics, Logged, Objects
<1>9. PackOK(pack, items') /\ \A p \in packs : PackedOK(p, key, items')
  <2>1. key \in Nat /\ items \subseteq items'
    BY <1>2, LockerAssumption DEF LkInv, Basics
  <2> QED
    BY <2>1, PackKeeps, PackedKeeps DEF LkInv, Packing, Handed
<1>10. Packing' /\ Handed'
  BY <1>2, <1>9 DEF LkInv, Packing, Handed
<1> QED
  BY <1>5, <1>6, <1>7, <1>8, <1>10 DEF LkInv

\* A newer version of the key leaves every signature one that can be checked.
LEMMA RotateStep == ASSUME LkInv, Locker!RotateKey PROVE LkInv'
<1>1. key \in Nat /\ key' \in Nat /\ key <= key' /\ key' \in 1..MaxKey /\ key \in 1..MaxKey
      /\ UNCHANGED <<wired, objects, items, itemId, log, request, pack, packs>>
  BY LockerAssumption DEF Locker!RotateKey, Locker!building, LkInv, Basics
<1>2. \A v \in Recorders : RequestOK(request[v], log, key', objects)
  BY <1>1, RequestKeeps, LogSame DEF LkInv, RequestsOK
<1>3. \A i \in items : ItemOK(i, log, key', objects)
  BY <1>1, ItemKeeps, LogSame DEF LkInv, ItemsOK
<1>4. RequestsOK' /\ ItemsOK'
  BY <1>1, <1>2, <1>3 DEF LkInv, RequestsOK, ItemsOK
<1>5. OneEach' /\ Basics' /\ Logged' /\ Objects'
  BY <1>1 DEF LkInv, OneEach, Basics, Logged, Objects
<1>6. (pack.pc = "finish" => Signed(pack, key')) /\ \A p \in packs : PackedOK(p, key', items)
  BY <1>1, SignedKeeps, PackedKeeps DEF LkInv, Packing, Handed
<1>7. Packing'
  BY <1>1, <1>6 DEF LkInv, Packing
<1>8. Handed'
  BY <1>1, <1>6 DEF Handed
<1> QED
  BY <1>4, <1>5, <1>7, <1>8 DEF LkInv

\* A step of the pack, which becomes p.
LEMMA PackMoves ==
    ASSUME LkInv, NEW p, pack' = p, PackOK(p, items), p.pc = "finish" => Signed(p, key), Handed',
           UNCHANGED <<wired, key, objects, items, itemId, log, request>>
    PROVE  LkInv'
<1>1. RequestsOK' /\ ItemsOK' /\ OneEach'
  BY DEF LkInv, RequestsOK, ItemsOK, OneEach
<1>2. Basics' /\ Logged' /\ Objects'
  BY DEF LkInv, Basics, Logged, Objects
<1>3. Packing'
  BY DEF Packing
<1> QED
  BY <1>1, <1>2, <1>3 DEF LkInv

LEMMA NoPackIs == Locker!NoPack.pc = "idle" /\ \A q : PackOK(Locker!NoPack, q)
<1>1. Locker!NoPack \in PackType /\ Locker!NoPack.pc = "idle"
  BY DEF Locker!NoPack, Locker!NoSig, PackType
<1>2. Locker!NoPack.left = {} /\ Locker!NoPack.files = {} /\ Locker!NoPack.manifest = {}
  BY DEF Locker!NoPack
<1> QED
  BY <1>1, <1>2 DEF PackOK

LEMMA LineIs == ASSUME NEW i \in ItemType PROVE Locker!ManifestRow(i) \in Lines
  BY DEF Locker!ManifestRow, Lines, ItemType, Drafts, Locker!EvidenceObjectKey

LEMMA PackSteps ==
    ASSUME LkInv, Locker!GetPackHandler \/ Locker!AddItem \/ Locker!SignManifest
           \/ Locker!WriteManifest \/ Locker!BuildFails
    PROVE  LkInv'
<1>1. UNCHANGED <<wired, key, objects, items, itemId, log, request>>
  BY DEF Locker!GetPackHandler, Locker!AddItem, Locker!SignManifest, Locker!WriteManifest,
  Locker!BuildFails, Locker!store
<1>2. pack \in PackType /\ PackOK(pack, items) /\ items \subseteq ItemType /\ key \in Nat
      /\ key \in 1..key
  <2>1. pack \in PackType /\ PackOK(pack, items)
    BY Zenon DEF LkInv, Packing, PackOK
  <2>2. items \subseteq ItemType
    BY DEF LkInv, ItemsOK, ItemOK
  <2>3. key \in Nat /\ key \in 1..key
    BY LockerAssumption DEF LkInv, Basics
  <2> QED
    BY <2>1, <2>2, <2>3
<1>3. packs' = packs => Handed'
  BY <1>1 DEF LkInv, Handed
<1>4. CASE Locker!GetPackHandler
  <2>1. PICK m \in Months, c \in {{}, {"CC6.3"}} :
          pack' = [Locker!NoPack EXCEPT !.pc = "items", !.month = m, !.left = Locker!ListByPeriod(m, c)]
    BY <1>4 DEF Locker!GetPackHandler
  <2> DEFINE p == [Locker!NoPack EXCEPT !.pc = "items", !.month = m, !.left = Locker!ListByPeriod(m, c)]
  <2>2. Locker!ListByPeriod(m, c) \subseteq items
        /\ \A i \in Locker!ListByPeriod(m, c) : i.item.period = m
    BY DEF Locker!ListByPeriod
  <2>3. p \in PackType /\ p.pc = "items" /\ p.month = m /\ p.left = Locker!ListByPeriod(m, c)
        /\ p.files = {} /\ p.manifest = {}
    BY <1>2, <2>2 DEF Locker!NoPack, Locker!NoSig, PackType
  <2> HIDE DEF p
  <2>4. PackOK(p, items)
    BY <2>2, <2>3 DEF PackOK
  <2>5. pack' = p /\ packs' = packs
    BY <1>4, <2>1 DEF Locker!GetPackHandler, p
  <2> QED
    BY <1>1, <1>3, <2>3, <2>4, <2>5, PackMoves
<1>5. CASE Locker!AddItem
  <2> DEFINE i == CHOOSE x \in pack.left : TRUE
             p == [pack EXCEPT !.left = @ \ {i}, !.files = @ \cup {i}, !.manifest = @ \cup {Locker!ManifestRow(i)}]
  <2>1. i \in pack.left /\ pack' = p /\ packs' = packs /\ pack.pc = "items"
    BY <1>5 DEF Locker!AddItem
  <2> HIDE DEF i
  <2>2. i \in ItemType /\ Locker!ManifestRow(i) \in Lines
    BY <1>2, <2>1, LineIs DEF PackOK
  <2>3. /\ p \in PackType /\ p.pc = "items" /\ p.month = pack.month /\ p.left = pack.left \ {i}
        /\ p.files = pack.files \cup {i} /\ p.manifest = pack.manifest \cup {Locker!ManifestRow(i)}
    BY <1>2, <2>1, <2>2 DEF PackType
  <2> HIDE DEF p
  <2>4. p.manifest = {Locker!ManifestRow(x) : x \in p.files}
    BY <1>2, <2>3 DEF PackOK
  <2>5. PackOK(p, items)
    BY <1>2, <2>1, <2>3, <2>4 DEF PackOK
  <2> QED
    BY <1>1, <1>3, <2>1, <2>3, <2>5, PackMoves
<1>6. CASE Locker!SignManifest
  <2> DEFINE p == [pack EXCEPT !.pc = "finish", !.sig = Locker!Sign(pack.manifest)]
  <2>1. pack' = p /\ packs' = packs
    BY <1>6 DEF Locker!SignManifest
  <2>2. Locker!Sign(pack.manifest) \in [over : SUBSET Lines, made : Nat, label : Nat]
        /\ Locker!Sign(pack.manifest).over = pack.manifest
        /\ Labelled(Locker!Sign(pack.manifest), key)
    BY <1>2 DEF Locker!Sign, PackType, Labelled
  <2>3. /\ p \in PackType /\ p.month = pack.month /\ p.left = pack.left
        /\ p.files = pack.files /\ p.manifest = pack.manifest /\ p.sig = Locker!Sign(pack.manifest)
    BY <1>2, <2>2 DEF PackType
  <2> HIDE DEF p
  <2>4. PackOK(p, items) /\ Signed(p, key)
    BY <1>2, <2>2, <2>3 DEF PackOK, Signed
  <2> QED
    BY <1>1, <1>3, <2>1, <2>4, PackMoves
<1>7. CASE Locker!WriteManifest
  <2> DEFINE x == [month |-> pack.month, files |-> pack.files, manifest |-> pack.manifest, sig |-> pack.sig]
  <2>1. pack' = Locker!NoPack /\ packs' = packs \cup {x} /\ pack.pc = "finish"
    BY <1>7 DEF Locker!WriteManifest
  <2>2. Signed(pack, key)
    BY <2>1 DEF LkInv, Packing
  <2>3. x.month = pack.month /\ x.files = pack.files /\ x.manifest = pack.manifest
        /\ x.sig = pack.sig
    OBVIOUS
  <2> HIDE DEF x
  <2>4. Signed(x, key)
    BY <2>2, <2>3 DEF Signed
  <2>5. /\ pack.files \subseteq items /\ \A i \in pack.files : i.item.period = pack.month
        /\ pack.manifest = {Locker!ManifestRow(i) : i \in pack.files}
    BY <1>2 DEF PackOK
  <2>6. PackedOK(x, key, items)
    BY <2>3, <2>4, <2>5, Zenon DEF PackedOK
  <2>7. Handed'
    BY <1>1, <2>1, <2>6 DEF LkInv, Handed
  <2> QED
    BY <1>1, <2>1, <2>7, NoPackIs, PackMoves
<1>8. CASE Locker!BuildFails
  BY <1>1, <1>3, <1>8, NoPackIs, PackMoves DEF Locker!BuildFails
<1> QED
  BY <1>4, <1>5, <1>6, <1>7, <1>8

LEMMA LockerStays == ASSUME LkInv, UNCHANGED lockerVars PROVE LkInv'
<1>1. RequestsOK' /\ ItemsOK' /\ OneEach'
  BY DEF LkInv, RequestsOK, ItemsOK, OneEach, lockerVars
<1>2. Basics' /\ Logged' /\ Objects'
  BY DEF LkInv, Basics, Logged, Objects, lockerVars
<1>3. Packing' /\ Handed'
  BY DEF LkInv, Packing, Handed, lockerVars
<1> QED
  BY <1>1, <1>2, <1>3 DEF LkInv

LEMMA LockerStep == LkInv /\ Locker!Next => LkInv'
  BY RecordingSteps, AuditStep, SignStep, PutStep, InsertStep, QuietSteps, RotateStep, PackSteps
     DEF Locker!Next

\* For any number of requests, months, reports, versions of the key and packs, and
\* whichever calls fail: a row stands for a locked object of the bytes that were signed and
\* cites the entry of its own report, a report has one item, the coverage calls no control
\* that has an item a gap, and a pack is whole.
THEOREM LockerHolds == PartsSpec => []LockerTrue
<1>1. PartsInit => LkInv
  BY LockerBegins DEF PartsInit
<1>2. LkInv /\ [PartsNext]_<<part, vars, lockerVars>> => LkInv'
  BY LockerStep, LockerStays DEF PartsNext
<1>3. LkInv => LockerTrue
  BY LockerImplies DEF LockerTrue
<1> QED
  BY <1>1, <1>2, <1>3, PTL DEF PartsSpec
=============================================================================
