------------------------------ MODULE AuditChain ------------------------------
(* The audit log. RunMigrations puts migration 0029 in place before anything   *)
(* is recorded: the Recorder's append_event is the one of init.sql, which      *)
(* links audit.audit_events per tenant and takes no lock; the nightly script   *)
(* reads them. RunForTenant reads audit.audit_log, which holds what releases   *)
(* before 0029 left in it and does not grow. A hash is the place of its entry  *)
(* in its table, and 0 the hash that begins a chain.                           *)
EXTENDS Naturals, Sequences, FiniteSets

CONSTANTS
    Tenants,
    Writers,     \* connections that append
    BatchSize,   \* rows of one query of the verifier
    MaxRows,     \* bound: entries of audit_events
    MaxLegacy,   \* bound: entries of audit_log
    MaxDays,     \* bound: days
    MaxFaults,   \* bound: appends rolled back, queries that fail, reads that end early
                 \* and rows damaged in storage
    Idle, NoTenant

ASSUME BatchSizePositive == BatchSize \in Nat \ {0}
ASSUME BoundsAreNumbers ==
    MaxRows \in Nat /\ MaxLegacy \in Nat /\ MaxDays \in Nat \ {0} /\ MaxFaults \in Nat
ASSUME NoTenantIsNone == NoTenant \notin Tenants

VARIABLES
    events,      \* audit_events in the order of the commits; since is what was committed
                 \* when the entry's append began
    append,      \* Writer: its open append; seq 0 until the newest entry is read
    script,      \* verify-audit-chain.sh
    passed,      \* Tenant: what was committed when a script that passed began
    failed,      \* tenants for which a script reported an error
    legacy,      \* audit_log
    day,
    run,         \* RunForTenant's locals
    ran,         \* Tenant: the day of its last run
    checkpoint,  \* Tenant: its newest row of audit_checkpoint
    alarms,      \* tenants whose chain was reported broken
    late,        \* entries of audit_log damaged after the verifier had read them
    spent,       \* tenants with a checkpoint of number 0 that has the hash of a later entry
    faults

eventVars == <<events, append>>
scriptVars == <<script, passed, failed>>
runVars == <<run, ran, checkpoint, alarms, spent>>
vars == <<eventVars, scriptVars, legacy, day, runVars, late, faults>>

\* Entries are intact or damaged.
Bodies == {"good", "bad"}
Phases == {"idle", "query", "rows", "sign", "audit", "wait"}

NoRun == [pc |-> "idle", tenant |-> NoTenant, prev |-> 0, last |-> 0, offset |-> 0,
          batch |-> {}, n |-> 0, cut |-> FALSE, conn |-> Idle]
NoCheckpoint == [id |-> 0, hash |-> 0]
NoScript == [pc |-> "idle", tenant |-> NoTenant, upto |-> 0, broken |-> FALSE]

Appending == [tenant : Tenants, since : Nat, seq : Nat, prev : Nat]
Rows == [id : 1..Len(legacy), body : Bodies]
Places == 0..Len(legacy)

TypeOK ==
    /\ events \in Seq(Appending)
    /\ append \in [Writers -> Appending \cup {Idle}]
    /\ script \in [pc : {"idle", "gaps"}, tenant : Tenants \cup {NoTenant}, upto : Nat,
                   broken : BOOLEAN]
    /\ passed \in [Tenants -> Nat] /\ failed \subseteq Tenants
    /\ legacy \in Seq([tenant : Tenants, body : Bodies]) /\ Len(legacy) <= MaxLegacy
    /\ day \in 1..MaxDays
    /\ run \in [pc : Phases, tenant : Tenants \cup {NoTenant}, prev : Places, last : Places,
                offset : Places, batch : SUBSET Rows, n : 0..BatchSize, cut : BOOLEAN,
                conn : Writers \cup {Idle}]
    /\ ran \in [Tenants -> 0..MaxDays]
    /\ checkpoint \in [Tenants -> [id : Places, hash : Places]]
    /\ alarms \subseteq Tenants /\ spent \subseteq Tenants /\ late \subseteq 1..Len(legacy)
    /\ faults \in 0..MaxFaults

\* The entries of the older releases: 004's append_event made one chain of them all.
Init ==
    /\ events = <<>>
    /\ append = [w \in Writers |-> Idle]
    /\ script = NoScript /\ passed = [t \in Tenants |-> 0] /\ failed = {}
    /\ legacy \in UNION {[1..n -> [tenant : Tenants, body : {"good"}]] : n \in 0..MaxLegacy}
    /\ day = 1
    /\ run = NoRun
    /\ ran = [t \in Tenants |-> 0]
    /\ checkpoint = [t \in Tenants |-> NoCheckpoint]
    /\ alarms = {} /\ late = {} /\ spent = {}
    /\ faults = 0

Fault == faults < MaxFaults /\ faults' = faults + 1

----------------------------------------------------------------------------
(* append_event *)

\* The places of a tenant's entries.
Own(t) == {i \in 1..Len(events) : events[i].tenant = t}

\* Mutant: the newest entry by its id.
NewestById(t) == {i \in Own(t) : \A k \in Own(t) : k <= i}

\* ORDER BY seq DESC LIMIT 1: several may have the greatest number.
Newest(t) == {i \in Own(t) : \A k \in Own(t) : events[k].seq <= events[i].seq}

Reading(w) == append[w] # Idle /\ append[w].seq = 0
Linked(w) == append[w] # Idle /\ append[w].seq # 0
Open == {w \in Writers : append[w] # Idle}

Opened(w, t) ==
    /\ append[w] = Idle /\ Len(events) + Cardinality(Open) < MaxRows
    /\ append' = [append EXCEPT ![w] = [tenant |-> t, since |-> Len(events), seq |-> 0, prev |-> 0]]

Start(w, t) ==
    /\ Opened(w, t)
    /\ UNCHANGED <<events, scriptVars, legacy, day, runVars, late, faults>>

\* The number and prev_hash the entry will have.
Link(w) ==
    /\ Reading(w)
    /\ IF Own(append[w].tenant) = {}
       THEN append' = [append EXCEPT ![w].seq = 1]
       ELSE \E i \in Newest(append[w].tenant) :
                append' = [append EXCEPT ![w].seq = events[i].seq + 1, ![w].prev = i]
    /\ UNCHANGED <<events, scriptVars, legacy, day, runVars, late, faults>>

\* The verifier's own append has returned, with an id or an error.
Returns(w) == run' = IF run.conn = w THEN NoRun ELSE run

\* The insert, with no unique number, and the commit.
Commit(w) ==
    /\ Linked(w)
    /\ events' = Append(events, append[w])
    /\ append' = [append EXCEPT ![w] = Idle]
    /\ Returns(w)
    /\ UNCHANGED <<scriptVars, legacy, day, ran, checkpoint, alarms, spent, late, faults>>

Abort(w) ==
    /\ append[w] # Idle /\ Fault
    /\ append' = [append EXCEPT ![w] = Idle]
    /\ Returns(w)
    /\ UNCHANGED <<events, scriptVars, legacy, day, ran, checkpoint, alarms, spent, late>>

----------------------------------------------------------------------------
(* verify-audit-chain.sh: two queries of the tenant's entries in the order of   *)
(* their numbers, equal ones in any order.                                     *)

Orders(t) ==
    {o \in [1..Cardinality(Own(t)) -> Own(t)] :
        \A a, b \in DOMAIN o : a < b => o[a] # o[b] /\ events[o[a]].seq <= events[o[b]].seq}

\* Some entry does not follow the one before it: its prev_hash, its number.
BrokenLink(o) == \E k \in DOMAIN o : k + 1 \in DOMAIN o /\ events[o[k + 1]].prev # o[k]
Gap(o) == \E k \in DOMAIN o : k + 1 \in DOMAIN o /\ events[o[k + 1]].seq # events[o[k]].seq + 1

CheckLinks(t) ==
    /\ script.pc = "idle"
    /\ \E o \in Orders(t) :
        script' = [pc |-> "gaps", tenant |-> t, upto |-> Len(events), broken |-> BrokenLink(o)]
    /\ UNCHANGED <<eventVars, passed, failed, legacy, day, runVars, late, faults>>

\* The second query and the attestation.
CheckGaps ==
    /\ script.pc = "gaps"
    /\ \E o \in Orders(script.tenant) :
        IF script.broken \/ Gap(o)
        THEN failed' = failed \cup {script.tenant} /\ passed' = passed
        ELSE passed' = [passed EXCEPT ![script.tenant] = script.upto] /\ failed' = failed
    /\ script' = NoScript
    /\ UNCHANGED <<eventVars, legacy, day, runVars, late, faults>>

\* set -e: a query that fails ends the script without an attestation.
ScriptExits ==
    /\ script.pc = "gaps" /\ Fault
    /\ script' = NoScript
    /\ UNCHANGED <<eventVars, passed, failed, legacy, day, runVars, late>>

----------------------------------------------------------------------------
(* RunForTenant *)

OwnLegacy(t) == {i \in 1..Len(legacy) : legacy[i].tenant = t}

At(pc) == run' = [run EXCEPT !.pc = pc]

\* The newest checkpoint, once a night; a failure to read it is taken for none.
Load(t) ==
    /\ run.pc = "idle" /\ ran[t] < day
    /\ ran' = [ran EXCEPT ![t] = day]
    /\ \E from \in {checkpoint[t], NoCheckpoint} :
        /\ \/ from = checkpoint[t] /\ UNCHANGED faults
           \/ from # checkpoint[t] /\ Fault
        /\ run' = [NoRun EXCEPT !.pc = "query", !.tenant = t, !.prev = from.hash, !.offset = from.id]
    /\ UNCHANGED <<eventVars, scriptVars, legacy, day, checkpoint, alarms, spent, late>>

\* The first entries after a number, in the order of their ids, BatchSize at most.
Batches(t, from) ==
    LET later == {i \in OwnLegacy(t) : i > from} IN
    {batch \in SUBSET later :
        /\ \A i \in batch, k \in later \ batch : i < k
        /\ \/ Cardinality(batch) = BatchSize
           \/ batch = later /\ Cardinality(batch) < BatchSize}

\* The rows as they are at the query.
Query ==
    /\ run.pc = "query"
    /\ \E batch \in Batches(run.tenant, run.offset) :
        run' = [run EXCEPT !.pc = "rows", !.n = 0,
                           !.batch = {[id |-> i, body |-> legacy[i].body] : i \in batch}]
    /\ UNCHANGED <<eventVars, scriptVars, legacy, day, ran, checkpoint, alarms, spent, late, faults>>

\* The row that rows.Next gives.
IsNext(r) == r \in run.batch /\ \A q \in run.batch : r.id <= q.id

\* Mutant: the hash is not computed again.
RowLinked(r) == r.id - 1 = run.prev

\* prev_hash is that of the entry before it in the table, of whatever tenant.
RowOK(r) == r.id - 1 = run.prev /\ r.body = "good"

Check ==
    /\ run.pc = "rows"
    /\ \E r \in run.batch :
        /\ IsNext(r) /\ RowOK(r)
        /\ run' = [run EXCEPT !.prev = r.id, !.last = r.id, !.n = @ + 1, !.batch = @ \ {r}]
    /\ UNCHANGED <<eventVars, scriptVars, legacy, day, ran, checkpoint, alarms, spent, late, faults>>

Broken ==
    /\ run.pc = "rows" /\ \E r \in run.batch : IsNext(r) /\ ~RowOK(r)
    /\ alarms' = alarms \cup {run.tenant}
    /\ At("audit")
    /\ UNCHANGED <<eventVars, scriptVars, legacy, day, ran, checkpoint, spent, late, faults>>

\* rows.Next is false on an error too, and rows.Err is not asked.
Cut ==
    /\ run.pc = "rows" /\ run.batch # {} /\ Fault
    /\ run' = [run EXCEPT !.batch = {}, !.cut = TRUE]
    /\ UNCHANGED <<eventVars, scriptVars, legacy, day, ran, checkpoint, alarms, spent, late>>

BatchEnd ==
    /\ run.pc = "rows" /\ run.batch = {}
    /\ IF run.n < BatchSize THEN At("sign")
       ELSE run' = [run EXCEPT !.pc = "query", !.offset = run.last]
    /\ UNCHANGED <<eventVars, scriptVars, legacy, day, ran, checkpoint, alarms, spent, late, faults>>

\* A query, a row's scan or hash, the signature or the insert fails and is returned.
GiveUp ==
    /\ run.pc \in {"query", "rows", "sign"} /\ Fault
    /\ run' = NoRun
    /\ UNCHANGED <<eventVars, scriptVars, legacy, day, ran, checkpoint, alarms, spent, late>>

\* Without new entries lastVerifiedID is still 0, and prevHash the old head.
WriteCheckpoint ==
    /\ run.pc = "sign"
    /\ checkpoint' = [checkpoint EXCEPT ![run.tenant] = [id |-> run.last, hash |-> run.prev]]
    /\ spent' = IF run.last = 0 /\ run.prev # 0 THEN spent \cup {run.tenant} ELSE spent
    /\ At("audit")
    /\ UNCHANGED <<eventVars, scriptVars, legacy, day, ran, alarms, late, faults>>

\* ActionAuditChainVerified or ActionAuditChainBroken: an append as any other,
\* whose error is ignored.  Bound: none when there is no room for it.
Record ==
    /\ run.pc = "audit"
    /\ \/ \E w \in Writers :
            /\ Opened(w, run.tenant)
            /\ run' = [run EXCEPT !.pc = "wait", !.conn = w]
       \/ run' = NoRun /\ UNCHANGED append
    /\ UNCHANGED <<events, scriptVars, legacy, day, ran, checkpoint, alarms, spent, late, faults>>

----------------------------------------------------------------------------
(* Storage and time *)

Damaged == {i \in 1..Len(legacy) : legacy[i].body = "bad"}

ReadBefore(i) ==
    \/ i <= checkpoint[legacy[i].tenant].id
    \/ run.tenant = legacy[i].tenant /\ (i <= run.last \/ \E r \in run.batch : r.id = i)

\* A row is damaged below the database.
Corrupt(i) ==
    /\ i \notin Damaged /\ Fault
    /\ legacy' = [legacy EXCEPT ![i].body = "bad"]
    /\ late' = IF ReadBefore(i) THEN late \cup {i} ELSE late
    /\ UNCHANGED <<eventVars, scriptVars, day, runVars>>

NextDay ==
    /\ day < MaxDays
    /\ day' = day + 1
    /\ UNCHANGED <<eventVars, scriptVars, legacy, runVars, late, faults>>

Appends == \E w \in Writers : (\E t \in Tenants : Start(w, t)) \/ Link(w) \/ Commit(w) \/ Abort(w)
Script == (\E t \in Tenants : CheckLinks(t)) \/ CheckGaps \/ ScriptExits
Verifier ==
    \/ \E t \in Tenants : Load(t)
    \/ Query \/ Check \/ Broken \/ Cut \/ BatchEnd \/ GiveUp \/ WriteCheckpoint \/ Record

Next == Appends \/ Script \/ Verifier \/ (\E i \in 1..Len(legacy) : Corrupt(i)) \/ NextDay

Spec == Init /\ [][Next]_vars

----------------------------------------------------------------------------
(* Properties *)

\* One chain per tenant: of two of its entries the later follows the one before it.
\* The comment of the Recorder says so of concurrent callers (init.sql's
\* append_event does not hold to it).
Chained ==
    \A t \in Tenants : \A i, j \in Own(t) :
        i < j /\ (\A k \in Own(t) : k <= i \/ j <= k) => events[j].prev = i

\* Every entry has a number of its own tenant's chain: 1, or one more than the entry
\* it follows, which was committed before it (append_event).
Rooted ==
    \A j \in 1..Len(events) :
        \/ events[j].prev = 0 /\ events[j].seq = 1
        \/ /\ events[j].prev \in 1..(j - 1)
           /\ events[events[j].prev].tenant = events[j].tenant
           /\ events[j].seq = events[events[j].prev].seq + 1

\* The numbers keep the order of time: an append that begins when another has
\* committed gets the greater number, after any forks.  So two entries follow the
\* same one only if their appends overlapped (append_event).
InTime ==
    \A j \in 1..Len(events) : \A i \in Own(events[j].tenant) :
        i <= events[j].since => events[i].seq < events[j].seq

Forked(t, n) == \E i, j \in Own(t) : i < j /\ j <= n /\ events[i].seq = events[j].seq

\* The script reports an error for a tenant only if its chain has forked, and passes
\* none that had forked when it began, whatever is appended between its queries and
\* in whatever order equal numbers come (verify-audit-chain.sh).
ScriptTrue == \A t \in Tenants : (t \in failed => Forked(t, Len(events))) /\ ~Forked(t, passed[t])

\* What is true of the entries that the API of this commit writes.
EntriesTrue == Rooted /\ InTime /\ ScriptTrue

\* Some entry of the tenant comes after one of another tenant.
Shared(t) == \E i \in OwnLegacy(t) : \E k \in 1..(i - 1) : legacy[k].tenant # t

\* RunForTenant reports a tenant's chain broken only when an entry of it was damaged,
\* it is shared with another tenant, or a run with nothing to read has left a
\* checkpoint with the number 0 and the hash of the head; never because of where a
\* batch, a run or a read that was cut short had ended.
NoFalseAlarm == \A t \in alarms : OwnLegacy(t) \cap Damaged # {} \/ Shared(t) \/ t \in spent

\* No checkpoint covers an entry that was damaged before the verifier read it
\* (RunForTenant).  Every variable keeps its type.
Attested == TypeOK /\ \A i \in Damaged : i <= checkpoint[legacy[i].tenant].id => i \in late

\* A run that ends with a checkpoint has read every entry of the tenant that the
\* checkpoint it began with did not cover, unless a read of it ended early and was
\* taken for the end of the log (RunForTenant).
Reached == IF run.last = 0 THEN run.offset ELSE run.last
CoversAll == run.pc = "sign" /\ ~run.cut => \A i \in OwnLegacy(run.tenant) : i <= Reached

\* What the verifier reports, attests and covers, in any number of nights.
VerifierTrue == NoFalseAlarm /\ Attested /\ CoversAll
================================================================================
