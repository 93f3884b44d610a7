------------------------------- MODULE Lookups -------------------------------
(* What is looked up elsewhere and may be old: a feature flag and an endpoint's  *)
(* metadata through a cache, whether OCR is on through a gate that never waits,   *)
(* and the pages of a search while documents come in.                            *)
EXTENDS Integers, FiniteSets

CONSTANTS
    Readers, Setters,
    FlagTtl, MetaTtl, GateTtl,
    MaxRead,        \* a read or a request takes no longer; the code has no such bound for a row
    MaxClock, MaxSets, MaxFaults,
    Docs,           \* documents that may come in: timestamp, tenant, whether they decode
    Lookback, Cap, Size, MaxSize, MaxPage, ResultWindow     \* OpenSearch's max_result_window

VARIABLES
    about,      \* what this behaviour looks up
    clock,
    current,    \* version of the row or of the module's state; 0: none, off
    past,       \* history: instant -> versions it had then
    made, faults,
    cached,     \* version, since when, and whether it was old when it was stored; or NoEntry
    reader,     \* goroutine -> where it stands
    told,       \* the answer of the last step: version, when, whether it was taken for fresh
    setter, trail,      \* an administrator's change; the audit entries
    docs, walk  \* what is indexed; a caller going through the pages

\* Times and pages are counted from one, and a search without a window is within the cap.
LookupsAssumption ==
    /\ FlagTtl \in Nat \ {0} /\ MetaTtl \in Nat \ {0} /\ GateTtl \in Nat \ {0} /\ MaxRead \in Nat
    /\ Docs \subseteq [at : Int, tenant : STRING, decodes : BOOLEAN, typed : BOOLEAN]
    /\ Cap \in Nat /\ Lookback \in 0..Cap /\ MaxSize \in Nat /\ Size \in 1..MaxSize /\ MaxPage \in Nat \ {0}

lookupVars == <<about, clock, current, past, made, faults, cached, reader, told, setter, trail, docs, walk>>
restOfFlags == <<about, clock, docs, walk>>

NoEntry == [version |-> 0, at |-> -1, late |-> FALSE]
Idle == [pc |-> "idle", version |-> 0, since |-> 0]

-----------------------------------------------------------------------------
(* A flag is decided by a switch, the overrides, and a bucket of the person. *)

Buckets == 4        \* 100 in the code
Override == {{}, {TRUE}, {FALSE}}
Flags == [enabled : BOOLEAN, default : BOOLEAN, rollout : 0..Buckets,
          user : Override, role : Override, tenant : Override]

Override1(f) == IF f.user # {} THEN f.user ELSE IF f.role # {} THEN f.role ELSE f.tenant

\* evaluate: a rollout of nothing leaves the default, which may be on.
Evaluate(f, bucket) ==
    /\ f.enabled
    /\ IF Override1(f) # {} THEN TRUE \in Override1(f)
       ELSE f.rollout >= Buckets \/ bucket < f.rollout \/ f.default

\* validate
ValidFlag(key, rollout) == key \in 1..128 /\ rollout \in 0..Buckets

-----------------------------------------------------------------------------
(* Reading through a cache. *)

Fresh(ttl) == cached # NoEntry /\ clock - cached.at < ttl

NoAnswer == [version |-> 0, at |-> 0, fresh |-> FALSE]
Answer(version, fresh) == told' = [version |-> version, at |-> clock, fresh |-> fresh]

Lookup(r, kind, ttl) ==
    /\ about = kind
    /\ reader[r].pc = "idle"
    /\ \/ Fresh(ttl) /\ Answer(cached.version, TRUE) /\ UNCHANGED reader
       \/ ~Fresh(ttl) /\ reader' = [reader EXCEPT ![r] = [Idle EXCEPT !.pc = "reading", !.since = clock]]
                      /\ told' = NoAnswer
    /\ UNCHANGED <<restOfFlags, current, past, made, faults, cached, setter, trail>>

GetCached(r) == Lookup(r, "flag", FlagTtl)
MetaGet(r) == Lookup(r, "meta", MetaTtl)

\* No row: the caller's default, or an error, and nothing is kept.
Fetch(r, kind) ==
    /\ about = kind
    /\ reader[r].pc = "reading"
    /\ reader' = [reader EXCEPT ![r] =
            IF current = 0 THEN Idle ELSE [@ EXCEPT !.pc = "storing", !.version = current]]
    /\ IF current = 0 THEN Answer(0, TRUE) ELSE told' = NoAnswer
    /\ UNCHANGED <<restOfFlags, current, past, made, faults, cached, setter, trail>>

FlagGet(r) == Fetch(r, "flag")
GetEndpointMetadata(r) == Fetch(r, "meta")

\* The time an entry is good for begins when it is stored.
Stored(r) == cached' = [version |-> reader[r].version, at |-> clock, late |-> reader[r].version # current]

Store(r) ==
    /\ about \in {"flag", "meta"}
    /\ reader[r].pc = "storing"
    /\ Stored(r) /\ Answer(reader[r].version, TRUE)
    /\ reader' = [reader EXCEPT ![r] = Idle]
    /\ UNCHANGED <<restOfFlags, current, past, made, faults, setter, trail>>

\* The database or the API does not answer, or not well; nothing is kept.
ReadFails(r) ==
    /\ reader[r].pc = "reading" /\ faults < MaxFaults
    /\ reader' = [reader EXCEPT ![r] = Idle]
    /\ faults' = faults + 1
    /\ UNCHANGED <<restOfFlags, current, past, made, cached, setter, trail>> /\ told' = NoAnswer

-----------------------------------------------------------------------------
(* The OCR gate: it answers at once, and whoever finds it stale starts a refresh. *)

ShouldOCR(r) ==
    /\ about = "gate"
    /\ reader[r].pc = "idle"
    /\ Answer(cached.version, Fresh(GateTtl))
    /\ reader' = IF Fresh(GateTtl) THEN reader
                 ELSE [reader EXCEPT ![r] = [Idle EXCEPT !.pc = "reading", !.since = clock]]
    /\ UNCHANGED <<restOfFlags, current, past, made, faults, cached, setter, trail>>

\* The API's answer is made, and then stored; the last to arrive stays.
ModuleState(r) ==
    /\ about = "gate"
    /\ reader[r].pc = "reading"
    /\ reader' = [reader EXCEPT ![r] = [@ EXCEPT !.pc = "storing", !.version = current]]
    /\ UNCHANGED <<restOfFlags, current, past, made, faults, cached, setter, trail>> /\ told' = NoAnswer

FetchAndStore(r) ==
    /\ about = "gate"
    /\ reader[r].pc = "storing"
    /\ Stored(r)
    /\ reader' = [reader EXCEPT ![r] = Idle]
    /\ UNCHANGED <<restOfFlags, current, past, made, faults, setter, trail>> /\ told' = NoAnswer

-----------------------------------------------------------------------------
(* Changes: of a flag by an administrator, of the others somewhere else. *)

Becomes(version) ==
    /\ current' = version
    /\ past' = [past EXCEPT ![clock] = @ \cup {version}]

Changes ==
    /\ about \in {"meta", "gate"}
    /\ made < MaxSets
    /\ made' = made + 1 /\ Becomes(made + 2)
    /\ UNCHANGED <<restOfFlags, faults, cached, reader, setter, trail>> /\ told' = NoAnswer

SetterStep(a, from, to, new) ==
    /\ setter[a].pc = from
    /\ setter' = [setter EXCEPT ![a] = [@ EXCEPT !.pc = to, !.new = new]]
    /\ UNCHANGED <<restOfFlags, reader>> /\ told' = NoAnswer

\* Set and Delete: what was there is read, but not kept from changing.
Set(a, new) ==
    /\ about = "flag" /\ made < MaxSets
    /\ SetterStep(a, "idle", "audit", new)
    /\ made' = made + 1
    /\ UNCHANGED <<current, past, faults, cached, trail>>

Audit(a) ==
    /\ SetterStep(a, "audit", "upsert", setter[a].new)
    /\ trail' = trail \cup {setter[a].new}
    /\ UNCHANGED <<current, past, made, faults, cached>>

Upsert(a) ==
    /\ SetterStep(a, "upsert", "invalidate", setter[a].new)
    /\ Becomes(setter[a].new)
    /\ UNCHANGED <<made, faults, cached, trail>>

Invalidate(a) ==
    /\ SetterStep(a, "invalidate", "idle", 0)
    /\ cached' = NoEntry
    /\ UNCHANGED <<current, past, made, faults, trail>>

\* The audit log or the table refuses: nothing changes, whatever the entry says.
SetFails(a) ==
    /\ setter[a].pc \in {"audit", "upsert"} /\ faults < MaxFaults
    /\ SetterStep(a, setter[a].pc, "idle", 0)
    /\ faults' = faults + 1
    /\ UNCHANGED <<current, past, made, cached, trail>>

Tick ==
    /\ clock < MaxClock
    /\ \A r \in Readers : reader[r].pc # "idle" => clock - reader[r].since < MaxRead
    /\ clock' = clock + 1
    /\ past' = [i \in 0..clock + 1 |-> IF i > clock THEN {current} ELSE past[i]]
    /\ UNCHANGED <<about, current, made, faults, cached, reader, setter, trail, docs, walk>> /\ told' = NoAnswer

-----------------------------------------------------------------------------
(* A search. *)

Absent == -1
\* validateCommon
Valid(q) ==
    /\ Absent \notin {q.from, q.to} => q.from <= q.to /\ q.to - q.from <= Cap
    /\ q.page \in 0..MaxPage
    /\ q.size \in {0} \cup Size..MaxSize

\* normaliseRange, normalisePage
NormaliseRange(q) ==
    LET to == IF q.to = Absent THEN clock ELSE q.to
    IN <<IF q.from = Absent THEN to - Lookback ELSE q.from, to>>
NormalisePage(q) ==
    [page |-> IF q.page < 1 THEN 1 ELSE q.page, size |-> IF q.size < 1 THEN Size ELSE q.size]

\* buildQuery: the caller's tenant, the window with both its ends, newest first;
\* documents of one instant in any order, and in another for the next page.
Matching(tenant, w) == {d \in docs : d.tenant = tenant /\ w[1] <= d.at /\ d.at <= w[2]}
Orders(S) == {place \in [S -> 1..Cardinality(S)] :
    \A d, e \in S : d # e => place[d] # place[e] /\ (d.at > e.at => place[d] < place[e])}

\* parseAuditResponse, parseEventsResponse: what does not decode is left out, but
\* counted; of typed text the top of the payload is blacked out.
Blacked(d) == [d EXCEPT !.typed = FALSE]
PageOf(all, place, p) ==
    [hits |-> {Blacked(d) : d \in {h \in all : /\ h.decodes
                                             /\ (p.page - 1) * p.size < place[h]
                                             /\ place[h] <= p.page * p.size}},
     total |-> Cardinality(all)]

\* doSearch and writeServiceError: no index is no document; OpenSearch refuses what
\* lies beyond its result window, which is no error the handler knows.
Status(client, valid, code) ==
    CASE client = "nil" -> 503
      [] client # "nil" /\ ~valid -> 400
      [] client # "nil" /\ valid /\ code \in {200, 404} -> 200
      [] client # "nil" /\ valid /\ code \in {0, 503, 504} -> 503
      [] OTHER -> 500

NoWalk == [q |-> [from |-> Absent, to |-> Absent, page |-> 0, size |-> 0], seen |-> {},
           start |-> {}, status |-> "none", lo |-> 0, hi |-> Absent]

DocArrives(d) ==
    /\ about = "search"
    /\ d \notin docs
    /\ docs' = docs \cup {d}
    /\ UNCHANGED <<about, clock, current, past, made, faults, cached, reader, setter, trail, walk>> /\ told' = NoAnswer

WalkStarts(from, to) ==
    /\ about = "search"
    /\ walk.status = "none"
    /\ Valid([from |-> from, to |-> to, page |-> 1, size |-> Size])
    /\ walk' = [NoWalk EXCEPT !.q = [from |-> from, to |-> to, page |-> 1, size |-> Size],
                              !.status = "on", !.start = docs]
    /\ UNCHANGED <<about, clock, current, past, made, faults, cached, reader, setter, trail, docs>> /\ told' = NoAnswer

\* SearchAudit, SearchEvents: one page; the caller goes on while the total says more.
NextPage ==
    /\ walk.status = "on"
    /\ LET w == NormaliseRange(walk.q)
           p == NormalisePage(walk.q)
           all == Matching("t1", w)
           code == IF p.page * p.size > ResultWindow THEN 400 ELSE 200
       IN \E place \in Orders(all) :
            walk' = IF Status("up", Valid(walk.q), code) # 200 THEN [walk EXCEPT !.status = "cut"]
                    ELSE [q |-> [walk.q EXCEPT !.page = p.page + 1],
                          seen |-> walk.seen \cup PageOf(all, place, p).hits,
                          start |-> walk.start,
                          status |-> IF p.page * p.size >= PageOf(all, place, p).total THEN "done" ELSE "on",
                          lo |-> w[1], hi |-> IF walk.hi = Absent THEN w[2] ELSE walk.hi]
    /\ UNCHANGED <<about, clock, current, past, made, faults, cached, reader, setter, trail, docs>> /\ told' = NoAnswer

-----------------------------------------------------------------------------

LookupsInit ==
    /\ about \in {"flag", "meta", "gate", "search"}
    /\ clock = 0 /\ current = 1 /\ past = [i \in 0..0 |-> {1}]
    /\ made = 0 /\ faults = 0
    /\ cached = NoEntry
    /\ reader = [r \in Readers |-> Idle]
    /\ told = NoAnswer
    /\ setter = [a \in Setters |-> [pc |-> "idle", new |-> 0]] /\ trail = {1}
    /\ docs = {} /\ walk = NoWalk

LookupsNext ==
    \/ \E r \in Readers :
          \/ GetCached(r) \/ FlagGet(r) \/ MetaGet(r) \/ GetEndpointMetadata(r) \/ Store(r)
          \/ ReadFails(r) \/ ShouldOCR(r) \/ ModuleState(r) \/ FetchAndStore(r)
    \/ Changes \/ Tick
    \/ \E a \in Setters :
          \/ \E new \in {0, made + 2} : Set(a, new)
          \/ Audit(a) \/ Upsert(a) \/ Invalidate(a) \/ SetFails(a)
    \/ \E d \in Docs : DocArrives(d)
    \/ \E from \in {Absent, 0, 1}, to \in {Absent, 2} : WalkStarts(from, to)
    \/ NextPage

LookupsSpec == LookupsInit /\ [][LookupsNext]_lookupVars

-----------------------------------------------------------------------------
(* Properties *)

Ttl == CASE about = "flag" -> FlagTtl [] about = "meta" -> MetaTtl [] OTHER -> GateTtl

\* Raising a rollout turns nobody off, and a flag switched off is off for everybody.
FlagsTrue == \A f \in Flags, bucket \in 0..(Buckets - 1) :
    /\ f.rollout < Buckets /\ Evaluate(f, bucket) => Evaluate([f EXCEPT !.rollout = @ + 1], bucket)
    /\ Evaluate(f, bucket) => f.enabled
    /\ ~f.default /\ f.rollout = 0 /\ TRUE \notin Override1(f) => ~Evaluate(f, bucket)

\* An answer taken for fresh was true no longer ago than the entry's time and the
\* slowest read, whatever readers, refreshes and changes there were at once.
NeverTooOld == told.fresh =>
    \E d \in 0..told.at : told.at - d < Ttl + MaxRead /\ told.version \in past[d]

\* What a flag became was in the audit log before; and an entry that is not what the
\* flag is was read before the change, or is about to be dropped.
ChangesSeen == about = "flag" =>
    /\ \A d \in DOMAIN past : past[d] \subseteq trail \cup {1}
    /\ cached # NoEntry /\ cached.version # current =>
          cached.late \/ \E a \in Setters : setter[a].pc = "invalidate"

\* A walk through the pages that came to its end has seen all of the tenant's that was
\* there when it began and in the window of the first page and of the last, but for what
\* shares its instant with another, and nothing of anybody else's.
Alone(d) == \A e \in docs : e.tenant = d.tenant /\ e.at = d.at => e = d
WalkTrue ==
    /\ walk.status = "done" =>
          \A d \in walk.start :
              d.tenant = "t1" /\ d.decodes /\ walk.lo <= d.at /\ d.at <= walk.hi /\ Alone(d)
                => Blacked(d) \in walk.seen
    /\ \A d \in walk.seen : d.tenant = "t1" /\ ~d.typed

\* A search that is answered goes back no further than the cap, where it names both
\* ends or no beginning.
SearchTrue == \A from, to \in {Absent} \cup 0..(Cap + 2), page \in -1..(MaxPage + 1), size \in 0..(MaxSize + 1) :
    LET q == [from |-> from, to |-> to, page |-> page, size |-> size] IN
    Valid(q) =>
        /\ from = Absent \/ to # Absent => NormaliseRange(q)[2] - NormaliseRange(q)[1] <= Cap
        /\ NormalisePage(q).page \in 1..MaxPage /\ NormalisePage(q).size \in Size..MaxSize

LookupsTrue ==
    /\ NeverTooOld /\ ChangesSeen /\ WalkTrue
    /\ clock = 0 /\ about = "search" /\ docs = {} => FlagsTrue /\ SearchTrue
=============================================================================
