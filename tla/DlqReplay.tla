------------------------------ MODULE DlqReplay ------------------------------
(***************************************************************************)
(* Dead letters and their replay.  The enricher parks a message that no    *)
(* decoder takes in the stream events_dlq; an operator walks the stream    *)
(* page by page, and replays an entry: it is published again, and then     *)
(* deleted if that was asked for.  A replay may be asked for before the    *)
(* decoder was repaired, twice at once, and any of its calls may fail or   *)
(* lose its answer.                                                        *)
(*                                                                         *)
(* The tenant of an entry is taken from the decoded batch, so an entry of  *)
(* a message that was not decoded has none.                                *)
(*                                                                         *)
(* Bounds: MaxSeq entries are parked; MaxCalls replays and page walks are  *)
(* started.  One fetch of a page is one step.                              *)
(***************************************************************************)
EXTENDS Integers, FiniteSets

CONSTANTS Messages, Runs, MaxScan, PageSize, MaxSeq, MaxCalls

VARIABLES
  dlq,      \* events_dlq: entry by sequence number
  last,     \* the last sequence number
  raw,      \* events_raw: how often each message waits there
  good,     \* messages decoded
  repaired, \* the decoder takes them now
  lost,     \* messages the stream events_dlq did not take, or let go of age
  log,      \* audit entries of replays
  sent,     \* the replays that published
  run,      \* replays under way
  walk,     \* one operator's walk over the pages
  calls

vars == <<dlq, last, raw, good, repaired, lost, log, sent, run, walk, calls>>
stream == <<dlq, last, lost>>
enricher == <<good, repaired>>

Seq == 1..MaxSeq
Tenant == "acme"  \* of the operators
Entries == {s \in Seq : dlq[s].msg # "none"}
NoEntry == [msg |-> "none", tenant |-> "none"]
Idle == [pc |-> "idle", id |-> 0, seq |-> 0, msg |-> "none", all |-> FALSE, del |-> FALSE]
NoWalk == [pc |-> "idle", cursor |-> 0, seen |-> {}, must |-> {}, whole |-> TRUE, twice |-> FALSE]

TypeOK ==
  /\ dlq \in [Seq -> [msg : Messages \cup {"none"}, tenant : {"none", "unknown"}]] /\ last \in 0..MaxSeq
  /\ raw \in [Messages -> 0..(MaxCalls + 1)]
  /\ good \subseteq Messages /\ lost \subseteq Messages /\ repaired \in BOOLEAN
  /\ log \subseteq [id : 1..MaxCalls, seq : Seq] /\ sent \subseteq [id : 1..MaxCalls, seq : Seq, all : BOOLEAN]
  /\ \A w \in Runs : run[w].pc \in {"idle", "audit", "get", "publish", "delete"}
  /\ walk.pc \in {"idle", "page", "end"} /\ walk.cursor \in 0..MaxSeq /\ calls \in 0..MaxCalls

Init ==
  /\ dlq = [s \in Seq |-> NoEntry] /\ last = 0
  /\ raw = [m \in Messages |-> 1] /\ good = {} /\ repaired = FALSE /\ lost = {}
  /\ log = {} /\ sent = {} /\ run = [w \in Runs |-> Idle] /\ walk = NoWalk /\ calls = 0

Goto(w, pc) == run' = [run EXCEPT ![w].pc = pc]
Done(w) == run' = [run EXCEPT ![w] = Idle]
-----------------------------------------------------------------------------
\* The enricher takes a message off events_raw.
Dispatch(m) ==
  /\ raw[m] > 0 /\ repaired
  /\ raw' = [raw EXCEPT ![m] = @ - 1]
  /\ good' = good \cup {m}
  /\ UNCHANGED <<stream, repaired, log, sent, run, walk, calls>>

BuildDLQMessage(m, tenant) == [msg |-> m, tenant |-> tenant]
Park(m) ==
  /\ last < MaxSeq
  /\ last' = last + 1 /\ dlq' = [dlq EXCEPT ![last + 1] = BuildDLQMessage(m, "unknown")] /\ lost' = lost
Lose(m) == lost' = lost \cup {m} /\ UNCHANGED <<dlq, last>>

\* One it cannot decode is parked, and acked whether it was parked or not.
SendToDLQ(m) ==
  /\ raw[m] > 0 /\ ~repaired
  /\ raw' = [raw EXCEPT ![m] = @ - 1]
  /\ Park(m) \/ Lose(m)
  /\ UNCHANGED <<enricher, log, sent, run, walk, calls>>

\* A deployment brings a decoder that takes the messages.
Deploy ==
  /\ ~repaired /\ repaired' = TRUE
  /\ UNCHANGED <<stream, raw, good, log, sent, run, walk, calls>>

\* The stream lets its oldest entry go after seven days, or at ten gigabytes.
AgeOut(s) ==
  /\ s \in Entries /\ \A u \in Entries : s <= u
  /\ dlq' = [dlq EXCEPT ![s] = NoEntry] /\ lost' = lost \cup {dlq[s].msg}
  /\ walk' = [walk EXCEPT !.must = @ \ {s}]
  /\ UNCHANGED <<last, raw, enricher, log, sent, run, calls>>
-----------------------------------------------------------------------------
\* A replay of one's own tenant is asked for, or of all tenants by a DPO.
Asked(w, s, all, del) ==
  run' = [run EXCEPT ![w] = [Idle EXCEPT !.pc = "audit", !.id = calls + 1, !.seq = s, !.all = all, !.del = del]]
Replay(w, s) ==
  /\ s <= last /\ calls < MaxCalls /\ run[w].pc = "idle" /\ \A v \in Runs : v < w => run[v].pc # "idle"
  /\ calls' = calls + 1
  /\ \E all, del \in BOOLEAN : Asked(w, s, all, del)
  /\ UNCHANGED <<stream, raw, enricher, log, sent, walk>>

AuditReplay(w) ==
  /\ run[w].pc = "audit"
  /\ log' = log \cup {[id |-> run[w].id, seq |-> run[w].seq]}
  /\ Goto(w, "get")
  /\ UNCHANGED <<stream, raw, enricher, sent, walk, calls>>

\* The entries a scan looks at, from the oldest on.
Scanned == {s \in Entries : Cardinality({u \in Entries : u < s}) < MaxScan}

\* The entry is looked for by its number.
Found(w) == run[w].seq \in Scanned
Take(w) == run' = [run EXCEPT ![w].pc = "publish", ![w].msg = dlq[run[w].seq].msg]

\* It is its tenant's alone, but for who may see all.
GetByID(w) ==
  /\ run[w].pc = "get" /\ Found(w) /\ (run[w].all \/ dlq[run[w].seq].tenant = Tenant)
  /\ Take(w)
  /\ UNCHANGED <<stream, raw, enricher, log, sent, walk, calls>>

\* Mutant: the entry is deleted even when it was not published.
PublishAnyway(w) ==
  /\ run[w].pc = "publish"
  /\ raw' \in {raw, [raw EXCEPT ![run[w].msg] = @ + 1]}
  /\ sent' = sent \cup {[id |-> run[w].id, seq |-> run[w].seq, all |-> run[w].all]}
  /\ IF run[w].del THEN Goto(w, "delete") ELSE Done(w)
  /\ UNCHANGED <<stream, enricher, log, walk, calls>>

\* The payload is published again, with its headers but the retry count.
PublishRaw(w) ==
  /\ raw' = [raw EXCEPT ![run[w].msg] = @ + 1]
  /\ sent' = sent \cup {[id |-> run[w].id, seq |-> run[w].seq, all |-> run[w].all]}
Publish(w) ==
  /\ run[w].pc = "publish" /\ PublishRaw(w)
  /\ \/ IF run[w].del THEN Goto(w, "delete") ELSE Done(w)
     \/ Done(w)                                    \* published, and the answer lost
  /\ UNCHANGED <<stream, enricher, log, walk, calls>>

\* The entry is deleted by its number; a failure is a note in the answer.
DeleteMsg(s) == dlq' = [dlq EXCEPT ![s] = NoEntry] /\ walk' = [walk EXCEPT !.must = @ \ {s}]
Delete(w) ==
  /\ run[w].pc = "delete" /\ DeleteMsg(run[w].seq)
  /\ Done(w)
  /\ UNCHANGED <<last, lost, raw, enricher, log, sent, calls>>

Fail(w) ==
  /\ run[w].pc # "idle" /\ Done(w)
  /\ UNCHANGED <<stream, raw, enricher, log, sent, walk, calls>>
-----------------------------------------------------------------------------
\* The DPO starts to walk the pages.
ListDLQ ==
  /\ walk.pc # "page" /\ calls < MaxCalls
  /\ calls' = calls + 1
  /\ walk' = [NoWalk EXCEPT !.pc = "page", !.must = Entries]
  /\ UNCHANGED <<stream, raw, enricher, log, sent, run>>

\* Those after the cursor, as many as fit; what the cursor passes over counts as scanned.
After(cursor) == {s \in Scanned : s > cursor}
Page(cursor) == {s \in After(cursor) : Cardinality({u \in After(cursor) : u < s}) < PageSize}

Turn(cursor, page) ==
  walk' = [walk EXCEPT
    !.seen = @ \cup page,
    !.twice = @ \/ walk.seen \cap page # {},
    !.whole = @ /\ Cardinality(Entries) <= MaxScan,
    !.cursor = cursor,
    !.pc = IF page = {} THEN "end" ELSE "page"]

\* One page: the token is the number of its last entry, nothing when it is empty.
NextPage ==
  /\ walk.pc = "page"
  /\ LET page == Page(walk.cursor)
     IN Turn(IF page = {} THEN 0 ELSE CHOOSE s \in page : \A u \in page : u <= s, page)
  /\ UNCHANGED <<stream, raw, enricher, log, sent, run, calls>>
-----------------------------------------------------------------------------
Next ==
  \/ \E m \in Messages : Dispatch(m) \/ SendToDLQ(m)
  \/ Deploy
  \/ \E s \in Seq : AgeOut(s)
  \/ \E w \in Runs : \/ \E s \in Seq : Replay(w, s)
                     \/ AuditReplay(w) \/ GetByID(w) \/ Publish(w) \/ Delete(w) \/ Fail(w)
  \/ ListDLQ \/ NextPage

Spec == Init /\ [][Next]_vars
-----------------------------------------------------------------------------
(***************************************************************************)
(* Properties.                                                             *)
(***************************************************************************)
\* A message is never gone: it waits, is parked or was decoded, unless the
\* dead letter stream did not take it or let it go; a replay loses none,
\* however it ends and whatever runs beside it.
Kept == \A m \in Messages :
  m \notin good \cup lost => raw[m] > 0 \/ \E s \in Entries : dlq[s].msg = m

\* What was published was logged before; and as no entry has a tenant, it was
\* asked for by who may see all.
ReplayLogged == \A p \in sent : p.all /\ [id |-> p.id, seq |-> p.seq] \in log

\* A walk shows every entry that was there all the while, and none twice,
\* with entries parked, replayed, deleted and let go between its pages, as
\* long as a scan reaches the end of the stream.
WalkTrue == ~walk.twice /\ (walk.pc = "end" /\ walk.whole => walk.must \subseteq walk.seen)

DlqTrue == TypeOK /\ Kept /\ ReplayLogged /\ WalkTrue

\* "operators who need more can page": a walk shows them all, however many there are.
PagesReachAll == walk.pc = "end" => walk.must \subseteq walk.seen
=============================================================================
