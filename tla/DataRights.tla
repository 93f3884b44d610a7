----------------------------- MODULE DataRights -----------------------------
(***************************************************************************)
(* Data subject requests and what they meet: the nightly SLA job, legal    *)
(* holds, the erasure over four stores, the evidence item of an answer and *)
(* the half-yearly destruction report.                                     *)
(*                                                                         *)
(* A handler is a run: it appends its audit entry, then writes its row,    *)
(* and any of its steps may fail, which ends it there.  Two runs may be    *)
(* under way at once, on the same request too.                             *)
(*                                                                         *)
(* Bounds: MaxOps handlers are started; a request's deadline is counted in *)
(* days left and is not followed below zero.  Events and blobs that arrive *)
(* after an erasure are not modelled.                                      *)
(***************************************************************************)
EXTENDS Integers, Sequences, FiniteSets

CONSTANTS Requests, Subjects, Holds, Runs,
          subject,      \* the person of each request
          covers,       \* the person each hold is about
          Erase,        \* the requests of type erase
          Sla,          \* days a request is given, and days an extension adds
          AtRisk,       \* days left at which a request is at risk
          MaxOps,       \* bound: handlers started
          AckHasUser    \* silence_acknowledgements has a column user_id

VARIABLES
  req,      \* rows of dsr_requests
  hold,     \* rows of legal_holds
  store,    \* what each store still has of a person
  log,      \* the audit entries, in order
  evid,     \* rows of evidence_items
  report,   \* the period's PDF in MinIO and its row
  run,      \* the handlers under way
  job,      \* the SLA job
  ops

vars == <<req, hold, store, log, evid, report, run, job, ops>>
rows == <<req, hold, store, report>>

Fulfillable == {"open", "at_risk", "overdue"}
Closed == {"resolved", "rejected"}
Artifacts == {"none", "letter", "zip", "erasure-report"}
Stores == {"blobs", "events", "row", "key"}
Ops == {"respond", "reject", "extend", "export", "erase", "place", "release", "report"}
Targets == Requests \cup Holds \cup {"period"}

NoRequest == [state |-> "none", left |-> 0, art |-> "none", ref |-> 0]
Idle == [pc |-> "idle", op |-> "none", of |-> "period", id |-> 0, ref |-> 0, saw |-> {}]

TypeOK ==
  /\ req \in [Requests -> [state : Fulfillable \cup Closed \cup {"none"}, left : Nat,
                           art : Artifacts, ref : Nat]]
  /\ hold \in [Holds -> {"none", "active", "released"}]
  /\ store \in [Subjects -> SUBSET Stores]
  /\ \A i \in DOMAIN log : log[i] \in [op : Ops \cup {"submit", "exported", "erased"}, of : Targets, art : Artifacts]
  /\ evid \subseteq [of : Requests, art : Artifacts, ref : DOMAIN log]
  /\ report \in [pdf : 0..MaxOps, row : 0..MaxOps, listed : SUBSET Requests]
  /\ \A w \in Runs : run[w].id \in 0..MaxOps /\ run[w].op \in Ops \cup {"none"} /\ run[w].of \in Targets
  /\ job \in {"idle", "risk", "late"}
  /\ ops \in 0..MaxOps

Init ==
  /\ req = [r \in Requests |-> NoRequest]
  /\ hold = [h \in Holds |-> "none"]
  /\ store = [u \in Subjects |-> Stores]
  /\ log = <<>> /\ evid = {}
  /\ report = [pdf |-> 0, row |-> 0, listed |-> {}]
  /\ run = [w \in Runs |-> Idle]
  /\ job = "idle" /\ ops = 0

Entry(op, of, art) == [op |-> op, of |-> of, art |-> art]
Artifact(op) == CASE op = "respond" -> "letter" [] op = "export" -> "zip" [] op = "erase" -> "erasure-report"
Goto(w, pc) == run' = [run EXCEPT ![w].pc = pc]
At(w, op, pc) == run[w].op \in op /\ run[w].pc = pc
Person(w) == subject[run[w].of]
Active(u) == {h \in Holds : hold[h] = "active" /\ covers[h] = u}

-----------------------------------------------------------------------------
\* Submit: the entry, then the row; the row's INSERT may fail.
Submit(r) ==
  /\ ops < MaxOps /\ req[r].state = "none"
  /\ log' = Append(log, Entry("submit", r, "none"))
  /\ req' \in {req, [req EXCEPT ![r] = [NoRequest EXCEPT !.state = "open", !.left = Sla]]}
  /\ ops' = ops + 1
  /\ UNCHANGED <<hold, store, evid, report, run, job>>

\* A handler is called; a fulfilment first reads the row and wants it unanswered.
Call(w, op, of, pc) ==
  /\ ops < MaxOps /\ run[w].pc = "idle"
  /\ \A v \in Runs : v < w => run[v].pc # "idle"     \* runs are alike: the first free one
  /\ ops' = ops + 1
  /\ run' = [run EXCEPT ![w] = [Idle EXCEPT !.pc = pc, !.op = op, !.of = of, !.id = ops + 1]]
  /\ UNCHANGED <<rows, log, evid, job>>

Answer(w, r) == req[r].state # "none" /\ \E op \in {"respond", "reject", "extend"} : Call(w, op, r, "audit")
FulfillAccessRequest(w, r) == req[r].state \in Fulfillable /\ Call(w, "export", r, "collect")
FulfillErasureRequest(w, r) == req[r].state \in Fulfillable /\ Call(w, "erase", r, "holds")
Place(w, h) == hold[h] = "none" /\ Call(w, "place", h, "audit")
Release(w, h) == hold[h] # "none" /\ Call(w, "release", h, "audit")
Generate(w) == Call(w, "report", "period", "manifest")

\* Any step may return an error to the caller: nothing more is done.
Fail(w) ==
  /\ run[w].pc # "idle"
  /\ run' = [run EXCEPT ![w] = Idle]
  /\ UNCHANGED <<rows, log, evid, job, ops>>

\* The audit entry that comes before a write.
AuditFirst(w) ==
  /\ run[w].pc = "audit"
  /\ LET op == IF run[w].op \in {"export", "erase"} THEN "respond" ELSE run[w].op
         art == IF op = "respond" THEN Artifact(run[w].op) ELSE "none"
     IN log' = Append(log, Entry(op, run[w].of, art))
  /\ run' = [run EXCEPT ![w].pc = "write", ![w].ref = Len(log')]
  /\ UNCHANGED <<rows, evid, job, ops>>

\* Mutant: the row is made to name the newest entry of the log.
RespondWriteLast(w) ==
  /\ At(w, {"respond", "export", "erase"}, "write")
  /\ req' = [req EXCEPT ![run[w].of].state = "resolved", ![run[w].of].art = Artifact(run[w].op),
                        ![run[w].of].ref = Len(log)]
  /\ Goto(w, "evidence")
  /\ UNCHANGED <<hold, store, report, log, evid, job, ops>>

\* Respond and Reject do not ask for the state the row has by then.
RespondWrite(w) ==
  /\ At(w, {"respond", "export", "erase"}, "write")
  /\ req' = [req EXCEPT ![run[w].of].state = "resolved", ![run[w].of].art = Artifact(run[w].op),
                        ![run[w].of].ref = run[w].ref]
  /\ Goto(w, "evidence")
  /\ UNCHANGED <<hold, store, report, log, evid, job, ops>>

RejectWrite(w) ==
  /\ At(w, {"reject"}, "write")
  /\ req' = [req EXCEPT ![run[w].of].state = "rejected"]
  /\ run' = [run EXCEPT ![w] = Idle]
  /\ UNCHANGED <<hold, store, report, log, evid, job, ops>>

\* Extend writes only a request that is open or at risk, and leaves its state.
ExtendWrite(w) ==
  /\ At(w, {"extend"}, "write")
  /\ req' = IF req[run[w].of].state \in {"open", "at_risk"}
            THEN [req EXCEPT ![run[w].of].left = @ + Sla] ELSE req
  /\ run' = [run EXCEPT ![w] = Idle]
  /\ UNCHANGED <<hold, store, report, log, evid, job, ops>>

PlaceWrite(w) ==
  /\ At(w, {"place"}, "write")
  /\ hold' = [hold EXCEPT ![run[w].of] = "active"]
  /\ run' = [run EXCEPT ![w] = Idle]
  /\ UNCHANGED <<req, store, report, log, evid, job, ops>>

ReleaseWrite(w) ==
  /\ At(w, {"release"}, "write")
  /\ hold' = IF hold[run[w].of] = "active" THEN [hold EXCEPT ![run[w].of] = "released"] ELSE hold
  /\ run' = [run EXCEPT ![w] = Idle]
  /\ UNCHANGED <<req, store, report, log, evid, job, ops>>

Insert(w) == evid \cup {[of |-> run[w].of, art |-> Artifact(run[w].op), ref |-> run[w].ref]}

\* The evidence item of the answer; when it cannot be recorded that is only logged.
EmitRespondEvidence(w) ==
  /\ run[w].pc = "evidence"
  /\ evid' \in {evid, Insert(w)}
  /\ run' = [run EXCEPT ![w] = Idle]
  /\ UNCHANGED <<rows, log, job, ops>>
-----------------------------------------------------------------------------
\* The access export: collect, upload, write the details; its own entry may be
\* lost.  The answer follows.
ExportZip(w) ==
  /\ At(w, {"export"}, "collect")
  /\ log' \in {log, Append(log, Entry("exported", run[w].of, "zip"))}
  /\ Goto(w, "audit")
  /\ UNCHANGED <<rows, evid, job, ops>>

\* Mutant: a lookup that answers with holds does not stop the run.
LookUpHoldsOnly(w) ==
  /\ At(w, {"erase"}, "holds")
  /\ run' = [run EXCEPT ![w].pc = "blobs", ![w].saw = {h \in Holds : hold[h] = "active"}]
  /\ UNCHANGED <<rows, log, evid, job, ops>>

\* The erasure, in the code's order: holds, blobs, events, rows, key.
LookUpHolds(w) ==
  /\ At(w, {"erase"}, "holds")
  /\ Active(Person(w)) = {}
  /\ run' = [run EXCEPT ![w].pc = "blobs", ![w].saw = {h \in Holds : hold[h] = "active"}]
  /\ UNCHANGED <<rows, log, evid, job, ops>>

Erased(w, what, pc) ==
  /\ store' = [store EXCEPT ![Person(w)] = @ \ what]
  /\ Goto(w, pc)
  /\ UNCHANGED <<req, hold, report, log, evid, job, ops>>

\* A prefix that cannot be listed is skipped: its blobs stay.
RemoveObjects(w) == At(w, {"erase"}, "blobs") /\ \E what \in SUBSET {"blobs"} : Erased(w, what, "events")
DeleteSubjectEvents(w) == At(w, {"erase"}, "events") /\ Erased(w, {"events"}, "rows")

\* The transaction: a statement that fails, even one whose error is dropped,
\* aborts it, and the user's row is not changed.
EraseRows(w) == At(w, {"erase"}, "rows") /\ AckHasUser /\ Erased(w, {"row"}, "key")
RowsAborted(w) == At(w, {"erase"}, "rows") /\ Erased(w, {}, "aborted")

\* The key is destroyed; a lost answer is an error although it was.
DestroyTransitKey(w) ==
  /\ At(w, {"erase"}, "key")
  /\ \/ Erased(w, {"key"}, "persist")
     \/ Erased(w, {"key"}, "aborted")

\* The report is written; the entry of the erasure may be lost.
PersistReport(w) ==
  /\ At(w, {"erase"}, "persist")
  /\ log' \in {log, Append(log, Entry("erased", run[w].of, "none"))}
  /\ Goto(w, "audit")
  /\ UNCHANGED <<rows, evid, job, ops>>
-----------------------------------------------------------------------------
\* The destruction report: the manifest is read, the PDF put under the period's
\* name, and the row inserted, which is refused when the period has one.
BuildManifest(w) ==
  /\ At(w, {"report"}, "manifest")
  /\ run' = [run EXCEPT ![w].pc = "put", ![w].saw = {r \in Erase : req[r].state = "resolved"}]
  /\ UNCHANGED <<rows, log, evid, job, ops>>

PutPdf(w) ==
  /\ At(w, {"report"}, "put")
  /\ report' = [report EXCEPT !.pdf = run[w].id]
  /\ Goto(w, "insert")
  /\ UNCHANGED <<req, hold, store, log, evid, job, ops>>

StoreReport(w) ==
  /\ At(w, {"report"}, "insert")
  /\ report' = IF report.row = 0 THEN [report EXCEPT !.row = run[w].id, !.listed = run[w].saw] ELSE report
  /\ log' \in IF report.row = 0 THEN {log, Append(log, Entry("report", "period", "none"))} ELSE {log}
  /\ run' = [run EXCEPT ![w] = Idle]
  /\ UNCHANGED <<req, hold, store, evid, job, ops>>
-----------------------------------------------------------------------------
\* A day passes.  At midnight the job starts, unless the process is down.
PassDay == req' = [r \in Requests |-> [req[r] EXCEPT !.left = IF @ = 0 THEN 0 ELSE @ - 1]]
Midnight ==
  /\ job = "idle" /\ PassDay /\ job' = "risk"
  /\ UNCHANGED <<hold, store, report, log, evid, run, ops>>
MidnightDown ==
  /\ job = "idle" /\ PassDay
  /\ UNCHANGED <<hold, store, report, log, evid, run, job, ops>>

Mark(from, days, to) ==
  [r \in Requests |-> IF req[r].state \in from /\ req[r].left <= days
                      THEN [req[r] EXCEPT !.state = to] ELSE req[r]]

TickAtRisk ==
  /\ job = "risk"
  /\ req' = Mark({"open"}, AtRisk, "at_risk")
  /\ job' = "late"
  /\ UNCHANGED <<hold, store, report, log, evid, run, ops>>

\* Mutant: the second update is lost.
TickOverdueNever ==
  /\ job = "late"
  /\ job' = "idle"
  /\ UNCHANGED <<rows, log, evid, run, ops>>

TickOverdue ==
  /\ job = "late"
  /\ req' = Mark({"open", "at_risk"}, 0, "overdue")
  /\ job' = "idle"
  /\ UNCHANGED <<hold, store, report, log, evid, run, ops>>

TickFails ==
  /\ job # "idle" /\ job' = "idle"
  /\ UNCHANGED <<rows, log, evid, run, ops>>
-----------------------------------------------------------------------------
Handler(w) ==
  \/ \E r \in Requests : Answer(w, r) \/ FulfillAccessRequest(w, r) \/ FulfillErasureRequest(w, r)
  \/ \E h \in Holds : Place(w, h) \/ Release(w, h)
  \/ Generate(w)
  \/ AuditFirst(w) \/ RespondWrite(w) \/ RejectWrite(w) \/ ExtendWrite(w) \/ PlaceWrite(w) \/ ReleaseWrite(w)
  \/ EmitRespondEvidence(w) \/ ExportZip(w)
  \/ LookUpHolds(w) \/ RemoveObjects(w) \/ DeleteSubjectEvents(w) \/ EraseRows(w) \/ RowsAborted(w)
  \/ DestroyTransitKey(w) \/ PersistReport(w)
  \/ BuildManifest(w) \/ PutPdf(w) \/ StoreReport(w)
  \/ Fail(w)

Next ==
  \/ \E r \in Requests : Submit(r)
  \/ \E w \in Runs : Handler(w)
  \/ Midnight \/ MidnightDown \/ TickAtRisk \/ TickOverdue \/ TickFails

\* The process is up at some midnights, and then some of its updates succeed.
Fairness == WF_vars(Midnight) /\ SF_vars(TickAtRisk) /\ SF_vars(TickOverdue)

Spec == Init /\ [][Next]_vars /\ Fairness
-----------------------------------------------------------------------------
(***************************************************************************)
(* Properties.                                                             *)
(***************************************************************************)
\* A resolved request names the entry of the very answer its row shows,
\* whatever answers were under way together (service.go, auditAndRespond).
AnswerLogged == \A r \in Requests : req[r].state = "resolved" =>
  req[r].ref \in DOMAIN log /\ log[req[r].ref] = Entry("respond", r, req[r].art)

\* An evidence item cites the entry of the answer it is about.
EvidenceCites == \A e \in evid : log[e.ref] = Entry("respond", e.of, e.art)

\* A person's key goes last: it is never destroyed while the events or the
\* row are kept, and no request shows an erasure report before it is.
KeyLast ==
  /\ \A u \in Subjects : "key" \notin store[u] => store[u] \cap {"events", "row"} = {}
  /\ \A r \in Requests : req[r].art = "erasure-report" => "key" \notin store[subject[r]]

\* An overdue request has no day left: no extension gives it one (store.go, Extend).
OverdueIsLate == \A r \in Requests : req[r].state = "overdue" => req[r].left = 0

\* What the requests, the log, the evidence and the stores say of each other.
RightsTrue == TypeOK /\ AnswerLogged /\ EvidenceCites /\ KeyLast /\ OverdueIsLate

\* Nothing of a person is destroyed by an erasure that found a hold on them:
\* one that is active by then was placed after the erasure looked.
HoldsRespected ==
  [][\A u \in Subjects : store'[u] # store[u] =>
       \E w \in Runs : run[w].op = "erase" /\ Person(w) = u /\ Active(u) \cap run[w].saw = {}]_vars

\* A closed request is never taken up again, by the nightly job or a late extension.
ClosedStays == [][\A r \in Requests : req[r].state \in Closed => req'[r].state \in Closed]_vars

\* What no step may do: pass over a hold, take up a closed request.
RightsKept == HoldsRespected /\ ClosedStays

\* A request that nobody answers becomes overdue, through missed nights and failed updates.
Decided == \A r \in Requests : []<>(req[r].state \notin {"open", "at_risk"})

\* The comment of the first statement of the erasure's transaction: "Non-fatal".
NonFatal == \A w \in Runs : run[w].pc # "aborted"

\* The signature stored with the period's report is that of the period's PDF.
SignatureHolds == report.row # 0 => report.pdf = report.row
=============================================================================
