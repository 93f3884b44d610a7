----------------------------- MODULE Compliance -----------------------------
(***************************************************************************)
(* The compliance and settings pages of one tenant: its two signed papers, *)
(* the disclosure notice, and the registration, certificate mode and       *)
(* retention, which are columns of its row; one person's consent of one    *)
(* kind; and that person's acknowledgement of one version of the notice.   *)
(* Each mutation logs, then stores the document where there is one, then   *)
(* writes its row: three systems, no transaction, and any step may fail.   *)
(*                                                                         *)
(* A document is the number of the request that brings it, an empty, large *)
(* or other one is refused at once.  Left out: signatories, dates and      *)
(* wording, which travel with the hash.                                    *)
(*                                                                         *)
(* Bounds: MaxCalls calls in all, as many at once as there are Callers,    *)
(* numbers of which the lowest that is free takes the next call.           *)
(***************************************************************************)
EXTENDS Integers

CONSTANTS Callers, Columns, MaxCalls

VARIABLES
  docs,      \* objects of the document bucket: key and bytes
  paper,     \* dpa_* and dpia_* columns: document key and hash
  notice,    \* aydinlatma_version
  column,    \* verbis_*, ca_mode and retention_policy: the call whose values stand
  consent,   \* the user_consent row; key 0: no row
  ack,       \* the first_login_acknowledgements row: its entry; 0: no row
  log,       \* the audit entries, each named by its request
  call,      \* what each caller's request is doing
  told,      \* answers without an error
  calls      \* requests so far; their numbers stand for fresh ULIDs

stored == <<docs, paper, notice, column, consent, ack>>
vars == <<stored, log, call, told, calls>>

Papers == {"dpa", "dpia"}
NoCall == [pc |-> "idle", op |-> "none", id |-> 0, seen |-> 0]
\* The hash tells documents apart.
Sha(b) == <<"sha256", b>>

TypeOK ==
  /\ \A d \in docs : d.key \in 1..calls /\ d.bytes \in 1..calls
  /\ \A p \in Papers : paper[p].key \in 0..calls
  /\ notice \in Nat /\ column \in [Columns -> 0..calls] /\ ack \in 0..calls
  /\ consent.key \in 0..calls /\ consent.revoked \in BOOLEAN
  /\ \A c \in Callers : call[c].pc \in {"idle", "read", "get", "audit", "put", "write"}

Init ==
  /\ docs = {} /\ paper = [p \in Papers |-> [key |-> 0, sha |-> <<>>]]
  /\ notice = 0 /\ column = [x \in Columns |-> 0] /\ ack = 0
  /\ consent = [key |-> 0, sha |-> <<>>, revoked |-> FALSE]
  /\ log = {} /\ told = {} /\ calls = 0
  /\ call = [c \in Callers |-> NoCall]
-----------------------------------------------------------------------------
Begin(c, op, pc) ==
  /\ call[c].pc = "idle" /\ calls < MaxCalls /\ \A d \in Callers : d < c => call[d].pc # "idle"
  /\ calls' = calls + 1
  /\ call' = [call EXCEPT ![c] = [NoCall EXCEPT !.pc = pc, !.op = op, !.id = calls']]
  /\ UNCHANGED <<stored, log, told>>

UploadDpa(c) == Begin(c, "dpa", "read")
UploadDpia(c) == Begin(c, "dpia", "read")
PublishAydinlatma(c) == Begin(c, "publish", "read")
UpdateVerbis(c) == "verbis" \in Columns /\ Begin(c, "verbis", "read")
UpdateCaMode(c) == "ca_mode" \in Columns /\ Begin(c, "ca_mode", "read")
UpdateRetention(c) == "retention" \in Columns /\ Begin(c, "retention", "read")
RecordConsent(c) == Begin(c, "record", "audit")
RevokeConsent(c) == Begin(c, "revoke", "audit")
AcknowledgeNotification(c) == Begin(c, "ack", "get")

Done(c) == call' = [call EXCEPT ![c] = NoCall]
Answer(c, v, old) == Done(c) /\ told' = told \cup {[op |-> call[c].op, id |-> call[c].id, value |-> v, old |-> old]}

\* What stands before, for the log.
Previous(op) == CASE op \in Papers -> paper[op].key [] op = "publish" -> notice [] op \in Columns -> column[op]
GetPrevious(c) ==
  /\ call[c].pc = "read"
  /\ call' = [call EXCEPT ![c].pc = "audit", ![c].seen = Previous(call[c].op)]
  /\ UNCHANGED <<stored, log, told, calls>>

\* An acknowledgement that is there is the answer.  Any error of the query
\* counts as none.
GetAcknowledgement(c) ==
  /\ call[c].pc = "get"
  /\ \/ ack # 0 /\ Answer(c, ack, TRUE)
     \/ call' = [call EXCEPT ![c].pc = "audit"] /\ told' = told
  /\ UNCHANGED <<stored, log, calls>>

HasDocument(op) == op \in Papers \cup {"record"}
Entry(k) == [op |-> k.op, id |-> k.id, sha |-> IF HasDocument(k.op) THEN Sha(k.id) ELSE <<>>, before |-> k.seen]
AuditAppend(c) ==
  /\ call[c].pc = "audit"
  /\ log' = log \cup {Entry(call[c])}
  /\ call' = [call EXCEPT ![c].pc = IF HasDocument(call[c].op) THEN "put" ELSE "write"]
  /\ UNCHANGED <<stored, told, calls>>

\* The object is stored under the fresh key; that it was may be lost with the answer.
PutDocument(c) ==
  /\ call[c].pc = "put"
  /\ docs' = docs \cup {[key |-> call[c].id, bytes |-> call[c].id]}
  /\ call' = [call EXCEPT ![c].pc = "write"] \/ Done(c)
  /\ UNCHANGED <<paper, notice, column, consent, ack, log, told, calls>>

Writes(c, op) == call[c].pc = "write" /\ call[c].op = op

UpdatePaper(c) == \E p \in Papers :
  /\ Writes(c, p)
  /\ paper' = [paper EXCEPT ![p] = [key |-> call[c].id, sha |-> Sha(call[c].id)]]
  /\ Answer(c, call[c].id, FALSE)
  /\ UNCHANGED <<docs, notice, column, consent, ack, log, calls>>

\* Mutant: the version that was read, plus one.
IncrementSeen(c) ==
  /\ Writes(c, "publish")
  /\ notice' = call[c].seen + 1
  /\ Answer(c, notice', FALSE)
  /\ UNCHANGED <<docs, paper, column, consent, ack, log, calls>>
IncrementVersion(c) ==
  /\ Writes(c, "publish")
  /\ notice' = notice + 1
  /\ Answer(c, notice', FALSE)
  /\ UNCHANGED <<docs, paper, column, consent, ack, log, calls>>

SetColumn(c) == \E x \in Columns :
  /\ Writes(c, x) /\ Done(c)
  /\ column' = [column EXCEPT ![x] = call[c].id]
  /\ UNCHANGED <<docs, paper, notice, consent, ack, log, told, calls>>

\* One row per person and kind: a new consent takes the place of the old one,
\* and is not revoked.
UpsertConsent(c) ==
  /\ Writes(c, "record")
  /\ consent' = [key |-> call[c].id, sha |-> Sha(call[c].id), revoked |-> FALSE]
  /\ Answer(c, call[c].id, FALSE)
  /\ UNCHANGED <<docs, paper, notice, column, ack, log, calls>>

\* Only what is not revoked is; with no such row the request is in error,
\* though it is in the log.
SetRevoked(c) ==
  /\ Writes(c, "revoke")
  /\ IF consent.key # 0 /\ ~consent.revoked
     THEN consent' = [consent EXCEPT !.revoked = TRUE] /\ Answer(c, consent.key, FALSE)
     ELSE Done(c) /\ UNCHANGED <<consent, told>>
  /\ UNCHANGED <<docs, paper, notice, column, ack, log, calls>>

\* The row that is there stays; the request that lost answers with its own entry.
InsertAcknowledgement(c) ==
  /\ Writes(c, "ack")
  /\ ack' = IF ack = 0 THEN call[c].id ELSE ack
  /\ Answer(c, call[c].id, FALSE)
  /\ UNCHANGED <<docs, paper, notice, column, consent, log, calls>>

\* A step that fails leaves nothing but what the steps before it did.
Fails(c) ==
  /\ call[c].pc # "idle" /\ Done(c)
  /\ UNCHANGED <<stored, log, told, calls>>

Handlers(c) == UploadDpa(c) \/ UploadDpia(c) \/ PublishAydinlatma(c) \/ UpdateVerbis(c)
  \/ UpdateCaMode(c) \/ UpdateRetention(c)
  \/ RecordConsent(c) \/ RevokeConsent(c) \/ AcknowledgeNotification(c)
Steps(c) == GetPrevious(c) \/ GetAcknowledgement(c) \/ AuditAppend(c) \/ PutDocument(c) \/ Fails(c)
  \/ UpdatePaper(c) \/ IncrementVersion(c) \/ SetColumn(c) \/ UpsertConsent(c) \/ SetRevoked(c) \/ InsertAcknowledgement(c)
Next == \E c \in Callers : Handlers(c) \/ Steps(c)

Spec == Init /\ [][Next]_vars
-----------------------------------------------------------------------------
Told(op) == {t \in told : t.op = op}
Logged(op, k, s) == \E e \in log : e.op = op /\ e.id = k /\ e.sha = s
Kept(k, s) == \E d \in docs : d.key = k /\ Sha(d.bytes) = s
Backed(op, r) == r.key # 0 => Kept(r.key, r.sha) /\ Logged(op, r.key, r.sha)

\* Whatever overlaps and fails: a paper or consent that stands names a stored
\* document, of that hash, and was logged; two publishers never get one version,
\* and none that does not stand or was not logged; of overlapping revocations one
\* ends the consent, which stays ended; and every acknowledgement, the first or a
\* later one, cites an entry of the log, the later ones the row's.  Every variable keeps its type.
ComplianceTrue ==
  /\ TypeOK
  /\ \A p \in Papers : Backed(p, paper[p])
  /\ Backed("record", consent)
  /\ \A x \in Columns : column[x] # 0 => Logged(x, column[x], <<>>)
  /\ \A s, t \in Told("publish") : s.value = t.value => s = t
  /\ \A t \in Told("publish") : t.value <= notice /\ Logged("publish", t.id, <<>>)
  /\ \A s, t \in Told("revoke") : s.value = t.value => s = t
  /\ \A t \in Told("revoke") : consent.key = t.value => consent.revoked
  /\ ack # 0 => Logged("ack", ack, <<>>)
  /\ \A t \in Told("ack") : Logged("ack", t.value, <<>>) /\ (t.old => t.value = ack) /\ ack # 0
=============================================================================
