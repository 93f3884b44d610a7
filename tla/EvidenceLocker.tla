--------------------------- MODULE EvidenceLocker ---------------------------
(***************************************************************************)
(* The evidence locker: reports of reviews, incidents, drills and backups  *)
(* are logged, signed, locked in the WORM bucket and indexed by a row, and *)
(* the rows of a month are handed out as a signed pack.                    *)
(*                                                                         *)
(* Any call may fail, before or after it took effect.  A report's text is  *)
(* left out, but for the flag its payload and its audit entry both state.  *)
(*                                                                         *)
(* Bounds: MaxReports reports, MaxKey versions of the signing key, one     *)
(* pack at a time and MaxPacks in all.                                     *)
(***************************************************************************)
EXTENDS Integers, Sequences, FiniteSets

CONSTANTS Recorders, Months, MaxReports, MaxKey, MaxPacks

VARIABLES
  wired,     \* the WORM sink was there at boot
  key,       \* version of the control plane's signing key
  worm,      \* objects of the bucket: key and bytes
  rows,      \* evidence_items
  log,       \* the audit entries, in order
  run,       \* requests that record
  pack,      \* the pack being built
  packs,     \* packs handed out
  nextId

vars == <<wired, key, worm, rows, log, run, pack, packs, nextId>>
store == <<wired, key, worm, rows, nextId>>
building == <<pack, packs>>

Kinds == {"CC6.3", "CC7.3", "CC9.1", "A1.2"}
\* The second reviewer of a review, as compared to the first; only the scopes
\* that ask for one look at it.
ReviewReport ==
  {r \in [control : {"CC6.3"}, second : {"none", "same", "other"}, dual : BOOLEAN, start : Months, done : Months, flag : {TRUE}] :
     r.dual \/ r.second = "none"}
IncidentReport == [control : {"CC7.3"}, second : {"none"}, dual : {FALSE}, start : Months, done : Months, flag : {TRUE}]
DrillReport == [control : {"CC9.1"}, second : {"none"}, dual : {FALSE}, start : Months, done : Months, flag : BOOLEAN]
RunReport == [control : {"A1.2"}, second : {"none"}, dual : {FALSE}, start : Months, done : Months, flag : {TRUE}]

\* Control, period and references of an item come from the report; the
\* period is the month the report gives for its end, whenever it is sent.
Item(r, ref) == [id |-> 0, control |-> r.control, period |-> 0, recordedAt |-> r.done,
                 payload |-> [second |-> r.second, dual |-> r.dual, flag |-> r.flag], ref |-> ref]
Canonicalize(i) == <<i.id, i.control, i.period, i.recordedAt, i.payload, i.ref>>
\* Vault signs with its newest version.  The label is the first, as key_version is
\* not the float64 that is asked for, and Verify asks for the version of the label.
Sign(bytes) == [over |-> bytes, made |-> key, label |-> 1]
Verify(bytes, sig) == sig.over = bytes /\ sig.made = sig.label /\ sig.label \in 1..key

NoSig == [over |-> {}, made |-> 0, label |-> 0]
NoPack == [pc |-> "idle", month |-> 0, left |-> {}, files |-> {}, manifest |-> {}, sig |-> NoSig]
NoRun == [pc |-> "idle", ref |-> 0, rep |-> <<>>, item |-> <<>>, sig |-> NoSig]

TypeOK ==
  /\ wired \in BOOLEAN /\ key \in 1..MaxKey /\ nextId \in Nat
  /\ \A o \in worm : o.key[1] \in Months
  /\ \A i \in rows : i.item.control \in Kinds /\ i.item.period \in Months
  /\ \A w \in Recorders : run[w].pc \in {"idle", "audit", "sign", "put", "insert"}
  /\ pack.pc \in {"idle", "items", "sign", "finish"}

Init ==
  /\ wired \in BOOLEAN
  /\ key = 1 /\ worm = {} /\ rows = {} /\ log = <<>>
  /\ run = [w \in Recorders |-> NoRun] /\ nextId = 0
  /\ pack = NoPack /\ packs = {}
-----------------------------------------------------------------------------
\* The body of a report is taken, for the caller's tenant; its start is only compared.
Handler(w, r) ==
  /\ run[w].pc = "idle" /\ \A v \in Recorders : v < w => run[v].pc # "idle"
  /\ Len(log) + Cardinality({v \in Recorders : run[v].pc = "audit"}) < MaxReports
  /\ run' = [run EXCEPT ![w] = [NoRun EXCEPT !.pc = "audit", !.rep = [r EXCEPT !.start = r.done]]]
  /\ UNCHANGED <<store, log, building>>

RequiresDualControl(r) == r.dual
RecordReview(w) == \E r \in ReviewReport :
  /\ r.done >= r.start
  /\ RequiresDualControl(r) => r.second \notin {"none", "same"}
  /\ Handler(w, r)
RecordClosure(w) == \E r \in IncidentReport : r.done >= r.start /\ Handler(w, r)
RecordDrill(w) == \E r \in DrillReport : r.done >= r.start /\ Handler(w, r)
RecordRun(w) == \E r \in RunReport : r.done >= r.start /\ Handler(w, r)

Done(w) == run' = [run EXCEPT ![w] = NoRun]

\* The entry first; without it there is no item, and the request is refused.
Entry(r) == [control |-> r.control, second |-> r.second, flag |-> r.flag]
AuditAppend(w) ==
  /\ run[w].pc = "audit"
  /\ \/ /\ log' = Append(log, Entry(run[w].rep))
        /\ run' = [run EXCEPT ![w].pc = "sign", ![w].ref = Len(log')]
     \/ Done(w) /\ log' = log
  /\ UNCHANGED <<store, building>>

\* Without the sink the services hold a recorder that is nil inside an
\* interface: the call panics, and the request ends without an answer.
PanicUnwired(w) ==
  /\ run[w].pc = "sign" /\ ~wired /\ Done(w)
  /\ UNCHANGED <<store, log, building>>

\* Mutant: the id and the period are filled in after the signature, by Insert.
SignedDraft(i) == Canonicalize([i EXCEPT !.id = 0, !.period = 0])
SignedBytes(i) == Canonicalize(i)

\* The id and the period are set before the item is signed.
Derive(i) == [i EXCEPT !.id = nextId + 1, !.period = i.recordedAt]
Record(w) ==
  /\ run[w].pc = "sign" /\ wired
  /\ LET item == Derive(Item(run[w].rep, run[w].ref))
     IN run' = [run EXCEPT ![w].pc = "put", ![w].item = item, ![w].sig = Sign(SignedBytes(item))]
  /\ nextId' = nextId + 1
  /\ UNCHANGED <<wired, key, worm, rows, log, building>>

EvidenceObjectKey(i) == <<i.period, i.id>>
\* The object is written and locked; that it was may be lost with the answer.
PutEvidence(w) ==
  /\ run[w].pc = "put"
  /\ worm' = worm \cup {[key |-> EvidenceObjectKey(run[w].item), bytes |-> Canonicalize(run[w].item)]}
  /\ run' = [run EXCEPT ![w].pc = "insert"] \/ Done(w)
  /\ UNCHANGED <<wired, key, rows, nextId, log, building>>

\* Only then the row, which cites the object.
Insert(w) ==
  /\ run[w].pc = "insert"
  /\ rows' = rows \cup {[item |-> run[w].item, sig |-> run[w].sig, wormKey |-> EvidenceObjectKey(run[w].item)]}
  /\ Done(w)
  /\ UNCHANGED <<wired, key, worm, nextId, log, building>>

\* The signature, the object or the row fails: it is logged, and the request is
\* answered as recorded, without an id.
Swallow(w) ==
  /\ run[w].pc \in {"sign", "put", "insert"} /\ wired
  /\ Done(w)
  /\ UNCHANGED <<store, log, building>>

RotateKey ==
  /\ key < MaxKey /\ key' = key + 1
  /\ UNCHANGED <<wired, worm, rows, nextId, log, run, building>>
-----------------------------------------------------------------------------
ListByPeriod(m, controls) == {i \in rows : i.item.period = m /\ (controls = {} \/ i.item.control \in controls)}

\* A pack of a month, of some controls or of all: the rows are read once.
GetPackHandler ==
  /\ wired /\ pack.pc = "idle" /\ Cardinality(packs) < MaxPacks
  /\ \E m \in Months, controls \in {{}, {"CC6.3"}} :
       pack' = [NoPack EXCEPT !.pc = "items", !.month = m, !.left = ListByPeriod(m, controls)]
  /\ UNCHANGED <<store, log, run, packs>>

\* Each row as it was read, with its signature beside it, and a line for the manifest.
ManifestRow(i) == [id |-> i.item.id, control |-> i.item.control, wormKey |-> EvidenceObjectKey(i.item)]
AddItem ==
  /\ pack.pc = "items" /\ pack.left # {}
  /\ LET i == CHOOSE i \in pack.left : TRUE
     IN pack' = [pack EXCEPT !.left = @ \ {i}, !.files = @ \cup {i}, !.manifest = @ \cup {ManifestRow(i)}]
  /\ UNCHANGED <<store, log, run, packs>>

SignManifest ==
  /\ pack.pc = "items" /\ pack.left = {}
  /\ pack' = [pack EXCEPT !.pc = "finish", !.sig = Sign(pack.manifest)]
  /\ UNCHANGED <<store, log, run, packs>>

\* manifest.json, its signature and the key's version end the archive.
WriteManifest ==
  /\ pack.pc = "finish"
  /\ packs' = packs \cup {[month |-> pack.month, files |-> pack.files, manifest |-> pack.manifest, sig |-> pack.sig]}
  /\ pack' = NoPack
  /\ UNCHANGED <<store, log, run>>

\* A failure ends the archive where it is, without a signed manifest: it is no
\* pack, though it was answered with 200.
BuildFails ==
  /\ pack.pc # "idle" /\ pack' = NoPack
  /\ UNCHANGED <<store, log, run, packs>>

\* The coverage of a month: the controls that have no item.
ExpectedControls == {"CC6.1", "CC6.3", "CC7.1", "CC7.3", "CC8.1", "CC9.1", "A1.2", "P5.1", "P7.1"}
CountByControl(m) == [c \in ExpectedControls |-> Cardinality({i \in rows : i.item.period = m /\ i.item.control = c})]
GetCoverage(m) == {c \in ExpectedControls : CountByControl(m)[c] = 0}
-----------------------------------------------------------------------------
Next ==
  \/ \E w \in Recorders :
       \/ RecordReview(w) \/ RecordClosure(w) \/ RecordDrill(w) \/ RecordRun(w)
       \/ AuditAppend(w) \/ Record(w) \/ PutEvidence(w) \/ Insert(w) \/ Swallow(w) \/ PanicUnwired(w)
  \/ RotateKey
  \/ GetPackHandler \/ AddItem \/ SignManifest \/ WriteManifest \/ BuildFails

Spec == Init /\ [][Next]_vars
-----------------------------------------------------------------------------
(***************************************************************************)
(* Properties.                                                             *)
(***************************************************************************)
VerifyItem(i) == Verify(Canonicalize(i.item), i.sig)
FirstKey(sig) == sig.made = 1

\* Every row stands for a locked object of the very bytes that were signed, and
\* cites the audit entry of its own report, which states what the item states.  If
\* it was signed before the key was first rotated it verifies ever after (Verify;
\* of the others none does).
RowsVerify == \A i \in rows :
  /\ i.sig.over = Canonicalize(i.item) /\ (FirstKey(i.sig) => VerifyItem(i))
  /\ [key |-> i.wormKey, bytes |-> i.sig.over] \in worm
  /\ i.item.ref \in DOMAIN log
  /\ log[i.item.ref] = [control |-> i.item.control, second |-> i.item.payload.second, flag |-> i.item.payload.flag]

\* One item for a report, whatever was lost, and what the coverage calls a gap
\* has none.
CountedOnce ==
  /\ \A i, j \in rows : i.item.ref = j.item.ref => i = j
  /\ \A m \in Months : {i.item.control : i \in ListByPeriod(m, {})} \cap GetCoverage(m) = {}

\* A pack has the files of exactly the rows that its signed manifest lists, each of
\* them there and of the pack's month.
PackWhole == \A p \in packs :
  /\ p.sig.over = p.manifest /\ (FirstKey(p.sig) => Verify(p.manifest, p.sig))
  /\ p.manifest = {ManifestRow(i) : i \in p.files}
  /\ p.files \subseteq rows /\ \A i \in p.files : i.item.period = p.month

LockerTrue == TypeOK /\ RowsVerify /\ CountedOnce /\ PackWhole
=============================================================================
