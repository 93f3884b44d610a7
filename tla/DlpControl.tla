----------------------------- MODULE DlpControl -----------------------------
(***************************************************************************)
(* The state of keystroke content: the ceremony that turns it on and off   *)
(* (one row, dlp_state), the keys it needs on every endpoint, and the      *)
(* policies that ask for it, signed and pushed.                            *)
(*                                                                         *)
(* Requests run at the same time, an entry of the audit log comes before   *)
(* each write, and any call may fail in between.  A policy's rules are     *)
(* what its invariants read of them.                                       *)
(*                                                                         *)
(* Bounds: MaxCalls requests are started.                                  *)
(***************************************************************************)
EXTENDS Integers, Sequences

CONSTANTS Endpoints, Runs, MaxCalls

VARIABLES
  row,       \* dlp_state
  active,    \* endpoints that are active
  key,       \* keystroke_keys: which request's key an endpoint has
  policy,    \* the row of a policy
  history,   \* its versions: the rules they had
  bus,       \* bundles published
  evid,      \* evidence items
  log,       \* the audit entries, in order
  run, calls

vars == <<row, active, key, policy, history, bus, evid, log, run, calls>>
dlp == <<row, active, key>>
push == <<policy, history, bus, evid>>

Actions == {"enable-complete", "disable-complete", "enable-failed"}
Rules == [dlp : BOOLEAN, keystroke : BOOLEAN, regexOk : BOOLEAN]
NoRules == [dlp |-> FALSE, keystroke |-> FALSE, regexOk |-> TRUE]
Idle == [pc |-> "idle", op |-> "none", id |-> 0, ref |-> 0, rules |-> NoRules, version |-> 0, left |-> {}]
NewState(a) == IF a = "enable-complete" THEN "enabled" ELSE "disabled"

TypeOK ==
  /\ row \in [state : {"enabled", "disabled"}, form : BOOLEAN, ref : 0..Len(log)]
  /\ active \subseteq Endpoints /\ key \in [Endpoints -> 0..MaxCalls]
  /\ policy \in [there : BOOLEAN, rules : Rules, version : 0..Len(history)]
  /\ \A v \in DOMAIN history : history[v] \in Rules
  /\ \A b \in bus : b.rules \in Rules /\ b.version \in 1..Len(history)
  /\ \A w \in Runs : run[w].pc \in {"idle", "audit", "write", "exists", "derive", "insert", "check", "publish", "evidence"}
  /\ calls \in 0..MaxCalls

Init ==
  /\ row = [state |-> "disabled", form |-> FALSE, ref |-> 0]
  /\ active = Endpoints /\ key = [e \in Endpoints |-> 0]
  /\ policy = [there |-> FALSE, rules |-> NoRules, version |-> 0] /\ history = <<>>
  /\ bus = {} /\ evid = {} /\ log = <<>>
  /\ run = [w \in Runs |-> Idle] /\ calls = 0

Begin(w, op, pc) ==
  /\ calls < MaxCalls /\ run[w].pc = "idle" /\ \A v \in Runs : v < w => run[v].pc # "idle"
  /\ calls' = calls + 1
  /\ run' = [run EXCEPT ![w] = [Idle EXCEPT !.pc = pc, !.op = op, !.id = calls + 1]]
At(w, ops, pc) == run[w].op \in ops /\ run[w].pc = pc
Goto(w, pc) == run' = [run EXCEPT ![w].pc = pc]
Done(w) == run' = [run EXCEPT ![w] = Idle]

Fail(w) ==
  /\ run[w].pc # "idle" /\ Done(w)
  /\ UNCHANGED <<dlp, push, log, calls>>

\* An entry says what was asked, and which version of a policy it is about.
Entry(w) == [op |-> run[w].op, version |-> run[w].version]
AuditFirst(w) ==
  /\ At(w, Actions \cup {"create", "update", "delete", "push"}, "audit")
  /\ log' = Append(log, Entry(w))
  /\ run' = [run EXCEPT ![w].pc = IF run[w].op = "push" THEN "publish" ELSE "write", ![w].ref = Len(log')]
  /\ UNCHANGED <<dlp, push, calls>>
-----------------------------------------------------------------------------
\* The script of the ceremony reports what came of it; a reason or a form is asked for.
TransitionHandler(w) == \E a \in Actions : Begin(w, a, "audit") /\ UNCHANGED <<dlp, push, log>>

\* The whole row is written, whatever it was.
UpdateRow(state, form, ref) == row' = [state |-> state, form |-> form, ref |-> ref]
UpdateState(w) ==
  /\ At(w, Actions, "write")
  /\ UpdateRow(NewState(run[w].op), run[w].op = "enable-complete", run[w].ref)
  /\ Done(w)
  /\ UNCHANGED <<active, key, push, log, calls>>
-----------------------------------------------------------------------------
\* Keys for the endpoints that are active now.
ListEndpoints == active
BootstrapPEDEKs(w) ==
  /\ calls < MaxCalls /\ run[w].pc = "idle" /\ \A v \in Runs : v < w => run[v].pc # "idle"
  /\ calls' = calls + 1
  /\ run' = [run EXCEPT ![w] = [Idle EXCEPT !.pc = "exists", !.op = "bootstrap", !.id = calls + 1, !.left = ListEndpoints]]
  /\ UNCHANGED <<dlp, push, log>>

First(w) == CHOOSE e \in run[w].left : TRUE

\* The next endpoint; the entry of the one before, and of the batch at its
\* end, are written if they can be.
Skip(w, entry) ==
  LET last == run[w].left = {First(w)}
      batch == IF last THEN {<<>>, <<[op |-> "batch", version |-> 0]>>} ELSE {<<>>}
  IN /\ \E e \in {<<>>, entry}, b \in batch : log' = log \o e \o b
     /\ run' = [run EXCEPT ![w] = IF last THEN Idle ELSE [run[w] EXCEPT !.left = @ \ {First(w)}, !.pc = "exists"]]

Present(e) == key[e] # 0

\* An endpoint that has one is passed over, and so is one whose check fails.
KeyExists(w) ==
  /\ At(w, {"bootstrap"}, "exists") /\ run[w].left # {}
  /\ \/ ~Present(First(w)) /\ Goto(w, "derive") /\ log' = log
     \/ Skip(w, <<>>)
  /\ UNCHANGED <<dlp, push, calls>>

\* Vault makes a key wrapped for the endpoint, or fails, which is counted.
DeriveWrappedPEDEK(w) ==
  /\ At(w, {"bootstrap"}, "derive")
  /\ \/ Goto(w, "insert") /\ log' = log
     \/ Skip(w, <<>>)
  /\ UNCHANGED <<dlp, push, calls>>

Bootstrapped == <<[op |-> "bootstrapped", version |-> 0]>>

\* Mutant: a second insert takes the place of the first.
InsertReplaces(e, k) == key' = [key EXCEPT ![e] = k]
FirstInsertWins(e, k) == key' = IF Present(e) THEN key ELSE [key EXCEPT ![e] = k]

\* A key that is there by now stays; either way the endpoint is counted and logged.
InsertKey(w) ==
  /\ At(w, {"bootstrap"}, "insert")
  /\ \/ /\ FirstInsertWins(First(w), run[w].id)
        /\ Skip(w, Bootstrapped)
     \/ key' = key /\ Skip(w, <<>>)
  /\ UNCHANGED <<row, active, push, calls>>

Deactivate(e) ==
  /\ e \in active /\ active' = active \ {e}
  /\ UNCHANGED <<row, key, push, log, run, calls>>
-----------------------------------------------------------------------------
Validate(r) == r.regexOk
ValidateBundle(r) == (r.keystroke => r.dlp) /\ r.regexOk

\* A policy is made or changed when its own rules are well formed.
Write(w, op) ==
  \E r \in Rules :
    /\ Validate(r)
    /\ calls < MaxCalls /\ run[w].pc = "idle" /\ \A v \in Runs : v < w => run[v].pc # "idle"
    /\ calls' = calls + 1
    /\ run' = [run EXCEPT ![w] = [Idle EXCEPT !.pc = "audit", !.op = op, !.id = calls + 1, !.rules = r]]
    /\ UNCHANGED <<dlp, push, log>>
Create(w) == ~policy.there /\ history = <<>> /\ Write(w, "create")
Update(w) == policy.there /\ Write(w, "update")
Delete(w) == policy.there /\ Begin(w, "delete", "audit") /\ UNCHANGED <<dlp, push, log>>

\* INSERT; UPDATE ... version = version + 1, which a deleted row does not
\* notice; DELETE.  One policy is made.
StoreCreate(rules) ==
  /\ history = <<>>
  /\ policy' = [there |-> TRUE, rules |-> rules, version |-> 1] /\ history' = <<rules>>
StoreUpdate(rules) ==
  IF policy.there
  THEN policy' = [policy EXCEPT !.rules = rules, !.version = @ + 1] /\ history' = Append(history, rules)
  ELSE UNCHANGED <<policy, history>>
StoreDelete == policy' = [policy EXCEPT !.there = FALSE] /\ UNCHANGED history

StoreWrite(w) ==
  /\ \/ At(w, {"create"}, "write") /\ StoreCreate(run[w].rules)
     \/ At(w, {"update"}, "write") /\ StoreUpdate(run[w].rules)
     \/ At(w, {"delete"}, "write") /\ StoreDelete
  /\ Done(w)
  /\ UNCHANGED <<dlp, bus, evid, log, calls>>

Get == [rules |-> policy.rules, version |-> policy.version]

\* A push reads the row once, and works on what it read.
Push(w) ==
  /\ policy.there /\ calls < MaxCalls /\ run[w].pc = "idle" /\ \A v \in Runs : v < w => run[v].pc # "idle"
  /\ calls' = calls + 1
  /\ run' = [run EXCEPT ![w] = [Idle EXCEPT !.pc = "check", !.op = "push", !.id = calls + 1,
                                            !.rules = Get.rules, !.version = Get.version]]
  /\ UNCHANGED <<dlp, push, log>>

PushChecks(w) ==
  /\ At(w, {"push"}, "check")
  /\ IF ValidateBundle(run[w].rules) THEN Goto(w, "audit") ELSE Done(w)
  /\ UNCHANGED <<dlp, push, log, calls>>

Bundle(w) == [rules |-> run[w].rules, version |-> run[w].version]

\* Signed and published; an answer that is lost ends the push without its evidence.
PublishToEndpoint(w) ==
  /\ At(w, {"push"}, "publish")
  /\ bus' = bus \cup {Bundle(w)}
  /\ Goto(w, "evidence") \/ Done(w)
  /\ UNCHANGED <<dlp, policy, history, evid, log, calls>>

\* Mutant: the item cites the newest entry of the log.
EvidenceCitesLast(w) ==
  /\ At(w, {"push"}, "evidence")
  /\ evid' = evid \cup {[rules |-> run[w].rules, version |-> run[w].version, ref |-> Len(log)]}
  /\ Done(w)
  /\ UNCHANGED <<dlp, policy, history, bus, log, calls>>

\* One item for the push; that it could not be recorded is only logged (Fail).
EmitPushEvidence(w) ==
  /\ At(w, {"push"}, "evidence")
  /\ evid' = evid \cup {[rules |-> run[w].rules, version |-> run[w].version, ref |-> run[w].ref]}
  /\ Done(w)
  /\ UNCHANGED <<dlp, policy, history, bus, log, calls>>
-----------------------------------------------------------------------------
Next ==
  \/ \E w \in Runs :
       \/ TransitionHandler(w) \/ UpdateState(w)
       \/ BootstrapPEDEKs(w) \/ KeyExists(w) \/ DeriveWrappedPEDEK(w) \/ InsertKey(w)
       \/ Create(w) \/ Update(w) \/ Delete(w) \/ StoreWrite(w)
       \/ Push(w) \/ PushChecks(w) \/ PublishToEndpoint(w) \/ EmitPushEvidence(w)
       \/ AuditFirst(w) \/ Fail(w)
  \/ \E e \in Endpoints : Deactivate(e)

Spec == Init /\ [][Next]_vars
-----------------------------------------------------------------------------
(***************************************************************************)
(* Properties.                                                             *)
(***************************************************************************)
\* The row shows one transition whole: it names the entry of the action that
\* made it, and has a ceremony's form exactly while it is enabled.
RowWhole ==
  /\ row.ref # 0 => row.ref \in DOMAIN log /\ log[row.ref].op \in Actions /\ NewState(log[row.ref].op) = row.state
  /\ row.form <=> row.state = "enabled"

\* A published bundle is one version of the policy as it was, and never asks
\* for keystroke content without DLP, whatever updates ran beside the push.
BundlesTrue == \A b \in bus : b.version \in DOMAIN history /\ history[b.version] = b.rules /\ (b.rules.keystroke => b.rules.dlp)

\* The evidence of a push has the rules that went out, and cites its own entry.
EvidenceTrue == \A i \in evid :
  /\ [rules |-> i.rules, version |-> i.version] \in bus
  /\ log[i.ref] = [op |-> "push", version |-> i.version]

\* The key of an endpoint never changes once it is stored: what was written
\* with it stays readable, through any bootstraps at once.
KeyStays == \A e \in Endpoints : key[e] # 0 => key'[e] = key[e]

\* The row shows one transition, a bundle one version, the evidence of a push its
\* own entry, and no key changes, whatever calls overlap (dlpstate, policy).
DlpTrue == [][(TypeOK /\ RowWhole /\ BundlesTrue /\ EvidenceTrue)' /\ KeyStays]_vars

\* "Transition performs an atomic DLP state transition": while none is under
\* way the row shows the last one that was logged.
TransitionAtomic ==
  (\A w \in Runs : run[w].op \notin Actions) =>
     \A i \in DOMAIN log : log[i].op \in Actions => i <= row.ref
=============================================================================
