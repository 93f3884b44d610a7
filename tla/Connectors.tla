----------------------------- MODULE Connectors -----------------------------
(***************************************************************************)
(* One tenant's outgoing connections: the backup targets with their runs,  *)
(* and the credentials of one third-party service.  A config is encrypted  *)
(* by Vault's transit engine before it is logged and stored.               *)
(*                                                                         *)
(* A config is the number of the request that brought it.  Of the other    *)
(* fields a target keeps its name and `enabled`; retention_days goes the   *)
(* way of `enabled`, kinds are checked and never change.  Beside every     *)
(* ciphertext stands the version 1, whatever the key's; nothing reads it.  *)
(*                                                                         *)
(* Bounds: MaxCalls requests in all, as many at once as there are Callers, *)
(* numbers of which the lowest that is free takes the next one.            *)
(***************************************************************************)
EXTENDS Integers

CONSTANTS Callers, Names, MaxCalls

VARIABLES
  targets,   \* backup_targets
  runs,      \* backup_runs
  service,   \* the tenants_integrations row; config 0: no row
  log,       \* the audit entries, each named by its request
  call,      \* what each caller's request is doing
  answered,  \* requests answered without an error
  calls      \* requests so far; their numbers stand for ids and configs

rows == <<targets, runs, service>>
vars == <<rows, log, call, answered, calls>>

None == "none"
\* What a request supplies; None, or FALSE of `config`: not supplied.
Fields == [name : Names \cup {None}, config : BOOLEAN, enabled : {"on", "off", None}]
NoFields == [name |-> None, config |-> FALSE, enabled |-> None]
NoService == [config |-> 0, enabled |-> "off"]
\* `since`: what had been answered when the request came, for the properties.
NoCall == [pc |-> "idle", op |-> None, id |-> 0, target |-> 0, fields |-> NoFields, seen |-> {}, since |-> {}]

TypeOK ==
  /\ \A t \in targets : t.id \in 1..calls /\ t.name \in Names /\ t.config \in 1..calls /\ t.enabled \in {"on", "off"}
  /\ \A r \in runs : r.target \in 1..calls
  /\ service.config \in 0..calls /\ answered \subseteq 1..calls
  /\ \A c \in Callers : call[c].pc \in {"idle", "read", "encrypt", "audit", "write"}

Init ==
  /\ targets = {} /\ runs = {} /\ service = NoService
  /\ log = {} /\ answered = {} /\ calls = 0
  /\ call = [c \in Callers |-> NoCall]
-----------------------------------------------------------------------------
Begin(c, op, pc, target, fields) ==
  /\ call[c].pc = "idle" /\ calls < MaxCalls /\ \A d \in Callers : d < c => call[d].pc # "idle"
  /\ calls' = calls + 1
  /\ call' = [call EXCEPT ![c] = [NoCall EXCEPT !.pc = pc, !.op = op, !.id = calls', !.target = target, !.fields = fields,
                                              !.since = answered]]
  /\ UNCHANGED <<rows, log, answered>>

\* The target a request names; it may be gone when it is looked up.
Ids == {t.id : t \in targets}

CreateTarget(c) == \E n \in Names :
  Begin(c, "create", "encrypt", 0, [name |-> n, config |-> TRUE, enabled |-> "on"])
UpdateTarget(c) == \E i \in Ids, f \in Fields : f # NoFields /\ Begin(c, "update", "read", i, f)
DeleteTarget(c) == \E i \in Ids : Begin(c, "delete", "read", i, NoFields)
TriggerRun(c) == \E i \in Ids : Begin(c, "run", "read", i, NoFields)
Upsert(c) == \E e \in {"on", "off"} :
  Begin(c, "upsert", "encrypt", 0, [name |-> None, config |-> TRUE, enabled |-> e])
Delete(c) == Begin(c, "remove", "audit", 0, NoFields)

Done(c) == call' = [call EXCEPT ![c] = NoCall]
Answer(c) == Done(c) /\ answered' = answered \cup {call[c].id}

\* The target must be there; what is read is used for the log and, by an update,
\* for the fields it was not given.
GetTargetRaw(c) ==
  /\ call[c].pc = "read"
  /\ \E t \in targets :
       /\ t.id = call[c].target
       /\ call' = [call EXCEPT ![c].pc = IF call[c].fields.config THEN "encrypt" ELSE "audit", ![c].seen = {t}]
  /\ UNCHANGED <<rows, log, answered, calls>>

\* From here on the request carries its own config as a ciphertext.
Encrypt(c) ==
  /\ call[c].pc = "encrypt"
  /\ call' = [call EXCEPT ![c].pc = "audit"]
  /\ UNCHANGED <<rows, log, answered, calls>>

\* Fields are logged, of a config only the keys.
Entry(k) == [op |-> k.op, id |-> k.id, target |-> k.target, fields |-> k.fields, since |-> k.since]
AuditAppend(c) ==
  /\ call[c].pc = "audit"
  /\ log' = log \cup {Entry(call[c])}
  /\ call' = [call EXCEPT ![c].pc = "write"]
  /\ UNCHANGED <<rows, answered, calls>>

Writes(c, op) == call[c].pc = "write" /\ call[c].op = op
Taken(n, except) == \E t \in targets : t.name = n /\ t.id # except

InsertTarget(c) ==
  /\ Writes(c, "create") /\ ~Taken(call[c].fields.name, 0)
  /\ targets' = targets \cup {[id |-> call[c].id, name |-> call[c].fields.name, config |-> call[c].id,
                               enabled |-> call[c].fields.enabled]}
  /\ Answer(c)
  /\ UNCHANGED <<runs, service, log, calls>>

\* The supplied fields over a row.
Supplied(row, k) ==
  [row EXCEPT !.name = IF k.fields.name = None THEN @ ELSE k.fields.name,
              !.enabled = IF k.fields.enabled = None THEN @ ELSE k.fields.enabled]
\* Mutant: without a config in the request, the one that was read is written back.
WrittenReadBack(t, k) ==
  LET u == Supplied(CHOOSE r \in k.seen : TRUE, k)
  IN [t EXCEPT !.name = u.name, !.enabled = u.enabled, !.config = IF k.fields.config THEN k.id ELSE u.config]
\* Every column but that of the config is written, from the row that was read where
\* the request does not supply it.
Written(t, k) ==
  LET u == Supplied(CHOOSE r \in k.seen : TRUE, k)
  IN [t EXCEPT !.name = u.name, !.enabled = u.enabled, !.config = IF k.fields.config THEN k.id ELSE @]

\* A row that has gone in between is not missed: the answer is the same.
WriteTarget(c) ==
  /\ Writes(c, "update")
  /\ LET old == {t \in targets : t.id = call[c].target}
         new == {Written(t, call[c]) : t \in old}
     IN /\ \A t \in new : ~Taken(t.name, t.id)
        /\ targets' = (targets \ old) \cup new
  /\ Answer(c)
  /\ UNCHANGED <<runs, service, log, calls>>

\* The runs go with the target.
RemoveTarget(c) ==
  /\ Writes(c, "delete")
  /\ targets' = {t \in targets : t.id # call[c].target}
  /\ runs' = {r \in runs : r.target # call[c].target}
  /\ Answer(c)
  /\ UNCHANGED <<service, log, calls>>

\* A run must belong to a target; nothing here ever completes it.
InsertRun(c) ==
  /\ Writes(c, "run") /\ \E t \in targets : t.id = call[c].target
  /\ runs' = runs \cup {[id |-> call[c].id, target |-> call[c].target]}
  /\ Answer(c)
  /\ UNCHANGED <<targets, service, log, calls>>

WriteService(c) ==
  /\ Writes(c, "upsert")
  /\ service' = [config |-> call[c].id, enabled |-> call[c].fields.enabled]
  /\ Answer(c)
  /\ UNCHANGED <<targets, runs, log, calls>>

\* There may be nothing to remove.
RemoveService(c) ==
  /\ Writes(c, "remove")
  /\ service' = NoService
  /\ Answer(c)
  /\ UNCHANGED <<targets, runs, log, calls>>

\* A step that fails, a target that is not there, a name that is taken.
Fails(c) ==
  /\ call[c].pc # "idle" /\ Done(c)
  /\ UNCHANGED <<rows, log, answered, calls>>

Handlers(c) == CreateTarget(c) \/ UpdateTarget(c) \/ DeleteTarget(c) \/ TriggerRun(c) \/ Upsert(c) \/ Delete(c)
Steps(c) == GetTargetRaw(c) \/ Encrypt(c) \/ AuditAppend(c) \/ Fails(c) \/ InsertTarget(c) \/ WriteTarget(c)
  \/ RemoveTarget(c) \/ InsertRun(c) \/ WriteService(c) \/ RemoveService(c)
Next == \E c \in Callers : Handlers(c) \/ Steps(c)

Spec == Init /\ [][Next]_vars
-----------------------------------------------------------------------------
Logged(op, i) == \E e \in log : e.op = op /\ e.id = i
\* A request of these kinds was answered that came after the config's own was.
Superseded(config, ops, target) == \E e \in log :
  /\ e.op \in ops /\ e.target = target /\ e.id \in answered /\ config \in e.since
  /\ e.op = "update" => e.fields.config
Deleted(i) == \E e \in log : e.op = "delete" /\ e.target = i /\ e.id \in answered

\* Whatever overlaps and fails: a config was logged by the request that brought it, and
\* none that a later answered request replaced or removed comes back, though updates write
\* rows from what they read; a deleted target stays away, names stay unique, a run's target
\* is there and both were logged.  Every variable keeps its type.
ConnectorsTrue ==
  /\ TypeOK
  /\ \A t \in targets :
       /\ Logged("create", t.id) /\ ~Deleted(t.id)
       /\ Logged("create", t.config) \/ Logged("update", t.config)
       /\ ~Superseded(t.config, {"update"}, t.id)
       /\ ~Taken(t.name, t.id)
  /\ service # NoService =>
       \E e \in log : e.op = "upsert" /\ e.id = service.config /\ e.fields.enabled = service.enabled
  /\ ~Superseded(service.config, {"upsert", "remove"}, 0)
  /\ \A r \in runs : Logged("run", r.id) /\ \E t \in targets : t.id = r.target
=============================================================================
