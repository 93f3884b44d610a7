------------------------------- MODULE Identity -------------------------------
(***************************************************************************)
(* Who an agent is: enrollment with a one-time token, refresh of its       *)
(* certificate, revocation and deletion of its row, and the gateway's      *)
(* check of a certificate against Vault's deny list and the rows.          *)
(*                                                                         *)
(* A run is a request to the Admin API; its steps are its calls of Vault   *)
(* and Postgres, and any of them may fail.  An endpoint is named by the    *)
(* serial it was enrolled with.  Time is left out: a token's quarter of an  *)
(* hour and the ten minutes between two refreshes may pass at any moment.  *)
(*                                                                         *)
(* Bound: MaxSerial certificates are signed.                               *)
(***************************************************************************)
EXTENDS Integers, FiniteSets

CONSTANTS Tokens, Runs, MaxSerial

ASSUME IdentityAssumption == MaxSerial \in Nat \ {0} /\ Runs \subseteq Nat /\ Tokens \subseteq Nat \ {0}

VARIABLES
  secret,    \* Vault's secret ids: none, fresh, used
  token,     \* rows of enrollment_tokens
  issued,    \* certificates signed so far: serials 1..issued
  crl,       \* serials Vault has revoked
  ep,        \* rows of endpoints
  deny,      \* the gateway's deny list
  stream,    \* the endpoints with a stream
  log,       \* the audit entries of revocations and deletions
  run        \* the requests under way

vars == <<secret, token, issued, crl, ep, deny, stream, log, run>>
vault == <<secret, issued, crl>>
gateway == <<deny, stream>>

Serial == 1..MaxSerial
NoRow == [there |-> FALSE, serial |-> 0, active |-> FALSE]
NoToken == [there |-> FALSE, by |-> 0]
Idle == [pc |-> "idle", op |-> "none", of |-> 0, ep |-> 0, old |-> 0, new |-> 0]

TypeOK ==
  /\ secret \in [Tokens -> {"none", "fresh", "used"}]
  /\ token \in [Tokens -> [there : BOOLEAN, by : 0..MaxSerial]]
  /\ issued \in 0..MaxSerial /\ crl \subseteq 1..issued
  /\ ep \in [Serial -> [there : BOOLEAN, serial : 0..MaxSerial, active : BOOLEAN]]
  /\ deny \subseteq 1..issued
  /\ stream \subseteq Serial
  /\ log \subseteq {"revoked", "deleted"} \X Serial
  /\ \A w \in Runs : /\ run[w].pc \in {"idle", "login", "sign", "insert", "mark", "crl", "audit", "write"}
                     /\ run[w].op \in {"none", "enroll", "refresh", "revoked", "deleted"}

Init ==
  /\ secret = [t \in Tokens |-> "none"] /\ token = [t \in Tokens |-> NoToken]
  /\ issued = 0 /\ crl = {}
  /\ ep = [e \in Serial |-> NoRow]
  /\ deny = {} /\ stream = {} /\ log = {}
  /\ run = [w \in Runs |-> Idle]

\* Requests are alike: the first free run is taken.
Free(w) == run[w].pc = "idle" /\ \A v \in Runs : v < w => run[v].pc # "idle"
At(w, op, pc) == run[w].op = op /\ run[w].pc = pc
Goto(w, pc) == run' = [run EXCEPT ![w].pc = pc]
Enrolled == {e \in Serial : ep[e].there}
ByCertSerial(s) == {e \in Enrolled : ep[e].serial = s}
Posted(w, t) == Free(w) /\ run' = [run EXCEPT ![w] = [Idle EXCEPT !.pc = "login", !.op = "enroll", !.of = t]]
Asked(w, e) ==
  /\ Free(w)
  /\ run' = [run EXCEPT ![w] = [Idle EXCEPT !.pc = "sign", !.op = "refresh", !.ep = e, !.old = ep[e].serial]]
SetSerial(e, s) == IF ep[e].there THEN [ep EXCEPT ![e].serial = s] ELSE ep
PkiRevoke(s) == crl' \in {crl, crl \cup {s}}
-----------------------------------------------------------------------------
\* An operator asks for the next token: the secret, the row, the entry; each may fail.
Enroll(t) ==
  /\ secret[t] = "none" /\ \A u \in Tokens : u < t => secret[u] # "none"
  /\ secret' = [secret EXCEPT ![t] = "fresh"]
  /\ token' \in {token, [token EXCEPT ![t] = [NoToken EXCEPT !.there = TRUE]]}
  /\ UNCHANGED <<issued, crl, ep, gateway, log, run>>

\* An installer posts its token: the row must be there and unused.
AgentEnroll(w, t) ==
  /\ token[t].there /\ token[t].by = 0
  /\ Posted(w, t)
  /\ UNCHANGED <<vault, token, ep, gateway, log>>

\* Vault takes a secret id once; an answer that is lost has used it up.
LoginWithAppRole(w) ==
  /\ At(w, "enroll", "login") /\ secret[run[w].of] = "fresh"
  /\ secret' = [secret EXCEPT ![run[w].of] = "used"]
  /\ \/ Goto(w, "sign")
     \/ run' = [run EXCEPT ![w] = Idle]
  /\ UNCHANGED <<issued, crl, token, ep, gateway, log>>

\* A certificate is signed; it is nobody's when the answer is lost.
SignAgentCSR(w) ==
  /\ run[w].pc = "sign" /\ issued < MaxSerial
  /\ issued' = issued + 1
  /\ \/ run' = [run EXCEPT ![w].pc = IF run[w].op = "enroll" THEN "insert" ELSE "mark", ![w].new = issued + 1]
     \/ run' = [run EXCEPT ![w] = Idle]
  /\ UNCHANGED <<secret, crl, token, ep, gateway, log>>

\* One transaction: the endpoint's row, and the token marked if nobody has.
InsertEndpoint(w) ==
  /\ At(w, "enroll", "insert")
  /\ LET s == run[w].new  t == run[w].of IN
       /\ ep' = [ep EXCEPT ![s] = [there |-> TRUE, serial |-> s, active |-> TRUE]]
       /\ token' = IF token[t].by = 0 THEN [token EXCEPT ![t].by = s] ELSE token
  /\ run' = [run EXCEPT ![w] = Idle]
  /\ UNCHANGED <<vault, gateway, log>>

\* Any step may return an error; what the steps before it did stays.
Fail(w) ==
  /\ run[w].pc # "idle"
  /\ run' = [run EXCEPT ![w] = Idle]
  /\ UNCHANGED <<vault, token, ep, gateway, log>>
-----------------------------------------------------------------------------
\* A refresh reads the row, which must be active.
RefreshToken(w, e) ==
  /\ ep[e].there /\ ep[e].active
  /\ Asked(w, e)
  /\ UNCHANGED <<vault, token, ep, gateway, log>>

\* Mutant: the old certificate is revoked while the row still names it.
MarkAfterRevoke(w) ==
  /\ At(w, "refresh", "mark")
  /\ crl' = crl \cup {run[w].old}
  /\ \/ ep' = [ep EXCEPT ![run[w].ep].serial = run[w].new] /\ Goto(w, "crl")
     \/ ep' = ep /\ run' = [run EXCEPT ![w] = Idle]
  /\ UNCHANGED <<secret, issued, token, gateway, log>>

\* Mutant: the refreshed row is made active.
MarkActive(w) ==
  /\ At(w, "refresh", "mark")
  /\ ep' = [ep EXCEPT ![run[w].ep].serial = run[w].new, ![run[w].ep].active = TRUE]
  /\ Goto(w, "crl")
  /\ UNCHANGED <<vault, token, gateway, log>>

\* The row takes the new serial, whatever it is by then: it is asked for by id only.
MarkRefreshed(w) ==
  /\ At(w, "refresh", "mark")
  /\ ep' = SetSerial(run[w].ep, run[w].new)
  /\ Goto(w, "crl")
  /\ UNCHANGED <<vault, token, gateway, log>>

\* The serial that was read at the start is revoked, if Vault lets it.
RevokeCert(w) ==
  /\ At(w, "refresh", "crl")
  /\ PkiRevoke(run[w].old)
  /\ run' = [run EXCEPT ![w] = Idle]
  /\ UNCHANGED <<secret, issued, token, ep, gateway, log>>
-----------------------------------------------------------------------------
\* Revocation and deletion: the entry, then the row.
Revoke(w, e) ==
  /\ Free(w) /\ ep[e].there
  /\ \E op \in {"revoked", "deleted"} : run' = [run EXCEPT ![w] = [Idle EXCEPT !.pc = "audit", !.op = op, !.ep = e]]
  /\ UNCHANGED <<vault, token, ep, gateway, log>>

RevokeAudit(w) ==
  /\ run[w].pc = "audit"
  /\ log' = log \cup {<<run[w].op, run[w].ep>>}
  /\ Goto(w, "write")
  /\ UNCHANGED <<vault, token, ep, gateway>>

RevokeWrite(w) ==
  /\ At(w, "revoked", "write")
  /\ ep' = [ep EXCEPT ![run[w].ep].active = FALSE]
  /\ run' = [run EXCEPT ![w] = Idle]
  /\ UNCHANGED <<vault, token, gateway, log>>

\* The row stays while a token names the endpoint it enrolled.
Delete(w) ==
  /\ At(w, "deleted", "write")
  /\ ep' = IF \E t \in Tokens : token[t].by = run[w].ep THEN ep ELSE [ep EXCEPT ![run[w].ep] = NoRow]
  /\ run' = [run EXCEPT ![w] = Idle]
  /\ UNCHANGED <<vault, token, gateway, log>>
-----------------------------------------------------------------------------
\* The gateway: the deny list, then the row with that serial.
Authenticate(s) ==
  /\ s \notin deny
  /\ \E e \in ByCertSerial(s) :
       \/ ep[e].active /\ stream' = stream \cup {e} /\ deny' = deny
       \/ ~ep[e].active /\ deny' = deny \cup {s} /\ stream' = stream
  /\ UNCHANGED <<vault, token, ep, log, run>>

Disconnect(e) ==
  /\ e \in stream
  /\ stream' = stream \ {e}
  /\ UNCHANGED <<vault, token, ep, deny, log, run>>

\* The list is read from Vault, where nothing writes: the additions are gone.
RefreshDenyList ==
  /\ deny' = {}
  /\ UNCHANGED <<vault, token, ep, stream, log, run>>
-----------------------------------------------------------------------------
Next ==
  \/ \E t \in Tokens : Enroll(t)
  \/ \E w \in Runs : \/ \E t \in Tokens : AgentEnroll(w, t)
                     \/ \E e \in Serial : RefreshToken(w, e) \/ Revoke(w, e)
                     \/ LoginWithAppRole(w) \/ SignAgentCSR(w) \/ InsertEndpoint(w) \/ Fail(w)
                     \/ MarkRefreshed(w) \/ RevokeCert(w) \/ RevokeAudit(w) \/ RevokeWrite(w) \/ Delete(w)
  \/ \E s \in Serial : Authenticate(s) \/ Disconnect(s)
  \/ RefreshDenyList

Spec == Init /\ [][Next]_vars
-----------------------------------------------------------------------------
(***************************************************************************)
(* Properties.                                                             *)
(***************************************************************************)
\* A token enrolls one endpoint, however often and at the same time it is
\* posted: the row's UPDATE counts for nothing, Vault's secret does
\* (agent_enroll.go: "Secret ID must still be valid (single-use; Vault enforces)").
OnePerToken == Cardinality(Enrolled) <= Cardinality({t \in Tokens : token[t].by # 0})

\* The certificate a row names is never a revoked one, whatever refreshes ran
\* together and wherever they failed (refresh.go, steps 5 and 6).
CurrentValid == \A e \in Enrolled : ep[e].serial \notin crl

\* Two endpoints never share a certificate: the gateway's lookup has one answer.
OneOwner == \A e, f \in Enrolled : ep[e].serial = ep[f].serial => e = f

\* A row is revoked only after its entry.
RevokedLogged == \A e \in Enrolled : ~ep[e].active => <<"revoked", e>> \in log

IdentityTrue == TypeOK /\ OnePerToken /\ CurrentValid /\ OneOwner /\ RevokedLogged

\* A revoked endpoint opens no stream again, with any of its certificates and
\* through any refresh that was under way.
RevokedStaysOut ==
  [][\A e \in Serial : <<"revoked", e>> \in log /\ ep[e].there /\ ~ep[e].active =>
       ~ep'[e].active /\ (e \in stream' => e \in stream)]_vars
=============================================================================
