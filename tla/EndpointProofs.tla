--------------------------- MODULE EndpointProofs ---------------------------
(***************************************************************************)
(* Who an agent is, for any tokens, any number of requests at once and any *)
(* number of certificates.  The argument follows a serial: one that was    *)
(* signed and is not yet in a row is nobody's, and stays so until the run  *)
(* that has it writes it; one a refresh has read is at most its own row's, *)
(* and no row's once the refresh has written the new one.  A token follows *)
(* from Vault: its secret lets one run past the login.                     *)
(*                                                                         *)
(* And what is told to an endpoint, for any commands: a command is         *)
(* followed from the call to the stream, the agent and its reports, of     *)
(* which one at a time is between the row and the log.                     *)
(*                                                                         *)
(* And the control of keystroke content, for any calls at once.            *)
(***************************************************************************)
EXTENDS MCControl, EndpointCommand, FiniteSetTheorems, SequenceTheorems, TLAPS

Steps == {"idle", "login", "sign", "insert", "mark", "crl", "audit", "write"}
TokenRow == [there : BOOLEAN, by : 0 .. MaxSerial]
EndpointRow == [there : BOOLEAN, serial : 0 .. MaxSerial, active : BOOLEAN]
Runner == [pc : Steps, op : {"none", "enroll", "refresh", "revoked", "deleted"},
           of : Tokens \cup {0}, ep : 0 .. MaxSerial, old : 0 .. MaxSerial, new : 0 .. MaxSerial]

\* A run with the secret of its token, one with a signed certificate, and one
\* that has read the serial of the row it refreshes.
Admitted(w) == run[w].op = "enroll" /\ run[w].pc \in {"sign", "insert"}
Signed(w) == run[w].pc \in {"insert", "mark"}
Refreshing(w) == run[w].op = "refresh" /\ run[w].pc \in {"sign", "mark", "crl"}

TablesOK ==
    /\ secret \in [Tokens -> {"none", "fresh", "used"}]
    /\ token \in [Tokens -> TokenRow]
    /\ issued \in 0 .. MaxSerial /\ crl \subseteq 1 .. issued
    /\ ep \in [Serial -> EndpointRow]
    /\ deny \subseteq 1 .. issued
    /\ stream \subseteq Serial
    /\ log \subseteq {"revoked", "deleted"} \X Serial

\* What a run carries at each of its steps.
Fit(r) ==
    /\ r.pc \in {"login", "insert"} => r.op = "enroll"
    /\ r.pc = "sign" => r.op \in {"enroll", "refresh"}
    /\ r.pc \in {"mark", "crl"} => r.op = "refresh"
    /\ r.pc \in {"audit", "write"} => r.op \in {"revoked", "deleted"}
    /\ r.op = "enroll" => r.of \in Tokens
    /\ r.op \in {"refresh", "revoked", "deleted"} => r.ep \in Serial

RunsOK == run \in [Runs -> Runner] /\ \A w \in Runs : Fit(run[w])

\* A token that names an endpoint is spent, and at most one run has its secret.
TokensOK ==
    /\ \A t \in Tokens : token[t].by # 0 => secret[t] = "used"
    /\ \A w \in Runs : Admitted(w) => secret[run[w].of] = "used" /\ token[run[w].of].by = 0
    /\ \A v, w \in Runs : Admitted(v) /\ Admitted(w) /\ run[v].of = run[w].of => v = w

\* Every endpoint is named by the token it used, and those tokens are finitely many.
Named ==
    /\ IsFiniteSet({t \in Tokens : token[t].by # 0})
    /\ \A e \in Enrolled : \E t \in Tokens : token[t].by = e

\* The serial of a row was signed, and a serial that no row has yet is fresh.
SerialsOK ==
    /\ \A e \in Enrolled : e \in 1 .. issued /\ ep[e].serial \in 1 .. issued
    /\ \A w \in Runs : Signed(w) =>
         /\ run[w].new \in 1 .. issued /\ run[w].new \notin crl
         /\ \A e \in Enrolled : ep[e].serial # run[w].new
         /\ run[w].pc = "insert" => ~ep[run[w].new].there
    /\ \A v, w \in Runs : Signed(v) /\ Signed(w) /\ run[v].new = run[w].new => v = w

\* The serial a refresh will revoke is its own row's, and no row's in the end.
OldOK ==
    /\ \A w \in Runs : Refreshing(w) =>
         /\ run[w].old \in 1 .. issued
         /\ \A e \in Enrolled : ep[e].serial = run[w].old => e = run[w].ep /\ run[w].pc # "crl"
         /\ \A v \in Runs : Signed(v) => run[v].new # run[w].old

Logged ==
    /\ \A w \in Runs : run[w].pc = "write" => <<run[w].op, run[w].ep>> \in log
    /\ RevokedLogged

IInv == TablesOK /\ RunsOK /\ TokensOK /\ Named /\ SerialsOK /\ OldOK /\ CurrentValid /\ OneOwner /\ Logged

LEMMA Types == TablesOK /\ RunsOK => TypeOK
BY DEF TablesOK, RunsOK, TypeOK, TokenRow, EndpointRow, Runner, Steps

LEMMA InitIInv == Init => IInv
<1> SUFFICES ASSUME Init PROVE IInv
  OBVIOUS
<1>1. TablesOK /\ RunsOK /\ Enrolled = {}
  BY IdentityAssumption DEF Init, TablesOK, RunsOK, Fit, TokenRow, EndpointRow, Runner, Steps, Idle, NoRow, NoToken, Enrolled
<1>2. {t \in Tokens : token[t].by # 0} = {}
  BY DEF Init, NoToken
<1>3. TokensOK /\ Named /\ SerialsOK /\ OldOK
  BY <1>1, <1>2, FS_EmptySet DEF Init, TokensOK, Named, SerialsOK, OldOK, Admitted, Signed, Refreshing, Idle, NoToken
<1> QED BY <1>1, <1>3 DEF IInv, CurrentValid, OneOwner, Logged, RevokedLogged, Init, Idle

\* A step moves one run on, or ends it.
LEMMA RunSet ==
    ASSUME RunsOK, NEW w \in Runs, NEW r \in Runner, Fit(r), run' = [run EXCEPT ![w] = r]
    PROVE  RunsOK' /\ run'[w] = r /\ \A v \in Runs \ {w} : run'[v] = run[v]
BY DEF RunsOK, Fit

LEMMA RunIdle == Idle \in Runner /\ Fit(Idle) /\ Idle.pc = "idle" /\ Idle.op = "none"
BY IdentityAssumption DEF Idle, Runner, Fit, Steps

\* A run that ends leaves what is true of the others.
LEMMA RunEnds ==
    ASSUME IInv, NEW w \in Runs, run' = [run EXCEPT ![w] = Idle]
    PROVE  /\ RunsOK'
           /\ \A v \in Runs : v # w => run'[v] = run[v]
           /\ ~Admitted(w)' /\ ~Signed(w)' /\ ~Refreshing(w)' /\ run'[w].pc = "idle"
BY RunIdle, RunSet DEF IInv, Admitted, Signed, Refreshing

\* A run goes on to its next step with what it has.
LEMMA RunGoesOn ==
    ASSUME RunsOK, NEW w \in Runs, NEW pc \in Steps, Fit([run[w] EXCEPT !.pc = pc]),
           run' = [run EXCEPT ![w].pc = pc]
    PROVE  /\ RunsOK'
           /\ run'[w] = [run[w] EXCEPT !.pc = pc]
           /\ \A v \in Runs : v # w => run'[v] = run[v]
<1> DEFINE r == [run[w] EXCEPT !.pc = pc]
<1>1. r \in Runner
  BY DEF RunsOK, Runner
<1>2. run' = [run EXCEPT ![w] = r]
  OBVIOUS
<1> QED BY <1>1, <1>2, RunSet

-----------------------------------------------------------------------------
(* One lemma per step.                                                       *)

LEMMA EnrollIInv ==
    ASSUME IInv, NEW t \in Tokens, Enroll(t)
    PROVE  IInv'
<1>1. token[t].by = 0
  BY DEF IInv, TokensOK, Enroll
<1>2. token' \in [Tokens -> TokenRow] /\ \A u \in Tokens : token'[u].by = token[u].by
  <2> DEFINE new == [NoToken EXCEPT !.there = TRUE]
  <2>1. NoToken \in TokenRow /\ NoToken.by = 0
    BY IdentityAssumption DEF NoToken, TokenRow
  <2>3. new \in TokenRow /\ new.by = 0
    BY <2>1 DEF TokenRow
  <2>2. token' = token \/ token' = [token EXCEPT ![t] = new]
    BY DEF Enroll
  <2> HIDE DEF new
  <2> QED BY <1>1, <2>2, <2>3 DEF IInv, TablesOK
<1>3. UNCHANGED <<issued, crl, ep, deny, stream, log, run>>
      /\ \A u \in Tokens : secret[u] = "used" => secret'[u] = "used"
  BY DEF Enroll, gateway, IInv, TablesOK
<1>7. TablesOK'
  BY <1>2, <1>3 DEF Enroll, IInv, TablesOK
<1>4. RunsOK' /\ SerialsOK' /\ OldOK' /\ CurrentValid' /\ OneOwner' /\ Logged'
  BY <1>3 DEF IInv, RunsOK, SerialsOK, OldOK, CurrentValid, OneOwner, Logged, RevokedLogged, Enrolled,
     Signed, Refreshing
<1>5. TokensOK'
  BY <1>2, <1>3 DEF IInv, RunsOK, Fit, TokensOK, Admitted
<1>6. Named'
  <2>1. {u \in Tokens : token'[u].by # 0} = {u \in Tokens : token[u].by # 0}
    BY <1>2
  <2> QED BY <1>2, <1>3, <2>1 DEF IInv, Named, Enrolled
<1> QED BY <1>4, <1>5, <1>6, <1>7 DEF IInv

\* Only the run changes, and takes up nothing that other runs could share.
LEMMA RunAlone ==
    ASSUME IInv, NEW w \in Runs, RunsOK', \A v \in Runs : v # w => run'[v] = run[v],
           UNCHANGED <<secret, token, issued, crl, ep, deny, stream, log>>,
           ~Admitted(w)', ~Signed(w)', ~Refreshing(w)', run'[w].pc # "write"
    PROVE  IInv'
<1>1. TablesOK' /\ Named' /\ CurrentValid' /\ OneOwner'
  BY DEF IInv, TablesOK, Named, CurrentValid, OneOwner, Enrolled
<1>2. TokensOK'
  BY DEF IInv, TokensOK, Admitted
<1>3. SerialsOK'
  BY DEF IInv, SerialsOK, Signed, Enrolled
<1>4. OldOK'
  BY DEF IInv, OldOK, Signed, Refreshing, Enrolled
<1>5. Logged'
  BY DEF IInv, Logged, RevokedLogged, Enrolled
<1> QED BY <1>1, <1>2, <1>3, <1>4, <1>5 DEF IInv

LEMMA AgentEnrollIInv ==
    ASSUME IInv, NEW w \in Runs, NEW t \in Tokens, AgentEnroll(w, t)
    PROVE  IInv'
<1> DEFINE r == [Idle EXCEPT !.pc = "login", !.op = "enroll", !.of = t]
<1>1. r.pc = "login" /\ r.op = "enroll" /\ r.of = t /\ r \in Runner
  BY RunIdle DEF Runner, Steps
<1>2. Fit(r)
  BY <1>1 DEF Fit
<1>3. run' = [run EXCEPT ![w] = r] /\ UNCHANGED <<secret, token, issued, crl, ep, deny, stream, log>>
  BY DEF AgentEnroll, Posted, vault, gateway
<1> HIDE DEF r
<1>4. RunsOK' /\ run'[w] = r /\ \A v \in Runs : v # w => run'[v] = run[v]
  BY <1>1, <1>2, <1>3, RunSet DEF IInv
<1> QED BY <1>1, <1>3, <1>4, RunAlone DEF Admitted, Signed, Refreshing

LEMMA FailIInv ==
    ASSUME IInv, NEW w \in Runs, Fail(w)
    PROVE  IInv'
BY RunEnds, RunAlone DEF Fail, vault, gateway

LEMMA RevokeIInv ==
    ASSUME IInv, NEW w \in Runs, NEW e \in Serial, Revoke(w, e)
    PROVE  IInv'
<1>1. PICK op \in {"revoked", "deleted"} :
        run' = [run EXCEPT ![w] = [Idle EXCEPT !.pc = "audit", !.op = op, !.ep = e]]
  BY DEF Revoke
<1> DEFINE r == [Idle EXCEPT !.pc = "audit", !.op = op, !.ep = e]
<1>2. r.pc = "audit" /\ r.op = op /\ r.ep = e /\ r \in Runner
  <2>1. e \in 0 .. MaxSerial
    BY IdentityAssumption DEF Serial
  <2> QED BY <2>1, RunIdle DEF Runner, Steps
<1>3. Fit(r)
  BY <1>2 DEF Fit
<1>4. UNCHANGED <<secret, token, issued, crl, ep, deny, stream, log>>
  BY DEF Revoke, vault, gateway
<1> HIDE DEF r
<1>5. RunsOK' /\ run'[w] = r /\ \A v \in Runs : v # w => run'[v] = run[v]
  BY <1>1, <1>2, <1>3, RunSet DEF IInv, r
<1> QED BY <1>2, <1>4, <1>5, RunAlone DEF Admitted, Signed, Refreshing

\* The secret is fresh, so no run has it, and the token names no endpoint.
LEMMA LoginWithAppRoleIInv ==
    ASSUME IInv, NEW w \in Runs, LoginWithAppRole(w)
    PROVE  IInv'
<1> DEFINE t == run[w].of
<1>1. /\ run[w].op = "enroll" /\ run[w].pc = "login" /\ t \in Tokens /\ secret[t] = "fresh"
      /\ secret' = [secret EXCEPT ![t] = "used"]
      /\ UNCHANGED <<token, issued, crl, ep, deny, stream, log>>
  BY DEF LoginWithAppRole, At, gateway, IInv, RunsOK, Fit
<1>2. token[t].by = 0 /\ \A v \in Runs : Admitted(v) => run[v].of # t
  BY <1>1 DEF IInv, TokensOK
<1>3. TablesOK' /\ Named' /\ CurrentValid' /\ OneOwner'
  BY <1>1 DEF IInv, TablesOK, Named, CurrentValid, OneOwner, Enrolled
<1>4. secret'[t] = "used" /\ \A u \in Tokens : u # t => secret'[u] = secret[u]
  BY <1>1 DEF IInv, TablesOK
<1>5. CASE Goto(w, "sign")
  <2>1. Fit([run[w] EXCEPT !.pc = "sign"])
    BY <1>1 DEF IInv, RunsOK, Runner, Fit
  <2>2. RunsOK' /\ run'[w] = [run[w] EXCEPT !.pc = "sign"] /\ \A v \in Runs : v # w => run'[v] = run[v]
    BY <1>5, <2>1, RunGoesOn DEF Goto, IInv, Steps
  <2>3. run'[w].pc = "sign" /\ run'[w].op = "enroll" /\ run'[w].of = t
    BY <1>1, <2>2 DEF IInv, RunsOK, Runner
  <2>4. \A v \in Runs : v # w => run'[v] = run[v]
    BY <2>2
  <2>5. ~Signed(w)' /\ ~Refreshing(w)' /\ run'[w].pc # "write"
    BY <2>3 DEF Signed, Refreshing
  <2>6. TokensOK'
    <3>1. \A v \in Runs : Admitted(v)' /\ v # w =>
            Admitted(v) /\ run'[v].of = run[v].of /\ run[v].of \in Tokens /\ run[v].of # t
      BY <1>2, <2>4 DEF IInv, RunsOK, Fit, Admitted
    <3>2. \A v \in Runs : Admitted(v)' => secret'[run'[v].of] = "used" /\ token'[run'[v].of].by = 0
      BY <1>1, <1>2, <1>4, <2>3, <3>1 DEF IInv, TokensOK
    <3>3. \A u, v \in Runs : Admitted(u)' /\ Admitted(v)' /\ run'[u].of = run'[v].of => u = v
      BY <2>3, <3>1 DEF IInv, TokensOK
    <3>4. \A u \in Tokens : token'[u].by # 0 => secret'[u] = "used"
      BY <1>1, <1>4 DEF IInv, TokensOK
    <3> QED BY <3>2, <3>3, <3>4 DEF TokensOK
  <2>7. SerialsOK'
    BY <1>1, <2>4, <2>5 DEF IInv, SerialsOK, Signed, Enrolled
  <2>8. OldOK'
    BY <1>1, <2>4, <2>5 DEF IInv, OldOK, Signed, Refreshing, Enrolled
  <2>9. Logged'
    BY <1>1, <2>4, <2>5 DEF IInv, Logged, RevokedLogged, Enrolled
  <2> QED BY <1>3, <2>2, <2>6, <2>7, <2>8, <2>9 DEF IInv
<1>6. CASE run' = [run EXCEPT ![w] = Idle]
  <2>1. /\ RunsOK' /\ \A v \in Runs : v # w => run'[v] = run[v]
        /\ ~Admitted(w)' /\ ~Signed(w)' /\ ~Refreshing(w)' /\ run'[w].pc = "idle"
    BY <1>6, RunEnds
  <2>2. TokensOK'
    <3>1. \A v \in Runs : Admitted(v)' => Admitted(v) /\ run'[v].of = run[v].of /\ run'[v].of \in Tokens
                                         /\ run'[v].of # t
      BY <1>2, <2>1 DEF IInv, RunsOK, Fit, Admitted
    <3> QED BY <1>1, <1>4, <3>1 DEF IInv, TokensOK
  <2>3. SerialsOK'
    BY <1>1, <2>1 DEF IInv, SerialsOK, Signed, Enrolled
  <2>4. OldOK'
    BY <1>1, <2>1 DEF IInv, OldOK, Signed, Refreshing, Enrolled
  <2>5. Logged'
    BY <1>1, <2>1 DEF IInv, Logged, RevokedLogged, Enrolled
  <2> QED BY <1>3, <2>1, <2>2, <2>3, <2>4, <2>5 DEF IInv
<1> QED BY <1>5, <1>6 DEF LoginWithAppRole

\* The next serial is above all that were signed: no row, no run and no list has it.
LEMMA SignAgentCSRIInv ==
    ASSUME IInv, NEW w \in Runs, SignAgentCSR(w)
    PROVE  IInv'
<1>1. /\ run[w].pc = "sign" /\ issued < MaxSerial /\ issued \in 0 .. MaxSerial
      /\ issued' = issued + 1 /\ issued' \in 0 .. MaxSerial
      /\ UNCHANGED <<secret, token, crl, ep, deny, stream, log>>
  BY IdentityAssumption DEF SignAgentCSR, gateway, IInv, TablesOK
<1>2. 1 .. issued \subseteq 1 .. issued' /\ issued' \in 1 .. issued' /\ issued' \notin 1 .. issued
  BY <1>1, IdentityAssumption
<1>3. TablesOK' /\ Named' /\ CurrentValid' /\ OneOwner'
  BY <1>1, <1>2 DEF IInv, TablesOK, Named, CurrentValid, OneOwner, Enrolled
<1>4. CASE run' = [run EXCEPT ![w] = Idle]
  <2>1. /\ RunsOK' /\ \A v \in Runs : v # w => run'[v] = run[v]
        /\ ~Admitted(w)' /\ ~Signed(w)' /\ ~Refreshing(w)' /\ run'[w].pc = "idle"
    BY <1>4, RunEnds
  <2>2. TokensOK'
    BY <1>1, <2>1 DEF IInv, TokensOK, Admitted
  <2>3. SerialsOK'
    BY <1>1, <1>2, <2>1 DEF IInv, SerialsOK, Signed, Enrolled
  <2>4. OldOK'
    BY <1>1, <1>2, <2>1 DEF IInv, OldOK, Signed, Refreshing, Enrolled
  <2>5. Logged'
    BY <1>1, <2>1 DEF IInv, Logged, RevokedLogged, Enrolled
  <2> QED BY <1>3, <2>1, <2>2, <2>3, <2>4, <2>5 DEF IInv
<1>5. ASSUME run' # [run EXCEPT ![w] = Idle]
      PROVE  IInv'
  <2> DEFINE r == [run[w] EXCEPT !.pc = IF run[w].op = "enroll" THEN "insert" ELSE "mark", !.new = issued']
  <2>1. run' = [run EXCEPT ![w] = r]
    BY <1>1, <1>5 DEF SignAgentCSR
  <2>2. /\ r.pc = IF run[w].op = "enroll" THEN "insert" ELSE "mark"
        /\ r.new = issued' /\ r.op = run[w].op /\ r.of = run[w].of /\ r.ep = run[w].ep
        /\ r.old = run[w].old /\ r.op \in {"enroll", "refresh"}
    BY <1>1 DEF IInv, RunsOK, Runner, Fit
  <2>3. r \in Runner
    BY <1>1 DEF IInv, RunsOK, Runner, Steps
  <2>4. Fit(r)
    BY <1>1, <2>2 DEF IInv, RunsOK, Fit
  <2> HIDE DEF r
  <2>5. RunsOK' /\ run'[w] = r /\ \A v \in Runs : v # w => run'[v] = run[v]
    BY <2>1, <2>3, <2>4, RunSet DEF IInv
  <2>6. TokensOK' /\ Logged'
    BY <1>1, <2>2, <2>5 DEF IInv, TokensOK, Admitted, Logged, RevokedLogged, Enrolled
  <2>7. SerialsOK'
    <3>1. \A e \in Enrolled : ep[e].serial # issued' /\ e # issued'
      BY <1>2 DEF IInv, SerialsOK
    <3>2. \A v \in Runs : Signed(v) => run[v].new # issued'
      BY <1>2 DEF IInv, SerialsOK
    <3>3. issued' \notin crl /\ ~ep[issued'].there
      BY <1>1, <1>2, <3>1 DEF IInv, TablesOK, Enrolled, Serial
    <3> QED BY <1>1, <1>2, <2>2, <2>5, <3>1, <3>2, <3>3 DEF IInv, SerialsOK, Signed, Enrolled
  <2>8. OldOK'
    <3>1. \A v \in Runs : Refreshing(v) => run[v].old # issued'
      BY <1>2 DEF IInv, OldOK
    <3> QED BY <1>1, <1>2, <2>2, <2>5, <3>1 DEF IInv, OldOK, Signed, Refreshing, Enrolled
  <2> QED BY <1>3, <2>5, <2>6, <2>7, <2>8 DEF IInv
<1> QED BY <1>4, <1>5

\* The new row's serial is nobody's yet, and the token named no endpoint.
LEMMA InsertEndpointIInv ==
    ASSUME IInv, NEW w \in Runs, InsertEndpoint(w)
    PROVE  IInv'
<1> DEFINE n == run[w].new
           t == run[w].of
           r == [there |-> TRUE, serial |-> n, active |-> TRUE]
<1>1. /\ run[w].pc = "insert" /\ run[w].op = "enroll" /\ t \in Tokens
      /\ Admitted(w) /\ Signed(w) /\ token[t].by = 0 /\ secret[t] = "used"
      /\ UNCHANGED <<secret, issued, crl, deny, stream, log>>
      /\ run' = [run EXCEPT ![w] = Idle]
  BY DEF InsertEndpoint, At, vault, gateway, IInv, RunsOK, Fit, TokensOK, Admitted, Signed
<1>2. /\ n \in 1 .. issued /\ n \in 0 .. MaxSerial /\ n # 0 /\ n \in Serial /\ n \notin crl
      /\ ~ep[n].there /\ \A e \in Enrolled : ep[e].serial # n
  BY <1>1, IdentityAssumption DEF IInv, SerialsOK, TablesOK, Serial
<1>3. /\ RunsOK' /\ \A v \in Runs : v # w => run'[v] = run[v]
      /\ ~Admitted(w)' /\ ~Signed(w)' /\ ~Refreshing(w)' /\ run'[w].pc = "idle"
  BY <1>1, RunEnds
<1>4. r \in EndpointRow /\ r.there /\ r.active /\ r.serial = n
  BY <1>2 DEF EndpointRow
<1>5. ep' = [ep EXCEPT ![n] = r] /\ token' = [token EXCEPT ![t].by = n]
  BY <1>1 DEF InsertEndpoint
<1> HIDE DEF r, n, t
<1>6. ep' \in [Serial -> EndpointRow] /\ ep'[n] = r /\ \A e \in Serial : e # n => ep'[e] = ep[e]
  BY <1>2, <1>4, <1>5 DEF IInv, TablesOK
<1>7. token' \in [Tokens -> TokenRow] /\ token'[t].by = n /\ \A u \in Tokens : u # t => token'[u] = token[u]
  BY <1>1, <1>2, <1>5 DEF IInv, TablesOK, TokenRow
<1>8. Enrolled' = Enrolled \cup {n} /\ \A e \in Enrolled : e # n /\ e \in Serial /\ ep'[e] = ep[e]
  BY <1>2, <1>4, <1>6 DEF Enrolled
<1>9. TablesOK'
  BY <1>1, <1>6, <1>7 DEF IInv, TablesOK
<1>10. TokensOK'
  <2>1. \A v \in Runs : Admitted(v)' =>
          v # w /\ Admitted(v) /\ run'[v].of = run[v].of /\ run[v].of \in Tokens /\ run[v].of # t
    BY <1>1, <1>3 DEF IInv, RunsOK, Fit, TokensOK, Admitted, t
  <2> QED BY <1>1, <1>7, <2>1 DEF IInv, TokensOK
<1>11. Named'
  <2>1. {u \in Tokens : token'[u].by # 0} = {u \in Tokens : token[u].by # 0} \cup {t}
    BY <1>1, <1>2, <1>7
  <2>2. IsFiniteSet({u \in Tokens : token'[u].by # 0})
    BY <2>1, FS_AddElement DEF IInv, Named
  <2>3. \A e \in Enrolled' : \E u \in Tokens : token'[u].by = e
    <3>1. ASSUME NEW e \in Enrolled
          PROVE  \E u \in Tokens : token'[u].by = e
      <4>1. PICK u \in Tokens : token[u].by = e
        BY DEF IInv, Named
      <4>2. u # t
        BY <1>1, <4>1, IdentityAssumption DEF Enrolled, Serial
      <4> QED BY <1>7, <4>1, <4>2
    <3> QED BY <1>1, <1>7, <1>8, <3>1
  <2> QED BY <2>2, <2>3 DEF Named
<1>12. \A v \in Runs : Signed(v)' => v # w /\ Signed(v) /\ run[v].new # n
  BY <1>1, <1>3 DEF IInv, SerialsOK, Signed, n
<1>13. SerialsOK'
  <2>1. \A e \in Enrolled' : e \in 1 .. issued' /\ ep'[e].serial \in 1 .. issued'
    BY <1>1, <1>2, <1>4, <1>6, <1>8 DEF IInv, SerialsOK
  <2>2. \A v \in Runs : Signed(v)' =>
          /\ run'[v].new \in 1 .. issued' /\ run'[v].new \notin crl'
          /\ \A e \in Enrolled' : ep'[e].serial # run'[v].new
    BY <1>1, <1>3, <1>4, <1>6, <1>8, <1>12 DEF IInv, SerialsOK
  <2>3. \A v \in Runs : Signed(v)' /\ run'[v].pc = "insert" => ~ep'[run'[v].new].there
    <3>1. ASSUME NEW v \in Runs, Signed(v)', run'[v].pc = "insert"
          PROVE  ~ep'[run'[v].new].there
      <4>1. v # w /\ run'[v] = run[v] /\ Signed(v) /\ run[v].new # n
        BY <1>3, <1>12, <3>1
      <4>2. run[v].new \in Serial /\ ~ep[run[v].new].there
        BY <3>1, <4>1, IdentityAssumption DEF IInv, SerialsOK, TablesOK, Serial
      <4> QED BY <1>6, <4>1, <4>2
    <3> QED BY <3>1
  <2>4. \A u, v \in Runs : Signed(u)' /\ Signed(v)' /\ run'[u].new = run'[v].new => u = v
    BY <1>3, <1>12 DEF IInv, SerialsOK
  <2> QED BY <2>1, <2>2, <2>3, <2>4 DEF SerialsOK
<1>14. OldOK'
  <2>1. ASSUME NEW v \in Runs, Refreshing(v)'
        PROVE  /\ run'[v].old \in 1 .. issued'
               /\ \A e \in Enrolled' : ep'[e].serial = run'[v].old => e = run'[v].ep /\ run'[v].pc # "crl"
               /\ \A u \in Runs : Signed(u)' => run'[u].new # run'[v].old
    <3>1. v # w /\ run'[v] = run[v] /\ Refreshing(v) /\ run[v].old # n
      BY <1>1, <1>3, <2>1 DEF IInv, OldOK, Refreshing, n
    <3> QED BY <1>1, <1>3, <1>4, <1>6, <1>8, <1>12, <3>1 DEF IInv, OldOK
  <2> QED BY <2>1 DEF OldOK
<1>15. CurrentValid' /\ OneOwner'
  BY <1>1, <1>2, <1>4, <1>6, <1>8 DEF IInv, CurrentValid, OneOwner
<1>16. Logged'
  BY <1>1, <1>3, <1>4, <1>6, <1>8 DEF IInv, Logged, RevokedLogged
<1> QED BY <1>3, <1>9, <1>10, <1>11, <1>13, <1>14, <1>15, <1>16 DEF IInv

\* The serial read is this row's and no other's.
LEMMA RefreshTokenIInv ==
    ASSUME IInv, NEW w \in Runs, NEW e \in Serial, RefreshToken(w, e)
    PROVE  IInv'
<1> DEFINE r == [Idle EXCEPT !.pc = "sign", !.op = "refresh", !.ep = e, !.old = ep[e].serial]
<1>1. e \in Enrolled /\ ep[e].serial \in 0 .. MaxSerial /\ e \in 0 .. MaxSerial
  BY IdentityAssumption DEF RefreshToken, Enrolled, IInv, TablesOK, EndpointRow, Serial
<1>2. r.pc = "sign" /\ r.op = "refresh" /\ r.ep = e /\ r.old = ep[e].serial /\ r \in Runner
  BY <1>1, RunIdle DEF Runner, Steps
<1>3. Fit(r)
  BY <1>2 DEF Fit
<1>4. run' = [run EXCEPT ![w] = r] /\ UNCHANGED <<secret, token, issued, crl, ep, deny, stream, log>>
  BY DEF RefreshToken, Asked, vault, gateway
<1> HIDE DEF r
<1>5. RunsOK' /\ run'[w] = r /\ \A v \in Runs : v # w => run'[v] = run[v]
  BY <1>2, <1>3, <1>4, RunSet DEF IInv
<1>6. ~Admitted(w)' /\ ~Signed(w)' /\ run'[w].pc # "write"
  BY <1>2, <1>5 DEF Admitted, Signed
<1>7. TablesOK' /\ Named' /\ CurrentValid' /\ OneOwner'
  BY <1>4 DEF IInv, TablesOK, Named, CurrentValid, OneOwner, Enrolled
<1>8. TokensOK'
  BY <1>4, <1>5, <1>6 DEF IInv, TokensOK, Admitted
<1>9. SerialsOK'
  BY <1>4, <1>5, <1>6 DEF IInv, SerialsOK, Signed, Enrolled
<1>10. OldOK'
  <2>1. ep[e].serial \in 1 .. issued /\ \A f \in Enrolled : ep[f].serial = ep[e].serial => f = e
    BY <1>1 DEF IInv, SerialsOK, OneOwner
  <2>2. \A v \in Runs : Signed(v)' => Signed(v) /\ run'[v].new = run[v].new /\ run[v].new # ep[e].serial
    BY <1>1, <1>5, <1>6 DEF IInv, SerialsOK, Signed
  <2>3. \A v \in Runs : v # w => (Refreshing(v)' <=> Refreshing(v))
    BY <1>5 DEF Refreshing
  <2> QED BY <1>2, <1>4, <1>5, <2>1, <2>2, <2>3 DEF IInv, OldOK, Enrolled
<1>11. Logged'
  BY <1>4, <1>5, <1>6 DEF IInv, Logged, RevokedLogged, Enrolled
<1> QED BY <1>5, <1>7, <1>8, <1>9, <1>10, <1>11 DEF IInv

\* The row takes the new serial, and none has the old one any more.
LEMMA MarkRefreshedIInv ==
    ASSUME IInv, NEW w \in Runs, MarkRefreshed(w)
    PROVE  IInv'
<1> DEFINE n == run[w].new
           e == run[w].ep
<1>1. /\ run[w].pc = "mark" /\ run[w].op = "refresh" /\ e \in Serial /\ Signed(w) /\ Refreshing(w)
      /\ UNCHANGED <<secret, token, issued, crl, deny, stream, log>>
      /\ run' = [run EXCEPT ![w].pc = "crl"]
  BY DEF MarkRefreshed, At, Goto, vault, gateway, IInv, RunsOK, Fit, Signed, Refreshing
<1>2. /\ n \in 1 .. issued /\ n \in 0 .. MaxSerial /\ n \notin crl
      /\ n # run[w].old /\ \A f \in Enrolled : ep[f].serial # n
  BY <1>1, IdentityAssumption DEF IInv, SerialsOK, OldOK, TablesOK
<1>3. Fit([run[w] EXCEPT !.pc = "crl"])
  BY <1>1 DEF IInv, RunsOK, Runner, Fit
<1>4. RunsOK' /\ run'[w] = [run[w] EXCEPT !.pc = "crl"] /\ \A v \in Runs : v # w => run'[v] = run[v]
  BY <1>1, <1>3, RunGoesOn DEF IInv, Steps
<1>5. /\ run'[w].pc = "crl" /\ run'[w].op = "refresh" /\ run'[w].old = run[w].old /\ run'[w].ep = e
      /\ RunsOK' /\ \A v \in Runs : v # w => run'[v] = run[v]
  BY <1>1, <1>4 DEF IInv, RunsOK, Runner
<1>6. ~Admitted(w)' /\ ~Signed(w)'
  BY <1>5 DEF Admitted, Signed
<1>7. ep' = IF ep[e].there THEN [ep EXCEPT ![e].serial = n] ELSE ep
  BY DEF MarkRefreshed, SetSerial
<1> HIDE DEF n, e
<1>8. /\ ep' \in [Serial -> EndpointRow]
      /\ \A f \in Serial : /\ ep'[f].there = ep[f].there /\ ep'[f].active = ep[f].active
                           /\ ep'[f].serial = IF f = e /\ ep[e].there THEN n ELSE ep[f].serial
  BY <1>1, <1>2, <1>7 DEF IInv, TablesOK, EndpointRow
<1>9. Enrolled' = Enrolled /\ \A f \in Enrolled : f \in Serial /\ ep'[f].active = ep[f].active
                                  /\ ep'[f].serial = IF f = e THEN n ELSE ep[f].serial
  BY <1>8 DEF Enrolled
<1>10. TablesOK' /\ Named'
  BY <1>1, <1>8, <1>9 DEF IInv, TablesOK, Named
<1>11. TokensOK'
  BY <1>1, <1>5, <1>6 DEF IInv, TokensOK, Admitted
<1>12. \A v \in Runs : Signed(v)' => v # w /\ Signed(v) /\ run'[v] = run[v] /\ run[v].new # n
  BY <1>1, <1>5, <1>6 DEF IInv, SerialsOK, Signed, n
<1>13. SerialsOK'
  <2>1. \A f \in Enrolled' : f \in 1 .. issued' /\ ep'[f].serial \in 1 .. issued'
    BY <1>1, <1>2, <1>9 DEF IInv, SerialsOK
  <2>2. \A v \in Runs : Signed(v)' =>
          /\ run'[v].new \in 1 .. issued' /\ run'[v].new \notin crl'
          /\ \A f \in Enrolled' : ep'[f].serial # run'[v].new
    BY <1>1, <1>9, <1>12 DEF IInv, SerialsOK
  <2>3. ASSUME NEW v \in Runs, Signed(v)', run'[v].pc = "insert"
        PROVE  ~ep'[run'[v].new].there
    <3>1. Signed(v) /\ run'[v] = run[v]
      BY <1>12, <2>3
    <3>2. run[v].new \in Serial /\ ~ep[run[v].new].there
      BY <2>3, <3>1, IdentityAssumption DEF IInv, SerialsOK, TablesOK, Serial
    <3> QED BY <1>8, <3>1, <3>2
  <2>4. \A u, v \in Runs : Signed(u)' /\ Signed(v)' /\ run'[u].new = run'[v].new => u = v
    BY <1>12 DEF IInv, SerialsOK
  <2> QED BY <2>1, <2>2, <2>3, <2>4 DEF SerialsOK
<1>14. OldOK'
  <2>1. ASSUME NEW v \in Runs, Refreshing(v)'
        PROVE  /\ run'[v].old \in 1 .. issued'
               /\ \A f \in Enrolled' : ep'[f].serial = run'[v].old => f = run'[v].ep /\ run'[v].pc # "crl"
               /\ \A u \in Runs : Signed(u)' => run'[u].new # run'[v].old
    <3>1. Refreshing(v) /\ run'[v].old = run[v].old /\ run'[v].ep = run[v].ep /\ run[v].old # n
          /\ (v # w => run'[v].pc = run[v].pc)
      BY <1>1, <1>5, <2>1 DEF IInv, OldOK, Refreshing, n, e
    <3>2. \A f \in Enrolled : ep[f].serial = run[v].old => f = run[v].ep /\ run[v].pc # "crl"
      BY <3>1 DEF IInv, OldOK
    <3>3. v = w => run[v].ep = e
      BY DEF e
    <3> QED BY <1>1, <1>9, <1>12, <3>1, <3>2, <3>3 DEF IInv, OldOK
  <2> QED BY <2>1 DEF OldOK
<1>15. CurrentValid' /\ OneOwner'
  BY <1>1, <1>2, <1>9 DEF IInv, CurrentValid, OneOwner
<1>16. Logged'
  <2>1. \A v \in Runs : run'[v].pc = "write" => run'[v] = run[v]
    BY <1>5
  <2>2. \A f \in Enrolled' : ~ep'[f].active => <<"revoked", f>> \in log'
    BY <1>1, <1>9 DEF IInv, Logged, RevokedLogged
  <2> QED BY <1>1, <2>1, <2>2 DEF IInv, Logged, RevokedLogged
<1> QED BY <1>5, <1>10, <1>11, <1>13, <1>14, <1>15, <1>16 DEF IInv

\* No row has the serial that is revoked, and no run has just signed it.
LEMMA RevokeCertIInv ==
    ASSUME IInv, NEW w \in Runs, RevokeCert(w)
    PROVE  IInv'
<1> DEFINE s == run[w].old
<1>1. /\ Refreshing(w) /\ run[w].pc = "crl"
      /\ UNCHANGED <<secret, token, issued, ep, deny, stream, log>>
      /\ run' = [run EXCEPT ![w] = Idle]
      /\ crl' \subseteq crl \cup {s}
  BY DEF RevokeCert, At, PkiRevoke, gateway, Refreshing
<1>2. s \in 1 .. issued /\ (\A e \in Enrolled : ep[e].serial # s) /\ \A v \in Runs : Signed(v) => run[v].new # s
  BY <1>1 DEF IInv, OldOK
<1>3. /\ RunsOK' /\ \A v \in Runs : v # w => run'[v] = run[v]
      /\ ~Admitted(w)' /\ ~Signed(w)' /\ ~Refreshing(w)' /\ run'[w].pc = "idle"
  BY <1>1, RunEnds
<1> HIDE DEF s
<1>4. TablesOK' /\ Named' /\ CurrentValid' /\ OneOwner'
  BY <1>1, <1>2 DEF IInv, TablesOK, Named, CurrentValid, OneOwner, Enrolled
<1>5. TokensOK'
  BY <1>1, <1>3 DEF IInv, TokensOK, Admitted
<1>6. SerialsOK'
  <2>1. \A v \in Runs : Signed(v)' => Signed(v) /\ run'[v] = run[v] /\ run[v].new # s
    BY <1>2, <1>3 DEF Signed
  <2> QED BY <1>1, <2>1 DEF IInv, SerialsOK, Enrolled
<1>7. OldOK'
  BY <1>1, <1>3 DEF IInv, OldOK, Signed, Refreshing, Enrolled
<1>8. Logged'
  BY <1>1, <1>3 DEF IInv, Logged, RevokedLogged, Enrolled
<1> QED BY <1>3, <1>4, <1>5, <1>6, <1>7, <1>8 DEF IInv

LEMMA RevokeAuditIInv ==
    ASSUME IInv, NEW w \in Runs, RevokeAudit(w)
    PROVE  IInv'
<1>1. /\ run[w].pc = "audit" /\ run[w].op \in {"revoked", "deleted"} /\ run[w].ep \in Serial
      /\ run' = [run EXCEPT ![w].pc = "write"] /\ log' = log \cup {<<run[w].op, run[w].ep>>}
      /\ UNCHANGED <<secret, token, issued, crl, ep, deny, stream>>
  BY DEF RevokeAudit, Goto, vault, gateway, IInv, RunsOK, Fit
<1>2. Fit([run[w] EXCEPT !.pc = "write"])
  BY <1>1 DEF IInv, RunsOK, Runner, Fit
<1>3. RunsOK' /\ run'[w] = [run[w] EXCEPT !.pc = "write"] /\ \A v \in Runs : v # w => run'[v] = run[v]
  BY <1>1, <1>2, RunGoesOn DEF IInv, Steps
<1>4. /\ run'[w].pc = "write" /\ run'[w].op = run[w].op /\ run'[w].ep = run[w].ep
      /\ \A v \in Runs : v # w => run'[v] = run[v]
  BY <1>1, <1>3 DEF IInv, RunsOK, Runner
<1>5. ~Admitted(w)' /\ ~Signed(w)' /\ ~Refreshing(w)'
  BY <1>4 DEF Admitted, Signed, Refreshing
<1>6. TablesOK' /\ Named' /\ CurrentValid' /\ OneOwner'
  BY <1>1 DEF IInv, TablesOK, Named, CurrentValid, OneOwner, Enrolled
<1>7. TokensOK'
  BY <1>1, <1>4, <1>5 DEF IInv, TokensOK, Admitted
<1>8. SerialsOK'
  BY <1>1, <1>4, <1>5 DEF IInv, SerialsOK, Signed, Enrolled
<1>9. OldOK'
  BY <1>1, <1>4, <1>5 DEF IInv, OldOK, Signed, Refreshing, Enrolled
<1>10. Logged'
  BY <1>1, <1>4 DEF IInv, Logged, RevokedLogged, Enrolled
<1> QED BY <1>3, <1>6, <1>7, <1>8, <1>9, <1>10 DEF IInv

\* A write that only makes rows inactive or takes them away.
LEMMA RowsShrink ==
    ASSUME IInv, NEW w \in Runs, run' = [run EXCEPT ![w] = Idle], ep' \in [Serial -> EndpointRow],
           \A e \in Serial : ep'[e].there => /\ ep[e].there /\ ep'[e].serial = ep[e].serial
                                             /\ ~ep'[e].active => ~ep[e].active \/ <<"revoked", e>> \in log,
           UNCHANGED <<secret, token, issued, crl, deny, stream, log>>
    PROVE  IInv'
<1>1. /\ RunsOK' /\ \A v \in Runs : v # w => run'[v] = run[v]
      /\ ~Admitted(w)' /\ ~Signed(w)' /\ ~Refreshing(w)' /\ run'[w].pc = "idle"
  BY RunEnds
<1>2. \A e \in Enrolled' : e \in Enrolled /\ ep'[e].serial = ep[e].serial
  BY DEF Enrolled
<1>3. TablesOK' /\ Named' /\ CurrentValid' /\ OneOwner'
  BY <1>2 DEF IInv, TablesOK, Named, CurrentValid, OneOwner
<1>4. TokensOK'
  BY <1>1 DEF IInv, TokensOK, Admitted
<1>5. SerialsOK'
  <2>1. \A v \in Runs : Signed(v)' => Signed(v) /\ run'[v] = run[v]
    BY <1>1 DEF Signed
  <2>2. \A v \in Runs : Signed(v) => run[v].new \in Serial
    BY IdentityAssumption DEF IInv, SerialsOK, TablesOK, Serial
  <2>3. \A v \in Runs : Signed(v) /\ run[v].pc = "insert" => ~ep'[run[v].new].there
    BY <2>2 DEF IInv, SerialsOK
  <2>4. \A e \in Enrolled' : e \in 1 .. issued' /\ ep'[e].serial \in 1 .. issued'
    BY <1>2 DEF IInv, SerialsOK
  <2>5. \A v \in Runs : Signed(v)' =>
          /\ run'[v].new \in 1 .. issued' /\ run'[v].new \notin crl'
          /\ \A e \in Enrolled' : ep'[e].serial # run'[v].new
    BY <1>2, <2>1 DEF IInv, SerialsOK
  <2>6. \A u, v \in Runs : Signed(u)' /\ Signed(v)' /\ run'[u].new = run'[v].new => u = v
    BY <2>1 DEF IInv, SerialsOK
  <2> QED BY <2>1, <2>3, <2>4, <2>5, <2>6 DEF SerialsOK
<1>6. OldOK'
  BY <1>1, <1>2 DEF IInv, OldOK, Signed, Refreshing
<1>7. Logged'
  <2>1. \A e \in Enrolled' : ~ep'[e].active => <<"revoked", e>> \in log
    BY <1>2 DEF Enrolled, IInv, Logged, RevokedLogged
  <2> QED BY <1>1, <2>1 DEF IInv, Logged, RevokedLogged
<1> QED BY <1>1, <1>3, <1>4, <1>5, <1>6, <1>7 DEF IInv

LEMMA RevokeWriteIInv ==
    ASSUME IInv, NEW w \in Runs, RevokeWrite(w)
    PROVE  IInv'
<1>1. /\ <<"revoked", run[w].ep>> \in log /\ run[w].ep \in Serial
      /\ run' = [run EXCEPT ![w] = Idle] /\ ep' = [ep EXCEPT ![run[w].ep].active = FALSE]
      /\ UNCHANGED <<secret, token, issued, crl, deny, stream, log>>
  BY DEF RevokeWrite, At, vault, gateway, IInv, RunsOK, Fit, Logged
<1>2. /\ ep' \in [Serial -> EndpointRow]
      /\ \A e \in Serial : /\ ep'[e].there = ep[e].there /\ ep'[e].serial = ep[e].serial
                           /\ e # run[w].ep => ep'[e].active = ep[e].active
  BY <1>1 DEF IInv, TablesOK, EndpointRow
<1> QED BY <1>1, <1>2, RowsShrink

LEMMA DeleteIInv ==
    ASSUME IInv, NEW w \in Runs, Delete(w)
    PROVE  IInv'
<1>1. /\ run[w].ep \in Serial /\ run' = [run EXCEPT ![w] = Idle]
      /\ ep' = ep \/ ep' = [ep EXCEPT ![run[w].ep] = NoRow]
      /\ UNCHANGED <<secret, token, issued, crl, deny, stream, log>>
  BY DEF Delete, At, vault, gateway, IInv, RunsOK, Fit
<1>2. NoRow \in EndpointRow /\ ~NoRow.there
  BY IdentityAssumption DEF NoRow, EndpointRow
<1>3. /\ ep' \in [Serial -> EndpointRow]
      /\ \A e \in Serial : ep'[e] = ep[e] \/ ~ep'[e].there
  BY <1>1, <1>2 DEF IInv, TablesOK
<1> QED BY <1>1, <1>3, RowsShrink

\* The gateway reads the rows and writes its own list and streams only.
LEMMA GatewayIInv ==
    ASSUME IInv, deny' \subseteq 1 .. issued, stream' \subseteq Serial,
           UNCHANGED <<secret, token, issued, crl, ep, log, run>>
    PROVE  IInv'
BY DEF IInv, TablesOK, RunsOK, TokensOK, Named, SerialsOK, OldOK, CurrentValid, OneOwner, Logged,
       RevokedLogged, Enrolled, Admitted, Signed, Refreshing

LEMMA AuthenticateIInv ==
    ASSUME IInv, NEW s \in Serial, Authenticate(s)
    PROVE  IInv'
<1>1. PICK e \in ByCertSerial(s) :
        \/ ep[e].active /\ stream' = stream \cup {e} /\ deny' = deny
        \/ ~ep[e].active /\ deny' = deny \cup {s} /\ stream' = stream
  BY DEF Authenticate
<1>2. e \in Serial /\ s \in 1 .. issued
  BY <1>1 DEF ByCertSerial, Enrolled, IInv, SerialsOK
<1>3. stream' \subseteq Serial /\ deny' \subseteq 1 .. issued
  BY <1>1, <1>2 DEF IInv, TablesOK
<1> QED BY <1>3, GatewayIInv DEF Authenticate, vault

LEMMA NextIInv == IInv /\ [Next]_vars => IInv'
<1> SUFFICES ASSUME IInv, [Next]_vars
             PROVE  IInv'
  OBVIOUS
<1>1. ASSUME NEW t \in Tokens, Enroll(t) PROVE IInv'
  BY <1>1, EnrollIInv
<1>2. ASSUME NEW w \in Runs, NEW t \in Tokens, AgentEnroll(w, t) PROVE IInv'
  BY <1>2, AgentEnrollIInv
<1>3. ASSUME NEW w \in Runs, NEW e \in Serial, RefreshToken(w, e) \/ Revoke(w, e) PROVE IInv'
  BY <1>3, RefreshTokenIInv, RevokeIInv
<1>4. ASSUME NEW w \in Runs,
             LoginWithAppRole(w) \/ SignAgentCSR(w) \/ InsertEndpoint(w) \/ Fail(w) \/ MarkRefreshed(w)
             \/ RevokeCert(w) \/ RevokeAudit(w) \/ RevokeWrite(w) \/ Delete(w)
      PROVE  IInv'
  BY <1>4, LoginWithAppRoleIInv, SignAgentCSRIInv, InsertEndpointIInv, FailIInv, MarkRefreshedIInv,
     RevokeCertIInv, RevokeAuditIInv, RevokeWriteIInv, DeleteIInv
<1>5. ASSUME NEW s \in Serial, Authenticate(s) PROVE IInv'
  BY <1>5, AuthenticateIInv
<1>6. ASSUME NEW e \in Serial, Disconnect(e) PROVE IInv'
  <2>1. stream' \subseteq Serial /\ deny' \subseteq 1 .. issued
    BY <1>6 DEF Disconnect, IInv, TablesOK
  <2> QED BY <1>6, <2>1, GatewayIInv DEF Disconnect, vault
<1>7. CASE RefreshDenyList
  <2>1. stream' \subseteq Serial /\ deny' \subseteq 1 .. issued
    BY <1>7 DEF RefreshDenyList, IInv, TablesOK
  <2> QED BY <1>7, <2>1, GatewayIInv DEF RefreshDenyList, vault
<1>8. CASE UNCHANGED vars
  <2>1. deny' \subseteq 1 .. issued /\ stream' \subseteq Serial
    BY <1>8 DEF vars, vault, gateway, IInv, TablesOK
  <2> QED BY <1>8, <2>1, GatewayIInv DEF vars, vault, gateway
<1> QED BY <1>1, <1>2, <1>3, <1>4, <1>5, <1>6, <1>7, <1>8 DEF Next

LEMMA Invariant == Spec => []IInv
BY InitIInv, NextIInv, PTL DEF Spec

-----------------------------------------------------------------------------
\* The tokens that name an endpoint are at least as many as the endpoints.
LEMMA TokensCover == IInv => OnePerToken
<1> SUFFICES ASSUME IInv PROVE OnePerToken
  OBVIOUS
<1> DEFINE S == {t \in Tokens : token[t].by # 0}
           f == [e \in Enrolled |-> CHOOSE t \in Tokens : token[t].by = e]
<1>1. \A e \in Enrolled : f[e] \in Tokens /\ token[f[e]].by = e
  BY DEF IInv, Named
<1>2. \A e \in Enrolled : f[e] \in S
  <2>1. \A e \in Enrolled : e # 0
    BY IdentityAssumption DEF Enrolled, Serial
  <2> HIDE DEF f
  <2> QED BY <1>1, <2>1
<1>3. f \in Injection(Enrolled, S)
  <2>1. f \in [Enrolled -> S]
    BY <1>2
  <2>2. \A d, e \in Enrolled : f[d] = f[e] => d = e
    BY <1>1
  <2> HIDE DEF f
  <2> QED BY <2>1, <2>2 DEF Injection, IsInjective
<1>4. IsFiniteSet(S)
  BY DEF IInv, Named
<1> HIDE DEF f
<1> QED BY <1>3, <1>4, FS_Injection DEF OnePerToken

LEMMA IInvTrue == IInv => IdentityTrue
BY Types, TokensCover DEF IInv, IdentityTrue, Logged

\* A token enrolls one endpoint, a row names one valid certificate that no other
\* row names, and no row is revoked without its entry: however many requests run
\* together, in whatever order, and wherever they fail.
THEOREM OneIdentity == Spec => []IdentityTrue
BY Invariant, IInvTrue, PTL

\* No step makes a revoked row active, and the gateway opens no stream for one.
LEMMA StepStaysOut ==
    ASSUME IInv, Next, NEW e \in Serial, <<"revoked", e>> \in log, ep[e].there, ~ep[e].active
    PROVE  ~ep'[e].active /\ (e \in stream' => e \in stream)
<1>1. CASE UNCHANGED <<ep, stream>>
  BY <1>1
<1>2. ASSUME NEW w \in Runs, InsertEndpoint(w) PROVE ~ep'[e].active /\ UNCHANGED stream
  <2>1. Signed(w) /\ run[w].pc = "insert" /\ UNCHANGED stream
        /\ ep' = [ep EXCEPT ![run[w].new] = [there |-> TRUE, serial |-> run[w].new, active |-> TRUE]]
    BY <1>2 DEF InsertEndpoint, At, gateway, Signed
  <2>2. ~ep[run[w].new].there
    BY <2>1 DEF IInv, SerialsOK
  <2>3. ep'[e] = ep[e]
    BY <2>1, <2>2 DEF IInv, TablesOK
  <2> QED BY <2>1, <2>3
<1>3. ASSUME NEW w \in Runs, MarkRefreshed(w) PROVE ~ep'[e].active /\ UNCHANGED stream
  BY <1>3 DEF MarkRefreshed, SetSerial, gateway, IInv, TablesOK, EndpointRow
<1>4. ASSUME NEW w \in Runs, RevokeWrite(w) PROVE ~ep'[e].active /\ UNCHANGED stream
  BY <1>4 DEF RevokeWrite, gateway, IInv, TablesOK, EndpointRow
<1>5. ASSUME NEW w \in Runs, Delete(w) PROVE ~ep'[e].active /\ UNCHANGED stream
  <2>1. ~NoRow.active
    BY DEF NoRow
  <2> QED BY <1>5, <2>1 DEF Delete, gateway, IInv, TablesOK
<1>6. ASSUME NEW s \in Serial, Authenticate(s) \/ Disconnect(s)
      PROVE  ~ep'[e].active /\ (e \in stream' => e \in stream)
  BY <1>6 DEF Authenticate, Disconnect
<1>7. ASSUME NEW t \in Tokens, Enroll(t) PROVE UNCHANGED <<ep, stream>>
  BY <1>7 DEF Enroll, gateway
<1>8. ASSUME NEW w \in Runs, NEW t \in Tokens, AgentEnroll(w, t) PROVE UNCHANGED <<ep, stream>>
  BY <1>8 DEF AgentEnroll, gateway
<1>9. ASSUME NEW w \in Runs, NEW f \in Serial, RefreshToken(w, f) \/ Revoke(w, f) PROVE UNCHANGED <<ep, stream>>
  BY <1>9 DEF RefreshToken, Revoke, gateway
<1>10. ASSUME NEW w \in Runs, LoginWithAppRole(w) \/ SignAgentCSR(w) \/ Fail(w) \/ RevokeCert(w) \/ RevokeAudit(w)
       PROVE  UNCHANGED <<ep, stream>>
  BY <1>10 DEF LoginWithAppRole, SignAgentCSR, Fail, RevokeCert, RevokeAudit, gateway
<1>11. RefreshDenyList => UNCHANGED <<ep, stream>>
  BY DEF RefreshDenyList
<1> QED BY <1>1, <1>2, <1>3, <1>4, <1>5, <1>6, <1>7, <1>8, <1>9, <1>10, <1>11 DEF Next

\* A revoked endpoint stays revoked and gets no stream again, through whatever
\* refresh, enrollment or deletion was under way when it was revoked.
THEOREM StaysOut == Spec => RevokedStaysOut
<1> DEFINE Out == \A e \in Serial : <<"revoked", e>> \in log /\ ep[e].there /\ ~ep[e].active =>
                    ~ep'[e].active /\ (e \in stream' => e \in stream)
<1>1. IInv /\ [Next]_vars => [Out]_vars
  <2> SUFFICES ASSUME IInv, Next PROVE Out
    OBVIOUS
  <2> QED BY StepStaysOut
<1>2. [][IInv /\ [Next]_vars]_vars => [][Out]_vars
  BY <1>1, PTL
<1> QED BY <1>1, Invariant, PTL DEF Spec, RevokedStaysOut

-----------------------------------------------------------------------------
\* Remote commands (EC): what the rows, the stream and the audit log say of each other.

\* A command that the stream took is past its publication;
\* one it did not take is known to nobody.
Placed == \A c \in Cmds :
    /\ c \in bus => issue[c] \in {"audit", "mark", "ok", "error", "blind", "lost"}
    /\ issue[c] \in {"audit", "ok"} => c \in bus
    /\ issue[c] = "ok" => c \in entered
    /\ c \in bus /\ issue[c] = "error" => row[c].closed

Untouched == \A c \in Cmds \ bus :
    agent[c] = "idle" /\ ackLog[c] = <<>> /\ \A p \in Posts : p.cmd = c => acks[p] = "new"

\* The final reports that are in the row and not yet in the log.
Written(c) == {p \in Posts : p.cmd = c /\ p.new \in Terminal /\ acks[p] = "audit"}

\* Of a command whose reports did not race one is being written at a time, and none
\* once a final one is in the row.
Orderly(c) ==
    /\ \A p, q \in Posts : p.cmd = c /\ q.cmd = c /\ acks[p] = "write" /\ acks[q] = "write" => p = q
    /\ \A p, q \in Written(c) : p = q
    /\ \A i, j \in Finals(c) : i = j
    /\ Written(c) = {} \/ Finals(c) = {}
    /\ Written(c) # {} \/ Finals(c) # {} =>
           row[c].state \in Terminal /\ \A p \in Posts : p.cmd = c => acks[p] # "write"

Ordered == \A c \in Cmds \ raced : Orderly(c)

ECInv == ECTypeOK /\ Placed /\ Untouched /\ Ordered /\ BulkTrue

RowType == [state : States \cup {"none"}, acked : BOOLEAN, closed : BOOLEAN]

\* What UpdateState makes of a row.
LEMMA StampedType ==
    ASSUME NEW r \in RowType, NEW s \in States
    PROVE  /\ Stamped(r, s) \in RowType /\ Stamped(r, s).state = s
           /\ (r.closed => Stamped(r, s).closed)
           /\ (s \in Terminal => Stamped(r, s).closed)
  BY DEF Stamped, RowType, Terminal, States

\* The initial states satisfy the invariant.
LEMMA First ==
    ASSUME ECInit
    PROVE  ECInv
<1>1. ECTypeOK
  BY CommandAssumption DEF ECInit, ECTypeOK, Stages, UnderWay,
      Returned, States
<1>2. Placed /\ Untouched /\ BulkTrue
  BY DEF ECInit, Placed, Untouched, BulkTrue
<1>3. Ordered
  <2>1. \A c \in Cmds : Finals(c) = {} /\ Written(c) = {}
    <3> SUFFICES ASSUME NEW c \in Cmds PROVE Finals(c) = {} /\ Written(c) = {}
      OBVIOUS
    <3>1. ackLog[c] = <<>> /\ Len(<<>>) = 0
      BY EmptySeq DEF ECInit
    <3> QED
      BY <3>1 DEF ECInit, Finals, Written
  <2> QED
    BY <2>1 DEF ECInit, Ordered, Orderly
<1> QED
  BY <1>1, <1>2, <1>3 DEF ECInv

\* What a call that issues a command does to the rest.
Issuing(c) ==
    /\ c \in Cmds /\ UNCHANGED <<agent, acks, ackLog, summary, captured, raced>>
    /\ issue' \in [Cmds -> Stages] /\ \A d \in Cmds \ {c} : issue'[d] = issue[d]
    /\ row' \in [Cmds -> RowType] /\ \A d \in Cmds \ {c} : row'[d] = row[d]
    /\ entered' \in {entered, entered \cup {c}} /\ bus' \in {bus, bus \cup {c}}
    /\ fails' \in 0..MaxFails

\* A step of the call keeps the invariant if it leaves a final row final, moves the call
\* on as the stream and the log demand, and reports no failure of a command that the
\* stream took and the row does not show as closed.
LEMMA IssuingKeeps ==
    ASSUME ECInv, NEW c, Issuing(c),
           row'[c].state \in Terminal \/ row'[c].state = row[c].state \/ c \notin bus,
           c \in bus' => issue'[c] \in {"audit", "mark", "ok", "error", "blind", "lost"},
           issue'[c] \in {"audit", "ok"} => c \in bus',
           issue'[c] = "ok" => c \in entered',
           c \in bus' /\ issue'[c] = "error" => row'[c].closed
    PROVE  ECInv'
<1> USE DEF ECInv, Issuing
<1>1. ECTypeOK'
  BY DEF ECTypeOK, RowType
<1>2. Placed'
  BY DEF Placed
<1>3. Untouched'
  BY DEF Untouched
<1>4. BulkTrue'
  BY DEF BulkTrue
<1>5. Ordered'
  <2> SUFFICES ASSUME NEW d \in Cmds \ raced
               PROVE  Orderly(d)'
    BY DEF Ordered, Orderly, Written, Finals
  <2>1. d \notin bus => Written(d) = {} /\ Finals(d) = {}
    <3> SUFFICES ASSUME d \notin bus PROVE Written(d) = {} /\ Finals(d) = {}
      OBVIOUS
    <3>1. ackLog[d] = <<>> /\ Len(<<>>) = 0
      BY EmptySeq DEF Untouched
    <3>2. Finals(d) = {}
      BY <3>1 DEF Finals
    <3>3. Written(d) = {}
      BY DEF Untouched, Written
    <3> QED
      BY <3>2, <3>3
  <2>2. Written(d) # {} \/ Finals(d) # {} => row'[d].state \in Terminal
    BY <2>1 DEF Ordered, Orderly
  <2>3. Written(d)' = Written(d) /\ Finals(d)' = Finals(d)
    BY DEF Written, Finals
  <2> QED
    BY <2>2, <2>3 DEF Ordered, Orderly
<1> QED
  BY <1>1, <1>2, <1>3, <1>4, <1>5

\* issueCommand keeps it.
LEMMA IssueStep ==
    ASSUME ECInv, NEW c \in Cmds, Issue(c)
    PROVE  ECInv'
<1>1. /\ ECTypeOK /\ row \in [Cmds -> RowType] /\ issue \in [Cmds -> Stages]
      /\ fails \in 0..MaxFails
      /\ fails \in Nat /\ MaxFails \in Nat
  BY CommandAssumption DEF ECInv, ECTypeOK, RowType
<1>2. Failing => fails' \in 0..MaxFails
  BY <1>1 DEF Failing
<1> USE DEF Advance, UnderWay, Returned, Stages
<1>3. CASE Check(c)
  <2>1. /\ Issuing(c) /\ row' = row /\ bus' = bus
        /\ issue'[c] \in {"insert", "error"} /\ issue[c] = "new"
    BY <1>1, <1>3 DEF Check, Issuing
  <2> QED
    BY <2>1, IssuingKeeps DEF ECInv, Placed
<1>4. CASE Create(c)
  <2>1. /\ Issuing(c) /\ bus' = bus /\ issue'[c] = "publish" /\ issue[c] = "insert"
    BY <1>1, <1>4 DEF Create, Issuing, RowType, States
  <2>2. c \notin bus
    BY <2>1 DEF ECInv, Placed
  <2> QED
    BY <2>1, <2>2, IssuingKeeps
<1>5. CASE CreateFails(c)
  <2>1. Issuing(c) /\ row' = row /\ bus' = bus /\ issue'[c] = "error" /\ issue[c] = "insert"
    BY <1>1, <1>2, <1>5 DEF CreateFails, Issuing
  <2> QED
    BY <2>1, IssuingKeeps DEF ECInv, Placed
<1>6. CASE Publish(c)
  <2>1. Issuing(c) /\ row' = row /\ c \in bus' /\ issue'[c] = "audit"
    BY <1>1, <1>6 DEF Publish, Issuing
  <2> QED
    BY <2>1, IssuingKeeps
<1>7. CASE PublishFails(c)
  <2>1. Issuing(c) /\ row' = row /\ issue'[c] = "mark"
    BY <1>1, <1>2, <1>7 DEF PublishFails, Issuing
  <2> QED
    BY <2>1, IssuingKeeps
<1>8. CASE Audit(c)
  <2>1. /\ Issuing(c) /\ row' = row /\ bus' = bus /\ issue'[c] = "ok"
        /\ issue[c] = "audit" /\ c \in entered'
    BY <1>1, <1>8 DEF Audit, Issuing
  <2> QED
    BY <2>1, IssuingKeeps DEF ECInv, Placed
<1>9. CASE AuditFails(c)
  <2>1. Issuing(c) /\ row' = row /\ issue'[c] = "mark"
    BY <1>1, <1>2, <1>9 DEF AuditFails, Issuing
  <2> QED
    BY <2>1, IssuingKeeps
<1>10. CASE MarkFailed(c)
  <2>1. /\ row'[c] = Stamped(row[c], "failed") /\ row' \in [Cmds -> RowType]
        /\ \A d \in Cmds \ {c} : row'[d] = row[d]
    BY <1>1, <1>10, StampedType DEF MarkFailed, UpdateState, States,
        Terminal
  <2>2. row'[c].state \in Terminal /\ row'[c].closed
    BY <1>1, <2>1, StampedType DEF States, Terminal
  <2>3. Issuing(c) /\ issue'[c] = "error"
    BY <1>1, <1>10, <2>1 DEF MarkFailed, Issuing
  <2> QED
    BY <2>2, <2>3, IssuingKeeps
<1>11. CASE MarkFails(c)
  <2>1. Issuing(c) /\ row' = row /\ issue'[c] = "blind"
    BY <1>1, <1>2, <1>11 DEF MarkFails, Issuing
  <2> QED
    BY <2>1, IssuingKeeps
<1> QED
  BY <1>3, <1>4, <1>5, <1>6, <1>7, <1>8, <1>9, <1>10, <1>11 DEF Issue

\* A report that is posted is of a command that the stream took.
LEMMA PostedIsTaken ==
    ASSUME ECInv, NEW p \in Posts,
           acks[p] # "new" \/ p.new \in Reportable(p.cmd)
    PROVE  p.cmd \in Cmds /\ p.cmd \in bus /\ p.new \in Reports
<1>1. p.cmd \in Cmds /\ p.new \in Reports
  BY CommandAssumption DEF Posts
<1>2. p.cmd \notin bus => p.new \notin Reportable(p.cmd)
  BY <1>1 DEF ECInv, Untouched, Reportable, Terminal
<1> QED
  BY <1>1, <1>2 DEF ECInv, Untouched

\* A report that reads a final row writes nothing; one that meets another in the same
\* row has raced.
LEMMA ReadAckStep ==
    ASSUME ECInv, NEW p \in Posts, ReadAck(p)
    PROVE  ECInv'
<1> USE DEF ECInv
<1>1. /\ p.cmd \in bus /\ p.cmd \in Cmds /\ acks[p] = "new"
      /\ acks' = [acks EXCEPT ![p] = IF row[p.cmd].state \in Terminal THEN "over" ELSE "write"]
      /\ raced' = raced \cup {q.cmd : q \in Rivals(p)}
      /\ UNCHANGED <<row, issue, bus, agent, entered, ackLog, summary, fails, captured>>
  BY PostedIsTaken DEF ReadAck
<1>2. acks'[p] \in {"write", "over"} /\ (row[p.cmd].state \in Terminal => acks'[p] = "over")
      /\ \A q \in Posts : q # p => acks'[q] = acks[q]
  BY <1>1 DEF ECTypeOK
<1>3. ECTypeOK'
  <2>1. raced' \subseteq Cmds
    BY <1>1, CommandAssumption DEF ECTypeOK, Rivals, Posts
  <2>2. acks' \in [Posts -> {"new", "write", "audit", "over"}]
    BY <1>1 DEF ECTypeOK
  <2> QED
    BY <1>1, <2>1, <2>2 DEF ECTypeOK
<1>4. Placed' /\ BulkTrue'
  BY <1>1 DEF Placed, BulkTrue
<1>5. Untouched'
  BY <1>1, <1>2 DEF Untouched
<1>6. Ordered'
  <2> SUFFICES ASSUME NEW d \in Cmds, d \notin raced'
               PROVE  Orderly(d)'
    BY DEF Ordered, Orderly
  <2>1. Written(d)' = Written(d) /\ Finals(d)' = Finals(d)
    BY <1>1, <1>2 DEF Written, Finals
  <2>2. d \notin raced /\ (d = p.cmd => Rivals(p) = {})
    BY <1>1 DEF Rivals
  <2>3. \A q, r \in Posts : q.cmd = d /\ r.cmd = d /\ acks'[q] = "write" /\ acks'[r] = "write" => q = r
    BY <1>2, <2>2 DEF Ordered, Orderly, Rivals
  <2>4. Written(d) # {} \/ Finals(d) # {} => \A q \in Posts : q.cmd = d => acks'[q] # "write"
    BY <1>2, <2>2 DEF Ordered, Orderly
  <2> QED
    BY <1>1, <2>1, <2>2, <2>3, <2>4 DEF Ordered, Orderly
<1> QED
  BY <1>3, <1>4, <1>5, <1>6

\* The first report of a command that did not race finds nothing written or logged.
LEMMA WriteAckStep ==
    ASSUME ECInv, NEW p \in Posts, WriteAck(p)
    PROVE  ECInv'
<1> USE DEF ECInv
<1>1. /\ p.cmd \in bus /\ p.cmd \in Cmds /\ p.new \in Reports /\ acks[p] = "write"
      /\ row' = [row EXCEPT ![p.cmd] = Stamped(row[p.cmd], p.new)]
      /\ acks' = [acks EXCEPT ![p] = "audit"]
      /\ UNCHANGED <<issue, bus, agent, entered, ackLog, summary, fails, captured, raced>>
  BY PostedIsTaken DEF WriteAck, UpdateState
<1>2. acks'[p] = "audit" /\ \A q \in Posts : q # p => acks'[q] = acks[q]
  BY <1>1 DEF ECTypeOK
<1>3. /\ row' \in [Cmds -> RowType] /\ row'[p.cmd].state = p.new
      /\ \A d \in Cmds : /\ d # p.cmd => row'[d] = row[d]
                         /\ (row[d].closed => row'[d].closed)
  <2>1. row \in [Cmds -> RowType] /\ p.new \in States
    BY <1>1 DEF ECTypeOK, RowType, Reports
  <2>2. /\ Stamped(row[p.cmd], p.new) \in RowType
        /\ Stamped(row[p.cmd], p.new).state = p.new
        /\ row[p.cmd].closed => Stamped(row[p.cmd], p.new).closed
    BY <1>1, <2>1, StampedType
  <2> QED
    BY <1>1, <2>1, <2>2
<1>4. ECTypeOK'
  BY <1>1, <1>3 DEF ECTypeOK, RowType
<1>5. Placed' /\ BulkTrue'
  BY <1>1, <1>3 DEF Placed, BulkTrue
<1>6. Untouched'
  BY <1>1, <1>2 DEF Untouched
<1>7. Ordered'
  <2> SUFFICES ASSUME NEW d \in Cmds, d \notin raced
               PROVE  Orderly(d)'
    BY <1>1 DEF Ordered, Orderly
  <2>1. Finals(d)' = Finals(d) /\ Written(d)' \subseteq Written(d) \cup {p}
    BY <1>1, <1>2 DEF Written, Finals
  <2>2. CASE d # p.cmd
    <3>1. Written(d)' = Written(d)
      BY <2>2, <1>2 DEF Written
    <3> QED
      BY <2>1, <2>2, <3>1, <1>2, <1>3 DEF Ordered, Orderly
  <2>3. CASE d = p.cmd
    <3>1. Written(d) = {} /\ Finals(d) = {}
      BY <2>3, <1>1 DEF Ordered, Orderly
    <3>2. \A q \in Posts : q.cmd = d => acks'[q] # "write"
      BY <2>3, <1>1, <1>2 DEF Ordered, Orderly
    <3>3. Written(d)' # {} => p.new \in Terminal
      BY <3>1, <1>2 DEF Written
    <3> QED
      BY <2>1, <2>3, <3>1, <3>2, <3>3, <1>3 DEF Orderly
  <2> QED
    BY <2>2, <2>3
<1> QED
  BY <1>4, <1>5, <1>6, <1>7

\* The one final report that was written is the one that is logged.
LEMMA AuditAckStep ==
    ASSUME ECInv, NEW p \in Posts, AuditAck(p)
    PROVE  ECInv'
<1> USE DEF ECInv
<1>1. /\ p.cmd \in bus /\ p.cmd \in Cmds /\ p.new \in Reports /\ acks[p] = "audit"
      /\ ackLog' = [ackLog EXCEPT ![p.cmd] = Append(ackLog[p.cmd], p.new)]
      /\ acks' = [acks EXCEPT ![p] = "over"]
      /\ UNCHANGED <<row, issue, bus, agent, entered, summary, fails, captured, raced>>
  BY PostedIsTaken DEF AuditAck
<1>2. acks'[p] = "over" /\ \A q \in Posts : q # p => acks'[q] = acks[q]
  BY <1>1 DEF ECTypeOK
<1>3. /\ ackLog[p.cmd] \in Seq(Reports) /\ Append(ackLog[p.cmd], p.new) \in Seq(Reports)
      /\ ackLog' \in [Cmds -> Seq(Reports)] /\ ackLog'[p.cmd] = Append(ackLog[p.cmd], p.new)
      /\ \A d \in Cmds : d # p.cmd => ackLog'[d] = ackLog[d]
  BY <1>1, AppendProperties DEF ECTypeOK
<1>4. ECTypeOK'
  BY <1>1, <1>3 DEF ECTypeOK
<1>5. Placed' /\ BulkTrue'
  BY <1>1 DEF Placed, BulkTrue
<1>6. Untouched'
  BY <1>1, <1>2, <1>3 DEF Untouched
<1>7. Ordered'
  <2> SUFFICES ASSUME NEW d \in Cmds, d \notin raced
               PROVE  Orderly(d)'
    BY <1>1 DEF Ordered, Orderly
  <2>1. /\ Written(d)' = Written(d) \ {p}
        /\ \A q \in Posts : acks'[q] = "write" <=> acks[q] = "write"
    BY <1>1, <1>2 DEF Written
  <2>2. CASE d # p.cmd
    <3>1. Finals(d)' = Finals(d)
      BY <2>2, <1>3 DEF Finals
    <3> QED
      BY <2>1, <3>1, <1>1 DEF Ordered, Orderly
  <2>3. CASE d = p.cmd
    <3>1. /\ Len(ackLog[d]) \in Nat /\ Len(ackLog'[d]) = Len(ackLog[d]) + 1
          /\ ackLog'[d][Len(ackLog[d]) + 1] = p.new
          /\ \A i \in 1..Len(ackLog[d]) : ackLog'[d][i] = ackLog[d][i]
      BY <2>3, <1>3, <1>1, AppendProperties, LenProperties
    <3>2. CASE p.new \in Terminal
      <4>1. p \in Written(d)
        BY <2>3, <3>2, <1>1 DEF Written
      <4>2. Written(d)' = {} /\ Finals(d) = {}
        BY <2>1, <4>1 DEF Ordered, Orderly
      <4>3. Finals(d)' \subseteq {Len(ackLog[d]) + 1}
        BY <3>1, <4>2 DEF Finals
      <4>4. row[d].state \in Terminal /\ \A q \in Posts : q.cmd = d => acks[q] # "write"
        BY <4>1 DEF Ordered, Orderly
      <4> QED
        BY <2>1, <4>2, <4>3, <4>4, <1>1 DEF Orderly
    <3>3. CASE p.new \notin Terminal
      <4>1. Finals(d)' = Finals(d)
        BY <3>1, <3>3 DEF Finals
      <4> QED
        BY <2>1, <4>1, <1>1 DEF Ordered, Orderly
    <3> QED
      BY <3>2, <3>3
  <2> QED
    BY <2>2, <2>3
<1> QED
  BY <1>4, <1>5, <1>6, <1>7

\* A step that may end reports and calls, and adds to neither rows nor log.
LEMMA EndingKeeps ==
    ASSUME ECInv, ECTypeOK',
           UNCHANGED <<row, bus, entered, ackLog, raced>>,
           \A p \in Posts : acks'[p] \in {acks[p], "over"} /\ (acks[p] = "new" => acks'[p] = "new"),
           \A c \in Cmds : issue'[c] = issue[c] \/ issue'[c] = "lost",
           \A c \in Cmds \ bus : agent'[c] = agent[c],
           BulkTrue'
    PROVE  ECInv'
<1> USE DEF ECInv
<1>1. Placed' /\ Untouched'
  BY DEF Placed, Untouched
<1>2. \A c \in Cmds : Written(c)' \subseteq Written(c) /\ Finals(c)' = Finals(c)
  BY DEF Written, Finals
<1>3. Ordered'
  <2> SUFFICES ASSUME NEW d \in Cmds, d \notin raced
               PROVE  Orderly(d)'
    BY DEF Ordered, Orderly
  <2>1. \A q \in Posts : acks'[q] = "write" => acks[q] = "write"
    OBVIOUS
  <2> QED
    BY <1>2, <2>1 DEF Ordered, Orderly
<1> QED
  BY <1>1, <1>3

\* Acknowledge keeps it.
LEMMA AckStep ==
    ASSUME ECInv, NEW p \in Posts, Ack(p)
    PROVE  ECInv'
<1>1. CASE AckFails(p)
  <2>1. /\ acks[p] \in {"write", "audit"} /\ acks' = [acks EXCEPT ![p] = "over"] /\ fails' \in 0..MaxFails
        /\ UNCHANGED <<row, issue, bus, agent, entered, ackLog, summary, captured, raced>>
    BY <1>1, CommandAssumption DEF AckFails, Failing, ECInv, ECTypeOK
  <2>2. ECTypeOK'
    BY <2>1 DEF ECInv, ECTypeOK
  <2>3. BulkTrue'
    BY <2>1 DEF ECInv, BulkTrue
  <2>4. \A q \in Posts : acks'[q] \in {acks[q], "over"} /\ (acks[q] = "new" => acks'[q] = "new")
    BY <2>1 DEF ECInv, ECTypeOK
  <2> QED
    BY <2>1, <2>2, <2>3, <2>4, EndingKeeps
<1> QED
  BY <1>1, ReadAckStep, WriteAckStep, AuditAckStep DEF Ack

\* The agent gets and carries out what the stream took.
LEMMA AgentStep ==
    ASSUME ECInv, NEW c \in Cmds, Agent(c)
    PROVE  ECInv'
<1>1. /\ c \in bus /\ agent' \in [Cmds -> {"idle", "received", "completed", "failed"}]
      /\ \A d \in Cmds \ {c} : agent'[d] = agent[d]
      /\ UNCHANGED <<row, issue, bus, acks, entered, ackLog, summary, fails, captured, raced>>
  <2>1. CASE Receive(c)
    BY <2>1 DEF Receive, ECInv, ECTypeOK
  <2>2. CASE CarryOut(c)
    <3>1. c \in bus
      BY <2>2 DEF CarryOut, ECInv, Untouched
    <3> QED
      BY <2>2, <3>1 DEF CarryOut, ECInv, ECTypeOK
  <2> QED
    BY <2>1, <2>2 DEF Agent
<1>2. ECTypeOK' /\ BulkTrue'
  BY <1>1 DEF ECInv, ECTypeOK, BulkTrue
<1> QED
  BY <1>1, <1>2, EndingKeeps

\* The bulk operation's entry, and a stop of the API.
LEMMA EndStep ==
    ASSUME ECInv, Summarize \/ SummarizeFails \/ Stop
    PROVE  ECInv'
<1> USE DEF ECInv
<1>1. /\ UNCHANGED <<row, bus, agent, entered, ackLog, captured, raced>>
      /\ fails' \in 0..MaxFails
  BY CommandAssumption DEF Summarize, SummarizeFails, Stop,
      Failing, ECTypeOK
<1>2. CASE Summarize
  <2>1. summary' = [at |-> "written", ok |-> {c \in Bulk : issue[c] = "ok"}] /\ UNCHANGED <<issue, acks>>
    BY <1>2 DEF Summarize
  <2>2. BulkTrue'
    BY <1>1, <2>1, CommandAssumption DEF BulkTrue, Placed
  <2>3. ECTypeOK'
    BY <1>1, <2>1 DEF ECTypeOK
  <2> QED
    BY <1>1, <2>1, <2>2, <2>3, EndingKeeps
<1>3. CASE SummarizeFails
  <2>1. summary' = [summary EXCEPT !.at = "lost"] /\ UNCHANGED <<issue, acks>>
    BY <1>3 DEF SummarizeFails
  <2>2. BulkTrue' /\ ECTypeOK'
    BY <1>1, <2>1 DEF BulkTrue, ECTypeOK
  <2> QED
    BY <1>1, <2>1, <2>2, EndingKeeps
<1>4. CASE Stop
  <2>1. /\ issue' = [c \in Cmds |-> IF issue[c] \in UnderWay THEN "lost" ELSE issue[c]]
        /\ acks' = [p \in Posts |-> IF acks[p] \in {"write", "audit"} THEN "over" ELSE acks[p]]
        /\ summary' = summary \/ summary' = [summary EXCEPT !.at = "lost"]
    BY <1>4 DEF Stop
  <2>2. BulkTrue'
    BY <1>1, <2>1 DEF BulkTrue, ECTypeOK
  <2>3. ECTypeOK'
    BY <1>1, <2>1 DEF ECTypeOK, Stages
  <2>4. \A p \in Posts : acks'[p] \in {acks[p], "over"} /\ (acks[p] = "new" => acks'[p] = "new")
    BY <2>1
  <2> QED
    BY <1>1, <2>1, <2>2, <2>3, <2>4, EndingKeeps
<1> QED
  BY <1>2, <1>3, <1>4

\* The invariant says more than the property.
LEMMA Implied == ECInv => CommandsTrue
<1> SUFFICES ASSUME ECInv PROVE CommandsTrue
  OBVIOUS
<1>1. UnloggedIsClosed
  BY DEF ECInv, ECTypeOK, Placed, UnloggedIsClosed, UnderWay
<1>2. OneFinalEntry
  BY DEF ECInv, Ordered, Orderly, OneFinalEntry
<1> QED
  BY <1>1, <1>2 DEF ECInv, CommandsTrue

\* Over any commands, copies of a report, reports at once and failures, a command the
\* stream took is logged or its row is closed, a bulk operation counts what was
\* published and logged, and one final report is logged and stays in the row unless
\* reports raced (issueCommand, BulkOperation, Acknowledge).
THEOREM CommandsHold == ECSpec => []CommandsTrue
<1>1. ECInv /\ [ECNext]_ECVars => ECInv'
  <2> SUFFICES ASSUME ECInv, [ECNext]_ECVars PROVE ECInv'
    OBVIOUS
  <2>1. CASE UNCHANGED ECVars
    BY <2>1 DEF ECVars, ECInv, ECTypeOK, Placed, Untouched, Ordered, Orderly,
        BulkTrue, Written, Finals, Posts
  <2> QED
    BY <2>1, IssueStep, AckStep, AgentStep, EndStep DEF ECNext, Agent
<1>2. ECInit => ECInv
  BY First
<1>3. ECInv => CommandsTrue
  BY Implied
<1> QED
  BY <1>1, <1>2, <1>3, PTL DEF ECSpec

-----------------------------------------------------------------------------
(* Keystroke content.  A call under way carries what it may rely on: a push a   *)
(* version as it was, past its entry that entry, and past the stream the        *)
(* bundle; a transition past its entry the entry of its own action.             *)

Ops == Dlp!Actions \cup {"create", "update", "delete", "push", "bootstrap", "bootstrapped", "batch", "none"}
Kinds == {"idle", "audit", "write", "exists", "derive", "insert", "check", "publish", "evidence"}
Note == [op : Ops, version : Nat]
Call == [pc : Kinds, op : Ops, id : 0 .. MaxCalls, ref : Nat, rules : Dlp!Rules, version : Nat, left : SUBSET Endpoints]

DlpTypes ==
    /\ dlpRow \in [state : {"enabled", "disabled"}, form : BOOLEAN, ref : Nat] /\ dlpRow.ref <= Len(dlpLog)
    /\ active \subseteq Endpoints /\ key \in [Endpoints -> 0 .. MaxCalls]
    /\ policy \in [there : BOOLEAN, rules : Dlp!Rules, version : Nat]
    /\ history \in Seq(Dlp!Rules) /\ dlpLog \in Seq(Note)
    /\ dlpBus \subseteq [rules : Dlp!Rules, version : Nat]
    /\ evid \subseteq [rules : Dlp!Rules, version : Nat, ref : Nat]
    /\ dlpRun \in [Runs -> Call] /\ calls \in 0 .. MaxCalls

Version(v, rules) == v \in DOMAIN history /\ history[v] = rules

Carries(w) ==
    /\ dlpRun[w].op = "push" =>
           /\ Version(dlpRun[w].version, dlpRun[w].rules)
           /\ dlpRun[w].pc # "check" => Dlp!ValidateBundle(dlpRun[w].rules)
           /\ dlpRun[w].pc \in {"publish", "evidence"} =>
                  dlpRun[w].ref \in DOMAIN dlpLog /\ dlpLog[dlpRun[w].ref] = [op |-> "push", version |-> dlpRun[w].version]
           /\ dlpRun[w].pc = "evidence" => Dlp!Bundle(w) \in dlpBus
    /\ dlpRun[w].op \in Dlp!Actions /\ dlpRun[w].pc = "write" =>
           dlpRun[w].ref \in DOMAIN dlpLog /\ dlpLog[dlpRun[w].ref].op = dlpRun[w].op

Cited == \A i \in evid : i.ref \in DOMAIN dlpLog

DlpInv ==
    /\ DlpTypes
    /\ policy.version = Len(history) /\ (policy.there => Version(policy.version, policy.rules))
    /\ \A w \in Runs : Carries(w)
    /\ Dlp!RowWhole /\ Dlp!BundlesTrue /\ Dlp!EvidenceTrue /\ Cited

LEMMA KindsIs == "idle" \in Kinds /\ "audit" \in Kinds /\ "write" \in Kinds /\ "exists" \in Kinds /\ "derive" \in Kinds
    /\ "insert" \in Kinds /\ "check" \in Kinds /\ "publish" \in Kinds /\ "evidence" \in Kinds
  BY DEF Kinds

LEMMA OpsAre == Dlp!Actions \subseteq Ops /\ {"create", "update", "delete", "push", "bootstrap", "none"} \subseteq Ops
                /\ "push" \notin Dlp!Actions /\ "none" \notin Dlp!Actions /\ "bootstrap" \notin Dlp!Actions
                /\ {"create", "update", "delete"} \cap Dlp!Actions = {}
  BY DEF Ops, Dlp!Actions

LEMMA IdleIs == Dlp!Idle \in Call /\ Dlp!Idle.pc = "idle" /\ Dlp!Idle.op = "none"
  BY DlpAssumption DEF Dlp!Idle, Call, Kinds, Ops, Dlp!Rules, Dlp!NoRules

LEMMA DlpHas == ASSUME DlpInv PROVE
    /\ dlpRow \in [state : {"enabled", "disabled"}, form : BOOLEAN, ref : Nat] /\ dlpRow.ref <= Len(dlpLog)
    /\ history \in Seq(Dlp!Rules) /\ dlpLog \in Seq(Note) /\ calls \in 0 .. MaxCalls
    /\ Dlp!RowWhole /\ Dlp!BundlesTrue /\ Dlp!EvidenceTrue /\ Cited
    /\ \A w \in Runs : dlpRun[w] \in Call /\ Carries(w)
    /\ dlpRun \in [Runs -> Call]
  BY DEF DlpInv, DlpTypes

LEMMA DlpImplies == DlpInv => Dlp!TypeOK /\ Dlp!RowWhole /\ Dlp!BundlesTrue /\ Dlp!EvidenceTrue
<1> SUFFICES ASSUME DlpInv PROVE Dlp!TypeOK
  BY DEF DlpInv
<1>1. /\ dlpRow \in [state : {"enabled", "disabled"}, form : BOOLEAN, ref : 0..Len(dlpLog)]
      /\ policy \in [there : BOOLEAN, rules : Dlp!Rules, version : 0..Len(history)]
  BY LenProperties DEF DlpInv, DlpTypes
<1>2. \A v \in DOMAIN history : history[v] \in Dlp!Rules
  BY DlpHas, ElementOfSeq, LenProperties
<1>3. \A b \in dlpBus : b.rules \in Dlp!Rules /\ b.version \in 1..Len(history)
  BY DlpHas, LenProperties DEF DlpInv, DlpTypes, Dlp!BundlesTrue
<1>4. \A w \in Runs : dlpRun[w].pc \in {"idle", "audit", "write", "exists", "derive", "insert", "check", "publish", "evidence"}
  BY DlpHas DEF Call, Kinds
<1> QED
  BY <1>1, <1>2, <1>3, <1>4 DEF Dlp!TypeOK, DlpInv, DlpTypes

LEMMA DlpBegins == Dlp!Init => DlpInv
<1> SUFFICES ASSUME Dlp!Init PROVE DlpInv
  OBVIOUS
<1>1. dlpLog = <<>> /\ history = <<>> /\ Len(dlpLog) = 0 /\ Len(history) = 0 /\ dlpLog \in Seq(Note) /\ history \in Seq(Dlp!Rules)
      /\ dlpBus = {} /\ evid = {}
  BY DEF Dlp!Init
<1>2. DlpTypes
  BY <1>1, IdleIs, DlpAssumption DEF Dlp!Init, DlpTypes, Dlp!Rules, Dlp!NoRules
<1>3. \A w \in Runs : Carries(w)
  BY IdleIs, OpsAre DEF Dlp!Init, Carries
<1>4. Dlp!RowWhole /\ Dlp!BundlesTrue /\ Dlp!EvidenceTrue /\ Cited
  BY <1>1 DEF Dlp!Init, Dlp!RowWhole, Dlp!BundlesTrue, Dlp!EvidenceTrue, Cited
<1>5. policy.version = 0 /\ ~policy.there
  BY DEF Dlp!Init
<1> QED
  BY <1>1, <1>2, <1>3, <1>4, <1>5 DEF DlpInv

\* What only grows.
Onward(new, old) == DOMAIN old \subseteq DOMAIN new /\ \A i \in DOMAIN old : new[i] = old[i]

LEMMA OnwardIs ==
    /\ \A s : Onward(s, s)
    /\ \A T : \A s \in Seq(T) : \A x \in Seq(T) : Onward(s \o x, s) /\ s \o x \in Seq(T) /\ Len(s) <= Len(s \o x)
    /\ \A T : \A s \in Seq(T) : \A e \in T :
           /\ Onward(Append(s, e), s) /\ Append(s, e) \in Seq(T) /\ Len(Append(s, e)) = Len(s) + 1
           /\ Len(s) + 1 \in DOMAIN Append(s, e) /\ Append(s, e)[Len(s) + 1] = e
<1>1. ASSUME NEW T, NEW s \in Seq(T), NEW x \in Seq(T)
      PROVE  Onward(s \o x, s) /\ s \o x \in Seq(T) /\ Len(s) <= Len(s \o x)
  BY ConcatProperties, LenProperties DEF Onward
<1>2. ASSUME NEW T, NEW s \in Seq(T), NEW e \in T
      PROVE  /\ Onward(Append(s, e), s) /\ Append(s, e) \in Seq(T) /\ Len(Append(s, e)) = Len(s) + 1
             /\ Len(s) + 1 \in DOMAIN Append(s, e) /\ Append(s, e)[Len(s) + 1] = e
  BY AppendProperties, LenProperties DEF Onward
<1> QED
  BY <1>1, <1>2 DEF Onward

\* A step of one call, of which the others may go on relying on what they carry.
LEMMA OthersCarry ==
    ASSUME DlpInv, NEW w \in Runs, NEW r \in Call, dlpRun' = [dlpRun EXCEPT ![w] = r],
           Onward(dlpLog', dlpLog), Onward(history', history), dlpBus \subseteq dlpBus', NEW v \in Runs \ {w}
    PROVE  Carries(v)'
<1>1. dlpRun'[v] = dlpRun[v] /\ Carries(v)
  BY DlpHas
<1> QED
  BY <1>1 DEF Carries, Version, Onward, Dlp!Bundle

LEMMA DlpMoves ==
    ASSUME DlpInv, NEW w \in Runs, NEW r \in Call, dlpRun' = [dlpRun EXCEPT ![w] = r],
           UNCHANGED <<active, dlpRow, policy, history, dlpBus, evid>>,
           dlpLog' \in Seq(Note), Onward(dlpLog', dlpLog), Len(dlpLog) <= Len(dlpLog'),
           key' \in [Endpoints -> 0 .. MaxCalls], calls' \in 0 .. MaxCalls, Carries(w)'
    PROVE  DlpInv'
<1>1. dlpRun' \in [Runs -> Call]
  BY DlpHas
<1>2. Onward(history', history) /\ dlpBus \subseteq dlpBus'
  BY DEF Onward
<1>3. \A v \in Runs : Carries(v)'
  BY <1>2, OthersCarry
<1>4. DlpTypes'
  BY <1>1, LenProperties DEF DlpInv, DlpTypes
<1>5. Dlp!RowWhole' /\ Dlp!EvidenceTrue' /\ Cited'
  BY DlpHas DEF Dlp!RowWhole, Dlp!EvidenceTrue, Cited, Onward
<1>6. Dlp!BundlesTrue'
  BY DlpHas DEF Dlp!BundlesTrue
<1> QED
  BY <1>3, <1>4, <1>5, <1>6 DEF DlpInv, Version

LEMMA DlpFrame == ASSUME DlpInv, UNCHANGED <<Dlp!dlp, Dlp!push, dlpLog>>
    PROVE /\ UNCHANGED <<active, dlpRow, policy, history, dlpBus, evid>>
          /\ dlpLog' \in Seq(Note) /\ Onward(dlpLog', dlpLog) /\ Len(dlpLog) <= Len(dlpLog')
          /\ key' \in [Endpoints -> 0 .. MaxCalls]
<1>1. UNCHANGED <<active, dlpRow, policy, history, dlpBus, evid>> /\ dlpLog' = dlpLog /\ key' = key
  BY DEF Dlp!dlp, Dlp!push
<1>2. dlpLog \in Seq(Note) /\ key \in [Endpoints -> 0 .. MaxCalls] /\ Onward(dlpLog, dlpLog)
  BY DlpHas, OnwardIs DEF DlpInv, DlpTypes
<1> QED
  BY <1>1, <1>2, LenProperties

\* One that gives up or ends, and one that begins, relies on nothing.
LEMMA DlpEnds == ASSUME DlpInv, NEW w \in Runs, dlpRun' = [dlpRun EXCEPT ![w] = Dlp!Idle], UNCHANGED <<Dlp!dlp, Dlp!push, dlpLog, calls>>
                 PROVE  DlpInv'
<1>1. dlpRun'[w] = Dlp!Idle
  BY DlpHas
<1>2. Carries(w)'
  BY <1>1, IdleIs, OpsAre DEF Carries
<1>3. calls' \in 0 .. MaxCalls
  BY DlpHas
<1>4. Dlp!Idle \in Call
  BY IdleIs
<1> QED
  BY <1>2, <1>3, <1>4, DlpFrame, DlpMoves

LEMMA DlpStarts ==
    ASSUME DlpInv, NEW w \in Runs, NEW r \in Call, dlpRun' = [dlpRun EXCEPT ![w] = r], UNCHANGED <<Dlp!dlp, Dlp!push, dlpLog>>,
           calls' \in 0 .. MaxCalls, r.op # "push", r.op \in Dlp!Actions => r.pc # "write"
    PROVE  DlpInv'
<1>1. dlpRun'[w] = r
  BY DlpHas
<1>2. Carries(w)'
  BY <1>1 DEF Carries
<1> QED
  BY <1>2, DlpFrame, DlpMoves

LEMMA CountsOn == ASSUME DlpInv, calls < MaxCalls PROVE calls + 1 \in 0 .. MaxCalls
  BY DlpAssumption, DlpHas

LEMMA TransitionStep == ASSUME DlpInv, NEW w \in Runs, Dlp!TransitionHandler(w) PROVE DlpInv'
<1>1. PICK a \in Dlp!Actions : Dlp!Begin(w, a, "audit") /\ UNCHANGED <<Dlp!dlp, Dlp!push, dlpLog>>
  BY DEF Dlp!TransitionHandler
<1>2. a \in Ops /\ a # "push" /\ "audit" \in Kinds
  BY OpsAre, KindsIs
<1> DEFINE r == [Dlp!Idle EXCEPT !.pc = "audit", !.op = a, !.id = calls + 1]
<1>4. calls + 1 \in 0 .. MaxCalls /\ calls' = calls + 1 /\ dlpRun' = [dlpRun EXCEPT ![w] = r]
  BY <1>1, CountsOn DEF Dlp!Begin
<1>3. r \in Call /\ r.op = a /\ r.pc = "audit"
  BY <1>2, <1>4, IdleIs DEF Dlp!Idle, Call
<1> HIDE DEF r
<1> QED
  BY <1>1, <1>2, <1>3, <1>4, DlpStarts

LEMMA DeleteStep == ASSUME DlpInv, NEW w \in Runs, Dlp!Delete(w) PROVE DlpInv'
<1>1. "delete" \in Ops /\ "audit" \in Kinds
  BY OpsAre, KindsIs
<1> DEFINE r == [Dlp!Idle EXCEPT !.pc = "audit", !.op = "delete", !.id = calls + 1]
<1>3. calls + 1 \in 0 .. MaxCalls /\ calls' = calls + 1 /\ dlpRun' = [dlpRun EXCEPT ![w] = r]
  BY CountsOn DEF Dlp!Begin, Dlp!Delete
<1>2. r \in Call /\ r.op = "delete" /\ r.pc = "audit"
  BY <1>1, <1>3, IdleIs DEF Dlp!Idle, Call
<1> HIDE DEF r
<1> QED
  BY <1>2, <1>3, DlpStarts DEF Dlp!Delete

LEMMA WriteStep == ASSUME DlpInv, NEW w \in Runs, Dlp!Create(w) \/ Dlp!Update(w) PROVE DlpInv'
<1>1. PICK op \in {"create", "update"} : Dlp!Write(w, op)
  BY DEF Dlp!Create, Dlp!Update
<1>2. PICK rules \in Dlp!Rules :
        /\ calls < MaxCalls /\ calls' = calls + 1 /\ UNCHANGED <<Dlp!dlp, Dlp!push, dlpLog>>
        /\ dlpRun' = [dlpRun EXCEPT ![w] = [Dlp!Idle EXCEPT !.pc = "audit", !.op = op, !.id = calls + 1, !.rules = rules]]
  BY <1>1 DEF Dlp!Write
<1>3. op \in Ops /\ op # "push" /\ "audit" \in Kinds
  BY OpsAre, KindsIs
<1> DEFINE r == [Dlp!Idle EXCEPT !.pc = "audit", !.op = op, !.id = calls + 1, !.rules = rules]
<1>5. calls + 1 \in 0 .. MaxCalls /\ calls' = calls + 1 /\ dlpRun' = [dlpRun EXCEPT ![w] = r]
  BY <1>2, CountsOn
<1>4. r \in Call /\ r.op = op /\ r.pc = "audit"
  BY <1>3, <1>5, IdleIs DEF Dlp!Idle, Call
<1> HIDE DEF r
<1> QED
  BY <1>2, <1>3, <1>4, <1>5, DlpStarts

LEMMA BootstrapStep == ASSUME DlpInv, NEW w \in Runs, Dlp!BootstrapPEDEKs(w) PROVE DlpInv'
<1>1. "bootstrap" \in Ops /\ "exists" \in Kinds /\ Dlp!ListEndpoints \in SUBSET Endpoints /\ "bootstrap" \notin Dlp!Actions
  BY OpsAre, KindsIs DEF Dlp!ListEndpoints, DlpInv, DlpTypes
<1> DEFINE r == [Dlp!Idle EXCEPT !.pc = "exists", !.op = "bootstrap", !.id = calls + 1, !.left = Dlp!ListEndpoints]
<1>4. calls + 1 \in 0 .. MaxCalls /\ calls' = calls + 1 /\ dlpRun' = [dlpRun EXCEPT ![w] = r]
  BY CountsOn DEF Dlp!BootstrapPEDEKs
<1>2. r \in Call /\ r.op = "bootstrap"
  BY <1>1, <1>4, IdleIs DEF Dlp!Idle, Call
<1> HIDE DEF r
<1>3. UNCHANGED <<Dlp!dlp, Dlp!push, dlpLog>>
  BY DEF Dlp!BootstrapPEDEKs
<1> QED
  BY <1>1, <1>2, <1>3, <1>4, DlpStarts

LEMMA PushStep == ASSUME DlpInv, NEW w \in Runs, Dlp!Push(w) PROVE DlpInv'
<1>1. /\ policy.there /\ calls < MaxCalls /\ calls' = calls + 1 /\ UNCHANGED <<Dlp!dlp, Dlp!push, dlpLog>>
      /\ dlpRun' = [dlpRun EXCEPT ![w] = [Dlp!Idle EXCEPT !.pc = "check", !.op = "push", !.id = calls + 1,
                                                !.rules = policy.rules, !.version = policy.version]]
  BY DEF Dlp!Push, Dlp!Get
<1>2. policy.rules \in Dlp!Rules /\ policy.version \in Nat /\ Version(policy.version, policy.rules)
  BY <1>1 DEF DlpInv, DlpTypes
<1> DEFINE r == [Dlp!Idle EXCEPT !.pc = "check", !.op = "push", !.id = calls + 1, !.rules = policy.rules, !.version = policy.version]
<1>3. calls + 1 \in 0 .. MaxCalls
  BY <1>1, DlpAssumption, DlpHas
<1>4. r \in Call /\ r.op = "push" /\ r.pc = "check" /\ r.rules = policy.rules /\ r.version = policy.version
  BY <1>2, <1>3, IdleIs, OpsAre, KindsIs DEF Dlp!Idle, Call
<1> HIDE DEF r
<1>5. dlpRun' = [dlpRun EXCEPT ![w] = r]
  BY <1>1 DEF r
<1>6. dlpRun'[w] = r /\ history' = history
  BY <1>1, <1>5, DlpHas DEF Dlp!push
<1>7. Carries(w)'
  BY <1>2, <1>4, <1>6, OpsAre DEF Carries, Version
<1>8. calls' \in 0 .. MaxCalls
  BY <1>1, <1>3
<1> QED
  BY <1>1, <1>4, <1>5, <1>7, <1>8, DlpFrame, DlpMoves

LEMMA PushChecksStep == ASSUME DlpInv, NEW w \in Runs, Dlp!PushChecks(w) PROVE DlpInv'
<1>0. CASE Dlp!Done(w)
  BY <1>0, DlpEnds DEF Dlp!Done, Dlp!PushChecks
<1>1. CASE Dlp!ValidateBundle(dlpRun[w].rules) /\ Dlp!Goto(w, "audit")
  <2> DEFINE r == [dlpRun[w] EXCEPT !.pc = "audit"]
  <2>1. dlpRun[w] \in Call /\ Carries(w) /\ dlpRun[w].op = "push"
    BY DlpHas DEF Dlp!PushChecks, Dlp!At
  <2>2. r \in Call /\ r.op = "push" /\ r.pc = "audit" /\ r.rules = dlpRun[w].rules /\ r.version = dlpRun[w].version
    BY <2>1, KindsIs DEF Call
  <2>3. dlpRun' = [dlpRun EXCEPT ![w] = r]
    BY <1>1 DEF Dlp!Goto
  <2> HIDE DEF r
  <2>4. dlpRun'[w] = r /\ history' = history /\ calls' \in 0 .. MaxCalls
    BY <2>3, DlpHas DEF Dlp!PushChecks, Dlp!push
  <2>5. Carries(w)'
    BY <1>1, <2>1, <2>2, <2>4, OpsAre DEF Carries, Version
  <2>6. UNCHANGED <<Dlp!dlp, Dlp!push, dlpLog>>
    BY DEF Dlp!PushChecks
  <2> QED
    BY <2>2, <2>3, <2>4, <2>5, <2>6, DlpFrame, DlpMoves
<1> QED
  BY <1>0, <1>1 DEF Dlp!PushChecks

LEMMA FailStep == ASSUME DlpInv, NEW w \in Runs, Dlp!Fail(w) PROVE DlpInv'
  BY DlpEnds DEF Dlp!Fail, Dlp!Done

LEMMA BundleStep == ASSUME DlpInv, NEW w \in Runs, Dlp!PublishToEndpoint(w) PROVE DlpInv'
<1>1. /\ dlpRun[w].op = "push" /\ dlpRun[w].pc = "publish" /\ dlpBus' = dlpBus \cup {Dlp!Bundle(w)}
      /\ UNCHANGED <<Dlp!dlp, policy, history, evid, dlpLog, calls>> /\ (Dlp!Goto(w, "evidence") \/ Dlp!Done(w))
  BY DEF Dlp!PublishToEndpoint, Dlp!At
<1> DEFINE b == [rules |-> dlpRun[w].rules, version |-> dlpRun[w].version]
<1>2. dlpRun[w] \in Call /\ Carries(w) /\ b \in [rules : Dlp!Rules, version : Nat]
  BY DlpHas DEF Call
<1>3. dlpBus' = dlpBus \cup {b} /\ history' = history /\ evid' = evid /\ dlpLog' = dlpLog /\ dlpRow' = dlpRow
  BY <1>1 DEF Dlp!Bundle, Dlp!dlp
<1>4. Version(b.version, b.rules) /\ Dlp!ValidateBundle(b.rules)
  BY <1>1, <1>2, KindsIs DEF Carries
<1> HIDE DEF b
<1>5. PICK r \in Call : /\ dlpRun' = [dlpRun EXCEPT ![w] = r]
                        /\ r.op = "push" => r = [dlpRun[w] EXCEPT !.pc = "evidence"]
                        /\ r.op \in Dlp!Actions => r.op = "push"
  <2>1. CASE Dlp!Done(w)
    BY <2>1, IdleIs, OpsAre DEF Dlp!Done
  <2>2. CASE Dlp!Goto(w, "evidence")
    <3>1. [dlpRun[w] EXCEPT !.pc = "evidence"] \in Call /\ [dlpRun[w] EXCEPT !.pc = "evidence"].op = dlpRun[w].op
      BY <1>2, KindsIs DEF Call
    <3> QED
      BY <3>1, <2>2, <1>1 DEF Dlp!Goto
  <2> QED
    BY <2>1, <2>2, <1>1
<1>6. dlpRun'[w] = r /\ dlpRun' \in [Runs -> Call]
  BY <1>5, DlpHas
<1>7. Carries(w)'
  <2>1. CASE r.op = "push"
    <3>1. r.pc = "evidence" /\ r.rules = dlpRun[w].rules /\ r.version = dlpRun[w].version /\ r.ref = dlpRun[w].ref
      BY <2>1, <1>5, <1>2 DEF Call
    <3>2. Version(r.version, r.rules)' /\ Dlp!ValidateBundle(r.rules)
      BY <3>1, <1>4, <1>3 DEF Version, b
    <3>3. r.ref \in DOMAIN dlpLog /\ dlpLog[r.ref] = [op |-> "push", version |-> r.version]
      BY <3>1, <1>1, <1>2 DEF Carries
    <3>4. Dlp!Bundle(w)' \in dlpBus'
      BY <3>1, <1>3, <1>6 DEF Dlp!Bundle, b
    <3> QED
      BY <2>1, <3>2, <3>3, <3>4, <1>3, <1>6, OpsAre DEF Carries, Version
  <2>2. CASE r.op # "push"
    BY <2>2, <1>5, <1>6 DEF Carries
  <2> QED
    BY <2>1, <2>2
<1>8. Onward(dlpLog', dlpLog) /\ Onward(history', history) /\ dlpBus \subseteq dlpBus'
  BY <1>3 DEF Onward
<1>9. \A v \in Runs : Carries(v)'
  BY <1>5, <1>7, <1>8, OthersCarry
<1>10. DlpTypes'
  BY <1>1, <1>2, <1>3, <1>6 DEF DlpInv, DlpTypes, Dlp!dlp
<1>11. Dlp!BundlesTrue'
  BY <1>3, <1>4, DlpHas DEF Dlp!BundlesTrue, Version, Dlp!ValidateBundle
<1>12. Dlp!RowWhole' /\ Dlp!EvidenceTrue' /\ Cited'
  BY <1>3, DlpHas DEF Dlp!RowWhole, Dlp!EvidenceTrue, Cited
<1>13. policy' = policy
  BY <1>1
<1> QED
  BY <1>3, <1>9, <1>10, <1>11, <1>12, <1>13 DEF DlpInv, Version

LEMMA EvidenceStep == ASSUME DlpInv, NEW w \in Runs, Dlp!EmitPushEvidence(w) PROVE DlpInv'
<1>1. /\ dlpRun[w].op = "push" /\ dlpRun[w].pc = "evidence" /\ dlpRun' = [dlpRun EXCEPT ![w] = Dlp!Idle]
      /\ evid' = evid \cup {[rules |-> dlpRun[w].rules, version |-> dlpRun[w].version, ref |-> dlpRun[w].ref]}
      /\ dlpRow' = dlpRow /\ active' = active /\ key' = key /\ policy' = policy /\ history' = history /\ dlpBus' = dlpBus
      /\ dlpLog' = dlpLog /\ calls' = calls
  BY DEF Dlp!EmitPushEvidence, Dlp!At, Dlp!Done, Dlp!dlp
<1>2. dlpRun[w] \in Call /\ Carries(w)
  BY DlpHas
<1> DEFINE i == [rules |-> dlpRun[w].rules, version |-> dlpRun[w].version, ref |-> dlpRun[w].ref]
<1>3. i \in [rules : Dlp!Rules, version : Nat, ref : Nat]
  BY <1>2 DEF Call
<1>4. /\ i.ref \in DOMAIN dlpLog /\ dlpLog[i.ref] = [op |-> "push", version |-> i.version]
      /\ [rules |-> i.rules, version |-> i.version] \in dlpBus
  BY <1>1, <1>2 DEF Carries, Dlp!Bundle
<1>5. evid' = evid \cup {i}
  BY <1>1
<1> HIDE DEF i
<1>6. dlpRun'[w] = Dlp!Idle /\ dlpRun' \in [Runs -> Call] /\ Dlp!Idle \in Call
  BY <1>1, DlpHas, IdleIs
<1>7. Carries(w)'
  BY <1>6, IdleIs, OpsAre DEF Carries
<1>8. Onward(dlpLog', dlpLog) /\ Onward(history', history) /\ dlpBus \subseteq dlpBus'
  BY <1>1 DEF Onward
<1>9. \A v \in Runs : Carries(v)'
  BY <1>1, <1>6, <1>7, <1>8, OthersCarry
<1>10. DlpTypes'
  BY <1>1, <1>3, <1>5, <1>6 DEF DlpInv, DlpTypes
<1>11. Dlp!RowWhole' /\ Dlp!BundlesTrue'
  BY <1>1, DlpHas DEF Dlp!RowWhole, Dlp!BundlesTrue
<1>12. Dlp!EvidenceTrue' /\ Cited'
  BY <1>1, <1>4, <1>5, DlpHas DEF Dlp!EvidenceTrue, Cited
<1> QED
  BY <1>1, <1>9, <1>10, <1>11, <1>12 DEF DlpInv, Version

LEMMA DeactivateStep == ASSUME DlpInv, NEW e \in Endpoints, Dlp!Deactivate(e) PROVE DlpInv'
<1>1. /\ active' = active \ {e} /\ dlpRow' = dlpRow /\ key' = key /\ policy' = policy /\ history' = history
      /\ dlpBus' = dlpBus /\ evid' = evid /\ dlpLog' = dlpLog /\ dlpRun' = dlpRun /\ calls' = calls
  BY DEF Dlp!Deactivate, Dlp!push
<1>2. DlpTypes'
  BY <1>1 DEF DlpInv, DlpTypes
<1>3. \A w \in Runs : Carries(w)'
  BY <1>1, DlpHas DEF Carries, Version, Dlp!Bundle
<1>4. Dlp!RowWhole' /\ Dlp!BundlesTrue' /\ Dlp!EvidenceTrue' /\ Cited'
  BY <1>1, DlpHas DEF Dlp!RowWhole, Dlp!BundlesTrue, Dlp!EvidenceTrue, Cited
<1> QED
  BY <1>1, <1>2, <1>3, <1>4 DEF DlpInv, Version

LEMMA UpdateStateStep == ASSUME DlpInv, NEW w \in Runs, Dlp!UpdateState(w) PROVE DlpInv'
<1>1. /\ dlpRun[w].op \in Dlp!Actions /\ dlpRun[w].pc = "write" /\ dlpRun' = [dlpRun EXCEPT ![w] = Dlp!Idle]
      /\ dlpRow' = [state |-> Dlp!NewState(dlpRun[w].op), form |-> dlpRun[w].op = "enable-complete", ref |-> dlpRun[w].ref]
      /\ active' = active /\ key' = key /\ policy' = policy /\ history' = history /\ dlpBus' = dlpBus
      /\ evid' = evid /\ dlpLog' = dlpLog /\ calls' = calls
  BY DEF Dlp!UpdateState, Dlp!At, Dlp!Done, Dlp!push, Dlp!UpdateRow
<1>2. dlpRun[w] \in Call /\ dlpRun[w].ref \in DOMAIN dlpLog /\ dlpLog[dlpRun[w].ref].op = dlpRun[w].op
  BY <1>1, DlpHas DEF Carries
<1>3. dlpRun[w].ref \in Nat /\ dlpRun[w].ref <= Len(dlpLog)
  BY <1>2, DlpHas, LenProperties DEF Call
<1>4. dlpRow' \in [state : {"enabled", "disabled"}, form : BOOLEAN, ref : Nat] /\ dlpRow'.ref = dlpRun[w].ref
  BY <1>1, <1>3 DEF Dlp!NewState
<1>5. dlpRun'[w] = Dlp!Idle /\ dlpRun' \in [Runs -> Call] /\ Dlp!Idle \in Call
  BY <1>1, DlpHas, IdleIs
<1>6. Carries(w)'
  BY <1>5, IdleIs, OpsAre DEF Carries
<1>7. Onward(dlpLog', dlpLog) /\ Onward(history', history) /\ dlpBus \subseteq dlpBus'
  BY <1>1 DEF Onward
<1>8. \A v \in Runs : Carries(v)'
  BY <1>1, <1>5, <1>6, <1>7, OthersCarry
<1>9. DlpTypes'
  BY <1>1, <1>3, <1>4, <1>5 DEF DlpInv, DlpTypes
<1>10. Dlp!RowWhole'
  BY <1>1, <1>2 DEF Dlp!RowWhole, Dlp!NewState, Dlp!Actions
<1>11. Dlp!BundlesTrue' /\ Dlp!EvidenceTrue' /\ Cited'
  BY <1>1, DlpHas DEF Dlp!BundlesTrue, Dlp!EvidenceTrue, Cited
<1> QED
  BY <1>1, <1>8, <1>9, <1>10, <1>11 DEF DlpInv, Version

LEMMA AuditFirstStep == ASSUME DlpInv, NEW w \in Runs, Dlp!AuditFirst(w) PROVE DlpInv'
<1> DEFINE entry == [op |-> dlpRun[w].op, version |-> dlpRun[w].version]
           pc == IF dlpRun[w].op = "push" THEN "publish" ELSE "write"
           r == [dlpRun[w] EXCEPT !.pc = pc, !.ref = Len(dlpLog')]
<1>1. /\ dlpRun[w].pc = "audit" /\ dlpLog' = Append(dlpLog, entry) /\ dlpRun' = [dlpRun EXCEPT ![w] = r]
      /\ UNCHANGED <<Dlp!dlp, Dlp!push, calls>>
  BY DEF Dlp!AuditFirst, Dlp!At, Dlp!Entry
<1>2. dlpRun[w] \in Call /\ Carries(w) /\ entry \in Note /\ dlpLog \in Seq(Note)
  BY DlpHas DEF Call, Note
<1>3. /\ Onward(dlpLog', dlpLog) /\ dlpLog' \in Seq(Note) /\ Len(dlpLog') = Len(dlpLog) + 1
      /\ Len(dlpLog') \in DOMAIN dlpLog' /\ dlpLog'[Len(dlpLog')] = entry /\ Len(dlpLog) \in Nat
  BY <1>1, <1>2, OnwardIs, LenProperties
<1>0. pc \in Kinds /\ pc = IF dlpRun[w].op = "push" THEN "publish" ELSE "write"
  BY KindsIs
<1> HIDE DEF pc
<1>4. /\ r \in Call /\ r.op = dlpRun[w].op /\ r.rules = dlpRun[w].rules /\ r.version = dlpRun[w].version
      /\ r.ref = Len(dlpLog') /\ r.pc = pc
  <2>1. Len(dlpLog') \in Nat
    BY <1>3
  <2> QED
    BY <1>2, <1>0, <2>1 DEF Call
<1>5. entry.op = dlpRun[w].op /\ (dlpRun[w].op = "push" => entry = [op |-> "push", version |-> dlpRun[w].version])
  OBVIOUS
<1> HIDE DEF r, entry
<1>6. dlpRun'[w] = r /\ history' = history /\ dlpBus' = dlpBus /\ calls' \in 0 .. MaxCalls
  BY <1>1, DlpHas DEF Dlp!push
<1>7. ASSUME r.op = "push" PROVE Carries(w)'
  <2>1. r.version \in DOMAIN history' /\ history'[r.version] = r.rules /\ Dlp!ValidateBundle(r.rules)
    BY <1>1, <1>2, <1>4, <1>6, <1>7 DEF Carries, Version
  <2>2. r.ref \in DOMAIN dlpLog' /\ dlpLog'[r.ref] = [op |-> "push", version |-> r.version]
    BY <1>3, <1>4, <1>5, <1>7
  <2> QED
    BY <1>4, <1>6, <1>7, <2>1, <2>2, <1>0, OpsAre DEF Carries, Version
<1>8. ASSUME r.op # "push" PROVE Carries(w)'
  BY <1>0, <1>3, <1>4, <1>5, <1>6, <1>8 DEF Carries
<1>9. UNCHANGED <<active, dlpRow, policy, history, dlpBus, evid>> /\ key' \in [Endpoints -> 0 .. MaxCalls] /\ Len(dlpLog) <= Len(dlpLog')
  BY <1>1, <1>3 DEF Dlp!dlp, Dlp!push, DlpInv, DlpTypes
<1> QED
  BY <1>1, <1>3, <1>4, <1>6, <1>7, <1>8, <1>9, DlpMoves

\* The steps of a bootstrap.
LEMMA SkipStep ==
    ASSUME DlpInv, NEW w \in Runs, dlpRun[w].op = "bootstrap", NEW entry \in Seq(Note), Dlp!Skip(w, entry),
           UNCHANGED <<dlpRow, active, Dlp!push, calls>>, key' \in [Endpoints -> 0 .. MaxCalls]
    PROVE  DlpInv'
<1> DEFINE r == IF dlpRun[w].left = {Dlp!First(w)} THEN Dlp!Idle
                ELSE [dlpRun[w] EXCEPT !.left = @ \ {Dlp!First(w)}, !.pc = "exists"]
           ending == <<[op |-> "batch", version |-> 0]>>
<1>1. dlpRun' = [dlpRun EXCEPT ![w] = r]
  BY DEF Dlp!Skip
<1>2. PICK e \in {<<>>, entry}, b \in {<<>>, ending} : dlpLog' = dlpLog \o e \o b
  BY DEF Dlp!Skip
<1>3. <<>> \in Seq(Note) /\ ending \in Seq(Note)
  <2>1. [op |-> "batch", version |-> 0] \in Note
    BY DEF Note, Ops
  <2> QED
    BY <2>1
<1>4. e \in Seq(Note) /\ b \in Seq(Note) /\ dlpLog \in Seq(Note)
  BY <1>3, DlpHas
<1> DEFINE one == dlpLog \o e
<1>5. one \in Seq(Note) /\ Onward(one, dlpLog) /\ Len(dlpLog) <= Len(one)
  BY <1>4, OnwardIs
<1>6. dlpLog' = one \o b
  BY <1>2
<1> HIDE DEF one
<1>7. dlpLog' \in Seq(Note) /\ Onward(dlpLog', one) /\ Len(one) <= Len(dlpLog')
  BY <1>4, <1>5, <1>6, OnwardIs
<1>8. Onward(dlpLog', dlpLog) /\ Len(dlpLog) <= Len(dlpLog')
  BY <1>4, <1>5, <1>7, LenProperties DEF Onward
<1>9. r \in Call /\ r.op \in {"bootstrap", "none"}
  <2>1. dlpRun[w] \in Call /\ [dlpRun[w] EXCEPT !.left = @ \ {Dlp!First(w)}, !.pc = "exists"].op = "bootstrap"
    BY DlpHas DEF Call
  <2>2. [dlpRun[w] EXCEPT !.left = @ \ {Dlp!First(w)}, !.pc = "exists"] \in Call
    BY <2>1, KindsIs DEF Call
  <2> QED
    BY <2>1, <2>2, IdleIs
<1> HIDE DEF r
<1>10. dlpRun'[w] = r /\ calls' \in 0 .. MaxCalls
  BY <1>1, DlpHas
<1>11. Carries(w)'
  BY <1>9, <1>10, OpsAre DEF Carries
<1>12. UNCHANGED <<active, dlpRow, policy, history, dlpBus, evid>>
  BY DEF Dlp!push
<1> QED
  BY <1>1, <1>7, <1>8, <1>9, <1>10, <1>11, <1>12, DlpMoves

LEMMA GotoStep ==
    ASSUME DlpInv, NEW w \in Runs, dlpRun[w].op = "bootstrap", NEW pc \in Kinds, Dlp!Goto(w, pc),
           UNCHANGED <<Dlp!dlp, Dlp!push, dlpLog, calls>>
    PROVE  DlpInv'
<1> DEFINE r == [dlpRun[w] EXCEPT !.pc = pc]
<1>1. dlpRun' = [dlpRun EXCEPT ![w] = r] /\ UNCHANGED <<Dlp!dlp, Dlp!push, dlpLog>> /\ calls' \in 0 .. MaxCalls
  BY DlpHas DEF Dlp!Goto
<1>2. r \in Call /\ r.op = "bootstrap"
  BY DlpHas DEF Call
<1> HIDE DEF r
<1> QED
  BY <1>1, <1>2, OpsAre, DlpStarts

LEMMA BootstrapSteps ==
    ASSUME DlpInv, NEW w \in Runs, Dlp!KeyExists(w) \/ Dlp!DeriveWrappedPEDEK(w) \/ Dlp!InsertKey(w)
    PROVE  DlpInv' /\ Dlp!KeyStays
<1>1. dlpRun[w].op = "bootstrap" /\ dlpRun[w] \in Call /\ key \in [Endpoints -> 0 .. MaxCalls]
  BY DlpHas DEF Dlp!KeyExists, Dlp!DeriveWrappedPEDEK, Dlp!InsertKey, Dlp!At, DlpInv, DlpTypes
<1>2. <<>> \in Seq(Note) /\ Dlp!Bootstrapped \in Seq(Note)
  <2>1. [op |-> "bootstrapped", version |-> 0] \in Note
    BY DEF Note, Ops
  <2> QED
    BY <2>1 DEF Dlp!Bootstrapped
<1>3. CASE Dlp!KeyExists(w)
  <2>1. UNCHANGED <<Dlp!dlp, Dlp!push, calls>> /\ ((Dlp!Goto(w, "derive") /\ dlpLog' = dlpLog) \/ Dlp!Skip(w, <<>>))
    BY <1>3 DEF Dlp!KeyExists
  <2>2. UNCHANGED <<dlpRow, active, Dlp!push, calls>> /\ key' = key
    BY <2>1 DEF Dlp!dlp
  <2>3. CASE Dlp!Goto(w, "derive") /\ dlpLog' = dlpLog
    BY <1>1, <2>1, <2>2, <2>3, GotoStep, KindsIs DEF Dlp!KeyStays
  <2>4. CASE Dlp!Skip(w, <<>>)
    BY <1>1, <1>2, <2>2, <2>4, SkipStep DEF Dlp!KeyStays
  <2> QED
    BY <2>1, <2>3, <2>4
<1>4. CASE Dlp!DeriveWrappedPEDEK(w)
  <2>1. UNCHANGED <<Dlp!dlp, Dlp!push, calls>> /\ ((Dlp!Goto(w, "insert") /\ dlpLog' = dlpLog) \/ Dlp!Skip(w, <<>>))
    BY <1>4 DEF Dlp!DeriveWrappedPEDEK
  <2>2. UNCHANGED <<dlpRow, active, Dlp!push, calls>> /\ key' = key
    BY <2>1 DEF Dlp!dlp
  <2>3. CASE Dlp!Goto(w, "insert") /\ dlpLog' = dlpLog
    BY <1>1, <2>1, <2>2, <2>3, GotoStep, KindsIs DEF Dlp!KeyStays
  <2>4. CASE Dlp!Skip(w, <<>>)
    BY <1>1, <1>2, <2>2, <2>4, SkipStep DEF Dlp!KeyStays
  <2> QED
    BY <2>1, <2>3, <2>4
<1>5. CASE Dlp!InsertKey(w)
  <2>1. UNCHANGED <<dlpRow, active, Dlp!push, calls>>
    BY <1>5 DEF Dlp!InsertKey
  <2>2. CASE Dlp!FirstInsertWins(Dlp!First(w), dlpRun[w].id) /\ Dlp!Skip(w, Dlp!Bootstrapped)
    <3>1. key' \in [Endpoints -> 0 .. MaxCalls] /\ Dlp!KeyStays
      BY <1>1, <2>2 DEF Dlp!FirstInsertWins, Dlp!Present, Dlp!KeyStays, Call
    <3> QED
      BY <1>1, <1>2, <2>1, <2>2, <3>1, SkipStep
  <2>3. CASE key' = key /\ Dlp!Skip(w, <<>>)
    BY <1>1, <1>2, <2>1, <2>3, SkipStep DEF Dlp!KeyStays
  <2> QED
    BY <1>5, <2>2, <2>3 DEF Dlp!InsertKey
<1> QED
  BY <1>3, <1>4, <1>5

\* The row of a policy is written.
LEMMA StoreWriteStep == ASSUME DlpInv, NEW w \in Runs, Dlp!StoreWrite(w) PROVE DlpInv'
<1>1. /\ Dlp!StoreCreate(dlpRun[w].rules) \/ Dlp!StoreUpdate(dlpRun[w].rules) \/ Dlp!StoreDelete
      /\ dlpRun' = [dlpRun EXCEPT ![w] = Dlp!Idle] /\ dlpRow' = dlpRow /\ active' = active /\ key' = key
      /\ dlpBus' = dlpBus /\ evid' = evid /\ dlpLog' = dlpLog /\ calls' = calls
  BY DEF Dlp!StoreWrite, Dlp!Done, Dlp!dlp
<1>2. /\ dlpRun[w].rules \in Dlp!Rules /\ history \in Seq(Dlp!Rules) /\ policy \in [there : BOOLEAN, rules : Dlp!Rules, version : Nat]
      /\ policy.version = Len(history) /\ (policy.there => Version(policy.version, policy.rules))
  BY DlpHas DEF Call, DlpInv, DlpTypes
<1>3. /\ Onward(history', history) /\ history' \in Seq(Dlp!Rules) /\ policy' \in [there : BOOLEAN, rules : Dlp!Rules, version : Nat]
      /\ policy'.version = Len(history') /\ (policy'.there => Version(policy.version, policy.rules)')
  <2>1. CASE Dlp!StoreCreate(dlpRun[w].rules)
    <3>1. history' = <<dlpRun[w].rules>> /\ history = <<>> /\ policy' = [there |-> TRUE, rules |-> dlpRun[w].rules, version |-> 1]
      BY <2>1 DEF Dlp!StoreCreate
    <3>2. history' \in Seq(Dlp!Rules) /\ Len(history') = 1 /\ DOMAIN history' = 1 .. 1 /\ history'[1] = dlpRun[w].rules
      BY <3>1, <1>2
    <3> QED
      BY <3>1, <3>2, <1>2 DEF Onward, Version
  <2>2. CASE Dlp!StoreUpdate(dlpRun[w].rules) /\ policy.there
    <3>1. /\ policy' = [policy EXCEPT !.rules = dlpRun[w].rules, !.version = @ + 1]
          /\ history' = Append(history, dlpRun[w].rules)
      BY <2>2 DEF Dlp!StoreUpdate
    <3>2. /\ Onward(history', history) /\ history' \in Seq(Dlp!Rules) /\ Len(history') = Len(history) + 1
          /\ Len(history) + 1 \in DOMAIN history' /\ history'[Len(history) + 1] = dlpRun[w].rules
      BY <3>1, <1>2, OnwardIs
    <3>3. /\ policy' \in [there : BOOLEAN, rules : Dlp!Rules, version : Nat]
          /\ policy'.rules = dlpRun[w].rules /\ policy'.version = policy.version + 1
      <4> DEFINE k == policy.version + 1
      <4>1. k \in Nat /\ policy' = [policy EXCEPT !.rules = dlpRun[w].rules, !.version = k]
        BY <3>1, <1>2
      <4> HIDE DEF k
      <4>2. policy' \in [there : BOOLEAN, rules : Dlp!Rules, version : Nat] /\ policy'.rules = dlpRun[w].rules /\ policy'.version = k
        BY <4>1, <1>2
      <4> QED
        BY <4>2 DEF k
    <3> QED
      BY <3>2, <3>3, <1>2 DEF Version
  <2>3. CASE Dlp!StoreUpdate(dlpRun[w].rules) /\ ~policy.there
    BY <2>3, <1>2, OnwardIs DEF Dlp!StoreUpdate, Version
  <2>4. CASE Dlp!StoreDelete
    <3>1. history' = history /\ policy' = [policy EXCEPT !.there = FALSE]
      BY <2>4 DEF Dlp!StoreDelete
    <3>2. policy' \in [there : BOOLEAN, rules : Dlp!Rules, version : Nat] /\ ~policy'.there /\ policy'.version = policy.version
      BY <3>1, <1>2
    <3> QED
      BY <3>1, <3>2, <1>2, OnwardIs
  <2> QED
    BY <1>1, <2>1, <2>2, <2>3, <2>4
<1>4. dlpRun'[w] = Dlp!Idle /\ dlpRun' \in [Runs -> Call] /\ Dlp!Idle \in Call
  BY <1>1, DlpHas, IdleIs
<1>5. Carries(w)'
  BY <1>4, IdleIs, OpsAre DEF Carries
<1>6. Onward(dlpLog', dlpLog) /\ dlpBus \subseteq dlpBus'
  BY <1>1 DEF Onward
<1>7. \A v \in Runs : Carries(v)'
  BY <1>1, <1>3, <1>4, <1>5, <1>6, OthersCarry
<1>8. DlpTypes'
  BY <1>1, <1>3, <1>4 DEF DlpInv, DlpTypes
<1>9. Dlp!BundlesTrue'
  BY <1>1, <1>3, DlpHas DEF Dlp!BundlesTrue, Onward
<1>10. Dlp!RowWhole' /\ Dlp!EvidenceTrue' /\ Cited'
  BY <1>1, DlpHas DEF Dlp!RowWhole, Dlp!EvidenceTrue, Cited
<1> QED
  BY <1>3, <1>7, <1>8, <1>9, <1>10 DEF DlpInv

LEMMA DlpStep == DlpInv /\ [Dlp!Next]_(Dlp!vars) => DlpInv' /\ Dlp!KeyStays
<1> SUFFICES ASSUME DlpInv, [Dlp!Next]_(Dlp!vars) PROVE DlpInv' /\ Dlp!KeyStays
  OBVIOUS
<1>1. ASSUME NEW w \in Runs, Dlp!KeyExists(w) \/ Dlp!DeriveWrappedPEDEK(w) \/ Dlp!InsertKey(w) PROVE DlpInv' /\ Dlp!KeyStays
  BY <1>1, BootstrapSteps
<1>2. ASSUME NEW w \in Runs,
             \/ Dlp!TransitionHandler(w) \/ Dlp!UpdateState(w) \/ Dlp!BootstrapPEDEKs(w) \/ Dlp!Create(w) \/ Dlp!Update(w) \/ Dlp!Delete(w)
             \/ Dlp!StoreWrite(w) \/ Dlp!Push(w) \/ Dlp!PushChecks(w) \/ Dlp!PublishToEndpoint(w) \/ Dlp!EmitPushEvidence(w)
             \/ Dlp!AuditFirst(w) \/ Dlp!Fail(w)
      PROVE  DlpInv' /\ Dlp!KeyStays
  <2>1. DlpInv'
    BY <1>2, TransitionStep, UpdateStateStep, BootstrapStep, WriteStep, DeleteStep, StoreWriteStep, PushStep,
       PushChecksStep, BundleStep, EvidenceStep, AuditFirstStep, FailStep
  <2>2. key' = key
    BY <1>2 DEF Dlp!TransitionHandler, Dlp!UpdateState, Dlp!BootstrapPEDEKs, Dlp!Create, Dlp!Update, Dlp!Delete, Dlp!Write, Dlp!StoreWrite, Dlp!Push,
       Dlp!PushChecks, Dlp!PublishToEndpoint, Dlp!EmitPushEvidence, Dlp!AuditFirst, Dlp!Fail, Dlp!dlp
  <2> QED
    BY <2>1, <2>2 DEF Dlp!KeyStays
<1>3. ASSUME NEW e \in Endpoints, Dlp!Deactivate(e) PROVE DlpInv' /\ Dlp!KeyStays
  BY <1>3, DeactivateStep DEF Dlp!Deactivate, Dlp!KeyStays
<1>4. CASE UNCHANGED Dlp!vars
  <2>1. /\ active' = active /\ dlpRow' = dlpRow /\ key' = key /\ policy' = policy /\ history' = history
        /\ dlpBus' = dlpBus /\ evid' = evid /\ dlpLog' = dlpLog /\ dlpRun' = dlpRun /\ calls' = calls
    BY <1>4 DEF Dlp!vars
  <2>2. DlpTypes' /\ \A w \in Runs : Carries(w)'
    BY <2>1, DlpHas DEF DlpInv, DlpTypes, Carries, Version, Dlp!Bundle
  <2>3. Dlp!RowWhole' /\ Dlp!BundlesTrue' /\ Dlp!EvidenceTrue' /\ Cited' /\ Dlp!KeyStays
    BY <2>1, DlpHas DEF Dlp!RowWhole, Dlp!BundlesTrue, Dlp!EvidenceTrue, Cited, Dlp!KeyStays
  <2> QED
    BY <2>1, <2>2, <2>3 DEF DlpInv, Version
<1> QED
  BY <1>1, <1>2, <1>3, <1>4 DEF Dlp!Next

\* For any calls at once on any endpoints, wherever they fail: the row shows one transition
\* whole, a bundle one version as it was, the evidence of a push the entry it wrote, and a
\* stored key never changes.
THEOREM DlpHolds == PartsSpec => DlpTrue
<1>1. PartsInit => DlpInv
  BY DlpBegins DEF PartsInit
<1>2. DlpInv /\ [PartsNext]_<<part, vars, dlpVars>> => [Dlp!Next]_(Dlp!vars)
  BY DEF PartsNext, dlpVars, Dlp!vars
<1>3. PartsSpec => []DlpInv
  BY <1>1, <1>2, DlpStep, PTL DEF PartsSpec
<1>4. DlpInv /\ DlpInv' /\ [PartsNext]_<<part, vars, dlpVars>> =>
        [(Dlp!TypeOK /\ Dlp!RowWhole /\ Dlp!BundlesTrue /\ Dlp!EvidenceTrue)' /\ Dlp!KeyStays]_(Dlp!vars)
  <2> SUFFICES ASSUME DlpInv, DlpInv', [PartsNext]_<<part, vars, dlpVars>>
               PROVE  (Dlp!TypeOK /\ Dlp!RowWhole /\ Dlp!BundlesTrue /\ Dlp!EvidenceTrue)' /\ Dlp!KeyStays
    OBVIOUS
  <2>1. (DlpInv => Dlp!TypeOK /\ Dlp!RowWhole /\ Dlp!BundlesTrue /\ Dlp!EvidenceTrue)'
    BY DlpImplies, PTL
  <2> QED
    BY <2>1, <1>2, DlpStep
<1> QED
  BY <1>3, <1>4, PTL DEF PartsSpec, DlpTrue, Dlp!DlpTrue
=============================================================================
