--------------------------- MODULE LiveViewProofs ---------------------------
(* Dual control of live view, for any users, roles and calls: whatever the  *)
(* calls interleave, no agent is told to start without an admin's own       *)
(* request or an audited approval by a second person. Then the data        *)
(* subject requests, whose steps are Rights' in MCRequests, and what the    *)
(* program concludes from a day's signals, its incidents and an event: the  *)
(* sums and the sort there are recursive functions, and what they compute   *)
(* is shown by the least place at which they would not.                     *)
EXTENDS MCRequests, SequenceTheorems, FiniteSetTheorems, WellFoundedInduction, TLAPS

Started == \E i \in 1..Len(sent) : sent[i] = "start"

\* Which operation is at which step, and who may be behind it.
Stages ==
    \A c \in Calls :
        /\ calls[c].at \in {"create", "auto"} => calls[c].op = "request"
        /\ calls[c].at = "set" => calls[c].op \in Ending \cup {"approve", "deny", "agent_start"}
        /\ calls[c].at \in {"stop", "evidence"} => calls[c].op \in Ending
        /\ calls[c].at \in {"room", "start"} => calls[c].op \in {"request", "approve"}
        /\ calls[c].op = "new" => calls[c].at = "done"
        /\ calls[c].op \in Ending \cup {"request", "approve", "deny"} => calls[c].by \in Users
        /\ calls[c].op = "agent_start" => calls[c].by = System

OneRequest ==
    \A c, d \in Calls : calls[c].op = "request" /\ calls[d].op = "request" => c = d

\* Before the INSERT nothing but the request has begun.
Unopened ==
    row.state = "NONE" => ~Started /\ \A c \in Calls : calls[c].op \in {"new", "request"}

\* No row without a request.
Asked == row.state # "NONE" => \E c \in Calls : calls[c].op = "request"

\* What a call that has passed its checks may rely on.
Held ==
    \A c \in Calls :
        /\ calls[c].op = "request" /\ calls[c].at \in {"audit", "create"} => row.state = "NONE"
        /\ calls[c].op = "request" /\ calls[c].at \in {"auto", "room", "start"}
               => Authorised /\ row.state # "NONE"
        /\ calls[c].op = "approve" => calls[c].by \in Approvers /\ calls[c].by # row.requester
        /\ calls[c].op = "approve" /\ calls[c].at \in {"set", "room", "start"}
               => Approval(calls[c].by)
        /\ calls[c].op = "agent_start" => Authorised

Control == Stages /\ OneRequest /\ Unopened /\ Asked /\ Held /\ StartsAuthorised

\* What a call read of the state allowed it to begin.
Read ==
    \A c \in Calls :
        /\ calls[c].op \in {"approve", "deny"} => calls[c].seen = "REQUESTED"
        /\ calls[c].op \in Ending => Accepts(calls[c].seen, calls[c].op)

Signed(a) == a # NoOne => a # row.requester /\ Approval(a)

\* Until an agent reports, approver_id names a second person as long as the state is
\* APPROVED, and so does what the calls that end the session have read of it.
Names ==
    /\ row.state = "NONE" => evidence = {}
    /\ Made("agent_start") = {} =>
         /\ row.state # "ACTIVE"
         /\ row.state = "APPROVED" => Signed(row.approver)
         /\ \A c \in Calls : calls[c].op \in Ending => Signed(calls[c].approver)
         /\ \A e \in evidence : Signed(e.approver)

----------------------------------------------------------------------------

\* An event of a call leads to one state.
LEMMA EdgeEnds ==
    \A s, t : \A e \in Ending \cup {"approve", "deny", "agent_start"} :
        <<s, e, t>> \in Edges => t = To[e]
<1>1. SUFFICES ASSUME NEW s, NEW t, NEW e \in Ending \cup {"approve", "deny", "agent_start"}, <<s, e, t>> \in Edges
               PROVE  t = To[e]
  OBVIOUS
<1>2. /\ e = "approve" => t = "APPROVED"
      /\ e = "deny" => t = "DENIED"
      /\ e = "agent_start" => t = "ACTIVE"
      /\ e = "end" => t = "ENDED"
      /\ e \in {"admin_terminate", "it_manager_terminate"} => t = "TERMINATED_BY_HR"
      /\ e = "dpo_terminate" => t = "TERMINATED_BY_DPO"
  BY <1>1 DEF Edges
<1>3. \A u, v : <<u, e, v>> \in Edges => v = t
  BY <1>1, <1>2 DEF Edges, Ending
<1>4. e \in Events /\ s \in States /\ t \in States
  <2>1. \A edge \in Edges : edge[2] \in Events
    BY DEF Events
  <2>2. \A u, f, v : <<u, f, v>> \in Edges => u \in States /\ v \in States
    BY DEF Edges, States, Terminal
  <2>. QED
    BY <1>1, <2>1, <2>2
<1>5. \E v \in States : \E u \in States : <<u, e, v>> \in Edges
  BY <1>1, <1>4
<1>6. \E u \in States : <<u, e, To[e]>> \in Edges
  BY <1>4, <1>5 DEF To
<1>. QED
  BY <1>3, <1>6

\* The table's target of every event the calls use.
LEMMA Targets ==
    /\ To["approve"] = "APPROVED"
    /\ To["deny"] = "DENIED"
    /\ To["agent_start"] = "ACTIVE"
    /\ \A e \in Ending : To[e] \in States \ {"NONE", "REQUESTED", "APPROVED", "ACTIVE"}
<1>1. ASSUME NEW e \in Events, NEW t \in States, NEW s \in States,
             <<s, e, t>> \in Edges
      PROVE  \E u \in States : <<u, e, To[e]>> \in Edges
             /\ To[e] \in States
  BY <1>1 DEF To
<1>2. <<"REQUESTED", "approve", "APPROVED">> \in Edges
      /\ <<"REQUESTED", "deny", "DENIED">> \in Edges
      /\ <<"APPROVED", "agent_start", "ACTIVE">> \in Edges
      /\ <<"ACTIVE", "end", "ENDED">> \in Edges
      /\ <<"ACTIVE", "admin_terminate", "TERMINATED_BY_HR">> \in Edges
      /\ <<"ACTIVE", "it_manager_terminate", "TERMINATED_BY_HR">> \in Edges
      /\ <<"ACTIVE", "dpo_terminate", "TERMINATED_BY_DPO">> \in Edges
  BY DEF Edges
<1>3. \A e \in Ending \cup {"approve", "deny", "agent_start"} :
          e \in Events
  <2>1. \A edge \in Edges : edge[2] \in Events
    BY DEF Events
  <2>. QED
    BY <1>2, <2>1 DEF Ending
<1>4. \A u, t : /\ <<u, "approve", t>> \in Edges => t = "APPROVED"
                /\ <<u, "deny", t>> \in Edges => t = "DENIED"
                /\ <<u, "agent_start", t>> \in Edges => t = "ACTIVE"
                /\ \A e \in Ending : <<u, e, t>> \in Edges
                       => t \in {"ENDED", "TERMINATED_BY_HR", "TERMINATED_BY_DPO"}
  BY DEF Edges, Ending
<1>5. \A e \in Ending \cup {"approve", "deny", "agent_start"} :
          \E u \in States : <<u, e, To[e]>> \in Edges
             /\ To[e] \in States
  BY <1>1, <1>2, <1>3 DEF Ending, States, Terminal
<1>. QED
  BY <1>4, <1>5 DEF Ending

----------------------------------------------------------------------------

LEMMA StateNames ==
    /\ {"NONE", "REQUESTED", "APPROVED", "ACTIVE", "DENIED", "FAILED"} \subseteq States
    /\ \A o \in Ops : ActionOf[o] \in {"none", "requested", "approved", "denied", "started",
                                       "stopped", "terminated"}
    /\ ActionOf["approve"] = "approved"
    /\ Ending \subseteq Ops
BY DEF States, Terminal, ActionOf, Ops, Ending

\* Init establishes everything.
LEMMA InitHolds == ASSUME MaxFails \in Nat, Init PROVE TypeOK /\ Control
<1>1. TypeOK
  BY StateNames DEF Init, TypeOK, NotMade, Ops, Steps
<1>2. Stages /\ OneRequest /\ Unopened /\ Asked /\ Held /\ StartsAuthorised
  BY DEF Init, NotMade, Stages, OneRequest, Unopened, Asked, Held, StartsAuthorised, Ending, Started
<1>. QED
  BY <1>1, <1>2 DEF Control

\* A call begins.
LEMMA BeginKeeps ==
    ASSUME TypeOK, Control, RoleAssumption, NEW c \in Calls, Begin(c)
    PROVE  TypeOK' /\ Control'
<1>1. PICK o \in Ops, u \in Users \cup {System} :
          /\ Call(c, o, u)
          /\ o = "request" => u \in Users /\ Made("request") = {}
          /\ o = "approve" => u \in Users /\ u \in Approvers /\ row.state # "NONE" /\ u # row.requester
          /\ o \in Ending \cup {"deny"} => u \in Users /\ row.state # "NONE"
          /\ o = "agent_start" => u = System /\ Started
          /\ o # "new"
  <2>1. \A e : Accepts("NONE", e) => FALSE
    BY DEF Accepts, Edges
  <2>2. CASE \E u \in Users : RequestLiveView(c, u)
    BY <2>2 DEF RequestLiveView, Ops, Ending
  <2>3. CASE \E u \in Users : Approve(c, u)
    BY <2>3 DEF Approve, Ops, Ending
  <2>4. CASE \E u \in Users : Reject(c, u)
    BY <2>4 DEF Reject, Ops, Ending
  <2>5. CASE \E u \in Users : EndSession(c, u)
    BY <2>1, <2>5 DEF EndSession, Ops, Ending
  <2>6. CASE \E u \in Users : Terminate(c, u)
    BY <2>1, <2>6 DEF Terminate, Ops, Ending
  <2>7. CASE AgentStarted(c)
    BY <2>7 DEF AgentStarted, Ops, Ending, Started
  <2>. QED
    BY <2>2, <2>3, <2>4, <2>5, <2>6, <2>7 DEF Begin
<1>2. /\ calls' = [calls EXCEPT ![c] = [op |-> o, by |-> u, at |-> "audit",
                                        approver |-> row.approver, seen |-> row.state]]
      /\ UNCHANGED <<row, audited, sent, evidence, fails>>
      /\ calls[c].op = "new"
  BY <1>1 DEF Call
<1>3. calls'[c].op = o /\ calls'[c].by = u /\ calls'[c].at = "audit"
  BY <1>2 DEF TypeOK
<1>4. \A d \in Calls \ {c} : calls'[d] = calls[d]
  BY <1>2 DEF TypeOK
<1>5. TypeOK'
  BY <1>2 DEF TypeOK, Steps
<1>6. Started' = Started /\ Authorised' = Authorised /\ \A v : Approval(v)' = Approval(v)
  BY <1>2 DEF Started, Authorised, Approval
<1>7. Stages'
  BY <1>1, <1>3, <1>4 DEF Stages, Control, Ending
<1>8. OneRequest'
  BY <1>1, <1>3, <1>4 DEF OneRequest, Control, Made
<1>9. Started => Authorised
  BY DEF Control, StartsAuthorised, Started
<1>10. Unopened'
  BY <1>1, <1>2, <1>3, <1>4, <1>6 DEF Unopened, Control, Ops, Ending
<1>11. Held'
  <2>1. o = "request" => row.state = "NONE"
    BY <1>1 DEF Control, Asked, Made
  <2>. QED
    BY <1>1, <1>2, <1>3, <1>4, <1>6, <1>9, <2>1 DEF Held, Control
<1>12. Asked'
  BY <1>2, <1>3, <1>4, <1>1 DEF Asked, Control
<1>13. StartsAuthorised'
  BY <1>2, <1>6 DEF Control, StartsAuthorised, Started
<1>. QED
  BY <1>5, <1>7, <1>8, <1>10, <1>11, <1>12, <1>13 DEF Control

----------------------------------------------------------------------------
(* One step of a call that is under way. *)

LEMMA Moves ==
    ASSUME TypeOK, NEW c \in Calls, NEW s \in Steps, Goto(c, s)
    PROVE  /\ calls' \in [Calls -> [op : Ops, by : Users \cup {System, NoOne},
                                    at : Steps, approver : Users \cup {NoOne},
                                    seen : States]]
           /\ \A d \in Calls : calls'[d].op = calls[d].op /\ calls'[d].by = calls[d].by
           /\ \A d \in Calls \ {c} : calls'[d].at = calls[d].at
           /\ calls'[c].at = s
BY DEF TypeOK, Goto

\* Authority is not lost while the log only grows.
LEMMA Lasting ==
    ASSUME audited \subseteq audited', row'.requester = row.requester, row'.bypass = row.bypass
    PROVE  /\ \A v : Approval(v) => Approval(v)'
           /\ Authorised => Authorised'
<1>1. \A v : Approval(v) => Approval(v)'
  BY DEF Approval
<1>. QED
  BY <1>1 DEF Authorised

\* What no step but Create changes: the rest of Control follows from the step the
\* call goes to.
LEMMA Rest ==
    ASSUME TypeOK, Control, NEW c \in Calls, NEW s \in Steps, Goto(c, s),
           audited \subseteq audited', row'.requester = row.requester,
           row'.bypass = row.bypass, row'.state = "NONE" <=> row.state = "NONE",
           s \notin {"audit", "create", "auto"} \/ (row.state = "NONE" /\ s = "create"),
           s = "create" => calls[c].op = "request",
           s = "set" => calls[c].op \in Ending \cup {"approve", "deny", "agent_start"},
           s \in {"stop", "evidence"} => calls[c].op \in Ending,
           s \in {"room", "start"} => calls[c].op \in {"request", "approve"},
           s \in {"room", "start"} /\ calls[c].op = "request"
               => Authorised /\ row.state # "NONE",
           s \in {"set", "room", "start"} /\ calls[c].op = "approve"
               => \E e \in audited' : e.action = "approved" /\ e.by = calls[c].by,
           calls[c].op = "new" => s = "done",
           Started' => Started \/ (Authorised /\ row.state # "NONE")
    PROVE  Stages' /\ OneRequest' /\ Unopened' /\ Asked' /\ Held'
           /\ (Started' => Authorised')
<1>1. /\ \A d \in Calls : calls'[d].op = calls[d].op /\ calls'[d].by = calls[d].by
      /\ \A d \in Calls \ {c} : calls'[d].at = calls[d].at
      /\ calls'[c].at = s
  BY Moves
<1>2. /\ \A v : Approval(v) => Approval(v)'
      /\ Authorised => Authorised'
  BY Lasting
<1>3. Stages'
  BY <1>1 DEF Stages, Control
<1>4. OneRequest' /\ Asked'
  BY <1>1 DEF OneRequest, Asked, Control
<1>5. Started => Authorised
  BY DEF Control, StartsAuthorised, Started
<1>6. Unopened'
  BY <1>1 DEF Unopened, Control
<1>7. ASSUME NEW d \in Calls
      PROVE  /\ calls'[d].op = "request" /\ calls'[d].at \in {"audit", "create"}
                    => row'.state = "NONE"
             /\ calls'[d].op = "request" /\ calls'[d].at \in {"auto", "room", "start"}
                    => Authorised' /\ row'.state # "NONE"
             /\ calls'[d].op = "approve" => calls'[d].by \in Approvers
                                            /\ calls'[d].by # row'.requester
             /\ calls'[d].op = "approve" /\ calls'[d].at \in {"set", "room", "start"}
                    => \E e \in audited' : e.action = "approved" /\ e.by = calls[d].by
             /\ calls'[d].op = "agent_start" => Authorised'
  <2>1. CASE d = c
    BY <1>1, <1>2, <2>1 DEF Held, Control
  <2>2. CASE d # c
    BY <1>1, <1>2, <2>2 DEF Held, Control, Approval
  <2>. QED
    BY <2>1, <2>2
<1>8. Held'
  BY <1>1, <1>7 DEF Held, Approval, Approvers
<1>. QED
  BY <1>2, <1>3, <1>4, <1>5, <1>6, <1>8

----------------------------------------------------------------------------

\* The entry an approval appends is what SetState relies on.
LEMMA AuditKeeps ==
    ASSUME TypeOK, Control, RoleAssumption, NEW c \in Calls, Audit(c)
    PROVE  TypeOK' /\ Control'
<1>. DEFINE s == IF calls[c].op = "request" THEN "create"
                 ELSE IF calls[c].op \in Ending THEN "stop"
                 ELSE "set"
<1>1. /\ calls[c].at = "audit" /\ Goto(c, s) /\ s \in Steps
      /\ UNCHANGED <<row, sent, evidence, fails>>
  BY DEF Audit, Steps
<1>2. calls[c].op \in Ops \ {"new"} /\ calls[c].by \in Users \cup {System}
  BY <1>1 DEF Control, Stages, TypeOK, Ops, Ending
<1>3. Entry(c, ActionOf[calls[c].op]) \in Entries
  BY <1>2, StateNames DEF Entry, Entries, Bypasses
<1>4. audited \subseteq audited' /\ audited' \subseteq Entries
  BY <1>3 DEF Audit, TypeOK
<1>5. TypeOK'
  BY <1>1, <1>4, Moves DEF TypeOK
<1>6. calls[c].op = "approve"
          => \E e \in audited' : e.action = "approved" /\ e.by = calls[c].by
  <2>1. SUFFICES ASSUME calls[c].op = "approve"
                 PROVE  \E e \in audited' : e.action = "approved" /\ e.by = calls[c].by
    OBVIOUS
  <2>2. Entry(c, "approved") \in audited'
    BY <2>1, StateNames DEF Audit
  <2>3. Entry(c, "approved").action = "approved" /\ Entry(c, "approved").by = calls[c].by
    BY DEF Entry
  <2>. QED
    BY <2>2, <2>3
<1>7. calls[c].op = "request" => row.state = "NONE"
  BY <1>1 DEF Control, Held
<1>8. Started' = Started
  BY <1>1 DEF Started
<1>9. Stages' /\ OneRequest' /\ Unopened' /\ Asked' /\ Held' /\ (Started' => Authorised')
  <2>1. s \in {"create", "stop", "set"}
    OBVIOUS
  <2>2. s = "create" => calls[c].op = "request" /\ row.state = "NONE"
    BY <1>7
  <2>3. s = "stop" => calls[c].op \in Ending
    OBVIOUS
  <2>4. s = "set" => calls[c].op \in Ending \cup {"approve", "deny", "agent_start"}
    BY <1>2 DEF Ops, Ending
  <2>5. row'.requester = row.requester /\ row'.bypass = row.bypass
        /\ (row'.state = "NONE" <=> row.state = "NONE")
    BY <1>1
  <2>6. calls[c].op # "new"
    BY <1>2
  <2>7. s \notin {"audit", "create", "auto"} \/ (row.state = "NONE" /\ s = "create")
    BY <2>1, <2>2
  <2>8. /\ s \in {"stop", "evidence"} => calls[c].op \in Ending
        /\ s \notin {"room", "start"}
    BY <2>1, <2>3
  <2>9. Goto(c, s) /\ audited \subseteq audited' /\ s \in Steps
    BY <1>1, <1>4
  <2>10. Started' => Started \/ (Authorised /\ row.state # "NONE")
    BY <1>8
  <2>. HIDE DEF s
  <2>. QED
    BY <1>6, <2>2, <2>4, <2>5, <2>6, <2>7, <2>8, <2>9, <2>10, Rest
<1>10. StartsAuthorised'
  BY <1>1, <1>4, <1>9, Lasting DEF Control, StartsAuthorised, Started
<1>. QED
  BY <1>5, <1>9, <1>10 DEF Control

\* The INSERT: nothing but the request relies on there being no row.
LEMMA CreateKeeps ==
    ASSUME TypeOK, Control, RoleAssumption, NEW c \in Calls, Create(c)
    PROVE  TypeOK' /\ Control'
<1>. DEFINE s == IF Bypasses(c) THEN "auto" ELSE "done"
<1>1. /\ calls[c].at = "create" /\ Goto(c, s) /\ s \in Steps
      /\ UNCHANGED <<audited, sent, evidence, fails>>
      /\ row' = [state |-> IF Bypasses(c) THEN "APPROVED" ELSE "REQUESTED",
                 requester |-> calls[c].by, approver |-> NoOne, bypass |-> Bypasses(c)]
  BY DEF Create, Steps
<1>2. calls[c].op = "request" /\ row.state = "NONE" /\ calls[c].by \in Users
  BY <1>1 DEF Control, Stages, Held
<1>3. \A d \in Calls : calls[d].op \in {"new", "request"}
                      /\ (calls[d].op = "request" => d = c)
  BY <1>2 DEF Control, Unopened, OneRequest
<1>4. /\ calls' \in [Calls -> [op : Ops, by : Users \cup {System, NoOne},
                               at : Steps, approver : Users \cup {NoOne},
                                    seen : States]]
      /\ \A d \in Calls : calls'[d].op = calls[d].op /\ calls'[d].by = calls[d].by
      /\ \A d \in Calls \ {c} : calls'[d].at = calls[d].at
      /\ calls'[c].at = s
  BY <1>1, Moves
<1>5. TypeOK'
  BY <1>1, <1>2, <1>4, StateNames DEF TypeOK, Bypasses
<1>6. Bypasses(c) => calls[c].by \in Admins
  BY DEF Bypasses
<1>7. ~Started'
  BY <1>1, <1>2 DEF Control, Unopened, Started
<1>8. Stages' /\ OneRequest' /\ Asked'
  BY <1>2, <1>3, <1>4 DEF Control, Stages, OneRequest, Asked, Ending
<1>9. Unopened'
  BY <1>1 DEF Unopened
<1>10. row'.state # "NONE" /\ (Bypasses(c) => Authorised')
  BY <1>1, <1>6 DEF Authorised
<1>11. Held'
  BY <1>2, <1>3, <1>4, <1>10 DEF Held
<1>12. StartsAuthorised'
  BY <1>1, <1>7, <1>10 DEF StartsAuthorised, Started
<1>. QED
  BY <1>5, <1>8, <1>9, <1>11, <1>12 DEF Control

\* The synthetic entry of an admin's own session.
LEMMA AutoKeeps ==
    ASSUME TypeOK, Control, RoleAssumption, NEW c \in Calls, AuditAutoApprove(c)
    PROVE  TypeOK' /\ Control'
<1>1. /\ calls[c].at = "auto" /\ Goto(c, "room") /\ "room" \in Steps
      /\ UNCHANGED <<row, sent, evidence, fails>>
      /\ audited' = audited \cup {Entry(c, "approved")}
  BY DEF AuditAutoApprove, Steps
<1>2. calls[c].op = "request" /\ calls[c].by \in Users
      /\ Authorised /\ row.state # "NONE"
  BY <1>1 DEF Control, Stages, Held
<1>3. Entry(c, "approved") \in Entries
  BY <1>2 DEF Entry, Entries, Bypasses
<1>4. TypeOK'
  BY <1>1, <1>3, Moves DEF TypeOK
<1>5. audited \subseteq audited' /\ Started' = Started
  BY <1>1 DEF Started
<1>6. Stages' /\ OneRequest' /\ Unopened' /\ Asked' /\ Held' /\ (Started' => Authorised')
  BY <1>1, <1>2, <1>5, Rest
<1>7. StartsAuthorised'
  BY <1>1, <1>2, <1>5, Lasting DEF StartsAuthorised, Started
<1>. QED
  BY <1>4, <1>6, <1>7 DEF Control

\* The unconditional write: it opens the session only for an approval or an agent's
\* report, and both have authority behind them.
LEMMA SetStateKeeps ==
    ASSUME TypeOK, Control, RoleAssumption, NEW c \in Calls, SetState(c)
    PROVE  TypeOK' /\ Control'
<1>. DEFINE s == IF calls[c].op = "approve" THEN "room"
                 ELSE IF calls[c].op \in Ending THEN "evidence"
                 ELSE "done"
<1>1. /\ calls[c].at = "set" /\ Goto(c, s) /\ s \in Steps
      /\ UNCHANGED <<audited, sent, evidence, fails>>
      /\ row' = [row EXCEPT !.state = To[calls[c].op],
                            !.approver = IF calls[c].by = System THEN @ ELSE calls[c].by]
  BY DEF SetState, Steps
<1>2. calls[c].op \in Ending \cup {"approve", "deny", "agent_start"}
  BY <1>1 DEF Control, Stages
<1>3. /\ calls[c].op = "agent_start" => calls[c].by = System
      /\ calls[c].op # "agent_start" => calls[c].by \in Users
  BY <1>2 DEF Control, Stages
<1>4. To[calls[c].op] \in States \ {"NONE", "REQUESTED"}
  BY <1>2, Targets, StateNames
<1>5. row' \in [state : States, requester : Users \cup {NoOne},
               approver : Users \cup {NoOne}, bypass : BOOLEAN]
      /\ row'.requester = row.requester /\ row'.bypass = row.bypass
      /\ row'.state = To[calls[c].op]
  BY <1>1, <1>3, <1>4 DEF TypeOK
<1>6. TypeOK'
  BY <1>1, <1>5, Moves DEF TypeOK
<1>7. row.state # "NONE"
  BY <1>2 DEF Control, Unopened, Ending
<1>8. calls[c].op = "approve"
          => \E e \in audited' : e.action = "approved" /\ e.by = calls[c].by
  BY <1>1 DEF Control, Held, Approval
<1>9. Started' = Started /\ audited \subseteq audited'
  BY <1>1 DEF Started
<1>10. Stages' /\ OneRequest' /\ Unopened' /\ Asked' /\ Held' /\ (Started' => Authorised')
  <2>1. /\ s \in {"room", "evidence", "done"}
        /\ s = "room" => calls[c].op = "approve"
        /\ s = "evidence" => calls[c].op \in Ending
    OBVIOUS
  <2>2. calls[c].op # "new" /\ calls[c].op # "request"
    BY <1>2 DEF Ending
  <2>3. row'.state = "NONE" <=> row.state = "NONE"
    BY <1>4, <1>5, <1>7
  <2>. HIDE DEF s
  <2>. QED
    BY <1>1, <1>5, <1>8, <1>9, <2>1, <2>2, <2>3, Rest
<1>11. row'.state \in {"APPROVED", "ACTIVE"} => calls[c].op \in {"approve", "agent_start"}
  BY <1>2, <1>5, Targets
<1>12. calls[c].op \in {"approve", "agent_start"} => Authorised
  BY <1>1 DEF Control, Held, Authorised
<1>13. StartsAuthorised'
  BY <1>5, <1>9, <1>10, <1>11, <1>12, Lasting DEF StartsAuthorised, Started
<1>. QED
  BY <1>6, <1>10, <1>13 DEF Control

\* provisionLiveKit: the room, its failure, and the start command, sent on the
\* authority the call was given when it passed its checks.
LEMMA ProvisionKeeps ==
    ASSUME TypeOK, Control, RoleAssumption, MaxFails \in Nat, NEW c \in Calls,
           CreateRoom(c) \/ CreateRoomFails(c) \/ PublishStart(c)
    PROVE  TypeOK' /\ Control'
<1>1. calls[c].at \in {"room", "start"}
  BY DEF CreateRoom, CreateRoomFails, PublishStart
<1>2. calls[c].op \in {"request", "approve"}
  BY <1>1 DEF Control, Stages
<1>3. Authorised /\ row.state # "NONE"
  <2>1. CASE calls[c].op = "approve"
    <3>1. calls[c].by \in Approvers /\ calls[c].by # row.requester /\ Approval(calls[c].by)
      BY <1>1, <2>1 DEF Control, Held
    <3>2. row.state # "NONE"
      BY <2>1 DEF Control, Unopened
    <3>3. calls[c].by \in Users \cup {System, NoOne}
      BY DEF TypeOK
    <3>. QED
      BY <3>1, <3>2 DEF Authorised
  <2>2. CASE calls[c].op = "request"
    BY <1>1, <2>2 DEF Control, Held
  <2>. QED
    BY <1>2, <2>1, <2>2
<1>4. calls[c].op = "approve"
          => \E e \in audited : e.action = "approved" /\ e.by = calls[c].by
  BY <1>1 DEF Control, Held, Approval
<1>5. PICK s \in {"start", "done"} : Goto(c, s)
  BY DEF CreateRoom, CreateRoomFails, PublishStart
<1>6. /\ UNCHANGED <<audited, evidence>>
      /\ row' = row \/ (row' = [row EXCEPT !.state = "FAILED"])
      /\ sent' = sent \/ sent' = Append(sent, "start")
      /\ fails' = fails \/ (fails < MaxFails /\ fails' = fails + 1)
  BY DEF CreateRoom, CreateRoomFails, PublishStart
<1>7. row' \in [state : States, requester : Users \cup {NoOne},
               approver : Users \cup {NoOne}, bypass : BOOLEAN]
      /\ row'.requester = row.requester /\ row'.bypass = row.bypass
      /\ row'.state \in {row.state, "FAILED"}
  BY <1>6, StateNames DEF TypeOK
<1>8. sent' \in Seq({"start", "stop"}) /\ fails' \in 0..MaxFails
  <2>1. sent \in Seq({"start", "stop"}) /\ fails \in 0..MaxFails
    BY DEF TypeOK
  <2>2. Append(sent, "start") \in Seq({"start", "stop"})
    BY <2>1
  <2>3. fails' \in 0..MaxFails
    BY <1>6, <2>1
  <2>. QED
    BY <1>6, <2>1, <2>2, <2>3
<1>9. TypeOK'
  BY <1>5, <1>6, <1>7, <1>8, Moves DEF TypeOK, Steps
<1>10. Stages' /\ OneRequest' /\ Unopened' /\ Asked' /\ Held' /\ (Started' => Authorised')
  BY <1>2, <1>3, <1>4, <1>5, <1>6, <1>7, Rest DEF Steps
<1>11. Authorised'
  BY <1>3, <1>6, <1>7, Lasting
<1>. QED
  BY <1>9, <1>10, <1>11 DEF Control, StartsAuthorised

\* The steps that only end a session or a call.
LEMMA ClosingKeeps ==
    ASSUME TypeOK, Control, RoleAssumption, MaxFails \in Nat, NEW c \in Calls,
           PublishStop(c) \/ EmitEvidence(c) \/ Fail(c)
    PROVE  TypeOK' /\ Control'
<1>1. PICK s \in {"set", "done"} : Goto(c, s) /\ (s = "set" => calls[c].at = "stop")
  BY DEF PublishStop, EmitEvidence, Fail
<1>2. calls[c].at = "stop" => calls[c].op \in Ending
  BY DEF Control, Stages
<1>3. /\ UNCHANGED <<row, audited>>
      /\ sent' = sent \/ sent' = Append(sent, "stop")
      /\ fails' = fails \/ (fails < MaxFails /\ fails' = fails + 1)
  BY DEF PublishStop, EmitEvidence, Fail
<1>4. sent' \in Seq({"start", "stop"}) /\ fails' \in 0..MaxFails
  <2>1. sent \in Seq({"start", "stop"}) /\ fails \in 0..MaxFails
    BY DEF TypeOK
  <2>2. Append(sent, "stop") \in Seq({"start", "stop"})
    BY <2>1
  <2>3. fails' \in 0..MaxFails
    BY <1>3, <2>1
  <2>. QED
    BY <1>3, <2>1, <2>2, <2>3
<1>5. evidence' \subseteq [approver : Users, by : Users]
  <2>1. CASE EmitEvidence(c)
    <3>1. calls[c].by \in Users
      BY <2>1 DEF EmitEvidence, Control, Stages
    <3>2. calls[c].approver \in Users \cup {NoOne}
      BY DEF TypeOK
    <3>. QED
      BY <2>1, <3>1, <3>2 DEF EmitEvidence, TypeOK
  <2>2. CASE PublishStop(c) \/ Fail(c)
    BY <2>2 DEF PublishStop, Fail, TypeOK
  <2>. QED
    BY <2>1, <2>2
<1>6. TypeOK'
  BY <1>1, <1>3, <1>4, <1>5, Moves DEF TypeOK, Steps
<1>7. Started' => Started
  BY <1>3 DEF Started, TypeOK
<1>8. calls[c].op \in Ending => calls[c].op \notin {"new", "request", "approve"}
  BY DEF Ending
<1>9. Stages' /\ OneRequest' /\ Unopened' /\ Asked' /\ Held' /\ (Started' => Authorised')
  BY <1>1, <1>2, <1>3, <1>7, <1>8, Rest DEF Steps
<1>10. StartsAuthorised'
  BY <1>3, <1>7, Lasting DEF Control, StartsAuthorised, Started
<1>. QED
  BY <1>6, <1>9, <1>10 DEF Control

----------------------------------------------------------------------------

\* A call begins: what it has read of the row.
LEMMA BeginReads ==
    ASSUME NEW c \in Calls, Begin(c)
    PROVE  \E o \in Ops \ {"new"}, u \in Users \cup {System} :
              /\ Call(c, o, u)
              /\ o \in {"approve", "deny"} => row.state = "REQUESTED"
              /\ o \in Ending => Accepts(row.state, o)
<1>1. CASE \E u \in Users : RequestLiveView(c, u)
  BY <1>1 DEF RequestLiveView, Ops, Ending
<1>2. CASE \E u \in Users : Approve(c, u)
  BY <1>2 DEF Approve, Ops, Ending
<1>3. CASE \E u \in Users : Reject(c, u)
  BY <1>3 DEF Reject, Ops, Ending
<1>4. CASE \E u \in Users : EndSession(c, u)
  BY <1>4 DEF EndSession, Ops, Ending
<1>5. CASE \E u \in Users : Terminate(c, u)
  BY <1>5 DEF Terminate, Ops, Ending
<1>6. CASE AgentStarted(c)
  BY <1>6 DEF AgentStarted, Ops, Ending
<1>. QED
  BY <1>1, <1>2, <1>3, <1>4, <1>5, <1>6 DEF Begin

\* A call under way goes on from step to step and keeps what it has read.
LEMMA StepGoes ==
    ASSUME TypeOK, NEW c \in Calls, Step(c)
    PROVE  /\ \A d \in Calls : /\ calls'[d].op = calls[d].op /\ calls'[d].by = calls[d].by
                               /\ calls'[d].seen = calls[d].seen /\ calls'[d].approver = calls[d].approver
           /\ calls' # calls /\ calls'[c].at # calls[c].at
           /\ audited \subseteq audited'
<1>1. \E s \in Steps : Goto(c, s) /\ s # calls[c].at
  BY DEF Step, Audit, Create, AuditAutoApprove, SetState, CreateRoom, CreateRoomFails, PublishStart,
         PublishStop, EmitEvidence, Fail, Steps
<1>2. audited \subseteq audited'
  BY DEF Step, Audit, Create, AuditAutoApprove, SetState, CreateRoom, CreateRoomFails, PublishStart,
         PublishStop, EmitEvidence, Fail
<1>. QED
  BY <1>1, <1>2 DEF Goto, TypeOK

LEMMA BeginNames ==
    ASSUME TypeOK, Control, Read, Names, RoleAssumption, NEW c \in Calls, Begin(c)
    PROVE  Read' /\ Names'
<1>1. PICK o \in Ops \ {"new"}, u \in Users \cup {System} :
          /\ Call(c, o, u)
          /\ o \in {"approve", "deny"} => row.state = "REQUESTED"
          /\ o \in Ending => Accepts(row.state, o)
  BY BeginReads
<1>2. /\ calls' = [calls EXCEPT ![c] = [op |-> o, by |-> u, at |-> "audit",
                                        approver |-> row.approver, seen |-> row.state]]
      /\ UNCHANGED <<row, audited, sent, evidence, fails>>
      /\ calls[c].op = "new"
  BY <1>1 DEF Call
<1>3. /\ calls'[c].op = o /\ calls'[c].seen = row.state /\ calls'[c].approver = row.approver
      /\ \A d \in Calls \ {c} : calls'[d] = calls[d]
  BY <1>2 DEF TypeOK
<1>4. Read'
  BY <1>1, <1>3 DEF Read
<1>5. Made("agent_start")' = {} => Made("agent_start") = {}
  BY <1>2, <1>3 DEF Made
<1>6. \A a : Signed(a)' <=> Signed(a)
  BY <1>2 DEF Signed, Approval
<1>7. o \in Ending => row.state \in {"APPROVED", "ACTIVE"}
  BY <1>1 DEF Accepts, Edges, Ending
<1>8. Names'
  BY <1>2, <1>3, <1>5, <1>6, <1>7 DEF Names
<1>. QED
  BY <1>4, <1>8

\* One step: the writes of approver_id that count are those of an approval.
LEMMA StepNames ==
    ASSUME TypeOK, Control, Read, Names, RoleAssumption, NEW c \in Calls, Step(c)
    PROVE  Read' /\ Names'
<1>1. /\ \A d \in Calls : /\ calls'[d].op = calls[d].op /\ calls'[d].by = calls[d].by
                          /\ calls'[d].seen = calls[d].seen /\ calls'[d].approver = calls[d].approver
      /\ audited \subseteq audited'
  BY StepGoes
<1>2. Read'
  BY <1>1 DEF Read
<1>3. Made("agent_start")' = Made("agent_start")
  BY <1>1 DEF Made
<1>4. \A v : Approval(v) => Approval(v)'
  BY <1>1 DEF Approval
<1>5. CASE Create(c)
  <2>1. /\ row.state = "NONE" /\ calls[c].op = "request" /\ evidence' = evidence
        /\ row'.state \in {"APPROVED", "REQUESTED"} /\ row'.approver = NoOne
    BY <1>5 DEF Create, Control, Stages, Held
  <2>2. \A d \in Calls : calls[d].op \notin Ending
    BY <2>1 DEF Control, Unopened, Ending
  <2>. QED
    BY <1>1, <1>2, <2>1, <2>2 DEF Names, Signed
<1>6. CASE SetState(c)
  <2>1. calls[c].op \in Ending \cup {"approve", "deny", "agent_start"} /\ calls[c].at = "set"
    BY <1>6 DEF SetState, Control, Stages
  <2>2. /\ row'.state = To[calls[c].op] /\ row'.requester = row.requester /\ evidence' = evidence
        /\ row'.approver = IF calls[c].by = System THEN row.approver ELSE calls[c].by
    BY <1>6 DEF SetState, TypeOK
  <2>3. \A a : Signed(a) => Signed(a)'
    BY <1>4, <2>2 DEF Signed
  <2>4. calls[c].op = "approve" => /\ row'.approver = calls[c].by
                                   /\ calls[c].by # row.requester /\ Approval(calls[c].by)
    BY <2>1, <2>2, RoleAssumption DEF Control, Held, Stages
  <2>5. calls[c].op = "agent_start" => Made("agent_start") # {}
    BY DEF Made
  <2>6. /\ row'.state # "NONE" /\ (row'.state = "ACTIVE" => calls[c].op = "agent_start")
        /\ row'.state = "APPROVED" => calls[c].op = "approve"
    BY <2>1, <2>2, Targets
  <2>7. \A a : calls[c].op = "approve" /\ a = calls[c].by => Signed(a)'
    BY <1>4, <2>2, <2>4 DEF Signed
  <2>. QED
    BY <1>1, <1>2, <1>3, <2>2, <2>3, <2>4, <2>5, <2>6, <2>7 DEF Names
<1>7. CASE EmitEvidence(c)
  <2>1. /\ calls[c].op \in Ending /\ UNCHANGED <<row, audited>>
        /\ evidence' = evidence \cup {[approver |-> a, by |-> calls[c].by] : a \in {calls[c].approver} \ {NoOne}}
    BY <1>7 DEF EmitEvidence, Control, Stages
  <2>2. row.state # "NONE"
    BY <2>1 DEF Control, Unopened, Ending
  <2>3. \A a : Signed(a)' <=> Signed(a)
    BY <2>1 DEF Signed, Approval
  <2>4. \A e \in evidence' : e \in evidence \/ e.approver = calls[c].approver
    BY <2>1
  <2>. QED
    BY <1>1, <1>2, <1>3, <2>1, <2>2, <2>3, <2>4 DEF Names
<1>8. CASE /\ Audit(c) \/ AuditAutoApprove(c) \/ CreateRoom(c) \/ CreateRoomFails(c)
              \/ PublishStart(c) \/ PublishStop(c) \/ Fail(c)
  <2>1. evidence' = evidence /\ (row' = row \/ row' = [row EXCEPT !.state = "FAILED"])
    BY <1>8 DEF Audit, AuditAutoApprove, CreateRoom, CreateRoomFails, PublishStart, PublishStop,
       Fail
  <2>2. /\ row'.requester = row.requester /\ row'.approver = row.approver
        /\ row'.state \in {row.state, "FAILED"}
    BY <2>1 DEF TypeOK
  <2>3. \A a : Signed(a) => Signed(a)'
    BY <1>4, <2>2 DEF Signed
  <2>. QED
    BY <1>1, <1>2, <1>3, <2>1, <2>2, <2>3 DEF Names
<1>. QED
  BY <1>5, <1>6, <1>7, <1>8 DEF Step

LEMMA NamesKeeps ==
    ASSUME TypeOK, Control, Read, Names, RoleAssumption, [Next]_vars
    PROVE  Read' /\ Names'
<1>1. CASE UNCHANGED vars
  <2>1. UNCHANGED <<row, audited, sent, evidence, calls, fails>>
    BY <1>1 DEF vars
  <2>2. \A a : Signed(a)' <=> Signed(a)
    BY <2>1 DEF Signed, Approval
  <2>. QED
    BY <2>1, <2>2 DEF Read, Names, Made
<1>2. CASE Next
  BY <1>2, BeginNames, StepNames DEF Next
<1>. QED
  BY <1>1, <1>2

\* A write along no edge of the table is made on a row that is not as its caller
\* read it.
LEMMA WriteFollows ==
    ASSUME TypeOK, Control, Read, NEW c \in Calls, Step(c)
    PROVE  \/ Along(row.state, row'.state) \/ UNCHANGED row.state
           \/ calls'[c] # calls[c] /\ row.state # Believed(c)
<1>1. calls'[c] # calls[c]
  BY StepGoes
<1>2. CASE Create(c)
  <2>1. row.state = "NONE" /\ row'.state \in {"APPROVED", "REQUESTED"}
    BY <1>2 DEF Create, Control, Stages, Held
  <2>. QED
    BY <2>1 DEF Along
<1>3. CASE SetState(c)
  <2>1. calls[c].op \in Ending \cup {"approve", "deny", "agent_start"} /\ calls[c].at = "set"
    BY <1>3 DEF SetState, Control, Stages
  <2>2. row'.state = To[calls[c].op]
    BY <1>3 DEF SetState, TypeOK
  <2>3. SUFFICES ASSUME row.state = Believed(c)
                 PROVE  Along(row.state, row'.state)
    BY <1>1
  <2>4. Accepts(row.state, calls[c].op)
    <3>1. calls[c].op \in {"approve", "deny"} => row.state = "REQUESTED"
      BY <2>1, <2>3 DEF Believed, Read
    <3>2. calls[c].op = "agent_start" => row.state = "APPROVED"
      BY <2>3 DEF Believed
    <3>3. calls[c].op \in Ending => Accepts(row.state, calls[c].op)
      BY <2>1, <2>3 DEF Believed, Read, Ending
    <3>4. /\ Accepts("REQUESTED", "approve") /\ Accepts("REQUESTED", "deny")
          /\ Accepts("APPROVED", "agent_start")
      <4>1. /\ <<"REQUESTED", "approve", "APPROVED">> \in Edges /\ <<"REQUESTED", "deny", "DENIED">> \in Edges
            /\ <<"APPROVED", "agent_start", "ACTIVE">> \in Edges
        BY DEF Edges
      <4>. QED
        BY <4>1, StateNames DEF Accepts
    <3>. QED
      BY <2>1, <3>1, <3>2, <3>3, <3>4
  <2>5. <<row.state, calls[c].op, To[calls[c].op]>> \in Edges /\ calls[c].op \in Events
    <3>1. PICK t \in States : <<row.state, calls[c].op, t>> \in Edges
      BY <2>4 DEF Accepts
    <3>2. t = To[calls[c].op]
      BY <2>1, <3>1, EdgeEnds
    <3>3. \A edge \in Edges : edge[2] \in Events
      BY DEF Events
    <3>. QED
      BY <3>1, <3>2, <3>3
  <2>. QED
    BY <2>2, <2>5 DEF Along
<1>4. CASE CreateRoomFails(c)
  <2>1. calls[c].at = "room" /\ row'.state \in {row.state, "FAILED"}
    BY <1>4 DEF CreateRoomFails, TypeOK
  <2>2. <<"APPROVED", "agent_fail", "FAILED">> \in Edges
    BY DEF Edges
  <2>3. "agent_fail" \in Events
    BY <2>2 DEF Events
  <2>. QED
    BY <1>1, <2>1, <2>2, <2>3 DEF Believed, Along
<1>5. CASE Audit(c) \/ AuditAutoApprove(c) \/ CreateRoom(c) \/ PublishStart(c) \/ PublishStop(c)
           \/ EmitEvidence(c) \/ Fail(c)
  BY <1>5 DEF Audit, AuditAutoApprove, CreateRoom, PublishStart, PublishStop, EmitEvidence, Fail
<1>. QED
  BY <1>2, <1>3, <1>4, <1>5 DEF Step

----------------------------------------------------------------------------

LEMMA NextKeeps ==
    ASSUME TypeOK, Control, RoleAssumption, MaxFails \in Nat, [Next]_vars
    PROVE  TypeOK' /\ Control'
<1>1. CASE UNCHANGED vars
  <2>1. UNCHANGED <<row, audited, sent, evidence, calls, fails>>
    BY <1>1 DEF vars
  <2>2. TypeOK'
    BY <2>1 DEF TypeOK
  <2>3. Started' = Started /\ (Authorised => Authorised')
    BY <2>1 DEF Started, Authorised, Approval
  <2>4. Stages' /\ OneRequest' /\ Unopened' /\ Asked'
    BY <2>1, <2>3 DEF Control, Stages, OneRequest, Unopened, Asked
  <2>5. Held'
    BY <2>1, <2>3 DEF Control, Held, Approval
  <2>6. StartsAuthorised'
    BY <2>1, <2>3 DEF Control, StartsAuthorised
  <2>. QED
    BY <2>2, <2>4, <2>5, <2>6 DEF Control
<1>2. ASSUME NEW c \in Calls, Begin(c) \/ Step(c)
      PROVE  TypeOK' /\ Control'
  BY <1>2, BeginKeeps, AuditKeeps, CreateKeeps, AutoKeeps, SetStateKeeps,
     ProvisionKeeps, ClosingKeeps DEF Step
<1>. QED
  BY <1>1, <1>2 DEF Next

\* For any users, roles and calls, every variable keeps its type.
THEOREM Typed == Spec => []TypeOK
<1>1. Init => TypeOK /\ Control
  BY BoundAssumption, InitHolds
<1>2. TypeOK /\ Control /\ [Next]_vars => TypeOK' /\ Control'
  BY RoleAssumption, BoundAssumption, NextKeeps
<1>. QED
  BY <1>1, <1>2, PTL DEF Spec

\* For any users, roles and calls, and any interleaving and failure of them, no
\* agent is told to start and no session is open without dual control: a second
\* person's audited approval, or an admin's own request; and the evidence of it names
\* a second person who approved, whoever wrote approver_id since, unless an agent
\* reported its start.
THEOREM NoSingleControl == Spec => []DualControl
<1>1. Init => TypeOK /\ Control
  BY BoundAssumption, InitHolds
<1>2. TypeOK /\ Control /\ [Next]_vars => TypeOK' /\ Control'
  BY RoleAssumption, BoundAssumption, NextKeeps
<1>3. Init => Read /\ Names
  BY DEF Init, NotMade, Read, Names, Ending
<1>4. TypeOK /\ Control /\ Read /\ Names /\ [Next]_vars => Read' /\ Names'
  BY RoleAssumption, NamesKeeps
<1>5. TypeOK /\ Control /\ Names => DualControl
  <2>1. TypeOK => \A e \in evidence : e.approver \in Users
    BY DEF TypeOK
  <2>. QED
    BY <2>1, RoleAssumption DEF Control, DualControl, EvidenceDual, Names, Signed
<1>. QED
  BY <1>1, <1>2, <1>3, <1>4, <1>5, PTL DEF Spec

\* For any users, roles and calls, a session leaves the table of state.go by a lost
\* update only: a write on a row that is not as its caller read it (SetState).
THEOREM OnlyLostUpdates == Spec => FollowsTable
<1>1. Init => TypeOK /\ Control
  BY BoundAssumption, InitHolds
<1>2. TypeOK /\ Control /\ [Next]_vars => TypeOK' /\ Control'
  BY RoleAssumption, BoundAssumption, NextKeeps
<1>3. Init => Read /\ Names
  BY DEF Init, NotMade, Read, Names, Ending
<1>4. TypeOK /\ Control /\ Read /\ Names /\ [Next]_vars => Read' /\ Names'
  BY RoleAssumption, NamesKeeps
<1>5. TypeOK /\ Control /\ Read /\ [Next]_vars =>
        [\/ Along(row.state, row'.state) \/ UNCHANGED row.state
         \/ \E c \in Calls : calls'[c] # calls[c] /\ row.state # Believed(c)]_vars
  <2>1. ASSUME NEW c \in Calls, Begin(c)
        PROVE  UNCHANGED row.state
    BY <2>1, BeginReads DEF Call
  <2>. QED
    BY <2>1, WriteFollows DEF Next
<1>. QED
  BY <1>1, <1>2, <1>3, <1>4, <1>5, PTL DEF Spec, FollowsTable

---------------------------------------------------------------------------
(* Data subject requests, the part of MCRequests whose steps are Rights'.  *)

Answers == {"respond", "export", "erase"}
Answering == {"audit", "write", "evidence"}

\* The pcs at which an erasure has deleted the events, the row and the key.
PastEvents == {"rows", "key", "persist"} \cup Answering
PastRow == {"key", "persist"} \cup Answering
PastKey == {"persist"} \cup Answering

Logs == [op : Rights!Ops \cup {"submit", "exported", "erased"}, of : Rights!Targets, art : Rights!Artifacts]
PCs == {"audit", "write", "evidence", "collect", "holds", "blobs", "events", "rows", "key",
        "persist", "aborted", "manifest", "put", "insert", "idle"}
RunType == [pc : PCs, op : Rights!Ops \cup {"none"}, of : Rights!Targets, id : 0..MaxOps, ref : Nat,
            saw : SUBSET (Holds \cup Requests)]

\* Which handler is at which step, and what it is about.
Stage(n) ==
    /\ n.op \in Answers \cup {"reject", "extend"} => n.of \in Requests
    /\ n.op \in {"place", "release"} => n.of \in Holds
    /\ n.pc = "collect" => n.op = "export"
    /\ n.pc = "evidence" => n.op \in Answers
    /\ n.pc \in {"put", "insert"} => n.op = "report" /\ n.saw \subseteq Requests
    /\ n.pc \in {"audit", "write"} => n.op \in Rights!Ops \ {"report"}
    /\ n.op = "erase" => n.pc # "idle"

\* An answer that is about to be written has the entry it names.
Cites(n, l) == n.op \in Answers /\ n.pc \in {"write", "evidence"} =>
    n.ref \in DOMAIN l /\ l[n.ref] = Rights!Entry("respond", n.of, Rights!Artifact(n.op))

\* What an erasure has done so far, and which holds it had found.
Erasing(n, s) == n.op = "erase" =>
    /\ n.pc \in PastEvents => "events" \notin s[subject[n.of]]
    /\ n.pc \in PastRow => "row" \notin s[subject[n.of]]
    /\ n.pc \in PastKey => "key" \notin s[subject[n.of]]
    /\ n.pc # "holds" => \A h \in n.saw \cap Holds : covers[h] # subject[n.of]

RunOK(n, l, s) == n \in RunType /\ Stage(n) /\ Cites(n, l) /\ Erasing(n, s)

Handlers == run \in [Runs -> RunType] /\ \A w \in Runs : RunOK(run[w], log, store)

\* A row, the log it cites and the store of its person.
RowOK(q, r, l, s) ==
    /\ q.state = "resolved" => q.ref \in DOMAIN l /\ l[q.ref] = Rights!Entry("respond", r, q.art)
    /\ q.art = "erasure-report" => "key" \notin s[subject[r]]
    /\ q.state = "overdue" => q.left = 0
Rows == \A r \in Requests : RowOK(req[r], r, log, store)
KeyIsLast == \A u \in Subjects : "key" \notin store[u] => store[u] \cap {"events", "row"} = {}

RqInv == Rights!TypeOK /\ log \in Seq(Logs) /\ Handlers /\ Rows /\ KeyIsLast /\ Rights!EvidenceCites

LEMMA RqImplies == RqInv => Rights!RightsTrue
  BY DEF RqInv, Rights!RightsTrue, Rows, RowOK, KeyIsLast, Rights!AnswerLogged, Rights!KeyLast,
     Rights!OverdueIsLate

\* The log only grows, and the stores only shrink.
Grows(l, m) == DOMAIN l \subseteq DOMAIN m /\ \A i \in DOMAIN l : m[i] = l[i]
Shrinks(s, t) == \A u \in Subjects : t[u] \subseteq s[u]

LEMMA Appended ==
    ASSUME NEW l \in Seq(Logs), NEW e \in Logs
    PROVE  /\ Append(l, e) \in Seq(Logs) /\ Grows(l, Append(l, e))
           /\ Len(Append(l, e)) \in DOMAIN Append(l, e) /\ Append(l, e)[Len(Append(l, e))] = e
           /\ Len(Append(l, e)) \in Nat
  BY DEF Grows

LEMMA GrowsSame == ASSUME NEW l PROVE Grows(l, l)
  BY DEF Grows

LEMMA RunKeeps ==
    ASSUME NEW n, NEW l, NEW m, NEW s, NEW t, RunOK(n, l, s), Grows(l, m), Shrinks(s, t)
    PROVE  RunOK(n, m, t)
<1>1. Cites(n, m)
  BY DEF RunOK, Cites, Grows
<1>2. n.op = "erase" => subject[n.of] \in Subjects
  BY RightsAssumption DEF RunOK, Stage, Answers
<1>3. Erasing(n, t)
  BY <1>2 DEF RunOK, Erasing, Shrinks
<1> QED
  BY <1>1, <1>3 DEF RunOK

LEMMA RowKeeps ==
    ASSUME NEW q, NEW r \in Requests, NEW l, NEW m, NEW s, NEW t,
           RowOK(q, r, l, s), Grows(l, m), Shrinks(s, t)
    PROVE  RowOK(q, r, m, t)
<1>1. subject[r] \in Subjects
  BY RightsAssumption
<1> QED
  BY <1>1 DEF RowOK, Grows, Shrinks

LEMMA IdleRun == Rights!Idle \in RunType /\ Stage(Rights!Idle) /\ \A l, s : Cites(Rights!Idle, l) /\ Erasing(Rights!Idle, s)
<1>1. 0 \in 0..MaxOps /\ 0 \in Nat
  BY RightsAssumption
<1>2. Rights!Idle \in RunType
  BY <1>1 DEF Rights!Idle, RunType, Rights!Targets, PCs
<1>3. Stage(Rights!Idle)
  BY DEF Rights!Idle, Stage, Answers, Rights!Ops
<1>4. \A l, s : Cites(Rights!Idle, l) /\ Erasing(Rights!Idle, s)
  BY DEF Rights!Idle, Cites, Erasing, Answers
<1> QED
  BY <1>2, <1>3, <1>4

LEMMA RqBegins == Rights!Init => RqInv
<1> SUFFICES ASSUME Rights!Init PROVE RqInv
  OBVIOUS
<1>1. Rights!NoRequest \in [state : Rights!Fulfillable \cup Rights!Closed \cup {"none"},
                            left : Nat, art : Rights!Artifacts, ref : Nat]
  BY DEF Rights!NoRequest, Rights!Artifacts
<1>2. Rights!Idle \in RunType /\ Stage(Rights!Idle) /\ \A l, s : Cites(Rights!Idle, l) /\ Erasing(Rights!Idle, s)
  BY IdleRun
<1>3. log = <<>> /\ log \in Seq(Logs) /\ DOMAIN log = {}
  BY DEF Rights!Init
<1>4. Rights!TypeOK
  BY <1>1, <1>2, <1>3, RightsAssumption DEF Rights!Init, Rights!TypeOK, Rights!Stores, RunType,
     Rights!Idle
<1>5. Handlers
  BY <1>2 DEF Rights!Init, Handlers, RunOK
<1>6. Rows
  BY DEF Rights!Init, Rows, RowOK, Rights!NoRequest
<1>7. KeyIsLast /\ Rights!EvidenceCites
  BY DEF Rights!Init, KeyIsLast, Rights!EvidenceCites, Rights!Stores
<1> QED
  BY <1>3, <1>4, <1>5, <1>6, <1>7 DEF RqInv

ReqType == [Requests -> [state : Rights!Fulfillable \cup Rights!Closed \cup {"none"},
                         left : Nat, art : Rights!Artifacts, ref : Nat]]
ReportType == [pdf : 0..MaxOps, row : 0..MaxOps, listed : SUBSET Requests]

\* What a step must leave true: the log has grown, the stores shrunk, and what the
\* step wrote is right.
LEMMA RqKeeps ==
    ASSUME RqInv,
           req' \in ReqType, hold' \in [Holds -> {"none", "active", "released"}],
           store' \in [Subjects -> SUBSET Rights!Stores], report' \in ReportType,
           job' \in {"idle", "risk", "late"}, ops' \in 0..MaxOps,
           log' \in Seq(Logs), Grows(log, log'), Shrinks(store, store'), KeyIsLast',
           NEW n \in RunType,
           run' = run \/ \E w \in Runs : run' = [run EXCEPT ![w] = n] /\ RunOK(n, log', store'),
           \A r \in Requests : req'[r] = req[r] \/ RowOK(req'[r], r, log', store'),
           \A e \in evid' : \/ e \in evid
                            \/ /\ e \in [of : Requests, art : Rights!Artifacts, ref : DOMAIN log']
                               /\ log'[e.ref] = Rights!Entry("respond", e.of, e.art)
    PROVE  RqInv'
<1>1. \A w \in Runs : RunOK(run[w], log', store')
  BY RunKeeps DEF RqInv, Handlers
<1>2. Handlers'
  BY <1>1 DEF RqInv, Handlers
<1>3. \A r \in Requests : RowOK(req[r], r, log', store')
  BY RowKeeps DEF RqInv, Rows
<1>4. Rows'
  BY <1>3 DEF Rows
<1>5. \A e \in evid : e \in [of : Requests, art : Rights!Artifacts, ref : DOMAIN log']
                      /\ log'[e.ref] = Rights!Entry("respond", e.of, e.art)
  <2>1. evid \subseteq [of : Requests, art : Rights!Artifacts, ref : DOMAIN log]
    BY DEF RqInv, Rights!TypeOK
  <2> QED
    BY <2>1 DEF RqInv, Rights!EvidenceCites, Grows
<1>6. Rights!EvidenceCites'
  BY <1>5 DEF Rights!EvidenceCites
<1>7. Rights!TypeOK'
  <2>1. \A k \in DOMAIN log' : log'[k] \in Logs
    OBVIOUS
  <2>2. \A w \in Runs : run'[w] \in RunType
    BY <1>2 DEF Handlers
  <2> QED
    BY <1>5, <2>1, <2>2 DEF Rights!TypeOK, Logs, RunType, ReqType, ReportType
<1> QED
  BY <1>2, <1>4, <1>6, <1>7 DEF RqInv

\* A step of a handler that writes nothing but the log.
LEMMA RunOnly ==
    ASSUME RqInv, NEW w \in Runs, NEW n \in RunType, run' = [run EXCEPT ![w] = n],
           log' \in Seq(Logs), Grows(log, log'), RunOK(n, log', store), ops' \in 0..MaxOps,
           UNCHANGED <<Rights!rows, evid, job>>
    PROVE  RqInv'
<1>1. UNCHANGED <<req, hold, store, report>>
  BY DEF Rights!rows
<1>2. Shrinks(store, store') /\ KeyIsLast' /\ RunOK(n, log', store')
  BY <1>1 DEF Shrinks, RqInv, KeyIsLast
<1>3. /\ req' \in ReqType /\ hold' \in [Holds -> {"none", "active", "released"}]
      /\ store' \in [Subjects -> SUBSET Rights!Stores] /\ report' \in ReportType
      /\ job' \in {"idle", "risk", "late"}
  BY <1>1 DEF RqInv, Rights!TypeOK, ReqType, ReportType
<1>4. \A r \in Requests : req'[r] = req[r]
  BY <1>1
<1>5. evid' = evid
  OBVIOUS
<1> QED
  BY <1>2, <1>3, <1>4, <1>5, RqKeeps

LEMMA CallStep ==
    ASSUME RqInv, NEW w \in Runs, NEW op \in Rights!Ops, NEW of \in Rights!Targets, NEW pc \in PCs,
           Rights!Call(w, op, of, pc),
           op \in Answers \cup {"reject", "extend"} => of \in Requests,
           op \in {"place", "release"} => of \in Holds,
           \/ pc = "audit" /\ op \in {"respond", "reject", "extend", "place", "release"}
           \/ pc = "collect" /\ op = "export"
           \/ pc = "holds" /\ op = "erase"
           \/ pc = "manifest" /\ op = "report"
    PROVE  RqInv'
<1> DEFINE n == [Rights!Idle EXCEPT !.pc = pc, !.op = op, !.of = of, !.id = ops + 1]
<1>1. ops + 1 \in 0..MaxOps
  BY RightsAssumption DEF Rights!Call, RqInv, Rights!TypeOK
<1>2. n.pc = pc /\ n.op = op /\ n.of = of /\ n.saw = {}
  BY DEF Rights!Idle
<1>3. n \in RunType
  BY <1>1, IdleRun DEF RunType
<1>4. Stage(n) /\ Cites(n, log) /\ Erasing(n, store)
  BY <1>2 DEF Stage, Cites, Erasing, Answers, PastEvents, PastRow, PastKey, Answering, Rights!Ops
<1>5. run' = [run EXCEPT ![w] = n] /\ UNCHANGED <<Rights!rows, evid, job>> /\ log' = log /\ ops' = ops + 1
  BY DEF Rights!Call
<1>6. RunOK(n, log', store)
  BY <1>3, <1>4, <1>5 DEF RunOK
<1>7. log' \in Seq(Logs) /\ Grows(log, log')
  BY <1>5, GrowsSame DEF RqInv
<1> HIDE DEF n
<1> QED
  BY <1>1, <1>3, <1>5, <1>6, <1>7, RunOnly

LEMMA FailStep == ASSUME RqInv, NEW w \in Runs, Rights!Fail(w) PROVE RqInv'
<1>1. run' = [run EXCEPT ![w] = Rights!Idle] /\ UNCHANGED <<Rights!rows, evid, job>> /\ log' = log /\ ops' \in 0..MaxOps
  BY DEF Rights!Fail, RqInv, Rights!TypeOK
<1>2. RunOK(Rights!Idle, log', store)
  BY IdleRun DEF RunOK
<1> QED
  BY <1>1, <1>2, IdleRun, GrowsSame, RunOnly DEF RqInv

\* A handler goes on, and nothing else changes but the log.
LEMMA GoesOn ==
    ASSUME RqInv, NEW w \in Runs, NEW pc \in PCs, run' = [run EXCEPT ![w].pc = pc],
           log' \in Seq(Logs), Grows(log, log'),
           \/ run[w].pc = "collect" /\ pc = "audit"
           \/ run[w].pc = "persist" /\ run[w].op = "erase" /\ pc = "audit"
           \/ run[w].pc = "rows" /\ run[w].op = "erase" /\ pc = "aborted",
           UNCHANGED <<Rights!rows, evid, job, ops>>
    PROVE  RqInv'
<1> DEFINE n == [run[w] EXCEPT !.pc = pc]
<1>1. run[w] \in RunType /\ RunOK(run[w], log, store) /\ run \in [Runs -> RunType] /\ ops \in 0..MaxOps
  BY DEF RqInv, Handlers, Rights!TypeOK
<1>2. n \in RunType /\ run' = [run EXCEPT ![w] = n]
  BY <1>1 DEF RunType
<1>3. n.pc = pc /\ n.op = run[w].op /\ n.of = run[w].of /\ n.saw = run[w].saw
  BY <1>1 DEF RunType
<1>4. Stage(n)
  BY <1>1, <1>3 DEF RunOK, Stage, Answers, Rights!Ops
<1>5. Cites(n, log') /\ Erasing(n, store)
  BY <1>1, <1>3 DEF RunOK, Stage, Cites, Erasing, PastEvents, PastRow, PastKey, Answering
<1>6. RunOK(n, log', store)
  BY <1>2, <1>4, <1>5 DEF RunOK
<1> HIDE DEF n
<1> QED
  BY <1>1, <1>2, <1>6, RunOnly

LEMMA ArtifactIs == \A op \in Answers : Rights!Artifact(op) \in Rights!Artifacts /\ (Rights!Artifact(op) = "erasure-report" => op = "erase")
  BY DEF Answers, Rights!Artifact, Rights!Artifacts

\* The run of a handler that acts.
LEMMA Acting ==
    ASSUME RqInv, NEW w \in Runs
    PROVE  /\ run \in [Runs -> RunType] /\ run[w] \in RunType /\ RunOK(run[w], log, store) /\ ops \in 0..MaxOps
           /\ run[w].of \in Rights!Targets /\ log \in Seq(Logs) /\ run[w].id \in 0..MaxOps /\ run[w].saw \in SUBSET (Holds \cup Requests)
  BY DEF RqInv, Handlers, Rights!TypeOK, RunType

LEMMA AuditFirstStep == ASSUME RqInv, NEW w \in Runs, Rights!AuditFirst(w) PROVE RqInv'
<1> DEFINE op == IF run[w].op \in {"export", "erase"} THEN "respond" ELSE run[w].op
           art == IF op = "respond" THEN Rights!Artifact(run[w].op) ELSE "none"
           e == Rights!Entry(op, run[w].of, art)
           n == [run[w] EXCEPT !.pc = "write", !.ref = Len(log')]
<1>1. run[w] \in RunType /\ RunOK(run[w], log, store) /\ run \in [Runs -> RunType] /\ ops \in 0..MaxOps
  BY Acting
<1>2. run[w].pc = "audit" /\ log' = Append(log, e) /\ run' = [run EXCEPT ![w] = n]
      /\ UNCHANGED <<Rights!rows, evid, job, ops>>
  BY <1>1 DEF Rights!AuditFirst, RunType
<1>3. run[w].op \in Rights!Ops \ {"report"} /\ (op = "respond" => run[w].op \in Answers)
      /\ (run[w].op \in Answers => op = "respond")
  BY <1>1, <1>2 DEF RunOK, Stage, Answers, Rights!Ops
<1>4. op \in Rights!Ops /\ art \in Rights!Artifacts
  BY <1>3, ArtifactIs DEF Rights!Ops, Rights!Artifacts
<1>5. e \in Logs
  BY <1>1, <1>4 DEF Rights!Entry, Logs, RunType
<1>6. /\ log' \in Seq(Logs) /\ Grows(log, log') /\ Len(log') \in Nat
      /\ Len(log') \in DOMAIN log' /\ log'[Len(log')] = e
  BY <1>2, <1>5, Appended DEF RqInv
<1> HIDE DEF op, art
<1>7. n \in RunType
  BY <1>1, <1>6 DEF RunType, PCs
<1>8. n.pc = "write" /\ n.op = run[w].op /\ n.of = run[w].of /\ n.saw = run[w].saw /\ n.ref = Len(log')
  BY <1>1 DEF RunType
<1>9. Stage(n)
  BY <1>1, <1>2, <1>8 DEF RunOK, Stage
<1>10. Erasing(n, store)
  BY <1>1, <1>2, <1>8 DEF RunOK, Erasing, PastEvents, PastRow, PastKey, Answering
<1>11. Cites(n, log')
  BY <1>3, <1>6, <1>8 DEF Cites, art
<1>12. RunOK(n, log', store)
  BY <1>7, <1>9, <1>10, <1>11 DEF RunOK
<1> HIDE DEF n
<1> QED
  BY <1>1, <1>2, <1>6, <1>7, <1>12, RunOnly

LEMMA ExportStep == ASSUME RqInv, NEW w \in Runs, Rights!ExportZip(w) PROVE RqInv'
<1>1. run[w].pc = "collect" /\ run' = [run EXCEPT ![w].pc = "audit"] /\ UNCHANGED <<Rights!rows, evid, job, ops>>
      /\ log' \in {log, Append(log, Rights!Entry("exported", run[w].of, "zip"))}
  BY DEF Rights!ExportZip, Rights!At, Rights!Goto
<1>2. Rights!Entry("exported", run[w].of, "zip") \in Logs
  BY Acting DEF Rights!Entry, Logs, Rights!Artifacts
<1>3. log' \in Seq(Logs) /\ Grows(log, log')
  BY <1>1, <1>2, Appended, GrowsSame DEF RqInv
<1> QED
  BY <1>1, <1>3, GoesOn DEF PCs

LEMMA PersistStep == ASSUME RqInv, NEW w \in Runs, Rights!PersistReport(w) PROVE RqInv'
<1>1. run[w].pc = "persist" /\ run[w].op = "erase" /\ run' = [run EXCEPT ![w].pc = "audit"]
      /\ UNCHANGED <<Rights!rows, evid, job, ops>>
      /\ log' \in {log, Append(log, Rights!Entry("erased", run[w].of, "none"))}
  BY DEF Rights!PersistReport, Rights!At, Rights!Goto
<1>2. Rights!Entry("erased", run[w].of, "none") \in Logs
  BY Acting DEF Rights!Entry, Logs, Rights!Artifacts
<1>3. log' \in Seq(Logs) /\ Grows(log, log')
  BY <1>1, <1>2, Appended, GrowsSame DEF RqInv
<1> QED
  BY <1>1, <1>3, GoesOn DEF PCs

\* An erasure goes on only when no hold on the person was active.
LEMMA LookUpStep == ASSUME RqInv, NEW w \in Runs, Rights!LookUpHolds(w) PROVE RqInv'
<1> DEFINE n == [run[w] EXCEPT !.pc = "blobs", !.saw = {h \in Holds : hold[h] = "active"}]
<1>1. run[w] \in RunType /\ RunOK(run[w], log, store) /\ run \in [Runs -> RunType] /\ ops \in 0..MaxOps
  BY Acting
<1>2. run[w].pc = "holds" /\ run[w].op = "erase" /\ run' = [run EXCEPT ![w] = n]
      /\ UNCHANGED <<Rights!rows, evid, job>> /\ log' = log /\ ops' = ops
  BY <1>1 DEF Rights!LookUpHolds, Rights!At, RunType
<1>3. n \in RunType
  BY <1>1 DEF RunType, PCs
<1>4. n.pc = "blobs" /\ n.op = "erase" /\ n.of = run[w].of /\ n.saw = {h \in Holds : hold[h] = "active"}
  BY <1>1, <1>2 DEF RunType
<1>5. Stage(n) /\ Cites(n, log)
  BY <1>1, <1>2, <1>4 DEF RunOK, Stage, Cites, Answers
<1>6. \A h \in n.saw \cap Holds : covers[h] # subject[n.of]
  BY <1>4 DEF Rights!LookUpHolds, Rights!Active, Rights!Person
<1>7. Erasing(n, store)
  BY <1>4, <1>6 DEF Erasing, PastEvents, PastRow, PastKey, Answering
<1>8. RunOK(n, log', store) /\ log' \in Seq(Logs) /\ Grows(log, log')
  BY <1>2, <1>3, <1>5, <1>7, GrowsSame DEF RunOK, RqInv
<1> HIDE DEF n
<1> QED
  BY <1>1, <1>2, <1>3, <1>8, RunOnly

LEMMA ManifestStep == ASSUME RqInv, NEW w \in Runs, Rights!BuildManifest(w) PROVE RqInv'
<1> DEFINE n == [run[w] EXCEPT !.pc = "put", !.saw = {r \in Erase : req[r].state = "resolved"}]
<1>1. run[w] \in RunType /\ RunOK(run[w], log, store) /\ run \in [Runs -> RunType] /\ ops \in 0..MaxOps
  BY Acting
<1>2. run[w].pc = "manifest" /\ run[w].op = "report" /\ run' = [run EXCEPT ![w] = n]
      /\ UNCHANGED <<Rights!rows, evid, job>> /\ log' = log /\ ops' = ops
  BY <1>1 DEF Rights!BuildManifest, Rights!At, RunType
<1>3. {r \in Erase : req[r].state = "resolved"} \subseteq Requests
  BY RightsAssumption
<1>4. n \in RunType
  BY <1>1, <1>3 DEF RunType, PCs
<1>5. n.pc = "put" /\ n.op = "report" /\ n.of = run[w].of /\ n.saw \subseteq Requests
  BY <1>1, <1>2, <1>3 DEF RunType
<1>6. Stage(n) /\ Cites(n, log) /\ Erasing(n, store)
  BY <1>5 DEF Stage, Cites, Erasing, Answers
<1>7. RunOK(n, log', store) /\ log' \in Seq(Logs) /\ Grows(log, log')
  BY <1>2, <1>4, <1>6, GrowsSame DEF RunOK, RqInv
<1> HIDE DEF n
<1> QED
  BY <1>1, <1>2, <1>4, <1>7, RunOnly

\* A handler writes rows or holds, and is done or goes on to its evidence.
LEMMA WritesRow ==
    ASSUME RqInv, req' \in ReqType, hold' \in [Holds -> {"none", "active", "released"}],
           job' \in {"idle", "risk", "late"}, ops' \in 0..MaxOps,
           log' \in Seq(Logs), Grows(log, log'), UNCHANGED <<store, report, evid>>,
           NEW n \in RunType,
           run' = run \/ \E w \in Runs : run' = [run EXCEPT ![w] = n] /\ RunOK(n, log', store),
           \A r \in Requests : req'[r] = req[r] \/ RowOK(req'[r], r, log', store)
    PROVE  RqInv'
<1>1. Shrinks(store, store') /\ KeyIsLast'
  BY DEF Shrinks, RqInv, KeyIsLast
<1>2. store' \in [Subjects -> SUBSET Rights!Stores] /\ report' \in ReportType
  BY DEF RqInv, Rights!TypeOK, ReportType
<1>3. \A r \in Requests : req'[r] = req[r] \/ RowOK(req'[r], r, log', store')
  OBVIOUS
<1>4. run' = run \/ \E w \in Runs : run' = [run EXCEPT ![w] = n] /\ RunOK(n, log', store')
  OBVIOUS
<1>5. evid' = evid
  OBVIOUS
<1> QED
  BY <1>1, <1>2, <1>3, <1>4, <1>5, RqKeeps

LEMMA RowIs ==
    ASSUME RqInv, NEW r \in Requests
    PROVE  /\ req \in ReqType /\ RowOK(req[r], r, log, store)
           /\ req[r] \in [state : Rights!Fulfillable \cup Rights!Closed \cup {"none"},
                          left : Nat, art : Rights!Artifacts, ref : Nat]
  BY DEF RqInv, Rights!TypeOK, ReqType, Rows

LEMMA RespondStep == ASSUME RqInv, NEW w \in Runs, Rights!RespondWrite(w) PROVE RqInv'
<1> DEFINE n == [run[w] EXCEPT !.pc = "evidence"]
           a == run[w].of
           q == [req[a] EXCEPT !.state = "resolved", !.art = Rights!Artifact(run[w].op), !.ref = run[w].ref]
<1>1. run[w] \in RunType /\ RunOK(run[w], log, store) /\ run \in [Runs -> RunType] /\ ops \in 0..MaxOps
  BY Acting
<1>2. run[w].op \in Answers /\ run[w].pc = "write"
      /\ UNCHANGED <<hold, store, report, evid>> /\ log' = log /\ job' = job /\ ops' = ops
  BY DEF Rights!RespondWrite, Rights!At, Answers
<1>3. a \in Requests
  BY <1>1, <1>2 DEF RunOK, Stage
<1>4. req' = [req EXCEPT ![a] = q] /\ run' = [run EXCEPT ![w] = n]
  BY <1>1, <1>3, RowIs DEF Rights!RespondWrite, Rights!Goto, ReqType, RunType
<1>5. Rights!Artifact(run[w].op) \in Rights!Artifacts /\ (Rights!Artifact(run[w].op) = "erasure-report" => run[w].op = "erase") /\ run[w].ref \in Nat
  BY <1>1, <1>2, ArtifactIs DEF RunType
<1>6. /\ q \in [state : Rights!Fulfillable \cup Rights!Closed \cup {"none"},
                left : Nat, art : Rights!Artifacts, ref : Nat]
      /\ q.state = "resolved" /\ q.art = Rights!Artifact(run[w].op) /\ q.ref = run[w].ref
  BY <1>3, <1>5, RowIs DEF Rights!Closed
<1>7. RowOK(q, a, log, store)
  BY <1>1, <1>2, <1>5, <1>6 DEF RowOK, RunOK, Cites, Erasing, PastKey, Answering
<1>8. n \in RunType /\ n.pc = "evidence" /\ n.op = run[w].op /\ n.of = a /\ n.ref = run[w].ref /\ n.saw = run[w].saw
  BY <1>1 DEF RunType, PCs
<1>9. Stage(n) /\ Cites(n, log) /\ Erasing(n, store)
  BY <1>1, <1>2, <1>8 DEF RunOK, Stage, Cites, Erasing, PastEvents, PastRow, PastKey, Answering,
     Answers
<1>10. RunOK(n, log', store) /\ log' \in Seq(Logs) /\ Grows(log, log') /\ job' \in {"idle", "risk", "late"}
       /\ hold' \in [Holds -> {"none", "active", "released"}]
  BY <1>2, <1>8, <1>9, GrowsSame DEF RunOK, RqInv, Rights!TypeOK
<1> HIDE DEF n, q
<1>11. req' \in ReqType /\ \A r \in Requests : req'[r] = req[r] \/ RowOK(req'[r], r, log', store)
  BY <1>2, <1>3, <1>4, <1>6, <1>7, RowIs DEF ReqType
<1> QED
  BY <1>1, <1>2, <1>4, <1>8, <1>10, <1>11, WritesRow

\* A handler that has written, or found nothing to write, is done.
LEMMA Finishes ==
    ASSUME RqInv, NEW w \in Runs, run' = [run EXCEPT ![w] = Rights!Idle],
           req' \in ReqType, hold' \in [Holds -> {"none", "active", "released"}],
           UNCHANGED <<store, report, log, evid, job, ops>>,
           \A r \in Requests : req'[r] = req[r] \/ RowOK(req'[r], r, log, store)
    PROVE  RqInv'
<1>1. job' \in {"idle", "risk", "late"} /\ ops' \in 0..MaxOps /\ log' \in Seq(Logs) /\ Grows(log, log')
  BY GrowsSame DEF RqInv, Rights!TypeOK
<1>2. Rights!Idle \in RunType /\ RunOK(Rights!Idle, log', store)
  BY IdleRun DEF RunOK
<1>3. \A r \in Requests : req'[r] = req[r] \/ RowOK(req'[r], r, log', store)
  OBVIOUS
<1> QED
  BY <1>1, <1>2, <1>3, WritesRow

LEMMA RejectStep == ASSUME RqInv, NEW w \in Runs, Rights!RejectWrite(w) PROVE RqInv'
<1> DEFINE a == run[w].of
           q == [req[a] EXCEPT !.state = "rejected"]
<1>1. a \in Requests
  BY Acting DEF Rights!RejectWrite, Rights!At, RunOK, Stage
<1>2. req' = [req EXCEPT ![a] = q] /\ run' = [run EXCEPT ![w] = Rights!Idle] /\ UNCHANGED <<hold, store, report, log, evid, job, ops>>
  BY <1>1, RowIs DEF Rights!RejectWrite, ReqType
<1>3. /\ q \in [state : Rights!Fulfillable \cup Rights!Closed \cup {"none"},
                left : Nat, art : Rights!Artifacts, ref : Nat]
      /\ q.state = "rejected" /\ q.art = req[a].art
  BY <1>1, RowIs DEF Rights!Closed
<1>4. RowOK(q, a, log, store)
  BY <1>1, <1>3, RowIs DEF RowOK
<1> HIDE DEF q
<1>5. req' \in ReqType /\ \A r \in Requests : req'[r] = req[r] \/ RowOK(req'[r], r, log, store)
  BY <1>1, <1>2, <1>3, <1>4, RowIs DEF ReqType
<1>6. hold' \in [Holds -> {"none", "active", "released"}]
  BY <1>2 DEF RqInv, Rights!TypeOK
<1> QED
  BY <1>2, <1>5, <1>6, Finishes

LEMMA ExtendStep == ASSUME RqInv, NEW w \in Runs, Rights!ExtendWrite(w) PROVE RqInv'
<1> DEFINE a == run[w].of
           q == [req[a] EXCEPT !.left = @ + Sla]
<1>1. a \in Requests
  BY Acting DEF Rights!ExtendWrite, Rights!At, RunOK, Stage
<1>2. run' = [run EXCEPT ![w] = Rights!Idle] /\ UNCHANGED <<hold, store, report, log, evid, job, ops>>
  BY DEF Rights!ExtendWrite
<1>3. hold' \in [Holds -> {"none", "active", "released"}]
  BY <1>2 DEF RqInv, Rights!TypeOK
<1>4. CASE req[a].state \in {"open", "at_risk"}
  <2>1. req' = [req EXCEPT ![a] = q]
    BY <1>1, <1>4, RowIs DEF Rights!ExtendWrite, ReqType
  <2>2. req[a].left + Sla \in Nat
    BY <1>1, RowIs, RightsAssumption
  <2>3. /\ q \in [state : Rights!Fulfillable \cup Rights!Closed \cup {"none"},
                  left : Nat, art : Rights!Artifacts, ref : Nat]
        /\ q.state = req[a].state /\ q.art = req[a].art
    BY <1>1, <2>2, RowIs
  <2>4. RowOK(q, a, log, store)
    BY <1>1, <1>4, <2>3, RowIs DEF RowOK
  <2> HIDE DEF q
  <2>5. req' \in ReqType /\ \A r \in Requests : req'[r] = req[r] \/ RowOK(req'[r], r, log, store)
    BY <1>1, <2>1, <2>3, <2>4, RowIs DEF ReqType
  <2> QED
    BY <1>2, <1>3, <2>5, Finishes
<1>5. CASE req[a].state \notin {"open", "at_risk"}
  BY <1>1, <1>2, <1>3, <1>5, RowIs, Finishes DEF Rights!ExtendWrite
<1> QED
  BY <1>4, <1>5

LEMMA HoldStep == ASSUME RqInv, NEW w \in Runs, Rights!PlaceWrite(w) \/ Rights!ReleaseWrite(w) PROVE RqInv'
<1>1. /\ run' = [run EXCEPT ![w] = Rights!Idle] /\ req' = req /\ UNCHANGED <<store, report, log, evid, job, ops>>
  BY DEF Rights!PlaceWrite, Rights!ReleaseWrite
<1>2. hold' \in [Holds -> {"none", "active", "released"}] /\ req' \in ReqType
  BY <1>1 DEF Rights!PlaceWrite, Rights!ReleaseWrite, RqInv, Rights!TypeOK, ReqType
<1> QED
  BY <1>1, <1>2, Finishes

LEMMA EvidenceStep == ASSUME RqInv, NEW w \in Runs, Rights!EmitRespondEvidence(w) PROVE RqInv'
<1> DEFINE e == [of |-> run[w].of, art |-> Rights!Artifact(run[w].op), ref |-> run[w].ref]
<1>1. run[w] \in RunType /\ RunOK(run[w], log, store) /\ run[w].pc = "evidence"
  BY Acting DEF Rights!EmitRespondEvidence
<1>2. run[w].op \in Answers /\ run[w].of \in Requests
  BY <1>1 DEF RunOK, Stage
<1>3. run' = [run EXCEPT ![w] = Rights!Idle] /\ UNCHANGED <<req, hold, store, report, log, job, ops>>
      /\ (evid' = evid \/ evid' = evid \cup {e})
  BY DEF Rights!EmitRespondEvidence, Rights!Insert, Rights!rows
<1>4. e \in [of : Requests, art : Rights!Artifacts, ref : DOMAIN log] /\ log[e.ref] = Rights!Entry("respond", e.of, e.art)
  BY <1>1, <1>2, ArtifactIs DEF RunOK, Cites
<1>5. \A f \in evid' : \/ f \in evid
                       \/ f \in [of : Requests, art : Rights!Artifacts, ref : DOMAIN log'] /\ log'[f.ref] = Rights!Entry("respond", f.of, f.art)
  BY <1>3, <1>4
<1>6. /\ req' \in ReqType /\ hold' \in [Holds -> {"none", "active", "released"}]
      /\ store' \in [Subjects -> SUBSET Rights!Stores] /\ report' \in ReportType
      /\ job' \in {"idle", "risk", "late"} /\ ops' \in 0..MaxOps
      /\ log' \in Seq(Logs) /\ Grows(log, log') /\ Shrinks(store, store') /\ KeyIsLast'
  BY <1>3, GrowsSame DEF RqInv, Rights!TypeOK, ReqType, ReportType, Shrinks, KeyIsLast
<1>7. Rights!Idle \in RunType /\ RunOK(Rights!Idle, log', store')
  BY IdleRun DEF RunOK
<1>8. \A r \in Requests : req'[r] = req[r]
  BY <1>3
<1> HIDE DEF e
<1> QED
  BY <1>3, <1>5, <1>6, <1>7, <1>8, RqKeeps

\* A stage of the erasure: something of the person goes, in the order that is due.
LEMMA ErasedStep ==
    ASSUME RqInv, NEW w \in Runs, NEW what \in SUBSET Rights!Stores, NEW pc \in PCs, run[w].op = "erase",
           Rights!Erased(w, what, pc), run[w].pc # "holds",
           "key" \in what => run[w].pc = "key",
           \/ pc = "events"
           \/ run[w].pc = "events" /\ what = {"events"} /\ pc = "rows"
           \/ run[w].pc = "rows" /\ what = {"row"} /\ pc = "key"
           \/ run[w].pc = "key" /\ what = {"key"} /\ pc = "persist"
           \/ pc = "aborted"
    PROVE  RqInv'
<1> DEFINE n == [run[w] EXCEPT !.pc = pc]
           u == subject[run[w].of]
<1>1. run[w] \in RunType /\ RunOK(run[w], log, store) /\ run \in [Runs -> RunType] /\ ops \in 0..MaxOps
  BY Acting
<1>2. run' = [run EXCEPT ![w] = n] /\ store' = [store EXCEPT ![u] = @ \ what]
      /\ UNCHANGED <<req, hold, report, log, evid, job, ops>>
  BY DEF Rights!Erased, Rights!Goto, Rights!Person
<1>3. u \in Subjects /\ store \in [Subjects -> SUBSET Rights!Stores]
  BY <1>1, RightsAssumption DEF RunOK, Stage, Answers, RqInv, Rights!TypeOK
<1>4. store' \in [Subjects -> SUBSET Rights!Stores] /\ store'[u] = store[u] \ what
      /\ \A v \in Subjects : store'[v] = store[v] \/ (v = u /\ store'[v] = store[u] \ what)
  BY <1>2, <1>3
<1>5. Shrinks(store, store')
  BY <1>4 DEF Shrinks
<1>6. KeyIsLast'
  <2>1. "key" \in what => "events" \notin store[u] /\ "row" \notin store[u]
    BY <1>1 DEF RunOK, Erasing, PastEvents, PastRow
  <2> QED
    BY <1>3, <1>4, <2>1 DEF RqInv, KeyIsLast
<1>7. n \in RunType /\ n.pc = pc /\ n.op = "erase" /\ n.of = run[w].of /\ n.saw = run[w].saw
  BY <1>1 DEF RunType
<1>8. Stage(n) /\ Cites(n, log)
  BY <1>1, <1>7 DEF RunOK, Stage, Cites, Answers
<1>9. Erasing(n, store')
  <2>1. Erasing(run[w], store)
    BY <1>1 DEF RunOK
  <2>2. n.pc \in PastEvents => "events" \notin store'[u]
    BY <1>4, <1>7, <2>1 DEF Erasing, PastEvents, Answering
  <2>3. n.pc \in PastRow => "row" \notin store'[u]
    BY <1>4, <1>7, <2>1 DEF Erasing, PastRow, Answering
  <2>4. n.pc \in PastKey => "key" \notin store'[u]
    BY <1>4, <1>7, <2>1 DEF Erasing, PastKey, Answering
  <2>5. \A h \in n.saw \cap Holds : covers[h] # u
    BY <1>7, <2>1 DEF Erasing
  <2> QED
    BY <1>7, <2>2, <2>3, <2>4, <2>5 DEF Erasing
<1>10. /\ RunOK(n, log', store') /\ log' \in Seq(Logs) /\ Grows(log, log') /\ job' \in {"idle", "risk", "late"}
       /\ req' \in ReqType /\ hold' \in [Holds -> {"none", "active", "released"}] /\ report' \in ReportType
       /\ ops' \in 0..MaxOps
  BY <1>2, <1>7, <1>8, <1>9, GrowsSame DEF RunOK, RqInv, Rights!TypeOK, ReqType, ReportType
<1>11. evid' = evid /\ \A r \in Requests : req'[r] = req[r]
  BY <1>2
<1> HIDE DEF n
<1> QED
  BY <1>2, <1>4, <1>5, <1>6, <1>7, <1>10, <1>11, RqKeeps

LEMMA EraseSteps ==
    ASSUME RqInv, NEW w \in Runs,
           Rights!RemoveObjects(w) \/ Rights!DeleteSubjectEvents(w) \/ Rights!EraseRows(w) \/ Rights!RowsAborted(w) \/ Rights!DestroyTransitKey(w)
    PROVE  RqInv'
<1>1. CASE Rights!RemoveObjects(w)
  <2>1. PICK what \in SUBSET {"blobs"} : Rights!Erased(w, what, "events")
    BY <1>1 DEF Rights!RemoveObjects
  <2>2. run[w].op = "erase" /\ run[w].pc = "blobs" /\ what \in SUBSET Rights!Stores /\ "key" \notin what
    BY <1>1 DEF Rights!RemoveObjects, Rights!At, Rights!Stores
  <2> QED
    BY <2>1, <2>2, ErasedStep DEF PCs
<1>2. CASE Rights!DeleteSubjectEvents(w)
  BY <1>2, ErasedStep DEF Rights!DeleteSubjectEvents, Rights!At, Rights!Stores, PCs
<1>3. CASE Rights!EraseRows(w)
  BY <1>3, ErasedStep DEF Rights!EraseRows, Rights!At, Rights!Stores, PCs
<1>4. CASE Rights!RowsAborted(w)
  BY <1>4, ErasedStep DEF Rights!RowsAborted, Rights!At, Rights!Stores, PCs
<1>5. CASE Rights!DestroyTransitKey(w)
  BY <1>5, ErasedStep DEF Rights!DestroyTransitKey, Rights!At, Rights!Stores, PCs
<1> QED
  BY <1>1, <1>2, <1>3, <1>4, <1>5

\* A step that writes the report of the period.
LEMMA ReportSteps ==
    ASSUME RqInv, NEW w \in Runs, Rights!PutPdf(w) \/ Rights!StoreReport(w)
    PROVE  RqInv'
<1>1. run[w] \in RunType /\ RunOK(run[w], log, store) /\ run \in [Runs -> RunType] /\ ops \in 0..MaxOps
      /\ report \in ReportType /\ run[w].id \in 0..MaxOps
  BY Acting DEF RqInv, Rights!TypeOK, ReportType
<1>2. UNCHANGED <<req, hold, store, evid, job, ops>>
  BY DEF Rights!PutPdf, Rights!StoreReport
<1>3. /\ req' \in ReqType /\ hold' \in [Holds -> {"none", "active", "released"}]
      /\ store' \in [Subjects -> SUBSET Rights!Stores] /\ job' \in {"idle", "risk", "late"} /\ ops' \in 0..MaxOps
      /\ Shrinks(store, store') /\ KeyIsLast'
  BY <1>2 DEF RqInv, Rights!TypeOK, ReqType, Shrinks, KeyIsLast
<1>4. evid' = evid /\ \A r \in Requests : req'[r] = req[r]
  BY <1>2
<1>5. CASE Rights!PutPdf(w)
  <2> DEFINE n == [run[w] EXCEPT !.pc = "insert"]
  <2>1. run[w].pc = "put" /\ run[w].op = "report" /\ run' = [run EXCEPT ![w] = n] /\ log' = log
        /\ report' = [report EXCEPT !.pdf = run[w].id]
    BY <1>1, <1>5 DEF Rights!PutPdf, Rights!At, Rights!Goto, RunType
  <2>2. n \in RunType /\ n.pc = "insert" /\ n.op = "report" /\ n.of = run[w].of /\ n.saw = run[w].saw
    BY <1>1, <2>1 DEF RunType, PCs
  <2>3. Stage(n) /\ Cites(n, log) /\ Erasing(n, store)
    BY <1>1, <2>1, <2>2 DEF RunOK, Stage, Cites, Erasing, Answers
  <2>4. RunOK(n, log', store') /\ log' \in Seq(Logs) /\ Grows(log, log')
    BY <1>2, <2>1, <2>2, <2>3, GrowsSame DEF RunOK, RqInv
  <2>5. report' \in ReportType
    BY <1>1, <2>1 DEF ReportType
  <2> HIDE DEF n
  <2> QED
    BY <1>3, <1>4, <2>1, <2>2, <2>4, <2>5, RqKeeps
<1>6. CASE Rights!StoreReport(w)
  <2>1. run' = [run EXCEPT ![w] = Rights!Idle] /\ run[w].pc = "insert"
        /\ log' \in {log, Append(log, Rights!Entry("report", "period", "none"))}
    BY <1>6 DEF Rights!StoreReport, Rights!At
  <2>2. Rights!Entry("report", "period", "none") \in Logs
    BY DEF Rights!Entry, Logs, Rights!Ops, Rights!Targets, Rights!Artifacts
  <2>3. log' \in Seq(Logs) /\ Grows(log, log')
    BY <2>1, <2>2, Appended, GrowsSame DEF RqInv
  <2>4. run[w].saw \subseteq Requests
    BY <1>1, <2>1 DEF RunOK, Stage
  <2>5. report' \in ReportType
    BY <1>1, <1>6, <2>4 DEF Rights!StoreReport, ReportType
  <2>6. Rights!Idle \in RunType /\ RunOK(Rights!Idle, log', store')
    BY IdleRun DEF RunOK
  <2> QED
    BY <1>3, <1>4, <2>1, <2>3, <2>5, <2>6, RqKeeps
<1> QED
  BY <1>5, <1>6

LEMMA SubmitStep == ASSUME RqInv, NEW r \in Requests, Rights!Submit(r) PROVE RqInv'
<1> DEFINE q == [Rights!NoRequest EXCEPT !.state = "open", !.left = Sla]
<1>1. log' = Append(log, Rights!Entry("submit", r, "none")) /\ (req' = req \/ req' = [req EXCEPT ![r] = q])
      /\ ops' = ops + 1 /\ ops < MaxOps /\ UNCHANGED <<hold, store, evid, report, run, job>>
  BY DEF Rights!Submit
<1>2. Rights!Entry("submit", r, "none") \in Logs
  BY DEF Rights!Entry, Logs, Rights!Targets, Rights!Artifacts
<1>3. log' \in Seq(Logs) /\ Grows(log, log')
  BY <1>1, <1>2, Appended DEF RqInv
<1>4. q \in [state : Rights!Fulfillable \cup Rights!Closed \cup {"none"},
             left : Nat, art : Rights!Artifacts, ref : Nat]
      /\ q.state = "open" /\ q.art = "none"
  BY RightsAssumption DEF Rights!NoRequest, Rights!Fulfillable, Rights!Artifacts
<1>5. RowOK(q, r, log', store)
  BY <1>4 DEF RowOK
<1> HIDE DEF q
<1>6. req' \in ReqType /\ \A s \in Requests : req'[s] = req[s] \/ RowOK(req'[s], s, log', store)
  BY <1>1, <1>4, <1>5, RowIs DEF ReqType
<1>7. /\ hold' \in [Holds -> {"none", "active", "released"}] /\ job' \in {"idle", "risk", "late"}
      /\ ops' \in 0..MaxOps
  BY <1>1, RightsAssumption DEF RqInv, Rights!TypeOK
<1> QED
  BY <1>1, <1>3, <1>6, <1>7, IdleRun, WritesRow

\* The nightly job and the days write rows alone.
LEMMA NightSteps ==
    ASSUME RqInv, Rights!Midnight \/ Rights!MidnightDown \/ Rights!TickAtRisk \/ Rights!TickOverdue \/ Rights!TickFails
    PROVE  RqInv'
<1>1. UNCHANGED <<hold, store, report, log, evid, run, ops>> /\ job' \in {"idle", "risk", "late"}
  BY DEF Rights!Midnight, Rights!MidnightDown, Rights!TickAtRisk, Rights!TickOverdue,
     Rights!TickFails, Rights!rows, RqInv, Rights!TypeOK
<1>2. /\ hold' \in [Holds -> {"none", "active", "released"}] /\ ops' \in 0..MaxOps
      /\ log' \in Seq(Logs) /\ Grows(log, log')
  BY <1>1, GrowsSame DEF RqInv, Rights!TypeOK
<1>3. req' \in ReqType /\ \A r \in Requests : req'[r] = req[r] \/ RowOK(req'[r], r, log, store)
  <2>1. CASE Rights!PassDay
    <3> DEFINE q(r) == [req[r] EXCEPT !.left = IF @ = 0 THEN 0 ELSE @ - 1]
    <3>1. req' = [r \in Requests |-> q(r)]
      BY <2>1 DEF Rights!PassDay
    <3>2. ASSUME NEW r \in Requests
          PROVE  /\ q(r) \in [state : Rights!Fulfillable \cup Rights!Closed \cup {"none"},
                              left : Nat, art : Rights!Artifacts, ref : Nat]
                 /\ RowOK(q(r), r, log, store)
      <4>1. (IF req[r].left = 0 THEN 0 ELSE req[r].left - 1) \in Nat
        BY RowIs
      <4>2. /\ q(r) \in [state : Rights!Fulfillable \cup Rights!Closed \cup {"none"},
                         left : Nat, art : Rights!Artifacts, ref : Nat]
            /\ q(r).state = req[r].state /\ q(r).art = req[r].art /\ q(r).ref = req[r].ref
            /\ req[r].left = 0 => q(r).left = 0
        BY <4>1, RowIs
      <4> QED
        BY <4>2, RowIs DEF RowOK
    <3> HIDE DEF q
    <3> QED
      BY <3>1, <3>2 DEF ReqType
  <2>2. ASSUME NEW from, NEW days \in Nat, NEW to \in {"at_risk", "overdue"}, req' = Rights!Mark(from, days, to),
               to = "overdue" => days = 0
        PROVE  req' \in ReqType /\ \A r \in Requests : req'[r] = req[r] \/ RowOK(req'[r], r, log, store)
    <3> DEFINE q(r) == [req[r] EXCEPT !.state = to]
    <3>1. \A r \in Requests : req'[r] = req[r] \/ (req'[r] = q(r) /\ req[r].left <= days)
      BY <2>2 DEF Rights!Mark
    <3>2. ASSUME NEW r \in Requests
          PROVE  /\ q(r) \in [state : Rights!Fulfillable \cup Rights!Closed \cup {"none"},
                              left : Nat, art : Rights!Artifacts, ref : Nat]
                 /\ req[r].left <= days => RowOK(q(r), r, log, store)
      <4>1. /\ q(r) \in [state : Rights!Fulfillable \cup Rights!Closed \cup {"none"},
                         left : Nat, art : Rights!Artifacts, ref : Nat]
            /\ q(r).state = to /\ q(r).art = req[r].art /\ q(r).left = req[r].left /\ req[r].left \in Nat
        BY <2>2, RowIs DEF Rights!Fulfillable
      <4>2. req[r].left <= days /\ to = "overdue" => req[r].left = 0
        BY <2>2, <4>1
      <4> QED
        BY <2>2, <4>1, <4>2, RowIs DEF RowOK
    <3>3. req' = [r \in Requests |-> req'[r]]
      BY <2>2 DEF Rights!Mark
    <3> HIDE DEF q
    <3> QED
      BY <3>1, <3>2, <3>3, RowIs DEF ReqType
  <2>3. CASE Rights!TickAtRisk
    BY <2>2, <2>3, RightsAssumption DEF Rights!TickAtRisk
  <2>4. CASE Rights!TickOverdue
    BY <2>2, <2>4 DEF Rights!TickOverdue
  <2>5. CASE Rights!TickFails
    BY <2>5 DEF Rights!TickFails, Rights!rows, RqInv, Rights!TypeOK, ReqType
  <2> QED
    BY <2>1, <2>3, <2>4, <2>5 DEF Rights!Midnight, Rights!MidnightDown
<1>4. \A r \in Requests : req'[r] = req[r] \/ RowOK(req'[r], r, log', store)
  BY <1>1, <1>3
<1> QED
  BY <1>1, <1>2, <1>3, <1>4, IdleRun, WritesRow

LEMMA RqStays == ASSUME RqInv, UNCHANGED rightsVars PROVE RqInv'
<1>1. Rights!TypeOK' /\ KeyIsLast' /\ Rights!EvidenceCites'
  BY DEF RqInv, rightsVars, Rights!TypeOK, KeyIsLast, Rights!EvidenceCites
<1>2. Handlers' /\ Rows' /\ log' \in Seq(Logs)
  BY DEF RqInv, rightsVars, Handlers, Rows
<1> QED
  BY <1>1, <1>2 DEF RqInv

LEMMA HandlerStep == ASSUME RqInv, NEW w \in Runs, Rights!Handler(w) PROVE RqInv'
<1>1. CASE \E r \in Requests : Rights!Answer(w, r) \/ Rights!FulfillAccessRequest(w, r) \/ Rights!FulfillErasureRequest(w, r)
  BY <1>1, CallStep DEF Rights!Answer, Rights!FulfillAccessRequest, Rights!FulfillErasureRequest,
     Rights!Ops, PCs, Rights!Targets, Answers
<1>2. CASE Rights!Generate(w) \/ \E h \in Holds : Rights!Place(w, h) \/ Rights!Release(w, h)
  BY <1>2, CallStep DEF Rights!Generate, Rights!Place, Rights!Release, Rights!Ops, PCs,
     Rights!Targets, Answers
<1> QED
  BY <1>1, <1>2, AuditFirstStep, RespondStep, RejectStep, ExtendStep, HoldStep, EvidenceStep,
     ExportStep,
     LookUpStep, EraseSteps, PersistStep, ManifestStep, ReportSteps, FailStep DEF Rights!Handler

LEMMA RqStep == RqInv /\ Rights!Next => RqInv'
  BY SubmitStep, HandlerStep, NightSteps DEF Rights!Next

\* What goes of a person's goes in an erasure that has looked for holds.
LEMMA HoldsAre ==
    ASSUME RqInv, [Rights!Next]_rightsVars, NEW u \in Subjects, store'[u] # store[u]
    PROVE  \E w \in Runs : run[w].op = "erase" /\ Rights!Person(w) = u /\ Rights!Active(u) \cap run[w].saw = {}
<1>1. PICK w \in Runs : \E what, pc : Rights!Erased(w, what, pc) /\ run[w].op = "erase" /\ run[w].pc # "holds"
  <2>1. Rights!Next
    BY DEF rightsVars
  <2>2. \A r \in Requests : ~Rights!Submit(r)
    BY DEF Rights!Submit
  <2>3. ~(Rights!Midnight \/ Rights!MidnightDown \/ Rights!TickAtRisk \/ Rights!TickOverdue \/ Rights!TickFails)
    BY DEF Rights!Midnight, Rights!MidnightDown, Rights!TickAtRisk, Rights!TickOverdue,
       Rights!TickFails, Rights!rows
  <2>4. PICK w \in Runs : Rights!Handler(w)
    BY <2>1, <2>2, <2>3 DEF Rights!Next
  <2>5. Rights!RemoveObjects(w) \/ Rights!DeleteSubjectEvents(w) \/ Rights!EraseRows(w) \/ Rights!RowsAborted(w) \/ Rights!DestroyTransitKey(w)
    <3>1. \A op, of, pc : ~Rights!Call(w, op, of, pc)
      BY DEF Rights!Call, Rights!rows
    <3>2. ~(\E r \in Requests : Rights!Answer(w, r) \/ Rights!FulfillAccessRequest(w, r) \/ Rights!FulfillErasureRequest(w, r))
          /\ ~(\E h \in Holds : Rights!Place(w, h) \/ Rights!Release(w, h)) /\ ~Rights!Generate(w)
      BY <3>1 DEF Rights!Answer, Rights!FulfillAccessRequest, Rights!FulfillErasureRequest,
         Rights!Place, Rights!Release, Rights!Generate
    <3>3. ~(Rights!AuditFirst(w) \/ Rights!EmitRespondEvidence(w) \/ Rights!ExportZip(w) \/ Rights!LookUpHolds(w) \/ Rights!PersistReport(w)
            \/ Rights!BuildManifest(w) \/ Rights!Fail(w))
      BY DEF Rights!AuditFirst, Rights!EmitRespondEvidence, Rights!ExportZip, Rights!LookUpHolds,
         Rights!PersistReport, Rights!BuildManifest, Rights!Fail, Rights!rows
    <3>4. ~(Rights!RespondWrite(w) \/ Rights!RejectWrite(w) \/ Rights!ExtendWrite(w) \/ Rights!PlaceWrite(w) \/ Rights!ReleaseWrite(w)
            \/ Rights!PutPdf(w) \/ Rights!StoreReport(w))
      BY DEF Rights!RespondWrite, Rights!RejectWrite, Rights!ExtendWrite, Rights!PlaceWrite,
         Rights!ReleaseWrite, Rights!PutPdf, Rights!StoreReport
    <3> QED
      BY <2>4, <3>2, <3>3, <3>4 DEF Rights!Handler
  <2> QED
    BY <2>5 DEF Rights!RemoveObjects, Rights!DeleteSubjectEvents, Rights!EraseRows,
       Rights!RowsAborted, Rights!DestroyTransitKey, Rights!At
<1>2. RunOK(run[w], log, store)
  BY Acting
<1>3. subject[run[w].of] \in Subjects
  BY <1>1, <1>2, RightsAssumption DEF RunOK, Stage, Answers
<1>4. Rights!Person(w) = u
  BY <1>1, <1>3 DEF Rights!Erased, Rights!Person, RqInv, Rights!TypeOK
<1>5. \A h \in Rights!Active(u) : h \in Holds /\ covers[h] = u
  BY DEF Rights!Active
<1> QED
  BY <1>1, <1>2, <1>4, <1>5 DEF RunOK, Erasing, Rights!Person

\* No write of a row takes it out of the states of a closed request.
LEMMA ClosedAre ==
    ASSUME RqInv, [Rights!Next]_rightsVars, NEW r \in Requests, req[r].state \in Rights!Closed
    PROVE  req'[r].state \in Rights!Closed
<1>1. req[r].state \notin {"none", "open", "at_risk"} /\ req[r].state \notin Rights!Fulfillable
  BY DEF Rights!Closed, Rights!Fulfillable
<1>2. ASSUME NEW w \in Runs, Rights!Handler(w) PROVE req'[r].state \in Rights!Closed
  <2>1. CASE Rights!RespondWrite(w)
    BY <2>1, RowIs DEF Rights!RespondWrite, Rights!Closed, ReqType
  <2>2. CASE Rights!RejectWrite(w)
    BY <2>2, RowIs DEF Rights!RejectWrite, Rights!Closed, ReqType
  <2>3. CASE Rights!ExtendWrite(w)
    BY <2>3, RowIs DEF Rights!ExtendWrite, ReqType
  <2>4. CASE Rights!PlaceWrite(w) \/ Rights!ReleaseWrite(w) \/ Rights!PutPdf(w) \/ Rights!StoreReport(w) \/ Rights!AuditFirst(w)
             \/ Rights!EmitRespondEvidence(w) \/ Rights!ExportZip(w) \/ Rights!LookUpHolds(w) \/ Rights!PersistReport(w)
             \/ Rights!BuildManifest(w) \/ Rights!Fail(w)
    BY <2>4 DEF Rights!PlaceWrite, Rights!ReleaseWrite, Rights!PutPdf, Rights!StoreReport,
       Rights!AuditFirst, Rights!EmitRespondEvidence, Rights!ExportZip,
       Rights!LookUpHolds, Rights!PersistReport, Rights!BuildManifest, Rights!Fail, Rights!rows
  <2>5. CASE Rights!RemoveObjects(w) \/ Rights!DeleteSubjectEvents(w) \/ Rights!EraseRows(w) \/ Rights!RowsAborted(w) \/ Rights!DestroyTransitKey(w)
    BY <2>5 DEF Rights!RemoveObjects, Rights!DeleteSubjectEvents, Rights!EraseRows,
       Rights!RowsAborted, Rights!DestroyTransitKey, Rights!Erased
  <2>6. CASE \E op, of, pc : Rights!Call(w, op, of, pc)
    BY <2>6 DEF Rights!Call, Rights!rows
  <2> QED
    BY <1>2, <2>1, <2>2, <2>3, <2>4, <2>5, <2>6 DEF Rights!Handler, Rights!Answer,
       Rights!FulfillAccessRequest,
       Rights!FulfillErasureRequest, Rights!Place, Rights!Release, Rights!Generate
<1>3. ASSUME NEW s \in Requests, Rights!Submit(s) PROVE req'[r].state \in Rights!Closed
  BY <1>1, <1>3, RowIs DEF Rights!Submit, ReqType
<1>4. CASE Rights!Midnight \/ Rights!MidnightDown
  BY <1>4, RowIs DEF Rights!Midnight, Rights!MidnightDown, Rights!PassDay, ReqType
<1>5. CASE Rights!TickAtRisk \/ Rights!TickOverdue \/ Rights!TickFails
  BY <1>1, <1>5, RowIs DEF Rights!TickAtRisk, Rights!TickOverdue, Rights!TickFails, Rights!Mark,
     Rights!rows
<1>6. CASE UNCHANGED rightsVars
  BY <1>6 DEF rightsVars
<1> QED
  BY <1>2, <1>3, <1>4, <1>5, <1>6 DEF Rights!Next

\* A resolved request names the entry of the answer its row shows, an evidence item that
\* of its own answer, a person's key goes after the events and the row, and an overdue
\* request has no day left: for any requests, persons, holds and handlers at once.
THEOREM RightsHold == PartsSpec => []RecordsTrue
<1>1. PartsInit => RqInv
  BY RqBegins DEF PartsInit
<1>2. RqInv /\ [PartsNext]_<<part, vars, rightsVars>> => RqInv'
  BY RqStep, RqStays DEF PartsNext
<1>3. RqInv => RecordsTrue
  BY RqImplies DEF RecordsTrue
<1> QED
  BY <1>1, <1>2, <1>3, PTL DEF PartsSpec

\* What goes of a person's data goes in an erasure that had found no hold on them that
\* is active now, and a closed request stays closed.
THEOREM RightsRespected == PartsSpec => RightsKept
<1> DEFINE Unheld == \A u \in Subjects : store'[u] # store[u] =>
                      \E w \in Runs : run[w].op = "erase" /\ Rights!Person(w) = u /\ Rights!Active(u) \cap run[w].saw = {}
           Shut == \A r \in Requests : req[r].state \in Rights!Closed => req'[r].state \in Rights!Closed
<1>1. PartsInit => RqInv
  BY RqBegins DEF PartsInit
<1>2. RqInv /\ [PartsNext]_<<part, vars, rightsVars>> => RqInv'
  BY RqStep, RqStays DEF PartsNext
<1>3. RqInv /\ [PartsNext]_<<part, vars, rightsVars>> => [Unheld]_rightsVars /\ [Shut]_rightsVars
  BY HoldsAre, ClosedAre DEF PartsNext
<1> QED
  BY <1>1, <1>2, <1>3, PTL DEF PartsSpec, RightsKept, Rights!RightsKept, Rights!HoldsRespected,
     Rights!ClosedStays, Rights!vars, rightsVars

-----------------------------------------------------------------------------
(* What the program concludes: risk, uptime, categories, addresses, globs and productivity. *)

CONSTANTS RiskLevels, DayLevels, Window, JudgeTime, MaxIncidents, Patterns, Texts
VARIABLES topic, signals, today, incidents, event

Judged == INSTANCE Judgements WITH subject <- topic

\* A set of numbers has a least one.
NatLess == {p \in Nat \X Nat : p[1] < p[2]}
LEMMA LeastIs == ASSUME NEW S \in SUBSET Nat, S # {} PROVE \E s \in S : \A u \in S : s <= u
<1>1. IsWellFoundedOn(NatLess, Nat)
  BY NatLessThanWellFounded DEF OpToRel, NatLess
<1>2. PICK s \in S : \A u \in S : ~(<<u, s>> \in NatLess)
  BY <1>1, WFMin, Zenon
<1>3. ASSUME NEW u \in S PROVE s <= u
  <2>1. u \in Nat /\ s \in Nat
    OBVIOUS
  <2>2. u < s => <<u, s>> \in NatLess
    BY <2>1 DEF NatLess
  <2> QED BY <1>2, <2>1, <2>2
<1> QED BY <1>3

\* An incident ends when it is resolved, and not before it began.
Incident == [severity : {"P1", "P3"}, start : Nat, end : Int, resolved : BOOLEAN]
IncidentOK(i) ==
    /\ incidents[i].start <= today
    /\ IF incidents[i].resolved THEN incidents[i].start <= incidents[i].end /\ incidents[i].end <= today
       ELSE incidents[i].end = -1
UpOK ==
    /\ today \in Nat /\ incidents \in Seq(Incident)
    /\ \A i \in 1..Len(incidents) : IncidentOK(i)

\* What the first incidents cover, and how long they lasted.
Opens == today - Window
Piece(i) == {t \in Opens..(today - 1) : /\ incidents[i].severity = "P1" /\ incidents[i].resolved
                                        /\ incidents[i].start <= t /\ t < incidents[i].end}
Cov(n) == UNION {Piece(i) : i \in 1..n}
Adds(f) == /\ f \in [0..Len(incidents) -> Int] /\ f[0] = 0
           /\ \A n \in 1..Len(incidents) : f[n] = f[n - 1] + Judged!Lasted(n)

LEMMA SpanSize ==
    ASSUME NEW a \in Int, NEW e \in Int, a <= e
    PROVE  IsFiniteSet(a..(e - 1)) /\ Cardinality(a..(e - 1)) = e - a /\ (e - a > 0 => a..(e - 1) # {})
<1> DEFINE I == a..(e - 1)
<1>1. e - 1 \in Int
  OBVIOUS
<1>2. IsFiniteSet(I) /\ Cardinality(I) = IF a > e - 1 THEN 0 ELSE (e - 1) - a + 1
  BY <1>1, FS_Interval
<1>3. e - a > 0 => a \in I
  OBVIOUS
<1>4. Cardinality(I) = e - a
  <2> HIDE DEF I
  <2> QED BY <1>2
<1> QED BY <1>2, <1>3, <1>4

LEMMA WindowIs == ASSUME Judged!JudgeAssumption PROVE Window \in Nat
BY Zenon DEF Judged!JudgeAssumption

LEMMA LastedIs ==
    ASSUME Judged!JudgeAssumption, UpOK, NEW i \in 1..Len(incidents)
    PROVE  /\ Judged!Lasted(i) \in Nat /\ IsFiniteSet(Piece(i)) /\ Cardinality(Piece(i)) \in Nat
           /\ Cardinality(Piece(i)) <= Judged!Lasted(i)
           /\ Judged!Lasted(i) > 0 => Piece(i) # {}
<1> DEFINE x == incidents[i]
<1>1. /\ x.severity \in {"P1", "P3"} /\ x.start \in Nat /\ x.end \in Int /\ x.resolved \in BOOLEAN
      /\ IncidentOK(i) /\ today \in Nat /\ Window \in Nat /\ i \in DOMAIN incidents
  <2>1. x \in Incident
    BY ElementOfSeq DEF UpOK
  <2> QED BY <2>1, WindowIs DEF UpOK, Incident
<1>2. PICK b \in Int : b = Opens /\ b <= today
  BY <1>1 DEF Opens
<1>3. CASE i \in Judged!Counted
  <2> DEFINE a == IF x.start < b THEN b ELSE x.start
  <2>1. x.severity = "P1" /\ x.resolved /\ x.end >= b /\ x.start <= x.end /\ x.end <= today
    BY <1>1, <1>2, <1>3 DEF Judged!Counted, IncidentOK, Opens
  <2>2. Judged!Lasted(i) = x.end - a
    BY <1>2, <1>3 DEF Judged!Lasted, Judged!Later, Opens
  <2>3. Piece(i) = a..(x.end - 1)
    <3>1. Piece(i) = {t \in b..(today - 1) : x.start <= t /\ t < x.end}
      BY <1>2, <2>1 DEF Piece
    <3> QED BY <1>1, <1>2, <2>1, <3>1
  <2>4. a \in Int /\ a <= x.end
    BY <1>1, <2>1
  <2>5. PICK c \in Int, e \in Int : c = a /\ e = x.end /\ c <= e
    BY <1>1, <2>4
  <2>6. IsFiniteSet(Piece(i)) /\ Cardinality(Piece(i)) = e - c /\ (e - c > 0 => Piece(i) # {})
    <3> HIDE DEF a
    <3> QED BY <2>3, <2>5, SpanSize
  <2>7. Judged!Lasted(i) = e - c /\ e - c \in Nat
    <3> HIDE DEF a
    <3> QED BY <2>2, <2>5
  <2> QED BY <2>6, <2>7
<1>4. CASE i \notin Judged!Counted
  <2>1. Piece(i) = {}
    <3>1. ~ x.resolved \/ x.severity = "P3" \/ x.end < b
      BY <1>1, <1>2, <1>4 DEF Judged!Counted, IncidentOK, Opens
    <3> QED BY <1>1, <1>2, <3>1 DEF Piece
  <2>2. Judged!Lasted(i) = 0
    BY <1>4 DEF Judged!Lasted
  <2> QED BY <2>1, <2>2, FS_EmptySet
<1> QED BY <1>3, <1>4

LEMMA CovGrows ==
    ASSUME Judged!JudgeAssumption, UpOK, NEW n \in 1..Len(incidents), IsFiniteSet(Cov(n - 1))
    PROVE  /\ IsFiniteSet(Cov(n)) /\ Cardinality(Cov(n)) \in Nat
           /\ Cardinality(Cov(n)) <= Cardinality(Cov(n - 1)) + Cardinality(Piece(n))
<1>1. Cov(n) = Cov(n - 1) \cup Piece(n)
  <2>1. 1..n = 1..(n - 1) \cup {n}
    OBVIOUS
  <2> QED BY <2>1 DEF Cov
<1>2. IsFiniteSet(Piece(n))
  BY LastedIs
<1> DEFINE A == Cov(n - 1)
<1> DEFINE B == Piece(n)
<1>3. /\ IsFiniteSet(A \cup B) /\ Cardinality(A \cup B) = Cardinality(A) + Cardinality(B) - Cardinality(A \cap B)
  BY <1>2, FS_Union
<1>4. IsFiniteSet(A \cap B) /\ Cardinality(A) \in Nat /\ Cardinality(B) \in Nat
  BY <1>2, FS_Intersection, FS_CardinalityType
<1>5. Cardinality(A \cap B) \in Nat /\ Cardinality(A \cup B) \in Nat
  BY <1>3, <1>4, FS_CardinalityType
<1> HIDE DEF A, B
<1>6. Cardinality(A \cup B) <= Cardinality(A) + Cardinality(B)
  BY <1>3, <1>4, <1>5
<1> QED BY <1>1, <1>3, <1>5, <1>6 DEF A, B

\* The sum is as long as what is covered, at least, and positive only where something is.
LEMMA SumCovers ==
    ASSUME Judged!JudgeAssumption, UpOK, NEW f, Adds(f), NEW n \in 0..Len(incidents)
    PROVE  /\ f[n] \in Nat /\ IsFiniteSet(Cov(n)) /\ Cardinality(Cov(n)) \in Nat /\ Cardinality(Cov(n)) <= f[n]
           /\ f[n] > 0 => Cov(n) # {}
<1> DEFINE Good(k) == /\ f[k] \in Nat /\ IsFiniteSet(Cov(k)) /\ Cardinality(Cov(k)) \in Nat /\ Cardinality(Cov(k)) <= f[k]
                      /\ f[k] > 0 => Cov(k) # {}
<1> DEFINE S == {k \in 0..Len(incidents) : ~ Good(k)}
<1>0. Len(incidents) \in Nat
  BY LenProperties DEF UpOK
<1>1. SUFFICES ASSUME S # {} PROVE FALSE
  OBVIOUS
<1>2. S \in SUBSET Nat
  OBVIOUS
<1>3. PICK k \in S : \A u \in S : k <= u
  <2> HIDE DEF S
  <2> QED BY <1>1, <1>2, LeastIs
<1>4. k \in 0..Len(incidents) /\ ~ Good(k)
  OBVIOUS
<1>5. CASE k = 0
  <2>1. Cov(0) = {}
    BY DEF Cov
  <2>2. f[0] = 0
    BY DEF Adds
  <2>3. Good(0)
    BY <2>1, <2>2, FS_EmptySet
  <2> QED BY <1>4, <1>5, <2>3
<1>6. CASE k # 0
  <2>1. k - 1 \in 0..Len(incidents) /\ ~(k <= k - 1) /\ k \in 1..Len(incidents)
    BY <1>0, <1>4, <1>6
  <2>2. k - 1 \notin S
    BY <1>3, <2>1
  <2>3. Good(k - 1)
    BY <2>1, <2>2
  <2>4. f[k] = f[k - 1] + Judged!Lasted(k)
    BY <2>1 DEF Adds
  <2>5. /\ Judged!Lasted(k) \in Nat /\ Cardinality(Piece(k)) \in Nat /\ Cardinality(Piece(k)) <= Judged!Lasted(k)
        /\ Judged!Lasted(k) > 0 => Piece(k) # {}
    BY <2>1, LastedIs
  <2>6. /\ IsFiniteSet(Cov(k)) /\ Cardinality(Cov(k)) \in Nat
        /\ Cardinality(Cov(k)) <= Cardinality(Cov(k - 1)) + Cardinality(Piece(k))
    BY <2>1, <2>3, CovGrows
  <2>7. Cov(k - 1) \subseteq Cov(k) /\ Piece(k) \subseteq Cov(k)
    <3>1. k \in 1..k /\ 1..(k - 1) \subseteq 1..k
      BY <2>1
    <3> QED BY <3>1 DEF Cov
  <2>8. f[k] \in Nat /\ Cardinality(Cov(k)) <= f[k]
    BY <2>3, <2>4, <2>5, <2>6
  <2>9. f[k] > 0 => Cov(k) # {}
    <3>1. f[k] > 0 => f[k - 1] > 0 \/ Judged!Lasted(k) > 0
      BY <2>3, <2>4, <2>5
    <3> QED BY <2>3, <2>5, <2>7, <3>1
  <2> QED BY <1>4, <2>6, <2>8, <2>9
<1> QED BY <1>5, <1>6

\* A sum is the last of the partial sums.
Partial(f, w) == /\ f \in [0..Len(w) -> Int] /\ f[0] = 0
                 /\ \A n \in 1..Len(w) : f[n] = f[n - 1] + w[n]

LEMMA SumIs == ASSUME NEW w \in Seq(Int) PROVE \E f : Partial(f, w) /\ Judged!SumOf(w) = f[Len(w)]
<1>0. Len(w) \in Nat
  BY LenProperties
<1> DEFINE N == Len(w)
<1> DEFINE Upto(g, k) == /\ g \in [0..k -> Int] /\ g[0] = 0
                         /\ \A n \in 1..k : g[n] = g[n - 1] + w[n]
<1> DEFINE S == {k \in 0..N : ~ \E g : Upto(g, k)}
<1>1. S = {}
  <2> SUFFICES ASSUME S # {} PROVE FALSE
    OBVIOUS
  <2>1. S \in SUBSET Nat
    BY <1>0
  <2>2. PICK k \in S : \A u \in S : k <= u
    <3> HIDE DEF S
    <3> QED BY <2>1, LeastIs
  <2>3. k \in 0..N /\ ~ \E g : Upto(g, k)
    OBVIOUS
  <2>4. CASE k = 0
    <3>1. Upto([i \in 0..0 |-> 0], 0)
      OBVIOUS
    <3> QED BY <2>3, <2>4, <3>1
  <2>5. CASE k # 0
    <3>1. k - 1 \in 0..N /\ ~(k <= k - 1) /\ k \in 1..N
      BY <1>0, <2>3, <2>5
    <3>2. k - 1 \notin S
      BY <2>2, <3>1
    <3>3. PICK g : Upto(g, k - 1)
      BY <3>1, <3>2
    <3>4. w[k] \in Int
      BY <3>1, ElementOfSeq
    <3> DEFINE h == [i \in 0..k |-> IF i = k THEN g[k - 1] + w[k] ELSE g[i]]
    <3>5. g[k - 1] \in Int /\ \A i \in 0..k : i # k => i \in 0..(k - 1) /\ g[i] \in Int
      BY <3>1, <3>3
    <3>6. h \in [0..k -> Int] /\ h[0] = 0
      BY <2>5, <3>1, <3>3, <3>4, <3>5
    <3>7. \A n \in 1..k : h[n] = h[n - 1] + w[n]
      <4> SUFFICES ASSUME NEW n \in 1..k PROVE h[n] = h[n - 1] + w[n]
        OBVIOUS
      <4>1. n - 1 \in 0..k /\ n - 1 # k /\ h[n - 1] = g[n - 1]
        BY <3>1
      <4>2. CASE n = k
        BY <4>1, <4>2
      <4>3. CASE n # k
        BY <3>1, <3>3, <4>1, <4>3
      <4> QED BY <4>2, <4>3
    <3> QED BY <2>3, <3>6, <3>7
  <2> QED BY <2>4, <2>5
<1>2. PICK g : Upto(g, N)
  <2>1. N \in 0..N
    BY <1>0
  <2> HIDE DEF Upto
  <2> QED BY <1>1, <2>1
<1> DEFINE R(f) == f = [n \in 0..N |-> IF n = 0 THEN 0 ELSE f[n - 1] + w[n]]
           r == CHOOSE f : R(f)
<1>3. R(g)
  <2>1. \A n \in 0..N : g[n] = IF n = 0 THEN 0 ELSE g[n - 1] + w[n]
    BY <1>0, <1>2
  <2> QED BY <1>2, <2>1
<1>4. R(r)
  <2> HIDE DEF R
  <2> QED BY <1>3
<1>5. Judged!SumOf(w) = r[N]
  BY DEF Judged!SumOf
<1>6. /\ DOMAIN r = 0..N /\ r[0] = 0
      /\ \A n \in 1..N : r[n] = r[n - 1] + w[n]
      /\ r = [n \in 0..N |-> r[n]]
  <2> HIDE DEF r
  <2>1. 0 \in 0..N /\ \A n \in 1..N : n \in 0..N /\ n # 0
    BY <1>0
  <2> QED BY <1>4, <2>1
<1>7. \A n \in 0..N : r[n] = g[n]
  <2> HIDE DEF r, R
  <2> DEFINE T == {n \in 0..N : r[n] # g[n]}
  <2> SUFFICES ASSUME T # {} PROVE FALSE
    OBVIOUS
  <2>1. T \in SUBSET Nat
    BY <1>0
  <2>2. PICK k \in T : \A u \in T : k <= u
    <3> HIDE DEF T
    <3> QED BY <2>1, LeastIs
  <2>3. k \in 0..N /\ r[k] # g[k] /\ k # 0
    BY <1>2, <1>6
  <2>4. k - 1 \in 0..N /\ ~(k <= k - 1) /\ k \in 1..N
    BY <1>0, <2>3
  <2>5. r[k - 1] = g[k - 1]
    BY <2>2, <2>4
  <2> QED BY <1>2, <1>6, <2>3, <2>4, <2>5
<1>8. Partial(g, w) /\ Judged!SumOf(w) = g[N]
  <2> HIDE DEF r, R
  <2>1. N \in 0..N
    BY <1>0
  <2> QED BY <1>2, <1>5, <1>7, <2>1 DEF Partial
<1> QED BY <1>8

LEMMA DowntimeIs ==
    ASSUME Judged!JudgeAssumption, UpOK
    PROVE  \E f : Adds(f) /\ Judged!Downtime = f[Len(incidents)]
<1> DEFINE w == [i \in DOMAIN incidents |-> Judged!Lasted(i)]
<1>1. Len(incidents) \in Nat /\ DOMAIN incidents = 1..Len(incidents)
  BY LenProperties DEF UpOK
<1>2. w \in Seq(Int) /\ Len(w) = Len(incidents)
  <2>1. \A i \in 1..Len(incidents) : Judged!Lasted(i) \in Int
    BY LastedIs
  <2>2. w \in [1..Len(incidents) -> Int]
    BY <1>1, <2>1
  <2> HIDE DEF w
  <2> QED BY <1>1, <2>2, IsASeq, LenProperties
<1>3. \A i \in 1..Len(incidents) : w[i] = Judged!Lasted(i)
  BY <1>1
<1> HIDE DEF w
<1>4. PICK f : Partial(f, w) /\ Judged!SumOf(w) = f[Len(w)]
  BY <1>2, SumIs
<1> QED BY <1>2, <1>3, <1>4 DEF Partial, Adds, Judged!Downtime, w

LEMMA UptimeIs == ASSUME Judged!JudgeAssumption, UpOK PROVE Judged!UptimeTrue
<1>1. PICK f : Adds(f) /\ Judged!Downtime = f[Len(incidents)]
  BY DowntimeIs
<1>2. Len(incidents) \in Nat /\ Len(incidents) \in 0..Len(incidents) /\ DOMAIN incidents = 1..Len(incidents)
  BY LenProperties DEF UpOK
<1>3. Judged!Covered = Cov(Len(incidents))
  BY <1>2 DEF Judged!Covered, Cov, Piece, Opens
<1>4. PICK d \in Nat, c \in Nat, w \in Nat :
        /\ d = Judged!Downtime /\ c = Cardinality(Judged!Covered) /\ c <= d /\ w = Window
        /\ d > 0 => Judged!Covered # {}
  BY <1>1, <1>2, <1>3, SumCovers, WindowIs
<1>5. Judged!Cardinality(Judged!Covered) = Cardinality(Judged!Covered)
  BY DEF Judged!Cardinality, Cardinality
<1>6. Judged!SevenDayUptime = IF w - d < 0 THEN 0 ELSE w - d
  BY <1>4 DEF Judged!SevenDayUptime, Judged!NonNeg
<1>7. Judged!Shown = IF d >= w THEN w ELSE w - d
  BY <1>4, <1>6 DEF Judged!Shown
<1>8. Judged!Shown <= w - c \/ d >= w
  BY <1>4, <1>7
<1>9. Judged!Shown < w => d > 0
  BY <1>4, <1>7
<1>10. \A i \in DOMAIN incidents : i \in Judged!ActiveIncidents \/ incidents[i].end >= incidents[i].start
  <2> SUFFICES ASSUME NEW i \in 1..Len(incidents), incidents[i].resolved PROVE incidents[i].end >= incidents[i].start
    BY <1>2 DEF Judged!ActiveIncidents
  <2>1. incidents[i] \in Incident /\ IncidentOK(i)
    BY ElementOfSeq DEF UpOK
  <2> QED BY <2>1 DEF IncidentOK, Incident
<1> QED BY <1>4, <1>5, <1>8, <1>9, <1>10 DEF Judged!UptimeTrue

LEMMA NextUp == ASSUME UpOK, [Judged!JudgeNext]_Judged!judgeVars PROVE UpOK'
<1>0. today \in Nat /\ incidents \in Seq(Incident) /\ Len(incidents) \in Nat
  BY LenProperties DEF UpOK
<1>1. ASSUME UNCHANGED incidents, today' \in {today, today + 1}
      PROVE  UpOK'
  <2>1. ASSUME NEW i \in 1..Len(incidents) PROVE IncidentOK(i)'
    <3>1. incidents[i] \in Incident /\ IncidentOK(i)
      BY <2>1, ElementOfSeq DEF UpOK
    <3> QED BY <1>0, <1>1, <3>1 DEF IncidentOK, Incident
  <2> QED BY <1>0, <1>1, <2>1 DEF UpOK
<1>2. ASSUME NEW s \in DOMAIN signals, Judged!Signal(s) PROVE UpOK'
  BY <1>1, <1>2 DEF Judged!Signal
<1>3. ASSUME NEW severity \in {"P1", "P3"}, Judged!CreateIncident(severity) PROVE UpOK'
  <2> DEFINE x == [severity |-> severity, start |-> today, end |-> -1, resolved |-> FALSE]
  <2>1. incidents' = Append(incidents, x) /\ today' = today
    BY <1>3 DEF Judged!CreateIncident
  <2>2. x \in Incident /\ x.start = today /\ x.end = -1 /\ ~ x.resolved
    BY <1>0 DEF Incident
  <2> HIDE DEF x
  <2>3. /\ incidents' \in Seq(Incident) /\ Len(incidents') = Len(incidents) + 1
        /\ incidents'[Len(incidents) + 1] = x /\ \A i \in 1..Len(incidents) : incidents'[i] = incidents[i]
    BY <1>0, <2>1, <2>2, AppendProperties
  <2>4. ASSUME NEW i \in 1..Len(incidents') PROVE IncidentOK(i)'
    <3>1. CASE i = Len(incidents) + 1
      BY <1>0, <2>1, <2>2, <2>3, <3>1 DEF IncidentOK
    <3>2. CASE i # Len(incidents) + 1
      <4>1. i \in 1..Len(incidents)
        BY <1>0, <2>3, <3>2
      <4> QED BY <2>1, <2>3, <4>1 DEF UpOK, IncidentOK
    <3> QED BY <3>1, <3>2
  <2> QED BY <1>0, <2>1, <2>3, <2>4 DEF UpOK
<1>4. ASSUME NEW j \in DOMAIN incidents, Judged!ResolveIncident(j) PROVE UpOK'
  <2>1. incidents' = [incidents EXCEPT ![j].end = today, ![j].resolved = TRUE] /\ today' = today /\ j \in 1..Len(incidents)
    BY <1>0, <1>4, LenProperties DEF Judged!ResolveIncident
  <2>2. incidents[j] \in Incident /\ IncidentOK(j)
    BY <2>1, ElementOfSeq DEF UpOK
  <2> DEFINE y == incidents'[j]
  <2>3. y = [[incidents[j] EXCEPT !.end = today] EXCEPT !.resolved = TRUE]
    BY <1>4, <2>1
  <2>4. y \in Incident /\ y.start = incidents[j].start /\ y.end = today /\ y.resolved
    <3> DEFINE x == incidents[j]
    <3> DEFINE m == [x EXCEPT !.end = today]
    <3>1. m \in Incident /\ m.start = x.start /\ m.end = today
      BY <1>0, <2>2 DEF Incident
    <3>2. y = [m EXCEPT !.resolved = TRUE]
      BY <2>3
    <3> HIDE DEF m, y
    <3> QED BY <3>1, <3>2 DEF Incident
  <2>5. \A i \in 1..Len(incidents) : i # j => incidents'[i] = incidents[i]
    BY <1>4, <2>1
  <2>6. incidents' \in Seq(Incident) /\ Len(incidents') = Len(incidents)
    <3>1. incidents' = [incidents EXCEPT ![j] = y]
      BY <1>4, <2>1
    <3> HIDE DEF y
    <3>2. [incidents EXCEPT ![j] = y] \in Seq(Incident) /\ Len([incidents EXCEPT ![j] = y]) = Len(incidents)
      BY <1>0, <2>1, <2>4, ExceptSeq
    <3> QED BY <3>1, <3>2, Zenon
  <2>7. ASSUME NEW i \in 1..Len(incidents) PROVE IncidentOK(i)'
    <3>1. CASE i = j
      BY <1>0, <2>1, <2>2, <2>4, <3>1 DEF IncidentOK, Incident
    <3>2. CASE i # j
      BY <2>1, <2>5, <3>2 DEF UpOK, IncidentOK
    <3> QED BY <3>1, <3>2
  <2> QED BY <1>0, <2>1, <2>6, <2>7 DEF UpOK
<1>5. CASE Judged!DayPasses
  BY <1>1, <1>5 DEF Judged!DayPasses
<1>6. ASSUME NEW reply, Judged!MLAnswers(reply) PROVE UpOK'
  BY <1>1, <1>6 DEF Judged!MLAnswers
<1>7. ASSUME NEW glob, Judged!PolicyAdds(glob) PROVE UpOK'
  BY <1>1, <1>7 DEF Judged!PolicyAdds
<1>8. CASE UNCHANGED Judged!judgeVars
  BY <1>1, <1>8 DEF Judged!judgeVars
<1> QED BY <1>2, <1>3, <1>4, <1>5, <1>6, <1>7, <1>8 DEF Judged!JudgeNext


-----------------------------------------------------------------------------
(* The first rule that holds, and the first slot that is there. *)

LEMMA FirstIs ==
    ASSUME NEW S \in SUBSET Nat, S # {}
    PROVE  Judged!Min(S) \in S /\ \A y \in S : Judged!Min(S) <= y
<1>1. \E x \in S : \A y \in S : x <= y
  BY LeastIs
<1> QED BY <1>1, Zenon DEF Judged!Min

Replies == [kind : {"off", "asked", "answered", "failed"}, category : Judged!Categories, sure : Int]
AnEvent == [app : {"work", "distraction", "personal", "like work", "other"},
            hosts : SUBSET {"work", "distraction", "personal"}, titled : BOOLEAN,
            reply : Replies]

LEMMA FallbackIs == ASSUME NEW e \in AnEvent
    PROVE Judged!Fallback(e).category = "unknown" \/ Judged!Fallback(e).sure >= 70 \/ e.app = "like work"
<1> DEFINE rules == Judged!Rules(e)
<1> DEFINE I == {i \in 1..Len(rules) : rules[i].holds}
<1> DEFINE n == Judged!Min(I)
<1>1. /\ Len(rules) = 9
      /\ rules[1].sure >= 70 /\ rules[2].sure >= 70 /\ rules[3].sure >= 70 /\ rules[4].sure >= 70
      /\ rules[5].sure >= 70 /\ rules[6].sure >= 70 /\ rules[7].sure >= 70 /\ rules[9].category = "unknown"
  BY DEF Judged!Rules
<1>0. rules[9].holds /\ (rules[8].holds => e.app = "like work")
  BY DEF Judged!Rules
<1> HIDE DEF rules
<1>2. I \in SUBSET Nat /\ 9 \in I
  <2>1. 9 \in 1..Len(rules)
    BY <1>1
  <2>2. I \in SUBSET Nat
    OBVIOUS
  <2> QED BY <1>0, <2>1, <2>2, Zenon
<1>3. n \in I
  <2> HIDE DEF I
  <2> QED BY <1>2, FirstIs
<1>4. n \in 1..9 /\ rules[n].holds
  BY <1>1, <1>3
<1>5. /\ Judged!Fallback(e).category = rules[n].category /\ Judged!Fallback(e).sure = rules[n].sure
  <2>1. I # {}
    BY <1>2
  <2>2. Judged!SelectInSeq(rules, LAMBDA r : r.holds) = n
    BY <2>1 DEF Judged!SelectInSeq
  <2> HIDE DEF n, I
  <2> QED BY <2>2 DEF Judged!Fallback, rules
<1> HIDE DEF n, I
<1>6. n = 9 \/ n = 8 \/ n \in 1..7
  BY <1>4
<1>7. CASE n = 9
  BY <1>1, <1>5, <1>7
<1>8. CASE n = 8
  BY <1>0, <1>4, <1>8, Zenon
<1>9. CASE n \in 1..7
  <2>1. n = 1 \/ n = 2 \/ n = 3 \/ n = 4 \/ n = 5 \/ n = 6 \/ n = 7
    BY <1>9
  <2>2. rules[n].sure >= 70
    BY <1>1, <2>1, Zenon
  <2> QED BY <1>5, <2>2, Zenon
<1> QED BY <1>6, <1>7, <1>8, <1>9

LEMMA ActivityIs == ASSUME event \in AnEvent PROVE Judged!ActivityTrue
<1> DEFINE reply == event.reply
<1>1. reply.kind \in {"off", "asked", "answered", "failed"} /\ reply.sure \in Int
  BY DEF AnEvent, Replies
<1> HIDE DEF reply
<1>2. SUFFICES ASSUME Judged!Classify(event).category # "unknown", reply.kind # "asked"
      PROVE  \/ Judged!Classify(event).sure >= 70
             \/ reply.kind # "answered" /\ event.app = "like work"
  BY DEF Judged!ActivityTrue, reply
<1>3. CASE reply.kind \in {"off", "failed"}
  <2>1. Judged!Classify(event) = Judged!Fallback(event)
    BY <1>3 DEF Judged!Classify, reply
  <2>2. reply.kind # "answered"
    BY <1>3
  <2> QED BY <1>2, <2>1, <2>2, FallbackIs
<1>4. CASE reply.kind = "answered"
  <2>1. ~ reply.sure < 70
    <3> SUFFICES ASSUME reply.sure < 70 PROVE FALSE
      OBVIOUS
    <3>1. Judged!Classify(event) = [category |-> "unknown", sure |-> reply.sure]
      BY <1>4 DEF Judged!Classify, reply
    <3> QED BY <1>2, <3>1
  <2>2. Judged!Classify(event) = [category |-> reply.category, sure |-> reply.sure]
    BY <1>4, <2>1 DEF Judged!Classify, reply
  <2>3. Judged!Classify(event).sure = reply.sure
    BY <2>2
  <2>4. reply.sure >= 70
    BY <1>1, <2>1
  <2> QED BY <2>3, <2>4, Zenon
<1> QED BY <1>1, <1>2, <1>3, <1>4

Slotted == {"remote_ip", "source_ip", "dest_ip", "answer_ip"}
APeer == [type : {"network", "window"}, geo : BOOLEAN, ips : [Slotted -> {"absent", "public", "private"}]]

LEMMA PeerIs == ASSUME event \in APeer PROVE Judged!PeerTrue
<1> DEFINE I == {i \in 1..Len(Judged!Slots) : event.ips[Judged!Slots[i]] # "absent"}
<1> DEFINE n == Judged!Min(I)
<1>1. Len(Judged!Slots) = 4
  BY DEF Judged!Slots
<1>2. SUFFICES ASSUME Judged!Located(event)
               PROVE  event.type = "network" /\ \E i \in 1..4 :
                        event.ips[Judged!Slots[i]] = "public" /\ \A j \in 1..(i - 1) : event.ips[Judged!Slots[j]] = "absent"
  BY DEF Judged!PeerTrue
<1>3. Judged!PayloadIP(event) = "public" /\ event.type = "network"
  BY <1>2 DEF Judged!Located
<1>4. Judged!SelectInSeq(Judged!Slots, LAMBDA slot : event.ips[slot] # "absent") = IF I # {} THEN n ELSE 0
  BY DEF Judged!SelectInSeq
<1>5. I # {} /\ I \in SUBSET Nat
  <2>1. I = {} => Judged!PayloadIP(event) = "absent"
    <3> HIDE DEF I, n
    <3> QED BY <1>4 DEF Judged!PayloadIP
  <2> QED BY <1>3, <2>1
<1>6. n \in I /\ \A y \in I : n <= y
  <2> HIDE DEF I
  <2> QED BY <1>5, FirstIs
<1>7. n \in 1..4 /\ event.ips[Judged!Slots[n]] # "absent"
  BY <1>1, <1>6
<1>8. event.ips[Judged!Slots[n]] = "public"
  <2>1. n # 0
    BY <1>7
  <2> HIDE DEF I, n
  <2> QED BY <1>3, <1>4, <1>5, <2>1 DEF Judged!PayloadIP
<1>9. ASSUME NEW j \in 1..(n - 1) PROVE event.ips[Judged!Slots[j]] = "absent"
  <2>1. j \in 1..4 /\ ~ n <= j
    <3> HIDE DEF n
    <3> QED BY <1>7
  <2>2. j \notin I
    <3> HIDE DEF I, n
    <3> QED BY <1>6, <2>1
  <2> QED BY <1>1, <2>1, <2>2
<1> HIDE DEF n
<1> QED BY <1>3, <1>7, <1>8, <1>9

-----------------------------------------------------------------------------
(* The matcher, against what a glob means. *)

Stands(p, t, cut, k) ==
    IF p[k] = "*" THEN cut[k + 1] >= cut[k] ELSE cut[k + 1] = cut[k] + 1 /\ t[cut[k] + 1] = p[k]
CutFrom(p, t, i, j, cut) ==
    /\ cut \in [(i + 1)..(Len(p) + 1) -> 0..Len(t)] /\ cut[i + 1] = j /\ cut[Len(p) + 1] = Len(t)
    /\ \A k \in (i + 1)..Len(p) : Stands(p, t, cut, k)
From(p, t, i) == {j \in 0..Len(t) : \E cut : CutFrom(p, t, i, j, cut)}

LEMMA FromLast == ASSUME NEW P, NEW T, NEW p \in Seq(P), NEW t \in Seq(T) PROVE From(p, t, Len(p)) = {Len(t)}
<1>1. Len(p) \in Nat /\ Len(t) \in Nat
  BY LenProperties
<1>2. ASSUME NEW j \in 0..Len(t), NEW cut, CutFrom(p, t, Len(p), j, cut) PROVE j = Len(t)
  BY <1>2 DEF CutFrom
<1>3. CutFrom(p, t, Len(p), Len(t), [k \in (Len(p) + 1)..(Len(p) + 1) |-> Len(t)])
  BY <1>1 DEF CutFrom
<1>4. Len(t) \in 0..Len(t)
  BY <1>1
<1> QED BY <1>2, <1>3, <1>4 DEF From

Fits(p, t, i, S) == IF i = Len(p) THEN {Len(t)}
                    ELSE IF p[i + 1] = "*" THEN {j \in 0..Len(t) : \E k \in S : j <= k}
                    ELSE {j \in 0..(Len(t) - 1) : p[i + 1] = t[j + 1] /\ j + 1 \in S}

LEMMA FromStep ==
    ASSUME NEW P, NEW T, NEW p \in Seq(P), NEW t \in Seq(T), NEW i \in 0..(Len(p) - 1)
    PROVE  From(p, t, i) = Fits(p, t, i, From(p, t, i + 1))
<1>1. Len(p) \in Nat /\ Len(t) \in Nat /\ i \in Nat /\ i + 1 <= Len(p)
  BY LenProperties
<1> DEFINE m == Len(p)
<1> DEFINE n == Len(t)
<1>2. ASSUME NEW j \in 0..n, NEW cut, CutFrom(p, t, i, j, cut)
      PROVE  /\ cut[i + 2] \in From(p, t, i + 1) /\ cut[i + 2] \in 0..n
             /\ IF p[i + 1] = "*" THEN j <= cut[i + 2] ELSE cut[i + 2] = j + 1 /\ t[j + 1] = p[i + 1]
  <2>1. /\ cut \in [(i + 1)..(m + 1) -> 0..n] /\ cut[i + 1] = j /\ cut[m + 1] = n
        /\ \A k \in (i + 1)..m : Stands(p, t, cut, k)
    BY <1>2 DEF CutFrom
  <2> DEFINE rest == [k \in (i + 2)..(m + 1) |-> cut[k]]
  <2>2. \A k \in (i + 2)..(m + 1) : k \in (i + 1)..(m + 1)
    BY <1>1
  <2>3. i + 2 \in (i + 2)..(m + 1) /\ m + 1 \in (i + 2)..(m + 1) /\ i + 1 \in (i + 1)..m
    BY <1>1
  <2>4. rest \in [(i + 2)..(m + 1) -> 0..n] /\ rest[i + 2] = cut[i + 2] /\ rest[m + 1] = n
    BY <2>1, <2>2, <2>3
  <2>5. ASSUME NEW k \in (i + 2)..m PROVE Stands(p, t, rest, k)
    <3>1. k \in (i + 1)..m /\ k \in (i + 2)..(m + 1) /\ k + 1 \in (i + 2)..(m + 1)
      BY <1>1
    <3>2. rest[k] = cut[k] /\ rest[k + 1] = cut[k + 1]
      BY <3>1
    <3> HIDE DEF rest
    <3> QED BY <2>1, <3>1, <3>2 DEF Stands
  <2>6. cut[i + 2] \in 0..n
    BY <2>1, <2>2, <2>3
  <2>7. CutFrom(p, t, i + 1, cut[i + 2], rest)
    <3>1. (i + 1) + 1 = i + 2
      BY <1>1
    <3> HIDE DEF rest
    <3> QED BY <2>4, <2>5, <3>1 DEF CutFrom
  <2>8. IF p[i + 1] = "*" THEN j <= cut[i + 2] ELSE cut[i + 2] = j + 1 /\ t[j + 1] = p[i + 1]
    <3>1. Stands(p, t, cut, i + 1) /\ (i + 1) + 1 = i + 2
      BY <1>1, <2>1, <2>3
    <3>2. CASE p[i + 1] = "*"
      BY <1>1, <2>1, <2>6, <3>1, <3>2 DEF Stands
    <3>3. CASE p[i + 1] # "*"
      BY <2>1, <3>1, <3>3 DEF Stands
    <3> QED BY <3>2, <3>3
  <2> QED BY <2>6, <2>7, <2>8 DEF From
<1>3. ASSUME NEW j \in 0..n, NEW k \in From(p, t, i + 1),
             IF p[i + 1] = "*" THEN j <= k ELSE k = j + 1 /\ t[j + 1] = p[i + 1]
      PROVE  j \in From(p, t, i)
  <2>1. k \in 0..n /\ (i + 1) + 1 = i + 2
    BY <1>1, <1>3 DEF From
  <2>2. PICK cut : CutFrom(p, t, i + 1, k, cut)
    BY <1>3 DEF From
  <2>3. /\ cut \in [(i + 2)..(m + 1) -> 0..n] /\ cut[i + 2] = k /\ cut[m + 1] = n
        /\ \A l \in (i + 2)..m : Stands(p, t, cut, l)
    BY <2>1, <2>2 DEF CutFrom
  <2> DEFINE more == [l \in (i + 1)..(m + 1) |-> IF l = i + 1 THEN j ELSE cut[l]]
  <2>4. \A l \in (i + 1)..(m + 1) : l # i + 1 => l \in (i + 2)..(m + 1)
    BY <1>1
  <2>5. /\ i + 1 \in (i + 1)..(m + 1) /\ i + 2 \in (i + 1)..(m + 1) /\ m + 1 \in (i + 1)..(m + 1)
        /\ i + 2 # i + 1 /\ m + 1 # i + 1
    BY <1>1
  <2>6. more \in [(i + 1)..(m + 1) -> 0..n] /\ more[i + 1] = j /\ more[i + 2] = k /\ more[m + 1] = n
    BY <2>3, <2>4, <2>5
  <2>7. ASSUME NEW l \in (i + 1)..m PROVE Stands(p, t, more, l)
    <3>1. CASE l = i + 1
      <4>1. more[l] = j /\ more[l + 1] = k
        BY <2>1, <2>6, <3>1
      <4> HIDE DEF more
      <4>2. CASE p[i + 1] = "*"
        BY <1>1, <1>3, <2>1, <3>1, <4>1, <4>2 DEF Stands
      <4>3. CASE p[i + 1] # "*"
        BY <1>3, <3>1, <4>1, <4>3 DEF Stands
      <4> QED BY <4>2, <4>3
    <3>2. CASE l # i + 1
      <4>1. l \in (i + 2)..m /\ l + 1 # i + 1 /\ l \in (i + 1)..(m + 1) /\ l + 1 \in (i + 1)..(m + 1)
        BY <1>1, <3>2
      <4>2. more[l] = cut[l] /\ more[l + 1] = cut[l + 1]
        BY <3>2, <4>1
      <4> HIDE DEF more
      <4> QED BY <2>3, <4>1, <4>2 DEF Stands
    <3> QED BY <3>1, <3>2
  <2>8. CutFrom(p, t, i, j, more)
    <3> HIDE DEF more
    <3> QED BY <2>6, <2>7 DEF CutFrom
  <2> QED BY <2>8 DEF From
<1>4. CASE p[i + 1] = "*"
  <2>1. ASSUME NEW j \in From(p, t, i) PROVE \E k \in From(p, t, i + 1) : j <= k
    <3>1. PICK cut : j \in 0..n /\ CutFrom(p, t, i, j, cut)
      BY DEF From
    <3> QED BY <1>2, <1>4, <3>1
  <2>2. ASSUME NEW j \in 0..n, NEW k \in From(p, t, i + 1), j <= k PROVE j \in From(p, t, i)
    BY <1>3, <1>4, <2>2
  <2>3. From(p, t, i) \subseteq 0..n
    BY DEF From
  <2>4. From(p, t, i) = {j \in 0..n : \E k \in From(p, t, i + 1) : j <= k}
    BY <2>1, <2>2, <2>3
  <2>5. i # Len(p)
    BY <1>1
  <2> QED BY <1>4, <2>4, <2>5 DEF Fits
<1>5. CASE p[i + 1] # "*"
  <2>1. ASSUME NEW j \in From(p, t, i) PROVE j \in 0..(n - 1) /\ p[i + 1] = t[j + 1] /\ j + 1 \in From(p, t, i + 1)
    <3>1. PICK cut : j \in 0..n /\ CutFrom(p, t, i, j, cut)
      BY DEF From
    <3>2. cut[i + 2] \in From(p, t, i + 1) /\ cut[i + 2] \in 0..n /\ cut[i + 2] = j + 1 /\ t[j + 1] = p[i + 1]
      BY <1>2, <1>5, <3>1
    <3> QED BY <1>1, <3>1, <3>2
  <2>2. ASSUME NEW j \in 0..(n - 1), p[i + 1] = t[j + 1], j + 1 \in From(p, t, i + 1) PROVE j \in From(p, t, i)
    <3>1. j \in 0..n
      BY <1>1
    <3> QED BY <1>3, <1>5, <2>2, <3>1
  <2>3. From(p, t, i) = {j \in 0..(n - 1) : p[i + 1] = t[j + 1] /\ j + 1 \in From(p, t, i + 1)}
    BY <2>1, <2>2
  <2>4. i # Len(p)
    BY <1>1
  <2> QED BY <1>5, <2>3, <2>4 DEF Fits
<1> QED BY <1>4, <1>5

LEMMA NextPlace == ASSUME NEW a \in Nat, NEW i \in 0..a, i # a
    PROVE i \in 0..(a - 1) /\ i + 1 \in 0..a /\ a - i \in Nat /\ a - (i + 1) \in Nat /\ ~ a - i <= a - (i + 1)
OBVIOUS

LEMMA GlobIs == ASSUME NEW P, NEW T, NEW p \in Seq(P), NEW t \in Seq(T) PROVE Judged!GlobMatch(p, t) <=> Judged!Matches(p, t)
<1>1. Len(p) \in Nat /\ Len(t) \in Nat /\ DOMAIN p = 1..Len(p)
  BY LenProperties
<1> DEFINE m == Len(p)
<1> DEFINE R(f) == f = [i \in 0..m |-> Fits(p, t, i, f[i + 1])]
           r == CHOOSE f : R(f)
           g == [i \in 0..m |-> From(p, t, i)]
<1>2. \A i \in 0..m : From(p, t, i) = Fits(p, t, i, From(p, t, i + 1))
  <2> SUFFICES ASSUME NEW i \in 0..m PROVE From(p, t, i) = Fits(p, t, i, From(p, t, i + 1))
    OBVIOUS
  <2>1. CASE i = m
    BY <2>1, FromLast DEF Fits
  <2>2. CASE i # m
    <3>1. i \in 0..(m - 1)
      BY <1>1, <2>2, NextPlace
    <3> QED BY <3>1, FromStep
  <2> QED BY <2>1, <2>2
<1>3. \A i \in 0..m : g[i] = Fits(p, t, i, g[i + 1])
  <2> SUFFICES ASSUME NEW i \in 0..m PROVE g[i] = Fits(p, t, i, g[i + 1])
    OBVIOUS
  <2>1. CASE i = m
    BY <1>2, <2>1
  <2>2. CASE i # m
    <3>1. i + 1 \in 0..m
      BY <1>1, <2>2, NextPlace
    <3>2. g[i] = From(p, t, i) /\ g[i + 1] = From(p, t, i + 1)
      BY <3>1
    <3> HIDE DEF g
    <3> QED BY <1>2, <3>2
  <2> QED BY <2>1, <2>2
<1>4. R(g)
  <2>1. g = [i \in 0..m |-> g[i]]
    OBVIOUS
  <2> HIDE DEF g
  <2> QED BY <1>3, <2>1
<1>5. R(r)
  <2> HIDE DEF R
  <2> QED BY <1>4
<1>6. Judged!GlobMatch(p, t) <=> 0 \in r[0]
  BY DEF Judged!GlobMatch, Fits
<1>7. \A i \in 0..m : r[i] = g[i]
  <2>1. \A i \in 0..m : r[i] = Fits(p, t, i, r[i + 1])
    <3> HIDE DEF r
    <3> QED BY <1>5
  <2> HIDE DEF r, R, g
  <2> DEFINE Z == {m - i : i \in {l \in 0..m : r[l] # g[l]}}
  <2> SUFFICES ASSUME Z # {} PROVE FALSE
    OBVIOUS
  <2>2. Z \in SUBSET Nat
    BY <1>1
  <2>3. PICK s \in Z : \A u \in Z : s <= u
    <3> HIDE DEF Z
    <3> QED BY <2>2, LeastIs
  <2>4. PICK i \in 0..m : r[i] # g[i] /\ s = m - i
    BY <2>3
  <2>5. i # m
    <3> SUFFICES ASSUME i = m PROVE FALSE
      OBVIOUS
    <3>1. r[m] = Fits(p, t, m, r[m + 1]) /\ g[m] = Fits(p, t, m, g[m + 1])
      BY <1>1, <1>3, <2>1
    <3> QED BY <2>4, <3>1 DEF Fits
  <2>6. i + 1 \in 0..m /\ ~ s <= m - (i + 1)
    BY <1>1, <2>4, <2>5, NextPlace
  <2>7. r[i + 1] = g[i + 1]
    <3>1. m - (i + 1) \notin Z
      BY <2>3, <2>6
    <3> QED BY <2>6, <3>1
  <2> QED BY <1>3, <2>1, <2>4, <2>7
<1>8. Judged!GlobMatch(p, t) <=> 0 \in From(p, t, 0)
  <2>1. 0 \in 0..m /\ g[0] = From(p, t, 0)
    BY <1>1
  <2> HIDE DEF r, g, R
  <2> QED BY <1>6, <1>7, <2>1
<1>9. 0 \in From(p, t, 0) <=> Judged!Matches(p, t)
  <2>1. 0 + 1 = 1 /\ 0 \in 0..Len(t)
    BY <1>1
  <2>2. 0 \in From(p, t, 0) <=> \E cut : CutFrom(p, t, 0, 0, cut)
    BY <2>1 DEF From
  <2>3. \A cut : CutFrom(p, t, 0, 0, cut) <=>
           /\ cut \in [1..(Len(p) + 1) -> 0..Len(t)] /\ cut[1] = 0 /\ cut[Len(p) + 1] = Len(t)
           /\ \A k \in DOMAIN p : Stands(p, t, cut, k)
    BY <1>1, <2>1 DEF CutFrom
  <2> QED BY <2>2, <2>3 DEF Judged!Matches, Stands
<1> QED BY <1>8, <1>9

-----------------------------------------------------------------------------
(* Sensitivity. *)

AVisit == [type : {"network", "window"}, guarded : BOOLEAN, titled : BOOLEAN,
           titles : SUBSET {"broken", "matching"}, globs : SUBSET Patterns,
           host : {{}} \cup {{t} : t \in Texts}, address : {<<"b">>}]

LEMMA HostIs == ASSUME Judged!JudgeAssumption, event \in AVisit PROVE Judged!HostTrue
<1>1. event.globs \subseteq Seq(STRING) /\ \E T : Judged!NetworkHost(event) \in Seq(T)
  <2>1. event.globs \subseteq Patterns /\ event.host \in {{}} \cup {{t} : t \in Texts} /\ event.address = <<"b">>
    BY DEF AVisit
  <2>2. Patterns \subseteq Seq(STRING) /\ Texts \subseteq Seq(STRING)
    BY DEF Judged!JudgeAssumption
  <2>3. CASE event.host = {}
    <3>1. Judged!NetworkHost(event) = <<"b">>
      BY <2>1, <2>3, Zenon DEF Judged!NetworkHost
    <3>2. <<"b">> \in Seq({"b"})
      OBVIOUS
    <3> QED BY <2>1, <2>2, <3>1, <3>2, Zenon
  <2>4. CASE event.host # {}
    <3>1. PICK t \in Texts : event.host = {t}
      BY <2>1, <2>4
    <3>2. Judged!NetworkHost(event) = t
      BY <3>1 DEF Judged!NetworkHost
    <3>3. t \in Seq(STRING)
      BY <2>2
    <3>4. event.globs \subseteq Seq(STRING)
      BY <2>1, <2>2
    <3> QED BY <3>2, <3>3, <3>4, Zenon
  <2> QED BY <2>3, <2>4
<1>2. \A glob \in event.globs :
          Judged!GlobMatch(glob, Judged!NetworkHost(event)) <=> Judged!Matches(glob, Judged!NetworkHost(event))
  BY <1>1, GlobIs
<1>3. ASSUME NEW glob \in event.globs, Judged!Sensitive([event EXCEPT !.globs = @ \ {glob}])
      PROVE  Judged!Sensitive(event)
  <2> DEFINE less == [event EXCEPT !.globs = @ \ {glob}]
  <2>1. /\ less.guarded = event.guarded /\ less.titled = event.titled /\ less.titles = event.titles
        /\ less.type = event.type /\ less.host = event.host /\ less.address = event.address
        /\ less.globs = event.globs \ {glob}
    BY DEF AVisit
  <2>2. Judged!Sensitive(less)
    BY <1>3
  <2> HIDE DEF less
  <2>3. Judged!NetworkHost(less) = Judged!NetworkHost(event)
    BY <2>1 DEF Judged!NetworkHost
  <2>4. Judged!TitleMatches(less) => Judged!TitleMatches(event)
    BY <2>1, Zenon DEF Judged!TitleMatches
  <2>5. Judged!HostMatches(less) => Judged!HostMatches(event)
    BY <2>1, <2>3, Zenon DEF Judged!HostMatches
  <2> QED BY <2>1, <2>2, <2>4, <2>5, Zenon DEF Judged!Sensitive
<1>4. Judged!Sensitive([event EXCEPT !.titles = @ \ {"broken"}]) <=> Judged!Sensitive(event)
  <2> DEFINE less == [event EXCEPT !.titles = @ \ {"broken"}]
  <2>1. /\ less.guarded = event.guarded /\ less.titled = event.titled /\ less.titles = event.titles \ {"broken"}
        /\ less.type = event.type /\ less.host = event.host /\ less.address = event.address
        /\ less.globs = event.globs
    BY DEF AVisit
  <2> HIDE DEF less
  <2>2. Judged!NetworkHost(less) = Judged!NetworkHost(event)
    BY <2>1 DEF Judged!NetworkHost
  <2>3. "matching" \in less.titles <=> "matching" \in event.titles
    BY <2>1
  <2>4. Judged!TitleMatches(less) <=> Judged!TitleMatches(event)
    BY <2>1, <2>3, Zenon DEF Judged!TitleMatches
  <2>5. Judged!HostMatches(less) <=> Judged!HostMatches(event)
    BY <2>1, <2>2, Zenon DEF Judged!HostMatches
  <2>6. Judged!Sensitive(less) <=> Judged!Sensitive(event)
    BY <2>1, <2>4, <2>5, Zenon DEF Judged!Sensitive
  <2> QED BY <2>6 DEF less
<1> QED BY <1>2, <1>3, <1>4 DEF Judged!HostTrue

\* What an event may look like, by the judgement it is there for.
EventOK == /\ topic = "activity" => event \in AnEvent
           /\ topic = "peer" => event \in APeer
           /\ topic = "host" => event \in AVisit

LEMMA FirstEvent == ASSUME Judged!JudgeInit PROVE EventOK
<1>1. topic = "activity" => event \in AnEvent
  <2>1. topic = "activity" => event \in Judged!Activities
    BY Zenon DEF Judged!JudgeInit
  <2>2. {Judged!Reply("off", "unknown", 0), Judged!Reply("asked", "unknown", 0)} \subseteq Replies
    BY DEF Judged!Reply, Judged!Categories, Replies
  <2> QED BY <2>1, <2>2 DEF Judged!Activities, AnEvent
<1>2. topic = "peer" => event \in APeer
  <2>1. topic = "peer" => event \in Judged!Peers
    BY DEF Judged!JudgeInit
  <2>2. {Judged!Slots[i] : i \in DOMAIN Judged!Slots} = Slotted
    <3>1. Judged!Slots = <<"remote_ip", "source_ip", "dest_ip", "answer_ip">> /\ DOMAIN Judged!Slots = 1..4
      BY DEF Judged!Slots
    <3>2. Judged!Slots[1] = "remote_ip" /\ Judged!Slots[2] = "source_ip"
          /\ Judged!Slots[3] = "dest_ip" /\ Judged!Slots[4] = "answer_ip"
      BY <3>1
    <3>3. \A i \in 1..4 : i = 1 \/ i = 2 \/ i = 3 \/ i = 4
      OBVIOUS
    <3>4. 1 \in 1..4 /\ 2 \in 1..4 /\ 3 \in 1..4 /\ 4 \in 1..4
      OBVIOUS
    <3> QED BY <3>1, <3>2, <3>3, <3>4, Zenon DEF Slotted
  <2> QED BY <2>1, <2>2, Zenon DEF Judged!Peers, APeer
<1>3. topic = "host" => event \in AVisit
  <2>1. topic = "host" => event \in Judged!Visits
    BY DEF Judged!JudgeInit
  <2> QED BY <2>1 DEF Judged!Visits, AVisit
<1> QED BY <1>1, <1>2, <1>3 DEF EventOK

LEMMA NextEvent == ASSUME EventOK, [Judged!JudgeNext]_Judged!judgeVars PROVE EventOK' /\ topic' = topic
<1>1. (UNCHANGED <<topic, event>>) => EventOK' /\ topic' = topic
  BY DEF EventOK
<1>2. ASSUME NEW s \in DOMAIN signals, Judged!Signal(s) PROVE EventOK' /\ topic' = topic
  BY <1>1, <1>2 DEF Judged!Signal
<1>3. ASSUME NEW severity, Judged!CreateIncident(severity) PROVE EventOK' /\ topic' = topic
  BY <1>1, <1>3 DEF Judged!CreateIncident
<1>4. ASSUME NEW i, Judged!ResolveIncident(i) PROVE EventOK' /\ topic' = topic
  BY <1>1, <1>4 DEF Judged!ResolveIncident
<1>5. CASE Judged!DayPasses
  BY <1>1, <1>5 DEF Judged!DayPasses
<1>6. ASSUME NEW kind \in {"answered", "failed"}, NEW category \in Judged!Categories, NEW sure \in Int,
             Judged!MLAnswers(Judged!Reply(kind, category, sure))
      PROVE  EventOK' /\ topic' = topic
  <2> DEFINE x == Judged!Reply(kind, category, sure)
  <2>1. topic = "activity" /\ topic' = topic /\ event' = [event EXCEPT !.reply = x] /\ event \in AnEvent
    BY <1>6 DEF Judged!MLAnswers, EventOK
  <2>2. x \in Replies
    BY DEF Judged!Reply, Replies
  <2> HIDE DEF x
  <2>3. event' \in AnEvent
    BY <2>1, <2>2 DEF AnEvent
  <2> QED BY <2>1, <2>3 DEF EventOK
<1>7. ASSUME NEW glob \in Patterns, Judged!PolicyAdds(glob) PROVE EventOK' /\ topic' = topic
  <2>1. topic = "host" /\ topic' = topic /\ event' = [event EXCEPT !.globs = @ \cup {glob}] /\ event \in AVisit
    BY <1>7, Zenon DEF Judged!PolicyAdds, EventOK
  <2>2. event' \in AVisit
    BY <2>1 DEF AVisit
  <2> QED BY <2>1, <2>2 DEF EventOK
<1>8. CASE UNCHANGED Judged!judgeVars
  BY <1>1, <1>8 DEF Judged!judgeVars
<1>9. "unknown" \in Judged!Categories /\ {40, 69, 70, 95} \subseteq Int /\ 0 \in Int
  BY DEF Judged!Categories
<1> QED BY <1>2, <1>3, <1>4, <1>5, <1>6, <1>7, <1>8, <1>9, Zenon DEF Judged!JudgeNext

-----------------------------------------------------------------------------
(* Risk. *)

Risky == {"uba", "dlp", "sens", "usb", "off", "tamper", "av"}
Days == [Risky -> Int]

LEMMA SevenIs == ASSUME NEW w \in Seq(Int), Len(w) = 7
    PROVE Judged!SumOf(w) = w[1] + w[2] + w[3] + w[4] + w[5] + w[6] + w[7]
<1>1. PICK f : Partial(f, w) /\ Judged!SumOf(w) = f[Len(w)]
  BY SumIs
<1>2. \A n \in 1..7 : w[n] \in Int
  BY ElementOfSeq
<1>3. f \in [0..7 -> Int] /\ f[0] = 0 /\ \A n \in 1..7 : f[n] = f[n - 1] + w[n]
  BY <1>1 DEF Partial
<1>4. f[1] = w[1] /\ f[2] = f[1] + w[2] /\ f[3] = f[2] + w[3] /\ f[4] = f[3] + w[4]
  BY <1>2, <1>3
<1>5. f[5] = f[4] + w[5] /\ f[6] = f[5] + w[6] /\ f[7] = f[6] + w[7]
  BY <1>2, <1>3
<1>6. Judged!SumOf(w) = f[7]
  BY <1>1
<1> QED BY <1>2, <1>4, <1>5, <1>6

\* What one signal adds grows with the signal.
Rising(a, b) == a \in Nat /\ b \in Nat /\ a <= b

LEMMA GrowsTimes == ASSUME NEW a, NEW b, NEW k \in Nat, Rising(a, b) PROVE Rising(k * a, k * b)
BY DEF Rising
LEMMA GrowsLeast == ASSUME NEW a, NEW b, NEW l \in Nat, Rising(a, b)
    PROVE Rising(Judged!Least(a, l), Judged!Least(b, l)) /\ Judged!Least(a, l) <= l
BY DEF Rising, Judged!Least
LEMMA GrowsSum ==
    ASSUME NEW a1, NEW b1, NEW a2, NEW b2, NEW a3, NEW b3, NEW a4, NEW b4,
           NEW a5, NEW b5, NEW a6, NEW b6, NEW a7, NEW b7,
           Rising(a1, b1), Rising(a2, b2), Rising(a3, b3), Rising(a4, b4), Rising(a5, b5), Rising(a6, b6), Rising(a7, b7)
    PROVE  Rising(a1 + a2 + a3 + a4 + a5 + a6 + a7, b1 + b2 + b3 + b4 + b5 + b6 + b7)
BY DEF Rising
LEMMA GrowsRounded == ASSUME NEW a, NEW b, Rising(a, b) PROVE (a + 50) \div 100 \in Nat /\ (a + 50) \div 100 <= (b + 50) \div 100
BY DEF Rising

Shared(k, x) == k * Judged!Share(x)
Capped(k, l, x) == 100 * Judged!Least(k * Judged!NonNeg(x), l)

LEMMA CostIs == ASSUME NEW x, NEW y, Rising(Judged!NonNeg(x), Judged!NonNeg(y)), NEW k \in Nat, NEW l \in Nat
    PROVE Rising(Shared(k, x), Shared(k, y)) /\ Rising(Capped(k, l, x), Capped(k, l, y))
<1>1. 100 \in Nat
  OBVIOUS
<1>2. Rising(Judged!Share(x), Judged!Share(y))
  BY <1>1, GrowsLeast, Zenon DEF Judged!Share
<1>3. Rising(k * Judged!NonNeg(x), k * Judged!NonNeg(y))
  BY GrowsTimes, Zenon
<1>4. Rising(Judged!Least(k * Judged!NonNeg(x), l), Judged!Least(k * Judged!NonNeg(y), l))
  BY <1>3, GrowsLeast, Zenon
<1>5. Rising(Capped(k, l, x), Capped(k, l, y))
  BY <1>1, <1>4, GrowsTimes, Zenon DEF Capped
<1>6. Rising(Shared(k, x), Shared(k, y))
  BY <1>2, GrowsTimes, Zenon DEF Shared
<1> QED BY <1>5, <1>6

\* No signal of the one day exceeds the other day's.
Under(s, d) == \A n \in Risky : Judged!NonNeg(s[n]) <= Judged!NonNeg(d[n])

LEMMA CostsGrow == ASSUME NEW s \in Days, NEW d \in Days, Under(s, d)
    PROVE  /\ Rising(Shared(30, s.uba), Shared(30, d.uba))
           /\ Rising(Capped(5, 30, s.dlp), Capped(5, 30, d.dlp))
           /\ Rising(Capped(3, 20, s.sens), Capped(3, 20, d.sens))
           /\ Rising(Capped(5, 20, s.usb), Capped(5, 20, d.usb))
           /\ Rising(Shared(20, s.off), Shared(20, d.off))
           /\ Rising(Capped(10, 30, s.tamper), Capped(10, 30, d.tamper))
           /\ Rising(Capped(20, 40, s.av), Capped(20, 40, d.av))
<1>1. \A n \in Risky : Rising(Judged!NonNeg(s[n]), Judged!NonNeg(d[n]))
  <2>1. \A x \in Int : Judged!NonNeg(x) \in Nat
    BY DEF Judged!NonNeg
  <2>2. \A n \in Risky : s[n] \in Int /\ d[n] \in Int
    BY DEF Days
  <2> QED BY <2>1, <2>2 DEF Under, Rising
<1>2. 0 \in Nat /\ 3 \in Nat /\ 5 \in Nat /\ 10 \in Nat /\ 20 \in Nat /\ 30 \in Nat /\ 40 \in Nat
  OBVIOUS
<1>3. Rising(Shared(30, s.uba), Shared(30, d.uba))
  <2>1. Rising(Judged!NonNeg(s.uba), Judged!NonNeg(d.uba))
    BY <1>1 DEF Risky
  <2> QED BY <1>2, <2>1, CostIs
<1>4. Rising(Capped(5, 30, s.dlp), Capped(5, 30, d.dlp))
  <2>1. Rising(Judged!NonNeg(s.dlp), Judged!NonNeg(d.dlp))
    BY <1>1 DEF Risky
  <2> QED BY <1>2, <2>1, CostIs
<1>5. Rising(Capped(3, 20, s.sens), Capped(3, 20, d.sens))
  <2>1. Rising(Judged!NonNeg(s.sens), Judged!NonNeg(d.sens))
    BY <1>1 DEF Risky
  <2> QED BY <1>2, <2>1, CostIs
<1>6. Rising(Capped(5, 20, s.usb), Capped(5, 20, d.usb))
  <2>1. Rising(Judged!NonNeg(s.usb), Judged!NonNeg(d.usb))
    BY <1>1 DEF Risky
  <2> QED BY <1>2, <2>1, CostIs
<1>7. Rising(Shared(20, s.off), Shared(20, d.off))
  <2>1. Rising(Judged!NonNeg(s.off), Judged!NonNeg(d.off))
    BY <1>1 DEF Risky
  <2> QED BY <1>2, <2>1, CostIs
<1>8. Rising(Capped(10, 30, s.tamper), Capped(10, 30, d.tamper))
  <2>1. Rising(Judged!NonNeg(s.tamper), Judged!NonNeg(d.tamper))
    BY <1>1 DEF Risky
  <2> QED BY <1>2, <2>1, CostIs
<1>9. Rising(Capped(20, 40, s.av), Capped(20, 40, d.av))
  <2>1. Rising(Judged!NonNeg(s.av), Judged!NonNeg(d.av))
    BY <1>1 DEF Risky
  <2> QED BY <1>2, <2>1, CostIs
<1> QED BY <1>3, <1>4, <1>5, <1>6, <1>7, <1>8, <1>9

LEMMA UnderSelf == ASSUME NEW s \in Days PROVE Under(s, s)
<1>1. \A n \in Risky : Judged!NonNeg(s[n]) \in Int
  BY DEF Days, Judged!NonNeg
<1> QED BY <1>1 DEF Under

Cost(s) == Shared(30, s.uba) + Capped(5, 30, s.dlp) + Capped(3, 20, s.sens) + Capped(5, 20, s.usb)
           + Shared(20, s.off) + Capped(10, 30, s.tamper) + Capped(20, 40, s.av)

LEMMA TotalIs == ASSUME NEW s \in Days PROVE Judged!Total(Judged!Contributions(s)) = Cost(s)
<1> DEFINE c == Judged!Contributions(s)
<1> DEFINE w == [i \in DOMAIN c |-> c[i].weight]
<1>1. DOMAIN c = 1..7
  BY DEF Judged!Contributions
<1>2. /\ c[1].weight = Shared(30, s.uba)
      /\ c[2].weight = Capped(5, 30, s.dlp)
      /\ c[3].weight = Capped(3, 20, s.sens)
      /\ c[4].weight = Capped(5, 20, s.usb)
      /\ c[5].weight = Shared(20, s.off)
      /\ c[6].weight = Capped(10, 30, s.tamper)
      /\ c[7].weight = Capped(20, 40, s.av)
  BY DEF Judged!Contributions, Shared, Capped
<1> HIDE DEF c
<1>3. \A a, b : Rising(a, b) => a \in Int
  BY DEF Rising
<1>6. /\ c[1].weight \in Int /\ c[2].weight \in Int /\ c[3].weight \in Int /\ c[4].weight \in Int
      /\ c[5].weight \in Int /\ c[6].weight \in Int /\ c[7].weight \in Int
  <2>1. Under(s, s)
    BY UnderSelf
  <2> QED BY <1>2, <1>3, <2>1, CostsGrow
<1>7. w \in [1..7 -> Int]
  <2>1. \A i \in 1..7 : i = 1 \/ i = 2 \/ i = 3 \/ i = 4 \/ i = 5 \/ i = 6 \/ i = 7
    OBVIOUS
  <2>2. \A i \in 1..7 : c[i].weight \in Int
    BY <1>6, <2>1, Zenon
  <2> QED BY <1>1, <2>2
<1>8. w[1] = c[1].weight /\ w[2] = c[2].weight /\ w[3] = c[3].weight /\ w[4] = c[4].weight
      /\ w[5] = c[5].weight /\ w[6] = c[6].weight /\ w[7] = c[7].weight
  BY <1>1
<1>9. Judged!Total(c) = Judged!SumOf(w)
  BY Zenon DEF Judged!Total
<1> HIDE DEF w
<1>10. w \in Seq(Int) /\ Len(w) = 7
  <2>1. w \in Seq(Int)
    <3>1. 7 \in Nat
      OBVIOUS
    <3> QED BY <1>7, <3>1, SeqDef
  <2>2. Len(w) \in Nat /\ 1..Len(w) = 1..7
    BY <1>7, <2>1, LenProperties
  <2>3. Len(w) = 7
    <3>1. PICK n \in Nat : n = Len(w) /\ 1..n = 1..7
      BY <2>2
    <3>2. 7 \in 1..7 /\ 7 + 1 \notin 1..7 /\ 8 = 7 + 1
      OBVIOUS
    <3>3. 7 <= n /\ ~ 8 <= n
      BY <3>1, <3>2
    <3> QED BY <3>1, <3>3
  <2> QED BY <2>1, <2>3
<1>11. Judged!SumOf(w) = w[1] + w[2] + w[3] + w[4] + w[5] + w[6] + w[7]
  BY <1>10, SevenIs
<1> QED BY <1>2, <1>8, <1>9, <1>11 DEF c, Cost

LEMMA ScoreIs == ASSUME NEW s \in Days, NEW d \in Days, Under(s, d)
    PROVE Judged!RiskScore(s) \in 0..100 /\ Judged!RiskScore(s) <= Judged!RiskScore(d)
<1>1. Rising(Cost(s), Cost(d))
  BY CostsGrow, GrowsSum DEF Cost
<1>2. Judged!Total(Judged!Contributions(s)) = Cost(s) /\ Judged!Total(Judged!Contributions(d)) = Cost(d)
  BY TotalIs
<1> DEFINE a == Judged!Least(Cost(s), 10000)
<1> DEFINE b == Judged!Least(Cost(d), 10000)
<1>3. Rising(a, b) /\ a <= 10000
  <2>1. 10000 \in Nat
    OBVIOUS
  <2> QED BY <1>1, <2>1, GrowsLeast
<1>4. Judged!RiskScore(s) = (a + 50) \div 100 /\ Judged!RiskScore(d) = (b + 50) \div 100
  BY <1>2 DEF Judged!RiskScore
<1> HIDE DEF a, b
<1>5. (a + 50) \div 100 \in 0..100
  BY <1>3 DEF Rising
<1>6. (a + 50) \div 100 <= (b + 50) \div 100
  BY <1>3, GrowsRounded
<1> QED BY <1>4, <1>5, <1>6

LEMMA RankIs == ASSUME NEW m \in Int
    PROVE Judged!TierRank(Judged!ClassifyTier(m)) =
            IF m <= 25 THEN 0 ELSE IF m <= 50 THEN 1 ELSE IF m <= 75 THEN 2 ELSE 3
BY DEF Judged!TierRank, Judged!ClassifyTier

LEMMA TierIs == ASSUME NEW s \in Days
    PROVE LET rank == Judged!TierRank(Judged!ClassifyTier(Judged!RiskScore(s))) IN
          /\ s.av >= 1 => Judged!Tier(s) = "critical" /\ Judged!TierRank(Judged!Tier(s)) = 3
          /\ s.av < 1 /\ s.tamper >= 1 =>
                /\ Judged!Tier(s) \in {"high", "critical"}
                /\ Judged!TierRank(Judged!Tier(s)) = IF rank < 2 THEN 2 ELSE rank
          /\ s.av < 1 /\ s.tamper < 1 => Judged!TierRank(Judged!Tier(s)) = rank
<1> DEFINE m == Judged!RiskScore(s)
<1> DEFINE tier == Judged!ClassifyTier(m)
<1>1. m \in Int /\ s.av \in Int /\ s.tamper \in Int
  <2>1. Under(s, s)
    BY UnderSelf
  <2>2. m \in 0..100
    BY <2>1, ScoreIs
  <2> QED BY <2>2 DEF Days, Risky
<1> HIDE DEF m
<1>2. /\ Judged!TierRank("low") = 0 /\ Judged!TierRank("medium") = 1 /\ Judged!TierRank("high") = 2
      /\ Judged!TierRank("critical") = 3
  BY DEF Judged!TierRank
<1>3. tier \in {"low", "medium", "high", "critical"}
  BY <1>1 DEF Judged!ClassifyTier
<1>4. Judged!Tier(s) = CASE s.av >= 1 -> "critical"
                    [] s.av < 1 /\ s.tamper >= 1 /\ Judged!TierRank(tier) < Judged!TierRank("high") -> "high"
                    [] OTHER -> tier
  BY DEF Judged!Tier, m
<1> HIDE DEF tier
<1>5. s.av >= 1 => Judged!Tier(s) = "critical"
  BY <1>1, <1>4
<1>6. ASSUME s.av < 1, s.tamper >= 1
      PROVE  Judged!Tier(s) = IF Judged!TierRank(tier) < 2 THEN "high" ELSE tier
  BY <1>1, <1>2, <1>4, <1>6
<1>7. s.av < 1 /\ s.tamper < 1 => Judged!Tier(s) = tier
  BY <1>1, <1>4
<1> DEFINE rank == Judged!TierRank(tier)
<1>8. rank \in {0, 1, 2, 3} /\ (~ rank < 2 => tier \in {"high", "critical"})
  <2>1. tier = "low" \/ tier = "medium" \/ tier = "high" \/ tier = "critical"
    BY <1>3
  <2> QED BY <1>2, <2>1
<1> HIDE DEF rank
<1>9. ASSUME s.av < 1, s.tamper >= 1
      PROVE  Judged!Tier(s) \in {"high", "critical"} /\ Judged!TierRank(Judged!Tier(s)) = IF rank < 2 THEN 2 ELSE rank
  <2>1. CASE rank < 2
    <3>1. Judged!Tier(s) = "high"
      BY <1>6, <1>9, <2>1 DEF rank
    <3> QED BY <1>2, <2>1, <3>1
  <2>2. CASE ~ rank < 2
    <3>1. Judged!Tier(s) = tier
      BY <1>6, <1>9, <2>2 DEF rank
    <3> QED BY <1>8, <2>2, <3>1 DEF rank
  <2> QED BY <2>1, <2>2
<1> QED BY <1>2, <1>5, <1>7, <1>9 DEF rank, tier, m

LEMMA SaferIs == ASSUME NEW s \in Days, NEW d \in Days, Under(s, d)
    PROVE Judged!TierRank(Judged!Tier(s)) <= Judged!TierRank(Judged!Tier(d))
<1>1. PICK m \in Int, n \in Int : m = Judged!RiskScore(s) /\ n = Judged!RiskScore(d) /\ m <= n
  <2>1. Under(d, d)
    BY UnderSelf
  <2>2. Judged!RiskScore(s) \in 0..100 /\ Judged!RiskScore(d) \in 0..100 /\ Judged!RiskScore(s) <= Judged!RiskScore(d)
    BY <2>1, ScoreIs
  <2> QED BY <2>2
<1>2. /\ s.av \in Int /\ d.av \in Int /\ s.tamper \in Int /\ d.tamper \in Int
      /\ Judged!NonNeg(s.av) <= Judged!NonNeg(d.av) /\ Judged!NonNeg(s.tamper) <= Judged!NonNeg(d.tamper)
  BY DEF Days, Risky, Under
<1>3. (s.av >= 1 => d.av >= 1) /\ (s.tamper >= 1 => d.tamper >= 1)
  BY <1>2 DEF Judged!NonNeg
<1>4. PICK p \in 0..3, q \in 0..3 : /\ p = Judged!TierRank(Judged!ClassifyTier(m))
                                    /\ q = Judged!TierRank(Judged!ClassifyTier(n)) /\ p <= q
  BY <1>1, RankIs
<1>5. Judged!TierRank(Judged!Tier(s)) = IF s.av >= 1 THEN 3 ELSE IF s.tamper >= 1 THEN (IF p < 2 THEN 2 ELSE p) ELSE p
  BY <1>1, <1>2, <1>4, TierIs
<1>6. Judged!TierRank(Judged!Tier(d)) = IF d.av >= 1 THEN 3 ELSE IF d.tamper >= 1 THEN (IF q < 2 THEN 2 ELSE q) ELSE q
  BY <1>1, <1>2, <1>4, TierIs
<1> QED BY <1>2, <1>3, <1>4, <1>5, <1>6

-----------------------------------------------------------------------------
(* Productivity. *)

\* Half-minutes of work among those of the day, in hundredths, less what is deducted.
Points(n, d, x) == Judged!Least(Judged!NonNeg(100 * n - d * x), 100 * d)
Scored(n, d, x) == IF d = 0 THEN 0 ELSE (2 * Points(n, d, x) + d) \div (2 * d)

LEMMA Divided == ASSUME NEW x \in Nat, NEW y \in Nat, y > 0
    PROVE x \div y \in Nat /\ y * (x \div y) <= x /\ x < y * (x \div y) + y
OBVIOUS

LEMMA AtMost == ASSUME NEW x \in Nat, NEW y \in Nat, y > 0, NEW z \in Int, y * z <= x PROVE z <= x \div y
<1>1. PICK q \in Nat : q = x \div y /\ x < y * q + y
  BY Divided
<1>2. z > q => z >= q + 1
  BY <1>1
<1>3. z >= q + 1 => y * z >= y * (q + 1)
  OBVIOUS
<1>4. y * (q + 1) = y * q + y
  OBVIOUS
<1> QED BY <1>1, <1>2, <1>3, <1>4

LEMMA AtLeast == ASSUME NEW x \in Nat, NEW y \in Nat, y > 0, NEW z \in Nat, x < y * z + y PROVE x \div y <= z
<1>1. PICK q \in Nat : q = x \div y /\ y * q <= x
  BY Divided
<1>2. q > z => q >= z + 1
  BY <1>1
<1>3. q >= z + 1 => y * q >= y * (z + 1)
  BY <1>1
<1>4. y * (z + 1) = y * z + y
  OBVIOUS
<1> QED BY <1>1, <1>2, <1>3, <1>4

\* What is divided: the points of a day, that never reach what is deducted.
LEMMA PointsAre == ASSUME NEW n \in Nat, NEW d \in Nat, n <= d, NEW x \in 0..45
    PROVE /\ Points(n, d, x) \in Nat /\ Points(n, d, x) = Judged!NonNeg(100 * n - d * x)
          /\ Points(n, d, x) <= d * (100 - x)
<1>1. d * x \in Nat /\ 100 * d - d * x = d * (100 - x) /\ d * (100 - x) >= 0 /\ d * (100 - x) \in Int
  <2>1. x \in Nat /\ 100 - x \in Nat
    OBVIOUS
  <2>2. d * x \in Nat /\ d * (100 - x) \in Nat
    BY <2>1
  <2>3. 100 * d - d * x = d * (100 - x)
    BY <2>1
  <2> QED BY <2>2, <2>3
<1>2. PICK m \in Nat : m = d * x
  BY <1>1
<1>3. PICK h \in Nat : h = d * (100 - x) /\ h = 100 * d - m
  BY <1>1, <1>2
<1>4. 100 * n - m <= h /\ h <= 100 * d
  BY <1>2, <1>3
<1>5. Judged!NonNeg(100 * n - m) \in Nat /\ Judged!NonNeg(100 * n - m) <= h
  BY <1>3, <1>4 DEF Judged!NonNeg
<1>6. Judged!Least(Judged!NonNeg(100 * n - m), 100 * d) = Judged!NonNeg(100 * n - m)
  BY <1>4, <1>5 DEF Judged!Least
<1> QED BY <1>2, <1>3, <1>5, <1>6 DEF Points

Unclamped(n, d, x) == Judged!NonNeg(100 * n - d * x)
LEMMA PointsIs == \A n \in Nat, d \in Nat, x \in 0..45 :
    n <= d => Points(n, d, x) \in Nat /\ Points(n, d, x) = Unclamped(n, d, x)
BY PointsAre, Zenon DEF Unclamped

LEMMA ScoredIn == ASSUME NEW n \in Nat, NEW d \in Nat, n <= d, NEW x \in 0..45
    PROVE Scored(n, d, x) \in Nat /\ Scored(n, d, x) <= 100 /\ (d # 0 => Scored(n, d, x) <= 100 - x)
<1>1. CASE d = 0
  BY <1>1 DEF Scored
<1>2. CASE d # 0
  <2>1. PICK c \in Nat : c = Points(n, d, x) /\ c <= d * (100 - x)
    BY PointsAre
  <2>2. PICK z \in Nat : z = 100 - x /\ z <= 100
    OBVIOUS
  <2>3. Scored(n, d, x) = (2 * c + d) \div (2 * d)
    BY <1>2, <2>1 DEF Scored
  <2>4. 2 * c + d < (2 * d) * z + 2 * d
    <3>1. (2 * d) * z = 2 * (d * z)
      OBVIOUS
    <3>2. PICK h \in Nat : h = d * z
      OBVIOUS
    <3> QED BY <1>2, <2>1, <2>2, <3>1, <3>2
  <2>5. PICK k \in Nat, y \in Nat : k = 2 * c + d /\ y = 2 * d /\ y > 0 /\ k < y * z + y
    BY <1>2, <2>4
  <2>6. k \div y <= z /\ k \div y \in Nat
    BY <2>5, AtLeast, Divided
  <2> QED BY <2>2, <2>3, <2>5, <2>6
<1> QED BY <1>1, <1>2

LEMMA TimesLess == ASSUME NEW a \in Int, NEW b \in Int, a <= b, NEW k \in Nat PROVE k * a <= k * b /\ a * k <= b * k
OBVIOUS

\* A smaller share of work less what is more comes to no more.
LEMMA ScoredFalls ==
    ASSUME NEW n \in Nat, NEW d \in Nat, n <= d, NEW x \in 0..45,
           NEW n2 \in Nat, NEW d2 \in Nat, n2 <= d2, NEW x2 \in 0..45,
           n * d2 <= n2 * d, x2 <= x, d2 = 0 => n = 0
    PROVE  Scored(n, d, x) <= Scored(n2, d2, x2)
<1>1. Scored(n2, d2, x2) \in Nat /\ Scored(n, d, x) \in Nat
  BY ScoredIn
<1>2. CASE d = 0
  BY <1>1, <1>2 DEF Scored
<1>3. CASE d # 0 /\ d2 = 0
  <2>1. PICK c \in Nat : c = Points(n, d, x) /\ c = Judged!NonNeg(100 * n - d * x)
    <3>1. Points(n, d, x) \in Nat /\ Points(n, d, x) = Unclamped(n, d, x)
      BY PointsIs, Zenon
    <3> QED BY <3>1, Zenon DEF Unclamped
  <2>2. c = 0
    <3>1. d * x \in Nat
      OBVIOUS
    <3> QED BY <1>3, <2>1, <3>1 DEF Judged!NonNeg
  <2>3. Scored(n, d, x) = d \div (2 * d)
    BY <1>3, <2>1, <2>2 DEF Scored
  <2>4. PICK y \in Nat : y = 2 * d /\ y > 0 /\ d < y * 0 + y
    BY <1>3
  <2>5. d \div y <= 0
    BY <2>4, AtLeast
  <2> QED BY <1>1, <2>3, <2>4, <2>5
<1>4. CASE d # 0 /\ d2 # 0
  <2>1. PICK c \in Nat : c = Points(n, d, x) /\ c = Judged!NonNeg(100 * n - d * x)
    <3>1. Points(n, d, x) \in Nat /\ Points(n, d, x) = Unclamped(n, d, x)
      BY PointsIs, Zenon
    <3> QED BY <3>1, Zenon DEF Unclamped
  <2>2. PICK c2 \in Nat : c2 = Points(n2, d2, x2) /\ c2 = Judged!NonNeg(100 * n2 - d2 * x2)
    <3>1. Points(n2, d2, x2) \in Nat /\ Points(n2, d2, x2) = Unclamped(n2, d2, x2)
      BY PointsIs, Zenon
    <3> QED BY <3>1, Zenon DEF Unclamped
  <2>3. c * d2 <= c2 * d
    <3>1. c2 * d >= 0
      OBVIOUS
    <3>2. CASE c = 0
      <4>1. c * d2 = 0
        BY <3>2
      <4> QED BY <3>1, <4>1
    <3>3. CASE c # 0
      <4>1. c = 100 * n - d * x
        BY <2>1, <3>3 DEF Judged!NonNeg
      <4>2. 100 * n2 - d2 * x2 <= c2
        BY <2>2 DEF Judged!NonNeg
      <4>3. (100 * n2 - d2 * x2) * d <= c2 * d
        <5>1. 100 * n2 - d2 * x2 \in Int
          OBVIOUS
        <5> QED BY <4>2, <5>1, TimesLess
      <4>4. (100 * n - d * x) * d2 = 100 * (n * d2) - (d * d2) * x
        OBVIOUS
      <4>5. (100 * n2 - d2 * x2) * d = 100 * (n2 * d) - (d * d2) * x2
        OBVIOUS
      <4>6. (d * d2) * x2 <= (d * d2) * x
        <5>1. d * d2 \in Nat
          OBVIOUS
        <5> QED BY <5>1, TimesLess
      <4>7. PICK u \in Int, v \in Int, p \in Int, q \in Int :
              u = n * d2 /\ v = n2 * d /\ p = (d * d2) * x /\ q = (d * d2) * x2
        OBVIOUS
      <4>8. 100 * u - p <= 100 * v - q
        BY <4>6, <4>7
      <4>9. c * d2 = 100 * u - p
        BY <4>1, <4>4, <4>7
      <4>10. 100 * v - q <= c2 * d
        BY <4>3, <4>5, <4>7
      <4>11. PICK y \in Int, z \in Int : y = c * d2 /\ z = c2 * d
        OBVIOUS
      <4> QED BY <4>7, <4>8, <4>9, <4>10, <4>11
    <3> QED BY <3>2, <3>3
  <2>4. Scored(n, d, x) = (2 * c + d) \div (2 * d) /\ Scored(n2, d2, x2) = (2 * c2 + d2) \div (2 * d2)
    BY <1>4, <2>1, <2>2 DEF Scored
  <2>5. PICK k \in Nat, y \in Nat : k = 2 * c + d /\ y = 2 * d /\ y > 0
    BY <1>4
  <2>6. PICK k2 \in Nat, y2 \in Nat : k2 = 2 * c2 + d2 /\ y2 = 2 * d2 /\ y2 > 0
    BY <1>4
  <2>7. PICK q \in Nat : q = k \div y /\ y * q <= k
    BY <2>5, Divided
  <2>8. y2 * q <= k2
    <3>1. (y * q) * d2 <= k * d2
      BY <2>7, TimesLess
    <3>2. k * d2 <= k2 * d
      <4>1. k * d2 = 2 * (c * d2) + d * d2 /\ k2 * d = 2 * (c2 * d) + d * d2
        BY <2>5, <2>6
      <4>2. PICK u \in Int, v \in Int, w \in Int : u = c * d2 /\ v = c2 * d /\ w = d * d2
        OBVIOUS
      <4> QED BY <2>3, <4>1, <4>2
    <3>3. (y * q) * d2 = (y2 * q) * d
      BY <2>5, <2>6
    <3>4. PICK g \in Nat : g = y2 * q
      BY <2>6
    <3>5. g * d <= k2 * d
      <4>1. PICK u \in Int, v \in Int, w \in Int : u = (y * q) * d2 /\ v = k * d2 /\ w = k2 * d
        OBVIOUS
      <4> QED BY <3>1, <3>2, <3>3, <3>4, <4>1
    <3>6. g > k2 => g * d > k2 * d
      <4> SUFFICES ASSUME g > k2 PROVE g * d > k2 * d
        OBVIOUS
      <4>1. (k2 + 1) * d <= g * d
        BY TimesLess
      <4>2. (k2 + 1) * d = k2 * d + d
        OBVIOUS
      <4> QED BY <1>4, <4>1, <4>2
    <3>7. ~ g > k2
      BY <3>5, <3>6
    <3> QED BY <3>4, <3>7
  <2>9. q <= k2 \div y2
    BY <2>6, <2>8, AtMost
  <2> QED BY <2>4, <2>5, <2>6, <2>7, <2>9
<1> QED BY <1>2, <1>3, <1>4

DayNames == {"prod", "neut", "dist", "idle", "active", "viols", "keys"}
DayRows == [DayNames -> Int]

\* Half-minutes of work, and the four deductions.
Work(s) == 2 * Judged!NonNeg(s.prod) + Judged!NonNeg(s.neut)
Distracted(s) == IF 100 * Judged!NonNeg(s.dist) > 30 * Judged!Minutes(s) THEN 10 ELSE 0
Violated(s) == Judged!Least(5 * Judged!NonNeg(s.viols), 20)
Idled(s) == IF s.active > 0 /\ 100 * Judged!NonNeg(s.idle) > 40 * s.active THEN 10 ELSE 0
Untyped(s) == IF s.active > 60 /\ 10 * Judged!NonNeg(s.keys) < 3 * 60 * s.active THEN 5 ELSE 0

LEMMA FourIs == ASSUME NEW w \in Seq(Int), Len(w) = 4 PROVE Judged!SumOf(w) = w[1] + w[2] + w[3] + w[4]
<1>1. PICK f : Partial(f, w) /\ Judged!SumOf(w) = f[Len(w)]
  BY SumIs
<1>2. \A n \in 1..4 : w[n] \in Int
  BY ElementOfSeq
<1>3. f \in [0..4 -> Int] /\ f[0] = 0 /\ \A n \in 1..4 : f[n] = f[n - 1] + w[n]
  BY <1>1 DEF Partial
<1>4. f[1] = w[1] /\ f[2] = f[1] + w[2] /\ f[3] = f[2] + w[3] /\ f[4] = f[3] + w[4]
  BY <1>2, <1>3
<1>5. Judged!SumOf(w) = f[4]
  BY <1>1
<1> QED BY <1>2, <1>4, <1>5

LEMMA DayRowIs == ASSUME NEW s \in DayRows
    PROVE /\ s.prod \in Int /\ s.neut \in Int /\ s.dist \in Int /\ s.idle \in Int /\ s.active \in Int
          /\ s.viols \in Int /\ s.keys \in Int
          /\ Judged!NonNeg(s.prod) \in Nat /\ Judged!NonNeg(s.neut) \in Nat /\ Judged!NonNeg(s.dist) \in Nat
          /\ Judged!NonNeg(s.idle) \in Nat /\ Judged!NonNeg(s.viols) \in Nat /\ Judged!NonNeg(s.keys) \in Nat
<1>1. /\ s.prod \in Int /\ s.neut \in Int /\ s.dist \in Int /\ s.idle \in Int /\ s.active \in Int
      /\ s.viols \in Int /\ s.keys \in Int
  BY DEF DayRows, DayNames
<1>2. \A x \in Int : Judged!NonNeg(x) \in Nat
  BY DEF Judged!NonNeg
<1> QED BY <1>1, <1>2

LEMMA DeductionsAre == ASSUME NEW a \in Nat, NEW b \in Nat, NEW e \in Nat, NEW f \in Nat, a <= 10, b <= 20, e <= 10, f <= 5
    PROVE a + b + e + f \in 0..45
OBVIOUS

LEMMA DeductedIs == ASSUME NEW s \in DayRows
    PROVE /\ Judged!Deducted(s) = Distracted(s) + Violated(s) + Idled(s) + Untyped(s)
          /\ Distracted(s) \in {0, 10} /\ Violated(s) \in 0..20 /\ Idled(s) \in {0, 10} /\ Untyped(s) \in {0, 5}
          /\ Judged!Deducted(s) \in 0..45
          /\ Judged!Applied(s) # {} => Judged!Deducted(s) > 0
<1> DEFINE c == Judged!Penalties(s)
<1> DEFINE w == [i \in DOMAIN c |-> c[i].weight]
<1>1. DOMAIN c = 1..4
  BY DEF Judged!Penalties
<1>2. /\ c[1].weight = Distracted(s) /\ c[2].weight = Violated(s) /\ c[3].weight = Idled(s)
      /\ c[4].weight = Untyped(s)
  BY DEF Judged!Penalties, Distracted, Violated, Idled, Untyped
<1>3. Distracted(s) \in {0, 10} /\ Idled(s) \in {0, 10} /\ Untyped(s) \in {0, 5}
  BY Zenon DEF Distracted, Idled, Untyped
<1>4. Violated(s) \in 0..20
  <2>1. PICK m \in Nat : m = 5 * Judged!NonNeg(s.viols)
    BY DayRowIs
  <2> QED BY <2>1 DEF Violated, Judged!Least
<1> HIDE DEF c
<1>5. w \in [1..4 -> Int] /\ w[1] = Distracted(s) /\ w[2] = Violated(s) /\ w[3] = Idled(s) /\ w[4] = Untyped(s)
  <2>1. \A i \in 1..4 : i = 1 \/ i = 2 \/ i = 3 \/ i = 4
    OBVIOUS
  <2>2. \A i \in 1..4 : c[i].weight \in Int
    BY <1>2, <1>3, <1>4, <2>1
  <2> QED BY <1>1, <1>2, <2>2
<1>6. Judged!Deducted(s) = Judged!SumOf(w)
  BY Zenon DEF Judged!Deducted, Judged!Total, c
<1>7. Judged!Applied(s) = {i \in 1..4 : c[i].weight > 0}
  BY <1>1, Zenon DEF Judged!Applied, c
<1> HIDE DEF w
<1>8. w \in Seq(Int) /\ Len(w) = 4
  <2>1. w \in Seq(Int)
    <3>1. 4 \in Nat
      OBVIOUS
    <3> QED BY <1>5, <3>1, SeqDef
  <2>2. Len(w) \in Nat /\ 1..Len(w) = 1..4
    BY <1>5, <2>1, LenProperties
  <2>3. Len(w) = 4
    <3>1. PICK n \in Nat : n = Len(w) /\ 1..n = 1..4
      BY <2>2
    <3>2. 4 \in 1..4 /\ 4 + 1 \notin 1..4 /\ 5 = 4 + 1
      OBVIOUS
    <3>3. 4 <= n /\ ~ 5 <= n
      BY <3>1, <3>2
    <3> QED BY <3>1, <3>3
  <2> QED BY <2>1, <2>3
<1>9. Judged!SumOf(w) = w[1] + w[2] + w[3] + w[4]
  BY <1>8, FourIs
<1>10. PICK a \in Nat, b \in Nat, e \in Nat, f \in Nat :
         /\ a = Distracted(s) /\ b = Violated(s) /\ e = Idled(s) /\ f = Untyped(s)
         /\ a <= 10 /\ b <= 20 /\ e <= 10 /\ f <= 5
  BY <1>3, <1>4
<1>11. Judged!Deducted(s) = a + b + e + f
  BY <1>5, <1>6, <1>9, <1>10
<1>12. ASSUME Judged!Applied(s) # {} PROVE Judged!Deducted(s) > 0
  <2>1. PICK i \in 1..4 : c[i].weight > 0
    BY <1>7, <1>12
  <2>2. i = 1 \/ i = 2 \/ i = 3 \/ i = 4
    OBVIOUS
  <2>3. a > 0 \/ b > 0 \/ e > 0 \/ f > 0
    BY <1>2, <1>10, <2>1, <2>2
  <2> QED BY <1>10, <1>11, <2>3
<1>13. Judged!Deducted(s) \in 0..45
  <2>1. a + b + e + f \in 0..45
    BY <1>10, DeductionsAre
  <2> QED BY <1>11, <2>1, Zenon
<1> QED BY <1>3, <1>4, <1>10, <1>11, <1>12, <1>13

LEMMA ProductivityIs == ASSUME NEW s \in DayRows
    PROVE /\ Work(s) \in Nat /\ Judged!TwiceDenom(s) \in Nat /\ Work(s) <= Judged!TwiceDenom(s)
          /\ Judged!Productivity(s) = Scored(Work(s), Judged!TwiceDenom(s), Judged!Deducted(s))
<1>1. Judged!Productivity(s) = Scored(Work(s), Judged!TwiceDenom(s), Judged!Deducted(s))
  BY Zenon DEF Judged!Productivity, Scored, Points, Work
<1>2. PICK p \in Nat, n \in Nat, d \in Nat, i \in Nat :
        p = Judged!NonNeg(s.prod) /\ n = Judged!NonNeg(s.neut) /\ d = Judged!NonNeg(s.dist) /\ i = Judged!NonNeg(s.idle)
  BY DayRowIs
<1>3. Work(s) = 2 * p + n /\ Judged!TwiceDenom(s) = 2 * (p + n + d) + i
  BY <1>2 DEF Work, Judged!TwiceDenom, Judged!Minutes
<1> QED BY <1>1, <1>3

LEMMA ShareFalls ==
    ASSUME NEW s \in DayRows, NEW e \in DayRows, Judged!Deducted(e) <= Judged!Deducted(s),
           Work(s) * Judged!TwiceDenom(e) <= Work(e) * Judged!TwiceDenom(s),
           Judged!TwiceDenom(e) = 0 => Work(s) = 0
    PROVE  Judged!Productivity(s) <= Judged!Productivity(e)
<1>1. PICK n \in Nat, d \in Nat, x \in 0..45 :
        n = Work(s) /\ d = Judged!TwiceDenom(s) /\ x = Judged!Deducted(s) /\ n <= d
  BY ProductivityIs, DeductedIs
<1>2. PICK n2 \in Nat, d2 \in Nat, x2 \in 0..45 :
        n2 = Work(e) /\ d2 = Judged!TwiceDenom(e) /\ x2 = Judged!Deducted(e) /\ n2 <= d2
  BY ProductivityIs, DeductedIs, Zenon
<1>3. n * d2 <= n2 * d /\ x2 <= x /\ (d2 = 0 => n = 0)
  BY <1>1, <1>2, Zenon
<1>4. Scored(n, d, x) <= Scored(n2, d2, x2)
  BY <1>1, <1>2, <1>3, ScoredFalls, Zenon
<1> QED BY <1>1, <1>2, <1>4, ProductivityIs, Zenon

\* One signal more, all others as they were.
More(s, e, name) == s[name] <= e[name] /\ \A n \in DayNames : n # name => e[n] = s[n]

LEMMA NonNegGrows == ASSUME NEW x \in Int, NEW y \in Int, x <= y
    PROVE Judged!NonNeg(x) \in Nat /\ Judged!NonNeg(y) \in Nat /\ Judged!NonNeg(x) <= Judged!NonNeg(y)
BY DEF Judged!NonNeg

LEMMA HigherIs == ASSUME NEW s \in DayRows, NEW e \in DayRows, NEW name \in {"prod", "keys"}, More(s, e, name)
    PROVE Judged!Productivity(s) <= Judged!Productivity(e)
<1>1. e.neut = s.neut /\ e.dist = s.dist /\ e.idle = s.idle /\ e.active = s.active /\ e.viols = s.viols
  BY DEF More, DayNames
<1>2. s.prod <= e.prod /\ s.keys <= e.keys
  <2>1. s.prod \in Int /\ s.keys \in Int
    BY DayRowIs
  <2>2. CASE name = "prod"
    BY <2>1, <2>2 DEF More, DayNames
  <2>3. CASE name = "keys"
    BY <2>1, <2>3 DEF More, DayNames
  <2> QED BY <2>2, <2>3
<1>3. PICK p \in Nat, k \in Nat : p = Judged!NonNeg(s.prod) /\ Judged!NonNeg(e.prod) = p + k
  <2>1. PICK a \in Nat, b \in Nat : a = Judged!NonNeg(s.prod) /\ b = Judged!NonNeg(e.prod) /\ a <= b
    BY <1>2, DayRowIs, NonNegGrows
  <2>2. b = a + (b - a) /\ b - a \in Nat
    BY <2>1
  <2> QED BY <2>1, <2>2
<1>4. PICK n \in Nat, d \in Nat, i \in Nat :
        n = Judged!NonNeg(s.neut) /\ d = Judged!NonNeg(s.dist) /\ i = Judged!NonNeg(s.idle)
  BY DayRowIs
<1>5. Work(s) = 2 * p + n /\ Judged!TwiceDenom(s) = 2 * (p + n + d) + i /\ Judged!Minutes(s) = p + n + d
  BY <1>3, <1>4 DEF Work, Judged!TwiceDenom, Judged!Minutes
<1>6. Work(e) = 2 * (p + k) + n /\ Judged!TwiceDenom(e) = 2 * (p + k + n + d) + i /\ Judged!Minutes(e) = p + k + n + d
  BY <1>1, <1>3, <1>4 DEF Work, Judged!TwiceDenom, Judged!Minutes
<1>7. Distracted(e) <= Distracted(s)
  BY <1>1, <1>4, <1>5, <1>6 DEF Distracted
<1>8. Violated(e) = Violated(s) /\ Idled(e) = Idled(s)
  BY <1>1 DEF Violated, Idled
<1>9. Untyped(e) <= Untyped(s)
  <2>1. PICK a \in Nat, b \in Nat : a = Judged!NonNeg(s.keys) /\ b = Judged!NonNeg(e.keys) /\ a <= b
    BY <1>2, DayRowIs, NonNegGrows
  <2>2. s.active \in Int
    BY DayRowIs
  <2> QED BY <1>1, <2>1, <2>2 DEF Untyped
<1>10. Judged!Deducted(e) <= Judged!Deducted(s)
  BY <1>7, <1>8, <1>9, DeductedIs
<1>11. Work(s) * Judged!TwiceDenom(e) <= Work(e) * Judged!TwiceDenom(s)
  <2>1. PICK m \in Nat, g \in Nat : m = 2 * p + n /\ g = 2 * (p + n + d) + i /\ m <= g
    OBVIOUS
  <2>2. Work(s) = m /\ Judged!TwiceDenom(s) = g /\ Work(e) = m + 2 * k /\ Judged!TwiceDenom(e) = g + 2 * k
    BY <1>5, <1>6, <2>1
  <2>3. m * (g + 2 * k) = m * g + 2 * (m * k) /\ (m + 2 * k) * g = m * g + 2 * (g * k)
    OBVIOUS
  <2>4. m * k <= g * k
    BY <2>1, TimesLess
  <2>5. PICK u \in Int, v \in Int, z \in Int : u = m * g /\ v = m * k /\ z = g * k
    OBVIOUS
  <2> QED BY <2>2, <2>3, <2>4, <2>5
<1>12. Judged!TwiceDenom(e) = 0 => Work(s) = 0
  BY <1>5, <1>6
<1> QED BY <1>10, <1>11, <1>12, ShareFalls

LEMMA DenomIs == ASSUME NEW s \in DayRows
    PROVE Judged!TwiceDenom(s) = 2 * (Judged!NonNeg(s.prod) + Judged!NonNeg(s.neut) + Judged!NonNeg(s.dist)) + Judged!NonNeg(s.idle)
BY DEF Judged!TwiceDenom, Judged!Minutes

LEMMA LowerIs == ASSUME NEW s \in DayRows, NEW e \in DayRows, NEW name \in {"dist", "idle", "viols"}, More(s, e, name)
    PROVE Judged!Productivity(e) <= Judged!Productivity(s)
<1>1. e.prod = s.prod /\ e.neut = s.neut /\ e.active = s.active /\ e.keys = s.keys
  BY DEF More, DayNames
<1>2. s.dist <= e.dist /\ s.idle <= e.idle /\ s.viols <= e.viols
  <2>1. s.dist \in Int /\ s.idle \in Int /\ s.viols \in Int
    BY DayRowIs
  <2>2. CASE name = "dist"
    BY <2>1, <2>2 DEF More, DayNames
  <2>3. CASE name = "idle"
    BY <2>1, <2>3 DEF More, DayNames
  <2>4. CASE name = "viols"
    BY <2>1, <2>4 DEF More, DayNames
  <2> QED BY <2>2, <2>3, <2>4
<1>3. PICK p \in Nat, n \in Nat : p = Judged!NonNeg(s.prod) /\ n = Judged!NonNeg(s.neut)
  BY DayRowIs
<1>4. PICK d \in Nat, c \in Nat : d = Judged!NonNeg(s.dist) /\ c = Judged!NonNeg(e.dist) /\ d <= c
  BY <1>2, DayRowIs, NonNegGrows
<1>5. PICK i \in Nat, j \in Nat : i = Judged!NonNeg(s.idle) /\ j = Judged!NonNeg(e.idle) /\ i <= j
  BY <1>2, DayRowIs, NonNegGrows
<1>6. PICK u \in Nat, v \in Nat : u = Judged!NonNeg(s.viols) /\ v = Judged!NonNeg(e.viols) /\ u <= v
  BY <1>2, DayRowIs, NonNegGrows
<1>7. Work(s) = 2 * p + n /\ Judged!TwiceDenom(s) = 2 * (p + n + d) + i /\ Judged!Minutes(s) = p + n + d
  BY <1>3, <1>4, <1>5 DEF Work, Judged!TwiceDenom, Judged!Minutes
<1>8. Work(e) = 2 * p + n /\ Judged!TwiceDenom(e) = 2 * (p + n + c) + j /\ Judged!Minutes(e) = p + n + c
  BY <1>1, <1>3, <1>4, <1>5 DEF Work, Judged!TwiceDenom, Judged!Minutes
<1>9. Distracted(s) <= Distracted(e)
  BY <1>4, <1>7, <1>8 DEF Distracted
<1>10. Violated(s) <= Violated(e)
  BY <1>6 DEF Violated, Judged!Least
<1>11. Idled(s) <= Idled(e)
  <2>1. s.active \in Int
    BY DayRowIs
  <2> QED BY <1>1, <1>5, <2>1 DEF Idled
<1>12. Untyped(s) = Untyped(e)
  BY <1>1 DEF Untyped
<1>13. Judged!Deducted(s) <= Judged!Deducted(e)
  BY <1>9, <1>10, <1>11, <1>12, DeductedIs
<1>14. Work(e) * Judged!TwiceDenom(s) <= Work(s) * Judged!TwiceDenom(e)
  <2>1. PICK m \in Nat, g \in Nat, h \in Nat : m = 2 * p + n /\ g = 2 * (p + n + d) + i /\ h = 2 * (p + n + c) + j /\ g <= h
    BY <1>4, <1>5
  <2>2. Work(s) = m /\ Work(e) = m /\ Judged!TwiceDenom(s) = g /\ Judged!TwiceDenom(e) = h
    BY <1>7, <1>8, <2>1
  <2>3. m * g <= m * h
    BY <2>1, TimesLess
  <2> QED BY <2>2, <2>3, Zenon
<1>15. Judged!TwiceDenom(s) = 0 => Work(e) = 0
  BY <1>7, <1>8
<1> QED BY <1>13, <1>14, <1>15, ShareFalls

LEMMA ReasonIs == ASSUME NEW s \in DayRows
    PROVE /\ Judged!Productivity(s) \in 0..100
          /\ Judged!PenaltyReason(s) # "" => Judged!Productivity(s) + Judged!Deducted(s) <= 100
          /\ Judged!Productivity(s) = 100 => Judged!PenaltyReason(s) = ""
<1>1. PICK n \in Nat, d \in Nat, x \in 0..45 :
        n = Work(s) /\ d = Judged!TwiceDenom(s) /\ x = Judged!Deducted(s) /\ n <= d
  BY ProductivityIs, DeductedIs
<1>2. PICK q \in Nat : q = Judged!Productivity(s) /\ q <= 100 /\ (d # 0 => q <= 100 - x)
  <2>1. Judged!Productivity(s) = Scored(n, d, x)
    BY <1>1, ProductivityIs, Zenon
  <2> QED BY <1>1, <2>1, ScoredIn
<1>3. Judged!Cardinality({}) = 0
  <2>1. Judged!Cardinality({}) = Cardinality({})
    BY DEF Judged!Cardinality, Cardinality
  <2> QED BY <2>1, FS_EmptySet
<1>4. ASSUME Judged!PenaltyReason(s) # "" PROVE d # 0 /\ x > 0
  <2>1. ASSUME d = 0 PROVE FALSE
    <3>1. Judged!PenaltyReason(s) = ""
      BY <1>1, <2>1 DEF Judged!PenaltyReason
    <3> QED BY <1>4, <3>1
  <2>2. ASSUME Judged!Applied(s) = {} PROVE FALSE
    <3>1. Judged!Cardinality(Judged!Applied(s)) # 1
      BY <1>3, <2>2
    <3> DEFINE c == Judged!Cardinality(Judged!Applied(s))
    <3>2. Judged!PenaltyReason(s) =
            CASE Judged!TwiceDenom(s) = 0 \/ Judged!Applied(s) = {} -> ""
              [] Judged!TwiceDenom(s) > 0 /\ c = 1 ->
                    LET i == CHOOSE i \in Judged!Applied(s) : TRUE IN Judged!Penalties(s)[i].reason
              [] OTHER -> "mixed"
      BY Zenon DEF Judged!PenaltyReason
    <3>3. c # 1
      BY <3>1
    <3> HIDE DEF c
    <3>4. Judged!PenaltyReason(s) = ""
      BY <2>2, <3>2, <3>3
    <3> QED BY <1>4, <3>4
  <2>3. Judged!Deducted(s) > 0
    BY <2>2, DeductedIs
  <2> QED BY <1>1, <2>1, <2>3
<1>5. ASSUME d # 0, x > 0 PROVE q + x <= 100 /\ q # 100
  <2>1. PICK z \in Nat : z = x /\ z > 0
    BY <1>5
  <2>2. q <= 100 - z
    BY <1>2, <1>5, <2>1
  <2> QED BY <2>1, <2>2
<1>6. Judged!Productivity(s) \in 0..100
  <2>1. q \in 0..100
    BY <1>2
  <2> QED BY <1>2, <2>1
<1>7. Judged!PenaltyReason(s) # "" => Judged!Productivity(s) + Judged!Deducted(s) <= 100 /\ Judged!Productivity(s) # 100
  <2>1. q + x = Judged!Productivity(s) + Judged!Deducted(s) /\ q = Judged!Productivity(s)
    BY <1>1, <1>2, Zenon
  <2> QED BY <1>4, <1>5, <2>1, Zenon
<1> QED BY <1>6, <1>7, Zenon

-----------------------------------------------------------------------------
(* A day, one signal at a time. *)

\* Every signal is at one of its levels.
AtLevels(S, L) == DOMAIN signals = S /\ \A n \in S : signals[n] \in 1..Len(L[n])
SignalsOK == /\ topic = "risk" => AtLevels(Risky, RiskLevels)
             /\ topic = "day" => AtLevels(DayNames, DayLevels)
Leveled(S, L) == /\ L \in [S -> Seq(Int)]
                 /\ \A n \in S : /\ Len(L[n]) \in Nat /\ Len(L[n]) >= 1
                                 /\ \A k \in 1..Len(L[n]) : L[n][k] \in Int
                                 /\ \A k \in 1..Len(L[n]) : k < Len(L[n]) => L[n][k] <= L[n][k + 1]

LEMMA OrderedIs == ASSUME NEW S, NEW L \in [S -> Seq(Int)], Judged!Ordered(L) PROVE Leveled(S, L)
<1> SUFFICES ASSUME NEW n \in S
             PROVE  /\ Len(L[n]) \in Nat /\ Len(L[n]) >= 1
                    /\ \A k \in 1..Len(L[n]) : L[n][k] \in Int
                    /\ \A k \in 1..Len(L[n]) : k < Len(L[n]) => L[n][k] <= L[n][k + 1]
  BY DEF Leveled
<1>1. L[n] # <<>> /\ \A k \in 1..(Len(L[n]) - 1) : L[n][k] <= L[n][k + 1]
  BY DEF Judged!Ordered
<1>2. PICK levels \in Seq(Int) : levels = L[n]
  OBVIOUS
<1>3. Len(levels) \in Nat /\ \A k \in 1..Len(levels) : levels[k] \in Int
  BY LenProperties, ElementOfSeq
<1>4. Len(levels) >= 1
  BY <1>1, <1>2, <1>3, EmptySeq
<1>5. \A k \in 1..Len(levels) : k < Len(levels) => k \in 1..(Len(levels) - 1)
  BY <1>3
<1> QED BY <1>1, <1>2, <1>3, <1>4, <1>5

LEMMA LevelsAre == ASSUME Judged!JudgeAssumption PROVE Leveled(Risky, RiskLevels) /\ Leveled(DayNames, DayLevels)
<1>1. /\ RiskLevels \in [Risky -> Seq(Int)] /\ DayLevels \in [DayNames -> Seq(Int)]
      /\ Judged!Ordered(RiskLevels) /\ Judged!Ordered(DayLevels)
  BY Zenon DEF Judged!JudgeAssumption, Risky, DayNames
<1> QED BY <1>1, OrderedIs

\* One signal more is one signal not lower, and the others as they were.
LEMMA MoreIs ==
    ASSUME NEW S, NEW L, Leveled(S, L), AtLevels(S, L), Judged!Levels = L
    PROVE  /\ Judged!Day \in [S -> Int]
           /\ \A s \in DOMAIN signals : Judged!Rises(s) =>
                LET e == Judged!At(Judged!Next1(s)) IN
                /\ e \in [S -> Int] /\ Judged!Day[s] <= e[s]
                /\ \A n \in S : n # s => e[n] = Judged!Day[n]
<1> DEFINE d == Judged!Day
<1>1. DOMAIN signals = S /\ \A n \in S : signals[n] \in 1..Len(L[n])
  BY DEF AtLevels
<1>2. /\ DOMAIN d = S /\ \A n \in S : d[n] = L[n][signals[n]]
      /\ d = [n \in S |-> d[n]]
  BY <1>1 DEF Judged!Day, Judged!At
<1>3. \A n \in S : d[n] \in Int
  BY <1>1, <1>2 DEF Leveled
<1> HIDE DEF d
<1>4. d \in [S -> Int]
  BY <1>2, <1>3
<1>5. ASSUME NEW s \in DOMAIN signals, Judged!Rises(s)
      PROVE  LET e == Judged!At(Judged!Next1(s)) IN
             e \in [S -> Int] /\ d[s] <= e[s] /\ \A n \in S : n # s => e[n] = d[n]
  <2> DEFINE up == Judged!Next1(s)
  <2> DEFINE e == Judged!At(up)
  <2>1. s \in S /\ signals[s] < Len(L[s])
    BY <1>1, <1>5 DEF Judged!Rises
  <2>2. DOMAIN up = S /\ up[s] = signals[s] + 1 /\ \A n \in S : n # s => up[n] = signals[n]
    BY <1>1, <2>1 DEF Judged!Next1
  <2> HIDE DEF up
  <2>3. DOMAIN e = S /\ e = [n \in S |-> e[n]] /\ \A n \in S : e[n] = L[n][up[n]]
    BY <2>2 DEF Judged!At
  <2> HIDE DEF e
  <2>4. e[s] \in Int /\ d[s] <= e[s]
    <3>1. PICK k \in 1..Len(L[s]) : k = signals[s] /\ k < Len(L[s])
      BY <1>1, <2>1
    <3>2. Len(L[s]) \in Nat
      BY <2>1 DEF Leveled
    <3>3. k + 1 \in 1..Len(L[s])
      BY <3>1, <3>2
    <3>4. L[s][k] <= L[s][k + 1] /\ L[s][k + 1] \in Int
      BY <2>1, <3>1, <3>3 DEF Leveled
    <3> QED BY <1>2, <2>1, <2>2, <2>3, <3>1, <3>4
  <2>5. \A n \in S : n # s => e[n] = d[n]
    BY <1>2, <2>2, <2>3
  <2>6. e \in [S -> Int]
    BY <1>3, <2>3, <2>4, <2>5
  <2> QED BY <2>4, <2>5, <2>6 DEF e, up
<1> QED BY <1>4, <1>5 DEF d

LEMMA RiskIs == ASSUME Judged!JudgeAssumption, SignalsOK, topic = "risk" PROVE Judged!RiskRises
<1> DEFINE d == Judged!Day
<1>1. Leveled(Risky, RiskLevels) /\ AtLevels(Risky, RiskLevels) /\ Judged!Levels = RiskLevels
  BY LevelsAre DEF SignalsOK, Judged!Levels
<1>2. d \in [Risky -> Int] /\ DOMAIN signals = Risky
  BY <1>1, MoreIs DEF AtLevels
<1>3. ASSUME NEW s \in DOMAIN signals, Judged!Rises(s)
      PROVE  /\ Judged!RiskScore(Judged!At(Judged!Next1(s))) >= Judged!RiskScore(d)
             /\ Judged!TierRank(Judged!Tier(Judged!At(Judged!Next1(s)))) >= Judged!TierRank(Judged!Tier(d))
  <2> DEFINE e == Judged!At(Judged!Next1(s))
  <2>1. e \in [Risky -> Int] /\ d[s] <= e[s] /\ \A n \in Risky : n # s => e[n] = d[n]
    BY <1>1, <1>3, MoreIs, Zenon
  <2> HIDE DEF e, d
  <2>2. d \in Days /\ e \in Days
    BY <1>2, <2>1 DEF Days
  <2>3. Under(d, e)
    <3>1. \A x \in Int, y \in Int : x <= y => Judged!NonNeg(x) <= Judged!NonNeg(y)
      BY DEF Judged!NonNeg
    <3>2. \A n \in Risky : d[n] \in Int /\ e[n] \in Int /\ d[n] <= e[n]
      BY <1>2, <2>1
    <3> QED BY <3>1, <3>2 DEF Under
  <2>4. Under(e, e)
    BY <2>2, UnderSelf
  <2>5. /\ Judged!RiskScore(d) \in 0..100 /\ Judged!RiskScore(e) \in 0..100
        /\ Judged!RiskScore(d) <= Judged!RiskScore(e)
    BY <2>2, <2>3, <2>4, ScoreIs
  <2>6. Judged!TierRank(Judged!Tier(d)) <= Judged!TierRank(Judged!Tier(e))
    BY <2>2, <2>3, SaferIs
  <2> QED BY <2>5, <2>6 DEF e
<1> HIDE DEF d
<1>4. d \in Days
  BY <1>2 DEF Days
<1>5. d.tamper \in Int /\ d.av \in Int
  BY <1>4 DEF Days, Risky
<1>6. (d.tamper >= 1 => Judged!Tier(d) \in {"high", "critical"}) /\ (d.av >= 1 => Judged!Tier(d) = "critical")
  BY <1>4, <1>5, TierIs
<1>7. Judged!RiskScore(Judged!NoSignals(d)) <= Judged!RiskScore(d) /\ Judged!RiskScore(d) \in 0..100
  <2> DEFINE z == Judged!NoSignals(d)
  <2>1. z \in Days /\ \A n \in Risky : z[n] = 0
    BY <1>2 DEF Judged!NoSignals, Days
  <2> HIDE DEF z
  <2>2. Under(z, d)
    <3>1. Judged!NonNeg(0) = 0 /\ \A x \in Int : 0 <= Judged!NonNeg(x)
      BY DEF Judged!NonNeg
    <3> QED BY <1>2, <2>1, <3>1 DEF Under
  <2>3. Under(d, d)
    BY <1>4, UnderSelf
  <2> QED BY <1>4, <2>1, <2>2, <2>3, ScoreIs DEF z
<1> QED BY <1>3, <1>6, <1>7, Zenon DEF Judged!RiskRises, d

LEMMA DayIs == ASSUME Judged!JudgeAssumption, SignalsOK, topic = "day" PROVE Judged!DayTrue
<1> DEFINE d == Judged!Day
<1>1. Leveled(DayNames, DayLevels) /\ AtLevels(DayNames, DayLevels) /\ Judged!Levels = DayLevels
  BY LevelsAre DEF SignalsOK, Judged!Levels
<1>2. d \in DayRows /\ DOMAIN signals = DayNames
  BY <1>1, MoreIs DEF AtLevels, DayRows
<1>3. ASSUME NEW s \in DayNames, Judged!Rises(s)
      PROVE  /\ Judged!At(Judged!Next1(s)) \in DayRows
             /\ More(d, Judged!At(Judged!Next1(s)), s)
  <2> DEFINE e == Judged!At(Judged!Next1(s))
  <2>1. e \in [DayNames -> Int] /\ d[s] <= e[s] /\ \A n \in DayNames : n # s => e[n] = d[n]
    BY <1>1, <1>2, <1>3, MoreIs, Zenon
  <2> HIDE DEF e, d
  <2> QED BY <2>1 DEF DayRows, More, e
<1> HIDE DEF d
<1>4. \A s \in {"prod", "keys", "dist", "idle", "viols"} : s \in DayNames
  BY DEF DayNames
<1>5. \A s \in {"prod", "keys"} : Judged!Rises(s) =>
          Judged!Productivity(d) <= Judged!Productivity(Judged!At(Judged!Next1(s)))
  BY <1>2, <1>3, <1>4, HigherIs
<1>6. \A s \in {"dist", "idle", "viols"} : Judged!Rises(s) =>
          Judged!Productivity(Judged!At(Judged!Next1(s))) <= Judged!Productivity(d)
  BY <1>2, <1>3, <1>4, LowerIs
<1>7. \A s \in {"prod", "keys"} : Judged!Rises(s) =>
          Judged!Productivity(Judged!At(Judged!Next1(s))) >= Judged!Productivity(d)
  <2>1. \A s \in {"prod", "keys"} : Judged!Rises(s) => Judged!Productivity(Judged!At(Judged!Next1(s))) \in 0..100
    BY <1>3, <1>4, ReasonIs
  <2>2. Judged!Productivity(d) \in 0..100
    BY <1>2, ReasonIs
  <2> QED BY <1>5, <2>1, <2>2
<1>8. /\ Judged!Productivity(d) \in 0..100
      /\ Judged!PenaltyReason(d) # "" => Judged!Productivity(d) + Judged!Deducted(d) <= 100
      /\ Judged!Productivity(d) = 100 => Judged!PenaltyReason(d) = ""
  BY <1>2, ReasonIs
<1> QED BY <1>6, <1>7, <1>8, Zenon DEF Judged!DayTrue, d

LEMMA FirstDay == ASSUME Judged!JudgeAssumption, Judged!JudgeInit PROVE SignalsOK
<1>1. topic \in {"risk", "day"} => signals = [n \in DOMAIN Judged!Levels |-> 1]
  BY DEF Judged!JudgeInit
<1>2. ASSUME NEW S, NEW L, Leveled(S, L), Judged!Levels = L, topic \in {"risk", "day"} PROVE AtLevels(S, L)
  <2>1. DOMAIN signals = S /\ \A n \in S : signals[n] = 1
    BY <1>1, <1>2 DEF Leveled
  <2>2. \A n \in S : 1 \in 1..Len(L[n])
    BY <1>2 DEF Leveled
  <2> QED BY <2>1, <2>2 DEF AtLevels
<1>3. CASE topic = "risk"
  BY <1>2, <1>3, LevelsAre DEF SignalsOK, Judged!Levels
<1>4. CASE topic = "day"
  BY <1>2, <1>4, LevelsAre DEF SignalsOK, Judged!Levels
<1> QED BY <1>3, <1>4 DEF SignalsOK

LEMMA NextDay == ASSUME Judged!JudgeAssumption, SignalsOK, [Judged!JudgeNext]_Judged!judgeVars PROVE SignalsOK'
<1>1. (UNCHANGED <<topic, signals>>) => SignalsOK'
  BY DEF SignalsOK, AtLevels
<1>2. ASSUME NEW s \in DOMAIN signals, Judged!Signal(s) PROVE SignalsOK'
  <2>1. topic' = topic /\ signals' = [signals EXCEPT ![s] = @ + 1] /\ signals[s] < Len(Judged!Levels[s])
    BY <1>2 DEF Judged!Signal, Judged!Next1, Judged!Rises
  <2>2. ASSUME NEW S, NEW L, Leveled(S, L), Judged!Levels = L, AtLevels(S, L) PROVE AtLevels(S, L)'
    <3>1. DOMAIN signals = S /\ \A n \in S : signals[n] \in 1..Len(L[n])
      BY <2>2 DEF AtLevels
    <3>2. Len(L[s]) \in Nat /\ signals[s] < Len(L[s])
      BY <2>1, <2>2, <3>1 DEF Leveled
    <3>3. signals[s] + 1 \in 1..Len(L[s])
      BY <3>1, <3>2
    <3>4. DOMAIN signals' = S /\ signals'[s] = signals[s] + 1 /\ \A n \in S : n # s => signals'[n] = signals[n]
      BY <2>1, <3>1
    <3> QED BY <3>1, <3>3, <3>4 DEF AtLevels
  <2>3. CASE topic = "risk"
    <3>1. AtLevels(Risky, RiskLevels)
      BY <2>2, <2>3, LevelsAre DEF SignalsOK, Judged!Levels
    <3>2. AtLevels(Risky, RiskLevels)'
      BY <2>2, <2>3, LevelsAre DEF SignalsOK, Judged!Levels
    <3> QED BY <2>1, <2>3, <3>2 DEF SignalsOK
  <2>4. CASE topic = "day"
    <3>1. AtLevels(DayNames, DayLevels)'
      BY <2>2, <2>4, LevelsAre DEF SignalsOK, Judged!Levels
    <3> QED BY <2>1, <2>4, <3>1 DEF SignalsOK
  <2> QED BY <2>1, <2>3, <2>4 DEF SignalsOK
<1>3. ASSUME NEW severity, Judged!CreateIncident(severity) PROVE SignalsOK'
  BY <1>1, <1>3 DEF Judged!CreateIncident
<1>4. ASSUME NEW i, Judged!ResolveIncident(i) PROVE SignalsOK'
  BY <1>1, <1>4 DEF Judged!ResolveIncident
<1>5. CASE Judged!DayPasses
  BY <1>1, <1>5 DEF Judged!DayPasses
<1>6. ASSUME NEW reply, Judged!MLAnswers(reply) PROVE SignalsOK'
  BY <1>1, <1>6 DEF Judged!MLAnswers
<1>7. ASSUME NEW glob, Judged!PolicyAdds(glob) PROVE SignalsOK'
  BY <1>1, <1>7 DEF Judged!PolicyAdds
<1>8. CASE UNCHANGED Judged!judgeVars
  BY <1>1, <1>8 DEF Judged!judgeVars
<1> QED BY <1>2, <1>3, <1>4, <1>5, <1>6, <1>7, <1>8, Zenon DEF Judged!JudgeNext

-----------------------------------------------------------------------------
\* The factors in order: what sorting and trimming do to their sum.
Factor == [name : {"uba_anomaly", "dlp_blocked", "sensitive_file_access", "usb_transfers", "off_hours",
                   "tamper_findings", "av_deactivation"}, weight : Nat]
Falls(q) == \A i, j \in 1..Len(q) : i < j => q[i].weight >= q[j].weight
Weighs(p, q) == /\ p \in [0..Len(q) -> Int] /\ p[0] = 0
                /\ \A n \in 1..Len(q) : p[n] = p[n - 1] + q[n].weight
SortedTo(q, sum) == q \in Seq(Factor) /\ Falls(q) /\ \E p : Weighs(p, q) /\ p[Len(q)] = sum

LEMMA LastIs ==
    ASSUME NEW n \in Nat, NEW S \in SUBSET (0..n), S # {}
    PROVE  Judged!Max(S) \in S /\ \A y \in S : Judged!Max(S) >= y
<1> DEFINE T == {d \in 0..n : n - d \in S}
<1>1. T \in SUBSET Nat /\ T # {}
  <2>1. PICK x \in S : TRUE
    OBVIOUS
  <2>2. n - x \in 0..n /\ n - (n - x) = x
    BY <2>1
  <2>3. n - x \in T
    BY <2>2
  <2>4. T \in SUBSET Nat
    OBVIOUS
  <2> QED BY <2>3, <2>4, Zenon
<1>2. PICK t \in T : \A u \in T : t <= u
  <2> HIDE DEF T
  <2> QED BY <1>1, LeastIs
<1>3. n - t \in S
  OBVIOUS
<1>4. \A y \in S : n - t >= y
  <2> SUFFICES ASSUME NEW y \in S PROVE n - t >= y
    OBVIOUS
  <2>1. n - y \in 0..n /\ n - (n - y) = y
    OBVIOUS
  <2>2. n - y \in T
    BY <2>1
  <2>3. t <= n - y
    BY <1>2, <2>2
  <2> QED BY <2>1, <2>3
<1>5. \E x \in S : \A y \in S : x >= y
  BY <1>3, <1>4
<1> QED BY <1>5, Zenon DEF Judged!Max

\* The last place with a property, or 0.
LEMMA LastWith ==
    ASSUME NEW q \in Seq(Factor), NEW w \in Int
    PROVE  /\ LET k == Judged!SelectLastInSeq(q, LAMBDA g : g.weight >= w) IN
                /\ k \in 0..Len(q)
                /\ k # 0 => q[k].weight >= w
                /\ \A i \in 1..Len(q) : i > k => ~(q[i].weight >= w)
           /\ LET k == Judged!SelectLastInSeq(q, LAMBDA g : g.weight > w) IN
                /\ k \in 0..Len(q)
                /\ k # 0 => q[k].weight > w
                /\ \A i \in 1..Len(q) : i > k => ~(q[i].weight > w)
<1>0. Len(q) \in Nat
  BY LenProperties
<1>1. ASSUME NEW I \in SUBSET (1..Len(q)), NEW k, k = IF I # {} THEN Judged!Max(I) ELSE 0
      PROVE  k \in 0..Len(q) /\ (k # 0 => k \in I) /\ \A i \in 1..Len(q) : i > k => i \notin I
  <2>1. CASE I = {}
    BY <1>0, <1>1, <2>1
  <2>2. CASE I # {}
    <3>1. I \in SUBSET (0..Len(q))
      BY <1>0
    <3>2. k \in I /\ \A y \in I : k >= y
      BY <1>0, <1>1, <2>2, <3>1, LastIs
    <3>3. k \in 1..Len(q)
      BY <3>2
    <3> QED BY <1>0, <3>2, <3>3
  <2> QED BY <2>1, <2>2
<1> DEFINE I == {i \in 1..Len(q) : q[i].weight >= w}
<1> DEFINE k == Judged!SelectLastInSeq(q, LAMBDA g : g.weight >= w)
<1>2. k = IF I # {} THEN Judged!Max(I) ELSE 0
  BY DEF Judged!SelectLastInSeq
<1> DEFINE J == {i \in 1..Len(q) : q[i].weight > w}
<1> DEFINE l == Judged!SelectLastInSeq(q, LAMBDA g : g.weight > w)
<1>3. l = IF J # {} THEN Judged!Max(J) ELSE 0
  BY DEF Judged!SelectLastInSeq
<1>4. I \in SUBSET (1..Len(q)) /\ J \in SUBSET (1..Len(q))
  OBVIOUS
<1>5. k \in 0..Len(q) /\ (k # 0 => k \in I) /\ \A i \in 1..Len(q) : i > k => i \notin I
  <2> HIDE DEF I, k
  <2> QED BY <1>1, <1>2, <1>4
<1>6. l \in 0..Len(q) /\ (l # 0 => l \in J) /\ \A i \in 1..Len(q) : i > l => i \notin J
  <2> HIDE DEF J, l
  <2> QED BY <1>1, <1>3, <1>4
<1>7. /\ k \in 0..Len(q)
      /\ k # 0 => q[k].weight >= w
      /\ \A i \in 1..Len(q) : i > k => ~(q[i].weight >= w)
  <2> HIDE DEF k
  <2> QED BY <1>5
<1>8. /\ l \in 0..Len(q)
      /\ l # 0 => q[l].weight > w
      /\ \A i \in 1..Len(q) : i > l => ~(q[i].weight > w)
  <2> HIDE DEF l
  <2> QED BY <1>6
<1> QED BY <1>7, <1>8

LEMMA InsertIs ==
    ASSUME NEW q \in Seq(Factor), Falls(q), NEW f \in Factor, NEW p, Weighs(p, q)
    PROVE  SortedTo(Judged!Inserted(q, f), p[Len(q)] + f.weight)
<1> DEFINE N == Len(q)
<1> DEFINE k == Judged!SelectLastInSeq(q, LAMBDA g : g.weight >= f.weight)
<1> DEFINE r == Judged!Inserted(q, f)
<1>0. N \in Nat /\ f.weight \in Nat
  BY LenProperties DEF Factor
<1>1. \A i \in 1..N : q[i] \in Factor
  BY ElementOfSeq
<1>2. \A i \in 1..N : q[i].weight \in Nat
  BY <1>1 DEF Factor
<1>3. /\ k \in 0..N
      /\ k # 0 => q[k].weight >= f.weight
      /\ \A i \in 1..N : i > k => ~(q[i].weight >= f.weight)
  <2>1. f.weight \in Int
    BY <1>0
  <2> QED BY <2>1, LastWith, Zenon
<1>4. r = SubSeq(q, 1, (k + 1) - 1) \o <<f>> \o SubSeq(q, k + 1, N)
  BY DEF Judged!Inserted, Judged!InsertAt
<1> HIDE DEF k, r
<1>5. (k + 1) - 1 = k /\ k \in Int /\ k + 1 \in Int /\ N \in Int
  BY <1>0, <1>3
<1> DEFINE a == SubSeq(q, 1, k)
<1> DEFINE b == SubSeq(q, k + 1, N)
<1>6. /\ a \in Seq(Factor) /\ Len(a) = k /\ \A i \in 1..k : a[i] = q[i]
  <2>1. \A i \in 1..k : q[i] \in Factor
    BY <1>0, <1>1, <1>3
  <2>2. /\ a \in Seq(Factor) /\ Len(a) = (IF 1 <= k THEN k - 1 + 1 ELSE 0)
        /\ \A i \in 1..(k - 1 + 1) : a[i] = q[1 + i - 1]
    <3>1. 1 \in Int
      OBVIOUS
    <3> QED BY <1>5, <2>1, <3>1, SubSeqProperties
  <2> HIDE DEF a
  <2>3. \A i \in 1..k : 1 + i - 1 = i /\ i \in 1..(k - 1 + 1)
    BY <1>3
  <2> QED BY <1>0, <1>3, <2>2, <2>3
<1>7. /\ b \in Seq(Factor) /\ Len(b) = N - k /\ \A i \in 1..(N - k) : b[i] = q[k + i]
  <2> HIDE DEF a
  <2>1. \A i \in (k + 1)..N : q[i] \in Factor
    BY <1>0, <1>1, <1>3
  <2>2. /\ b \in Seq(Factor) /\ Len(b) = (IF k + 1 <= N THEN N - (k + 1) + 1 ELSE 0)
        /\ \A i \in 1..(N - (k + 1) + 1) : b[i] = q[k + 1 + i - 1]
    BY <1>5, <2>1, SubSeqProperties
  <2> HIDE DEF b
  <2>3. N - (k + 1) + 1 = N - k /\ (k + 1 <= N \/ N - k = 0) /\ \A i \in 1..(N - k) : k + 1 + i - 1 = k + i
    BY <1>0, <1>3
  <2> QED BY <1>0, <1>3, <2>2, <2>3
<1>8. <<f>> \in Seq(Factor) /\ Len(<<f>>) = 1 /\ <<f>>[1] = f
  OBVIOUS
<1>9. r = (a \o <<f>>) \o b
  BY <1>4, <1>5
<1> HIDE DEF a, b
<1>10. /\ a \o <<f>> \in Seq(Factor) /\ Len(a \o <<f>>) = k + 1
       /\ \A i \in 1..(k + 1) : (a \o <<f>>)[i] = IF i <= k THEN q[i] ELSE f
  <2>1. /\ a \o <<f>> \in Seq(Factor) /\ Len(a \o <<f>>) = Len(a) + Len(<<f>>)
        /\ \A i \in 1..(Len(a) + Len(<<f>>)) : (a \o <<f>>)[i] = IF i <= Len(a) THEN a[i] ELSE <<f>>[i - Len(a)]
    BY <1>6, <1>8, ConcatProperties, Zenon
  <2> DEFINE c == a \o <<f>>
  <2> HIDE DEF c
  <2>2. /\ c \in Seq(Factor) /\ Len(c) = k + 1
        /\ \A i \in 1..(k + 1) : c[i] = IF i <= k THEN a[i] ELSE <<f>>[i - k]
    BY <1>6, <1>8, <2>1 DEF c
  <2>3. \A i \in 1..(k + 1) : ~(i <= k) => i - k = 1
    BY <1>3
  <2>4. \A i \in 1..(k + 1) : c[i] = IF i <= k THEN q[i] ELSE f
    BY <1>3, <1>6, <1>8, <2>2, <2>3
  <2> QED BY <2>2, <2>4 DEF c
<1>11. /\ r \in Seq(Factor) /\ Len(r) = N + 1
       /\ \A i \in 1..(N + 1) : r[i] = IF i <= k THEN q[i] ELSE IF i = k + 1 THEN f ELSE q[i - 1]
  <2> DEFINE c == a \o <<f>>
  <2>0. /\ c \in Seq(Factor) /\ Len(c) = k + 1
        /\ \A i \in 1..(k + 1) : c[i] = IF i <= k THEN q[i] ELSE f
    BY <1>10
  <2>9. r = c \o b
    BY <1>9
  <2> HIDE DEF c
  <2>1. /\ c \o b \in Seq(Factor) /\ Len(c \o b) = Len(c) + Len(b)
        /\ \A i \in 1..(Len(c) + Len(b)) : (c \o b)[i] = IF i <= Len(c) THEN c[i] ELSE b[i - Len(c)]
    BY <1>7, <2>0, ConcatProperties, Zenon
  <2>2. Len(c) + Len(b) = N + 1
    BY <1>0, <1>3, <1>7, <2>0
  <2>3. r \in Seq(Factor) /\ Len(r) = N + 1
        /\ \A i \in 1..(N + 1) : r[i] = IF i <= k + 1 THEN c[i] ELSE b[i - (k + 1)]
    BY <2>0, <2>1, <2>2, <2>9
  <2>4. ASSUME NEW i \in 1..(N + 1), ~(i <= k + 1)
        PROVE  b[i - (k + 1)] = q[i - 1]
    <3>1. i - (k + 1) \in 1..(N - k) /\ k + (i - (k + 1)) = i - 1
      BY <1>0, <1>3, <2>4
    <3> QED BY <1>7, <3>1
  <2>5. ASSUME NEW i \in 1..(N + 1), i <= k + 1
        PROVE  c[i] = IF i <= k THEN q[i] ELSE f
    <3>1. i \in 1..(k + 1)
      BY <1>3, <2>5
    <3> QED BY <2>0, <3>1
  <2>6. ASSUME NEW i \in 1..(N + 1)
        PROVE  r[i] = IF i <= k THEN q[i] ELSE IF i = k + 1 THEN f ELSE q[i - 1]
    <3>1. CASE i <= k
      <4>1. i <= k + 1
        BY <1>3, <3>1
      <4> QED BY <2>3, <2>5, <3>1, <4>1
    <3>2. CASE i = k + 1
      <4>1. i <= k + 1 /\ ~(i <= k)
        BY <1>3, <3>2
      <4> QED BY <2>3, <2>5, <3>2, <4>1
    <3>3. CASE i > k + 1
      <4>1. ~(i <= k + 1) /\ ~(i <= k) /\ i # k + 1
        BY <1>3, <3>3
      <4> QED BY <2>3, <2>4, <4>1
    <3> QED BY <1>3, <3>1, <3>2, <3>3
  <2> QED BY <2>3, <2>6
<1> DEFINE w == [i \in 1..(N + 1) |-> r[i].weight]
<1>12. \A i \in 1..(N + 1) : w[i] = IF i <= k THEN q[i].weight ELSE IF i = k + 1 THEN f.weight ELSE q[i - 1].weight
  BY <1>11
<1>13. \A i \in 1..(N + 1) : r[i].weight = w[i]
  OBVIOUS
<1> DEFINE v == [i \in 1..N |-> q[i].weight]
<1>14. /\ \A i \in 1..N : q[i].weight = v[i] /\ v[i] \in Nat
       /\ \A i, j \in 1..N : i < j => v[i] >= v[j]
       /\ k # 0 => v[k] >= f.weight
       /\ \A i \in 1..N : i > k => ~(v[i] >= f.weight)
       /\ \A i \in 1..(N + 1) : w[i] = IF i <= k THEN v[i] ELSE IF i = k + 1 THEN f.weight ELSE v[i - 1]
  <2>1. \A i \in 1..(N + 1) : (i <= k => i \in 1..N) /\ (~(i <= k) /\ i # k + 1 => i - 1 \in 1..N)
    BY <1>0, <1>3
  <2>2. \A i \in 1..N : q[i].weight = v[i] /\ v[i] \in Nat
    BY <1>2
  <2>3. \A i, j \in 1..N : i < j => v[i] >= v[j]
    BY DEF Falls
  <2>4. k # 0 => k \in 1..N
    BY <1>0, <1>3
  <2> HIDE DEF v, w
  <2> QED BY <1>3, <1>12, <2>1, <2>2, <2>3, <2>4
<1> HIDE DEF v, w
<1> DEFINE W == f.weight
<1>W. W \in Nat /\ W = f.weight
  BY <1>0
<1>15. /\ k # 0 => v[k] >= W
       /\ \A i \in 1..N : i > k => ~(v[i] >= W)
       /\ \A i \in 1..(N + 1) : w[i] = IF i <= k THEN v[i] ELSE IF i = k + 1 THEN W ELSE v[i - 1]
  BY <1>14
<1> HIDE DEF W
<1>16. Falls(r)
  <2>1. \A i \in 1..N : (i <= k => v[i] >= W) /\ (i > k => W >= v[i])
    <3> SUFFICES ASSUME NEW i \in 1..N PROVE (i <= k => v[i] >= W) /\ (i > k => W >= v[i])
      OBVIOUS
    <3>1. v[i] \in Nat
      BY <1>14
    <3>2. i > k => W >= v[i]
      BY <1>W, <1>15, <3>1
    <3>3. ASSUME i <= k PROVE v[i] >= W
      <4>1. k \in 1..N /\ k # 0 /\ v[k] \in Nat
        BY <1>0, <1>3, <1>14, <3>3
      <4>2. v[i] >= v[k]
        <5>1. i = k \/ i < k
          BY <1>3, <3>3
        <5> QED BY <1>14, <3>1, <4>1, <5>1
      <4> QED BY <1>W, <1>15, <3>1, <4>1, <4>2
    <3> QED BY <3>2, <3>3
  <2>2. ASSUME NEW i \in 1..(N + 1), NEW j \in 1..(N + 1), i < j PROVE w[i] >= w[j]
    <3>1. CASE j <= k
      <4>1. i \in 1..N /\ j \in 1..N /\ i <= k
        BY <1>0, <1>3, <2>2, <3>1
      <4>2. w[i] = v[i] /\ w[j] = v[j] /\ v[i] >= v[j]
        BY <1>14, <1>15, <2>2, <3>1, <4>1
      <4> QED BY <4>2
    <3>2. CASE j = k + 1
      <4>1. i \in 1..N /\ i <= k /\ ~(j <= k)
        BY <1>0, <1>3, <2>2, <3>2
      <4>2. w[i] = v[i] /\ w[j] = W
        BY <1>15, <3>2, <4>1
      <4> QED BY <2>1, <4>1, <4>2
    <3>3. CASE j > k + 1 /\ i <= k
      <4>1. i \in 1..N /\ j - 1 \in 1..N /\ i < j - 1 /\ ~(j <= k) /\ j # k + 1
        BY <1>0, <1>3, <2>2, <3>3
      <4>2. w[i] = v[i] /\ w[j] = v[j - 1] /\ v[i] >= v[j - 1]
        BY <1>14, <1>15, <3>3, <4>1
      <4> QED BY <4>2
    <3>4. CASE j > k + 1 /\ i = k + 1
      <4>1. j - 1 \in 1..N /\ j - 1 > k /\ ~(j <= k) /\ j # k + 1 /\ ~(i <= k)
        BY <1>0, <1>3, <2>2, <3>4
      <4>2. w[i] = W /\ w[j] = v[j - 1]
        BY <1>15, <3>4, <4>1
      <4> QED BY <2>1, <4>1, <4>2
    <3>5. CASE j > k + 1 /\ i > k + 1
      <4>1. i - 1 \in 1..N /\ j - 1 \in 1..N /\ i - 1 < j - 1 /\ ~(j <= k) /\ j # k + 1 /\ ~(i <= k) /\ i # k + 1
        BY <1>0, <1>3, <2>2, <3>5
      <4>2. w[i] = v[i - 1] /\ w[j] = v[j - 1] /\ v[i - 1] >= v[j - 1]
        BY <1>14, <1>15, <4>1
      <4> QED BY <4>2
    <3>6. j <= k \/ j = k + 1 \/ j > k + 1
      BY <1>3
    <3>7. i <= k \/ i = k + 1 \/ i > k + 1
      BY <1>3
    <3> QED BY <3>1, <3>2, <3>3, <3>4, <3>5, <3>6, <3>7
  <2> QED BY <1>11, <1>13, <2>2 DEF Falls
<1> DEFINE g == [n \in 0..(N + 1) |-> IF n <= k THEN p[n] ELSE p[n - 1] + W]
<1>17. /\ p \in [0..N -> Int] /\ p[0] = 0 /\ \A n \in 1..N : p[n] = p[n - 1] + v[n]
  BY <1>14 DEF Weighs
<1>18. \A n \in 0..(N + 1) : (n <= k => p[n] \in Int) /\ (~(n <= k) => n - 1 \in 0..N /\ p[n - 1] \in Int)
  <2> SUFFICES ASSUME NEW n \in 0..(N + 1)
               PROVE  (n <= k => p[n] \in Int) /\ (~(n <= k) => n - 1 \in 0..N /\ p[n - 1] \in Int)
    OBVIOUS
  <2>1. (n <= k => n \in 0..N) /\ (~(n <= k) => n - 1 \in 0..N)
    BY <1>0, <1>3
  <2> QED BY <1>17, <2>1
<1>19. g \in [0..(N + 1) -> Int] /\ g[0] = 0 /\ g[N + 1] = p[N] + W
  <2>1. 0 \in 0..(N + 1) /\ 0 <= k /\ N + 1 \in 0..(N + 1) /\ ~(N + 1 <= k) /\ N + 1 - 1 = N
    BY <1>0, <1>3
  <2> QED BY <1>W, <1>17, <1>18, <2>1
<1>20. \A n \in 1..(N + 1) : g[n] = g[n - 1] + w[n]
  <2> SUFFICES ASSUME NEW n \in 1..(N + 1) PROVE g[n] = g[n - 1] + w[n]
    OBVIOUS
  <2>1. n \in 0..(N + 1) /\ n - 1 \in 0..(N + 1)
    BY <1>0
  <2>2. /\ g[n] = (IF n <= k THEN p[n] ELSE p[n - 1] + W)
        /\ g[n - 1] = (IF n - 1 <= k THEN p[n - 1] ELSE p[n - 1 - 1] + W)
    BY <2>1
  <2> HIDE DEF g
  <2>3. CASE n <= k
    <3>1. n \in 1..N /\ n - 1 <= k
      BY <1>0, <1>3, <2>3
    <3>2. w[n] = v[n] /\ p[n] = p[n - 1] + v[n]
      BY <1>15, <1>17, <2>3, <3>1
    <3> QED BY <2>2, <2>3, <3>1, <3>2
  <2>4. CASE n = k + 1
    <3>1. ~(n <= k) /\ n - 1 <= k
      BY <1>3, <2>4
    <3>2. w[n] = W
      BY <1>15, <2>4, <3>1
    <3> QED BY <2>2, <3>1, <3>2
  <2>5. CASE n > k + 1
    <3>1. ~(n <= k) /\ ~(n - 1 <= k) /\ n # k + 1 /\ n - 1 \in 1..N
      BY <1>0, <1>3, <2>5
    <3>2. w[n] = v[n - 1] /\ p[n - 1] = p[n - 1 - 1] + v[n - 1]
      BY <1>15, <1>17, <3>1
    <3>3. n - 1 - 1 \in 0..N /\ p[n - 1 - 1] \in Int /\ v[n - 1] \in Int
      BY <1>0, <1>14, <1>17, <3>1
    <3> QED BY <1>W, <2>2, <3>1, <3>2, <3>3
  <2>6. n <= k \/ n = k + 1 \/ n > k + 1
    BY <1>3
  <2> QED BY <2>3, <2>4, <2>5, <2>6
<1> HIDE DEF g
<1>21. Weighs(g, r) /\ g[Len(r)] = p[Len(q)] + f.weight
  BY <1>W, <1>11, <1>13, <1>19, <1>20 DEF Weighs
<1> QED BY <1>11, <1>16, <1>21 DEF SortedTo, r

LEMMA SortedIs ==
    ASSUME NEW c \in Seq(Factor), NEW p, Weighs(p, c)
    PROVE  SortedTo(Judged!Sorted(c), p[Len(c)])
<1> DEFINE N == Len(c)
<1>0. N \in Nat
  BY LenProperties
<1> DEFINE Goes(g, n) == g[n] = IF n = 0 THEN <<>> ELSE Judged!Inserted(g[n - 1], c[n])
<1> DEFINE Upto(g, k) == DOMAIN g = 0..k /\ \A n \in 0..k : Goes(g, n)
<1>1. \A k \in 0..N : \E g : Upto(g, k)
  <2> DEFINE S == {k \in 0..N : ~ \E g : Upto(g, k)}
  <2> SUFFICES ASSUME S # {} PROVE FALSE
    OBVIOUS
  <2>1. S \in SUBSET Nat
    BY <1>0
  <2>2. PICK k \in S : \A u \in S : k <= u
    <3> HIDE DEF S
    <3> QED BY <2>1, LeastIs
  <2>3. k \in 0..N /\ ~ \E g : Upto(g, k)
    OBVIOUS
  <2>4. CASE k = 0
    <3>1. Upto([i \in 0..0 |-> <<>>], 0)
      OBVIOUS
    <3> QED BY <2>3, <2>4, <3>1
  <2>5. CASE k # 0
    <3>1. k - 1 \in 0..N /\ ~(k <= k - 1) /\ k - 1 \in 0..(k - 1)
      BY <1>0, <2>3, <2>5
    <3>2. PICK g : Upto(g, k - 1)
      BY <2>2, <3>1
    <3> DEFINE h == [i \in 0..k |-> IF i = k THEN Judged!Inserted(g[k - 1], c[k]) ELSE g[i]]
    <3>3. ASSUME NEW n \in 0..k PROVE Goes(h, n)
      <4>1. CASE n = k
        <5>1. k - 1 \in 0..k /\ k - 1 # k /\ k \in 0..k
          BY <2>3, <2>5
        <5>2. h[k - 1] = g[k - 1] /\ h[k] = Judged!Inserted(g[k - 1], c[k])
          BY <5>1
        <5> HIDE DEF h
        <5> QED BY <2>5, <4>1, <5>2
      <4>2. CASE n # k
        <5>1. n \in 0..(k - 1) /\ (n # 0 => n - 1 \in 0..k /\ n - 1 # k)
          BY <2>3, <4>2
        <5>2. h[n] = g[n] /\ (n # 0 => h[n - 1] = g[n - 1])
          BY <4>2, <5>1
        <5>3. Goes(g, n)
          BY <3>2, <5>1
        <5> HIDE DEF h
        <5> QED BY <5>2, <5>3
      <4> QED BY <4>1, <4>2
    <3>4. Upto(h, k)
      <4>1. DOMAIN h = 0..k
        OBVIOUS
      <4> HIDE DEF h, Goes
      <4> QED BY <3>3, <4>1
    <3> HIDE DEF h, Upto
    <3> QED BY <2>3, <3>4
  <2> QED BY <2>4, <2>5
<1> DEFINE R(f) == f = [n \in 0..N |-> IF n = 0 THEN <<>> ELSE Judged!Inserted(f[n - 1], c[n])]
           r == CHOOSE f : R(f)
<1>2. \E f : R(f)
  <2>1. N \in 0..N
    BY <1>0
  <2>2. PICK g : Upto(g, N)
    <3> HIDE DEF Upto
    <3> QED BY <1>1, <2>1
  <2> DEFINE h == [n \in 0..N |-> g[n]]
  <2>3. \A n \in 0..N : h[n] = IF n = 0 THEN <<>> ELSE Judged!Inserted(h[n - 1], c[n])
    <3> SUFFICES ASSUME NEW n \in 0..N PROVE h[n] = IF n = 0 THEN <<>> ELSE Judged!Inserted(h[n - 1], c[n])
      OBVIOUS
    <3>1. n # 0 => n - 1 \in 0..N
      BY <1>0
    <3>2. h[n] = g[n] /\ (n # 0 => h[n - 1] = g[n - 1])
      BY <3>1
    <3> HIDE DEF h
    <3> QED BY <2>2, <3>2
  <2>4. h = [n \in 0..N |-> IF n = 0 THEN <<>> ELSE Judged!Inserted(h[n - 1], c[n])]
    <3>1. h = [n \in 0..N |-> h[n]]
      OBVIOUS
    <3> HIDE DEF h
    <3> QED BY <2>3, <3>1
  <2> HIDE DEF h
  <2> QED BY <2>4
<1>3. R(r)
  <2> HIDE DEF R
  <2> QED BY <1>2
<1>4. Judged!Sorted(c) = r[N]
  BY DEF Judged!Sorted
<1>5. \A n \in 0..N : r[n] = IF n = 0 THEN <<>> ELSE Judged!Inserted(r[n - 1], c[n])
  <2> HIDE DEF r
  <2> QED BY <1>3, Zenon
<1> HIDE DEF r, R, Upto, Goes
<1>6. /\ p \in [0..N -> Int] /\ p[0] = 0 /\ \A n \in 1..N : p[n] = p[n - 1] + c[n].weight
  BY DEF Weighs
<1>7. \A n \in 0..N : SortedTo(r[n], p[n])
  <2> DEFINE S == {n \in 0..N : ~ SortedTo(r[n], p[n])}
  <2> SUFFICES ASSUME S # {} PROVE FALSE
    OBVIOUS
  <2>1. S \in SUBSET Nat
    BY <1>0
  <2>2. PICK k \in S : \A u \in S : k <= u
    <3> HIDE DEF S
    <3> QED BY <2>1, LeastIs
  <2>3. k \in 0..N /\ ~ SortedTo(r[k], p[k])
    OBVIOUS
  <2>4. CASE k = 0
    <3>1. r[k] = <<>> /\ p[k] = 0
      BY <1>5, <1>6, <2>3, <2>4
    <3>2. <<>> \in Seq(Factor) /\ Len(<<>>) = 0
      BY EmptySeq
    <3>3. Falls(<<>>)
      BY <3>2 DEF Falls
    <3>4. Weighs([i \in 0..0 |-> 0], <<>>) /\ [i \in 0..0 |-> 0][Len(<<>>)] = 0
      BY <3>2 DEF Weighs
    <3>5. SortedTo(<<>>, 0)
      BY <3>2, <3>3, <3>4, Zenon DEF SortedTo
    <3> QED BY <2>3, <3>1, <3>5
  <2>5. CASE k # 0
    <3>1. k - 1 \in 0..N /\ ~(k <= k - 1) /\ k \in 1..N
      BY <1>0, <2>3, <2>5
    <3>2. SortedTo(r[k - 1], p[k - 1])
      BY <2>2, <3>1
    <3> DEFINE q == r[k - 1]
    <3>3. q \in Seq(Factor) /\ Falls(q)
      BY <3>2 DEF SortedTo
    <3>4. PICK o : Weighs(o, q) /\ o[Len(q)] = p[k - 1]
      BY <3>2 DEF SortedTo
    <3>5. c[k] \in Factor
      BY <3>1, ElementOfSeq
    <3>6. r[k] = Judged!Inserted(q, c[k])
      BY <1>5, <2>3, <2>5
    <3> HIDE DEF q
    <3>7. SortedTo(r[k], o[Len(q)] + c[k].weight)
      BY <3>3, <3>4, <3>5, <3>6, InsertIs
    <3>8. p[k] = o[Len(q)] + c[k].weight
      BY <1>6, <3>1, <3>4
    <3> QED BY <2>3, <3>7, <3>8
  <2> QED BY <2>4, <2>5
<1>8. N \in 0..N
  BY <1>0
<1> QED BY <1>4, <1>7, <1>8

\* What is not shown weighs nothing.
LEMMA TrimIs ==
    ASSUME NEW q, NEW sum, SortedTo(q, sum)
    PROVE  SortedTo(SubSeq(q, 1, Judged!SelectLastInSeq(q, LAMBDA f : f.weight > 0)), sum)
<1> DEFINE N == Len(q)
<1> DEFINE k == Judged!SelectLastInSeq(q, LAMBDA f : f.weight > 0)
<1>1. q \in Seq(Factor) /\ Falls(q)
  BY DEF SortedTo
<1>2. PICK p : Weighs(p, q) /\ p[N] = sum
  BY DEF SortedTo
<1>3. N \in Nat /\ \A i \in 1..N : q[i] \in Factor /\ q[i].weight \in Nat
  <2>1. N \in Nat /\ \A i \in 1..N : q[i] \in Factor
    BY <1>1, LenProperties, ElementOfSeq
  <2>2. \A f \in Factor : f.weight \in Nat
    BY DEF Factor
  <2> QED BY <2>1, <2>2
<1>4. k \in 0..N /\ \A i \in 1..N : i > k => ~(q[i].weight > 0)
  <2>1. 0 \in Int
    OBVIOUS
  <2> QED BY <1>1, <2>1, LastWith, Zenon
<1> HIDE DEF k
<1> DEFINE t == SubSeq(q, 1, k)
<1>5. t \in Seq(Factor) /\ Len(t) = k /\ \A i \in 1..k : t[i] = q[i]
  <2>1. \A i \in 1..k : q[i] \in Factor
    BY <1>3, <1>4
  <2>2. /\ t \in Seq(Factor) /\ Len(t) = (IF 1 <= k THEN k - 1 + 1 ELSE 0)
        /\ \A i \in 1..(k - 1 + 1) : t[i] = q[1 + i - 1]
    <3>1. 1 \in Int /\ k \in Int
      BY <1>4
    <3> QED BY <2>1, <3>1, SubSeqProperties
  <2> HIDE DEF t
  <2>3. \A i \in 1..k : 1 + i - 1 = i /\ i \in 1..(k - 1 + 1)
    BY <1>4
  <2> QED BY <1>4, <2>2, <2>3
<1> HIDE DEF t
<1>6. Falls(t)
  <2>1. 1..k \subseteq 1..N
    BY <1>3, <1>4
  <2> QED BY <1>1, <1>5, <2>1 DEF Falls
<1>7. /\ p \in [0..N -> Int] /\ p[0] = 0 /\ \A n \in 1..N : p[n] = p[n - 1] + q[n].weight
  BY <1>2 DEF Weighs
<1> DEFINE o == [n \in 0..k |-> p[n]]
<1>8. Weighs(o, t)
  <2>1. \A n \in 0..k : n \in 0..N
    BY <1>3, <1>4
  <2>2. o \in [0..k -> Int] /\ o[0] = 0
    BY <1>4, <1>7, <2>1
  <2>3. ASSUME NEW n \in 1..k PROVE o[n] = o[n - 1] + t[n].weight
    <3>1. n \in 0..k /\ n - 1 \in 0..k /\ n \in 1..N
      BY <1>3, <1>4
    <3> QED BY <1>5, <1>7, <3>1
  <2> HIDE DEF o
  <2> QED BY <1>5, <2>2, <2>3 DEF Weighs
<1>9. o[k] = p[k]
  BY <1>4
<1> HIDE DEF o
<1>10. \A n \in k..N : p[n] = p[k]
  <2> DEFINE S == {n \in k..N : p[n] # p[k]}
  <2> SUFFICES ASSUME S # {} PROVE FALSE
    OBVIOUS
  <2>1. S \in SUBSET Nat
    BY <1>3, <1>4
  <2>2. PICK n \in S : \A u \in S : n <= u
    <3> HIDE DEF S
    <3> QED BY <2>1, LeastIs
  <2>3. n \in k..N /\ p[n] # p[k] /\ n # k
    OBVIOUS
  <2>4. n - 1 \in k..N /\ ~(n <= n - 1) /\ n \in 1..N /\ n > k
    BY <1>3, <1>4, <2>3
  <2>5. p[n - 1] = p[k]
    BY <2>2, <2>4
  <2>6. q[n].weight \in Nat /\ ~(q[n].weight > 0)
    BY <1>3, <1>4, <2>4
  <2>7. p[k] \in Int
    BY <1>3, <1>4, <1>7
  <2>8. p[n] = p[n - 1] + q[n].weight
    BY <1>7, <2>4
  <2>9. q[n].weight = 0
    BY <2>6
  <2> QED BY <2>3, <2>5, <2>7, <2>8, <2>9
<1>11. o[Len(t)] = sum
  <2>1. N \in k..N
    BY <1>3, <1>4
  <2> QED BY <1>2, <1>5, <1>9, <1>10, <2>1
<1> QED BY <1>5, <1>6, <1>8, <1>11, Zenon DEF SortedTo, t, k

LEMMA WeightIs ==
    ASSUME NEW q \in Seq(Factor)
    PROVE  /\ \E p : Weighs(p, q)
           /\ \A p : Weighs(p, q) => Judged!Total(q) = p[Len(q)]
<1> DEFINE w == [i \in DOMAIN q |-> q[i].weight]
<1>0. Len(q) \in Nat /\ DOMAIN q = 1..Len(q) /\ \A i \in 1..Len(q) : q[i] \in Factor
  BY LenProperties, ElementOfSeq
<1>1. \A i \in 1..Len(q) : q[i].weight \in Int
  BY <1>0 DEF Factor
<1>2. w \in [1..Len(q) -> Int] /\ \A i \in 1..Len(q) : w[i] = q[i].weight
  BY <1>0, <1>1
<1>3. Judged!Total(q) = Judged!SumOf(w)
  BY Zenon DEF Judged!Total
<1> HIDE DEF w
<1>4. w \in Seq(Int)
  BY <1>0, <1>2, SeqDef
<1>5. Len(w) = Len(q)
  <2>1. Len(w) \in Nat /\ 1..Len(w) = 1..Len(q)
    BY <1>2, <1>4, LenProperties
  <2> DEFINE a == Len(w)
  <2> DEFINE b == Len(q)
  <2>2. a \in Nat /\ b \in Nat /\ 1..a = 1..b
    BY <1>0, <2>1
  <2> HIDE DEF a, b
  <2>3. a <= b
    <3>1. a = 0 \/ a \in 1..a
      BY <2>2
    <3>2. a \in 1..a => a \in 1..b
      BY <2>2
    <3> QED BY <2>2, <3>1, <3>2
  <2>4. b <= a
    <3>1. b = 0 \/ b \in 1..b
      BY <2>2
    <3>2. b \in 1..b => b \in 1..a
      BY <2>2
    <3> QED BY <2>2, <3>1, <3>2
  <2>5. a = b
    BY <2>2, <2>3, <2>4
  <2> QED BY <2>5 DEF a, b
<1>6. PICK f : Partial(f, w) /\ Judged!SumOf(w) = f[Len(w)]
  BY <1>4, SumIs
<1>7. Weighs(f, q) /\ Judged!Total(q) = f[Len(q)]
  BY <1>2, <1>3, <1>5, <1>6 DEF Partial, Weighs
<1>8. ASSUME NEW p, Weighs(p, q) PROVE p[Len(q)] = f[Len(q)]
  <2> DEFINE N == Len(q)
  <2> DEFINE T == {n \in 0..N : p[n] # f[n]}
  <2>0. /\ p[0] = 0 /\ \A n \in 1..N : p[n] = p[n - 1] + q[n].weight
        /\ f[0] = 0 /\ \A n \in 1..N : f[n] = f[n - 1] + q[n].weight
    BY <1>7, <1>8 DEF Weighs
  <2>1. T = {}
    <3> SUFFICES ASSUME T # {} PROVE FALSE
      OBVIOUS
    <3>1. T \in SUBSET Nat
      BY <1>0
    <3>2. PICK n \in T : \A u \in T : n <= u
      <4> HIDE DEF T
      <4> QED BY <3>1, LeastIs
    <3>3. n \in 0..N /\ p[n] # f[n] /\ n # 0
      BY <2>0
    <3>4. n - 1 \in 0..N /\ ~(n <= n - 1) /\ n \in 1..N
      BY <1>0, <3>3
    <3>5. p[n - 1] = f[n - 1]
      BY <3>2, <3>4
    <3> QED BY <2>0, <3>3, <3>4, <3>5
  <2>2. N \in 0..N
    BY <1>0
  <2> QED BY <2>1, <2>2
<1> QED BY <1>7, <1>8

LEMMA FactorsAre == ASSUME NEW s \in Days
    PROVE Judged!Contributions(s) \in Seq(Factor) /\ Judged!Total(Judged!Contributions(s)) \in Nat
<1> DEFINE c == Judged!Contributions(s)
<1>1. DOMAIN c = 1..7 /\ c = [i \in 1..7 |-> c[i]]
  BY DEF Judged!Contributions
<1>2. /\ Shared(30, s.uba) \in Nat /\ Capped(5, 30, s.dlp) \in Nat /\ Capped(3, 20, s.sens) \in Nat
      /\ Capped(5, 20, s.usb) \in Nat /\ Shared(20, s.off) \in Nat /\ Capped(10, 30, s.tamper) \in Nat
      /\ Capped(20, 40, s.av) \in Nat
  <2>1. Under(s, s)
    BY UnderSelf
  <2>2. \A a, b : Rising(a, b) => a \in Nat
    BY DEF Rising
  <2> QED BY <2>1, <2>2, CostsGrow
<1>3. /\ c[1] = [name |-> "uba_anomaly", weight |-> Shared(30, s.uba)]
      /\ c[2] = [name |-> "dlp_blocked", weight |-> Capped(5, 30, s.dlp)]
      /\ c[3] = [name |-> "sensitive_file_access", weight |-> Capped(3, 20, s.sens)]
      /\ c[4] = [name |-> "usb_transfers", weight |-> Capped(5, 20, s.usb)]
      /\ c[5] = [name |-> "off_hours", weight |-> Shared(20, s.off)]
      /\ c[6] = [name |-> "tamper_findings", weight |-> Capped(10, 30, s.tamper)]
      /\ c[7] = [name |-> "av_deactivation", weight |-> Capped(20, 40, s.av)]
  BY DEF Judged!Contributions, Shared, Capped
<1> HIDE DEF c
<1>4. /\ c[1] \in Factor /\ c[2] \in Factor /\ c[3] \in Factor /\ c[4] \in Factor
      /\ c[5] \in Factor /\ c[6] \in Factor /\ c[7] \in Factor
  BY <1>2, <1>3 DEF Factor
<1>5. \A i \in 1..7 : c[i] \in Factor
  <2>1. \A i \in 1..7 : i = 1 \/ i = 2 \/ i = 3 \/ i = 4 \/ i = 5 \/ i = 6 \/ i = 7
    OBVIOUS
  <2> QED BY <1>4, <2>1, Zenon
<1>6. c \in [1..7 -> Factor]
  BY <1>1, <1>5
<1>7. c \in Seq(Factor)
  <2>1. 7 \in Nat
    OBVIOUS
  <2> QED BY <1>6, <2>1, SeqDef
<1>8. Judged!Total(c) \in Nat
  <2>1. Judged!Total(c) = Cost(s)
    BY TotalIs DEF c
  <2>2. Cost(s) \in Nat
    BY <1>2 DEF Cost
  <2> QED BY <2>1, <2>2
<1> QED BY <1>7, <1>8 DEF c

LEMMA OrderIs == ASSUME Judged!JudgeAssumption, SignalsOK, topic = "risk" PROVE Judged!FactorsTrue
<1> DEFINE d == Judged!Day
<1> DEFINE c == Judged!Contributions(d)
<1> DEFINE t == Judged!TopFactors(d)
<1>1. Leveled(Risky, RiskLevels) /\ AtLevels(Risky, RiskLevels) /\ Judged!Levels = RiskLevels
  BY LevelsAre DEF SignalsOK, Judged!Levels
<1>2. d \in Days
  BY <1>1, MoreIs DEF Days
<1> HIDE DEF d
<1>3. c \in Seq(Factor) /\ Judged!Total(c) \in Nat
  BY <1>2, FactorsAre
<1>4. PICK p : Weighs(p, c)
  BY <1>3, WeightIs
<1>5. p[Len(c)] = Judged!Total(c)
  BY <1>3, <1>4, WeightIs
<1>6. SortedTo(Judged!Sorted(c), Judged!Total(c))
  <2> HIDE DEF c
  <2> QED BY <1>3, <1>4, <1>5, SortedIs
<1>7. t = SubSeq(Judged!Sorted(c), 1, Judged!SelectLastInSeq(Judged!Sorted(c), LAMBDA f : f.weight > 0))
  BY DEF Judged!TopFactors
<1>8. SortedTo(t, Judged!Total(c))
  <2> DEFINE q == Judged!Sorted(c)
  <2> DEFINE sum == Judged!Total(c)
  <2>1. SortedTo(q, sum) /\ t = SubSeq(q, 1, Judged!SelectLastInSeq(q, LAMBDA f : f.weight > 0))
    BY <1>6, <1>7
  <2> HIDE DEF q, sum, t
  <2>2. SortedTo(t, sum)
    BY <2>1, TrimIs
  <2> QED BY <2>2 DEF sum
<1> HIDE DEF t
<1>9. t \in Seq(Factor) /\ Falls(t)
  BY <1>8 DEF SortedTo
<1>10. Judged!Total(t) = Judged!Total(c)
  <2>1. PICK o : Weighs(o, t) /\ o[Len(t)] = Judged!Total(c)
    BY <1>8 DEF SortedTo
  <2> QED BY <1>9, <2>1, WeightIs
<1>11. \A i, j \in DOMAIN t : i < j => t[i].weight >= t[j].weight
  <2>1. DOMAIN t = 1..Len(t)
    BY <1>9, LenProperties
  <2> QED BY <1>9, <2>1 DEF Falls
<1>12. Judged!RiskScore(d) < 100 => 100 * Judged!RiskScore(d) - Judged!Total(t) \in -49..50
  <2> DEFINE T == Judged!Total(c)
  <2>1. Judged!RiskScore(d) = (Judged!Least(T, 10000) + 50) \div 100
    BY DEF Judged!RiskScore
  <2>2. T \in Nat /\ Judged!Total(t) = T
    BY <1>3, <1>10
  <2> HIDE DEF T
  <2>3. Judged!Least(T, 10000) = IF T < 10000 THEN T ELSE 10000
    BY DEF Judged!Least
  <2>4. CASE T < 10000
    <3> DEFINE r == (T + 50) \div 100
    <3>1. Judged!RiskScore(d) = r
      BY <2>1, <2>3, <2>4
    <3>2. r \in Int /\ 100 * r <= T + 50 /\ T + 50 < 100 * r + 100
      BY <2>2
    <3> HIDE DEF r
    <3>3. 100 * r - T \in -49..50
      BY <2>2, <3>2
    <3> QED BY <2>2, <3>1, <3>3
  <2>5. CASE ~(T < 10000)
    <3>1. (10000 + 50) \div 100 = 100
      OBVIOUS
    <3> QED BY <2>1, <2>3, <2>5, <3>1
  <2> QED BY <2>4, <2>5
<1> QED BY <1>11, <1>12 DEF Judged!FactorsTrue, d, t

\* What the program concludes from what it let in: a signal more never makes a day look
\* safer, the floors hold, the factors shown are in order and make up the whole score
\* (ComputeRisk); work never lowers a day's productivity, distraction never raises it, and
\* no penalty is hidden (ComputeProductivity); the uptime leaves out no day of a resolved
\* serious incident (sevenDayUptime); a category is sure, or a guess from a part of a name
\* (Classify); only a public address no other slot hides is located (extractPayloadIP); and
\* the matcher means what a glob means (globMatch, ApplySensitivity): for any window, any
\* levels of the signals in order, any globs and any hosts.
THEOREM JudgementsHold ==
    ASSUME Judged!JudgeAssumption
    PROVE  Judged!JudgeSpec => []Judged!JudgementsTrue
<1> DEFINE Inv == UpOK /\ EventOK /\ SignalsOK
<1>1. Judged!JudgeInit => Inv
  <2> SUFFICES ASSUME Judged!JudgeInit PROVE Inv
    OBVIOUS
  <2>1. today = 0 /\ incidents = <<>>
    BY Zenon DEF Judged!JudgeInit
  <2>2. UpOK
    BY <2>1 DEF UpOK
  <2> QED BY <2>2, FirstEvent, FirstDay
<1>2. Inv /\ [Judged!JudgeNext]_Judged!judgeVars => Inv'
  BY NextUp, NextEvent, NextDay
<1>3. Inv => Judged!JudgementsTrue
  BY UptimeIs, RiskIs, OrderIs, DayIs, ActivityIs, PeerIs, HostIs DEF EventOK, Judged!JudgementsTrue
<1> HIDE DEF Inv
<1> QED BY <1>1, <1>2, <1>3, PTL DEF Judged!JudgeSpec
=============================================================================
