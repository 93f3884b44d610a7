------------------------------ MODULE LiveView ------------------------------
(* Live view orchestration in the admin API (internal/liveview): one        *)
(* session's row in Postgres, and the HTTP calls that ask for it, decide    *)
(* on it and end it.  Every call is a goroutine of its own; between its     *)
(* read of the row, its audit entry, its write and its NATS command, the    *)
(* others run.                                                              *)
EXTENDS Naturals, Sequences, FiniteSets

CONSTANTS
    Users,
    Admins, ITManagers, DPOs, Requesters, \* who holds which role
    System,     \* the actor of AppendSystem
    NoOne,      \* a NULL approver_id
    Calls,      \* the calls that are ever made, numbered in the order they begin
    Parallel,   \* bound: calls under way at once
    MaxFails    \* bound: steps that fail

ASSUME RoleAssumption ==
    /\ Admins \cup ITManagers \cup DPOs \subseteq Users
    /\ Admins \subseteq Requesters /\ Requesters \subseteq Users
    /\ System \notin Users /\ NoOne \notin Users \cup {System}

ASSUME BoundAssumption == MaxFails \in Nat /\ Calls \subseteq Nat

VARIABLES
    row,        \* the session's row
    audited,    \* its entries in the audit log
    sent,       \* the commands published for its endpoint
    evidence,   \* SOC 2 evidence items
    calls,      \* where each call stands
    fails       \* steps that failed so far

vars == <<row, audited, sent, evidence, calls, fails>>

-----------------------------------------------------------------------------
(* The life of a session as state.go draws it: which event leads from which *)
(* state to which.                                                           *)

Edges ==
    {<<"REQUESTED", "approve", "APPROVED">>,
     <<"REQUESTED", "deny", "DENIED">>,
     <<"REQUESTED", "expire", "EXPIRED">>,
     <<"APPROVED", "agent_start", "ACTIVE">>,
     <<"APPROVED", "agent_fail", "FAILED">>,
     <<"APPROVED", "agent_decline", "FAILED">>,
     <<"ACTIVE", "end", "ENDED">>,
     <<"ACTIVE", "expire", "EXPIRED">>}
    \cup {<<s, e, "TERMINATED_BY_HR">> : s \in {"APPROVED", "ACTIVE"},
              e \in {"hr_terminate", "admin_terminate", "it_manager_terminate"}}
    \cup {<<s, "dpo_terminate", "TERMINATED_BY_DPO">> : s \in {"APPROVED", "ACTIVE"}}

Terminal == {"ENDED", "DENIED", "EXPIRED", "FAILED",
             "TERMINATED_BY_HR", "TERMINATED_BY_DPO"}

\* A session that has no row yet is "NONE".
States == {"NONE", "REQUESTED", "APPROVED", "ACTIVE"} \cup Terminal

\* Transition accepts the event in this state.
Accepts(s, e) == \E to \in States : <<s, e, to>> \in Edges

Events == {edge[2] : edge \in Edges}

\* The state an event leads to; none leads to two.
To == [e \in Events |-> CHOOSE to \in States : \E s \in States : <<s, e, to>> \in Edges]

\* A session is created, or an event takes it from s to t.
Along(s, t) ==
    \/ s = "NONE" /\ t \in {"REQUESTED", "APPROVED"}
    \/ \E e \in Events : <<s, e, t>> \in Edges
-----------------------------------------------------------------------------

Approvers == ITManagers \cup Admins

Ops == {"new", "request", "approve", "deny", "agent_start", "end",
        "admin_terminate", "it_manager_terminate", "dpo_terminate"}
Ending == {"end", "admin_terminate", "it_manager_terminate", "dpo_terminate"}
Steps == {"audit", "create", "auto", "set", "stop", "evidence", "room", "start",
          "done"}

\* The audit action each call appends.
ActionOf ==
    [new |-> "none", request |-> "requested", approve |-> "approved",
     deny |-> "denied", agent_start |-> "started", end |-> "stopped",
     admin_terminate |-> "terminated", it_manager_terminate |-> "terminated",
     dpo_terminate |-> "terminated"]

Entries == [action : {"none", "requested", "approved", "denied", "started",
                      "stopped", "terminated"},
            by : Users \cup {System}, bypass : BOOLEAN]

TypeOK ==
    /\ row \in [state : States, requester : Users \cup {NoOne},
                approver : Users \cup {NoOne}, bypass : BOOLEAN]
    /\ audited \subseteq Entries
    /\ sent \in Seq({"start", "stop"})
    /\ evidence \subseteq [approver : Users, by : Users]
    /\ calls \in [Calls -> [op : Ops, by : Users \cup {System, NoOne},
                            at : Steps, approver : Users \cup {NoOne}, seen : States]]
    /\ fails \in 0..MaxFails

NotMade ==
    [op |-> "new", by |-> NoOne, at |-> "done", approver |-> NoOne, seen |-> "NONE"]

Init ==
    /\ row = [state |-> "NONE", requester |-> NoOne, approver |-> NoOne,
              bypass |-> FALSE]
    /\ audited = {}
    /\ sent = <<>>
    /\ evidence = {}
    /\ calls = [c \in Calls |-> NotMade]
    /\ fails = 0

Made(op) == {c \in Calls : calls[c].op = op}

\* The call starts and reads the row; of what it read it uses the approver later,
\* and nothing else.
Call(c, op, u) ==
    /\ calls[c].op = "new" /\ \A d \in Made("new") : c <= d
    /\ Cardinality({d \in Calls : calls[d].at # "done"}) < Parallel
    /\ calls' = [calls EXCEPT ![c] = [op |-> op, by |-> u, at |-> "audit",
                                      approver |-> row.approver, seen |-> row.state]]
    /\ UNCHANGED <<row, audited, sent, evidence, fails>>

Goto(c, step) == calls' = [calls EXCEPT ![c].at = step]

RequestLiveView(c, u) ==
    /\ u \in Requesters
    /\ Made("request") = {}             \* one session is modelled
    /\ Call(c, "request", u)

\* Mutant: the requester may approve.
SelfApprove(c, u) ==
    /\ u \in Approvers
    /\ row.state = "REQUESTED"
    /\ Call(c, "approve", u)

Approve(c, u) ==
    /\ u \in Approvers
    /\ row.state = "REQUESTED"
    /\ u # row.requester
    /\ Call(c, "approve", u)

Reject(c, u) ==
    /\ u \in Approvers
    /\ row.state = "REQUESTED"
    /\ Call(c, "deny", u)

EndSession(c, u) ==
    /\ Accepts(row.state, "end")
    /\ Call(c, "end", u)

\* Mutant: the state machine is not asked.
TerminateUnasked(c, u) ==
    /\ row.state # "NONE"
    /\ \/ u \in Admins /\ Call(c, "admin_terminate", u)
       \/ u \in ITManagers \ Admins /\ Call(c, "it_manager_terminate", u)
       \/ u \in DPOs \ (ITManagers \cup Admins) /\ Call(c, "dpo_terminate", u)

\* The event is that of the caller's first role.
Terminate(c, u) ==
    \E e \in Ending \ {"end"} :
        /\ \/ e = "admin_terminate" /\ u \in Admins
           \/ e = "it_manager_terminate" /\ u \in ITManagers \ Admins
           \/ e = "dpo_terminate" /\ u \in DPOs \ (ITManagers \cup Admins)
        /\ Accepts(row.state, e)
        /\ Call(c, e, u)

\* Nobody reports an agent that was never told to start; AgentStarted itself
\* checks nothing.
AgentStarted(c) ==
    /\ \E i \in 1..Len(sent) : sent[i] = "start"
    /\ Call(c, "agent_start", System)

Begin(c) ==
    \/ \E u \in Users :
          \/ RequestLiveView(c, u) \/ Approve(c, u) \/ Reject(c, u)
          \/ EndSession(c, u) \/ Terminate(c, u)
    \/ AgentStarted(c)

Bypasses(c) == calls[c].op = "request" /\ calls[c].by \in Admins

Entry(c, action) == [action |-> action, by |-> calls[c].by, bypass |-> Bypasses(c)]

----------------------------------------------------------------------------

\* Recorder.Append before the write.
Audit(c) ==
    /\ calls[c].at = "audit"
    /\ audited' = audited \cup {Entry(c, ActionOf[calls[c].op])}
    /\ Goto(c, IF calls[c].op = "request" THEN "create"
               ELSE IF calls[c].op \in Ending THEN "stop"
               ELSE "set")
    /\ UNCHANGED <<row, sent, evidence, fails>>

\* The INSERT names neither approver_id nor approved_at.
Create(c) ==
    /\ calls[c].at = "create"
    /\ row' = [state |-> IF Bypasses(c) THEN "APPROVED" ELSE "REQUESTED",
               requester |-> calls[c].by, approver |-> NoOne,
               bypass |-> Bypasses(c)]
    /\ Goto(c, IF Bypasses(c) THEN "auto" ELSE "done")
    /\ UNCHANGED <<audited, sent, evidence, fails>>

AuditAutoApprove(c) ==
    /\ calls[c].at = "auto"
    /\ audited' = audited \cup {Entry(c, "approved")}
    /\ Goto(c, "room")
    /\ UNCHANGED <<row, sent, evidence, fails>>

\* UPDATE ... SET state = $1, approver_id = COALESCE($2, approver_id): the row's
\* present state is not asked.
SetState(c) ==
    /\ calls[c].at = "set"
    /\ row' = [row EXCEPT !.state = To[calls[c].op],
                          !.approver = IF calls[c].by = System THEN @ ELSE calls[c].by]
    /\ Goto(c, IF calls[c].op = "approve" THEN "room"
               ELSE IF calls[c].op \in Ending THEN "evidence"
               ELSE "done")
    /\ UNCHANGED <<audited, sent, evidence, fails>>

CreateRoom(c) ==
    /\ calls[c].at = "room"
    /\ Goto(c, "start")
    /\ UNCHANGED <<row, audited, sent, evidence, fails>>

\* MarkFailed, whose own error is ignored.
CreateRoomFails(c) ==
    /\ calls[c].at = "room"
    /\ fails < MaxFails
    /\ fails' = fails + 1
    /\ row' \in {row, [row EXCEPT !.state = "FAILED"]}
    /\ Goto(c, "done")
    /\ UNCHANGED <<audited, sent, evidence>>

PublishStart(c) ==
    /\ calls[c].at = "start"
    /\ sent' = Append(sent, "start")
    /\ Goto(c, "done")
    /\ UNCHANGED <<row, audited, evidence, fails>>

PublishStop(c) ==
    /\ calls[c].at = "stop"
    /\ \/ sent' = Append(sent, "stop") /\ fails' = fails
       \/ fails < MaxFails /\ fails' = fails + 1 /\ sent' = sent
    /\ Goto(c, "set")
    /\ UNCHANGED <<row, audited, evidence>>

\* The approver is the one read before the audit entry; without one, nothing is
\* emitted.
EmitEvidence(c) ==
    /\ calls[c].at = "evidence"
    /\ evidence' = evidence \cup
           {[approver |-> a, by |-> calls[c].by] :
               a \in {calls[c].approver} \ {NoOne}}
    /\ Goto(c, "done")
    /\ UNCHANGED <<row, audited, sent, fails>>

\* A step that returns an error, a caller that hangs up or a crash of the API.
Fail(c) ==
    /\ calls[c].at \in Steps \ {"room", "stop", "done"}
    /\ fails < MaxFails
    /\ fails' = fails + 1
    /\ Goto(c, "done")
    /\ UNCHANGED <<row, audited, sent, evidence>>

Step(c) ==
    \/ Audit(c) \/ Create(c) \/ AuditAutoApprove(c) \/ SetState(c)
    \/ CreateRoom(c) \/ CreateRoomFails(c) \/ PublishStart(c) \/ PublishStop(c)
    \/ EmitEvidence(c) \/ Fail(c)

Next == \E c \in Calls : Begin(c) \/ Step(c)

Spec == Init /\ [][Next]_vars

\* A handler's goroutine keeps running.
FairSpec == Spec /\ \A c \in Calls : WF_vars(Step(c))

----------------------------------------------------------------------------
(* Safety *)

Approval(u) == \E e \in audited : e.action = "approved" /\ e.by = u

\* The session may be watched: an admin asked for it, or a second person of IT
\* approved it and the audit log says so.
Authorised ==
    \/ row.bypass /\ row.requester \in Admins
    \/ \E u \in Approvers : u # row.requester /\ Approval(u)

\* No agent is told to start and no session is open without authority.
StartsAuthorised ==
    row.state \in {"APPROVED", "ACTIVE"} \/ (\E i \in 1..Len(sent) : sent[i] = "start")
        => Authorised

\* Evidence of a dual-controlled session names as approver a second person who
\* approved, although every later call writes its own actor to approver_id: as long
\* as no agent reports its start, which nothing in the service's wiring calls for.
EvidenceDual ==
    Made("agent_start") = {} =>
        \A e \in evidence : e.approver # row.requester /\ Approval(e.approver)

\* Whatever the calls interleave and whichever of them fail, a session takes two
\* people (Approve's checks, made on a row read before the audit entry and the
\* write), and the evidence names the second (terminateSession).
DualControl == StartsAuthorised /\ EvidenceDual

\* The state the caller of c believes the row to be in when c writes it.
Believed(c) ==
    IF calls[c].at = "room" \/ calls[c].op = "agent_start" THEN "APPROVED" ELSE calls[c].seen

\* The only thing that takes a session off state.go's table is a lost update: a
\* write made when the row is no longer as its caller read it (SetState writes
\* whatever the row holds), or an agent's report on a session that is no longer
\* approved.  Called one at a time, the service follows the table.
FollowsTable ==
    [][\/ Along(row.state, row'.state) \/ UNCHANGED row.state
       \/ \E c \in Calls : calls'[c] # calls[c] /\ row.state # Believed(c)]_vars

----------------------------------------------------------------------------
(* Liveness *)

\* An approved session's agent is told to start, unless another call took the
\* session away (Approve goes on to provisionLiveKit after its write).
Provisioned ==
    []<>(\/ row.state # "APPROVED"
         \/ \E i \in 1..Len(sent) : sent[i] = "start"
         \/ fails > 0)

\* A session that two people asked for and approved leaves evidence when a call has
\* ended it, even if later calls overwrite its state (terminateSession's last step).
Evidenced ==
    []<>(\/ \A c \in Calls : calls[c].op \in Ending => calls[c].at \in {"audit", "stop", "set"}
         \/ row.bypass
         \/ evidence # {} \/ fails > 0)

\* What a call began with its write it finishes, whatever other calls do to the row
\* meanwhile, unless a step fails.
Finished == Provisioned /\ Evidenced
=============================================================================
