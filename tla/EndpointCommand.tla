---------------------------- MODULE EndpointCommand ----------------------------
(* Remote commands of the admin API (internal/endpoint/commands*.go): the    *)
(* rows of endpoint_commands for one endpoint, the calls that issue them one *)
(* by one or in bulk, and the acknowledgements the gateway posts.  The       *)
(* gateway, the agent and the stream that carries the commands are external. *)
EXTENDS Naturals, Sequences, FiniteSets

CONSTANTS
    Cmds,       \* the commands that are ever issued
    Wipes,      \* those of kind wipe
    Bulk,       \* those that one BulkOperation issues
    Online,     \* those whose endpoint is connected and answers
    Copies,     \* bound: times the gateway posts the same report
    AcksAtOnce, \* bound: acknowledgements under way at once
    MaxFails    \* bound: steps that fail, stops of the API included

ASSUME CommandAssumption ==
    /\ Wipes \subseteq Cmds /\ Bulk \subseteq Cmds /\ Online \subseteq Cmds
    /\ Copies \in Nat \ {0} /\ AcksAtOnce \in Nat \ {0}
    /\ MaxFails \in Nat

VARIABLES
    row,        \* endpoint_commands: state, acknowledged_at, completed_at
    issue,      \* where the call that issues each command stands
    captured,   \* a JetStream stream captures endpoints.command.>
    bus,        \* the commands the stream has taken
    agent,      \* what the agent has done about each command
    acks,       \* where each posted report stands
    entered,    \* commands whose issue has its audit entry
    ackLog,     \* each command's audit entries of acknowledgements
    summary,    \* the bulk operation's audit entry
    fails,      \* steps that failed so far
    raced       \* history: commands of which two reports read the row before
                \* either wrote it

ECVars == <<row, issue, captured, bus, agent, acks, entered, ackLog, summary, fails, raced>>

Terminal == {"completed", "failed", "timeout"}
States == {"pending", "acknowledged"} \cup Terminal
Reports == States \ {"pending"}
Posts == [cmd : Online, new : Reports, copy : 1..Copies]

UnderWay == {"insert", "publish", "audit", "mark"}
Returned == {"ok", "error", "blind"}
Stages == {"new", "lost"} \cup UnderWay \cup Returned

ECTypeOK ==
    /\ row \in [Cmds -> [state : States \cup {"none"}, acked : BOOLEAN,
                         closed : BOOLEAN]]
    /\ issue \in [Cmds -> Stages]
    /\ captured \in BOOLEAN
    /\ bus \subseteq Cmds
    /\ raced \subseteq Cmds
    /\ agent \in [Cmds -> {"idle", "received", "completed", "failed"}]
    /\ acks \in [Posts -> {"new", "write", "audit", "over"}]
    /\ entered \subseteq Cmds
    /\ ackLog \in [Cmds -> Seq(Reports)]
    /\ summary \in [at : {"open", "written", "lost"}, ok : SUBSET Bulk]
    /\ fails \in 0..MaxFails

ECInit ==
    /\ row = [c \in Cmds |-> [state |-> "none", acked |-> FALSE, closed |-> FALSE]]
    /\ issue = [c \in Cmds |-> "new"]
    /\ captured \in BOOLEAN
    /\ bus = {}
    /\ raced = {}
    /\ agent = [c \in Cmds |-> "idle"]
    /\ acks = [p \in Posts |-> "new"]
    /\ entered = {}
    /\ ackLog = [c \in Cmds |-> <<>>]
    /\ summary = [at |-> "open", ok |-> {}]
    /\ fails = 0

Failing == fails < MaxFails /\ fails' = fails + 1

Stamped(r, s) ==
    [state |-> s, acked |-> r.acked \/ s = "acknowledged",
     closed |-> r.closed \/ s \in Terminal]

\* UPDATE ... WHERE id = $1: the state the row has by then is not asked.
UpdateState(c, s) == row' = [row EXCEPT ![c] = Stamped(@, s)]

Advance(c, stage) == issue' = [issue EXCEPT ![c] = stage]

----------------------------------------------------------------------------
\* issueCommand

\* BulkOperation calls issueCommand for one endpoint after the other, and stops
\* only with its process.
Turn(c) == c \in Bulk => \A d \in Bulk : issue[d] \notin UnderWay \cup {"lost"}

\* The checks; a wipe is refused when the endpoint is under a legal hold, which is
\* read here and never again.
Check(c) ==
    /\ issue[c] = "new" /\ Turn(c)
    /\ Advance(c, "insert") \/ (c \in Wipes /\ Advance(c, "error"))
    /\ UNCHANGED <<row, bus, agent, acks, entered, ackLog, summary, fails, captured, raced>>

Create(c) ==
    /\ issue[c] = "insert"
    /\ row' = [row EXCEPT ![c].state = "pending"]
    /\ Advance(c, "publish")
    /\ UNCHANGED <<bus, agent, acks, entered, ackLog, summary, fails, captured, raced>>

CreateFails(c) ==
    /\ issue[c] = "insert"
    /\ Failing
    /\ Advance(c, "error")
    /\ UNCHANGED <<row, bus, agent, acks, entered, ackLog, summary, captured, raced>>

Publish(c) ==
    /\ issue[c] = "publish"
    /\ captured
    /\ bus' = bus \cup {c}
    /\ Advance(c, "audit")
    /\ UNCHANGED <<row, agent, acks, entered, ackLog, summary, fails, captured, raced>>

\* No stream took it, or its answer was lost on the way back.
PublishFails(c) ==
    /\ issue[c] = "publish"
    /\ \/ captured /\ Failing /\ bus' \in {bus, bus \cup {c}}
       \/ ~captured /\ UNCHANGED <<bus, fails>>
    /\ Advance(c, "mark")
    /\ UNCHANGED <<row, agent, acks, entered, ackLog, summary, captured, raced>>

Audit(c) ==
    /\ issue[c] = "audit"
    /\ entered' = entered \cup {c}
    /\ Advance(c, "ok")
    /\ UNCHANGED <<row, bus, agent, acks, ackLog, summary, fails, captured, raced>>

AuditFails(c) ==
    /\ issue[c] = "audit"
    /\ Failing
    /\ Advance(c, "mark")
    /\ UNCHANGED <<row, bus, agent, acks, entered, ackLog, summary, captured, raced>>

MarkFailed(c) ==
    /\ issue[c] = "mark"
    /\ UpdateState(c, "failed")
    /\ Advance(c, "error")
    /\ UNCHANGED <<bus, agent, acks, entered, ackLog, summary, fails, captured, raced>>

\* _ = s.store.UpdateState(...): nobody hears of it.
MarkFails(c) ==
    /\ issue[c] = "mark"
    /\ Failing
    /\ Advance(c, "blind")
    /\ UNCHANGED <<row, bus, agent, acks, entered, ackLog, summary, captured, raced>>

BulkOver == Bulk # {} /\ summary.at = "open" /\ \A c \in Bulk : issue[c] \in Returned

Summarize ==
    /\ BulkOver
    /\ summary' = [at |-> "written", ok |-> {c \in Bulk : issue[c] = "ok"}]
    /\ UNCHANGED <<row, issue, bus, agent, acks, entered, ackLog, fails, captured, raced>>

SummarizeFails ==
    /\ BulkOver
    /\ Failing
    /\ summary' = [summary EXCEPT !.at = "lost"]
    /\ UNCHANGED <<row, issue, bus, agent, acks, entered, ackLog, captured, raced>>

----------------------------------------------------------------------------
\* Acknowledge

\* What the gateway has to report of a command.
Reportable(c) ==
    (IF agent[c] = "idle" THEN {} ELSE {"acknowledged"})
    \cup (Terminal \cap {agent[c]})
    \cup (IF c \in bus THEN {"timeout"} ELSE {})

\* The reports of the same command that have read its row and not written it.
Rivals(p) == {q \in Posts : q.cmd = p.cmd /\ acks[q] = "write"}

\* Copies of a report are numbered in the order they are posted.
InTurn(p) == \A k \in 1..(p.copy - 1) : acks[[p EXCEPT !.copy = k]] # "new"

\* Mutant: an acknowledged command takes no further report.
ReadAckOnce(p) ==
    /\ acks[p] = "new"
    /\ p.new \in Reportable(p.cmd) /\ InTurn(p)
    /\ Cardinality({q \in Posts : acks[q] \in {"write", "audit"}}) < AcksAtOnce
    /\ acks' = [acks EXCEPT ![p] = IF row[p.cmd].state = "pending" THEN "write" ELSE "over"]
    /\ raced' = raced \cup {q.cmd : q \in Rivals(p)}
    /\ UNCHANGED <<row, issue, bus, agent, entered, ackLog, summary, fails, captured>>

\* Mutant: no state is final.
ReadAckAlways(p) ==
    /\ acks[p] = "new"
    /\ p.new \in Reportable(p.cmd) /\ InTurn(p)
    /\ Cardinality({q \in Posts : acks[q] \in {"write", "audit"}}) < AcksAtOnce
    /\ acks' = [acks EXCEPT ![p] = "write"]
    /\ raced' = raced \cup {q.cmd : q \in Rivals(p)}
    /\ UNCHANGED <<row, issue, bus, agent, entered, ackLog, summary, fails, captured>>

ReadAck(p) ==
    /\ acks[p] = "new"
    /\ p.new \in Reportable(p.cmd) /\ InTurn(p)
    /\ Cardinality({q \in Posts : acks[q] \in {"write", "audit"}}) < AcksAtOnce
    /\ acks' = [acks EXCEPT ![p] = IF row[p.cmd].state \in Terminal THEN "over" ELSE "write"]
    /\ raced' = raced \cup {q.cmd : q \in Rivals(p)}
    /\ UNCHANGED <<row, issue, bus, agent, entered, ackLog, summary, fails, captured>>

WriteAck(p) ==
    /\ acks[p] = "write"
    /\ UpdateState(p.cmd, p.new)
    /\ acks' = [acks EXCEPT ![p] = "audit"]
    /\ UNCHANGED <<issue, bus, agent, entered, ackLog, summary, fails, captured, raced>>

AuditAck(p) ==
    /\ acks[p] = "audit"
    /\ ackLog' = [ackLog EXCEPT ![p.cmd] = Append(@, p.new)]
    /\ acks' = [acks EXCEPT ![p] = "over"]
    /\ UNCHANGED <<row, issue, bus, agent, entered, summary, fails, captured, raced>>

AckFails(p) ==
    /\ acks[p] \in {"write", "audit"}
    /\ Failing
    /\ acks' = [acks EXCEPT ![p] = "over"]
    /\ UNCHANGED <<row, issue, bus, agent, entered, ackLog, summary, captured, raced>>

----------------------------------------------------------------------------
\* The agent and the API's own process

Receive(c) ==
    /\ c \in bus \cap Online /\ agent[c] = "idle"
    /\ agent' = [agent EXCEPT ![c] = "received"]
    /\ UNCHANGED <<row, issue, bus, acks, entered, ackLog, summary, fails, captured, raced>>

CarryOut(c) ==
    /\ agent[c] = "received"
    /\ \E result \in {"completed", "failed"} : agent' = [agent EXCEPT ![c] = result]
    /\ UNCHANGED <<row, issue, bus, acks, entered, ackLog, summary, fails, captured, raced>>

\* The API stops: its calls end where they are.
Stop ==
    /\ Failing
    /\ issue' = [c \in Cmds |-> IF issue[c] \in UnderWay THEN "lost" ELSE issue[c]]
    /\ acks' = [p \in Posts |-> IF acks[p] \in {"write", "audit"} THEN "over" ELSE acks[p]]
    /\ summary' = IF summary.at = "open" /\ \E c \in Bulk : issue[c] # "new"
                  THEN [summary EXCEPT !.at = "lost"] ELSE summary
    /\ UNCHANGED <<row, bus, agent, entered, ackLog, captured, raced>>

Issue(c) ==
    \/ Check(c) \/ Create(c) \/ CreateFails(c) \/ Publish(c) \/ PublishFails(c)
    \/ Audit(c) \/ AuditFails(c) \/ MarkFailed(c) \/ MarkFails(c)

Ack(p) == ReadAck(p) \/ WriteAck(p) \/ AuditAck(p) \/ AckFails(p)

\* What the agent goes on with, and what the handler of a report does; no agent
\* reports a timeout.
Agent(c) == Receive(c) \/ CarryOut(c)
Answered(p) == (p.new # "timeout" /\ ReadAck(p)) \/ WriteAck(p) \/ AuditAck(p)

ECNext ==
    \/ \E c \in Cmds : Issue(c) \/ Receive(c) \/ CarryOut(c)
    \/ \E p \in Posts : Ack(p)
    \/ Summarize \/ SummarizeFails \/ Stop

ECSpec == ECInit /\ [][ECNext]_ECVars

\* The API's calls run to their end, the agent carries out what it gets, and
\* the gateway posts what the agent reports.
Fairness ==
    /\ \A c \in Cmds : WF_ECVars(issue[c] # "new" /\ Issue(c)) /\ WF_ECVars(Agent(c))
    /\ \A p \in Posts : WF_ECVars(Answered(p))

FairSpec == ECSpec /\ Fairness

----------------------------------------------------------------------------
\* Properties

\* A command the stream has taken and no entry in the audit log names is closed in
\* its row once its call has ended, unless the API stopped or the write that
\* closes it failed too (issueCommand's error returns).  Every variable keeps its
\* type.
UnloggedIsClosed ==
    /\ ECTypeOK
    /\ \A c \in bus \ entered :
          issue[c] \in UnderWay \cup {"lost", "blind"} \/ row[c].closed

\* Whatever the bulk operation's entry counts as issued was published and has an
\* entry of its own, whichever of its commands fail (BulkOperation).
BulkTrue == summary.at = "written" => summary.ok \subseteq entered \cap bus

Finals(c) == {i \in 1..Len(ackLog[c]) : ackLog[c][i] \in Terminal}

\* However often the gateway posts them, one final report of a command is logged
\* and its row stays final, whatever the command's own call still does to the row:
\* unless two reports read the row before either wrote it (Acknowledge).
OneFinalEntry ==
    \A c \in Cmds \ raced :
        /\ \A i, j \in Finals(c) : i = j
        /\ Finals(c) # {} => row[c].state \in Terminal

\* What the stream, the rows and the audit log say of each other.
CommandsTrue == UnloggedIsClosed /\ BulkTrue /\ OneFinalEntry

\* Every command that was taken by the stream ends in a final state if its endpoint
\* is connected, unless its reports raced or a step failed (Acknowledge).
Settled ==
    \A c \in Online :
        []<>(c \notin bus \/ row[c].state \in Terminal \/ c \in raced \/ fails > 0)
================================================================================
