------------------------------ MODULE MCAdmin -------------------------------
(* What administrators set in motion: the agent's update, an entry of the      *)
(* compliance pages or an outgoing connection, whichever a behaviour begins    *)
(* with; the others stay as they are.  The packages: one that leaves a binary  *)
(* alone, then a full one.                                                     *)
EXTENDS Integers, Sequences

CONSTANTS Packages, Missing, Tasks, MaxNotifies, MaxFails, MaxStops,
    Callers, Columns, TargetNames, MaxCalls
VARIABLES adminPart,
    tree, backup, extracted, pending, incoming, task, base, found, goal, shared, result,
    notifies, fails, stops,
    docs, paper, notice, column, consent, ack, pageLog, pageCall, told, pageCalls,
    targets, runs, service, wireLog, wireCall, answered, wireCalls

swapVars == <<tree, backup, extracted, pending, incoming, task, base, found, goal, shared, result,
    notifies, fails, stops>>
pageVars == <<docs, paper, notice, column, consent, ack, pageLog, pageCall, told, pageCalls>>
wireVars == <<targets, runs, service, wireLog, wireCall, answered, wireCalls>>

Swap == INSTANCE UpdateSwap
Pages == INSTANCE Compliance WITH log <- pageLog, call <- pageCall, calls <- pageCalls
Wires == INSTANCE Connectors WITH Names <- TargetNames, log <- wireLog, call <- wireCall, calls <- wireCalls

ASSUME AdminAssumption ==
    /\ Packages \in Seq(SUBSET Swap!Names) /\ Missing \subseteq Swap!Names
    /\ MaxNotifies \in Nat /\ MaxFails \in Nat /\ MaxStops \in Nat
    /\ Columns \subseteq {"verbis", "ca_mode", "retention"}
    /\ MaxCalls \in Nat /\ Wires!None \notin TargetNames

PartThenFull == <<{"watchdog", "agent"}, {"enroll", "watchdog", "agent"}>>

AdminInit == adminPart \in {"update", "pages", "connections"} /\ Swap!Init /\ Pages!Init /\ Wires!Init

AdminNext ==
    \/ adminPart = "update" /\ Swap!Next /\ UNCHANGED <<adminPart, pageVars, wireVars>>
    \/ adminPart = "pages" /\ Pages!Next /\ UNCHANGED <<adminPart, swapVars, wireVars>>
    \/ adminPart = "connections" /\ Wires!Next /\ UNCHANGED <<adminPart, swapVars, pageVars>>

AdminSpec == AdminInit /\ [][AdminNext]_<<adminPart, swapVars, pageVars, wireVars>>

\* An update ends whole, or with what it began from, loses no binary on the way,
\* and puts the agent itself in place last (UpdateSwap).
SwapTrue == Swap!SwapTrue

\* What stands on the compliance pages is stored, logged and true (Compliance).
ComplianceTrue == Pages!ComplianceTrue

\* Targets, credentials and runs agree with each other and the log (Connectors).
ConnectorsTrue == Wires!ConnectorsTrue
=============================================================================
