------------------------------ MODULE MCStreams ------------------------------
(* The gateway's router of live view commands, its heartbeat monitor, or the  *)
(* audit stream, whichever a behaviour begins with; the others stay as they   *)
(* are.  The fairness is each part's own, while it is the part that runs.     *)
EXTENDS StreamRouter

CONSTANTS
    NoRecord, Degraded, Offline, Extended, Suspend, KeepAlive,
    MaxAborts, MaxFails, MaxRestarts,
    Writers, Browsers, Narrow, Tenants, Home, MaxEntries
VARIABLES
    part,
    record, gap, sweeping, hbStream, hbHost, age, hbUsing, quiet, byeAge, parting,
    reported, aborts, fails, restarts,
    chain, pub, subs, sub

hbVars == <<record, gap, sweeping, hbStream, hbHost, age, hbUsing, quiet, byeAge, parting,
            reported, aborts, fails, restarts>>
auditVars == <<chain, pub, subs, sub>>

\* HeartbeatConfig's thresholds are in the order of its defaults and beyond a tick;
\* NewMonitor takes whatever it is given.
ASSUME HealthAssumption ==
    /\ {Degraded, Offline, Extended, KeepAlive, MaxAborts, MaxFails, MaxRestarts} \subseteq Nat
    /\ 1 < Degraded /\ Degraded <= Offline /\ Offline <= Extended

HealthGateways == {CHOOSE g \in Gateways : TRUE}

Health == INSTANCE HeartbeatMonitor
    WITH Gateways <- HealthGateways,
         stream <- hbStream, host <- hbHost, using <- hbUsing
Audit == INSTANCE AuditStream

PartsInit ==
    /\ part \in {"router", "health", "audit"}
    /\ Init /\ Health!Init /\ Audit!Init
    /\ part # "router" => host \in [Streams -> HealthGateways]

PartsNext ==
    \/ part = "router" /\ Next /\ UNCHANGED <<part, hbVars, auditVars>>
    \/ part = "health" /\ Health!Next /\ UNCHANGED <<part, vars, auditVars>>
    \/ part = "audit" /\ Audit!Next /\ UNCHANGED <<part, vars, hbVars>>

RouterFair ==
    /\ \A s \in Streams : /\ WF_vars(part = "router" /\ Handler(s))
                          /\ WF_vars(part = "router" /\ AgentSends(s))
    /\ \A g \in Gateways : WF_vars(part = "router" /\ Route(g))

HealthFair ==
    /\ WF_hbVars(part = "health" /\ Health!Tick)
    /\ \A g \in HealthGateways : WF_hbVars(part = "health" /\ Health!Monitor(g))
    /\ \A s \in Streams :
          /\ WF_hbVars(part = "health" /\ Health!HandlerEnds(s))
          /\ WF_hbVars(part = "health" /\ hbUsing = s /\ Health!Heartbeat(s))

AuditFair ==
    /\ \A c \in Audit!Callers : WF_auditVars(part = "audit" /\ Audit!Caller(c))
    /\ \A b \in Browsers : WF_auditVars(part = "audit" /\ Audit!End(b))

PartsSpec ==
    /\ PartsInit /\ [][PartsNext]_<<part, vars, hbVars, auditVars>>
    /\ RouterFair /\ HealthFair /\ AuditFair

\* What a sweep makes of a silence, and how it excuses it (HeartbeatMonitor).
SilenceTrue == Health!SilenceTrue

\* What the subscribers learn in the end, and what the record shows (HeartbeatMonitor).
Told == Health!Told

\* What a browser gets of the log: what it may see, once, counted (AuditStream).
StreamTrue == Audit!StreamTrue

\* A stream whose browser is gone ends (AuditStream).
Gone == Audit!Gone
==============================================================================
