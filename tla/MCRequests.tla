----------------------------- MODULE MCRequests -----------------------------
(* The requests of people: a live view session or a data subject's request,    *)
(* whichever a behaviour begins with; the other stays as it is.  The fairness  *)
(* is each part's own, while it is the part that runs.                         *)
EXTENDS LiveView

CONSTANTS Requests, Subjects, Holds, Runs, subject, covers, Erase, Sla, AtRisk, MaxOps, AckHasUser
VARIABLES part, req, hold, store, log, evid, report, run, job, ops

rightsVars == <<req, hold, store, log, evid, report, run, job, ops>>

\* Every request is by a person (dsr_requests.employee_user_id).
ASSUME RightsAssumption ==
    /\ subject \in [Requests -> Subjects]
    /\ Erase \subseteq Requests /\ {Sla, AtRisk, MaxOps} \subseteq Nat

\* For TLC: all of one person.
SubjectOf == [r \in Requests |-> CHOOSE u \in Subjects : TRUE]
HeldPerson == [h \in Holds |-> CHOOSE u \in Subjects : TRUE]

Rights == INSTANCE DataRights

PartsInit == part \in {"live view", "rights"} /\ Init /\ Rights!Init

PartsNext ==
    \/ part = "live view" /\ Next /\ UNCHANGED <<part, rightsVars>>
    \/ part = "rights" /\ Rights!Next /\ UNCHANGED <<part, vars>>

PartsFair ==
    /\ \A c \in Calls : WF_vars(part = "live view" /\ Step(c))
    /\ WF_rightsVars(part = "rights" /\ Rights!Midnight)
    /\ SF_rightsVars(part = "rights" /\ Rights!TickAtRisk)
    /\ SF_rightsVars(part = "rights" /\ Rights!TickOverdue)

PartsSpec == PartsInit /\ [][PartsNext]_<<part, vars, rightsVars>> /\ PartsFair

\* What the requests, the log, the evidence and the stores say of each other (DataRights).
RecordsTrue == Rights!RightsTrue

\* What no step may do: pass over a hold, take up a closed request (DataRights).
RightsKept == Rights!RightsKept

\* A call finishes what it began with its write (LiveView), and a request that nobody
\* answers becomes overdue (DataRights).
Concludes == Finished /\ Rights!Decided
=============================================================================
