------------------------------ MODULE MCControl ------------------------------
(* The identity of agents or the control of keystroke content, whichever a     *)
(* behaviour begins with; the other stays as it is.                            *)
EXTENDS Identity

CONSTANTS Endpoints, MaxCalls

ASSUME DlpAssumption == MaxCalls \in Nat

VARIABLES part, dlpRow, active, key, policy, history, dlpBus, evid, dlpLog, dlpRun, calls

dlpVars == <<dlpRow, active, key, policy, history, dlpBus, evid, dlpLog, dlpRun, calls>>

Dlp == INSTANCE DlpControl WITH row <- dlpRow, bus <- dlpBus, log <- dlpLog, run <- dlpRun

PartsInit == part \in {"identity", "dlp"} /\ Init /\ Dlp!Init

PartsNext ==
    \/ part = "identity" /\ Next /\ UNCHANGED <<part, dlpVars>>
    \/ part = "dlp" /\ Dlp!Next /\ UNCHANGED <<part, vars>>

PartsSpec == PartsInit /\ [][PartsNext]_<<part, vars, dlpVars>>

\* The row of keystroke content, the bundles and their evidence each show one
\* version whole, and a stored key never changes (DlpControl).
DlpTrue == Dlp!DlpTrue
==============================================================================
