----------------------------- MODULE MCEvidence -----------------------------
(* The audit log, by its appends or by its verifier, or the evidence locker,   *)
(* whichever a behaviour begins with; the others stay as they are.  The        *)
(* connections are interchangeable, and so are the tenants.                    *)
EXTENDS AuditChain, TLC

CONSTANTS Recorders, Months, MaxReports, MaxKey, MaxPacks
VARIABLES part, wired, key, objects, items, log, request, pack, packs, itemId

ASSUME LockerAssumption == MaxKey \in Nat \ {0}

lockerVars == <<wired, key, objects, items, log, request, pack, packs, itemId>>

Locker == INSTANCE EvidenceLocker
    WITH worm <- objects, rows <- items, run <- request, nextId <- itemId

Symmetry == Permutations(Writers) \cup Permutations(Tenants)

\* What the appends do does not depend on what older releases left.
PartsInit ==
    /\ part \in {"appends", "verifier", "locker"}
    /\ Init /\ Locker!Init
    /\ part # "locker" => wired
    /\ part # "verifier" => legacy = <<>>

\* Bound: a run of the verifier ends on the day on which it began, and it leaves one
\* entry of its own at most.
InTheNight ==
    /\ day' # day => run.pc = "idle"
    /\ append' # append => run.pc \in {"audit", "wait"} /\ Len(events) = 0

PartsNext ==
    \/ part = "appends" /\ (Appends \/ Script) /\ UNCHANGED <<part, lockerVars>>
    \/ /\ part = "verifier" /\ Next /\ InTheNight
       /\ UNCHANGED <<part, scriptVars, lockerVars>>
    \/ part = "locker" /\ Locker!Next /\ UNCHANGED <<part, vars>>

PartsSpec == PartsInit /\ [][PartsNext]_<<part, vars, lockerVars>>

\* What the rows, the objects, the entries and the packs say of each other, and
\* of the reports (EvidenceLocker).
LockerTrue == Locker!LockerTrue
=============================================================================
