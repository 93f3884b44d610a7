----------------------------- MODULE MCPipeline -----------------------------
(* What is remembered, parked or kept in a row: the enricher's dedup cache,   *)
(* the dead letters and their replay, the rows kept of people, a ticket, or   *)
(* the licence, whichever a behaviour begins with; the others stay as they    *)
(* are.  Messages are interchangeable.                                        *)
EXTENDS DedupCache, TLC

CONSTANTS Messages, Runs, MaxScan, PageSize, MaxSeq, MaxCalls,
    Callers, MaxFaults,
    Files, EndsAt, Signed, Grace, StaleAfter, Permissive, LicenceTime
VARIABLES part,
    dlq, last, raw, good, repaired, lost, log, sent, run, walk, calls,
    user, ack, gap, preset, keys, userLog, caller, said, made, faults, clean,
    ticket, stamps, linked, theirs, entries, at, written,
    disk, checked, state, claims, word, wordAt, heard, server

ASSUME DlqAssumption ==
    MaxSeq \in Nat /\ MaxScan \in Nat /\ PageSize \in Nat \ {0} /\ MaxCalls \in Nat /\ "none" \notin Messages

\* A licence's end is a time, and what is no licence has no name of one.
ASSUME VendorAssumption ==
    /\ Signed \subseteq Files /\ EndsAt \in [Signed -> Nat]
    /\ Grace \in Nat /\ StaleAfter \in Nat
    /\ {"none", "dev", "missing", "unreadable"} \cap Files = {}

dlqVars == <<dlq, last, raw, good, repaired, lost, log, sent, run, walk>>
userVars == <<user, ack, gap, preset, keys, userLog, caller, said, made, clean>>
ticketVars == <<ticket, stamps, linked, theirs, entries, at, written>>
licVars == <<disk, checked, state, claims, word, wordAt, heard, server>>
cacheVars == <<seen, order, swept, reinserts>>

Replay == INSTANCE DlqReplay
People == INSTANCE Directory WITH log <- userLog
Desk == INSTANCE Tickets WITH row <- ticket
Vendor == INSTANCE Licence WITH MaxTime <- LicenceTime

PartsInit ==
    /\ part \in {"dedup", "dlq", "people", "tickets", "licence"}
    /\ Init /\ Replay!Init /\ People!DirInit /\ Desk!TicketsInit /\ Vendor!LicInit
    /\ part # "people" => user = People!NoUser
    /\ part # "licence" => disk = "missing"

PartsNext ==
    \/ part = "dedup" /\ Next /\ UNCHANGED <<part, dlqVars, userVars, ticketVars, licVars, calls, faults>>
    \/ part = "dlq" /\ Replay!Next /\ UNCHANGED <<part, vars, userVars, ticketVars, licVars, faults>>
    \/ part = "people" /\ People!DirNext /\ UNCHANGED <<part, vars, dlqVars, ticketVars, licVars, calls>>
    \/ part = "tickets" /\ Desk!TicketsNext /\ UNCHANGED <<part, vars, dlqVars, userVars, licVars>>
    \/ part = "licence" /\ Vendor!LicNext
          /\ UNCHANGED <<part, cacheVars, dlqVars, userVars, ticketVars, calls, faults>>

PartsSpec == PartsInit /\ [][PartsNext]_<<part, vars, dlqVars, userVars, ticketVars, licVars, calls, faults>>

\* The ends of the two licences of the run.
LicenceEnds == [trial |-> 1, full |-> 3]

Symmetry == Permutations(Messages)

\* No message is gone, a replay is logged before it is made, and a walk over the
\* pages misses nothing that stayed (DlqReplay).
DlqTrue == Replay!DlqTrue

\* The rows kept of people and the audit log tell one story (Directory).
DirectoryTrue == People!DirectoryTrue

\* A ticket's changes were each announced, as the table allows, and overtaken only
\* by another's (Tickets); a licence is what the last check of it found (Licence).
VendorsTrue ==
    /\ part = "tickets" => Desk!TicketsTrue
    /\ part = "licence" => Vendor!LicenceTrue
=============================================================================
