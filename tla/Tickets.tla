------------------------------- MODULE Tickets -------------------------------
(* A support ticket: the row the API keeps of it, the provider's copy, and the  *)
(* log.  A change is loaded, checked, logged and written in statements of their *)
(* own; the provider hears of it last and reports its own changes by webhook.   *)
(* The provider is external, and so is what its adapter answers: those in the   *)
(* repository are stubs.                                                        *)
EXTENDS Naturals, Sequences

CONSTANTS
    Callers,    \* handlers at work at once, the creator's among them
    MaxCalls,   \* bound on changes and webhooks
    MaxFaults   \* bound on statements and provider calls that fail

VARIABLES
    row,       \* the ticket's state, or "none"
    stamps,    \* which of resolved_at and closed_at are set
    linked,    \* whether the row has the provider's number
    theirs,    \* the state of the provider's copy, or "none"
    entries,   \* the log: what was announced, from which state, to which
    at,        \* what each caller is at
    written,   \* history: the writes to the row, see Write
    calls, faults

ticketVars == <<row, stamps, linked, theirs, entries, at, written, calls, faults>>

States == {"open", "in_progress", "resolved", "closed", "rejected"}
\* History: since is how often the row had been written when the caller loaded
\* it, entry the place of its entry in the log.
Free == [step |-> "free", from |-> "none", to |-> "none", since |-> 0, entry |-> 0]

\* canTransition: what UpdateState lets through.
CanTransition(from, to) ==
    \/ from = "open" /\ to \in {"in_progress", "rejected", "resolved"}
    \/ from = "in_progress" /\ to \in {"resolved", "rejected"}
    \/ from = "resolved" /\ to \in {"closed", "open"}
    \/ from = "rejected" /\ to = "open"

TicketsInit ==
    /\ row = "none" /\ stamps = {} /\ linked = FALSE /\ theirs = "none"
    /\ entries = <<>> /\ written = <<>>
    /\ at = [c \in Callers |-> Free]
    /\ calls = 0 /\ faults = 0

\* A write to the row: what it was written over, and on which load and entry.
Write(c, by, over) ==
    [by |-> by, from |-> over, to |-> at[c].to, since |-> at[c].since, entry |-> at[c].entry]

Fault == faults < MaxFaults /\ faults' = faults + 1
Go(c, step) == at' = [at EXCEPT ![c].step = step]
Ends(c) == at' = [at EXCEPT ![c] = Free]

-----------------------------------------------------------------------------
\* Create: entry, row, provider, number.
Create(c) ==
    /\ row = "none" /\ entries = <<>>
    /\ at[c] = Free
    /\ entries' = <<[by |-> "create", from |-> "none", to |-> "open"]>>
    /\ at' = [at EXCEPT ![c] = [Free EXCEPT !.step = "insert", !.to = "open", !.entry = 1]]
    /\ UNCHANGED <<row, stamps, linked, theirs, written, calls, faults>>

InsertTicket(c) ==
    /\ at[c].step = "insert"
    /\ \/ /\ row' = "open"
          /\ written' = Append(written, Write(c, "create", "none"))
          /\ Go(c, "forward")
          /\ faults' = faults
       \/ Fault /\ Ends(c) /\ UNCHANGED <<row, written>>
    /\ UNCHANGED <<stamps, linked, theirs, entries, calls>>

\* The provider's adapter: the stubs answer ErrNotConfigured, an adapter may
\* give a number.  Either way the call succeeds.
ProviderCreate(c) ==
    /\ at[c].step = "forward"
    /\ \/ theirs' = "open" /\ Go(c, "link")
       \/ theirs' = theirs /\ Ends(c)
    /\ UNCHANGED <<row, stamps, linked, entries, written, calls, faults>>

\* The number's own UPDATE, whose error nobody looks at.
Link(c) ==
    /\ at[c].step = "link"
    /\ \/ linked' = TRUE /\ faults' = faults
       \/ Fault /\ linked' = linked
    /\ Ends(c)
    /\ UNCHANGED <<row, stamps, theirs, entries, written, calls>>

-----------------------------------------------------------------------------
\* Mutant: the table is not asked.
LoadUnchecked(c, to) ==
    /\ at[c] = Free
    /\ calls < MaxCalls
    /\ row # "none"
    /\ calls' = calls + 1
    /\ at' = [at EXCEPT ![c] = [step |-> "log", from |-> row, to |-> to, since |-> Len(written), entry |-> 0]]
    /\ UNCHANGED <<row, stamps, linked, theirs, entries, written, faults>>

\* UpdateState: the state is loaded and checked here, written three steps on.
Load(c, to) ==
    /\ at[c] = Free
    /\ calls < MaxCalls
    /\ row # "none"
    /\ CanTransition(row, to)
    /\ calls' = calls + 1
    /\ at' = [at EXCEPT ![c] = [step |-> "log", from |-> row, to |-> to, since |-> Len(written), entry |-> 0]]
    /\ UNCHANGED <<row, stamps, linked, theirs, entries, written, faults>>

LogChange(c) ==
    /\ at[c].step = "log"
    /\ \/ /\ entries' = Append(entries, [by |-> "change", from |-> at[c].from, to |-> at[c].to])
          /\ at' = [at EXCEPT ![c] = [@ EXCEPT !.step = "write", !.entry = Len(entries')]]
          /\ faults' = faults
       \/ Fault /\ Ends(c) /\ entries' = entries
    /\ UNCHANGED <<row, stamps, linked, theirs, written, calls>>

\* UPDATE ... WHERE id: whatever the state has become; a reopened ticket keeps
\* its stamps.
WriteState(c) ==
    /\ at[c].step = "write"
    /\ \/ /\ row' = at[c].to
          /\ stamps' = stamps \cup ({at[c].to} \cap {"resolved", "closed"})
          /\ written' = Append(written, Write(c, "change", row))
          /\ Go(c, "update")
          /\ faults' = faults
       \/ Fault /\ Ends(c) /\ UNCHANGED <<row, stamps, written>>
    /\ UNCHANGED <<linked, theirs, entries, calls>>

ProviderUpdate(c) ==
    /\ at[c].step = "update"
    /\ \/ theirs # "none" /\ theirs' = at[c].to
       \/ theirs' = theirs
    /\ Ends(c)
    /\ UNCHANGED <<row, stamps, linked, entries, written, calls, faults>>

-----------------------------------------------------------------------------
\* The provider's people move their copy.
TheirChange ==
    /\ theirs # "none" /\ calls < MaxCalls
    /\ calls' = calls + 1
    /\ theirs' \in {"open", "in_progress", "resolved", "closed"} \ {theirs}
    /\ UNCHANGED <<row, stamps, linked, entries, at, written, faults>>

\* HandleWebhook: the row found by the provider's number takes the state it is
\* told, with an entry or without; a status of another name changes nothing.
Webhook(c) ==
    /\ at[c] = Free /\ linked /\ calls < MaxCalls
    /\ calls' = calls + 1
    /\ \/ /\ entries' = Append(entries, [by |-> "webhook", from |-> "none", to |-> theirs])
          /\ faults' = faults
       \/ Fault /\ entries' = entries
    /\ \E to \in {theirs, "none"} :
           at' = [at EXCEPT ![c] = IF to = "none" THEN Free ELSE [Free EXCEPT !.step = "apply", !.to = to]]
    /\ UNCHANGED <<row, stamps, linked, theirs, written>>

Apply(c) ==
    /\ at[c].step = "apply"
    /\ \/ /\ row' = at[c].to
          /\ written' = Append(written, Write(c, "webhook", row))
          /\ faults' = faults
       \/ Fault /\ UNCHANGED <<row, written>>
    /\ Ends(c)
    /\ UNCHANGED <<stamps, linked, theirs, entries, calls>>

TicketsNext ==
    \/ TheirChange
    \/ \E c \in Callers :
        \/ Create(c) \/ InsertTicket(c) \/ ProviderCreate(c) \/ Link(c)
        \/ \E to \in States : Load(c, to)
        \/ LogChange(c) \/ WriteState(c) \/ ProviderUpdate(c) \/ Webhook(c) \/ Apply(c)

TicketsSpec == TicketsInit /\ [][TicketsNext]_ticketVars

-----------------------------------------------------------------------------
(* Properties *)

\* Every write a person made has an entry of its own in the log, of the state it
\* was loaded in and the one it wrote, and the table allows that change.
Announced ==
    \A i \in DOMAIN written : LET w == written[i] IN w.by # "webhook" =>
        /\ w.entry \in DOMAIN entries /\ entries[w.entry].by = w.by /\ entries[w.entry].to = w.to
        /\ w.by = "change" =>
               /\ w.since \in 1..(i - 1) /\ entries[w.entry].from = written[w.since].to
               /\ CanTransition(written[w.since].to, w.to)
        /\ \A k \in 1..(i - 1) : written[k].by # "webhook" => written[k].entry # w.entry

\* So a ticket leaves the table, a closed one its state, only by a webhook or by
\* a change that was loaded before another write and came after it.
OnlyOvertaken ==
    \A i \in DOMAIN written : LET w == written[i] IN
        w.by = "change" /\ ~CanTransition(w.from, w.to) =>
            \E k \in (w.since + 1)..(i - 1) : written[k].to = w.from

\* A ticket has one creation; what the stamps say happened did happen by a change.
Stamped ==
    /\ row = "none" <=> written = <<>>
    /\ written # <<>> => written[1].by = "create" /\ written[Len(written)].to = row
    /\ \A s \in stamps : \E i \in DOMAIN written : written[i].by = "change" /\ written[i].to = s
    /\ linked => theirs # "none"

TicketsTrue == Announced /\ OnlyOvertaken /\ Stamped
=============================================================================
