------------------------------ MODULE Directory ------------------------------
(* The small rows the API keeps of people: a user's row, the acknowledgement   *)
(* of the disclosure at the first login, the acknowledgement of a silence, the *)
(* tenant's screenshot preset and the service keys.  Each call logs and writes *)
(* in statements of their own, in an order that differs from service to        *)
(* service, so calls overlap and a step of one may fail.                       *)
EXTENDS Naturals, Sequences

CONSTANTS
    Callers,    \* handlers at work at once
    MaxCalls,   \* bound on the calls
    MaxFaults   \* bound on the statements that fail

VARIABLES
    user,    \* the row of one person: role and active, or NoUser
    ack,     \* the entry the stored acknowledgement names, or 0
    gap,     \* whether that person has acknowledged a silence
    preset,  \* the tenant's screenshot preset
    keys,    \* the service keys: "tenant" or "system", made by the person
    log,     \* the audit entries
    caller,  \* what each caller is at
    said,    \* the entries that acknowledgements were answered with
    made, faults,
    clean    \* no call overlapped another's statements, none failed

dirVars == <<user, ack, gap, preset, keys, log, caller, said, made, faults, clean>>

Idle == [op |-> "none", at |-> "idle", val |-> "", ref |-> 0]
NoUser == [role |-> "", active |-> FALSE]

\* users_role_check: the roles the column takes; the handler passes on any.
ColumnRoles == {"hr", "dpo"}
AskedRoles == ColumnRoles \cup {"dlp_admin"}
Presets == {"low", "max"}

\* The statements an operation makes, in the service's order.
Audited == {"created", "role_changed", "disabled", "deleted", "silence_acknowledged"}
First(op) ==
    CASE op \in Audited -> "audit"
      [] op = "acknowledge" -> "look"
      [] op = "preset" -> "read"
      [] op = "key" -> "insert"
      [] op = "revoke_key" -> "revoke"

DirInit ==
    /\ user \in {NoUser, [role |-> "hr", active |-> TRUE]}
    /\ ack = 0 /\ gap = FALSE /\ preset = "low" /\ keys = {}
    /\ log = <<>>
    /\ caller = [c \in Callers |-> Idle]
    /\ said = {}
    /\ made = 0 /\ faults = 0 /\ clean = TRUE

Values(op) ==
    CASE op \in {"created", "role_changed"} -> AskedRoles
      [] op = "preset" -> Presets
      [] op = "key" -> {"tenant", "system"}
      [] OTHER -> {""}

Call(c, op, val) ==
    /\ caller[c] = Idle
    /\ made < MaxCalls
    /\ made' = made + 1
    /\ caller' = [caller EXCEPT ![c] = [op |-> op, at |-> First(op), val |-> val, ref |-> 0]]
    /\ clean' = (clean /\ \A d \in Callers : caller[d] = Idle)
    /\ UNCHANGED <<user, ack, gap, preset, keys, log, said, faults>>

Entry(c) == [act |-> caller[c].op, val |-> caller[c].val]
Ends(c) == caller' = [caller EXCEPT ![c] = Idle]

\* Mutant: the entry is made if it can be.
AuditBestEffort(c) ==
    /\ caller[c].at = "audit"
    /\ log' \in {log, Append(log, Entry(c))}
    /\ caller' = [caller EXCEPT ![c].at = "write", ![c].ref = Len(log')]
    /\ UNCHANGED <<user, ack, gap, preset, keys, said, made, faults, clean>>

\* recorder.Append: without its entry none of these calls writes anything.
Audit(c) ==
    /\ caller[c].at = "audit"
    /\ log' = Append(log, Entry(c))
    /\ caller' = [caller EXCEPT ![c].at = "write", ![c].ref = Len(log) + 1]
    /\ UNCHANGED <<user, ack, gap, preset, keys, said, made, faults, clean>>

\* A write that the database refuses, after its entry: the call answers 500.
Refused(c) ==
    /\ clean' = FALSE
    /\ Ends(c)
    /\ UNCHANGED <<user, ack, gap, preset, keys, log, said, made, faults>>

Insert(c) ==
    /\ caller[c].at = "write" /\ caller[c].op = "created"
    /\ user = NoUser
    /\ caller[c].val \in ColumnRoles
    /\ user' = [role |-> caller[c].val, active |-> TRUE]
    /\ Ends(c)
    /\ UNCHANGED <<ack, gap, preset, keys, log, said, made, faults, clean>>

InsertRefused(c) ==
    /\ caller[c].at = "write" /\ caller[c].op = "created"
    /\ user # NoUser \/ caller[c].val \notin ColumnRoles
    /\ Refused(c)

\* UPDATE ... WHERE id: nobody looks at whether there was such a row.
ChangeRole(c) ==
    /\ caller[c].at = "write" /\ caller[c].op = "role_changed"
    /\ \/ user = NoUser /\ user' = user
       \/ user # NoUser /\ caller[c].val \in ColumnRoles /\ user' = [user EXCEPT !.role = caller[c].val]
    /\ Ends(c)
    /\ UNCHANGED <<ack, gap, preset, keys, log, said, made, faults, clean>>

ChangeRoleRefused(c) ==
    /\ caller[c].at = "write" /\ caller[c].op = "role_changed"
    /\ user # NoUser /\ caller[c].val \notin ColumnRoles
    /\ Refused(c)

Disable(c) ==
    /\ caller[c].at = "write" /\ caller[c].op = "disabled"
    /\ user' = IF user = NoUser THEN user ELSE [user EXCEPT !.active = FALSE]
    /\ Ends(c)
    /\ UNCHANGED <<ack, gap, preset, keys, log, said, made, faults, clean>>

\* The acknowledgement goes with the row; a silence or a key that names the
\* person keeps it.
Delete(c) ==
    /\ caller[c].at = "write" /\ caller[c].op = "deleted"
    /\ ~gap /\ keys = {}
    /\ user' = NoUser
    /\ ack' = 0
    /\ Ends(c)
    /\ UNCHANGED <<gap, preset, keys, log, said, made, faults, clean>>

DeleteRefused(c) ==
    /\ caller[c].at = "write" /\ caller[c].op = "deleted"
    /\ gap \/ keys # {}
    /\ Refused(c)

AcknowledgeSilence(c) ==
    /\ caller[c].at = "write" /\ caller[c].op = "silence_acknowledged"
    /\ user # NoUser
    /\ gap' = TRUE
    /\ Ends(c)
    /\ UNCHANGED <<user, ack, preset, keys, log, said, made, faults, clean>>

AcknowledgeSilenceRefused(c) ==
    /\ caller[c].at = "write" /\ caller[c].op = "silence_acknowledged"
    /\ user = NoUser
    /\ Refused(c)

\* AcknowledgeNotification: what is there is answered and nothing logged.
LookUpAck(c) ==
    /\ caller[c].at = "look"
    /\ \/ /\ ack # 0
          /\ said' = said \cup {ack}
          /\ Ends(c)
       \/ /\ ack = 0
          /\ caller' = [caller EXCEPT ![c].at = "log"]
          /\ said' = said
    /\ UNCHANGED <<user, ack, gap, preset, keys, log, made, faults, clean>>

\* Get takes every error for "there is none".
LookUpFails(c) ==
    /\ caller[c].at = "look"
    /\ faults < MaxFaults
    /\ faults' = faults + 1
    /\ caller' = [caller EXCEPT ![c].at = "log"]
    /\ clean' = FALSE
    /\ UNCHANGED <<user, ack, gap, preset, keys, log, said, made>>

LogAck(c) ==
    /\ caller[c].at = "log"
    /\ log' = Append(log, Entry(c))
    /\ caller' = [caller EXCEPT ![c].at = "store", ![c].ref = Len(log) + 1]
    /\ UNCHANGED <<user, ack, gap, preset, keys, said, made, faults, clean>>

\* ON CONFLICT DO NOTHING: the row that is there stays, the answer is the
\* caller's own entry; the row's user must exist.
StoreAck(c) ==
    /\ caller[c].at = "store"
    /\ user # NoUser
    /\ ack' = IF ack = 0 THEN caller[c].ref ELSE ack
    /\ said' = said \cup {caller[c].ref}
    /\ Ends(c)
    /\ UNCHANGED <<user, gap, preset, keys, log, made, faults, clean>>

StoreAckRefused(c) ==
    /\ caller[c].at = "store"
    /\ user = NoUser
    /\ Refused(c)

\* UpdateScreenshotPreset: the row first, the entry after it.
ReadPreset(c) ==
    /\ caller[c].at = "read"
    /\ caller' = [caller EXCEPT ![c].at = "update"]
    /\ UNCHANGED <<user, ack, gap, preset, keys, log, said, made, faults, clean>>

UpdatePreset(c) ==
    /\ caller[c].at = "update"
    /\ preset' = caller[c].val
    /\ caller' = [caller EXCEPT ![c].at = "note"]
    /\ UNCHANGED <<user, ack, gap, keys, log, said, made, faults, clean>>

\* Generate: the row first, then an entry that may fail; the entry of a key
\* without a tenant always fails, "" being no uuid.
InsertKey(c) ==
    /\ caller[c].at = "insert"
    /\ user # NoUser
    /\ keys' = keys \cup {caller[c].val}
    /\ \/ caller[c].val = "tenant" /\ caller' = [caller EXCEPT ![c].at = "note"]
       \/ caller[c].val = "system" /\ Ends(c)
    /\ UNCHANGED <<user, ack, gap, preset, log, said, made, faults, clean>>

InsertKeyRefused(c) ==
    /\ caller[c].at = "insert"
    /\ user = NoUser
    /\ Refused(c)

\* The entry after the row: its failure is a warning.
Note(c) ==
    /\ caller[c].at = "note"
    /\ \/ log' = Append(log, Entry(c)) /\ UNCHANGED <<faults, clean>>
       \/ faults < MaxFaults /\ faults' = faults + 1 /\ clean' = FALSE /\ log' = log
    /\ Ends(c)
    /\ UNCHANGED <<user, ack, gap, preset, keys, said, made>>

\* The statement compares one parameter with a uuid and with '': it never runs.
RevokeKey(c) ==
    /\ caller[c].at = "revoke"
    /\ Refused(c)

\* Any statement but the last kind may fail: the call ends there.
Breaks(c) ==
    /\ caller[c].at \in {"audit", "write", "log", "store", "read", "update", "insert"}
    /\ faults < MaxFaults
    /\ faults' = faults + 1
    /\ clean' = FALSE
    /\ Ends(c)
    /\ UNCHANGED <<user, ack, gap, preset, keys, log, said, made>>

Ops == Audited \cup {"acknowledge", "preset", "key", "revoke_key"}

DirNext ==
    \E c \in Callers :
        \/ \E op \in Ops : \E val \in Values(op) : Call(c, op, val)
        \/ Audit(c) \/ Insert(c) \/ InsertRefused(c) \/ ChangeRole(c) \/ ChangeRoleRefused(c)
        \/ Disable(c) \/ Delete(c) \/ DeleteRefused(c)
        \/ AcknowledgeSilence(c) \/ AcknowledgeSilenceRefused(c)
        \/ LookUpAck(c) \/ LookUpFails(c) \/ LogAck(c) \/ StoreAck(c) \/ StoreAckRefused(c)
        \/ ReadPreset(c) \/ UpdatePreset(c) \/ InsertKey(c) \/ InsertKeyRefused(c)
        \/ Note(c) \/ RevokeKey(c) \/ Breaks(c)

DirSpec == DirInit /\ [][DirNext]_dirVars

-----------------------------------------------------------------------------
(* Properties *)

Quiet == \A c \in Callers : caller[c] = Idle
Logged(act) == {i \in DOMAIN log : log[i].act = act}
LastOf(S) == CHOOSE i \in S : \A j \in S : j <= i

\* The log alone tells what the row is: a user's history replayed, from either
\* beginning, when no call overlapped another and none failed.
Follow(u, e) ==
    CASE e.act = "created" -> [role |-> e.val, active |-> TRUE]
      [] e.act = "role_changed" /\ u # NoUser -> [u EXCEPT !.role = e.val]
      [] e.act = "disabled" /\ u # NoUser -> [u EXCEPT !.active = FALSE]
      [] e.act = "deleted" -> NoUser
      [] OTHER -> u

Replayed(row) ==
    LET upTo[n \in 0 .. Len(log)] == IF n = 0 THEN row ELSE Follow(upTo[n - 1], log[n])
    IN  upTo[Len(log)]

LogTellsRow ==
    clean /\ Quiet =>
        /\ user \in {Replayed(NoUser), Replayed([role |-> "hr", active |-> TRUE])}
        /\ Logged("preset") # {} => log[LastOf(Logged("preset"))].val = preset
        /\ Logged("preset") = {} => preset = "low"
        /\ "tenant" \in keys => \E i \in Logged("key") : log[i].val = "tenant"

\* Whatever overlaps and fails, a row shows nothing that was not logged first,
\* and the stored acknowledgement names the entry of an acknowledgement.
LoggedFirst ==
    /\ user.role \notin {"", "hr"} =>
           \E i \in Logged("created") \cup Logged("role_changed") : log[i].val = user.role
    /\ user # NoUser /\ ~user.active => Logged("disabled") # {}
    /\ gap => Logged("silence_acknowledged") # {}
    /\ ack # 0 => ack \in Logged("acknowledge") /\ user # NoUser
    /\ said \subseteq Logged("acknowledge")

DirectoryTrue == LogTellsRow /\ LoggedFirst
=============================================================================
