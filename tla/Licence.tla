------------------------------- MODULE Licence -------------------------------
(* The licence: the file an operator drops, what the last refresh made of it,   *)
(* and what the vendor's server said last, kept for the days it cannot be       *)
(* reached.  Every answer is from memory, so it is as old as the last refresh,  *)
(* and nothing says when the next one is: the ticker that license.go asks for   *)
(* is not there, and the handler that refreshes waits for somebody to call it.  *)
EXTENDS Integers

CONSTANTS
    Files,       \* the files an operator may drop, see Ends and Sound
    EndsAt,      \* when each licence ends
    Signed,      \* those the vendor signed, for this host or for any
    Grace,       \* for how long an ended licence may still be read with
    StaleAfter,  \* for how long the server's last word counts
    Permissive,  \* AllowMissing: a laptop may run without a file
    MaxTime      \* bound on the clock

VARIABLES
    disk,    \* the file there is, "missing" or "unreadable"
    now, checked,
    state, claims,       \* what the refresh made of it
    word, wordAt,        \* the server's last 2xx answer, and when
    heard,               \* the answer of the last Validate
    server               \* what the server thinks of this licence

licVars == <<disk, now, checked, state, claims, word, wordAt, heard, server>>

None == "none"
Dev == "dev"
NoAnswer == [valid |-> FALSE, ok |-> FALSE, from |-> "nowhere", at |-> 0]

\* Refresh: the first check that fails decides, and the old claims stay.
StateOf(file) ==
    CASE file = "missing" -> "missing"
      [] file = "unreadable" -> "invalid"
      [] file \in Files \ Signed -> "invalid"
      [] file \in Signed /\ now < EndsAt[file] -> "valid"
      [] file \in Signed /\ now >= EndsAt[file] /\ now < EndsAt[file] + Grace -> "grace"
      [] OTHER -> "expired"

Loaded(file, old) == IF file \in Signed THEN file ELSE old

\* NewService: a first refresh, or the laptop's licence without a file.
LicInit ==
    /\ disk \in Files \cup {"missing"}
    /\ now = 0 /\ checked = 0
    /\ IF disk = "missing" /\ Permissive
       THEN state = "valid" /\ claims = Dev
       ELSE state = StateOf(disk) /\ claims = Loaded(disk, None)
    /\ word = FALSE /\ wordAt = -1
    /\ heard = NoAnswer
    /\ server = "valid"

Drop(file) ==
    /\ disk # file
    /\ disk' = file
    /\ UNCHANGED <<now, checked, state, claims, word, wordAt, heard, server>>

Refresh ==
    /\ checked' = now
    /\ state' = StateOf(disk)
    /\ claims' = Loaded(disk, claims)
    /\ UNCHANGED <<disk, now, word, wordAt, heard, server>>

\* Time passes, however long ago the last refresh was.
Tick ==
    /\ now < MaxTime
    /\ now' = now + 1
    /\ UNCHANGED <<disk, checked, state, claims, word, wordAt, heard, server>>

ServerDecides ==
    /\ server' \in {"valid", "revoked", "unknown"} \ {server}
    /\ UNCHANGED <<disk, now, checked, state, claims, word, wordAt, heard>>

\* A 2xx is kept; a 4xx is answered and not kept.
Validate ==
    /\ \/ /\ server # "unknown"
          /\ word' = (server = "valid")
          /\ wordAt' = now
          /\ heard' = [valid |-> word', ok |-> TRUE, from |-> "server", at |-> now]
       \/ /\ server = "unknown"
          /\ heard' = [valid |-> FALSE, ok |-> FALSE, from |-> "server", at |-> now]
          /\ UNCHANGED <<word, wordAt>>
    /\ UNCHANGED <<disk, now, checked, state, claims, server>>

\* fallbackCache: the network, a 5xx, a garbled answer.
FallbackCache ==
    /\ heard' =
         IF wordAt = -1 THEN [NoAnswer EXCEPT !.at = now]
         ELSE [valid |-> word, ok |-> now - wordAt <= StaleAfter, from |-> "cache", at |-> now]
    /\ UNCHANGED <<disk, now, checked, state, claims, word, wordAt, server>>

LicNext ==
    \/ \E f \in Files \cup {"missing", "unreadable"} : Drop(f)
    \/ Refresh \/ Tick \/ ServerDecides \/ Validate \/ FallbackCache

LicSpec == LicInit /\ [][LicNext]_licVars

-----------------------------------------------------------------------------
(* Properties *)

\* RequireWritable.
Writable == state = "valid"

\* Who writes or reads on a licence does so by one the vendor signed that had
\* not ended, or was in its grace, when it was last checked, and by the one that
\* was counted by then; a check that failed leaves the old count standing.
AsChecked ==
    /\ Writable => claims # None
    /\ Writable /\ claims \in Files => checked < EndsAt[claims]
    /\ state = "grace" => claims \in Signed /\ checked \in EndsAt[claims]..(EndsAt[claims] + Grace - 1)
    /\ state = "expired" => claims \in Signed /\ checked >= EndsAt[claims] + Grace
    /\ claims \in Signed \cup {None, Dev}
    /\ claims = Dev => Permissive

\* A word from the cache is the server's last kept one, and "valid" counts no
\* longer than StaleAfter.
CacheTrue ==
    heard.from = "cache" /\ heard.ok /\ heard.at = now =>
        /\ wordAt >= 0 /\ now - wordAt <= StaleAfter
        /\ heard.valid = word

LicenceTrue == AsChecked /\ CacheTrue
=============================================================================
