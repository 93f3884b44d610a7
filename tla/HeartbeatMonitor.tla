-------------------------- MODULE HeartbeatMonitor --------------------------
(* The gateways' heartbeat monitors and one endpoint: what its streams tell *)
(* a monitor, and what the monitor's sweep makes of its silence. Time is    *)
(* counted in ticks of the sweep (CheckInterval, 30 s).                     *)
EXTENDS Naturals

CONSTANTS
    Gateways,   \* gateway processes, each with a monitor of its own
    Streams,    \* the streams the agent ever opens
    NoStream, NoRecord,
    Degraded, Offline, Extended,    \* HeartbeatConfig's thresholds, in ticks
    Suspend,    \* classifyGap's 15 minutes, in ticks
    KeepAlive,  \* ticks until a handler has learned that its stream ended
    MaxAborts,  \* bound: handlers that return without telling the monitor
    MaxFails,   \* bound: publications that fail
    MaxRestarts \* bound: gateway restarts

VARIABLES
    record,     \* Gateway: Monitor.endpoints[endpoint]
    gap,        \* Gateway: ticks since the record's LastSeen
    sweeping,   \* Gateway: the sweep's snapshot and its verdict
    stream,     \* Stream: the agent's end and the handler's
    host,       \* Stream: its gateway
    age,        \* Stream: ticks since it ended, its handler not knowing
    using,      \* the stream the agent is connected by
    quiet,      \* ticks since the agent was connected
    byeAge,     \* ticks since it last closed a stream cleanly
    parting,    \* how it last ended a stream
    reported,   \* the last transition published
    aborts, fails, restarts

agentVars == <<using, quiet, byeAge, parting>>
bounds == <<aborts, fails, restarts>>
vars == <<record, gap, sweeping, stream, host, age, agentVars, reported, bounds>>

States == {"online", "degraded", "offline", "offline_extended"}
Classes == {"graceful_shutdown", "suspected_suspend", "unreachable",
            "disappeared_unexpectedly"}
Phases == {"new", "open", "eof", "lost", "gone"}
\* A clean close, an end soon after one, any other end.
Partings == {"bye", "after bye", "broken"}
Records == [state : States, bye : BOOLEAN]
Verdicts == [to : States, class : Classes, quiet : 0..Extended, parting : Partings,
             sent : BOOLEAN]

\* How long a clean close may still mark a later connection: until its handler
\* knows, and one heartbeat more.
Recent == KeepAlive + 1

TypeOK ==
    /\ record \in [Gateways -> Records \cup {NoRecord}]
    /\ gap \in [Gateways -> 0..Extended]
    /\ sweeping \in [Gateways -> Verdicts \cup {NoRecord}]
    /\ stream \in [Streams -> Phases]
    /\ host \in [Streams -> Gateways]
    /\ age \in [Streams -> 0..KeepAlive]
    /\ using \in Streams \cup {NoStream}
    /\ quiet \in 0..Extended
    /\ byeAge \in 0..(Recent + 1)
    /\ parting \in Partings
    /\ reported \in [to : States, class : Classes]
    /\ aborts \in 0..MaxAborts
    /\ fails \in 0..MaxFails
    /\ restarts \in 0..MaxRestarts

Init ==
    /\ record = [g \in Gateways |-> NoRecord]
    /\ gap = [g \in Gateways |-> 0]
    /\ sweeping = [g \in Gateways |-> NoRecord]
    /\ stream = [s \in Streams |-> "new"]
    /\ host \in [Streams -> Gateways]
    /\ age = [s \in Streams |-> 0]
    /\ using = NoStream
    /\ quiet = 0
    /\ byeAge = Recent + 1
    /\ parting = "broken"
    /\ reported = [to |-> "online", class |-> "suspected_suspend"]
    /\ aborts = 0 /\ fails = 0 /\ restarts = 0

Fresh == [state |-> "online", bye |-> FALSE]

----------------------------------------------------------------------------
(* What the streams tell the monitor *)

\* LastSeen is set to now, and the record to rec.
See(g, rec) ==
    /\ record' = [record EXCEPT ![g] = rec]
    /\ gap' = [gap EXCEPT ![g] = 0]

\* The agent was connected until now.
Part ==
    /\ using' = NoStream
    /\ quiet' = 0
    /\ parting' = IF byeAge <= Recent THEN "after bye" ELSE "broken"

\* Mutant: a record that is there is kept.
ConnectKept(s) ==
    LET old == record[host[s]] IN
    /\ stream[s] = "new" /\ using = NoStream
    /\ stream' = [stream EXCEPT ![s] = "open"]
    /\ using' = s /\ quiet' = 0
    /\ See(host[s], IF old = NoRecord THEN Fresh ELSE [old EXCEPT !.state = "online"])
    /\ UNCHANGED <<sweeping, host, age, byeAge, parting, reported, bounds>>

\* RecordConnect, after the Hello: a new record.
Connect(s) ==
    /\ stream[s] = "new" /\ using = NoStream
    /\ stream' = [stream EXCEPT ![s] = "open"]
    /\ using' = s /\ quiet' = 0
    /\ See(host[s], Fresh)
    /\ UNCHANGED <<sweeping, host, age, byeAge, parting, reported, bounds>>

\* RecordHeartbeat; a handler may still be reading what a dead stream sent.
Heartbeat(s) ==
    /\ stream[s] \in {"open", "eof", "lost"}
    /\ See(host[s], Fresh)
    /\ UNCHANGED <<sweeping, stream, host, age, agentVars, reported, bounds>>

\* The agent closes its end.
Close(s) ==
    /\ using = s
    /\ stream' = [stream EXCEPT ![s] = "eof"]
    /\ using' = NoStream /\ quiet' = 0
    /\ byeAge' = 0 /\ parting' = "bye"
    /\ UNCHANGED <<record, gap, sweeping, host, age, reported, bounds>>

\* The connection breaks or the agent dies.
Lose(s) ==
    /\ using = s
    /\ stream' = [stream EXCEPT ![s] = "lost"]
    /\ Part
    /\ UNCHANGED <<record, gap, sweeping, host, age, byeAge, reported, bounds>>

\* Recv returns the end of the stream; a record is changed, never made.
Ends(s, bye) ==
    LET g == host[s] IN
    /\ IF record[g] = NoRecord
       THEN UNCHANGED <<record, gap>>
       ELSE See(g, [record[g] EXCEPT !.bye = bye])
    /\ stream' = [stream EXCEPT ![s] = "gone"]
    /\ UNCHANGED <<sweeping, host, age, agentVars, reported, bounds>>

RecordBye(s) == stream[s] = "eof" /\ Ends(s, TRUE)
RecordDisconnect(s) == stream[s] = "lost" /\ Ends(s, FALSE)

\* A failed Send, a refused message: the handler returns and tells nobody.
Abort(s) ==
    /\ stream[s] \in {"open", "eof", "lost"} /\ aborts < MaxAborts
    /\ aborts' = aborts + 1
    /\ stream' = [stream EXCEPT ![s] = "gone"]
    /\ IF using = s THEN Part ELSE UNCHANGED <<using, quiet, parting>>
    /\ UNCHANGED <<record, gap, sweeping, host, age, byeAge, reported, fails, restarts>>

----------------------------------------------------------------------------
(* The sweep *)

\* Monitor.classifyGap
StateOf(d) ==
    CASE d >= Extended -> "offline_extended"
      [] d >= Offline /\ d < Extended -> "offline"
      [] d >= Degraded /\ d < Offline -> "degraded"
      [] OTHER -> "online"

\* classifyGap
ClassOf(bye, d) ==
    CASE bye -> "graceful_shutdown"
      [] ~bye /\ d < Suspend -> "suspected_suspend"
      [] ~bye /\ d >= Suspend /\ d < Extended -> "unreachable"
      [] OTHER -> "disappeared_unexpectedly"

\* Mutant: an offline endpoint is not swept again.
SweepOnce(g) ==
    /\ record[g] # NoRecord /\ sweeping[g] = NoRecord
    /\ StateOf(gap[g]) # record[g].state /\ record[g].state # "offline"
    /\ sweeping' = [sweeping EXCEPT ![g] =
           [to |-> StateOf(gap[g]), class |-> ClassOf(record[g].bye, gap[g]),
            quiet |-> quiet, parting |-> parting, sent |-> FALSE]]
    /\ UNCHANGED <<record, gap, stream, host, age, agentVars, reported, bounds>>

\* A snapshot whose state is no longer that of its gap.
Sweep(g) ==
    /\ record[g] # NoRecord /\ sweeping[g] = NoRecord
    /\ StateOf(gap[g]) # record[g].state
    /\ sweeping' = [sweeping EXCEPT ![g] =
           [to |-> StateOf(gap[g]), class |-> ClassOf(record[g].bye, gap[g]),
            quiet |-> quiet, parting |-> parting, sent |-> FALSE]]
    /\ UNCHANGED <<record, gap, stream, host, age, agentVars, reported, bounds>>

\* PublishStateTransition, outside the lock; a failure is logged.
Publish(g) ==
    /\ sweeping[g] # NoRecord /\ ~sweeping[g].sent
    /\ sweeping' = [sweeping EXCEPT ![g].sent = TRUE]
    /\ \/ /\ reported' = [to |-> sweeping[g].to, class |-> sweeping[g].class]
          /\ UNCHANGED fails
       \/ /\ fails < MaxFails
          /\ fails' = fails + 1
          /\ UNCHANGED reported
    /\ UNCHANGED <<record, gap, stream, host, age, agentVars, aborts, restarts>>

\* The verdict goes to whatever record is there now.
Write(g) ==
    /\ sweeping[g] # NoRecord /\ sweeping[g].sent
    /\ record' = [record EXCEPT ![g] =
           IF @ = NoRecord THEN @ ELSE [@ EXCEPT !.state = sweeping[g].to]]
    /\ sweeping' = [sweeping EXCEPT ![g] = NoRecord]
    /\ UNCHANGED <<gap, stream, host, age, agentVars, reported, bounds>>

Ended(s) == stream[s] \in {"eof", "lost"}
Saturated(d, max) == IF d < max THEN d + 1 ELSE max

\* Handlers learn of an end by the server's keepalive, a connected agent sends a
\* heartbeat every tick, and a sweep is over before the next.
Tick ==
    /\ \A s \in Streams : Ended(s) => age[s] < KeepAlive
    /\ using # NoStream => gap[host[using]] = 0
    /\ \A g \in Gateways : sweeping[g] = NoRecord
    /\ gap' = [g \in Gateways |-> IF record[g] = NoRecord THEN 0 ELSE Saturated(gap[g], Extended)]
    /\ age' = [s \in Streams |-> IF Ended(s) THEN age[s] + 1 ELSE age[s]]
    /\ quiet' = IF using = NoStream THEN Saturated(quiet, Extended) ELSE 0
    /\ byeAge' = Saturated(byeAge, Recent + 1)
    /\ UNCHANGED <<record, sweeping, stream, host, using, parting, reported, bounds>>

\* The process ends with its streams and its map, which nothing keeps.
Restart(g) ==
    /\ restarts < MaxRestarts
    /\ restarts' = restarts + 1
    /\ record' = [record EXCEPT ![g] = NoRecord]
    /\ gap' = [gap EXCEPT ![g] = 0]
    /\ sweeping' = [sweeping EXCEPT ![g] = NoRecord]
    /\ stream' = [s \in Streams |->
           IF host[s] = g /\ stream[s] # "new" THEN "gone" ELSE stream[s]]
    /\ IF using # NoStream /\ host[using] = g
       THEN Part ELSE UNCHANGED <<using, quiet, parting>>
    /\ UNCHANGED <<host, age, byeAge, reported, aborts, fails>>

Monitor(g) == Sweep(g) \/ Publish(g) \/ Write(g)
HandlerEnds(s) == RecordBye(s) \/ RecordDisconnect(s)

Next ==
    \/ Tick
    \/ \E s \in Streams : Connect(s) \/ Heartbeat(s) \/ Close(s) \/ Lose(s)
                            \/ HandlerEnds(s) \/ Abort(s)
    \/ \E g \in Gateways : Monitor(g) \/ Restart(g)

Spec == Init /\ [][Next]_vars

\* Time passes, the ticker fires, handlers learn of the end of their stream, and
\* a connected agent sends heartbeats.
FairSpec ==
    /\ Spec
    /\ WF_vars(Tick)
    /\ \A g \in Gateways : WF_vars(Monitor(g))
    /\ \A s \in Streams : WF_vars(HandlerEnds(s)) /\ WF_vars(using = s /\ Heartbeat(s))

----------------------------------------------------------------------------
(* Safety *)

Least(state) ==
    CASE state = "offline_extended" -> Extended
      [] state = "offline" -> Offline
      [] state = "degraded" -> Degraded
      [] OTHER -> 0

\* One gateway's sweep never calls an endpoint silent that was connected less than
\* the threshold (and one heartbeat) ago, whatever handlers of older streams do.
\* With two gateways it does: each keeps a record the other's streams never touch.
\* Every variable keeps its type.
NoFalseAlarm ==
    /\ TypeOK
    /\ \A g \in Gateways :
          sweeping[g] # NoRecord => sweeping[g].quiet + 1 >= Least(sweeping[g].to)

\* A clean close excuses the silence it began, and never a silence that began
\* after a later connection had outlived the old stream's handler.
NoOldExcuse ==
    \A g \in Gateways :
        (sweeping[g] # NoRecord /\ sweeping[g].to # "online"
            /\ sweeping[g].class = "graceful_shutdown") => sweeping[g].parting # "broken"

\* What a sweep makes of a silence, and how it excuses it.
SilenceTrue == NoFalseAlarm /\ NoOldExcuse

----------------------------------------------------------------------------
(* Liveness *)

StateIs(g, state) == record[g] # NoRecord /\ record[g].state = state

\* A subscriber of agent.health learns of an endpoint that stays away, whatever
\* older streams' handlers still tell the monitor, unless a publication failed or
\* the gateway restarted and forgot the endpoint (sweep).
DarkReported ==
    \A g \in Gateways :
        []<>(\/ using # NoStream
             \/ reported.to = "offline_extended"
             \/ fails > 0
             \/ record[g] = NoRecord)

\* An endpoint that stays connected is online again for good, also when the
\* sweep's verdict was written after the connection (the sweep's last step).
OnlineAgain ==
    <>[](using # NoStream) => <>[](using # NoStream /\ StateIs(host[using], "online"))

\* What the subscribers learn in the end, and what the record shows.
Told == DarkReported /\ OnlineAgain
=============================================================================
