---------------------------- MODULE StreamRouter ----------------------------
(* The gateway's live view router and the stream handlers it feeds: one     *)
(* endpoint whose agent opens one stream after the other, and the commands  *)
(* the admin API puts on the stream live_view_control.                      *)
EXTENDS Naturals, Sequences, FiniteSets

CONSTANTS
    Gateways,   \* gateway processes; they share one durable consumer
    Streams,    \* the streams the agent ever opens
    ApiCmds,    \* the commands marshalled from the API's structs
    NoStream,
    Cap,        \* capacity of a stream's outbound channel
    FetchMax,   \* bound: messages a gateway holds (FetchNoWait)
    MaxCmds,    \* bound: commands published
    MaxLosses   \* bound: streams that break or are closed

ASSUME RouterAssumption ==
    NoStream \notin Streams /\ {Cap, FetchMax, MaxCmds, MaxLosses} \subseteq Nat

VARIABLES
    registry,   \* Router.streams: the endpoint's stream, per gateway
    stream,     \* Stream: where its handler stands
    host,       \* Stream: its gateway
    outbound,   \* Stream: its outbound channel
    using,      \* the stream the agent reads
    pending,    \* commands in JetStream
    fetched,    \* Gateway: messages fetched and not handled
    target,     \* Gateway: the channel SendToEndpoint has looked up
    got,        \* the commands the agent got, and through which gateway
    dropped,    \* acked and not sent: <<command, reason>>
    published, losses

agentVars == <<using, got, losses>>
natsVars == <<pending, fetched, target, dropped, published>>
vars == <<registry, stream, host, outbound, agentVars, natsVars>>

\* new, reading outbound, blocked in Recv, Recv about to fail, returned.
Phases == {"new", "draining", "receiving", "failing", "gone"}
Reasons == {"unknown type", "not connected", "full"}

TypeOK ==
    /\ registry \in [Gateways -> Streams \cup {NoStream}]
    /\ stream \in [Streams -> Phases]
    /\ host \in [Streams -> Gateways]
    /\ outbound \in [Streams -> Seq(1..MaxCmds)]
    /\ \A s \in Streams : Len(outbound[s]) <= Cap
    /\ using \in Streams \cup {NoStream}
    /\ pending \in Seq(1..MaxCmds)
    /\ fetched \in [Gateways -> Seq(1..MaxCmds)]
    /\ target \in [Gateways -> Streams \cup {NoStream}]
    /\ got \in Seq([cmd : 1..MaxCmds, via : Gateways])
    /\ dropped \subseteq (1..MaxCmds) \X Reasons
    /\ published \in 0..MaxCmds
    /\ losses \in 0..MaxLosses

Init ==
    /\ registry = [g \in Gateways |-> NoStream]
    /\ stream = [s \in Streams |-> "new"]
    /\ host \in [Streams -> Gateways]
    /\ outbound = [s \in Streams |-> <<>>]
    /\ using = NoStream
    /\ pending = <<>>
    /\ fetched = [g \in Gateways |-> <<>>]
    /\ target = [g \in Gateways |-> NoStream]
    /\ got = <<>>
    /\ dropped = {}
    /\ published = 0
    /\ losses = 0

At(s, phase) == stream' = [stream EXCEPT ![s] = phase]

----------------------------------------------------------------------------
(* The agent and its stream handlers *)

\* The handler registers its channel before anything is received.
Register(s) ==
    /\ stream[s] = "new" /\ using = NoStream
    /\ using' = s
    /\ registry' = [registry EXCEPT ![host[s]] = s]
    /\ At(s, "draining")
    /\ UNCHANGED <<host, outbound, got, losses, natsVars>>

\* One outbound message; the agent sees it if it still reads this stream.
Deliver(s) ==
    /\ stream[s] = "draining" /\ outbound[s] # <<>>
    /\ outbound' = [outbound EXCEPT ![s] = Tail(@)]
    /\ got' = IF using = s
              THEN Append(got, [cmd |-> Head(outbound[s]), via |-> host[s]])
              ELSE got
    /\ UNCHANGED <<registry, stream, host, using, losses, natsVars>>

\* Nothing outbound: the handler blocks in Recv.
Receive(s) ==
    /\ stream[s] = "draining" /\ outbound[s] = <<>>
    /\ At(s, "receiving")
    /\ UNCHANGED <<registry, host, outbound, agentVars, natsVars>>

\* Mutant: Recv's goroutine does not look at outbound after a message.
AgentSendsOnly(s) ==
    /\ stream[s] = "receiving" /\ using = s
    /\ UNCHANGED vars

\* A heartbeat or another message wakes it.
AgentSends(s) ==
    /\ stream[s] = "receiving" /\ using = s
    /\ At(s, "draining")
    /\ UNCHANGED <<registry, host, outbound, agentVars, natsVars>>

\* The stream breaks or the agent closes it; the handler learns of it later.
Lose ==
    /\ using # NoStream /\ losses < MaxLosses
    /\ losses' = losses + 1
    /\ using' = NoStream
    /\ UNCHANGED <<registry, stream, host, outbound, got, natsVars>>

\* Mutant: an error from Recv returns without the deferred Unregister.
ReturnRegistered(s) ==
    /\ stream[s] = "failing"
    /\ registry' = registry
    /\ At(s, "gone")
    /\ UNCHANGED <<host, outbound, agentVars, natsVars>>

RecvFails(s) ==
    /\ stream[s] \in {"draining", "receiving"} /\ using # s
    /\ At(s, "failing")
    /\ UNCHANGED <<registry, host, outbound, agentVars, natsVars>>

\* The deferred Unregister names the endpoint, not the stream.
Return(s) ==
    /\ stream[s] = "failing"
    /\ registry' = [registry EXCEPT ![host[s]] = NoStream]
    /\ At(s, "gone")
    /\ UNCHANGED <<host, outbound, agentVars, natsVars>>

----------------------------------------------------------------------------
(* Commands *)

\* The API's PublishLiveViewStart or PublishLiveViewStop.
Publish ==
    /\ published < MaxCmds
    /\ published' = published + 1
    /\ pending' = Append(pending, published')
    /\ UNCHANGED <<registry, stream, host, outbound, agentVars, fetched, target, dropped>>

Fetch(g) ==
    /\ pending # <<>> /\ Len(fetched[g]) < FetchMax
    /\ fetched' = [fetched EXCEPT ![g] = Append(@, Head(pending))]
    /\ pending' = Tail(pending)
    /\ UNCHANGED <<registry, stream, host, outbound, agentVars, target, dropped, published>>

Command(g) == Head(fetched[g])

\* The deferred Ack takes the message off the stream whatever came of it.
Done(g) == fetched' = [fetched EXCEPT ![g] = Tail(@)]

\* The JSON fields of the API's commands, and those the router reads.
ApiFields == {"session_id", "livekit_url", "livekit_room", "agent_token"}
RouterFields == {"command_type", "endpoint_id", "session_id", "livekit_room",
                 "livekit_token"}

Fields(g) == IF Command(g) \in ApiCmds THEN ApiFields ELSE RouterFields

Idle(g) == fetched[g] # <<>> /\ target[g] = NoStream

Drop(g, reason) ==
    /\ dropped' = dropped \cup {<<Command(g), reason>>}
    /\ Done(g)
    /\ UNCHANGED <<registry, stream, host, outbound, agentVars, pending, published>>

\* The body is unmarshalled into liveViewCommand: a field it lacks is "".
UnknownType(g) ==
    /\ Idle(g) /\ "command_type" \notin Fields(g)
    /\ Drop(g, "unknown type")
    /\ UNCHANGED target

NotConnected(g) ==
    /\ Idle(g) /\ "command_type" \in Fields(g)
    /\ "endpoint_id" \notin Fields(g) \/ registry[g] = NoStream
    /\ Drop(g, "not connected")
    /\ UNCHANGED target

\* The channel is read under the lock and used after it.
Lookup(g) ==
    /\ Idle(g) /\ {"command_type", "endpoint_id"} \subseteq Fields(g)
    /\ registry[g] # NoStream
    /\ target' = [target EXCEPT ![g] = registry[g]]
    /\ UNCHANGED <<registry, stream, host, outbound, agentVars, pending, fetched,
                   dropped, published>>

Send(g) ==
    /\ target[g] # NoStream /\ Len(outbound[target[g]]) < Cap
    /\ outbound' = [outbound EXCEPT ![target[g]] = Append(@, Command(g))]
    /\ target' = [target EXCEPT ![g] = NoStream]
    /\ Done(g)
    /\ UNCHANGED <<registry, stream, host, agentVars, pending, dropped, published>>

Full(g) ==
    /\ target[g] # NoStream /\ Len(outbound[target[g]]) >= Cap
    /\ target' = [target EXCEPT ![g] = NoStream]
    /\ Drop(g, "full")

Handler(s) == Deliver(s) \/ Receive(s) \/ RecvFails(s) \/ Return(s)
Route(g) ==
    Fetch(g) \/ UnknownType(g) \/ NotConnected(g) \/ Lookup(g) \/ Send(g) \/ Full(g)

Next ==
    \/ Publish \/ Lose
    \/ \E s \in Streams : Register(s) \/ AgentSends(s) \/ Handler(s)
    \/ \E g \in Gateways : Route(g)

Spec == Init /\ [][Next]_vars

\* Goroutines keep running, and an agent with a stream keeps sending heartbeats.
FairSpec ==
    /\ Spec
    /\ \A s \in Streams : WF_vars(Handler(s)) /\ WF_vars(AgentSends(s))
    /\ \A g \in Gateways : WF_vars(Route(g))

----------------------------------------------------------------------------
(* Safety *)

\* The router never points to a handler that has returned, although handlers of
\* one endpoint register and unregister over each other (Register, Unregister).
\* Every variable keeps its type, and no channel holds more than its capacity.
NoDangling ==
    /\ TypeOK
    /\ \A g \in Gateways : registry[g] # NoStream => stream[registry[g]] # "gone"

\* One gateway never hands the agent a stop and then the start before it, across
\* reconnects too: what a broken stream still holds is never seen.  Two gateways
\* that share the consumer do.
InOrder ==
    \A i, j \in 1..Len(got) :
        i < j /\ got[i].via = got[j].via => got[i].cmd < got[j].cmd

\* What the router's map, and the order of what it hands on, keep across reconnects.
RouterTrue == NoDangling /\ InOrder

----------------------------------------------------------------------------
(* Liveness *)

\* On its way to the stream the agent reads: looked up for it, or in its channel.
InTransit(i) ==
    \E s \in Streams :
        /\ using = s
        /\ \/ \E g \in Gateways : target[g] = s /\ Command(g) = i
           \/ \E k \in 1..Len(outbound[s]) : outbound[s][k] = i

\* A command the router has looked a stream up for gets to the agent, although the
\* handler that must send it blocks in Recv with the channel filling: unless the
\* channel is full or the agent leaves that stream.  No command is looked up twice,
\* so none is for ever on its way if again and again none is.
SentArrives == []<>(\A i \in 1..MaxCmds : ~InTransit(i))
=============================================================================
