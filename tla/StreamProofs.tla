---------------------------- MODULE StreamProofs ----------------------------
(***************************************************************************)
(* The router's map and the order of the agent's commands, for any number  *)
(* of gateways, streams, commands and losses and any capacity.  A map      *)
(* entry of a gateway is a stream of that gateway whose handler runs, so   *)
(* the Unregister of a handler clears its own entry or an older one's.     *)
(* The order follows a command on its way: what a gateway has fetched is   *)
(* younger than what it put into any channel, and what is in the channel   *)
(* the agent reads is younger than what the agent got from that gateway.   *)
(*                                                                         *)
(* Then the audit stream, the part of MCStreams whose steps are Audit's,    *)
(* and the heartbeat monitor, whose steps are Health's.                    *)
(***************************************************************************)
EXTENDS MCStreams, FiniteSetTheorems, SequenceTheorems, TLAPS

Members(q) == {q[k] : k \in 1 .. Len(q)}
Rising(q) == \A i, j \in 1 .. Len(q) : i < j => q[i] < q[j]
Older(S, T) == \A c \in S, d \in T : c < d

\* The commands the agent got through gateway g.
Through(g) == {got[i].cmd : i \in {k \in 1 .. Len(got) : got[k].via = g}}

\* A map entry is a stream of this gateway, whose handler runs.
Entries ==
    \A g \in Gateways : registry[g] # NoStream =>
        host[registry[g]] = g /\ stream[registry[g]] \notin {"new", "gone"}

\* A channel that was looked up is one of this gateway's, for the command in hand.
Targets ==
    \A g \in Gateways : target[g] # NoStream =>
        host[target[g]] = g /\ stream[target[g]] # "new" /\ fetched[g] # <<>>

NewEmpty == \A s \in Streams : stream[s] = "new" => outbound[s] = <<>>

\* Commands are published and fetched in order.
Queued ==
    /\ Rising(pending) /\ \A c \in Members(pending) : c <= published
    /\ \A g \in Gateways :
         /\ Rising(fetched[g]) /\ Older(Members(fetched[g]), Members(pending))
         /\ \A c \in Members(fetched[g]) : c <= published

\* What a channel holds is in order, and older than what its gateway still has.
Channels ==
    \A s \in Streams :
        /\ Rising(outbound[s]) /\ Older(Members(outbound[s]), Members(fetched[host[s]]))
        /\ Older(Members(outbound[s]), Members(pending))
        /\ \A c \in Members(outbound[s]) : c <= published

\* What the agent got is older than what its gateways and its channel hold.
Behind ==
    /\ \A g \in Gateways :
         /\ Older(Through(g), Members(fetched[g])) /\ Older(Through(g), Members(pending))
         /\ \A c \in Through(g) : c <= published
    /\ using # NoStream => Older(Through(host[using]), Members(outbound[using]))

IInv == TypeOK /\ Entries /\ Targets /\ NewEmpty /\ Queued /\ Channels /\ Behind /\ InOrder

Cmds == 1 .. MaxCmds

-----------------------------------------------------------------------------
(* Sequences in order.                                                       *)

LEMMA EmptyRises == Members(<<>>) = {} /\ Rising(<<>>)
BY DEF Members, Rising

LEMMA AppendRises ==
    ASSUME NEW q \in Seq(Cmds), NEW c \in Cmds, Rising(q), Older(Members(q), {c})
    PROVE  Rising(Append(q, c)) /\ Members(Append(q, c)) = Members(q) \cup {c}
<1> DEFINE a == Append(q, c)
<1>1. /\ Len(q) \in Nat /\ Len(a) = Len(q) + 1 /\ a[Len(q) + 1] = c
      /\ \A i \in 1 .. Len(q) : a[i] = q[i] /\ q[i] \in Cmds
  BY AppendProperties, LenProperties, ElementOfSeq
<1> HIDE DEF a
<1>2. 1 .. Len(a) = 1 .. Len(q) \cup {Len(q) + 1}
  BY <1>1
<1>3. Members(a) = Members(q) \cup {c}
  BY <1>1, <1>2 DEF Members
<1>4. ASSUME NEW i \in 1 .. Len(a), NEW j \in 1 .. Len(a), i < j
      PROVE  a[i] < a[j]
  <2>1. i \in 1 .. Len(q)
    BY <1>1, <1>4
  <2>2. q[i] < c
    BY <2>1 DEF Older, Members
  <2>3. CASE j \in 1 .. Len(q)
    BY <1>1, <1>4, <2>1, <2>3 DEF Rising
  <2>4. CASE j = Len(q) + 1
    BY <1>1, <2>1, <2>2, <2>4
  <2> QED BY <1>2, <2>3, <2>4
<1> QED BY <1>3, <1>4 DEF Rising, a

LEMMA TailRises ==
    ASSUME NEW q \in Seq(Cmds), q # <<>>, Rising(q)
    PROVE  /\ Head(q) \in Cmds /\ Head(q) \in Members(q)
           /\ Tail(q) \in Seq(Cmds) /\ Rising(Tail(q)) /\ Len(Tail(q)) < Len(q)
           /\ Members(Tail(q)) \subseteq Members(q) /\ Older({Head(q)}, Members(Tail(q)))
<1> DEFINE t == Tail(q)
<1>1. /\ Len(q) \in Nat \ {0} /\ t \in Seq(Cmds) /\ Len(t) = Len(q) - 1 /\ Head(q) \in Cmds
      /\ Head(q) = q[1] /\ \A i \in 1 .. Len(t) : t[i] = q[i + 1]
  BY HeadTailProperties, EmptySeq
<1> HIDE DEF t
<1>2. \A i \in 1 .. Len(t) : i + 1 \in 1 .. Len(q) /\ 1 < i + 1 /\ 1 \in 1 .. Len(q)
  BY <1>1
<1>3. Head(q) \in Members(q) /\ Members(t) \subseteq Members(q)
  BY <1>1, <1>2 DEF Members
<1>4. \A i \in 1 .. Len(t) : Head(q) < t[i]
  BY <1>1, <1>2 DEF Rising
<1>5. Older({Head(q)}, Members(t))
  BY <1>4 DEF Older, Members
<1>6. Rising(t)
  <2> SUFFICES ASSUME NEW i \in 1 .. Len(t), NEW j \in 1 .. Len(t), i < j
               PROVE  t[i] < t[j]
    BY DEF Rising
  <2>1. i + 1 < j + 1 /\ i + 1 \in 1 .. Len(q) /\ j + 1 \in 1 .. Len(q)
    BY <1>1
  <2> QED BY <1>1, <2>1 DEF Rising
<1> QED BY <1>1, <1>3, <1>5, <1>6 DEF t

LEMMA MembersType == ASSUME NEW q \in Seq(Cmds) PROVE Members(q) \subseteq Cmds
BY ElementOfSeq DEF Members

\* The agent gets one command more from gateway g.
LEMMA GotMore ==
    ASSUME TypeOK, InOrder, NEW g \in Gateways, NEW c \in Cmds, Older(Through(g), {c}),
           got' = Append(got, [cmd |-> c, via |-> g])
    PROVE  /\ InOrder' /\ got' \in Seq([cmd : Cmds, via : Gateways])
           /\ \A h \in Gateways : Through(h)' \subseteq Through(h) \cup (IF h = g THEN {c} ELSE {})
<1> DEFINE e == [cmd |-> c, via |-> g]
           Got == [cmd : Cmds, via : Gateways]
<1>1. e \in Got /\ e.cmd = c /\ e.via = g /\ got \in Seq(Got)
  BY DEF TypeOK, Cmds
<1> HIDE DEF e, Got
<1>2. got' = Append(got, e)
  BY DEF e
<1>3. /\ Len(got) \in Nat /\ Len(got') = Len(got) + 1 /\ got'[Len(got) + 1] = e
      /\ (\A i \in 1 .. Len(got) : got'[i] = got[i]) /\ got' \in Seq(Got)
  BY <1>1, <1>2, AppendProperties, LenProperties
<1>4. 1 .. Len(got') = 1 .. Len(got) \cup {Len(got) + 1}
  BY <1>3
<1>5. ASSUME NEW i \in 1 .. Len(got'), NEW j \in 1 .. Len(got'), i < j, got'[i].via = got'[j].via
      PROVE  got'[i].cmd < got'[j].cmd
  <2>1. i \in 1 .. Len(got) /\ got'[i] = got[i]
    BY <1>3, <1>5
  <2>2. CASE j \in 1 .. Len(got)
    BY <1>3, <1>5, <2>1, <2>2 DEF InOrder
  <2>3. CASE j = Len(got) + 1
    <3>1. got[i].via = g /\ got'[j].cmd = c
      BY <1>1, <1>3, <1>5, <2>1, <2>3
    <3>2. got[i].cmd \in Through(g)
      BY <2>1, <3>1 DEF Through
    <3> QED BY <2>1, <3>1, <3>2 DEF Older
  <2> QED BY <1>4, <2>2, <2>3
<1>6. ASSUME NEW h \in Gateways, NEW d \in Through(h)'
      PROVE  d \in Through(h) \cup (IF h = g THEN {c} ELSE {})
  <2>1. PICK i \in 1 .. Len(got') : got'[i].via = h /\ d = got'[i].cmd
    BY <1>6 DEF Through
  <2>2. CASE i \in 1 .. Len(got)
    BY <1>3, <2>1, <2>2 DEF Through
  <2>3. CASE i = Len(got) + 1
    BY <1>1, <1>3, <2>1, <2>3
  <2> QED BY <1>4, <2>2, <2>3
<1> QED BY <1>3, <1>5, <1>6 DEF InOrder, Got

-----------------------------------------------------------------------------
LEMMA InitIInv == Init => IInv
<1> SUFFICES ASSUME Init PROVE IInv
  OBVIOUS
<1>1. TypeOK
  <2>1. <<>> \in Seq(Cmds) /\ Len(<<>>) <= Cap /\ <<>> \in Seq([cmd : Cmds, via : Gateways])
    BY EmptySeq, RouterAssumption
  <2> QED BY <2>1, RouterAssumption DEF Init, TypeOK, Phases, Cmds
<1>2. Entries /\ Targets /\ NewEmpty /\ InOrder
  BY DEF Init, Entries, Targets, NewEmpty, InOrder
<1>3. Queued /\ Channels /\ Behind
  <2>1. \A g \in Gateways : Through(g) = {}
    BY DEF Init, Through
  <2> QED BY <2>1, EmptyRises DEF Init, Queued, Channels, Behind, Older
<1> QED BY <1>1, <1>2, <1>3 DEF IInv

\* A step of a handler or of the agent that moves no command.
LEMMA HandlerIInv ==
    ASSUME IInv, TypeOK', Entries', UNCHANGED <<host, outbound, got, natsVars>>,
           \A s \in Streams : stream'[s] = "new" => stream[s] = "new",
           using' # using /\ using' # NoStream => outbound[using'] = <<>>
    PROVE  IInv'
<1>1. \A g \in Gateways : Through(g)' = Through(g)
  BY DEF Through
<1>2. Queued' /\ Channels' /\ InOrder'
  BY DEF natsVars, IInv, Queued, Channels, InOrder
<1>3. NewEmpty'
  BY DEF IInv, NewEmpty
<1>4. Targets'
  BY DEF natsVars, IInv, Targets, TypeOK
<1>5. Behind'
  <2>1. \A g \in Gateways : /\ Older(Through(g)', Members(fetched'[g])) /\ Older(Through(g)', Members(pending'))
                            /\ \A c \in Through(g)' : c <= published'
    BY <1>1 DEF natsVars, IInv, Behind
  <2>2. ASSUME using' # NoStream
        PROVE  Older(Through(host[using]), Members(outbound[using]))'
    <3>1. CASE using' = using
      BY <2>2, <3>1 DEF IInv, Behind, Through
    <3>2. CASE using' # using
      BY <2>2, <3>2, EmptyRises DEF Older
    <3> QED BY <3>1, <3>2
  <2> QED BY <2>1, <2>2 DEF Behind
<1> QED BY <1>2, <1>3, <1>4, <1>5 DEF IInv

LEMMA RegisterIInv == ASSUME IInv, NEW s \in Streams, Register(s) PROVE IInv'
<1>1. /\ stream[s] = "new" /\ using = NoStream /\ using' = s
      /\ registry' = [registry EXCEPT ![host[s]] = s] /\ stream' = [stream EXCEPT ![s] = "draining"]
      /\ UNCHANGED <<host, outbound, got, losses, natsVars>>
  BY DEF Register, At
<1>2. TypeOK'
  BY <1>1 DEF natsVars, IInv, TypeOK, Phases
<1>3. Entries'
  BY <1>1, RouterAssumption DEF IInv, TypeOK, Entries
<1>4. outbound[s] = <<>>
  BY <1>1 DEF IInv, NewEmpty
<1>5. \A r \in Streams : stream'[r] = "new" => stream[r] = "new"
  BY <1>1 DEF IInv, TypeOK
<1> QED BY <1>1, <1>2, <1>3, <1>4, <1>5, HandlerIInv

\* The handler's own phase changes; a running one stays a running one.
LEMMA PhaseIInv ==
    ASSUME IInv, NEW s \in Streams, NEW phase \in Phases \ {"new", "gone"}, stream[s] # "new",
           stream' = [stream EXCEPT ![s] = phase], using' \in {using, NoStream},
           losses' \in 0 .. MaxLosses, UNCHANGED <<registry, host, outbound, got, natsVars>>
    PROVE  IInv'
<1>1. TypeOK'
  BY DEF natsVars, IInv, TypeOK, Phases
<1>2. Entries'
  BY DEF IInv, TypeOK, Entries
<1>3. \A r \in Streams : stream'[r] = "new" => stream[r] = "new"
  BY DEF IInv, TypeOK
<1> QED BY <1>1, <1>2, <1>3, HandlerIInv

LEMMA LoseIInv == ASSUME IInv, Lose PROVE IInv'
<1>1. TypeOK'
  BY RouterAssumption DEF Lose, natsVars, IInv, TypeOK
<1>2. Entries'
  BY DEF Lose, IInv, Entries
<1> QED BY <1>1, <1>2, HandlerIInv DEF Lose

\* The handler returns: its gateway's entry goes, and no other names it.
LEMMA ReturnIInv == ASSUME IInv, NEW s \in Streams, Return(s) PROVE IInv'
<1>1. /\ registry' = [registry EXCEPT ![host[s]] = NoStream] /\ stream' = [stream EXCEPT ![s] = "gone"]
      /\ stream[s] = "failing" /\ UNCHANGED <<host, outbound, using, got, losses, natsVars>>
  BY DEF Return, At, agentVars
<1>2. TypeOK'
  BY <1>1 DEF natsVars, IInv, TypeOK, Phases
<1>3. Entries'
  BY <1>1 DEF IInv, TypeOK, Entries
<1>4. \A r \in Streams : stream'[r] = "new" => stream[r] = "new"
  BY <1>1 DEF IInv, TypeOK
<1> QED BY <1>1, <1>2, <1>3, <1>4, HandlerIInv

LEMMA DeliverIInv == ASSUME IInv, NEW s \in Streams, Deliver(s) PROVE IInv'
<1> DEFINE g == host[s]
           c == Head(outbound[s])
           rest == Tail(outbound[s])
<1>1. /\ stream[s] = "draining" /\ outbound[s] # <<>> /\ outbound[s] \in Seq(Cmds) /\ g \in Gateways
      /\ outbound' = [outbound EXCEPT ![s] = rest]
      /\ got' = IF using = s THEN Append(got, [cmd |-> c, via |-> g]) ELSE got
      /\ UNCHANGED <<registry, stream, host, using, losses, natsVars>>
  BY DEF Deliver, IInv, TypeOK, Cmds
<1>2. /\ c \in Cmds /\ c \in Members(outbound[s]) /\ rest \in Seq(Cmds) /\ Rising(rest) /\ Len(rest) < Len(outbound[s])
      /\ Members(rest) \subseteq Members(outbound[s]) /\ Older({c}, Members(rest))
  BY <1>1, TailRises DEF IInv, Channels
<1> HIDE DEF g, c, rest
<1>3. outbound'[s] = rest /\ (\A r \in Streams : r # s => outbound'[r] = outbound[r])
      /\ \A r \in Streams : Members(outbound'[r]) \subseteq Members(outbound[r]) /\ Rising(outbound'[r])
  BY <1>1, <1>2 DEF IInv, TypeOK, Channels
<1>4. Older({c}, Members(fetched[g])) /\ Older({c}, Members(pending)) /\ c <= published
  BY <1>2 DEF IInv, Channels, Older, g
<1>5. /\ InOrder' /\ got' \in Seq([cmd : Cmds, via : Gateways])
      /\ \A h \in Gateways : Through(h)' \subseteq Through(h) \cup (IF using = s /\ h = g THEN {c} ELSE {})
  <2>1. CASE using = s
    <3>1. Older(Through(g), {c})
      BY <1>1, <1>2, <2>1, RouterAssumption DEF IInv, Behind, Older, g
    <3> QED BY <1>1, <1>2, <2>1, <3>1, GotMore DEF IInv
  <2>2. CASE using # s
    BY <1>1, <2>2 DEF IInv, InOrder, Through, TypeOK, Cmds
  <2> QED BY <2>1, <2>2
<1>6. TypeOK'
  <2>1. outbound' \in [Streams -> Seq(Cmds)] /\ \A r \in Streams : Len(outbound'[r]) <= Cap
    <3>1. Len(rest) \in Nat /\ Len(outbound[s]) \in Nat /\ Len(outbound[s]) <= Cap
      BY <1>1, <1>2, LenProperties DEF IInv, TypeOK
    <3>2. Len(rest) <= Cap
      BY <1>2, <3>1, RouterAssumption
    <3> QED BY <1>1, <1>2, <1>3, <3>2 DEF IInv, TypeOK, Cmds
  <2> QED BY <1>1, <1>5, <2>1 DEF natsVars, IInv, TypeOK, Cmds
<1>7. Entries' /\ Targets' /\ Queued'
  BY <1>1 DEF natsVars, IInv, Entries, Targets, Queued
<1>8. NewEmpty'
  BY <1>1, <1>3 DEF IInv, NewEmpty
<1>9. Channels'
  BY <1>1, <1>3 DEF natsVars, IInv, Channels, Older
<1>10. Behind'
  <2>1. \A h \in Gateways : Older(Through(h)', Members(fetched[h])) /\ Older(Through(h)', Members(pending))
                            /\ \A d \in Through(h)' : d <= published
    BY <1>4, <1>5 DEF IInv, Behind, Older
  <2>2. ASSUME using # NoStream, NEW h \in Gateways, h = host[using]
        PROVE  Older(Through(h)', Members(outbound'[using]))
    <3>1. using \in Streams /\ Older(Through(h), Members(outbound[using]))
      BY <2>2 DEF IInv, TypeOK, Behind
    <3>2. CASE using = s
      BY <1>2, <1>3, <1>5, <2>2, <3>1, <3>2 DEF Older, g
    <3>3. CASE using # s
      BY <1>3, <1>5, <2>2, <3>1, <3>3 DEF Older
    <3> QED BY <3>2, <3>3
  <2>3. \A h \in Gateways : Older(Through(h), Members(fetched[h]))' /\ Older(Through(h), Members(pending))'
                            /\ \A d \in Through(h)' : d <= published'
    BY <1>1, <2>1 DEF natsVars
  <2>4. using' # NoStream => Older(Through(host[using]), Members(outbound[using]))'
    BY <1>1, <2>2 DEF Through, IInv, TypeOK
  <2> QED BY <2>3, <2>4 DEF Behind
<1> QED BY <1>5, <1>6, <1>7, <1>8, <1>9, <1>10 DEF IInv

\* The API's command is the youngest.
LEMMA PublishIInv == ASSUME IInv, Publish PROVE IInv'
<1> DEFINE c == published + 1
<1>1. /\ c \in Cmds /\ published \in Nat /\ published' = c /\ pending \in Seq(Cmds) /\ pending' = Append(pending, c)
      /\ UNCHANGED <<registry, stream, host, outbound, agentVars, fetched, target, dropped>>
  BY RouterAssumption DEF Publish, IInv, TypeOK, Cmds
<1>2. Older(Members(pending), {c})
  <2>1. Members(pending) \subseteq Cmds
    BY <1>1, MembersType
  <2> QED BY <1>1, <2>1 DEF IInv, Queued, Older, Cmds
<1>3. pending' \in Seq(Cmds) /\ Rising(pending') /\ Members(pending') = Members(pending) \cup {c}
  BY <1>1, <1>2, AppendRises, AppendProperties DEF IInv, Queued
<1>4. \A d \in Cmds : d <= published => d < c /\ d <= c
  BY <1>1 DEF Cmds
<1> HIDE DEF c
<1>5. TypeOK'
  BY <1>1, <1>3 DEF agentVars, IInv, TypeOK, Cmds
<1>6. Entries' /\ Targets' /\ NewEmpty' /\ InOrder'
  BY <1>1 DEF agentVars, IInv, Entries, Targets, NewEmpty, InOrder
<1>7. Queued'
  <2>1. \A g \in Gateways : Members(fetched[g]) \subseteq Cmds
    BY MembersType DEF IInv, TypeOK, Cmds
  <2>2. Members(pending) \subseteq Cmds
    BY <1>1, MembersType
  <2>3. c <= c
    BY <1>1 DEF c
  <2> QED BY <1>1, <1>3, <1>4, <2>1, <2>2, <2>3 DEF IInv, Queued, Older
<1>8. Channels'
  <2>1. \A s \in Streams : Members(outbound[s]) \subseteq Cmds
    BY MembersType DEF IInv, TypeOK, Cmds
  <2> QED BY <1>1, <1>3, <1>4, <2>1 DEF IInv, Channels, Older
<1>9. Behind'
  <2>1. \A g \in Gateways : Through(g)' = Through(g) /\ Through(g) \subseteq Cmds
    <3>1. \A i \in 1 .. Len(got) : got[i] \in [cmd : Cmds, via : Gateways]
      BY ElementOfSeq DEF IInv, TypeOK, Cmds
    <3> QED BY <1>1, <3>1 DEF agentVars, Through
  <2>2. \A g \in Gateways : Older(Through(g), Members(fetched[g]))' /\ Older(Through(g), Members(pending))'
                            /\ \A d \in Through(g)' : d <= published'
    BY <1>1, <1>3, <1>4, <2>1 DEF IInv, Behind, Older
  <2>3. using' # NoStream => Older(Through(host[using]), Members(outbound[using]))'
    BY <1>1 DEF agentVars, IInv, Behind, Through
  <2> QED BY <2>2, <2>3 DEF Behind
<1> QED BY <1>5, <1>6, <1>7, <1>8, <1>9 DEF IInv

\* The oldest pending command is younger than all a gateway has.
LEMMA FetchIInv == ASSUME IInv, NEW g \in Gateways, Fetch(g) PROVE IInv'
<1> DEFINE c == Head(pending)
<1>1. /\ pending \in Seq(Cmds) /\ pending # <<>> /\ pending' = Tail(pending) /\ fetched[g] \in Seq(Cmds)
      /\ fetched' = [fetched EXCEPT ![g] = Append(fetched[g], c)]
      /\ UNCHANGED <<registry, stream, host, outbound, agentVars, target, dropped, published>>
  BY DEF Fetch, IInv, TypeOK, Cmds
<1>2. /\ c \in Cmds /\ c \in Members(pending) /\ pending' \in Seq(Cmds) /\ Rising(pending')
      /\ Members(pending') \subseteq Members(pending) /\ Older({c}, Members(pending')) /\ c <= published
  BY <1>1, TailRises DEF IInv, Queued
<1> HIDE DEF c
<1>3. Older(Members(fetched[g]), {c})
  BY <1>2 DEF IInv, Queued, Older
<1>4. /\ Append(fetched[g], c) \in Seq(Cmds) /\ Append(fetched[g], c) # <<>> /\ Rising(Append(fetched[g], c))
      /\ Members(Append(fetched[g], c)) = Members(fetched[g]) \cup {c}
  BY <1>1, <1>2, <1>3, AppendRises, AppendProperties DEF IInv, Queued
<1>5. /\ fetched' \in [Gateways -> Seq(Cmds)] /\ fetched'[g] # <<>> /\ Rising(fetched'[g])
      /\ Members(fetched'[g]) = Members(fetched[g]) \cup {c}
      /\ \A h \in Gateways : h # g => fetched'[h] = fetched[h]
  BY <1>1, <1>4 DEF IInv, TypeOK, Cmds
<1>6. TypeOK'
  BY <1>1, <1>2, <1>5 DEF agentVars, IInv, TypeOK, Cmds
<1>7. Entries' /\ Targets' /\ NewEmpty' /\ InOrder'
  BY <1>1, <1>5 DEF agentVars, IInv, Entries, Targets, NewEmpty, InOrder
<1>8. Queued'
  BY <1>1, <1>2, <1>5 DEF IInv, Queued, Older
<1>9. Channels'
  BY <1>1, <1>2, <1>5 DEF IInv, Channels, Older, TypeOK
<1>10. Behind'
  <2>1. \A h \in Gateways : Through(h)' = Through(h)
    BY <1>1 DEF agentVars, Through
  <2>2. \A h \in Gateways : Older(Through(h), Members(fetched[h]))' /\ Older(Through(h), Members(pending))'
                            /\ \A d \in Through(h)' : d <= published'
    BY <1>1, <1>2, <1>5, <2>1 DEF IInv, Behind, Older
  <2>3. using' # NoStream => Older(Through(host[using]), Members(outbound[using]))'
    BY <1>1 DEF agentVars, IInv, Behind, Through
  <2> QED BY <2>2, <2>3 DEF Behind
<1> QED BY <1>6, <1>7, <1>8, <1>9, <1>10 DEF IInv

\* The command in hand goes, and the channel it was looked up for with it.
LEMMA DoneShrinks ==
    ASSUME IInv, NEW g \in Gateways, fetched[g] # <<>>, Done(g)
    PROVE  /\ Command(g) \in Cmds /\ Command(g) \in Members(fetched[g])
           /\ fetched' \in [Gateways -> Seq(Cmds)] /\ Older({Command(g)}, Members(fetched'[g]))
           /\ \A h \in Gateways : /\ Members(fetched'[h]) \subseteq Members(fetched[h])
                                  /\ Rising(fetched'[h])
                                  /\ h # g => fetched'[h] = fetched[h]
<1>1. fetched[g] \in Seq(Cmds) /\ Rising(fetched[g])
  BY DEF IInv, TypeOK, Queued, Cmds
<1> QED BY <1>1, TailRises DEF Done, Command, IInv, TypeOK, Queued, Cmds

LEMMA DropIInv ==
    ASSUME IInv, NEW g \in Gateways, NEW reason \in Reasons, fetched[g] # <<>>, Drop(g, reason),
           target' = [target EXCEPT ![g] = NoStream]
    PROVE  IInv'
<1>1. /\ dropped' = dropped \cup {<<Command(g), reason>>} /\ Done(g)
      /\ UNCHANGED <<registry, stream, host, outbound, agentVars, pending, published>>
  BY DEF Drop
<1>2. /\ Command(g) \in Cmds /\ fetched' \in [Gateways -> Seq(Cmds)]
      /\ \A h \in Gateways : Members(fetched'[h]) \subseteq Members(fetched[h]) /\ Rising(fetched'[h])
                             /\ (h # g => fetched'[h] = fetched[h])
  BY <1>1, DoneShrinks
<1>3. TypeOK'
  <2>1. dropped' \subseteq Cmds \X Reasons
    BY <1>1, <1>2 DEF IInv, TypeOK, Cmds
  <2>2. target' \in [Gateways -> Streams \cup {NoStream}]
    BY DEF IInv, TypeOK
  <2> QED BY <1>1, <1>2, <2>1, <2>2 DEF agentVars, IInv, TypeOK, Cmds
<1>4. Entries' /\ NewEmpty' /\ InOrder'
  BY <1>1 DEF agentVars, IInv, Entries, NewEmpty, InOrder
<1>5. Targets'
  BY <1>1, <1>2 DEF IInv, TypeOK, Targets
<1>6. Queued'
  BY <1>1, <1>2 DEF IInv, Queued, Older
<1>7. Channels'
  BY <1>1, <1>2 DEF IInv, TypeOK, Channels, Older
<1>8. Behind'
  <2>0. \A h \in Gateways : Through(h)' = Through(h)
    BY <1>1 DEF agentVars, Through
  <2>1. \A h \in Gateways : Older(Through(h), Members(fetched[h]))' /\ Older(Through(h), Members(pending))'
                            /\ \A d \in Through(h)' : d <= published'
    BY <1>1, <1>2, <2>0 DEF IInv, Behind, Older
  <2>2. using' # NoStream => Older(Through(host[using]), Members(outbound[using]))'
    BY <1>1 DEF agentVars, IInv, Behind, Through
  <2> QED BY <2>1, <2>2 DEF Behind
<1> QED BY <1>3, <1>4, <1>5, <1>6, <1>7, <1>8 DEF IInv

LEMMA LookupIInv == ASSUME IInv, NEW g \in Gateways, Lookup(g) PROVE IInv'
<1>1. /\ fetched[g] # <<>> /\ registry[g] # NoStream /\ target' = [target EXCEPT ![g] = registry[g]]
      /\ UNCHANGED <<registry, stream, host, outbound, agentVars, pending, fetched, dropped, published>>
  BY DEF Lookup, Idle
<1>2. TypeOK' /\ Entries' /\ NewEmpty' /\ InOrder'
  BY <1>1 DEF agentVars, IInv, TypeOK, Entries, NewEmpty, InOrder
<1>3. Targets'
  BY <1>1 DEF IInv, TypeOK, Entries, Targets
<1>4. Queued' /\ Channels'
  BY <1>1 DEF IInv, Queued, Channels
<1>5. Behind'
  BY <1>1 DEF agentVars, IInv, Behind, Through
<1> QED BY <1>2, <1>3, <1>4, <1>5 DEF IInv

\* The command in hand is younger than what the channel holds and the agent got.
LEMMA SendIInv == ASSUME IInv, NEW g \in Gateways, Send(g) PROVE IInv'
<1> DEFINE s == target[g]
           c == Command(g)
<1>1. /\ s \in Streams /\ host[s] = g /\ stream[s] # "new" /\ fetched[g] # <<>>
      /\ Len(outbound[s]) < Cap /\ outbound[s] \in Seq(Cmds)
      /\ outbound' = [outbound EXCEPT ![s] = Append(outbound[s], c)]
      /\ target' = [target EXCEPT ![g] = NoStream] /\ Done(g)
      /\ UNCHANGED <<registry, stream, host, agentVars, pending, dropped, published>>
  BY DEF Send, IInv, TypeOK, Targets, Cmds
<1>2. /\ c \in Cmds /\ c \in Members(fetched[g]) /\ Older({c}, Members(fetched'[g]))
      /\ fetched' \in [Gateways -> Seq(Cmds)]
      /\ \A h \in Gateways : Members(fetched'[h]) \subseteq Members(fetched[h]) /\ Rising(fetched'[h])
                             /\ (h # g => fetched'[h] = fetched[h])
  BY <1>1, DoneShrinks
<1> HIDE DEF s, c
<1>3. /\ Older(Members(outbound[s]), {c}) /\ Older({c}, Members(pending)) /\ c <= published
      /\ Older(Through(g), {c})
  BY <1>1, <1>2 DEF IInv, Channels, Queued, Behind, Older
<1>4. /\ Append(outbound[s], c) \in Seq(Cmds) /\ Rising(Append(outbound[s], c))
      /\ Members(Append(outbound[s], c)) = Members(outbound[s]) \cup {c}
      /\ Len(Append(outbound[s], c)) = Len(outbound[s]) + 1 /\ Len(outbound[s]) \in Nat
  BY <1>1, <1>2, <1>3, AppendRises, AppendProperties, LenProperties DEF IInv, Channels
<1>5. /\ outbound' \in [Streams -> Seq(Cmds)] /\ Rising(outbound'[s]) /\ Len(outbound'[s]) <= Cap
      /\ Members(outbound'[s]) = Members(outbound[s]) \cup {c}
      /\ \A r \in Streams : r # s => outbound'[r] = outbound[r]
  BY <1>1, <1>4, RouterAssumption DEF IInv, TypeOK, Cmds
<1>6. TypeOK'
  BY <1>1, <1>2, <1>5 DEF agentVars, IInv, TypeOK, Cmds
<1>7. Entries' /\ InOrder'
  BY <1>1 DEF agentVars, IInv, Entries, InOrder
<1>8. Targets' /\ NewEmpty'
  BY <1>1, <1>2, <1>5 DEF IInv, TypeOK, Targets, NewEmpty
<1>9. Queued'
  BY <1>1, <1>2 DEF IInv, Queued, Older
<1>10. Channels'
  <2>1. /\ Older(Members(outbound'[s]), Members(fetched'[g])) /\ Older(Members(outbound'[s]), Members(pending))
        /\ \A d \in Members(outbound'[s]) : d <= published
    BY <1>1, <1>2, <1>3, <1>5 DEF IInv, Channels, Older
  <2>2. ASSUME NEW r \in Streams, r # s
        PROVE  /\ Rising(outbound'[r]) /\ Older(Members(outbound'[r]), Members(fetched'[host[r]]))
               /\ Older(Members(outbound'[r]), Members(pending))
               /\ \A d \in Members(outbound'[r]) : d <= published
    BY <1>2, <1>5, <2>2 DEF IInv, TypeOK, Channels, Older
  <2> QED BY <1>1, <1>5, <2>1, <2>2 DEF Channels
<1>11. Behind'
  <2>0. \A h \in Gateways : Through(h)' = Through(h)
    BY <1>1 DEF agentVars, Through
  <2>1. \A h \in Gateways : Older(Through(h), Members(fetched[h]))' /\ Older(Through(h), Members(pending))'
                            /\ \A d \in Through(h)' : d <= published'
    BY <1>1, <1>2, <2>0 DEF IInv, Behind, Older
  <2>2. ASSUME using # NoStream
        PROVE  Older(Through(host[using]), Members(outbound'[using]))
    <3>1. using \in Streams /\ Older(Through(host[using]), Members(outbound[using]))
      BY <2>2 DEF IInv, TypeOK, Behind
    <3> QED BY <1>1, <1>3, <1>5, <3>1 DEF Older
  <2>3. using' # NoStream => Older(Through(host[using]), Members(outbound[using]))'
    BY <1>1, <2>2 DEF agentVars, Through
  <2> QED BY <2>1, <2>3 DEF Behind
<1> QED BY <1>6, <1>7, <1>8, <1>9, <1>10, <1>11 DEF IInv

LEMMA NextIInv == IInv /\ [Next]_vars => IInv'
<1> SUFFICES ASSUME IInv, [Next]_vars
             PROVE  IInv'
  OBVIOUS
<1>1. ASSUME NEW s \in Streams, Register(s) \/ AgentSends(s) \/ Handler(s)
      PROVE  IInv'
  <2>1. CASE Receive(s) \/ AgentSends(s) \/ RecvFails(s)
    <3>1. losses \in 0 .. MaxLosses
      BY DEF IInv, TypeOK
    <3> QED BY <2>1, <3>1, PhaseIInv DEF Receive, AgentSends, RecvFails, At, agentVars, Phases
  <2> QED BY <1>1, <2>1, RegisterIInv, DeliverIInv, ReturnIInv DEF Handler
<1>2. ASSUME NEW g \in Gateways, Route(g)
      PROVE  IInv'
  <2>1. CASE UnknownType(g) \/ NotConnected(g)
    <3>1. /\ fetched[g] # <<>> /\ target[g] = NoStream /\ target' = target
          /\ Drop(g, "unknown type") \/ Drop(g, "not connected")
      BY <2>1 DEF UnknownType, NotConnected, Idle
    <3>2. target' = [target EXCEPT ![g] = NoStream]
      BY <3>1 DEF IInv, TypeOK
    <3> QED BY <3>1, <3>2, DropIInv DEF Reasons
  <2>2. CASE Full(g)
    BY <2>2, DropIInv DEF Full, Reasons, IInv, Targets
  <2> QED BY <1>2, <2>1, <2>2, FetchIInv, LookupIInv, SendIInv DEF Route
<1>3. CASE UNCHANGED vars
  <2>1. TypeOK' /\ Entries'
    BY <1>3 DEF vars, agentVars, natsVars, IInv, TypeOK, Entries
  <2> QED BY <1>3, <2>1, HandlerIInv DEF vars, agentVars
<1> QED BY <1>1, <1>2, <1>3, PublishIInv, LoseIInv DEF Next

\* No gateway's map names a handler that has returned, and no gateway hands the
\* agent an older command after a younger one: however handlers of one endpoint
\* register, fail and return over each other, and whatever is lost with a stream.
THEOREM RouterHolds == Spec => []RouterTrue
<1>1. IInv => RouterTrue
  BY DEF IInv, Entries, RouterTrue, NoDangling
<1> QED BY <1>1, InitIInv, NextIInv, PTL DEF Spec

-----------------------------------------------------------------------------
(* The audit stream.  An entry is on its way to a stream from its commit     *)
(* until Publish has passed the stream: what the stream has got is no longer *)
(* on its way, which is why it comes once, and what it is owed is what is    *)
(* not on its way, which a delivery adds to as it adds to what is counted.   *)

\* Entries, frames, streams and publications as they are.
Entry == [action : {"change", "subscribed", "unsubscribed"}, tenant : Tenants \cup {Home},
          secret : BOOLEAN, by : Audit!Callers, all : BOOLEAN, dropped : Nat]
Frame == [i : Nat, e : Entry]
Listening == [pc : {"none", "logged", "open", "closing", "left", "closed"}, tenant : {Home},
              all : BOOLEAN, filter : {{}, {"change"}}, ch : Seq(Frame), dropped : Nat,
              sent : Seq(Frame), at : Nat]
Publication == [pc : {"none", "committed", "locked"}, i : Nat, left : SUBSET Browsers]

Typed ==
    /\ chain \in Seq(Entry)
    /\ pub \in [Audit!Callers -> Publication] /\ \A c \in Audit!Callers : pub[c].i <= Len(chain)
    /\ subs \subseteq Browsers
    /\ sub \in [Browsers -> Listening] /\ \A b \in Browsers : Len(sub[b].ch) <= Cap

\* A call publishes an entry of its own, to streams that are in the map.
Publishing == \A c \in Audit!Callers :
    /\ pub[c].pc = "none" => pub[c] = Audit!NoPub
    /\ pub[c].pc # "none" => pub[c].i \in 1..Len(chain)
    /\ pub[c].pc # "locked" => pub[c].left = {}
    /\ pub[c].left \subseteq subs
    /\ \A d \in Audit!Callers : pub[c].pc # "none" /\ pub[d].pc # "none" /\ pub[c].i = pub[d].i => c = d

\* The entries that are on their way to a stream.
Pending(b) == {pub[c].i : c \in {d \in Audit!Callers : pub[d].pc = "committed" \/ b \in pub[d].left}}
Frames(b) == sub[b].sent \o sub[b].ch

\* What has come to a stream: seen, stripped, once, and no longer on its way.
Shown(b) ==
    /\ \A k \in 1..Len(Frames(b)) :
           LET f == Frames(b)[k]
           IN  /\ f.i \in 1..Len(chain) /\ f.i \notin Pending(b)
               /\ f.e = Audit!StripSensitive(chain[f.i]) /\ Audit!Sees(sub[b], f.e)
    /\ \A k, l \in 1..Len(Frames(b)) : Frames(b)[k].i = Frames(b)[l].i => k = l

\* The stream was announced in the log with the reach it has.
Said(b, n) == \E j \in 1..n : /\ j <= Len(chain) /\ chain[j].action = "subscribed"
                              /\ chain[j].by = b /\ chain[j].all = sub[b].all
Announced(b) ==
    /\ sub[b].pc = "logged" => Said(b, Len(chain))
    /\ sub[b].pc \in {"open", "closing", "left"} \/ Frames(b) # <<>> => Said(b, sub[b].at)

Mapped(b) ==
    /\ b \in subs <=> sub[b].pc \in {"open", "closing"}
    /\ sub[b].pc \in {"none", "logged"} => sub[b].ch = <<>> /\ sub[b].sent = <<>> /\ sub[b].dropped = 0

Owed(b) == {i \in (sub[b].at + 1)..Len(chain) : i \notin Pending(b) /\ Audit!Sees(sub[b], chain[i])}
Count(s) == Len(s.sent) + Len(s.ch) + s.dropped
Accounted(b) == sub[b].pc = "open" => Cardinality(Owed(b)) <= Count(sub[b])

StreamOK(b) == Shown(b) /\ Announced(b) /\ Mapped(b) /\ Accounted(b)
AInv == Typed /\ Publishing /\ \A b \in Browsers : StreamOK(b)

\* Taking the secret out of an entry changes nobody's view of it.
LEMMA StripKeeps ==
    ASSUME NEW e \in Entry, NEW s
    PROVE  Audit!StripSensitive(e) \in Entry /\ (Audit!Sees(s, Audit!StripSensitive(e)) <=> Audit!Sees(s, e))
  BY DEF Audit!StripSensitive, Entry, Audit!Sees, Audit!Match

LEMMA SumNat == ASSUME NEW x \in Nat, NEW y \in Nat, NEW z \in Nat PROVE x + y + z \in Nat
  OBVIOUS

LEMMA SumOne ==
    ASSUME NEW x \in Nat, NEW y \in Nat, NEW z \in Nat
    PROVE  x + (y + 1) + z = x + y + z + 1 /\ x + y + (z + 1) = x + y + z + 1
  OBVIOUS

LEMMA CountNat ==
    ASSUME NEW s \in Listening
    PROVE  Count(s) \in Nat
<1>1. Len(s.sent) \in Nat /\ Len(s.ch) \in Nat /\ s.dropped \in Nat
  BY LenProperties DEF Listening
<1> QED
  BY <1>1, SumNat, Zenon DEF Count

\* What is owed to a stream can be counted.
LEMMA OwedFinite ==
    ASSUME Typed, NEW b \in Browsers
    PROVE  IsFiniteSet(Owed(b)) /\ Cardinality(Owed(b)) \in Nat
<1>1. sub[b].at + 1 \in Int /\ Len(chain) \in Int
  BY LenProperties DEF Typed, Listening
<1>2. IsFiniteSet((sub[b].at + 1)..Len(chain))
  BY <1>1, FS_Interval
<1>3. Owed(b) \in SUBSET ((sub[b].at + 1)..Len(chain))
  BY DEF Owed
<1> QED
  BY <1>2, <1>3, FS_Subset, FS_CardinalityType

\* A stream whose content stays is as good as before, if nothing that had passed it is
\* on its way again, and nothing new has passed it that it should have.
LEMMA StreamStays ==
    ASSUME Typed, Typed', NEW b \in Browsers, StreamOK(b), NEW p,
           sub'[b] = [sub[b] EXCEPT !.pc = p],
           Len(chain) <= Len(chain)', \A i \in 1..Len(chain) : chain'[i] = chain[i],
           b \in subs' <=> p \in {"open", "closing"},
           p \in {"none", "logged", "open"} => p = sub[b].pc,
           p \in {"closing", "left"} => sub[b].pc \in {"open", "closing", "left"},
           \A i \in 1..Len(chain) : i \in Pending(b)' => i \in Pending(b),
           p = "open" => Owed(b)' \subseteq Owed(b)
    PROVE  StreamOK(b)'
<1>1. sub[b] \in Listening /\ sub'[b] \in Listening
  BY DEF Typed
<1>2. /\ sub'[b].pc = p /\ sub'[b].all = sub[b].all /\ sub'[b].at = sub[b].at
      /\ sub'[b].ch = sub[b].ch /\ sub'[b].sent = sub[b].sent /\ sub'[b].dropped = sub[b].dropped
      /\ \A e : Audit!Sees(sub[b], e)' <=> Audit!Sees(sub[b], e)
  BY <1>1 DEF Listening, Audit!Sees, Audit!Match
<1>3. Frames(b)' = Frames(b) /\ Len(chain) \in Nat /\ Len(chain)' \in Nat
  BY <1>2, LenProperties DEF Frames, Typed
<1>4. Shown(b)'
  <2>1. \A k \in 1..Len(Frames(b)) :
           /\ Frames(b)[k].i \in 1..Len(chain)' /\ Frames(b)[k].i \notin Pending(b)'
           /\ Frames(b)[k].e = Audit!StripSensitive(chain'[Frames(b)[k].i])
           /\ Audit!Sees(sub'[b], Frames(b)[k].e)
    BY <1>2, <1>3 DEF StreamOK, Shown, Audit!Sees, Audit!Match
  <2> QED
    BY <1>3, <2>1 DEF StreamOK, Shown
<1>5. Announced(b)'
  <2>1. \A n \in Nat : Said(b, n) => Said(b, n)'
    BY <1>2, <1>3 DEF Said
  <2>2. Said(b, Len(chain)) => Said(b, Len(chain))'
    BY <1>2, <1>3 DEF Said
  <2>3. Said(b, sub[b].at) => Said(b, sub[b].at)'
    BY <1>2, <1>3 DEF Said
  <2> QED
    BY <1>2, <1>3, <2>2, <2>3 DEF StreamOK, Announced
<1>6. Mapped(b)'
  BY <1>2 DEF StreamOK, Mapped
<1>7. Accounted(b)'
  <2> SUFFICES ASSUME p = "open" PROVE Cardinality(Owed(b)') <= Count(sub'[b])
    BY <1>2 DEF Accounted
  <2>1. IsFiniteSet(Owed(b)) /\ Cardinality(Owed(b)) \in Nat
    BY OwedFinite
  <2>2. Cardinality(Owed(b)') <= Cardinality(Owed(b))
    BY <2>1, FS_Subset
  <2>3. Cardinality(Owed(b)') \in Nat
    BY <2>1, FS_Subset, FS_CardinalityType
  <2>4. Count(sub[b]) \in Nat /\ Count(sub'[b]) = Count(sub[b])
    BY <1>1, <1>2, CountNat DEF Count
  <2>5. Cardinality(Owed(b)) <= Count(sub[b])
    BY DEF StreamOK, Accounted
  <2> QED
    BY <2>1, <2>2, <2>3, <2>4, <2>5
<1> QED
  BY <1>4, <1>5, <1>6, <1>7 DEF StreamOK

\* An appended entry is on its way to every stream.
LEMMA AppendStep ==
    ASSUME Typed, Publishing, NEW c \in Audit!Callers, NEW e \in Entry, Audit!Append1(c, e), UNCHANGED subs
    PROVE  /\ chain' \in Seq(Entry) /\ pub' \in [Audit!Callers -> Publication]
           /\ \A d \in Audit!Callers : pub'[d].i <= Len(chain)'
           /\ Publishing'
           /\ Len(chain)' = Len(chain) + 1 /\ Len(chain) \in Nat /\ chain'[Len(chain)'] = e
           /\ \A i \in 1..Len(chain) : chain'[i] = chain[i]
           /\ \A b \in Browsers : /\ Pending(b) \subseteq Pending(b)' /\ Len(chain)' \in Pending(b)'
                                  /\ \A i \in 1..Len(chain) : i \in Pending(b)' => i \in Pending(b)
<1>1. /\ chain' = Append(chain, e) /\ chain' \in Seq(Entry)
      /\ Len(chain)' = Len(chain) + 1 /\ Len(chain) \in Nat /\ chain'[Len(chain)'] = e
      /\ \A i \in 1..Len(chain) : chain'[i] = chain[i]
  BY AppendProperties, LenProperties DEF Typed, Audit!Append1
<1>2. DEFINE p == [pc |-> "committed", i |-> Len(chain)', left |-> {}]
<1>3. /\ pub' = [pub EXCEPT ![c] = p] /\ pub[c] = Audit!NoPub /\ p \in Publication /\ pub \in [Audit!Callers -> Publication]
  BY <1>1 DEF Typed, Audit!Append1, Publication
<1> HIDE DEF p
<1>4. pub' \in [Audit!Callers -> Publication] /\ pub'[c] = p /\ \A d \in Audit!Callers \ {c} : pub'[d] = pub[d]
  BY <1>3
<1>5. p.pc = "committed" /\ p.i = Len(chain)' /\ p.left = {} /\ pub[c].left = {} /\ pub[c].pc = "none"
  BY <1>3 DEF p, Audit!NoPub
<1>6. \A d \in Audit!Callers : pub[d].i \in Nat /\ pub[d].i <= Len(chain)
  BY DEF Typed, Publication
<1>7. \A d \in Audit!Callers : pub'[d].i <= Len(chain)'
  BY <1>1, <1>4, <1>5, <1>6
<1>8. Publishing'
  <2> SUFFICES ASSUME NEW x \in Audit!Callers
               PROVE  /\ pub'[x].pc = "none" => pub'[x] = Audit!NoPub
                      /\ pub'[x].pc # "none" => pub'[x].i \in 1..Len(chain)'
                      /\ pub'[x].pc # "locked" => pub'[x].left = {}
                      /\ pub'[x].left \subseteq subs
                      /\ \A y \in Audit!Callers : pub'[x].pc # "none" /\ pub'[y].pc # "none" /\ pub'[x].i = pub'[y].i => x = y
    BY DEF Publishing
  <2>1. CASE x = c
    BY <2>1, <1>1, <1>4, <1>5, <1>6
  <2>2. CASE x # c
    BY <2>2, <1>1, <1>4, <1>5, <1>6 DEF Publishing
  <2> QED
    BY <2>1, <2>2
<1>9. ASSUME NEW b \in Browsers
      PROVE  /\ Pending(b) \subseteq Pending(b)' /\ Len(chain)' \in Pending(b)'
             /\ \A i \in 1..Len(chain) : i \in Pending(b)' => i \in Pending(b)
  BY <1>1, <1>4, <1>5, <1>6 DEF Pending
<1> QED
  BY <1>1, <1>4, <1>7, <1>8, <1>9

\* A call that goes on publishing has fewer streams before it.
LEMMA LeftStep ==
    ASSUME Typed, Publishing, NEW c \in Audit!Callers, pub[c].pc # "none",
           NEW bs \in SUBSET subs, Audit!Left(c, bs), UNCHANGED <<chain, subs>>
    PROVE  /\ pub' \in [Audit!Callers -> Publication]
           /\ \A d \in Audit!Callers : pub'[d].i <= Len(chain)
           /\ Publishing'
           /\ \A d \in Audit!Callers \ {c} : pub'[d] = pub[d]
           /\ pub'[c].left = bs /\ pub'[c].pc # "committed" /\ (bs # {} => pub'[c].i = pub[c].i)
<1>1. bs \subseteq Browsers /\ pub \in [Audit!Callers -> Publication] /\ Len(chain) \in Nat
  BY LenProperties DEF Typed
<1>2. CASE bs = {}
  <2>1. pub' = [pub EXCEPT ![c] = Audit!NoPub] /\ Audit!NoPub \in Publication
    BY <1>2 DEF Audit!Left, Audit!NoPub, Publication
  <2>2. pub'[c] = Audit!NoPub /\ \A d \in Audit!Callers \ {c} : pub'[d] = pub[d]
    BY <1>1, <2>1
  <2>3. Audit!NoPub.pc = "none" /\ Audit!NoPub.i = 0 /\ Audit!NoPub.left = {}
    BY DEF Audit!NoPub
  <2>4. Publishing'
    BY <2>2, <2>3 DEF Publishing
  <2> QED
    BY <1>1, <1>2, <2>1, <2>2, <2>3, <2>4 DEF Typed
<1>3. CASE bs # {}
  <2>1. pub' = [pub EXCEPT ![c] = [pub[c] EXCEPT !.pc = "locked", !.left = bs]]
    BY <1>3 DEF Audit!Left
  <2>2. /\ [pub[c] EXCEPT !.pc = "locked", !.left = bs] \in Publication
        /\ [pub[c] EXCEPT !.pc = "locked", !.left = bs].pc = "locked"
        /\ [pub[c] EXCEPT !.pc = "locked", !.left = bs].i = pub[c].i
        /\ [pub[c] EXCEPT !.pc = "locked", !.left = bs].left = bs
    BY <1>1 DEF Publication
  <2>3. /\ pub' \in [Audit!Callers -> Publication] /\ \A d \in Audit!Callers \ {c} : pub'[d] = pub[d]
        /\ pub'[c].pc = "locked" /\ pub'[c].i = pub[c].i /\ pub'[c].left = bs
    BY <1>1, <2>1, <2>2
  <2>4. Publishing'
    BY <1>3, <2>3 DEF Publishing
  <2> QED
    BY <1>1, <1>3, <2>3, <2>4 DEF Typed
<1> QED
  BY <1>2, <1>3

\* Of another stream than the one a step is about.
LEMMA StreamSame ==
    ASSUME Typed, Typed', NEW b \in Browsers, StreamOK(b), sub'[b] = sub[b],
           Len(chain) <= Len(chain)', \A i \in 1..Len(chain) : chain'[i] = chain[i],
           b \in subs' <=> b \in subs,
           \A i \in 1..Len(chain) : i \in Pending(b)' => i \in Pending(b),
           sub[b].pc = "open" => Owed(b)' \subseteq Owed(b)
    PROVE  StreamOK(b)'
<1>1. sub'[b] = [sub[b] EXCEPT !.pc = sub[b].pc]
  BY DEF Typed, Listening
<1>2. b \in subs' <=> sub[b].pc \in {"open", "closing"}
  BY DEF StreamOK, Mapped
<1> QED
  BY <1>1, <1>2, StreamStays

LEMMA AppendKeeps ==
    ASSUME Typed, Typed', Publishing, NEW c \in Audit!Callers, NEW e \in Entry, Audit!Append1(c, e), UNCHANGED subs,
           NEW b \in Browsers, StreamOK(b), NEW p, sub'[b] = [sub[b] EXCEPT !.pc = p],
           p = sub[b].pc \/ (p = "closed" /\ sub[b].pc = "left")
    PROVE  StreamOK(b)'
<1>1. /\ Len(chain)' = Len(chain) + 1 /\ Len(chain) \in Nat
      /\ \A i \in 1..Len(chain) : chain'[i] = chain[i]
      /\ Pending(b) \subseteq Pending(b)' /\ Len(chain)' \in Pending(b)'
      /\ \A i \in 1..Len(chain) : i \in Pending(b)' => i \in Pending(b)
  BY AppendStep
<1>2. \A x : Audit!Sees(sub[b], x)' <=> Audit!Sees(sub[b], x)
  BY DEF Typed, Listening, Audit!Sees, Audit!Match
<1>3. Owed(b)' \subseteq Owed(b)
  <2> SUFFICES ASSUME NEW i \in Owed(b)' PROVE i \in Owed(b)
    OBVIOUS
  <2>1. /\ i \in (sub'[b].at + 1)..Len(chain)' /\ i \notin Pending(b)' /\ Audit!Sees(sub'[b], chain'[i])
        /\ sub'[b].at = sub[b].at /\ sub[b].at \in Nat
    BY DEF Owed, Typed, Listening
  <2>2. i \in (sub[b].at + 1)..Len(chain)
    BY <1>1, <2>1
  <2> QED
    BY <1>1, <1>2, <2>1, <2>2 DEF Owed, Audit!Sees, Audit!Match, Typed, Listening
<1>4. b \in subs' <=> p \in {"open", "closing"}
  BY DEF StreamOK, Mapped
<1>5. Len(chain) <= Len(chain)'
  BY <1>1
<1> QED
  BY <1>1, <1>3, <1>4, <1>5, StreamStays

LEMMA ChangeStep ==
    ASSUME AInv, NEW w \in Writers, Audit!Change(w)
    PROVE  AInv'
<1>1. PICK t \in Tenants :
          Audit!Append1(w, [action |-> "change", tenant |-> t, secret |-> TRUE, by |-> w, all |-> FALSE, dropped |-> 0])
  BY DEF Audit!Change
<1> DEFINE e == [action |-> "change", tenant |-> t, secret |-> TRUE, by |-> w, all |-> FALSE, dropped |-> 0]
<1>2. e \in Entry /\ w \in Audit!Callers /\ UNCHANGED <<subs, sub>> /\ Audit!Append1(w, e)
  BY <1>1 DEF Entry, Audit!Callers, Audit!Change
<1> HIDE DEF e
<1>3. Publishing' /\ Typed'
  BY <1>2, AppendStep DEF AInv, Typed
<1>4. ASSUME NEW b \in Browsers PROVE StreamOK(b)'
  <2>1. sub'[b] = [sub[b] EXCEPT !.pc = sub[b].pc]
    BY <1>2 DEF AInv, Typed, Listening
  <2> QED
    BY <1>2, <1>3, <2>1, AppendKeeps DEF AInv
<1> QED
  BY <1>3, <1>4 DEF AInv

LEMMA LogEndStep ==
    ASSUME AInv, NEW b \in Browsers, Audit!LogEnd(b)
    PROVE  AInv'
<1>1. /\ sub[b].pc = "left" /\ sub' = [sub EXCEPT ![b].pc = "closed"] /\ UNCHANGED subs
      /\ sub \in [Browsers -> Listening]
  BY DEF Audit!LogEnd, AInv, Typed
<1>2. /\ sub'[b] = [sub[b] EXCEPT !.pc = "closed"] /\ sub' \in [Browsers -> Listening]
      /\ \A d \in Browsers \ {b} : sub'[d] = sub[d]
      /\ \A d \in Browsers : sub'[d].ch = sub[d].ch
  BY <1>1 DEF Listening
<1>3. ASSUME NEW d \in Browsers
      PROVE  \E p : /\ sub'[d] = [sub[d] EXCEPT !.pc = p]
                    /\ p = sub[d].pc \/ (p = "closed" /\ sub[d].pc = "left")
  <2>1. sub[d] = [sub[d] EXCEPT !.pc = sub[d].pc]
    BY <1>1 DEF Listening
  <2> QED
    BY <1>1, <1>2, <2>1
<1> DEFINE e == [action |-> "unsubscribed", tenant |-> sub[b].tenant, secret |-> FALSE, by |-> b,
                 all |-> FALSE, dropped |-> sub[b].dropped]
<1>4. e \in Entry /\ b \in Audit!Callers
  BY <1>1 DEF Entry, Audit!Callers, Listening
<1>5. Audit!Append1(b, e) \/ UNCHANGED <<chain, pub>>
  BY DEF Audit!LogEnd
<1> HIDE DEF e
<1>6. CASE Audit!Append1(b, e)
  <2>1. Publishing' /\ Typed'
    BY <1>1, <1>2, <1>4, <1>6, AppendStep DEF AInv, Typed
  <2>2. ASSUME NEW d \in Browsers PROVE StreamOK(d)'
    BY <1>1, <1>3, <1>4, <1>6, <2>1, AppendKeeps DEF AInv
  <2> QED
    BY <2>1, <2>2 DEF AInv
<1>7. CASE UNCHANGED <<chain, pub>>
  <2>1. Publishing' /\ Typed'
    BY <1>1, <1>2, <1>7 DEF AInv, Typed, Publishing
  <2>2. ASSUME NEW d \in Browsers PROVE StreamOK(d)'
    <3>1. PICK p : /\ sub'[d] = [sub[d] EXCEPT !.pc = p]
                   /\ p = sub[d].pc \/ (p = "closed" /\ sub[d].pc = "left")
      BY <1>3
    <3>2. Pending(d)' = Pending(d) /\ Owed(d)' \subseteq Owed(d)
      BY <1>1, <1>7, <3>1 DEF Pending, Owed, Audit!Sees, Audit!Match, Listening
    <3>3. (d \in subs' <=> p \in {"open", "closing"}) /\ Len(chain) <= Len(chain)'
      BY <1>1, <1>7, <3>1, LenProperties DEF AInv, Typed, StreamOK, Mapped
    <3> QED
      BY <1>7, <2>1, <3>1, <3>2, <3>3, StreamStays DEF AInv
  <2> QED
    BY <2>1, <2>2 DEF AInv
<1> QED
  BY <1>5, <1>6, <1>7

\* The handler of one stream goes on, and the log stays.
LEMMA HandlerStep ==
    ASSUME AInv, NEW b \in Browsers, NEW p \in {"closing", "left", "closed"},
           UNCHANGED <<chain, pub>>, sub' = [sub EXCEPT ![b].pc = p],
           p \in {"closing", "left"} => sub[b].pc \in {"open", "closing", "left"},
           subs' \in {subs, subs \ {b}}, b \in subs' <=> p = "closing",
           \A c \in Audit!Callers : pub[c].left \subseteq subs'
    PROVE  AInv'
<1>1. /\ sub'[b] = [sub[b] EXCEPT !.pc = p] /\ sub' \in [Browsers -> Listening]
      /\ \A d \in Browsers \ {b} : sub'[d] = sub[d]
      /\ \A d \in Browsers : sub'[d].ch = sub[d].ch
  <2>1. sub \in [Browsers -> Listening]
    BY DEF AInv, Typed
  <2>2. [sub[b] EXCEPT !.pc = p] \in Listening /\ [sub[b] EXCEPT !.pc = p].ch = sub[b].ch
    BY <2>1 DEF Listening
  <2>3. sub'[b] = [sub[b] EXCEPT !.pc = p] /\ \A d \in Browsers \ {b} : sub'[d] = sub[d]
    BY <2>1
  <2> QED
    BY <2>1, <2>2, <2>3
<1>2. Publishing' /\ Typed'
  BY <1>1 DEF AInv, Typed, Publishing
<1>3. Len(chain) <= Len(chain)'
  BY LenProperties DEF AInv, Typed
<1>4. ASSUME NEW d \in Browsers PROVE StreamOK(d)'
  <2>1. Pending(d)' = Pending(d)
    BY DEF Pending
  <2>2. CASE d = b
    <3>1. p # "open" /\ p \notin {"none", "logged", "open"}
      OBVIOUS
    <3> QED
      BY <1>1, <1>2, <1>3, <2>1, <2>2, <3>1, StreamStays DEF AInv
  <2>3. CASE d # b
    <3>1. Owed(d)' \subseteq Owed(d)
      BY <1>1, <2>1, <2>3 DEF Owed, Audit!Sees, Audit!Match
    <3> QED
      BY <1>1, <1>2, <1>3, <2>1, <2>3, <3>1, StreamSame DEF AInv
  <2> QED
    BY <2>2, <2>3
<1> QED
  BY <1>2, <1>4 DEF AInv

LEMMA EndSteps ==
    ASSUME AInv, NEW b \in Browsers, Audit!AcceptFails(b) \/ Audit!Disconnect(b) \/ Audit!Unsubscribe(b)
    PROVE  AInv'
<1>1. StreamOK(b) /\ \A c \in Audit!Callers : pub[c].left \subseteq subs
  BY DEF AInv, Publishing
<1>2. CASE Audit!AcceptFails(b)
  BY <1>1, <1>2, HandlerStep DEF Audit!AcceptFails, StreamOK, Mapped
<1>3. CASE Audit!Disconnect(b)
  BY <1>1, <1>3, HandlerStep DEF Audit!Disconnect, StreamOK, Mapped
<1>4. CASE Audit!Unsubscribe(b)
  <2>1. \A c \in Audit!Callers : pub[c].left = {}
    BY <1>4 DEF Audit!Unsubscribe, Audit!NoReaders, AInv, Publishing
  <2> QED
    BY <1>4, <2>1, HandlerStep DEF Audit!Unsubscribe
<1> QED
  BY <1>2, <1>3, <1>4

LEMMA RLockStep ==
    ASSUME AInv, NEW c \in Audit!Callers, Audit!RLock(c)
    PROVE  AInv'
<1>1. pub[c].pc = "committed" /\ Audit!Left(c, subs) /\ UNCHANGED <<chain, subs, sub>>
  BY DEF Audit!RLock
<1>2. /\ pub' \in [Audit!Callers -> Publication] /\ \A d \in Audit!Callers : pub'[d].i <= Len(chain)
      /\ Publishing'
      /\ \A d \in Audit!Callers \ {c} : pub'[d] = pub[d]
      /\ pub'[c].left = subs /\ pub'[c].pc # "committed" /\ (subs # {} => pub'[c].i = pub[c].i)
  BY <1>1, LeftStep DEF AInv
<1>3. Typed' /\ Len(chain) <= Len(chain)'
  BY <1>1, <1>2, LenProperties DEF AInv, Typed
<1>4. ASSUME NEW b \in Browsers PROVE StreamOK(b)'
  <2>1. \A i : i \in Pending(b)' => i \in Pending(b)
    BY <1>1, <1>2 DEF Pending
  <2>2. b \in subs => Pending(b) \subseteq Pending(b)'
    <3> SUFFICES ASSUME b \in subs, NEW d \in Audit!Callers, pub[d].pc = "committed" \/ b \in pub[d].left
                 PROVE  pub[d].i \in Pending(b)'
      BY DEF Pending
    <3>1. CASE d = c
      BY <1>2, <3>1 DEF Pending
    <3>2. CASE d # c
      BY <1>2, <3>2 DEF Pending
    <3> QED
      BY <3>1, <3>2
  <2>3. sub[b].pc = "open" => Owed(b)' \subseteq Owed(b)
    BY <1>1, <2>2 DEF Owed, Audit!Sees, Audit!Match, AInv, StreamOK, Mapped
  <2> QED
    BY <1>1, <1>3, <2>1, <2>3, StreamSame DEF AInv
<1> QED
  BY <1>2, <1>3, <1>4 DEF AInv

LEMMA FramesAre ==
    ASSUME NEW s \in Listening
    PROVE  /\ s.sent \in Seq(Frame) /\ s.ch \in Seq(Frame) /\ s.sent \o s.ch \in Seq(Frame)
           /\ Len(s.sent) \in Nat /\ Len(s.ch) \in Nat
           /\ Len(s.sent \o s.ch) = Len(s.sent) + Len(s.ch)
           /\ \A k \in 1..Len(s.sent \o s.ch) :
                  (s.sent \o s.ch)[k] = IF k <= Len(s.sent) THEN s.sent[k] ELSE s.ch[k - Len(s.sent)]
<1>1. s.sent \in Seq(Frame) /\ s.ch \in Seq(Frame)
  BY DEF Listening
<1> QED
  BY <1>1, ConcatProperties, LenProperties

\* A frame at the end of what is in the channel is at the end of all frames.
LEMMA ConcatAppend ==
    ASSUME NEW S, NEW s \in Seq(S), NEW r \in Seq(S), NEW f \in S
    PROVE  /\ s \o r \in Seq(S) /\ s \o Append(r, f) \in Seq(S) /\ Len(s \o r) \in Nat
           /\ Len(s \o Append(r, f)) = Len(s \o r) + 1
           /\ (s \o Append(r, f))[Len(s \o r) + 1] = f
           /\ \A k \in 1..Len(s \o r) : (s \o Append(r, f))[k] = (s \o r)[k]
<1>1. /\ s \o r \in Seq(S) /\ s \o Append(r, f) = (s \o r) \o <<f>>
      /\ Append(s \o r, f) = (s \o r) \o <<f>>
  <2>1. s \o r \in Seq(S) /\ <<f>> \in Seq(S)
    BY ConcatProperties
  <2>2. Append(r, f) = r \o <<f>> /\ Append(s \o r, f) = (s \o r) \o <<f>>
    BY <2>1, AppendIsConcat
  <2> QED
    BY <2>1, <2>2, ConcatAssociative
<1> QED
  BY <1>1, AppendProperties, LenProperties

\* One more that is owed, and one more that is counted.
LEMMA OneMore ==
    ASSUME Typed, NEW b \in Browsers, Accounted(b), NEW n, Owed(b)' \subseteq Owed(b) \cup {n},
           sub'[b].pc = sub[b].pc, Count(sub'[b]) = Count(sub[b]) + 1
    PROVE  Accounted(b)'
<1>1. IsFiniteSet(Owed(b)) /\ Cardinality(Owed(b)) \in Nat /\ Count(sub[b]) \in Nat
  BY OwedFinite, CountNat DEF Typed
<1>2. IsFiniteSet(Owed(b) \cup {n}) /\ Cardinality(Owed(b) \cup {n}) \in {Cardinality(Owed(b)), Cardinality(Owed(b)) + 1}
  BY <1>1, FS_AddElement
<1>3. IsFiniteSet(Owed(b)') /\ Cardinality(Owed(b)') <= Cardinality(Owed(b) \cup {n})
  BY <1>2, FS_Subset
<1>4. Cardinality(Owed(b)') \in Nat
  BY <1>3, FS_CardinalityType
<1>5. ASSUME sub[b].pc = "open" PROVE Cardinality(Owed(b)') <= Count(sub[b]) + 1
  <2>1. Cardinality(Owed(b)) <= Count(sub[b])
    BY <1>5 DEF Accounted
  <2> QED
    BY <1>1, <1>2, <1>3, <1>4, <2>1
<1> QED
  BY <1>5 DEF Accounted

\* The stream gets a frame of the entry that was on its way, or counts it.
LEMMA Delivered ==
    ASSUME Typed, Typed', UNCHANGED <<chain, subs>>, NEW b \in Browsers, StreamOK(b),
           NEW n \in 1..Len(chain), n \in Pending(b), n \notin Pending(b)',
           Pending(b)' \subseteq Pending(b), Pending(b) \subseteq Pending(b)' \cup {n},
           Audit!Sees(sub[b], chain[n]), b \in subs,
           NEW f \in Frame, f.i = n, f.e = Audit!StripSensitive(chain[n]),
           \/ sub'[b] = [sub[b] EXCEPT !.ch = Append(@, f)]
           \/ sub'[b] = [sub[b] EXCEPT !.dropped = @ + 1]
    PROVE  StreamOK(b)'
<1>1. sub[b] \in Listening /\ sub'[b] \in Listening /\ Len(chain) \in Nat /\ chain[n] \in Entry
  BY LenProperties, ElementOfSeq DEF Typed
<1>2. /\ sub'[b].pc = sub[b].pc /\ sub'[b].all = sub[b].all /\ sub'[b].at = sub[b].at
      /\ sub'[b].sent = sub[b].sent /\ sub'[b].tenant = sub[b].tenant /\ sub'[b].filter = sub[b].filter
      /\ \/ sub'[b].ch = Append(sub[b].ch, f) /\ sub'[b].dropped = sub[b].dropped
         \/ sub'[b].ch = sub[b].ch /\ sub'[b].dropped = sub[b].dropped + 1
  BY <1>1 DEF Listening
<1>3. \A e : Audit!Sees(sub'[b], e) <=> Audit!Sees(sub[b], e)
  BY <1>2 DEF Audit!Sees, Audit!Match
<1>4. sub[b].pc \in {"open", "closing"}
  BY DEF StreamOK, Mapped
<1>5. /\ Frames(b) \in Seq(Frame) /\ Frames(b)' \in Seq(Frame) /\ Len(Frames(b)) \in Nat
      /\ \A k \in 1..Len(Frames(b)) : Frames(b)'[k] = Frames(b)[k]
      /\ \/ Len(Frames(b)') = Len(Frames(b))
         \/ Len(Frames(b)') = Len(Frames(b)) + 1 /\ Frames(b)'[Len(Frames(b)) + 1] = f
  <2>1. CASE sub'[b].ch = sub[b].ch
    BY <1>1, <1>2, <2>1, FramesAre, LenProperties DEF Frames
  <2>2. CASE sub'[b].ch = Append(sub[b].ch, f)
    <3>1. sub[b].ch \in Seq(Frame) /\ sub[b].sent \in Seq(Frame)
      BY <1>1, FramesAre
    <3>2. Frames(b)' = sub[b].sent \o Append(sub[b].ch, f) /\ Frames(b) = sub[b].sent \o sub[b].ch
      BY <1>2, <2>2 DEF Frames
    <3> DEFINE s == sub[b].sent
               r == sub[b].ch
    <3>4. /\ s \o r \in Seq(Frame) /\ s \o Append(r, f) \in Seq(Frame) /\ Len(s \o r) \in Nat
          /\ Len(s \o Append(r, f)) = Len(s \o r) + 1
          /\ (s \o Append(r, f))[Len(s \o r) + 1] = f
          /\ \A k \in 1..Len(s \o r) : (s \o Append(r, f))[k] = (s \o r)[k]
      <4>1. s \in Seq(Frame) /\ r \in Seq(Frame)
        BY <3>1
      <4> HIDE DEF s, r
      <4> QED
        BY <4>1, ConcatAppend
    <3>3. /\ Frames(b) \in Seq(Frame) /\ Frames(b)' \in Seq(Frame) /\ Len(Frames(b)) \in Nat
          /\ Len(Frames(b)') = Len(Frames(b)) + 1 /\ Frames(b)'[Len(Frames(b)) + 1] = f
          /\ \A k \in 1..Len(Frames(b)) : Frames(b)'[k] = Frames(b)[k]
      BY <3>2, <3>4, Zenon
    <3> QED
      BY <3>3
  <2> QED
    BY <1>2, <2>1, <2>2
<1>6. Shown(b)'
  <2>1. f.i \in 1..Len(chain) /\ f.i \notin Pending(b)' /\ Audit!Sees(sub'[b], f.e)
    BY <1>1, <1>3, StripKeeps
  <2>2. ASSUME NEW k \in 1..Len(Frames(b)')
        PROVE  LET g == Frames(b)'[k]
               IN  /\ g.i \in 1..Len(chain) /\ g.i \notin Pending(b)'
                   /\ g.e = Audit!StripSensitive(chain[g.i]) /\ Audit!Sees(sub'[b], g.e)
    <3>1. CASE k \in 1..Len(Frames(b))
      BY <1>3, <1>5, <3>1 DEF StreamOK, Shown
    <3>2. CASE k \notin 1..Len(Frames(b))
      <4>1. Frames(b)'[k] = f
        BY <1>5, <3>2
      <4> QED
        BY <2>1, <4>1
    <3> QED
      BY <3>1, <3>2
  <2>3. \A k \in 1..Len(Frames(b)) : Frames(b)[k].i # n
    BY DEF StreamOK, Shown
  <2>4. \A k, l \in 1..Len(Frames(b)') : Frames(b)'[k].i = Frames(b)'[l].i => k = l
    <3> SUFFICES ASSUME NEW k \in 1..Len(Frames(b)'), NEW l \in 1..Len(Frames(b)'), Frames(b)'[k].i = Frames(b)'[l].i
                 PROVE  k = l
      OBVIOUS
    <3>1. CASE k \in 1..Len(Frames(b)) /\ l \in 1..Len(Frames(b))
      BY <1>5, <3>1 DEF StreamOK, Shown
    <3>2. CASE k \notin 1..Len(Frames(b)) \/ l \notin 1..Len(Frames(b))
      BY <1>5, <2>3, <3>2
    <3> QED
      BY <3>1, <3>2
  <2> QED
    BY <2>2, <2>4 DEF Shown
<1>7. Announced(b)' /\ Mapped(b)'
  BY <1>2, <1>4 DEF StreamOK, Announced, Mapped, Said
<1>8. Accounted(b)'
  <2>1. Owed(b)' \subseteq Owed(b) \cup {n}
    BY <1>2, <1>3 DEF Owed
  <2>2. Count(sub'[b]) = Count(sub[b]) + 1
    <3>1. /\ Len(sub[b].sent) \in Nat /\ Len(sub[b].ch) \in Nat /\ sub[b].dropped \in Nat
          /\ sub[b].ch \in Seq(Frame)
      BY <1>1, FramesAre DEF Listening
    <3>2. CASE sub'[b].ch = Append(sub[b].ch, f) /\ sub'[b].dropped = sub[b].dropped
      <4>1. Len(sub'[b].ch) = Len(sub[b].ch) + 1
        BY <3>1, <3>2, AppendProperties
      <4>2. Count(sub'[b]) = Len(sub[b].sent) + (Len(sub[b].ch) + 1) + sub[b].dropped
        BY <1>2, <3>2, <4>1 DEF Count
      <4>3. Len(sub[b].sent) + (Len(sub[b].ch) + 1) + sub[b].dropped = Len(sub[b].sent) + Len(sub[b].ch) + sub[b].dropped + 1
        BY <3>1, SumOne
      <4> QED
        BY <4>2, <4>3, Zenon DEF Count
    <3>3. CASE sub'[b].ch = sub[b].ch /\ sub'[b].dropped = sub[b].dropped + 1
      <4>1. Count(sub'[b]) = Len(sub[b].sent) + Len(sub[b].ch) + (sub[b].dropped + 1)
        BY <1>2, <3>3 DEF Count
      <4>2. Len(sub[b].sent) + Len(sub[b].ch) + (sub[b].dropped + 1) = Len(sub[b].sent) + Len(sub[b].ch) + sub[b].dropped + 1
        BY <3>1, SumOne
      <4> QED
        BY <4>1, <4>2, Zenon DEF Count
    <3> QED
      BY <1>2, <3>2, <3>3
  <2> QED
    BY <1>2, <2>1, <2>2, OneMore DEF StreamOK
<1> QED
  BY <1>6, <1>7, <1>8 DEF StreamOK

LEMMA PublishStep ==
    ASSUME AInv, Cap \in Nat, NEW c \in Audit!Callers, NEW b \in Browsers, Audit!Publish(c, b)
    PROVE  AInv'
<1> DEFINE n == pub[c].i
           e == Audit!StripSensitive(chain[n])
           f == [i |-> n, e |-> e]
<1>1. /\ pub[c].pc = "locked" /\ b \in pub[c].left /\ Audit!Left(c, pub[c].left \ {b}) /\ UNCHANGED <<chain, subs>>
      /\ sub' = IF ~Audit!Sees(sub[b], e) THEN sub
                ELSE IF Len(sub[b].ch) < Cap THEN [sub EXCEPT ![b].ch = Append(@, f)]
                ELSE [sub EXCEPT ![b].dropped = @ + 1]
  BY DEF Audit!Publish
<1>2. n \in 1..Len(chain) /\ b \in subs /\ pub[c].left \ {b} \subseteq subs
  BY <1>1 DEF AInv, Publishing
<1>3. Len(chain) \in Nat /\ chain[n] \in Entry /\ e \in Entry /\ f \in Frame /\ (Audit!Sees(sub[b], e) <=> Audit!Sees(sub[b], chain[n]))
  BY <1>2, LenProperties, ElementOfSeq, StripKeeps DEF AInv, Typed, Frame
<1>4. /\ pub' \in [Audit!Callers -> Publication] /\ \A d \in Audit!Callers : pub'[d].i <= Len(chain)
      /\ Publishing'
      /\ \A d \in Audit!Callers \ {c} : pub'[d] = pub[d]
      /\ pub'[c].left = pub[c].left \ {b} /\ pub'[c].pc # "committed"
      /\ (pub[c].left \ {b} # {} => pub'[c].i = n)
  BY <1>1, <1>2, LeftStep DEF AInv
<1>5. /\ n \in Pending(b) /\ Pending(b)' \subseteq Pending(b) /\ Pending(b) \subseteq Pending(b)' \cup {n}
      /\ n \notin Pending(b)'
  <2>1. n \in Pending(b)
    BY <1>1 DEF Pending
  <2>2. Pending(b)' = {pub[d].i : d \in {x \in Audit!Callers \ {c} : pub[x].pc = "committed" \/ b \in pub[x].left}}
    BY <1>4 DEF Pending
  <2>3. \A d \in Audit!Callers \ {c} : pub[d].pc = "committed" \/ b \in pub[d].left => pub[d].i # n
    BY <1>1 DEF AInv, Publishing
  <2> QED
    BY <2>1, <2>2, <2>3 DEF Pending
<1>6. ASSUME NEW d \in Browsers \ {b} PROVE Pending(d)' = Pending(d)
  BY <1>1, <1>4 DEF Pending
<1>7. sub \in [Browsers -> Listening] /\ sub[b] \in Listening
  BY DEF AInv, Typed
<1> HIDE DEF n, e, f
<1>8. f.i = n /\ f.e = Audit!StripSensitive(chain[n])
  BY DEF f, e
<1>9. /\ sub' \in [Browsers -> Listening] /\ \A d \in Browsers : Len(sub'[d].ch) <= Cap
      /\ \A d \in Browsers \ {b} : sub'[d] = sub[d]
  <2>1. CASE ~Audit!Sees(sub[b], e)
    BY <1>1, <1>7, <2>1 DEF AInv, Typed
  <2>2. CASE Audit!Sees(sub[b], e) /\ Len(sub[b].ch) < Cap
    <3>1. sub' = [sub EXCEPT ![b] = [sub[b] EXCEPT !.ch = Append(sub[b].ch, f)]]
      BY <1>1, <2>2
    <3>2. Append(sub[b].ch, f) \in Seq(Frame) /\ Len(Append(sub[b].ch, f)) = Len(sub[b].ch) + 1 /\ Len(sub[b].ch) \in Nat
      BY <1>3, <1>7, FramesAre, AppendProperties
    <3>3. [sub[b] EXCEPT !.ch = Append(sub[b].ch, f)] \in Listening
      BY <1>7, <3>2 DEF Listening
    <3>4. [sub[b] EXCEPT !.ch = Append(sub[b].ch, f)].ch = Append(sub[b].ch, f)
      BY <1>7 DEF Listening
    <3> QED
      BY <1>7, <2>2, <3>1, <3>2, <3>3, <3>4 DEF AInv, Typed
  <2>3. CASE Audit!Sees(sub[b], e) /\ ~(Len(sub[b].ch) < Cap)
    <3>1. sub' = [sub EXCEPT ![b] = [sub[b] EXCEPT !.dropped = sub[b].dropped + 1]]
      BY <1>1, <2>3
    <3>2. /\ [sub[b] EXCEPT !.dropped = sub[b].dropped + 1] \in Listening
          /\ [sub[b] EXCEPT !.dropped = sub[b].dropped + 1].ch = sub[b].ch
      <4> DEFINE m == sub[b].dropped + 1
      <4>1. m \in Nat
        BY <1>7 DEF Listening
      <4> HIDE DEF m
      <4>2. [sub[b] EXCEPT !.dropped = m] \in Listening /\ [sub[b] EXCEPT !.dropped = m].ch = sub[b].ch
        BY <1>7, <4>1 DEF Listening
      <4> QED
        BY <4>2 DEF m
    <3> QED
      BY <1>7, <3>1, <3>2 DEF AInv, Typed
  <2> QED
    BY <2>1, <2>2, <2>3
<1>10. Typed'
  BY <1>1, <1>4, <1>9 DEF AInv, Typed
<1>11. ASSUME NEW d \in Browsers \ {b} PROVE StreamOK(d)'
  <2>1. Owed(d)' \subseteq Owed(d)
    BY <1>1, <1>6, <1>9 DEF Owed, Audit!Sees, Audit!Match
  <2>2. sub'[d] = sub[d] /\ StreamOK(d) /\ Len(chain) <= Len(chain)'
    BY <1>1, <1>3, <1>9 DEF AInv
  <2> QED
    BY <1>1, <1>6, <1>10, <2>1, <2>2, StreamSame DEF AInv
<1>12. StreamOK(b)'
  <2>1. CASE Audit!Sees(sub[b], e)
    <3>1. \/ sub'[b] = [sub[b] EXCEPT !.ch = Append(@, f)]
          \/ sub'[b] = [sub[b] EXCEPT !.dropped = @ + 1]
      BY <1>1, <1>7, <2>1
    <3> QED
      BY <1>1, <1>2, <1>3, <1>5, <1>8, <1>10, <2>1, <3>1, Delivered DEF AInv
  <2>2. CASE ~Audit!Sees(sub[b], e)
    <3>1. sub' = sub
      BY <1>1, <2>2
    <3>2. Owed(b)' \subseteq Owed(b)
      BY <1>1, <1>3, <1>5, <2>2, <3>1 DEF Owed, Audit!Sees, Audit!Match
    <3>3. Len(chain) <= Len(chain)'
      BY <1>1, <1>3
    <3> QED
      BY <1>1, <1>5, <1>10, <3>1, <3>2, <3>3, StreamSame DEF AInv
  <2> QED
    BY <2>1, <2>2
<1> QED
  BY <1>4, <1>10, <1>11, <1>12 DEF AInv

\* Others than the stream that opens or writes stay as they are.
LEMMA OthersStay ==
    ASSUME AInv, Typed', UNCHANGED <<chain, pub>>, NEW b \in Browsers,
           NEW d \in Browsers \ {b}, sub'[d] = sub[d], subs' \in {subs, subs \cup {b}}
    PROVE  StreamOK(d)'
<1>1. Pending(d)' = Pending(d) /\ Len(chain) <= Len(chain)'
  BY LenProperties DEF Pending, AInv, Typed
<1>2. Owed(d)' \subseteq Owed(d)
  BY <1>1 DEF Owed, Audit!Sees, Audit!Match
<1> QED
  BY <1>1, <1>2, StreamSame DEF AInv

LEMMA SubscribeStep ==
    ASSUME AInv, NEW b \in Browsers, Audit!Subscribe(b)
    PROVE  AInv'
<1>1. /\ sub[b].pc = "logged" /\ subs' = subs \cup {b} /\ UNCHANGED <<chain, pub>>
      /\ sub' = [sub EXCEPT ![b].pc = "open", ![b].at = Len(chain)]
      /\ sub \in [Browsers -> Listening] /\ sub[b] \in Listening /\ Len(chain) \in Nat
  BY LenProperties DEF Audit!Subscribe, AInv, Typed
<1>2. /\ sub'[b].pc = "open" /\ sub'[b].at = Len(chain) /\ sub'[b].all = sub[b].all
      /\ sub'[b].ch = sub[b].ch /\ sub'[b].sent = sub[b].sent /\ sub'[b].dropped = sub[b].dropped
      /\ sub'[b] \in Listening
      /\ \A d \in Browsers \ {b} : sub'[d] = sub[d]
      /\ sub' \in [Browsers -> Listening]
  BY <1>1 DEF Listening
<1>3. Publishing' /\ Typed'
  BY <1>1, <1>2 DEF AInv, Typed, Publishing
<1>4. sub[b].ch = <<>> /\ sub[b].sent = <<>> /\ sub[b].dropped = 0
  BY <1>1 DEF AInv, StreamOK, Mapped
<1>5. Frames(b)' = <<>> /\ Len(Frames(b)') = 0
  BY <1>2, <1>4, ConcatEmptySeq, EmptySeq DEF Frames
<1>6. Shown(b)'
  BY <1>5 DEF Shown
<1>7. Announced(b)' /\ Mapped(b)'
  BY <1>1, <1>2 DEF AInv, StreamOK, Announced, Mapped, Said
<1>8. Accounted(b)'
  <2>1. Owed(b)' = {}
    BY <1>1, <1>2 DEF Owed
  <2>2. Cardinality(Owed(b)') = 0 /\ Count(sub'[b]) \in Nat
    BY <1>2, <2>1, FS_EmptySet, CountNat
  <2> QED
    BY <2>2 DEF Accounted
<1>9. StreamOK(b)'
  BY <1>6, <1>7, <1>8 DEF StreamOK
<1> QED
  BY <1>1, <1>2, <1>3, <1>9, OthersStay DEF AInv

LEMMA HandlerBegins ==
    ASSUME AInv, Cap \in Nat, NEW b \in Browsers, Audit!StreamHandler(b)
    PROVE  AInv'
<1>1. PICK all \in BOOLEAN :
        /\ sub[b].pc = "none" /\ UNCHANGED subs
        /\ Audit!Append1(b, [action |-> "subscribed", tenant |-> sub[b].tenant, secret |-> FALSE, by |-> b,
                       all |-> all, dropped |-> 0])
        /\ sub' = [sub EXCEPT ![b] = [Audit!NewSubscriber(sub[b].tenant, all, Audit!StreamFilter(b)) EXCEPT !.pc = "logged"]]
  BY DEF Audit!StreamHandler
<1> DEFINE e == [action |-> "subscribed", tenant |-> sub[b].tenant, secret |-> FALSE, by |-> b,
                 all |-> all, dropped |-> 0]
<1>2. sub \in [Browsers -> Listening] /\ sub[b] \in Listening
  BY DEF AInv, Typed
<1>3. e \in Entry /\ b \in Audit!Callers /\ e.action = "subscribed" /\ e.by = b /\ e.all = all /\ Audit!Append1(b, e)
  BY <1>1, <1>2 DEF Entry, Audit!Callers, Listening
<1> HIDE DEF e
<1>4. /\ sub'[b].pc = "logged" /\ sub'[b].all = all /\ sub'[b].ch = <<>> /\ sub'[b].sent = <<>>
      /\ sub'[b].dropped = 0 /\ sub'[b] \in Listening
  <2>1. sub'[b] = [Audit!NewSubscriber(sub[b].tenant, all, Audit!StreamFilter(b)) EXCEPT !.pc = "logged"]
    BY <1>1, <1>2
  <2>2. Audit!StreamFilter(b) \in {{}, {"change"}} /\ <<>> \in Seq(Frame) /\ 0 \in Nat
    BY EmptySeq DEF Audit!StreamFilter
  <2>3. sub'[b] = [pc |-> "logged", tenant |-> sub[b].tenant, all |-> all, filter |-> Audit!StreamFilter(b), ch |-> <<>>,
                   dropped |-> 0, sent |-> <<>>, at |-> 0]
    BY <2>1 DEF Audit!NewSubscriber
  <2>4. sub[b].tenant \in {Home}
    BY <1>2 DEF Listening
  <2> QED
    BY <2>2, <2>3, <2>4 DEF Listening
<1>5. sub' \in [Browsers -> Listening] /\ \A d \in Browsers \ {b} : sub'[d] = sub[d]
  BY <1>1, <1>2, <1>4
<1>6. /\ Publishing' /\ Len(chain)' = Len(chain) + 1 /\ Len(chain) \in Nat /\ chain'[Len(chain)'] = e
      /\ chain' \in Seq(Entry) /\ pub' \in [Audit!Callers -> Publication] /\ \A d \in Audit!Callers : pub'[d].i <= Len(chain)'
  BY <1>1, <1>3, AppendStep DEF AInv
<1>7. Typed'
  <2>1. Len(<<>>) = 0
    BY EmptySeq
  <2>2. \A d \in Browsers : Len(sub'[d].ch) <= Cap
    BY <1>4, <1>5, <2>1 DEF AInv, Typed
  <2> QED
    BY <1>1, <1>5, <1>6, <2>2 DEF AInv, Typed
<1>8. ASSUME NEW d \in Browsers \ {b} PROVE StreamOK(d)'
  <2>1. sub'[d] = [sub[d] EXCEPT !.pc = sub[d].pc] /\ StreamOK(d)
    BY <1>2, <1>5 DEF Listening, AInv
  <2> QED
    BY <1>1, <1>3, <1>7, <2>1, AppendKeeps DEF AInv
<1>9. StreamOK(b)'
  <2>1. Frames(b)' = <<>> /\ Len(Frames(b)') = 0
    BY <1>4, ConcatEmptySeq, EmptySeq DEF Frames
  <2>2. Shown(b)' /\ Accounted(b)'
    BY <1>4, <2>1 DEF Shown, Accounted
  <2>3. Mapped(b)'
    BY <1>1, <1>4 DEF AInv, StreamOK, Mapped
  <2>4. Announced(b)'
    BY <1>3, <1>4, <1>6, <2>1 DEF Announced, Said
  <2> QED
    BY <2>2, <2>3, <2>4 DEF StreamOK
<1> QED
  BY <1>6, <1>7, <1>8, <1>9 DEF AInv

LEMMA HeadThenTail ==
    ASSUME NEW S, NEW r \in Seq(S), r # <<>>
    PROVE  /\ Head(r) \in S /\ Tail(r) \in Seq(S) /\ <<Head(r)>> \in Seq(S)
           /\ Len(r) \in Nat \ {0} /\ Len(Tail(r)) = Len(r) - 1 /\ <<Head(r)>> \o Tail(r) = r
           /\ \A k \in 1..Len(Tail(r)) : Tail(r)[k] = r[k + 1]
<1>1. /\ Head(r) \in S /\ Tail(r) \in Seq(S) /\ Len(Tail(r)) = Len(r) - 1 /\ Len(r) \in Nat \ {0}
      /\ Head(r) = r[1] /\ \A k \in 1..Len(Tail(r)) : Tail(r)[k] = r[k + 1]
  BY HeadTailProperties, EmptySeq, LenProperties
<1> DEFINE h == <<Head(r)>>
           y == Tail(r)
<1>2. h \in Seq(S) /\ Len(h) = 1 /\ h[1] = r[1]
  BY <1>1
<1>3. y \in Seq(S) /\ Len(y) = Len(r) - 1 /\ \A k \in 1..Len(y) : y[k] = r[k + 1]
  BY <1>1
<1> HIDE DEF h, y
<1>4. /\ h \o y \in Seq(S) /\ Len(h \o y) = Len(h) + Len(y)
      /\ \A k \in 1..(Len(h) + Len(y)) : (h \o y)[k] = IF k <= Len(h) THEN h[k] ELSE y[k - Len(h)]
  <2>1. h \in Seq(S) /\ y \in Seq(S)
    BY <1>2, <1>3
  <2> QED
    BY ONLY <2>1, ConcatProperties
<1>5. Len(h \o y) = Len(r) /\ Len(r) \in Nat
  BY <1>1, <1>2, <1>3, <1>4
<1>6. ASSUME NEW k \in 1..Len(h \o y) PROVE (h \o y)[k] = r[k]
  <2>1. k \in 1..(Len(h) + Len(y)) /\ k \in Nat /\ k >= 1
    BY <1>4, <1>5
  <2>2. CASE k = 1
    BY <1>2, <1>4, <2>1, <2>2
  <2>3. CASE k # 1
    <3>1. k - 1 \in 1..Len(y) /\ (k - 1) + 1 = k /\ ~(k <= Len(h))
      BY <1>2, <1>3, <1>5, <2>1, <2>3
    <3> QED
      BY <1>2, <1>3, <1>4, <2>1, <3>1
  <2> QED
    BY <2>2, <2>3
<1>7. h \o y = r
  BY <1>4, <1>5, <1>6, SeqEqual
<1> QED
  BY <1>1, <1>2, <1>7 DEF h, y

\* A frame that goes out stays a frame of the stream; one that is lost makes room for the others.
LEMMA ConcatShift ==
    ASSUME NEW S, NEW s \in Seq(S), NEW r \in Seq(S), r # <<>>
    PROVE  /\ Append(s, Head(r)) \in Seq(S) /\ Len(Append(s, Head(r))) = Len(s) + 1
           /\ Append(s, Head(r)) \o Tail(r) = s \o r
           /\ Len(s \o Tail(r)) = Len(s \o r) - 1
           /\ \A k \in 1..Len(s \o Tail(r)) :
                  /\ k <= Len(s) => (s \o Tail(r))[k] = (s \o r)[k]
                  /\ k > Len(s) => (s \o Tail(r))[k] = (s \o r)[k + 1]
<1> DEFINE h == <<Head(r)>>
           y == Tail(r)
<1>1. /\ Head(r) \in S /\ y \in Seq(S) /\ h \in Seq(S)
      /\ Len(r) \in Nat \ {0} /\ Len(y) = Len(r) - 1 /\ h \o y = r
      /\ \A k \in 1..Len(y) : y[k] = r[k + 1]
  BY HeadThenTail
<1>2. Append(s, Head(r)) = s \o h
  BY <1>1, AppendIsConcat
<1>3. Append(s, Head(r)) \in Seq(S) /\ Len(Append(s, Head(r))) = Len(s) + 1 /\ Len(s) \in Nat
  BY <1>1, AppendProperties, LenProperties
<1> HIDE DEF h, y
<1>4. (s \o h) \o y = s \o r
  <2>1. h \in Seq(S) /\ y \in Seq(S)
    BY <1>1
  <2>2. (s \o h) \o y = s \o (h \o y)
    BY <2>1, ConcatAssociative
  <2> QED
    BY <1>1, <2>2, Zenon
<1>5. /\ Len(s \o y) = Len(s) + Len(y)
      /\ \A k \in 1..(Len(s) + Len(y)) : (s \o y)[k] = IF k <= Len(s) THEN s[k] ELSE y[k - Len(s)]
  BY <1>1, ConcatProperties
<1>6. /\ Len(s \o r) = Len(s) + Len(r)
      /\ \A k \in 1..(Len(s) + Len(r)) : (s \o r)[k] = IF k <= Len(s) THEN s[k] ELSE r[k - Len(s)]
  BY ConcatProperties
<1>7. Len(s \o y) = Len(s \o r) - 1
  BY <1>1, <1>3, <1>5, <1>6
<1>8. ASSUME NEW k \in 1..Len(s \o y)
      PROVE  /\ k <= Len(s) => (s \o y)[k] = (s \o r)[k]
             /\ k > Len(s) => (s \o y)[k] = (s \o r)[k + 1]
  <2>1. k \in 1..(Len(s) + Len(y)) /\ k \in 1..(Len(s) + Len(r)) /\ k + 1 \in 1..(Len(s) + Len(r)) /\ k \in Nat
    BY <1>1, <1>3, <1>5
  <2>2. CASE k <= Len(s)
    BY <1>3, <1>5, <1>6, <2>1, <2>2
  <2>3. CASE k > Len(s)
    <3>1. k - Len(s) \in 1..Len(y) /\ (k - Len(s)) + 1 = (k + 1) - Len(s) /\ ~(k <= Len(s)) /\ ~(k + 1 <= Len(s))
      BY <1>1, <1>3, <2>1, <2>3
    <3>2. (s \o y)[k] = y[k - Len(s)] /\ (s \o r)[k + 1] = r[(k + 1) - Len(s)]
      BY <1>5, <1>6, <2>1, <3>1
    <3>3. y[k - Len(s)] = r[(k - Len(s)) + 1]
      BY <1>1, <3>1
    <3> QED
      BY <2>3, <3>1, <3>2, <3>3
  <2> QED
    BY <1>3, <2>1, <2>2, <2>3
<1> QED
  BY <1>2, <1>3, <1>4, <1>7, <1>8, Zenon DEF y


LEMMA SumMoves ==
    ASSUME NEW x \in Nat, NEW y \in Nat \ {0}, NEW z \in Nat
    PROVE  (x + 1) + (y - 1) + z = x + y + z
  OBVIOUS

\* A frame is written: the stream holds what it held.
LEMMA WrittenOne ==
    ASSUME Typed, Typed', UNCHANGED <<chain, pub, subs>>, NEW b \in Browsers, StreamOK(b), sub[b].ch # <<>>,
           sub'[b] = [sub[b] EXCEPT !.ch = Tail(@), !.sent = Append(@, Head(sub[b].ch))]
    PROVE  StreamOK(b)'
<1>1. sub[b] \in Listening /\ sub'[b] \in Listening /\ Len(chain) \in Nat
  BY LenProperties DEF Typed
<1>2. /\ sub'[b].pc = sub[b].pc /\ sub'[b].all = sub[b].all /\ sub'[b].at = sub[b].at
      /\ sub'[b].tenant = sub[b].tenant /\ sub'[b].filter = sub[b].filter
      /\ sub'[b].dropped = sub[b].dropped
      /\ sub'[b].ch = Tail(sub[b].ch) /\ sub'[b].sent = Append(sub[b].sent, Head(sub[b].ch))
  BY <1>1 DEF Listening
<1>3. sub[b].ch \in Seq(Frame) /\ sub[b].sent \in Seq(Frame) /\ sub[b].dropped \in Nat
  BY <1>1 DEF Listening
<1> DEFINE s == sub[b].sent
           r == sub[b].ch
<1>4. s \in Seq(Frame) /\ r \in Seq(Frame) /\ r # <<>>
  BY <1>3
<1> HIDE DEF s, r
<1>5. /\ Append(s, Head(r)) \o Tail(r) = s \o r /\ Len(Append(s, Head(r))) = Len(s) + 1
      /\ Len(Tail(r)) = Len(r) - 1 /\ Len(r) \in Nat \ {0} /\ Len(s) \in Nat
  BY <1>4, ConcatShift, HeadThenTail, LenProperties
<1>6. Frames(b)' = Frames(b)
  BY <1>2, <1>5, Zenon DEF Frames, s, r
<1>7. Count(sub'[b]) = Count(sub[b])
  <2>1. Count(sub'[b]) = (Len(s) + 1) + (Len(r) - 1) + sub[b].dropped
    BY <1>2, <1>5, Zenon DEF Count, s, r
  <2>2. (Len(s) + 1) + (Len(r) - 1) + sub[b].dropped = Len(s) + Len(r) + sub[b].dropped
    BY <1>3, <1>5, SumMoves
  <2> QED
    BY <2>1, <2>2, Zenon DEF Count, s, r
<1>8. \A e : Audit!Sees(sub'[b], e) <=> Audit!Sees(sub[b], e)
  BY <1>2 DEF Audit!Sees, Audit!Match
<1>9. Pending(b)' = Pending(b)
  BY DEF Pending
<1>10. Shown(b)'
  BY <1>6, <1>8, <1>9 DEF StreamOK, Shown
<1>11. sub[b].pc \notin {"none", "logged"}
  BY DEF StreamOK, Mapped
<1>12. Announced(b)' /\ Mapped(b)'
  BY <1>2, <1>6, <1>11 DEF StreamOK, Announced, Mapped, Said
<1>13. Accounted(b)'
  <2>1. Owed(b)' = Owed(b)
    BY <1>2, <1>8, <1>9 DEF Owed
  <2> QED
    BY <1>2, <1>7, <2>1 DEF StreamOK, Accounted
<1> QED
  BY <1>10, <1>12, <1>13 DEF StreamOK

\* A frame cannot be written: it is lost, and the stream ends.
LEMMA LostOne ==
    ASSUME Typed, Typed', UNCHANGED <<chain, pub, subs>>, NEW b \in Browsers, StreamOK(b),
           sub[b].pc = "open", sub[b].ch # <<>>,
           sub'[b] = [sub[b] EXCEPT !.ch = Tail(@), !.pc = "closing"]
    PROVE  StreamOK(b)'
<1>1. sub[b] \in Listening /\ sub'[b] \in Listening /\ Len(chain) \in Nat
  BY LenProperties DEF Typed
<1>2. /\ sub'[b].pc = "closing" /\ sub'[b].all = sub[b].all /\ sub'[b].at = sub[b].at
      /\ sub'[b].tenant = sub[b].tenant /\ sub'[b].filter = sub[b].filter
      /\ sub'[b].ch = Tail(sub[b].ch) /\ sub'[b].sent = sub[b].sent
  BY <1>1 DEF Listening
<1>3. sub[b].ch \in Seq(Frame) /\ sub[b].sent \in Seq(Frame)
  BY <1>1 DEF Listening
<1> DEFINE s == sub[b].sent
           r == sub[b].ch
<1>4. s \in Seq(Frame) /\ r \in Seq(Frame) /\ r # <<>>
  BY <1>3
<1>5. Frames(b) = s \o r /\ Frames(b)' = s \o Tail(r)
  BY <1>2 DEF Frames
<1> HIDE DEF s, r
<1>6. Len(s) \in Nat /\ Len(s \o r) \in Nat
  BY <1>4, ConcatProperties, LenProperties
<1>7. /\ Len(s \o Tail(r)) = Len(s \o r) - 1
      /\ \A k \in 1..Len(s \o Tail(r)) :
             /\ k <= Len(s) => (s \o Tail(r))[k] = (s \o r)[k]
             /\ k > Len(s) => (s \o Tail(r))[k] = (s \o r)[k + 1]
  BY <1>4, ConcatShift
<1> DEFINE was(k) == IF k <= Len(s) THEN k ELSE k + 1
<1>8. /\ \A k \in 1..Len(Frames(b)') : was(k) \in 1..Len(Frames(b)) /\ Frames(b)'[k] = Frames(b)[was(k)]
      /\ \A k, l \in 1..Len(Frames(b)') : was(k) = was(l) => k = l
  <2>1. /\ \A k \in 1..Len(s \o Tail(r)) : was(k) \in 1..Len(s \o r) /\ (s \o Tail(r))[k] = (s \o r)[was(k)]
        /\ \A k, l \in 1..Len(s \o Tail(r)) : was(k) = was(l) => k = l
    BY <1>6, <1>7
  <2> HIDE DEF was
  <2> QED
    BY <1>5, <2>1, Zenon
<1> HIDE DEF was
<1>9. \A e : Audit!Sees(sub'[b], e) <=> Audit!Sees(sub[b], e)
  BY <1>2 DEF Audit!Sees, Audit!Match
<1>10. Pending(b)' = Pending(b)
  BY DEF Pending
<1>11. Shown(b)'
  <2>1. \A k \in 1..Len(Frames(b)') :
           LET f == Frames(b)'[k]
           IN  /\ f.i \in 1..Len(chain) /\ f.i \notin Pending(b)'
               /\ f.e = Audit!StripSensitive(chain[f.i]) /\ Audit!Sees(sub'[b], f.e)
    BY <1>8, <1>9, <1>10 DEF StreamOK, Shown
  <2>2. \A k, l \in 1..Len(Frames(b)') : Frames(b)'[k].i = Frames(b)'[l].i => k = l
    BY <1>8 DEF StreamOK, Shown
  <2> QED
    BY <2>1, <2>2 DEF Shown
<1>12. Announced(b)' /\ Mapped(b)' /\ Accounted(b)'
  BY <1>2 DEF StreamOK, Announced, Mapped, Said, Accounted
<1> QED
  BY <1>11, <1>12 DEF StreamOK

LEMMA WriteStep ==
    ASSUME AInv, Cap \in Nat, NEW b \in Browsers, Audit!WriteJSON(b)
    PROVE  AInv'
<1>1. /\ sub[b].pc = "open" /\ sub[b].ch # <<>> /\ UNCHANGED <<chain, pub, subs>>
      /\ sub \in [Browsers -> Listening] /\ sub[b] \in Listening /\ Len(sub[b].ch) <= Cap /\ StreamOK(b)
  BY DEF Audit!WriteJSON, AInv, Typed
<1> DEFINE wrote == [sub[b] EXCEPT !.ch = Tail(@), !.sent = Append(@, Head(sub[b].ch))]
           lost == [sub[b] EXCEPT !.ch = Tail(@), !.pc = "closing"]
<1>2. sub' = [sub EXCEPT ![b] = wrote] \/ sub' = [sub EXCEPT ![b] = lost]
  <2>1. CASE sub' = [sub EXCEPT ![b].ch = Tail(@), ![b].sent = Append(@, Head(sub[b].ch))]
    BY <1>1, <2>1
  <2>2. CASE sub' = [sub EXCEPT ![b].ch = Tail(@), ![b].pc = "closing"]
    BY <1>1, <2>2
  <2> QED
    BY <2>1, <2>2 DEF Audit!WriteJSON
<1>3. /\ Tail(sub[b].ch) \in Seq(Frame) /\ Append(sub[b].sent, Head(sub[b].ch)) \in Seq(Frame)
      /\ Len(Tail(sub[b].ch)) <= Cap
  <2>1. sub[b].ch \in Seq(Frame) /\ sub[b].sent \in Seq(Frame)
    BY <1>1 DEF Listening
  <2>2. /\ Tail(sub[b].ch) \in Seq(Frame) /\ Append(sub[b].sent, Head(sub[b].ch)) \in Seq(Frame)
        /\ Len(sub[b].ch) \in Nat /\ Len(Tail(sub[b].ch)) = Len(sub[b].ch) - 1
    BY <1>1, <2>1, HeadThenTail, AppendProperties
  <2> QED
    BY <1>1, <2>2
<1>4. wrote \in Listening /\ lost \in Listening /\ Len(wrote.ch) <= Cap /\ Len(lost.ch) <= Cap
  BY <1>1, <1>3 DEF Listening
<1> HIDE DEF wrote, lost
<1>5. sub'[b] \in {wrote, lost} /\ sub' \in [Browsers -> Listening] /\ \A d \in Browsers \ {b} : sub'[d] = sub[d]
  BY <1>1, <1>2, <1>4
<1>6. Publishing' /\ Typed'
  BY <1>1, <1>4, <1>5 DEF AInv, Typed, Publishing
<1>7. StreamOK(b)'
  BY <1>1, <1>5, <1>6, WrittenOne, LostOne DEF wrote, lost, AInv
<1> QED
  BY <1>1, <1>5, <1>6, <1>7, OthersStay DEF AInv

\* Nobody listens yet, and nothing is on its way.
LEMMA StreamsBegin ==
    ASSUME Cap \in Nat, Audit!Init
    PROVE  AInv
<1>1. /\ chain = <<>> /\ subs = {} /\ pub = [c \in Audit!Callers |-> Audit!NoPub]
      /\ sub = [b \in Browsers |-> Audit!NewSubscriber(Home, FALSE, {})]
      /\ <<>> \in Seq(Entry) /\ <<>> \in Seq(Frame) /\ Len(<<>>) = 0
  BY EmptySeq DEF Audit!Init
<1>2. Audit!NoPub \in Publication /\ Audit!NoPub.pc = "none" /\ Audit!NoPub.i = 0 /\ Audit!NoPub.left = {}
  BY DEF Audit!NoPub, Publication
<1> DEFINE new == Audit!NewSubscriber(Home, FALSE, {})
<1> DEFINE none == {}
<1>3. /\ new \in Listening /\ new.pc = "none" /\ new.ch = <<>> /\ new.sent = <<>> /\ new.dropped = 0
  <2>1. new = [pc |-> "none", tenant |-> Home, all |-> FALSE, filter |-> none, ch |-> <<>>,
               dropped |-> 0, sent |-> <<>>, at |-> 0]
    BY DEF Audit!NewSubscriber
  <2>2. none \in {{}, {"change"}} /\ 0 \in Nat /\ <<>> \in Seq(Frame)
    BY <1>1
  <2> HIDE DEF new, none
  <2> QED
    BY <2>1, <2>2 DEF Listening
<1> HIDE DEF new
<1>4. \A b \in Browsers : sub[b] = new
  BY <1>1 DEF new
<1>5. Typed
  <2>1. sub \in [Browsers -> Listening]
    BY <1>1, <1>3 DEF new
  <2>2. ASSUME NEW b \in Browsers PROVE Len(sub[b].ch) <= Cap
    <3>1. sub[b].ch = <<>>
      BY <1>3, <1>4
    <3>2. Len(sub[b].ch) = 0
      BY <1>1, <3>1, Zenon
    <3> QED
      BY <3>2
  <2>3. chain \in Seq(Entry) /\ Len(chain) = 0 /\ subs \subseteq Browsers
    BY <1>1
  <2>4. pub \in [Audit!Callers -> Publication] /\ \A c \in Audit!Callers : pub[c].i = 0
    BY <1>1, <1>2
  <2> QED
    BY <2>1, <2>2, <2>3, <2>4 DEF Typed
<1>6. Publishing
  <2>1. \A c \in Audit!Callers : pub[c] = Audit!NoPub
    BY <1>1
  <2> QED
    BY <1>2, <2>1 DEF Publishing
<1>7. ASSUME NEW b \in Browsers PROVE StreamOK(b)
  <2>1. /\ sub[b].pc = "none" /\ sub[b].ch = <<>> /\ sub[b].sent = <<>> /\ sub[b].dropped = 0 /\ b \notin subs
    BY <1>1, <1>3, <1>4
  <2>2. Frames(b) = <<>> /\ Len(Frames(b)) = 0
    BY <1>1, <2>1, ConcatEmptySeq DEF Frames
  <2>3. Shown(b)
    BY <2>2 DEF Shown
  <2>4. Announced(b) /\ Mapped(b) /\ Accounted(b)
    BY <2>1, <2>2 DEF Announced, Mapped, Accounted
  <2> QED
    BY <2>3, <2>4 DEF StreamOK
<1> QED
  BY <1>5, <1>6, <1>7 DEF AInv

\* Every step of the broker, its callers and the handlers keeps all of it.
LEMMA StreamsStay ==
    ASSUME AInv, Cap \in Nat, Audit!Next \/ UNCHANGED auditVars
    PROVE  AInv'
<1>1. ASSUME UNCHANGED auditVars PROVE AInv'
  <2>1. UNCHANGED <<chain, pub, subs, sub>>
    BY <1>1 DEF auditVars
  <2>2. Typed' /\ Publishing'
    BY <2>1 DEF AInv, Typed, Publishing
  <2>3. ASSUME NEW b \in Browsers PROVE StreamOK(b)'
    <3>1. Pending(b)' = Pending(b) /\ Len(chain) <= Len(chain)' /\ Owed(b)' \subseteq Owed(b)
      BY <2>1, LenProperties DEF Pending, Owed, Audit!Sees, Audit!Match, AInv, Typed
    <3> QED
      BY <2>1, <2>2, <3>1, StreamSame DEF AInv
  <2> QED
    BY <2>2, <2>3 DEF AInv
<1>2. ASSUME NEW w \in Writers, Audit!Change(w) PROVE AInv'
  BY <1>2, ChangeStep
<1>3. ASSUME NEW c \in Audit!Callers, Audit!RLock(c) PROVE AInv'
  BY <1>3, RLockStep
<1>4. ASSUME NEW c \in Audit!Callers, NEW b \in Browsers, Audit!Publish(c, b) PROVE AInv'
  BY <1>4, PublishStep
<1>5. ASSUME NEW b \in Browsers, Audit!StreamHandler(b) PROVE AInv'
  BY <1>5, HandlerBegins
<1>6. ASSUME NEW b \in Browsers, Audit!AcceptFails(b) \/ Audit!Disconnect(b) \/ Audit!Unsubscribe(b) PROVE AInv'
  BY <1>6, EndSteps
<1>7. ASSUME NEW b \in Browsers, Audit!Subscribe(b) PROVE AInv'
  BY <1>7, SubscribeStep
<1>8. ASSUME NEW b \in Browsers, Audit!WriteJSON(b) PROVE AInv'
  BY <1>8, WriteStep
<1>9. ASSUME NEW b \in Browsers, Audit!LogEnd(b) PROVE AInv'
  BY <1>9, LogEndStep
<1> QED
  BY <1>1, <1>2, <1>3, <1>4, <1>5, <1>6, <1>7, <1>8, <1>9 DEF Audit!Next

LEMMA SameCount == ASSUME NEW S PROVE Audit!Cardinality(S) = Cardinality(S)
  BY DEF Audit!Cardinality, Cardinality

\* The invariant says more than the properties do.
LEMMA StreamsImply ==
    ASSUME AInv
    PROVE  StreamTrue
<1>1. Typed /\ Publishing
  BY DEF AInv
<1>2. Audit!TypeOK
  <2>1. Len(chain) \in Nat
    BY <1>1, LenProperties DEF Typed
  <2> QED
    BY <1>1, <2>1 DEF Typed, Audit!TypeOK, Publication, Listening
<1>3. Audit!NoSendOnClosed
  BY <1>1 DEF Publishing, Audit!NoSendOnClosed
<1>4. Audit!SeesItsOwn
  <2> SUFFICES ASSUME NEW b \in Browsers, Frames(b) # <<>>
               PROVE  /\ \A k \in DOMAIN Frames(b) : /\ Frames(b)[k].e = Audit!StripSensitive(chain[Frames(b)[k].i])
                                                     /\ Audit!Sees(sub[b], Frames(b)[k].e)
                      /\ \A k, l \in DOMAIN Frames(b) : Frames(b)[k].i = Frames(b)[l].i => k = l
                      /\ \E j \in 1..sub[b].at : chain[j].action = "subscribed" /\ chain[j].by = b
                                                /\ chain[j].all = sub[b].all
    BY DEF Audit!SeesItsOwn, Frames
  <2>1. StreamOK(b) /\ sub[b] \in Listening
    BY <1>1 DEF AInv, Typed
  <2>2. DOMAIN Frames(b) = 1..Len(Frames(b))
    BY <2>1, FramesAre, LenProperties DEF Frames
  <2>3. Said(b, sub[b].at)
    BY <2>1 DEF StreamOK, Announced
  <2> QED
    BY <2>1, <2>2, <2>3 DEF StreamOK, Shown, Said
<1>5. Audit!Conserved
  <2> SUFFICES ASSUME NEW b \in Browsers, sub[b].pc = "open"
               PROVE  Cardinality(Owed(b)) <= Count(sub[b])
    BY SameCount DEF Audit!Conserved, Owed, Pending, Count
  <2> QED
    BY DEF AInv, StreamOK, Accounted
<1> QED
  BY <1>2, <1>3, <1>4, <1>5 DEF StreamTrue, Audit!StreamTrue

\* Nothing is sent on a channel that is closed, no browser gets an entry it may not
\* see, or twice, or with its secret, or before its listening is in the log, and
\* what an open stream has missed is in its count of drops: for any callers and
\* browsers, any capacity and any log, whoever publishes while they come and go.
THEOREM StreamHolds == PartsSpec => []StreamTrue
<1>1. Cap \in Nat
  BY RouterAssumption
<1>2. PartsInit => AInv
  BY <1>1, StreamsBegin DEF PartsInit
<1>3. AInv /\ [PartsNext]_<<part, vars, hbVars, auditVars>> => AInv'
  BY <1>1, StreamsStay DEF PartsNext
<1>4. AInv => StreamTrue
  BY StreamsImply
<1> QED
  BY <1>2, <1>3, <1>4, PTL DEF PartsSpec

---------------------------------------------------------------------------
(* The heartbeat monitor, the part of MCStreams whose steps are Health's. *)

LEMMA OneGateway == \A g, h \in HealthGateways : g = h
  BY DEF HealthGateways

\* A connected endpoint's stream is open.
Connected == hbUsing # NoStream => hbStream[hbUsing] = "open"

\* The record is never older than the silence and the tick before it.
GapBound == \A g \in HealthGateways :
    /\ gap[g] <= quiet + 1
    /\ hbUsing # NoStream => gap[g] <= 1

\* A stream the agent has closed is known of within KeepAlive ticks.
Ages == \A s \in Streams : hbStream[s] = "eof" => byeAge <= age[s]

\* What still marks a record as ended cleanly, or soon will, is recent.
Excused ==
    /\ hbUsing = NoStream /\ (\E s \in Streams : hbStream[s] = "eof") => parting # "broken"
    /\ \A g \in HealthGateways : record[g] # NoRecord /\ record[g].bye =>
          IF hbUsing = NoStream THEN parting # "broken" ELSE byeAge <= KeepAlive + gap[g]

HInv == Health!SilenceTrue /\ Connected /\ GapBound /\ Ages /\ Excused

LEMMA SaturatedIs ==
    ASSUME NEW m \in Nat, NEW d \in 0..m
    PROVE  /\ Health!Saturated(d, m) \in 0..m /\ Health!Saturated(d, m) <= d + 1
           /\ d < m => Health!Saturated(d, m) = d + 1
           /\ d = m => Health!Saturated(d, m) = m
  BY DEF Health!Saturated

\* The threshold of the state of a gap has been passed.
LEMMA Threshold ==
    ASSUME NEW d \in 0..Extended
    PROVE  /\ Health!StateOf(d) \in Health!States /\ Health!Least(Health!StateOf(d)) <= d
           /\ d <= 1 => Health!StateOf(d) = "online"
<1>1. d \in Nat /\ Degraded \in Nat /\ Offline \in Nat /\ Extended \in Nat /\ 1 < Degraded /\ Degraded <= Offline /\ Offline <= Extended
  BY HealthAssumption
<1>2. CASE d >= Extended
  BY <1>1, <1>2 DEF Health!StateOf, Health!Least, Health!States
<1>3. CASE d >= Offline /\ d < Extended
  BY <1>1, <1>3 DEF Health!StateOf, Health!Least, Health!States
<1>4. CASE d >= Degraded /\ d < Offline
  BY <1>1, <1>4 DEF Health!StateOf, Health!Least, Health!States
<1>5. CASE d < Degraded
  BY <1>1, <1>5 DEF Health!StateOf, Health!Least, Health!States
<1> QED
  BY <1>1, <1>2, <1>3, <1>4, <1>5

LEMMA Excuse ==
    ASSUME NEW d \in 0..Extended, NEW b \in BOOLEAN
    PROVE  Health!ClassOf(b, d) \in Health!Classes /\ (Health!ClassOf(b, d) = "graceful_shutdown" => b)
  BY HealthAssumption DEF Health!ClassOf, Health!Classes

LEMMA HealthBegins == Health!Init => HInv
<1> SUFFICES ASSUME Health!Init PROVE HInv
  OBVIOUS
<1>1. 0 \in 0..Extended /\ 0 \in 0..KeepAlive /\ Health!Recent + 1 \in 0..(Health!Recent + 1) /\ Health!Recent \in Nat
      /\ 0 \in 0..MaxAborts /\ 0 \in 0..MaxFails /\ 0 \in 0..MaxRestarts
  BY HealthAssumption DEF Health!Recent
<1>2. Health!TypeOK
  BY <1>1 DEF Health!Init, Health!TypeOK, Health!Phases, Health!Partings, Health!States, Health!Classes
<1>3. Health!NoFalseAlarm /\ Health!NoOldExcuse
  BY <1>2 DEF Health!Init, Health!NoFalseAlarm, Health!NoOldExcuse
<1> QED
  BY <1>3 DEF Health!Init, HInv, Health!SilenceTrue, Connected, GapBound, Ages, Excused

\* What a step of a stream must leave true, as it leaves the verdicts alone.
LEMMA StreamStep ==
    ASSUME HInv, UNCHANGED sweeping, Health!TypeOK', Connected', GapBound', Ages', Excused'
    PROVE  HInv'
  BY DEF HInv, Health!SilenceTrue, Health!NoFalseAlarm, Health!NoOldExcuse

LEMMA SeeStep ==
    ASSUME Health!TypeOK, NEW g \in HealthGateways, NEW rec \in Health!Records, Health!See(g, rec)
    PROVE  /\ record' \in [HealthGateways -> Health!Records \cup {NoRecord}] /\ gap' \in [HealthGateways -> 0..Extended]
           /\ \A h \in HealthGateways : record'[h] = rec /\ gap'[h] = 0
<1>1. 0 \in 0..Extended /\ \A h \in HealthGateways : h = g
  BY HealthAssumption, OneGateway
<1> QED
  BY <1>1 DEF Health!See, Health!TypeOK

LEMMA FreshIs == Health!Fresh \in Health!Records /\ Health!Fresh.bye = FALSE
  BY DEF Health!Fresh, Health!Records, Health!States

LEMMA ConnectStep ==
    ASSUME HInv, NEW s \in Streams, Health!Connect(s) \/ Health!Heartbeat(s)
    PROVE  HInv'
<1>1. Health!TypeOK /\ hbHost[s] \in HealthGateways /\ s # NoStream
  BY HealthAssumption, RouterAssumption DEF HInv, Health!SilenceTrue, Health!NoFalseAlarm, Health!TypeOK
<1>2. Health!See(hbHost[s], Health!Fresh) /\ UNCHANGED <<sweeping, hbHost, age, byeAge, parting, reported, Health!bounds>>
  BY DEF Health!Connect, Health!Heartbeat, Health!agentVars
<1>3. /\ record' \in [HealthGateways -> Health!Records \cup {NoRecord}] /\ gap' \in [HealthGateways -> 0..Extended]
      /\ \A h \in HealthGateways : record'[h] = Health!Fresh /\ gap'[h] = 0
  BY <1>1, <1>2, SeeStep, FreshIs
<1>4. quiet' \in 0..Extended /\ quiet' \in Nat
  BY <1>1, HealthAssumption DEF Health!Connect, Health!Heartbeat, Health!agentVars, Health!TypeOK
<1>5. /\ hbStream' \in [Streams -> Health!Phases] /\ hbUsing' \in Streams \cup {NoStream}
      /\ \A t \in Streams : hbStream'[t] = "eof" => hbStream[t] = "eof"
      /\ (hbUsing' = NoStream => hbUsing = NoStream)
      /\ (hbUsing' # NoStream => hbStream'[hbUsing'] = "open")
  BY <1>1 DEF Health!Connect, Health!Heartbeat, Health!agentVars, Health!TypeOK, Health!Phases, HInv, Connected
<1>6. Health!TypeOK'
  BY <1>1, <1>2, <1>3, <1>4, <1>5 DEF Health!TypeOK, Health!bounds
<1>7. Connected' /\ Ages'
  BY <1>2, <1>5 DEF HInv, Connected, Ages
<1>8. GapBound'
  BY <1>3, <1>4 DEF GapBound
<1>9. Excused'
  BY <1>2, <1>3, <1>5, FreshIs DEF HInv, Excused
<1> QED
  BY <1>2, <1>6, <1>7, <1>8, <1>9, StreamStep

LEMMA Soon ==
    ASSUME NEW k \in Nat, NEW b \in Nat
    PROVE  /\ \A a \in 0..k : b <= a => b <= k + 1
           /\ \A a \in Nat : a <= 1 /\ b <= k + a => b <= k + 1
  OBVIOUS

\* A connection ends uncleanly: what is still excused is recent.
LEMMA Parts ==
    ASSUME HInv, Health!Part, hbUsing # NoStream, UNCHANGED <<record, gap>>
    PROVE  /\ hbUsing' = NoStream /\ quiet' = 0 /\ parting' \in Health!Partings
           /\ (\E s \in Streams : hbStream[s] = "eof") => parting' # "broken"
           /\ \A g \in HealthGateways : record[g] # NoRecord /\ record[g].bye => parting' # "broken"
           /\ \A g \in HealthGateways : gap[g] <= 1
<1>1. Health!TypeOK /\ KeepAlive \in Nat /\ Health!Recent = KeepAlive + 1 /\ byeAge \in Nat
  BY HealthAssumption, RouterAssumption DEF HInv, Health!SilenceTrue, Health!NoFalseAlarm, Health!TypeOK, Health!Recent
<1>2. hbUsing' = NoStream /\ quiet' = 0 /\ parting' = IF byeAge <= Health!Recent THEN "after bye" ELSE "broken"
  BY DEF Health!Part
<1>3. \A g \in HealthGateways : gap[g] <= 1 /\ gap[g] \in Nat
  BY <1>1 DEF HInv, GapBound, Health!TypeOK
<1>4. ASSUME NEW s \in Streams, hbStream[s] = "eof" PROVE parting' # "broken"
  <2>1. byeAge <= age[s] /\ age[s] \in 0..KeepAlive
    BY <1>1, <1>4 DEF HInv, Ages, Health!TypeOK
  <2>2. byeAge <= KeepAlive + 1
    BY <1>1, <2>1, Soon
  <2> QED
    BY <1>1, <1>2, <2>2
<1>5. ASSUME NEW g \in HealthGateways, record[g] # NoRecord, record[g].bye PROVE parting' # "broken"
  <2>1. byeAge <= KeepAlive + gap[g]
    BY <1>5 DEF HInv, Excused
  <2>2. byeAge <= KeepAlive + 1
    BY <1>1, <1>3, <2>1, Soon
  <2> QED
    BY <1>1, <1>2, <2>2
<1> QED
  BY <1>2, <1>3, <1>4, <1>5 DEF Health!Partings

LEMMA EndStep ==
    ASSUME HInv, NEW s \in Streams, Health!Close(s) \/ Health!Lose(s)
    PROVE  HInv'
<1>1. Health!TypeOK /\ hbUsing = s /\ s # NoStream /\ hbStream[s] = "open"
  BY HealthAssumption, RouterAssumption DEF Health!Close, Health!Lose, HInv, Health!SilenceTrue, Health!NoFalseAlarm, Health!TypeOK, Connected
<1>2. /\ UNCHANGED <<record, gap, sweeping, hbHost, age, reported, Health!bounds>> /\ hbUsing' = NoStream /\ quiet' = 0
      /\ hbStream' = [hbStream EXCEPT ![s] = "eof"] \/ hbStream' = [hbStream EXCEPT ![s] = "lost"]
  BY DEF Health!Close, Health!Lose, Health!Part
<1>3. byeAge' \in 0..(Health!Recent + 1) /\ byeAge' <= byeAge /\ \A t \in Streams : byeAge' <= age[t] \/ byeAge' = byeAge
  BY <1>1, HealthAssumption DEF Health!Close, Health!Lose, Health!TypeOK, Health!Recent
<1>4. \A g \in HealthGateways : gap[g] <= 1
  BY <1>1 DEF HInv, GapBound
<1>5. Ages'
  BY <1>1 DEF Health!Close, Health!Lose, HInv, Ages, Health!TypeOK
<1>6. CASE Health!Close(s)
  <2>1. parting' = "bye"
    BY <1>6 DEF Health!Close
  <2>2. Health!TypeOK'
    <3>1. hbStream' \in [Streams -> Health!Phases] /\ parting' \in Health!Partings
      BY <1>1, <1>2, <2>1 DEF Health!TypeOK, Health!Partings, Health!Phases
    <3>4. 0 \in 0..Extended
      BY HealthAssumption
    <3>2. /\ record' \in [HealthGateways -> Health!Records \cup {NoRecord}] /\ gap' \in [HealthGateways -> 0..Extended]
          /\ sweeping' \in [HealthGateways -> Health!Verdicts \cup {NoRecord}]
          /\ hbHost' \in [Streams -> HealthGateways] /\ age' \in [Streams -> 0..KeepAlive]
          /\ reported' \in [to : Health!States, class : Health!Classes] /\ aborts' \in 0..MaxAborts
          /\ fails' \in 0..MaxFails /\ restarts' \in 0..MaxRestarts
      BY <1>1, <1>2 DEF Health!TypeOK, Health!bounds
    <3> QED
      BY <1>2, <1>3, <3>1, <3>2, <3>4 DEF Health!TypeOK
  <2>3. Excused' /\ Connected' /\ GapBound'
    BY <1>2, <1>4, <2>1 DEF Excused, Connected, GapBound
  <2> QED
    BY <1>2, <1>5, <2>2, <2>3, StreamStep
<1>7. CASE Health!Lose(s)
  <2>1. Health!Part /\ hbStream' = [hbStream EXCEPT ![s] = "lost"]
    BY <1>7 DEF Health!Lose
  <2>2. /\ parting' \in Health!Partings
        /\ (\E t \in Streams : hbStream[t] = "eof") => parting' # "broken"
        /\ \A g \in HealthGateways : record[g] # NoRecord /\ record[g].bye => parting' # "broken"
    BY <1>1, <1>2, <2>1, Parts
  <2>3. Health!TypeOK'
    BY <1>1, <1>2, <1>3, <2>2, HealthAssumption DEF Health!TypeOK, Health!Phases, Health!bounds
  <2>4. \A t \in Streams : hbStream'[t] = "eof" => hbStream[t] = "eof"
    BY <1>1, <2>1 DEF Health!TypeOK
  <2>5. Excused' /\ Connected' /\ GapBound'
    BY <1>2, <1>4, <2>2, <2>4 DEF Excused, Connected, GapBound
  <2> QED
    BY <1>2, <1>5, <2>3, <2>5, StreamStep
<1> QED
  BY <1>6, <1>7

LEMMA HandlerEndsStep ==
    ASSUME HInv, NEW s \in Streams, Health!RecordBye(s) \/ Health!RecordDisconnect(s)
    PROVE  HInv'
<1> DEFINE g == hbHost[s]
<1>1. Health!TypeOK /\ g \in HealthGateways /\ hbStream[s] # "open" /\ s \in Streams /\ \A h \in HealthGateways : h = g
  BY OneGateway DEF HInv, Health!SilenceTrue, Health!NoFalseAlarm, Health!TypeOK, Health!RecordBye, Health!RecordDisconnect
<1>2. /\ hbStream' = [hbStream EXCEPT ![s] = "gone"]
      /\ UNCHANGED <<sweeping, hbHost, age, Health!agentVars, reported, Health!bounds>>
  BY DEF Health!RecordBye, Health!RecordDisconnect, Health!Ends
<1>3. CASE record[g] = NoRecord
  <2>1. UNCHANGED <<record, gap>>
    BY <1>3 DEF Health!RecordBye, Health!RecordDisconnect, Health!Ends
  <2>2. Health!TypeOK' /\ GapBound'
    BY <1>1, <1>2, <2>1 DEF HInv, GapBound, Health!TypeOK, Health!Phases, Health!agentVars, Health!bounds
  <2>3. Connected' /\ Ages' /\ Excused'
    BY <1>1, <1>2, <2>1, <1>3 DEF HInv, Connected, Ages, Excused, Health!TypeOK, Health!agentVars
  <2> QED
    BY <1>2, <2>2, <2>3, StreamStep
<1>4. ASSUME record[g] # NoRecord, NEW b \in BOOLEAN, Health!See(g, [record[g] EXCEPT !.bye = b]),
             b => hbStream[s] = "eof"
      PROVE  HInv'
  <2>1. record[g] \in Health!Records
    BY <1>1, <1>4 DEF Health!TypeOK
  <2>2. [record[g] EXCEPT !.bye = b] \in Health!Records /\ [record[g] EXCEPT !.bye = b].bye = b
    BY <2>1 DEF Health!Records
  <2>3. /\ record' \in [HealthGateways -> Health!Records \cup {NoRecord}] /\ gap' \in [HealthGateways -> 0..Extended]
        /\ \A h \in HealthGateways : record'[h] = [record[g] EXCEPT !.bye = b] /\ gap'[h] = 0
    BY <1>1, <1>4, <2>2, SeeStep
  <2>4. Health!TypeOK'
    BY <1>1, <1>2, <2>3 DEF Health!TypeOK, Health!Phases, Health!agentVars, Health!bounds
  <2>5. GapBound'
    BY <1>1, <1>2, <2>3 DEF GapBound, Health!TypeOK, Health!agentVars
  <2>6. Connected' /\ Ages'
    BY <1>1, <1>2 DEF HInv, Connected, Ages, Health!TypeOK, Health!agentVars
  <2>7. b => /\ hbUsing = NoStream => parting # "broken"
             /\ hbUsing # NoStream => byeAge <= KeepAlive + 0
    <3>1. age[s] \in 0..KeepAlive /\ byeAge \in Nat /\ KeepAlive \in Nat
      BY <1>1, HealthAssumption DEF Health!TypeOK
    <3> QED
      BY <1>4, <3>1 DEF HInv, Ages, Excused
  <2>8. Excused'
    BY <1>1, <1>2, <2>2, <2>3, <2>7 DEF HInv, Excused, Health!TypeOK, Health!agentVars
  <2> QED
    BY <1>2, <2>4, <2>5, <2>6, <2>8, StreamStep
<1>5. CASE record[g] # NoRecord /\ Health!RecordBye(s)
  BY <1>4, <1>5 DEF Health!RecordBye, Health!Ends
<1>6. CASE record[g] # NoRecord /\ Health!RecordDisconnect(s)
  BY <1>4, <1>6 DEF Health!RecordDisconnect, Health!Ends
<1> QED
  BY <1>3, <1>5, <1>6

LEMMA AbortStep ==
    ASSUME HInv, NEW s \in Streams, Health!Abort(s)
    PROVE  HInv'
<1>1. Health!TypeOK /\ s # NoStream /\ 0 \in 0..Extended
  BY HealthAssumption, RouterAssumption DEF HInv, Health!SilenceTrue, Health!NoFalseAlarm, Health!TypeOK
<1>2. /\ hbStream' = [hbStream EXCEPT ![s] = "gone"]
      /\ UNCHANGED <<record, gap, sweeping, hbHost, age, byeAge, reported, fails, restarts>>
      /\ aborts' \in 0..MaxAborts
  BY <1>1, HealthAssumption DEF Health!Abort, Health!TypeOK
<1>3. \A t \in Streams : hbStream'[t] = "eof" => hbStream[t] = "eof"
  BY <1>1, <1>2 DEF Health!TypeOK
<1>4. Ages'
  BY <1>2, <1>3 DEF HInv, Ages
<1>5. CASE hbUsing = s
  <2>1. Health!Part
    BY <1>5 DEF Health!Abort
  <2>2. /\ hbUsing' = NoStream /\ quiet' = 0 /\ parting' \in Health!Partings
        /\ (\E t \in Streams : hbStream[t] = "eof") => parting' # "broken"
        /\ \A g \in HealthGateways : record[g] # NoRecord /\ record[g].bye => parting' # "broken"
        /\ \A g \in HealthGateways : gap[g] <= 1
    BY <1>1, <1>2, <1>5, <2>1, Parts
  <2>3. Health!TypeOK'
    BY <1>1, <1>2, <2>2 DEF Health!TypeOK, Health!Phases
  <2>4. Connected' /\ GapBound' /\ Excused'
    BY <1>2, <1>3, <2>2 DEF Excused, Connected, GapBound
  <2> QED
    BY <1>2, <1>4, <2>3, <2>4, StreamStep
<1>6. CASE hbUsing # s
  <2>1. UNCHANGED <<hbUsing, quiet, parting>>
    BY <1>6 DEF Health!Abort
  <2>2. Health!TypeOK'
    BY <1>1, <1>2, <2>1 DEF Health!TypeOK, Health!Phases
  <2>3. Connected'
    BY <1>1, <1>2, <1>6, <2>1 DEF HInv, Connected, Health!TypeOK
  <2>4. GapBound' /\ Excused'
    BY <1>2, <1>3, <2>1 DEF HInv, Excused, GapBound
  <2> QED
    BY <1>2, <1>4, <2>2, <2>3, <2>4, StreamStep
<1> QED
  BY <1>5, <1>6

\* The sweep of a connected endpoint finds it online, and that of a silent one
\* a gap no longer than the silence.
LEMMA SweepStep ==
    ASSUME HInv, NEW g \in HealthGateways, Health!Sweep(g)
    PROVE  HInv'
<1> DEFINE v == [to |-> Health!StateOf(gap[g]), class |-> Health!ClassOf(record[g].bye, gap[g]),
                 quiet |-> quiet, parting |-> parting, sent |-> FALSE]
<1>1. Health!TypeOK /\ gap[g] \in 0..Extended /\ record[g] \in Health!Records /\ record[g].bye \in BOOLEAN
      /\ quiet \in 0..Extended /\ parting \in Health!Partings
  BY DEF Health!Sweep, HInv, Health!SilenceTrue, Health!NoFalseAlarm, Health!TypeOK, Health!Records
<1>2. sweeping' = [sweeping EXCEPT ![g] = v]
      /\ UNCHANGED <<record, gap, hbStream, hbHost, age, Health!agentVars, reported, Health!bounds>>
  BY DEF Health!Sweep
<1>3. /\ Health!StateOf(gap[g]) \in Health!States /\ Health!Least(Health!StateOf(gap[g])) <= gap[g]
      /\ gap[g] <= 1 => Health!StateOf(gap[g]) = "online"
  BY <1>1, Threshold
<1>4. /\ Health!ClassOf(record[g].bye, gap[g]) \in Health!Classes
      /\ Health!ClassOf(record[g].bye, gap[g]) = "graceful_shutdown" => record[g].bye
  BY <1>1, Excuse
<1>5. v \in Health!Verdicts
  BY <1>1, <1>3, <1>4 DEF Health!Verdicts
<1>6. Health!TypeOK'
  BY <1>1, <1>2, <1>5 DEF Health!TypeOK, Health!agentVars, Health!bounds
<1>7. v.quiet + 1 >= Health!Least(v.to)
  <2>1. gap[g] <= quiet + 1
    BY DEF HInv, GapBound
  <2>2. Health!Least(Health!StateOf(gap[g])) \in Nat
    BY <1>3, HealthAssumption DEF Health!Least
  <2>3. gap[g] \in Nat /\ quiet \in Nat
    BY <1>1
  <2>4. quiet + 1 >= Health!Least(Health!StateOf(gap[g]))
    BY <1>3, <2>1, <2>2, <2>3
  <2> QED
    BY <2>4
<1>8. v.to # "online" /\ v.class = "graceful_shutdown" => v.parting # "broken"
  BY <1>1, <1>3, <1>4 DEF HInv, GapBound, Excused, Health!Sweep
<1>9. Health!NoFalseAlarm' /\ Health!NoOldExcuse'
  BY <1>1, <1>2, <1>6, <1>7, <1>8 DEF HInv, Health!SilenceTrue, Health!NoFalseAlarm, Health!NoOldExcuse, Health!TypeOK
<1>10. Connected' /\ GapBound' /\ Ages' /\ Excused'
  BY <1>2 DEF HInv, Connected, GapBound, Ages, Excused, Health!agentVars
<1> QED
  BY <1>9, <1>10 DEF HInv, Health!SilenceTrue

LEMMA VerdictSent ==
    ASSUME HInv, NEW g \in HealthGateways, Health!Publish(g)
    PROVE  HInv'
<1>1. Health!TypeOK /\ sweeping[g] \in Health!Verdicts
  BY DEF Health!Publish, HInv, Health!SilenceTrue, Health!NoFalseAlarm, Health!TypeOK
<1>2. sweeping' = [sweeping EXCEPT ![g].sent = TRUE]
      /\ UNCHANGED <<record, gap, hbStream, hbHost, age, Health!agentVars, aborts, restarts>>
  BY DEF Health!Publish
<1>3. reported' \in [to : Health!States, class : Health!Classes] /\ fails' \in 0..MaxFails
  BY <1>1, HealthAssumption DEF Health!Publish, Health!TypeOK, Health!Verdicts
<1>4. sweeping'[g] \in Health!Verdicts /\ \A h \in HealthGateways \ {g} : sweeping'[h] = sweeping[h]
  BY <1>1, <1>2 DEF Health!TypeOK, Health!Verdicts
<1>5. /\ sweeping'[g].quiet = sweeping[g].quiet /\ sweeping'[g].to = sweeping[g].to
      /\ sweeping'[g].class = sweeping[g].class /\ sweeping'[g].parting = sweeping[g].parting
  BY <1>1, <1>2 DEF Health!TypeOK, Health!Verdicts
<1>6. Health!TypeOK'
  <2>1. sweeping' \in [HealthGateways -> Health!Verdicts \cup {NoRecord}]
    BY <1>1, <1>2, <1>4 DEF Health!TypeOK
  <2> QED
    BY <1>1, <1>2, <1>3, <2>1 DEF Health!TypeOK, Health!agentVars
<1>7. Health!NoFalseAlarm' /\ Health!NoOldExcuse'
  BY <1>4, <1>5, <1>6 DEF Health!Publish, HInv, Health!SilenceTrue, Health!NoFalseAlarm, Health!NoOldExcuse
<1>8. Connected' /\ GapBound' /\ Ages' /\ Excused'
  BY <1>2 DEF HInv, Connected, GapBound, Ages, Excused, Health!agentVars
<1> QED
  BY <1>7, <1>8 DEF HInv, Health!SilenceTrue

LEMMA VerdictWritten ==
    ASSUME HInv, NEW g \in HealthGateways, Health!Write(g)
    PROVE  HInv'
<1>1. Health!TypeOK /\ sweeping[g] \in Health!Verdicts
  BY DEF Health!Write, HInv, Health!SilenceTrue, Health!NoFalseAlarm, Health!TypeOK
<1>2. sweeping' = [sweeping EXCEPT ![g] = NoRecord]
      /\ UNCHANGED <<gap, hbStream, hbHost, age, Health!agentVars, reported, Health!bounds>>
  BY DEF Health!Write
<1>3. record' \in [HealthGateways -> Health!Records \cup {NoRecord}]
      /\ \A h \in HealthGateways : record'[h] # NoRecord => record[h] # NoRecord /\ record'[h].bye = record[h].bye
  <2>1. CASE record[g] = NoRecord
    BY <1>1, <2>1 DEF Health!Write, Health!TypeOK
  <2>2. CASE record[g] # NoRecord
    <3>1. record[g] \in Health!Records
      BY <1>1, <2>2 DEF Health!TypeOK
    <3>2. [record[g] EXCEPT !.state = sweeping[g].to] \in Health!Records
          /\ [record[g] EXCEPT !.state = sweeping[g].to].bye = record[g].bye
      BY <1>1, <3>1 DEF Health!Records, Health!Verdicts
    <3>3. record' = [record EXCEPT ![g] = [record[g] EXCEPT !.state = sweeping[g].to]]
      BY <2>2 DEF Health!Write
    <3> QED
      BY <1>1, <2>2, <3>2, <3>3 DEF Health!TypeOK
  <2> QED
    BY <2>1, <2>2
<1>4. Health!TypeOK'
  BY <1>1, <1>2, <1>3 DEF Health!TypeOK, Health!agentVars, Health!bounds
<1>5. Health!NoFalseAlarm' /\ Health!NoOldExcuse'
  BY <1>1, <1>2, <1>4 DEF HInv, Health!SilenceTrue, Health!NoFalseAlarm, Health!NoOldExcuse, Health!TypeOK
<1>6. Connected' /\ GapBound' /\ Ages' /\ Excused'
  BY <1>2, <1>3 DEF HInv, Connected, GapBound, Ages, Excused, Health!agentVars
<1> QED
  BY <1>5, <1>6 DEF HInv, Health!SilenceTrue

\* A tick ages the silence, the record, the clean close and the ended streams
\* alike; a connected endpoint's record is of this very tick.
LEMMA TickStep ==
    ASSUME HInv, Health!Tick
    PROVE  HInv'
<1>1. Health!TypeOK /\ UNCHANGED <<record, sweeping, hbStream, hbHost, hbUsing, parting, reported, Health!bounds>>
      /\ KeepAlive \in Nat /\ Extended \in Nat /\ 1 < Extended /\ Health!Recent \in Nat
  BY HealthAssumption, RouterAssumption DEF Health!Tick, HInv, Health!SilenceTrue, Health!NoFalseAlarm, Health!Recent
<1>2. byeAge' \in 0..(Health!Recent + 1) /\ byeAge' <= byeAge + 1 /\ byeAge \in Nat /\ byeAge' \in Nat
  <2>1. Health!Recent + 1 \in Nat /\ byeAge \in 0..(Health!Recent + 1) /\ byeAge' = Health!Saturated(byeAge, Health!Recent + 1)
    BY <1>1 DEF Health!Tick, Health!TypeOK
  <2> QED
    BY <2>1, SaturatedIs
<1>3. \A g \in HealthGateways :
         /\ gap[g] \in 0..Extended /\ gap'[g] \in 0..Extended
         /\ gap'[g] <= gap[g] + 1
         /\ record[g] # NoRecord /\ gap[g] < Extended => gap'[g] = gap[g] + 1
  <2> SUFFICES ASSUME NEW g \in HealthGateways
               PROVE  /\ gap[g] \in 0..Extended /\ gap'[g] \in 0..Extended
                      /\ gap'[g] <= gap[g] + 1
                      /\ record[g] # NoRecord /\ gap[g] < Extended => gap'[g] = gap[g] + 1
    OBVIOUS
  <2>1. gap[g] \in 0..Extended /\ gap'[g] = IF record[g] = NoRecord THEN 0 ELSE Health!Saturated(gap[g], Extended)
    BY <1>1 DEF Health!Tick, Health!TypeOK
  <2>2. /\ Health!Saturated(gap[g], Extended) \in 0..Extended /\ Health!Saturated(gap[g], Extended) <= gap[g] + 1
        /\ gap[g] < Extended => Health!Saturated(gap[g], Extended) = gap[g] + 1
    BY <1>1, <2>1, SaturatedIs
  <2> QED
    BY <1>1, <2>1, <2>2
<1>4. gap' \in [HealthGateways -> 0..Extended]
  BY <1>3 DEF Health!Tick
<1>5. /\ quiet' \in 0..Extended /\ quiet \in 0..Extended
      /\ hbUsing = NoStream /\ quiet < Extended => quiet' = quiet + 1
      /\ hbUsing = NoStream /\ quiet = Extended => quiet' = Extended
      /\ hbUsing # NoStream => quiet' = 0
  <2>1. quiet \in 0..Extended /\ quiet' = IF hbUsing = NoStream THEN Health!Saturated(quiet, Extended) ELSE 0
    BY <1>1 DEF Health!Tick, Health!TypeOK
  <2> QED
    BY <1>1, <2>1, SaturatedIs
<1>6. hbUsing # NoStream => \A g \in HealthGateways : gap[g] = 0
  BY <1>1, OneGateway DEF Health!Tick, Health!TypeOK
<1>7. age' \in [Streams -> 0..KeepAlive]
      /\ \A s \in Streams : hbStream[s] = "eof" => age'[s] = age[s] + 1
  <2>1. age' = [s \in Streams |-> IF Health!Ended(s) THEN age[s] + 1 ELSE age[s]]
        /\ \A s \in Streams : age[s] \in 0..KeepAlive /\ (Health!Ended(s) => age[s] < KeepAlive)
    BY <1>1 DEF Health!Tick, Health!TypeOK
  <2>2. \A s \in Streams : (IF Health!Ended(s) THEN age[s] + 1 ELSE age[s]) \in 0..KeepAlive
    BY <1>1, <2>1
  <2>3. \A s \in Streams : hbStream[s] = "eof" => Health!Ended(s)
    BY DEF Health!Ended
  <2> QED
    BY <2>1, <2>2, <2>3
<1>8. Health!TypeOK'
  BY <1>1, <1>2, <1>4, <1>5, <1>7 DEF Health!TypeOK, Health!bounds
<1>9. GapBound'
  <2> SUFFICES ASSUME NEW g \in HealthGateways
               PROVE  gap'[g] <= quiet' + 1 /\ (hbUsing # NoStream => gap'[g] <= 1)
    BY <1>1 DEF GapBound
  <2>1. gap[g] \in Nat /\ gap'[g] \in 0..Extended /\ gap'[g] <= gap[g] + 1 /\ gap[g] <= quiet + 1
    BY <1>3 DEF HInv, GapBound
  <2>2. CASE hbUsing = NoStream /\ quiet < Extended
    BY <1>1, <1>5, <2>1, <2>2
  <2>3. CASE hbUsing = NoStream /\ quiet = Extended
    BY <1>1, <1>5, <2>1, <2>3
  <2>4. CASE hbUsing # NoStream
    BY <1>5, <1>6, <2>1, <2>4
  <2> QED
    BY <1>1, <1>5, <2>2, <2>3, <2>4
<1>10. Ages'
  <2> SUFFICES ASSUME NEW s \in Streams, hbStream[s] = "eof" PROVE byeAge' <= age'[s]
    BY <1>1 DEF Ages
  <2>1. byeAge <= age[s] /\ age[s] \in Nat
    BY <1>1 DEF HInv, Ages, Health!TypeOK
  <2> QED
    BY <1>2, <1>7, <2>1
<1>11. Excused'
  <2> SUFFICES ASSUME NEW g \in HealthGateways, record[g] # NoRecord, record[g].bye, hbUsing # NoStream
               PROVE  byeAge' <= KeepAlive + gap'[g]
    BY <1>1 DEF HInv, Excused
  <2>1. byeAge <= KeepAlive + 0 /\ gap'[g] = 0 + 1
    BY <1>1, <1>3, <1>6 DEF HInv, Excused
  <2> QED
    BY <1>1, <1>2, <2>1
<1>12. Connected'
  BY <1>1 DEF HInv, Connected
<1> QED
  BY <1>1, <1>8, <1>9, <1>10, <1>11, <1>12, StreamStep

LEMMA RestartStep ==
    ASSUME HInv, NEW g \in HealthGateways, Health!Restart(g)
    PROVE  HInv'
<1>1. Health!TypeOK /\ (\A h \in HealthGateways : h = g) /\ 0 \in 0..Extended
  BY HealthAssumption, RouterAssumption, OneGateway DEF HInv, Health!SilenceTrue, Health!NoFalseAlarm
<1>2. \A s \in Streams : hbHost[s] = g /\ hbStream'[s] \in {"new", "gone"}
  BY <1>1 DEF Health!Restart, Health!TypeOK
<1>3. \A h \in HealthGateways : record'[h] = NoRecord /\ gap'[h] = 0 /\ sweeping'[h] = NoRecord
  BY <1>1 DEF Health!Restart, Health!TypeOK
<1>4. hbUsing' = NoStream /\ quiet' \in 0..Extended /\ parting' \in Health!Partings
  BY <1>1, <1>2 DEF Health!Restart, Health!Part, Health!Partings, Health!TypeOK
<1>5. Health!TypeOK'
  <2>1. hbStream' \in [Streams -> Health!Phases]
    BY <1>2 DEF Health!Restart, Health!Phases
  <2>2. /\ record' \in [HealthGateways -> Health!Records \cup {NoRecord}] /\ gap' \in [HealthGateways -> 0..Extended]
        /\ sweeping' \in [HealthGateways -> Health!Verdicts \cup {NoRecord}]
    BY <1>1, <1>3 DEF Health!Restart, Health!TypeOK
  <2>3. restarts' \in 0..MaxRestarts /\ UNCHANGED <<hbHost, age, byeAge, reported, aborts, fails>>
    BY <1>1, HealthAssumption DEF Health!Restart, Health!TypeOK
  <2> QED
    BY <1>1, <1>4, <2>1, <2>2, <2>3 DEF Health!TypeOK
<1>6. Health!NoFalseAlarm' /\ Health!NoOldExcuse'
  BY <1>3, <1>5 DEF Health!NoFalseAlarm, Health!NoOldExcuse
<1>7. Connected' /\ Ages' /\ Excused'
  BY <1>2, <1>3, <1>4 DEF Connected, Ages, Excused
<1>8. GapBound'
  BY <1>3, <1>4 DEF GapBound
<1> QED
  BY <1>6, <1>7, <1>8 DEF HInv, Health!SilenceTrue

LEMMA HealthStays ==
    ASSUME HInv, UNCHANGED hbVars
    PROVE  HInv'
<1>1. Health!TypeOK'
  BY DEF HInv, Health!SilenceTrue, Health!NoFalseAlarm, Health!TypeOK, hbVars, Health!agentVars, Health!bounds
<1> QED
  BY <1>1 DEF HInv, Health!SilenceTrue, Health!NoFalseAlarm, Health!NoOldExcuse, Connected, GapBound, Ages, Excused, hbVars,
     Health!agentVars, Health!bounds

LEMMA HealthStep == HInv /\ Health!Next => HInv'
  BY ConnectStep, EndStep, HandlerEndsStep, AbortStep, SweepStep, VerdictSent, VerdictWritten, TickStep,
     RestartStep DEF Health!Next, Health!HandlerEnds, Health!Monitor

\* One gateway's sweep never calls an endpoint silent that was connected less than the
\* state's threshold (and one heartbeat) ago, and never takes a silence for a clean
\* shutdown that an earlier clean close, long over, left marked: for any streams, any
\* number of aborted handlers, failed publications and restarts, and any thresholds
\* in the order of HeartbeatConfig's.
THEOREM SilenceHolds == PartsSpec => []SilenceTrue
<1>1. PartsInit => HInv
  BY HealthBegins DEF PartsInit
<1>2. HInv /\ [PartsNext]_<<part, vars, hbVars, auditVars>> => HInv'
  BY HealthStep, HealthStays DEF PartsNext
<1>3. HInv => SilenceTrue
  BY DEF HInv, SilenceTrue
<1> QED
  BY <1>1, <1>2, <1>3, PTL DEF PartsSpec
=============================================================================
