----------------------------- MODULE AuditStream -----------------------------
(***************************************************************************)
(* The live stream of the audit log: every entry that was committed is     *)
(* handed to the browsers that listen, over a bounded channel each.        *)
(*                                                                         *)
(* Requests append and publish at the same time, under a lock that they    *)
(* share; a browser comes and goes under the lock alone, and logs both.    *)
(* What filters an entry is its tenant and its action.                     *)
(*                                                                         *)
(* Bounds: MaxEntries entries of the log; a channel of Cap; the browsers   *)
(* are of one tenant, Home, and those in Narrow ask for changes only.      *)
(***************************************************************************)
EXTENDS Integers, Sequences, FiniteSets

CONSTANTS Writers, Browsers, Narrow, Tenants, Home, Cap, MaxEntries

VARIABLES
  chain,     \* the committed entries
  pub,       \* Append calls between the commit and the end of their Publish
  subs,      \* Broker.subs
  sub        \* the stream of each browser

vars == <<chain, pub, subs, sub>>

Callers == Writers \cup Browsers
NoPub == [pc |-> "none", i |-> 0, left |-> {}]
StreamFilter(b) == IF b \in Narrow THEN {"change"} ELSE {}
NewSubscriber(t, all, f) ==
  [pc |-> "none", tenant |-> t, all |-> all, filter |-> f, ch |-> <<>>, dropped |-> 0, sent |-> <<>>, at |-> 0]

TypeOK ==
  /\ \A c \in Callers : pub[c].pc \in {"none", "committed", "locked"} /\ pub[c].i \in 0..Len(chain)
  /\ subs \subseteq Browsers
  /\ \A b \in Browsers : sub[b].pc \in {"none", "logged", "open", "closing", "left", "closed"} /\ Len(sub[b].ch) <= Cap

Init ==
  /\ chain = <<>> /\ subs = {}
  /\ pub = [c \in Callers |-> NoPub]
  /\ sub = [b \in Browsers |-> NewSubscriber(Home, FALSE, {})]

\* An entry is committed; the caller has it published before it goes on.
Append1(c, e) ==
  /\ Len(chain) < MaxEntries /\ pub[c] = NoPub
  /\ chain' = Append(chain, e)
  /\ pub' = [pub EXCEPT ![c] = [pc |-> "committed", i |-> Len(chain'), left |-> {}]]

\* A request of either tenant, by the first free writer, as they are alike; each
\* entry has a detail that must not be shown.
Change(w) == \E t \in Tenants :
  /\ \A v \in Writers : v < w => pub[v] # NoPub
  /\ Append1(w, [action |-> "change", tenant |-> t, secret |-> TRUE, by |-> w, all |-> FALSE, dropped |-> 0])
  /\ UNCHANGED <<subs, sub>>

\* The lock is shared by the calls that publish, and kept until the last subscriber.
Left(c, bs) == pub' = [pub EXCEPT ![c] = IF bs = {} THEN NoPub ELSE [@ EXCEPT !.pc = "locked", !.left = bs]]
RLock(c) ==
  /\ pub[c].pc = "committed" /\ Left(c, subs)
  /\ UNCHANGED <<chain, subs, sub>>
NoReaders == \A c \in Callers : pub[c].pc # "locked"

StripSensitive(e) == [e EXCEPT !.secret = FALSE]
Match(f, e) == f = {} \/ e.action \in f
Sees(s, e) == (s.all \/ s.tenant = e.tenant) /\ Match(s.filter, e)

\* Mutant: the send waits for room in the channel.
PublishWaits(c, b) ==
  LET e == StripSensitive(chain[pub[c].i])
      s == sub[b]
  IN /\ pub[c].pc = "locked" /\ b \in pub[c].left
     /\ Sees(s, e) => Len(s.ch) < Cap
     /\ Left(c, pub[c].left \ {b})
     /\ sub' = IF Sees(s, e) THEN [sub EXCEPT ![b].ch = Append(@, [i |-> pub[c].i, e |-> e])] ELSE sub
     /\ UNCHANGED <<chain, subs>>

\* To one subscriber after the other, in any order: sent, or dropped and counted.
Publish(c, b) ==
  LET e == StripSensitive(chain[pub[c].i])
      s == sub[b]
  IN /\ pub[c].pc = "locked" /\ b \in pub[c].left
     /\ Left(c, pub[c].left \ {b})
     /\ sub' = IF ~Sees(s, e) THEN sub
               ELSE IF Len(s.ch) < Cap THEN [sub EXCEPT ![b].ch = Append(@, [i |-> pub[c].i, e |-> e])]
               ELSE [sub EXCEPT ![b].dropped = @ + 1]
     /\ UNCHANGED <<chain, subs>>
-----------------------------------------------------------------------------
\* A browser asks for the stream, of its tenant or, a DPO, of all; that is logged first.
StreamHandler(b) == \E all \in BOOLEAN :
  /\ sub[b].pc = "none"
  /\ Append1(b, [action |-> "subscribed", tenant |-> sub[b].tenant, secret |-> FALSE, by |-> b, all |-> all, dropped |-> 0])
  /\ sub' = [sub EXCEPT ![b] = [NewSubscriber(@.tenant, all, StreamFilter(b)) EXCEPT !.pc = "logged"]]
  /\ UNCHANGED subs

\* The upgrade fails: the entry stays, nobody listens.
AcceptFails(b) ==
  /\ sub[b].pc = "logged" /\ pub[b] = NoPub
  /\ sub' = [sub EXCEPT ![b].pc = "closed"]
  /\ UNCHANGED <<chain, pub, subs>>

Subscribe(b) ==
  /\ sub[b].pc = "logged" /\ pub[b] = NoPub /\ NoReaders
  /\ subs' = subs \cup {b}
  /\ sub' = [sub EXCEPT ![b].pc = "open", ![b].at = Len(chain)]
  /\ UNCHANGED <<chain, pub>>

\* A frame for an entry; one that cannot be written ends the stream.
WriteJSON(b) ==
  /\ sub[b].pc = "open" /\ sub[b].ch # <<>>
  /\ \/ sub' = [sub EXCEPT ![b].ch = Tail(@), ![b].sent = Append(@, Head(sub[b].ch))]
     \/ sub' = [sub EXCEPT ![b].ch = Tail(@), ![b].pc = "closing"]
  /\ UNCHANGED <<chain, pub, subs>>

\* The browser is gone, as a read or a ping finds.
Disconnect(b) ==
  /\ sub[b].pc = "open"
  /\ sub' = [sub EXCEPT ![b].pc = "closing"]
  /\ UNCHANGED <<chain, pub, subs>>

\* Mutant: the channel is closed while a Publish is on its way to it.
UnsubscribeUnlocked(b) ==
  /\ sub[b].pc = "closing"
  /\ subs' = subs \ {b} /\ sub' = [sub EXCEPT ![b].pc = "left"]
  /\ UNCHANGED <<chain, pub>>

\* Out of the map, and the channel closed, with what is in it.
Unsubscribe(b) ==
  /\ sub[b].pc = "closing" /\ NoReaders
  /\ subs' = subs \ {b} /\ sub' = [sub EXCEPT ![b].pc = "left"]
  /\ UNCHANGED <<chain, pub>>

\* The end is logged with what was dropped, if it can be.
LogEnd(b) ==
  /\ sub[b].pc = "left"
  /\ sub' = [sub EXCEPT ![b].pc = "closed"]
  /\ \/ Append1(b, [action |-> "unsubscribed", tenant |-> sub[b].tenant, secret |-> FALSE, by |-> b,
                    all |-> FALSE, dropped |-> sub[b].dropped])
     \/ UNCHANGED <<chain, pub>>
  /\ UNCHANGED subs
-----------------------------------------------------------------------------
Next ==
  \/ \E w \in Writers : Change(w)
  \/ \E c \in Callers : RLock(c) \/ (\E b \in Browsers : Publish(c, b))
  \/ \E b \in Browsers :
       StreamHandler(b) \/ AcceptFails(b) \/ Subscribe(b) \/ WriteJSON(b) \/ Disconnect(b) \/ Unsubscribe(b) \/ LogEnd(b)

Caller(c) == RLock(c) \/ \E b \in Browsers : Publish(c, b)
End(b) == Unsubscribe(b) \/ LogEnd(b)

\* A call that publishes goes on, and so does a handler whose browser is gone.
Fairness == (\A c \in Callers : WF_vars(Caller(c))) /\ (\A b \in Browsers : WF_vars(End(b)))

Spec == Init /\ [][Next]_vars /\ Fairness
-----------------------------------------------------------------------------
(***************************************************************************)
(* Properties.                                                             *)
(***************************************************************************)
\* Nothing is sent on a channel that Unsubscribe has closed.
NoSendOnClosed == \A c \in Callers : pub[c].left \subseteq subs

\* Frames and channel hold entries the browser may see, each once, stripped,
\* and only after the entry that says with what reach it listens.
SeesItsOwn == \A b \in Browsers :
  LET s == sub[b]
      got == s.sent \o s.ch
  IN got # <<>> =>
     /\ \A k \in DOMAIN got : got[k].e = StripSensitive(chain[got[k].i]) /\ Sees(s, got[k].e)
     /\ \A k, l \in DOMAIN got : got[k].i = got[l].i => k = l
     /\ \E j \in 1..s.at : chain[j].action = "subscribed" /\ chain[j].by = b /\ chain[j].all = s.all

\* Of the entries committed since an open stream began, and published by now,
\* each is written, in the channel, or counted as dropped.
Conserved == \A b \in Browsers :
  LET s == sub[b]
      pending == {pub[c].i : c \in {c \in Callers : pub[c].pc = "committed" \/ b \in pub[c].left}}
  IN s.pc = "open" =>
     Cardinality({i \in (s.at + 1)..Len(chain) : i \notin pending /\ Sees(s, chain[i])}) <= Len(s.sent) + Len(s.ch) + s.dropped

StreamTrue == TypeOK /\ NoSendOnClosed /\ SeesItsOwn /\ Conserved

\* A stream whose browser is gone ends: no call that publishes holds the lock
\* for it, however slow the others read.
Gone == []<>(\A b \in Browsers : sub[b].pc \notin {"closing", "left"})
=============================================================================
