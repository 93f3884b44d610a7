----------------------------- MODULE Judgements -----------------------------
(* What the program concludes from what it saw: how risky a person's day was   *)
(* and how productive, how long a component was up, what kind of activity an    *)
(* event is, whether it is sensitive and where its peer is.  Signals of a day,  *)
(* incidents and answers come one at a time; a judgement is made of what there  *)
(* is.  Ties that only binary fractions could break are rounded up.             *)
EXTENDS Integers, Sequences, FiniteSets, SequencesExt

CONSTANTS
    RiskLevels, DayLevels,  \* per signal, the values it may take, in order
    Window, JudgeTime,      \* the days of an uptime; bound on its clock
    MaxIncidents,           \* bound on the incidents
    Patterns, Texts         \* host globs and hosts, as sequences of letters

VARIABLES
    subject,    \* which judgement this behaviour is about
    signals,    \* of a day: signal -> value so far
    today, incidents,
    event       \* an event, with the answers about it so far

\* The values of a signal are in order; globs and hosts are sequences of letters.
Ordered(levels) == \A s \in DOMAIN levels :
    /\ levels[s] # <<>>
    /\ \A k \in 1..(Len(levels[s]) - 1) : levels[s][k] <= levels[s][k + 1]

JudgeAssumption ==
    /\ Window \in Nat
    /\ RiskLevels \in [{"uba", "dlp", "sens", "usb", "off", "tamper", "av"} -> Seq(Int)]
    /\ DayLevels \in [{"prod", "neut", "dist", "idle", "active", "viols", "keys"} -> Seq(Int)]
    /\ Ordered(RiskLevels) /\ Ordered(DayLevels)
    /\ Patterns \cup Texts \subseteq Seq(STRING)

judgeVars == <<subject, signals, today, incidents, event>>

Least(x, most) == IF x < most THEN x ELSE most
NonNeg(n) == IF n < 0 THEN 0 ELSE n
Share(n) == Least(NonNeg(n), 100)       \* clamp01, in hundredths
SumOf(w) == LET sum[n \in 0..Len(w)] == IF n = 0 THEN 0 ELSE sum[n - 1] + w[n] IN sum[Len(w)]
Total(weights) == SumOf([i \in DOMAIN weights |-> weights[i].weight])

-----------------------------------------------------------------------------
(* The advisory risk of a day, in hundredths of a point. *)

Contributions(s) ==
    << [name |-> "uba_anomaly", weight |-> 30 * Share(s.uba)],
       [name |-> "dlp_blocked", weight |-> 100 * Least(5 * NonNeg(s.dlp), 30)],
       [name |-> "sensitive_file_access", weight |-> 100 * Least(3 * NonNeg(s.sens), 20)],
       [name |-> "usb_transfers", weight |-> 100 * Least(5 * NonNeg(s.usb), 20)],
       [name |-> "off_hours", weight |-> 20 * Share(s.off)],
       [name |-> "tamper_findings", weight |-> 100 * Least(10 * NonNeg(s.tamper), 30)],
       [name |-> "av_deactivation", weight |-> 100 * Least(20 * NonNeg(s.av), 40)] >>

RiskScore(s) == (Least(Total(Contributions(s)), 10000) + 50) \div 100

TierRank(tier) == CASE tier = "low" -> 0 [] tier = "medium" -> 1 [] tier = "high" -> 2 [] OTHER -> 3

ClassifyTier(score) ==
    CASE score <= 25 -> "low"
      [] score > 25 /\ score <= 50 -> "medium"
      [] score > 50 /\ score <= 75 -> "high"
      [] OTHER -> "critical"

\* The floors: tampering and a switched-off antivirus.
Tier(s) ==
    LET tier == ClassifyTier(RiskScore(s)) IN
    CASE s.av >= 1 -> "critical"
      [] s.av < 1 /\ s.tamper >= 1 /\ TierRank(tier) < TierRank("high") -> "high"
      [] OTHER -> tier

\* What the risk page is given, whoever it is about: the day's rows are read and no
\* signal is taken from them.
NoSignals(s) == [name \in DOMAIN s |-> 0]

\* The insertion sort: a factor goes behind the last one that weighs no less.
Inserted(sorted, f) ==
    InsertAt(sorted, SelectLastInSeq(sorted, LAMBDA g : g.weight >= f.weight) + 1, f)

Sorted(factors) ==
    LET upto[n \in 0..Len(factors)] ==
          IF n = 0 THEN <<>> ELSE Inserted(upto[n - 1], factors[n])
    IN upto[Len(factors)]

\* What weighs nothing has come to the end, and is not shown.
TopFactors(s) ==
    LET sorted == Sorted(Contributions(s))
    IN SubSeq(sorted, 1, SelectLastInSeq(sorted, LAMBDA f : f.weight > 0))

-----------------------------------------------------------------------------
(* The productivity of a day. *)

Minutes(s) == NonNeg(s.prod) + NonNeg(s.neut) + NonNeg(s.dist)
TwiceDenom(s) == 2 * Minutes(s) + NonNeg(s.idle)

Penalties(s) ==
    << [reason |-> "high_distraction", weight |->
            IF 100 * NonNeg(s.dist) > 30 * Minutes(s) THEN 10 ELSE 0],
       [reason |-> "violations", weight |-> Least(5 * NonNeg(s.viols), 20)],
       [reason |-> "low_active", weight |->
            IF s.active > 0 /\ 100 * NonNeg(s.idle) > 40 * s.active THEN 10 ELSE 0],
       [reason |-> "low_keystrokes", weight |->
            IF s.active > 60 /\ 10 * NonNeg(s.keys) < 3 * 60 * s.active THEN 5 ELSE 0] >>

Applied(s) == {i \in DOMAIN Penalties(s) : Penalties(s)[i].weight > 0}
Deducted(s) == Total(Penalties(s))

Productivity(s) ==
    LET d == TwiceDenom(s)
        points == 100 * (2 * NonNeg(s.prod) + NonNeg(s.neut)) - d * Deducted(s)
    IN IF d = 0 THEN 0 ELSE (2 * Least(NonNeg(points), 100 * d) + d) \div (2 * d)

PenaltyReason(s) ==
    CASE TwiceDenom(s) = 0 \/ Applied(s) = {} -> ""
      [] TwiceDenom(s) > 0 /\ Cardinality(Applied(s)) = 1 ->
            LET i == CHOOSE i \in Applied(s) : TRUE IN Penalties(s)[i].reason
      [] OTHER -> "mixed"

-----------------------------------------------------------------------------
(* The status page: one component that its health source calls operational. *)

Counted == {i \in DOMAIN incidents :
    /\ incidents[i].severity \in {"P1", "P2"}
    /\ incidents[i].end # -1 /\ incidents[i].end >= today - Window}

Later(a, b) == IF a < b THEN b ELSE a

\* sevenDayUptime: each one from its start, or the window's, to its end; they add up.
Lasted(i) == IF i \in Counted THEN incidents[i].end - Later(incidents[i].start, today - Window) ELSE 0
Downtime == SumOf([i \in DOMAIN incidents |-> Lasted(i)])

SevenDayUptime == NonNeg(Window - Downtime)

\* GetPublicStatus: what is shown, in parts of the window.
Shown == IF SevenDayUptime = 0 THEN Window ELSE SevenDayUptime

ActiveIncidents == {i \in DOMAIN incidents : ~incidents[i].resolved}

CreateIncident(severity) ==
    /\ subject = "uptime"
    /\ Len(incidents) < MaxIncidents
    /\ incidents' = Append(incidents,
            [severity |-> severity, start |-> today, end |-> -1, resolved |-> FALSE])
    /\ UNCHANGED <<subject, signals, today, event>>

\* An incident resolved again ends anew.
ResolveIncident(i) ==
    /\ subject = "uptime"
    /\ incidents' = [incidents EXCEPT ![i].end = today, ![i].resolved = TRUE]
    /\ UNCHANGED <<subject, signals, today, event>>

DayPasses ==
    /\ subject = "uptime"
    /\ today < JudgeTime
    /\ today' = today + 1
    /\ UNCHANGED <<subject, signals, incidents, event>>

-----------------------------------------------------------------------------
(* What kind of activity an event is. *)

\* RegexFallbackClassifier.Classify: the first rule that matches decides.
Rules(e) ==
    << [holds |-> e.app = "work", category |-> "work", sure |-> 90],
       [holds |-> e.app = "distraction", category |-> "distraction", sure |-> 85],
       [holds |-> e.app = "personal", category |-> "personal", sure |-> 85],
       [holds |-> "work" \in e.hosts, category |-> "work", sure |-> 80],
       [holds |-> "distraction" \in e.hosts, category |-> "distraction", sure |-> 80],
       [holds |-> "personal" \in e.hosts, category |-> "personal", sure |-> 75],
       [holds |-> e.titled, category |-> "work", sure |-> 70],
       [holds |-> e.app = "like work", category |-> "work", sure |-> 65],
       [holds |-> TRUE, category |-> "unknown", sure |-> 50] >>

Fallback(e) ==
    LET rule == Rules(e)[SelectInSeq(Rules(e), LAMBDA r : r.holds)]
    IN [category |-> rule.category, sure |-> rule.sure]

\* MLClassifierClient.Classify: an unsure answer is "unknown", whatever the rules say.
Classify(e) ==
    CASE e.reply.kind \in {"off", "failed"} -> Fallback(e)
      [] e.reply.kind = "answered" /\ e.reply.sure < 70 ->
            [category |-> "unknown", sure |-> e.reply.sure]
      [] OTHER -> [category |-> e.reply.category, sure |-> e.reply.sure]

Reply(kind, category, sure) == [kind |-> kind, category |-> category, sure |-> sure]
Categories == {"work", "personal", "distraction", "unknown"}

MLAnswers(reply) ==
    /\ subject = "activity"
    /\ event.reply.kind = "asked"
    /\ event' = [event EXCEPT !.reply = reply]
    /\ UNCHANGED <<subject, signals, today, incidents>>

-----------------------------------------------------------------------------
(* Where the peer of a network event is, and whether the event is sensitive. *)

Slots == <<"remote_ip", "source_ip", "dest_ip", "answer_ip">>

\* extractPayloadIP: the first that is there, be it public or not.
PayloadIP(e) ==
    LET first == SelectInSeq(Slots, LAMBDA slot : e.ips[slot] # "absent")
    IN IF first = 0 THEN "absent" ELSE e.ips[Slots[first]]

\* GeoLookup.Lookup: nothing without a database, or of what is not public.
Located(e) == e.geo /\ e.type = "network" /\ PayloadIP(e) = "public"

\* The places of the text from where it matches the pattern but for its first i letters.
GlobMatch(pattern, text) ==
    LET fits[i \in 0..Len(pattern)] ==
          IF i = Len(pattern) THEN {Len(text)}
          ELSE IF pattern[i + 1] = "*" THEN {j \in 0..Len(text) : \E k \in fits[i + 1] : j <= k}
          ELSE {j \in 0..(Len(text) - 1) : pattern[i + 1] = text[j + 1] /\ j + 1 \in fits[i + 1]}
    IN 0 \in fits[0]

\* extractNetworkHost: a host that is there hides the address, even an empty one.
NetworkHost(e) == IF e.host = {} THEN e.address ELSE CHOOSE host \in e.host : TRUE

\* ApplySensitivity: title rules first (a broken one is skipped), then hosts.
TitleMatches(e) == e.titled /\ "matching" \in e.titles

HostMatches(e) ==
    /\ e.type = "network" /\ NetworkHost(e) # <<>>
    /\ \E glob \in e.globs : GlobMatch(glob, NetworkHost(e))

Sensitive(e) == e.guarded /\ (TitleMatches(e) \/ HostMatches(e))

PolicyAdds(glob) ==
    /\ subject = "host"
    /\ event.guarded /\ Cardinality(event.globs) = 1
    /\ event' = [event EXCEPT !.globs = @ \cup {glob}]
    /\ UNCHANGED <<subject, signals, today, incidents>>

-----------------------------------------------------------------------------

Levels == IF subject = "risk" THEN RiskLevels ELSE DayLevels
At(levels) == [s \in DOMAIN levels |-> Levels[s][levels[s]]]
Day == At(signals)
Next1(s) == [signals EXCEPT ![s] = @ + 1]
Rises(s) == signals[s] < Len(Levels[s])

Signal(s) ==
    /\ Rises(s)
    /\ signals' = Next1(s)
    /\ UNCHANGED <<subject, today, incidents, event>>

Activities == [app : {"work", "distraction", "personal", "like work", "other"},
               hosts : SUBSET {"work", "distraction", "personal"}, titled : BOOLEAN,
               reply : {Reply("off", "unknown", 0), Reply("asked", "unknown", 0)}]

Peers == [type : {"network", "window"}, geo : BOOLEAN,
          ips : [{Slots[i] : i \in DOMAIN Slots} -> {"absent", "public", "private"}]]

Visits == [type : {"network", "window"}, guarded : BOOLEAN, titled : BOOLEAN,
           titles : {{}, {"broken"}, {"broken", "matching"}},
           globs : {{p} : p \in Patterns}, host : {{}} \cup {{t} : t \in Texts},
           address : {<<"b">>}]

NoEvent == [type |-> "none"]

JudgeInit ==
    /\ subject \in {"risk", "day", "uptime", "activity", "peer", "host"}
    /\ signals = IF subject \in {"risk", "day"} THEN [s \in DOMAIN Levels |-> 1] ELSE <<>>
    /\ today = 0 /\ incidents = <<>>
    /\ event \in CASE subject = "activity" -> Activities
                   [] subject = "peer" -> Peers
                   [] subject = "host" -> Visits
                   [] OTHER -> {NoEvent}

JudgeNext ==
    \/ \E s \in DOMAIN signals : Signal(s)
    \/ \E severity \in {"P1", "P3"} : CreateIncident(severity)
    \/ \E i \in DOMAIN incidents : ResolveIncident(i)
    \/ DayPasses
    \/ \E category \in Categories, sure \in {40, 69, 70, 95} :
            MLAnswers(Reply("answered", category, sure))
    \/ MLAnswers(Reply("failed", "unknown", 0))
    \/ \E glob \in Patterns : PolicyAdds(glob)

JudgeSpec == JudgeInit /\ [][JudgeNext]_judgeVars

-----------------------------------------------------------------------------
(* Properties *)

\* One more signal never makes a day look safer, and the floors hold however small the
\* score.
RiskRises ==
    /\ \A s \in DOMAIN signals : Rises(s) =>
          /\ RiskScore(At(Next1(s))) >= RiskScore(Day)
          /\ TierRank(Tier(At(Next1(s)))) >= TierRank(Tier(Day))
    /\ Day.tamper >= 1 => Tier(Day) \in {"high", "critical"}
    /\ Day.av >= 1 => Tier(Day) = "critical"
    /\ RiskScore(NoSignals(Day)) <= RiskScore(Day)
    /\ RiskScore(Day) \in 0..100

\* The factors shown are in order and make up the whole score.
FactorsTrue ==
    LET factors == TopFactors(Day) IN
    /\ \A i, j \in DOMAIN factors : i < j => factors[i].weight >= factors[j].weight
    /\ RiskScore(Day) < 100 => 100 * RiskScore(Day) - Total(factors) \in -49..50

\* Work and typing never lower a day's score, distraction, idling and violations
\* never raise it, and no penalty is hidden by the clamping.
DayTrue ==
    LET after(s) == Productivity(At(Next1(s))) IN
    /\ \A s \in {"prod", "keys"} : Rises(s) => after(s) >= Productivity(Day)
    /\ \A s \in {"dist", "idle", "viols"} : Rises(s) => after(s) <= Productivity(Day)
    /\ Productivity(Day) \in 0..100
    /\ PenaltyReason(Day) # "" => Productivity(Day) + Deducted(Day) <= 100
    /\ Productivity(Day) = 100 => PenaltyReason(Day) = ""

\* The days of the window that a serious incident, since resolved, covered.
Covered == {t \in (today - Window)..(today - 1) : \E i \in DOMAIN incidents :
    /\ incidents[i].severity = "P1" /\ incidents[i].resolved
    /\ incidents[i].start <= t /\ t < incidents[i].end}

\* The uptime shown leaves out no day of a resolved serious incident, but for the
\* component that was down throughout, and is never lowered without one.
UptimeTrue ==
    /\ Shown <= Window - Cardinality(Covered) \/ Downtime >= Window
    /\ Shown < Window => Covered # {}
    /\ \A i \in DOMAIN incidents : i \in ActiveIncidents \/ incidents[i].end >= incidents[i].start

\* A category other than unknown is at least 70 sure, or it is the fallback's guess
\* from a part of the name.
ActivityTrue ==
    Classify(event).category # "unknown" /\ event.reply.kind # "asked" =>
        \/ Classify(event).sure >= 70
        \/ event.reply.kind # "answered" /\ event.app = "like work"

\* Only a network event is located, by a public address no other slot hides.
PeerTrue ==
    Located(event) => event.type = "network" /\ \E i \in 1..4 :
        event.ips[Slots[i]] = "public" /\ \A j \in 1..(i - 1) : event.ips[Slots[j]] = "absent"

\* What a glob means: the text can be cut so that every letter stands for itself.
Matches(pattern, text) ==
    \E cut \in [1..(Len(pattern) + 1) -> 0..Len(text)] :
        /\ cut[1] = 0 /\ cut[Len(pattern) + 1] = Len(text)
        /\ \A k \in DOMAIN pattern :
              IF pattern[k] = "*" THEN cut[k + 1] >= cut[k]
              ELSE cut[k + 1] = cut[k] + 1 /\ text[cut[k] + 1] = pattern[k]

\* The matcher means what a glob means; one more rule never makes an event less
\* sensitive, and a broken one makes no difference.
HostTrue ==
    /\ \A glob \in event.globs :
          GlobMatch(glob, NetworkHost(event)) <=> Matches(glob, NetworkHost(event))
    /\ \A glob \in event.globs :
          Sensitive([event EXCEPT !.globs = @ \ {glob}]) => Sensitive(event)
    /\ Sensitive([event EXCEPT !.titles = @ \ {"broken"}]) <=> Sensitive(event)

JudgementsTrue ==
    /\ subject = "risk" => RiskRises /\ FactorsTrue
    /\ subject = "day" => DayTrue
    /\ subject = "uptime" => UptimeTrue
    /\ subject = "activity" => ActivityTrue
    /\ subject = "peer" => PeerTrue
    /\ subject = "host" => HostTrue
=============================================================================
