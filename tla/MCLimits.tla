------------------------------ MODULE MCLimits ------------------------------
(* Who and what is let in: events into the agent's queue, requests by the     *)
(* API's buckets of its tenants, streams by the gateway's of an endpoint,      *)
(* people at the API's doors; or what the program concludes from what it let   *)
(* in, what it reports, and what it looks up: whichever a behaviour begins     *)
(* with; the others stay as they are.  The threads that enqueue are            *)
(* interchangeable, and so are the tenants and the streams.                    *)
EXTENDS AgentQueue, Access, SequencesExt

CONSTANTS Customers, Rate, Burst, Cost, IdleTtl, MaxTime, StreamTime,
    Streams, BatchSizes, EndpointRate, EndpointBurst, TenantRate, TenantBurst, MaxLimiters,
    Window, JudgeTime, MaxIncidents,
    MaxSamples, Hours, Span, Lookback, ChDays, PgDays, RowCap, Week, BaselineDays, HistoryMin,
    WindowMin, WindowMax, TrendDays, Metric, Exporters, MaxFaults,
    Readers, Setters, FlagTtl, MetaTtl, GateTtl, MaxRead, MaxClock, MaxSets,
    SearchLookback, Cap, Size, MaxSize, MaxPage, ResultWindow
VARIABLES part, clock, buckets, lastSweep, admitted, limiters, endpoint, tenant, batch, spent, closes,
    subject, signals, today, incidents, event,
    kind, now, events, ch, daily, page, exports, bucket, puts, faults,
    about, current, past, made, readFaults, cached, reader, told, setter, trail, docs, walk

tenantVars == <<buckets, lastSweep, admitted>>
streamVars == <<limiters, endpoint, tenant, batch, spent, closes>>
judgeVars == <<subject, signals, today, incidents, event>>
reportVars == <<kind, now, events, ch, daily, page, exports, bucket, puts, faults>>
lookupVars == <<about, current, past, made, readFaults, cached, reader, told, setter, trail, docs, walk>>

PerTenant == INSTANCE TenantLimiter WITH Tenants <- Customers
PerStream == INSTANCE StreamLimiter WITH Sizes <- BatchSizes, MaxTime <- StreamTime

ASSUME LimiterAssumption == PerTenant!TenantAssumption /\ PerStream!StreamAssumption

\* Every signal of a day in a few steps, with the values that bring a cap or a
\* threshold, and those a malformed row may hold.
Judged == INSTANCE Judgements WITH
    RiskLevels <- [uba |-> <<0, 25, 100>>, dlp |-> <<0, 1, 7>>, sens |-> <<0, 1, 7>>,
                   usb |-> <<0, 5>>, off |-> <<0, 50, 101>>, tamper |-> <<0, 1, 4>>,
                   av |-> <<0, 1, 3>>],
    DayLevels <- [prod |-> <<0, 30, 60>>, neut |-> <<0, 30>>, dist |-> <<0, 20, 60>>,
                  idle |-> <<0, 20, 60>>, active |-> <<0, 61>>, viols |-> <<-1, 1, 5>>,
                  keys |-> <<0, 1098, 1200>>],
    Patterns <- SeqOf({"a", "*"}, 2) \cup {<<"*", "b", "*">>, <<"a", "*", "b">>},
    Texts <- SeqOf({"a", "b"}, 2)
ASSUME JudgeNumbers == Judged!JudgeAssumption

\* Raw events of two people and a stranger: seconds that make a minute together and
\* do not one by one, instants of two days, every type, an app with no name.
Sample(who, at, type, what, secs) ==
    [tenant |-> who[1], user |-> who[2], endpoint |-> who[3], at |-> at, type |-> type,
     app |-> what[1], category |-> what[2], secs |-> secs]
One == <<"t1", "u1", "p1">>
Two == <<"t1", "u2", "p2">>
Nothing == <<"", "">>

Reported == INSTANCE Reports WITH MaxEvents <- MaxSamples, Samples <-
    {Sample(One, 1, "focus", <<"a", "productive">>, 90),
     Sample(One, 2, "focus", <<"a", "productive">>, 50),
     Sample(Two, 2, "focus", <<"a", "neutral">>, 130),
     Sample(One, 3, "focus", <<"", "other">>, 60),
     Sample(<<"t2", "u3", "p3">>, 2, "focus", <<"a", "productive">>, 90),
     Sample(One, 1, "active", Nothing, 30), Sample(Two, 2, "active", Nothing, 40),
     Sample(Two, 3, "idle", Nothing, 20), Sample(One, 2, "blocked", <<"b", "">>, 0),
     Sample(One, 2, "listed", <<"a", "productive">>, 5),
     Sample(Two, 3, "listed", <<"a", "other">>, 7)}

\* Documents of three instants; one that does not decode and shares its instant with
\* another, one of another tenant.
Doc(at, of, decodes) == [at |-> at, tenant |-> of, decodes |-> decodes, typed |-> at = 1]

LookedUp == INSTANCE Lookups WITH faults <- readFaults, Lookback <- SearchLookback, Docs <-
    {Doc(0, "t1", TRUE), Doc(1, "t1", TRUE), Doc(2, "t1", TRUE), Doc(2, "t1", FALSE),
     Doc(1, "t2", TRUE)}
ASSUME LookupsNumbers == LookedUp!LookupsAssumption

\* What the routes' reservations leave open is served, and to nobody the matrix names.
ASSUME DoorsNamed == ExceptionsReal

Symmetry == Permutations(Producers) \cup Permutations(Customers) \cup Permutations(Streams)

\* Whatever a behaviour does not begin with has one beginning.
PartsInit ==
    /\ part \in {"queue", "tenants", "streams", "doors", "judgements", "reports", "lookups"}
    /\ Init /\ PerTenant!Init /\ PerStream!Init
    /\ AccessInit /\ (part # "doors" => granted = CHOOSE roles \in Held : TRUE)
    /\ \/ part = "judgements"
       \/ part # "judgements" /\ subject = "uptime"
    /\ Judged!JudgeInit
    /\ \/ part = "reports"
       \/ part # "reports" /\ kind = "trend"
    /\ Reported!ReportsInit
    /\ LookedUp!LookupsInit /\ (part # "lookups" => about = "gate")

PartsNext ==
    \/ /\ part = "queue" /\ Next
       /\ UNCHANGED <<part, clock, tenantVars, streamVars, accessVars, judgeVars, reportVars, lookupVars>>
    \/ /\ part = "tenants" /\ PerTenant!Next
       /\ UNCHANGED <<part, vars, streamVars, accessVars, judgeVars, reportVars, lookupVars>>
    \/ /\ part = "streams" /\ PerStream!Next
       /\ UNCHANGED <<part, vars, tenantVars, accessVars, judgeVars, reportVars, lookupVars>>
    \/ /\ part = "doors" /\ AccessNext
       /\ UNCHANGED <<part, vars, clock, tenantVars, streamVars, judgeVars, reportVars, lookupVars>>
    \/ /\ part = "judgements" /\ Judged!JudgeNext
       /\ UNCHANGED <<part, vars, clock, tenantVars, streamVars, accessVars, reportVars, lookupVars>>
    \/ /\ part = "reports" /\ Reported!ReportsNext
       /\ UNCHANGED <<part, vars, clock, tenantVars, streamVars, accessVars, judgeVars, lookupVars>>
    \/ /\ part = "lookups" /\ LookedUp!LookupsNext
       /\ UNCHANGED <<part, vars, tenantVars, streamVars, accessVars, judgeVars, reportVars>>

PartsSpec ==
    PartsInit /\ [][PartsNext]_<<part, vars, clock, tenantVars, streamVars, accessVars, judgeVars,
                                  reportVars, lookupVars>>

\* The queue's bounds and counters are what its rows say (AgentQueue); nobody gets
\* more than a burst and what came in, whatever is swept, dropped and made anew
\* (TenantLimiter, StreamLimiter); no judgement is moved the wrong way by what comes
\* next (Judgements); the reports of the same time agree (Reports); and what is looked
\* up is not too old (Lookups).
LimitsTrue ==
    /\ part = "queue" => Accounted
    /\ part = "tenants" => PerTenant!TenantBounded
    /\ part = "streams" => PerStream!StreamBounded
    /\ part = "judgements" => Judged!JudgementsTrue
    /\ part = "reports" => Reported!ReportsTrue
    /\ part = "lookups" => LookedUp!LookupsTrue
=============================================================================
