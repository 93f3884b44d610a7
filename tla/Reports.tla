------------------------------- MODULE Reports -------------------------------
(* What the console is told: activity from the raw events in ClickHouse, from    *)
(* the daily rows in Postgres, the trend of a metric, a person's page and the    *)
(* exported file.  A report is an operator on what the stores hold; the page and *)
(* the export take several steps.                                                *)
EXTENDS Integers, Sequences, FiniteSets, FiniteSetsExt, SequencesExt, Functions

CONSTANTS
    Samples,        \* the raw events that may come
    MaxEvents,      \* bound on them
    Hours,          \* instants in a day
    Span,           \* last instant of the clock of the raw events
    Lookback, ChDays, PgDays,   \* default window; longest windows, in days
    RowCap,         \* aggQueryLimit
    Week,           \* the seven days of the pages
    BaselineDays, HistoryMin, WindowMin, WindowMax, TrendDays,  \* of a trend; bound on its days
    Metric,         \* the values a day may have
    Exporters, MaxFaults

VARIABLES
    kind,       \* what this behaviour is about
    now,
    events, ch, \* the raw events, and how ClickHouse is
    daily,      \* day -> value of a tenant or of a person, where there is a row
    page,       \* the page being put together
    exports, bucket, puts, faults

reportVars == <<kind, now, events, ch, daily, page, exports, bucket, puts, faults>>

Absent == -99
Garbled == -98
MinOf(a, b) == IF a < b THEN a ELSE b
Sum(f, S) == MapThenSumSet(LAMBDA x : f[x], S)

-----------------------------------------------------------------------------
(* Windows.  Each parser has rules of its own; a refusal is no window at all. *)

Asked == {Absent, Garbled} \cup 0..Span
Start(from) == IF from = Absent THEN now - Lookback * Hours ELSE from
End(to) == IF to = Absent THEN now ELSE to

\* parseCHRange
CHRange(from, to) ==
    IF \/ Garbled \in {from, to} \/ Start(from) >= End(to)
       \/ End(to) - Start(from) > ChDays * Hours
    THEN {} ELSE {<<Start(from), End(to)>>}

\* parseRange of the Postgres reports: by the day, an equal pair is a window.
PGRange(from, to) ==
    IF \/ Garbled \in {from, to} \/ Start(from) > End(to)
       \/ End(to) - Start(from) > PgDays * Hours
    THEN {} ELSE {<<Start(from) \div Hours, End(to) \div Hours>>}

\* parseTimeRange and parseExportRange: what does not parse is not there.
TimeRange(from, to) ==
    LET there(x) == IF x = Garbled THEN Absent ELSE x
    IN {<<Start(there(from)), End(there(to))>>}

\* parseCHLimit, and the limit of the Postgres reports and of Querier.TopApps.
CHLimit(n, default, most) == IF n <= 0 THEN default ELSE MinOf(n, most)
PGLimit(n, default, most) == IF n <= 0 \/ n > most THEN default ELSE n

-----------------------------------------------------------------------------
(* Reports on the raw events of a window, both ends included. *)

Found(tenant, w, kinds, users) ==
    {e \in events : /\ e.tenant = tenant /\ e.type \in kinds
                    /\ w[1] <= e.at /\ e.at <= w[2]
                    /\ users = {} \/ e.user \in users}

Seconds(S) == MapThenSumSet(LAMBDA e : e.secs, S)
Users(S) == Cardinality({e.user : e \in S})

\* ORDER BY count DESC LIMIT n: equals come in any order.
First(rows, n) ==
    {top \in SUBSET rows :
        /\ Cardinality(top) = MinOf(n, Cardinality(rows))
        /\ \A r \in top, s \in rows \ top : r.count >= s.count}

AggTopApps(tenant, w, category, users) ==
    LET found == {e \in Found(tenant, w, {"focus"}, users) :
                    e.app # "" /\ category \in {"", e.category}}
        group(app, cat) == {e \in found : e.app = app /\ e.category = cat}
    IN {[app |-> e.app, category |-> e.category,
         count |-> Seconds(group(e.app, e.category)) \div 60,
         users |-> Users(group(e.app, e.category))] : e \in found}

AggAppBlocks(tenant, w) ==
    LET found == {e \in Found(tenant, w, {"blocked"}, {}) : e.app # ""}
        group(app) == {e \in found : e.app = app}
    IN {[app |-> e.app, count |-> Cardinality(group(e.app)), users |-> Users(group(e.app))] :
            e \in found}

DayOf(e) == e.at \div Hours
OfType(S, type) == {e \in S : e.type = type}

\* One row a day, oldest first, and no more than the cap.
AggIdleActive(tenant, w, users) ==
    LET found == Found(tenant, w, {"active", "idle"}, users)
        days == SetToSortSeq({DayOf(e) : e \in found}, <)
        of(d) == {e \in found : DayOf(e) = d}
        row(d) == [day |-> d, active |-> Seconds(OfType(of(d), "active")),
                   idle |-> Seconds(OfType(of(d), "idle")), users |-> Users(of(d))]
    IN [i \in 1..MinOf(RowCap, Len(days)) |-> row(days[i])]

\* A row per person and day; what is in no known category is counted nowhere.
AggProductivityScore(tenant, w, users) ==
    LET found == {e \in Found(tenant, w, {"focus"}, users) : e.user # ""}
        minutes(u, d, c) ==
            Seconds({e \in found : e.user = u /\ DayOf(e) = d /\ e.category = c}) \div 60
    IN {[user |-> e.user, day |-> DayOf(e), prod |-> minutes(e.user, DayOf(e), "productive"),
         neut |-> minutes(e.user, DayOf(e), "neutral"),
         dist |-> minutes(e.user, DayOf(e), "distracting")] : e \in found}

\* Querier: by endpoint, from another table.  Endpoints narrow the first only.
ProductivityTimeline(tenant, w, endpoints) ==
    LET found == {e \in Found(tenant, w, {"active", "idle"}, {}) :
                    endpoints = {} \/ e.endpoint \in endpoints}
        of(h, p) == {e \in found : e.at = h /\ e.endpoint = p}
    IN {[hour |-> e.at, endpoint |-> e.endpoint,
         active |-> Seconds(OfType(of(e.at, e.endpoint), "active")),
         idle |-> Seconds(OfType(of(e.at, e.endpoint), "idle"))] : e \in found}

IdleActive(tenant, w, endpoints) ==
    LET found == Found(tenant, w, {"active", "idle", "focus", "blocked"}, {})
        of(d, p) == {e \in found : DayOf(e) = d /\ e.endpoint = p}
    IN {[day |-> DayOf(e), endpoint |-> e.endpoint,
         active |-> Seconds(OfType(of(DayOf(e), e.endpoint), "active")),
         idle |-> Seconds(OfType(of(DayOf(e), e.endpoint), "idle"))] : e \in found}

EndpointActivity(tenant, w) ==
    LET found == Found(tenant, w, {"active", "idle", "focus", "blocked"}, {})
        of(p) == {e.at : e \in {f \in found : f.endpoint = p}}
    IN {[endpoint |-> e.endpoint, last |-> Max(of(e.endpoint)), first |-> Min(of(e.endpoint))] :
            e \in found}

TopApps(tenant, w) ==
    LET found == Found(tenant, w, {"focus"}, {})
    IN {[app |-> e.app, count |-> Seconds({f \in found : f.app = e.app})] : e \in found}

AppBlocks(tenant, w) ==
    LET found == Found(tenant, w, {"blocked"}, {})
        of(h, p, app) == {e \in found : e.at = h /\ e.endpoint = p /\ e.app = app}
    IN {[hour |-> e.at, endpoint |-> e.endpoint, app |-> e.app,
         count |-> Cardinality(of(e.at, e.endpoint, e.app))] : e \in found}

\* The hourly and the daily rows of Postgres, given a roll-up that lost nothing: whole
\* days, and all the people of the tenant.
OnDays(tenant, w) ==
    {e \in events : /\ e.tenant = tenant /\ e.type \in {"active", "idle"}
                    /\ w[1] <= DayOf(e) /\ DayOf(e) <= w[2]}

PGHours(tenant, w) ==
    LET of(h) == {e \in OnDays(tenant, w) : e.at = h}
    IN {[hour |-> e.at, active |-> Seconds(OfType(of(e.at), "active")),
         idle |-> Seconds(OfType(of(e.at), "idle"))] : e \in OnDays(tenant, w)}

PGIdleActive(tenant, w) ==
    LET of(d) == {e \in OnDays(tenant, w) : DayOf(e) = d}
    IN {[day |-> DayOf(e), active |-> Seconds(OfType(of(DayOf(e)), "active")),
         idle |-> Seconds(OfType(of(DayOf(e)), "idle")),
         users |-> Users(of(DayOf(e)))] : e \in OnDays(tenant, w)}

\* The entries of the daily rows' app lists (Postgres), by the day: what an app is
\* called by the first entry read stays.
Listed(tenant, w, users) ==
    {e \in events : /\ e.tenant = tenant /\ e.type = "listed"
                    /\ w[1] <= DayOf(e) /\ DayOf(e) <= w[2]
                    /\ users = {} \/ e.user \in users}

PGTopApps(tenant, w) ==
    LET listed == Listed(tenant, w, {})
        of(app) == {e \in listed : e.app = app}
    IN {[app |-> e.app, count |-> Seconds(of(e.app)), calledAs |-> {f.category : f \in of(e.app)}] :
            e \in listed}

\* aggregateTopAppsCategories: whatever is neither is neutral.
CategoryMinutes(entries, category) ==
    Seconds({e \in entries :
        \/ e.category = category
        \/ category = "neutral" /\ e.category \notin {"productive", "distracting"}})

MissingTable == ch \in {"no table", "code 600"}

\* The answer of a handler: without a client it does not look at the window, and an
\* error whose code merely begins with 60 or 81 is taken for a missing table.
CHAnswer(window, rows) ==
    CASE ch = "nil" -> [status |-> 503, rows |-> {}]
      [] ch # "nil" /\ window = {} -> [status |-> 400, rows |-> {}]
      [] MissingTable /\ window # {} -> [status |-> 200, rows |-> {}]
      [] ch = "down" /\ window # {} -> [status |-> 500, rows |-> {}]
      [] OTHER -> [status |-> 200, rows |-> rows]

\* The answer over Querier: whatever the window, and any error is a 500.
QueryAnswer(rows) ==
    IF ch = "up" THEN [status |-> 200, rows |-> rows] ELSE [status |-> 500, rows |-> {}]

Arrives(e) ==
    /\ kind = "events"
    /\ e \notin events /\ Cardinality(events) < MaxEvents
    /\ events' = events \cup {e}
    /\ UNCHANGED <<kind, now, ch, daily, page, exports, bucket, puts, faults>>

-----------------------------------------------------------------------------
(* The trend of a metric; now is the day that began, whose row is not read. *)

MaxOf(a, b) == IF a > b THEN a ELSE b
Series(from, to) == {d \in DOMAIN daily : from <= d /\ d < to}      \* FetchDailySeries
Days(from, to) ==                                               \* collectWindow
    {d \in from..(to - 1) : d \in Series(from, now)}
Baseline(w) == Days(now - MaxOf(BaselineDays, 2 * w), now)
Current(w) == Days(now - w, now)
Previous(w) == Days(now - 2 * w, now - w)

Enough(w) ==
    /\ Cardinality(Current(w)) >= w /\ Cardinality(Previous(w)) >= w
    /\ Cardinality(Baseline(w)) >= HistoryMin

Mean100(S) == (200 * Sum(daily, S) + Cardinality(S)) \div (2 * Cardinality(S))   \* round2

\* How the change compares with 5 % of the previous mean.
Direction(w) ==
    LET current == Mean100(Current(w))
        previous == Mean100(Previous(w))
    IN CASE previous = 0 -> IF current = 0 THEN "flat" ELSE "up"
         [] previous > 0 /\ 20 * (current - previous) >= previous -> "up"
         [] previous > 0 /\ 20 * (current - previous) <= -previous -> "down"
         [] OTHER -> "flat"

\* |z| > 2, squared and without fractions: the current mean against the mean of
\* the baseline and the deviation of a sample.
Anomaly(w) ==
    LET n == Cardinality(Baseline(w))
        sum == Sum(daily, Baseline(w))
        squares == MapThenSumSet(LAMBDA d : daily[d] * daily[d], Baseline(w))
        spread == n * squares - sum * sum
        off == n * Mean100(Current(w)) - 100 * sum
    IN n > 1 /\ spread > 0 /\ (n - 1) * off * off > 40000 * n * spread

\* percentile: nearest rank in the sorted values.
Percentile(S, pct) ==
    LET sorted == SortSeq(FoldLeft(LAMBDA s, d : Append(s, daily[d]), <<>>, SetToSeq(S)), <)
    IN sorted[MaxOf(1, (pct * Len(sorted) + 99) \div 100)]

TrendReport(w) ==
    CASE w \notin WindowMin..WindowMax -> [error |-> "invalid window"]
      [] w \in WindowMin..WindowMax /\ ~Enough(w) -> [error |-> "insufficient"]
      [] OTHER -> [error |-> "none", direction |-> Direction(w), anomaly |-> Anomaly(w)]

Trend(w) ==
    LET report == TrendReport(w)
        status == CASE report.error = "none" -> 200
                    [] report.error = "invalid window" -> 400
                    [] report.error = "insufficient" -> 409
    IN report @@ [status |-> status]

\* The roll-up writes the day's row, or misses it, and the next day begins.
DayEnds(row) ==
    /\ kind = "trend"
    /\ now < TrendDays
    /\ daily' = IF row = {} THEN daily ELSE daily @@ (now :> CHOOSE v \in row : TRUE)
    /\ now' = now + 1
    /\ UNCHANGED <<kind, events, ch, page, exports, bucket, puts, faults>>

-----------------------------------------------------------------------------
(* A person's page, one statement after the other, and the overview. *)

NoPage == [step |-> "profile", today |-> Absent, week |-> <<>>, stale |-> FALSE]

RowOf(d) == IF d \in DOMAIN daily THEN daily[d] ELSE Absent
RowsOf(from, to) == SetToSortSeq({d \in DOMAIN daily : from <= d /\ d <= to}, <)

\* Six days back and the day itself; the overview goes seven back.
DetailDays == RowsOf(now - (Week - 1), now)
Overview ==
    [today |-> IF now \in DOMAIN daily THEN daily[now] ELSE 0,
     sum |-> Sum(daily, {d \in DOMAIN daily : now - Week <= d /\ d <= now})]

PageStep(from, to, change) ==
    /\ kind = "page"
    /\ page.step = from
    /\ page' = [change EXCEPT !.step = to]
    /\ UNCHANGED <<kind, now, events, ch, daily, exports, bucket, puts, faults>>

ReadProfile == PageStep("profile", "today", page)
ReadToday == PageStep("today", "hours", [page EXCEPT !.today = RowOf(now)])
ReadHours == PageStep("hours", "week", page)
ReadWeek == PageStep("week", "endpoints",
    [page EXCEPT !.week = FoldLeft(LAMBDA list, d : Append(list, <<d, daily[d]>>), <<>>, DetailDays)])
ReadEndpoints == PageStep("endpoints", "done", page)

\* The roll-up in between.
RollUp(d, value) ==
    /\ kind = "page"
    /\ RowOf(d) # value
    /\ daily' = (d :> value) @@ daily
    /\ page' = [page EXCEPT !.stale = page.step # "profile"]
    /\ UNCHANGED <<kind, now, events, ch, exports, bucket, puts, faults>>

\* productivity-breakdown: the mean of a row and the six rows before it, in 1/100.
Rolling(rows, i) ==
    LET last == MaxOf(1, i - (Week - 1))..i
    IN (200 * MapThenSumSet(LAMBDA j : daily[rows[j]], last) + Cardinality(last))
            \div (2 * Cardinality(last))

Breakdown(w) ==
    LET rows == RowsOf(w[1], w[2]) IN [i \in DOMAIN rows |-> [day |-> rows[i], mean |-> Rolling(rows, i)]]

-----------------------------------------------------------------------------
(* The export of a report: rendered, put under a key of the second, and linked. *)

NoExport == [step |-> "idle", key |-> <<>>, data |-> 0]

Render(x, tenant, type) ==
    /\ kind = "export"
    /\ exports[x].step = "idle"
    /\ puts' = puts + 1
    /\ exports' = [exports EXCEPT ![x] =
            [step |-> "put", key |-> <<tenant, type, now>>, data |-> puts + 1]]
    /\ UNCHANGED <<kind, now, events, ch, daily, page, bucket, faults>>

\* The risk report has no reporter, a report may be too large, a query may fail.
Refused(x) ==
    /\ kind = "export"
    /\ exports[x].step = "idle" /\ faults < MaxFaults
    /\ exports' = [exports EXCEPT ![x].step = "failed"]
    /\ faults' = faults + 1
    /\ UNCHANGED <<kind, now, events, ch, daily, page, bucket, puts>>

Put(x) ==
    /\ exports[x].step = "put"
    /\ LET key == exports[x].key IN
         bucket' = [k \in DOMAIN bucket \cup {key} |-> IF k = key THEN exports[x].data ELSE bucket[k]]
    /\ exports' = [exports EXCEPT ![x].step = "presign"]
    /\ UNCHANGED <<kind, now, events, ch, daily, page, puts, faults>>

Presign(x) ==
    /\ exports[x].step = "presign"
    /\ exports' = [exports EXCEPT ![x].step = "linked"]
    /\ UNCHANGED <<kind, now, events, ch, daily, page, bucket, puts, faults>>

\* MinIO refuses: what is put already stays there, with no link.
MinioFails(x) ==
    /\ exports[x].step \in {"put", "presign"} /\ faults < MaxFaults
    /\ exports' = [exports EXCEPT ![x].step = "failed"]
    /\ faults' = faults + 1
    /\ UNCHANGED <<kind, now, events, ch, daily, page, bucket, puts>>

SecondPasses ==
    /\ kind = "export"
    /\ now < 1
    /\ now' = now + 1
    /\ UNCHANGED <<kind, events, ch, daily, page, exports, bucket, puts, faults>>

-----------------------------------------------------------------------------

ReportsInit ==
    /\ kind \in {"events", "trend", "page", "export"}
    /\ now = CASE kind = "events" -> Span [] kind = "page" -> Week + 1 [] OTHER -> 0
    /\ events = {}
    /\ ch \in IF kind = "events" THEN {"up", "nil", "no table", "code 600", "down"} ELSE {"up"}
    /\ daily \in IF kind = "page" THEN UNION {[D -> {1}] : D \in SUBSET (1..(Week + 1))}
                 ELSE {<<>>}
    /\ page = NoPage
    /\ exports = [x \in Exporters |-> NoExport]
    /\ bucket = <<>> /\ puts = 0 /\ faults = 0

ReportsNext ==
    \/ \E e \in Samples : Arrives(e)
    \/ \E row \in {{}} \cup {{v} : v \in Metric} : DayEnds(row)
    \/ ReadProfile \/ ReadToday \/ ReadHours \/ ReadWeek \/ ReadEndpoints
    \/ \E d \in {now - 1, now}, v \in {1, 2} : RollUp(d, v)
    \/ \E x \in Exporters :
          \/ \E tenant \in {"t1", "t2"}, type \in {"top_apps", "trend"} : Render(x, tenant, type)
          \/ Refused(x) \/ Put(x) \/ Presign(x) \/ MinioFails(x)
    \/ SecondPasses

ReportsSpec == ReportsInit /\ [][ReportsNext]_reportVars

-----------------------------------------------------------------------------
(* Properties *)

Windows == {w \in (0..Span) \X (0..Span) : w[1] < w[2]}
Total(rows, f(_)) == MapThenSumSet(f, rows)

\* Neighbouring windows share their instant and nothing else; what the reports of
\* one window say of the same time adds up, but for the seconds lost in each row of
\* minutes; and only a ClickHouse that is up has rows to show.
EventsTrue ==
    /\ \A w \in Windows, b \in 0..Span : w[1] < b /\ b < w[2] =>
          Seconds(Found("t1", <<w[1], b>>, {"active"}, {})) + Seconds(Found("t1", <<b, w[2]>>, {"active"}, {}))
            = Seconds(Found("t1", w, {"active"}, {})) + Seconds(Found("t1", <<b, b>>, {"active"}, {}))
    /\ \A w \in Windows :
          LET tops == AggTopApps("t1", w, "", {})
              focus == Seconds({e \in Found("t1", w, {"focus"}, {}) : e.app # ""})
              told == Total(tops, LAMBDA r : 60 * r.count)
              days == AggIdleActive("t1", w, {})
          IN /\ told <= focus /\ focus - told <= 59 * Cardinality(tops)
             /\ Len(days) < RowCap =>
                   FoldLeft(LAMBDA n, r : n + r.active, 0, days)
                     = Total(IdleActive("t1", w, {}), LAMBDA r : r.active)
             /\ Total(IdleActive("t1", w, {}), LAMBDA r : r.idle)
                     = Total(ProductivityTimeline("t1", w, {}), LAMBDA r : r.idle)
             /\ focus <= Total(TopApps("t1", w), LAMBDA r : r.count)
             /\ Total(AggAppBlocks("t1", w), LAMBDA r : r.count)
                     <= Total(AppBlocks("t1", w), LAMBDA r : r.count)
             /\ \A r \in AggProductivityScore("t1", w, {}) :
                   60 * (r.prod + r.neut + r.dist) <= Seconds(Found("t1", w, {"focus"}, {r.user}))
             /\ \A n \in 1..2 : \A top \in First(tops, n) :
                   Total(top, LAMBDA r : r.count) * Cardinality(tops)
                     >= Total(tops, LAMBDA r : r.count) * Cardinality(top)
    \* The two stores tell whole days alike, in hours and in days.
    /\ \A d \in 0..(Span \div Hours) :
          LET hours == PGHours("t1", <<d, d>>)
              days == PGIdleActive("t1", <<d, d>>)
              raw == AggIdleActive("t1", <<d * Hours, d * Hours + Hours - 1>>, {})
          IN /\ Total(hours, LAMBDA r : r.active) = Total(days, LAMBDA r : r.active)
             /\ days = ToSet(raw)
    /\ LET entries == Listed("t1", <<0, Span>>, {}) IN
          /\ Seconds(entries) = Total({"productive", "neutral", "distracting"},
                                    LAMBDA c : CategoryMinutes(entries, c))
          /\ Seconds(entries) = Total(PGTopApps("t1", <<0, Span>>), LAMBDA r : r.count)
    /\ \A p \in EndpointActivity("t1", <<0, Span>>) : p.first <= p.last
    /\ CHAnswer({<<0, Span>>}, AggAppBlocks("t1", <<0, Span>>)).rows # {} => ch = "up"
    /\ QueryAnswer(AppBlocks("t1", <<0, Span>>)).status = 200 =>
          CHAnswer({<<0, Span>>}, AggAppBlocks("t1", <<0, Span>>)).status = 200

\* A window that is answered is in order and within its cap, and the lax parser
\* answers whatever a strict one does, by the same window.
WindowsTrue == \A from, to \in Asked :
    /\ \A w \in CHRange(from, to) : w[1] < w[2] /\ w[2] - w[1] <= ChDays * Hours
    /\ \A w \in PGRange(from, to) : w[1] <= w[2] /\ w[2] - w[1] <= PgDays
    /\ CHRange(from, to) \subseteq TimeRange(from, to)
    /\ \A n \in -1..3 : CHLimit(n, 1, 2) \in 1..2 /\ PGLimit(n, 1, 2) <= CHLimit(n, 1, 2)

\* A trend says up or down only of sums that went there; and only a window shorter
\* than a fifth of the baseline's days can be called an anomaly: with 30 days none of
\* six or more, the default of seven among them.
TrendTrue == \A w \in 1..TrendDays : Trend(w).status = 200 =>
    /\ Trend(w).direction = "up" => Sum(daily, Current(w)) > Sum(daily, Previous(w))
    /\ Trend(w).direction = "down" => Sum(daily, Current(w)) < Sum(daily, Previous(w))
    /\ Trend(w).anomaly => 5 * w < Cardinality(Baseline(w))
    /\ Percentile(Current(w), 50) <= Percentile(Current(w), 95)

\* A page read while nothing is rolled up shows one day once: its list ends with the
\* day's own figures, and the overview's sum is the list's and one day more.  The
\* rolling mean is that of the last seven days where no day is missing.
PageTrue ==
    /\ page.step = "done" /\ ~page.stale =>
          /\ page.today # Absent <=>
                page.week # <<>> /\ page.week[Len(page.week)] = <<now, page.today>>
          /\ page.today # Absent => Overview.today = page.today
          /\ Overview.sum = FoldLeft(LAMBDA n, row : n + row[2], 0, page.week)
                + (IF now - Week \in DOMAIN daily THEN daily[now - Week] ELSE 0)
    /\ LET days == Breakdown(<<0, now>>) IN
          \A i \in DOMAIN days :
              i >= Week /\ days[i].day - days[i - (Week - 1)].day = Week - 1 =>
                  Week * days[i].mean - 100 * Sum(daily, (days[i].day - (Week - 1))..days[i].day)
                    \in -Week..Week

\* A link leads to the file it was given for, unless another of the same kind was
\* made in the same second; and never to another tenant's.
ExportTrue == \A x \in Exporters : exports[x].step = "linked" =>
    /\ exports[x].key \in DOMAIN bucket
    /\ \/ bucket[exports[x].key] = exports[x].data
       \/ \E y \in Exporters \ {x} :
             exports[y].key = exports[x].key /\ bucket[exports[x].key] = exports[y].data

ReportsTrue ==
    /\ kind = "events" => EventsTrue
    /\ events = {} /\ kind = "events" => WindowsTrue
    /\ kind = "trend" => TrendTrue
    /\ kind = "page" => PageTrue
    /\ kind = "export" => ExportTrue
=============================================================================
