------------------------------- MODULE Access -------------------------------
(* Who is served at which route of the API: the router's gates, each group's  *)
(* and each route's own, the checks the services make again, and the matrix   *)
(* of roles that is to be the one authority.  The roles are those of a token, *)
(* so what a person lost at Keycloak still opens doors while the token lives. *)
(* A route is <<group, name>> and has a set of gates, all of which a request  *)
(* has to pass; a gate is the set of the roles it lets through.               *)
EXTENDS Naturals

CONSTANTS
    Held,        \* the sets of roles a person may begin with
    Life,        \* for how many ticks a token is good
    MaxChanges   \* bound on the roles given or taken

VARIABLES
    granted,  \* the roles the person has at Keycloak, which knows others too
    taken,    \* <<role, age>>: taken away age ticks ago, less than Life
    bearer,   \* the roles and the ticks left of the token, or NoBearer
    call,     \* the last call: its route, its answer
    changes   \* the roles given and taken so far

ASSUME LifeAssumption == Life \in Nat \ {0}

accessVars == <<granted, taken, bearer, call, changes>>

NoBearer == [roles |-> {}, left |-> 0]
NoCall == [route |-> <<>>, answer |-> "none"]

-----------------------------------------------------------------------------
(* The matrix (auth/rbac.go). *)

Roles == {"admin", "manager", "hr", "dpo", "investigator", "auditor", "employee",
          "it_operator", "it_manager", "dlp_admin"}

\* parseRole: a name of Keycloak that is no role of the product is passed over.
ParseRoles(names) == names \cap Roles

\* The hard rules: they come before what a role is granted.
HardRules ==
    ({"read"} \X {"screenshot", "screenclip"} \X {{"investigator", "dpo"}})
    \cup ({"write", "delete"} \X {"legal_hold"} \X {{"dpo"}})
    \cup ({"download"} \X {"destruction_report"} \X {{"dpo"}})
    \cup ({"approve", "reject"} \X {"live_view"} \X {{"it_manager", "admin"}})
    \cup ({"terminate"} \X {"live_view"} \X {{"it_manager", "admin", "dpo"}})
    \cup ({"approve", "write"} \X {"dsr"} \X {{"dpo"}})
    \cup ({"read"} \X {"audit_log"} \X {{"auditor", "dpo"}})
    \cup ({"write", "delete"} \X {"audit_log"} \X {{}})

\* What each role is granted: resources it may do anything with, and pairs.
Granted(role, op, res) ==
    \/ role = "admin" /\ \/ res \in {"user", "endpoint", "policy"}
                         \/ op = "read" /\ res \in {"report", "live_view", "dlp_match", "silence", "employee"}
                         \/ <<op, res>> \in {<<"request", "live_view">>, <<"write", "employee">>}
    \/ role \in {"manager", "it_operator", "it_manager"} /\ op = "read"
                         /\ res \in {"report", "live_view", "employee", "silence"}
    \/ role \in {"manager", "it_operator", "it_manager", "investigator"}
                         /\ <<op, res>> = <<"request", "live_view">>
    \/ role = "it_operator" /\ <<op, res>> = <<"read", "endpoint">>
    \/ role = "it_manager" /\ \/ res \in {"endpoint", "policy"}
                              \/ op = "read" /\ res \in {"dlp_match", "user"}
    \/ role = "hr" /\ <<op, res>> \in {<<"read", "employee">>, <<"write", "employee">>, <<"read", "report">>}
    \/ role = "dpo" /\ res \in {"user", "endpoint", "policy", "report", "employee", "dlp_match", "live_view",
                                "dsr", "legal_hold", "destruction_report", "silence", "screenshot", "screenclip"}
    \/ role = "investigator" /\ \/ op = "download" /\ res \in {"screenshot", "screenclip"}
                                \/ op = "read" /\ res \in {"report", "employee", "live_view"}
    \/ role = "auditor" /\ op = "read" /\ res \in {"audit_log", "report", "employee"}
    \/ role = "employee" /\ \/ res = "my_data"
                            \/ <<op, res>> \in {<<"request", "dsr">>, <<"read", "dlp_state">>}
    \/ role = "dlp_admin" /\ res = "dlp_state"
    \/ role \in {"admin", "manager", "hr", "dpo", "investigator", "auditor"} /\ <<op, res>> = <<"read", "dlp_state">>

\* The roles of which one is enough: Can asks for each role of the token.
Can(op, res) ==
    IF \E h \in HardRules : h[1] = op /\ h[2] = res
    THEN (CHOOSE h \in HardRules : h[1] = op /\ h[2] = res)[3]
    ELSE {r \in Roles : Granted(r, op, res)}

-----------------------------------------------------------------------------
(* The router (httpserver/server.go), group by group.  A gate of a route is    *)
(* added to those of its group, whatever its comment says.                     *)

Plain(names) == {[name |-> n, gates |-> {}] : n \in names}
Only(names, roles) == {[name |-> n, gates |-> {roles}] : n \in names}

\* Mutant: a route's own gate takes the place of its group's.
UnderOverridden(group, routes) ==
    {[name |-> r.name, gates |-> IF r.gates = {} THEN {group} ELSE r.gates] : r \in routes}

Under(group, routes) == {[name |-> r.name, gates |-> {group} \cup r.gates] : r \in routes}

Tenants == Plain({"preset"}) \cup Only({"patch_preset"}, {"admin", "it_manager"})
           \cup Only({"list", "create", "get", "update"}, {"admin"})

Users == Under({"admin", "dpo"}, Plain({"list", "create", "get", "update", "delete", "role", "disable"}))

Employees == Under(Roles \ {"employee", "dlp_admin"}, Plain({"overview", "detail"}))

Endpoints ==
    Under({"admin", "dpo"},
        Plain({"list", "enroll", "get", "delete", "revoke"})
        \cup Only({"bulk", "deactivate"}, {"admin", "it_manager"})
        \cup Only({"wipe"}, {"admin", "it_manager", "investigator"})
        \cup Only({"refresh_token", "commands"}, {"admin", "it_manager", "it_operator"}))

Policies ==
    Under({"admin"},
        Plain({"list", "create", "get", "update", "delete", "push"})
        \cup Only({"preview"}, {"admin", "manager", "dpo", "auditor"}))

Dsr ==
    Plain({"submit"})
    \cup Under({"dpo", "admin"},
        Plain({"list", "get", "assign", "respond", "extend", "reject"})
        \cup Only({"fulfill_access"}, {"dpo", "admin"}) \cup Only({"fulfill_erasure"}, {"dpo"}))

LegalHolds == Under({"dpo"}, Plain({"place", "list", "get", "release"}))

ApiKeys == Under({"admin", "dpo"}, Plain({"create", "list", "revoke"}))

Records ==
    Only({"evidence_pack"}, {"dpo"})
    \cup Only({"list_destructions", "get_destruction", "download_destruction", "generate_destruction"}, {"dpo", "admin"})

LiveViewRoutes == Plain({"request", "list", "get", "approve", "reject", "sessions", "session", "end", "terminate"})

Reports ==
    Under({"admin", "manager", "dpo", "auditor"},
        Plain({"pg", "trends"})
        \cup Under({"admin", "manager", "hr", "dpo", "investigator"},
              Plain({"ch"}) \cup Only({"risk_score"}, {"admin", "dpo", "investigator"})))

Searches ==
    Only({"audit"}, {"admin", "dpo", "investigator", "auditor"})
    \cup Only({"events"}, {"admin", "dpo", "investigator", "auditor", "manager", "hr"})
    \cup Only({"preview"}, {"admin", "manager", "hr", "dpo", "auditor", "it_manager"})

People ==
    Under(Can("read", "screenshot"), Plain({"screenshots", "screenshot_url"}))
    \cup Only({"silence", "timeline", "acknowledge_silence"}, {"admin", "manager", "dpo"})
    \cup Only({"me", "my_live_views", "my_dsr", "acknowledge"}, {"employee", "admin", "dpo"})

System ==
    Only({"dlp_state"}, Roles \ {"it_operator", "it_manager"})
    \cup Only({"dlp_bootstrap"}, {"dlp_admin"})
    \cup Only({"backup_run", "bcp_drill"}, {"admin"})
    \cup Only({"access_review", "incident_closure", "flags", "set_flag"}, {"dpo", "admin"})
    \cup Only({"evidence_coverage"}, {"dpo", "auditor"})

Kvkk ==
    Only({"verbis", "aydinlatma", "dpa", "dpia", "consents"}, {"admin", "dpo", "auditor"})
    \cup Only({"patch_verbis", "publish", "upload_dpa", "upload_dpia", "consent", "withdraw"}, {"admin", "dpo"})

Settings == Under({"admin"}, Plain({"integrations", "ca_mode", "retention", "backup_targets"}))

Pipeline ==
    Only({"dlq", "dlq_all_tenants"}, {"admin", "dpo", "investigator"})
    \cup Only({"replay", "replay_all_tenants"}, {"admin", "dpo"})

Mobile ==
    Under({"admin", "manager", "hr", "dpo", "investigator", "auditor"},
        Plain({"summary", "push_tokens", "pending", "dsr_queue", "silence"})
        \cup Only({"dlp_transition"}, {"dlp_admin"})
        \cup Only({"module_state"}, Roles \ {"it_operator", "it_manager"}))

Router ==
    [v1 |-> Plain({"audit_stream", "audit_stream_all_tenants", "notifications"}), tenants |-> Tenants, users |-> Users,
     employees |-> Employees, endpoints |-> Endpoints, policies |-> Policies, dsr |-> Dsr,
     api_keys |-> ApiKeys, legal_holds |-> LegalHolds, records |-> Records, live_view |-> LiveViewRoutes,
     reports |-> Reports, search |-> Searches, people |-> People, system |-> System,
     kvkk |-> Kvkk, settings |-> Settings, pipeline |-> Pipeline, mobile |-> Mobile]

Routes == UNION {{<<g, r.name>> : r \in Router[g]} : g \in DOMAIN Router}
Gates(route) == UNION {r.gates : r \in {s \in Router[route[1]] : s.name = route[2]}}

-----------------------------------------------------------------------------
(* What the handlers and services ask again. *)

PolicyChecks == [create |-> Can("write", "policy"), update |-> Can("write", "policy"),
                 delete |-> Can("delete", "policy")]

ApproverCheck == {"it_manager", "admin"}

LiveViewChecks == [request |-> Can("request", "live_view"), approve |-> ApproverCheck,
                   reject |-> ApproverCheck, terminate |-> {"admin", "it_manager", "dpo"}]

HoldChecks == [place |-> {"dpo"}, release |-> {"dpo"}]

RecordChecks == [download_destruction |-> {"dpo"}]

ReportChecks == [trends |-> {"admin", "manager", "hr", "dpo"}]

PipelineChecks == [dlq_all_tenants |-> {"dpo"}, replay_all_tenants |-> {"dpo"}]

StreamChecks == [audit_stream |-> {"admin", "dpo", "investigator", "auditor"},
                 audit_stream_all_tenants |-> {"dpo"}]

Checks(route) ==
    LET of == [policies |-> PolicyChecks, live_view |-> LiveViewChecks, legal_holds |-> HoldChecks,
               records |-> RecordChecks, reports |-> ReportChecks, pipeline |-> PipelineChecks,
               v1 |-> StreamChecks, people |-> [screenshot_url |-> Can("read", "screenshot")]]
    IN  IF route[1] \in DOMAIN of /\ route[2] \in DOMAIN of[route[1]]
        THEN {of[route[1]][route[2]]} ELSE {}

\* RequireRole, RequireCan: one role of the token is enough at each gate.
Admits(gate, roles) == gate \cap roles # {}

Served(route, roles) ==
    \A gate \in Gates(route) \cup Checks(route) : Admits(gate, roles)

-----------------------------------------------------------------------------
(* Keycloak, the person and the clock. *)

AccessInit ==
    /\ granted \in Held
    /\ taken = {}
    /\ bearer = NoBearer
    /\ call = NoCall
    /\ changes = 0

\* Keycloak signs a token of the roles the person has at this moment.
Issue ==
    /\ bearer' = [roles |-> granted, left |-> Life]
    /\ bearer # bearer'
    /\ UNCHANGED <<granted, taken, call, changes>>

Give(r) ==
    /\ changes < MaxChanges
    /\ r \notin granted
    /\ granted' = granted \cup {r}
    /\ changes' = changes + 1
    /\ UNCHANGED <<taken, bearer, call>>

Take(r) ==
    /\ changes < MaxChanges
    /\ r \in granted
    /\ granted' = granted \ {r}
    /\ taken' = taken \cup {<<r, 0>>}
    /\ changes' = changes + 1
    /\ UNCHANGED <<bearer, call>>

Tick ==
    /\ bearer # NoBearer \/ taken # {}
    /\ bearer' = IF bearer.left > 1 THEN [bearer EXCEPT !.left = @ - 1] ELSE NoBearer
    /\ taken' = {<<p[1], p[2] + 1>> : p \in {q \in taken : q[2] + 1 < Life}}
    /\ UNCHANGED <<granted, call, changes>>

\* AuthMiddleware: without a token that still verifies nothing is looked at.
\* The principal has the token's roles; nobody asks Keycloak or the users table.
VerifyRequest == IF bearer = NoBearer THEN {} ELSE ParseRoles(bearer.roles)

Request(route) ==
    /\ call = NoCall
    /\ call' = [route |-> route,
                answer |-> IF bearer = NoBearer THEN "unauthenticated"
                           ELSE IF Served(route, VerifyRequest) THEN "served" ELSE "forbidden"]
    /\ UNCHANGED <<granted, taken, bearer, changes>>

Answered ==
    /\ call # NoCall
    /\ call' = NoCall
    /\ UNCHANGED <<granted, taken, bearer, changes>>

AccessNext ==
    \/ Issue \/ Tick \/ Answered
    \/ \E r \in Roles : Give(r) \/ Take(r)
    \/ \E route \in Routes : Request(route)

AccessSpec == AccessInit /\ [][AccessNext]_accessVars

-----------------------------------------------------------------------------
(* Properties *)

\* The roles the person has, or had within the life of a token.
Lately == granted \cup {p[1] : p \in taken}

\* What a request at a route does, in the words of the matrix: every route that
\* touches a resource the matrix has (rbac.go, the constants of Resource).
Doing(op, res, group, names) == {[route |-> <<group, n>>, op |-> op, res |-> res] : n \in names}

Asks ==
    Doing("read", "user", "users", {"list", "get"})
    \cup Doing("write", "user", "users", {"create", "update", "role", "disable"})
    \cup Doing("delete", "user", "users", {"delete"})
    \cup Doing("read", "employee", "employees", {"overview", "detail"})
    \cup Doing("read", "endpoint", "endpoints", {"list", "get"})
    \cup Doing("write", "endpoint", "endpoints",
               {"enroll", "revoke", "bulk", "deactivate", "refresh_token", "commands"})
    \cup Doing("delete", "endpoint", "endpoints", {"delete", "wipe"})
    \cup Doing("read", "policy", "policies", {"list", "get", "preview"})
    \cup Doing("write", "policy", "policies", {"create", "update", "push"})
    \cup Doing("delete", "policy", "policies", {"delete"})
    \cup Doing("request", "dsr", "dsr", {"submit"})
    \cup Doing("read", "dsr", "dsr", {"list", "get"})
    \cup Doing("write", "dsr", "dsr", {"assign", "respond", "extend", "reject", "fulfill_access", "fulfill_erasure"})
    \cup Doing("read", "legal_hold", "legal_holds", {"list", "get"})
    \cup Doing("write", "legal_hold", "legal_holds", {"place"})
    \cup Doing("delete", "legal_hold", "legal_holds", {"release"})
    \cup Doing("read", "destruction_report", "records", {"list_destructions", "get_destruction"})
    \cup Doing("write", "destruction_report", "records", {"generate_destruction"})
    \cup Doing("download", "destruction_report", "records", {"download_destruction"})
    \cup Doing("request", "live_view", "live_view", {"request"})
    \cup Doing("read", "live_view", "live_view", {"list", "get", "sessions", "session"})
    \cup Doing("approve", "live_view", "live_view", {"approve"})
    \cup Doing("reject", "live_view", "live_view", {"reject"})
    \cup Doing("terminate", "live_view", "live_view", {"end", "terminate"})
    \cup Doing("read", "report", "reports", {"pg", "trends", "ch", "risk_score"})
    \cup Doing("read", "report", "search", {"preview"})
    \cup Doing("read", "audit_log", "search", {"audit"})
    \cup Doing("read", "audit_log", "v1", {"audit_stream", "audit_stream_all_tenants"})
    \cup Doing("read", "screenshot", "people", {"screenshots", "screenshot_url"})
    \cup Doing("read", "silence", "people", {"silence", "timeline"})
    \cup Doing("write", "silence", "people", {"acknowledge_silence"})
    \cup Doing("read", "my_data", "people", {"me", "my_live_views"})
    \cup Doing("write", "my_data", "people", {"acknowledge"})
    \cup Doing("request", "dsr", "people", {"my_dsr"})
    \cup Doing("read", "dlp_state", "system", {"dlp_state"})
    \cup Doing("write", "dlp_state", "system", {"dlp_bootstrap"})
    \cup Doing("read", "live_view", "mobile", {"pending"})
    \cup Doing("read", "dsr", "mobile", {"dsr_queue"})
    \cup Doing("read", "silence", "mobile", {"silence"})
    \cup Doing("read", "dlp_state", "mobile", {"module_state"})
    \cup Doing("write", "dlp_state", "mobile", {"dlp_transition"})

\* The routes the code serves more widely than the matrix has it, and to whom.
\* /search/audit (server.go:533) and the stream (stream_handler.go:254); /dsr but
\* for the erasure (server.go:360, ADR 0026); /destruction-reports (server.go:426);
\* /silence (server.go:580); /me (server.go:590); /mobile (server.go:755).
Widened == {
    [routes |-> {<<"search", "audit">>, <<"v1", "audit_stream">>}, roles |-> {"admin", "investigator"}],
    [routes |-> {"dsr"} \X {"list", "get", "assign", "respond", "extend", "reject", "fulfill_access"}, roles |-> {"admin"}],
    [routes |-> {"records"} \X {"list_destructions", "get_destruction", "generate_destruction"}, roles |-> {"admin"}],
    [routes |-> {<<"people", "acknowledge_silence">>}, roles |-> {"admin", "manager"}],
    [routes |-> {"people"} \X {"me", "my_live_views", "acknowledge"}, roles |-> {"admin", "dpo"}],
    [routes |-> {<<"people", "my_dsr">>}, roles |-> {"admin"}],
    [routes |-> {<<"mobile", "pending">>}, roles |-> {"hr", "auditor"}],
    [routes |-> {<<"mobile", "dsr_queue">>}, roles |-> {"admin", "manager", "hr", "investigator", "auditor"}],
    [routes |-> {<<"mobile", "silence">>}, roles |-> {"hr", "investigator", "auditor"}]}

Wider(route) == UNION {w.roles : w \in {x \in Widened : route \in x.routes}}

\* Served to whoever is signed in, with no gate and no check: /dsr (server.go:355)
\* and five routes of /live-view (server.go:440-460, liveview/service.go:348).
Unguarded == {<<"dsr", "submit">>} \cup {"live_view"} \X {"list", "get", "sessions", "session", "end"}

\* Routes without a resource in the matrix that the documents reserve for the DPO.
DpoOnly == {<<"records", "evidence_pack">>, <<"pipeline", "dlq_all_tenants">>,
            <<"pipeline", "replay_all_tenants">>, <<"v1", "audit_stream_all_tenants">>}

\* Every route that is reserved, and for whom.
Reserved ==
    {<<a.route, Can(a.op, a.res) \cup Wider(a.route)>> : a \in {x \in Asks : x.route \notin Unguarded}}
    \cup DpoOnly \X {{"dpo"}}

\* The named exceptions are real: each of them is served, and the matrix says no.
ExceptionsReal ==
    /\ \A route \in Unguarded : Served(route, {})
    /\ \A a \in Asks : \A r \in Wider(a.route) : Served(a.route, {r}) /\ r \notin Can(a.op, a.res)
    /\ \A w \in Widened : w.routes \subseteq {a.route : a \in Asks}

\* Whoever is served where something is reserved has a role the matrix grants it to
\* (auth/rbac.go Can) or that a named exception lets in, or had one while a token
\* of theirs could still be good: every path through the groups, the routes' own
\* gates and the services' checks keeps it, and the snapshot in a token ages out.
ReservedKept ==
    [][call' # call /\ call'.answer = "served"
          => \A r \in Reserved : r[1] = call'.route => r[2] \cap Lately # {}]_accessVars
=============================================================================
