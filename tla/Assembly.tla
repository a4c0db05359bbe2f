------------------------------ MODULE Assembly ------------------------------
(* What a configuration of the server serves to whom: the composition root    *)
(* (app/assemble.go, deps.go, config.go, mountDashboard and its neighbours in *)
(* app.go), the open routes of the auth layer and the routes of the dashboard *)
(* and the documentation.  A path is the sequence of its segments; "*" in a   *)
(* pattern is a wildcard segment.                                             *)
EXTENDS Integers, Sequences, FiniteSets, SequencesExt

\* A configuration: control (is there a Postgres DSN), https, sessKey (""
\* unset, "short" or "long"), creds (per provider, which of "id" and "secret"
\* are set), home (is a public landing page wired), team (is a MemberAdmin
\* wired), const (the tenant rendered without authentication).  A session is << >> for none, or
\* <<[org, role]>> for a cookie that verifies.

Route(method, path, handler) == [method |-> method, path |-> path, handler |-> handler]

Methods == {"GET", "POST"}

Rest == "..."     \* the tail of a subtree pattern: any further segments

Matches(pattern, path) ==
    LET n == Len(pattern)
        Agree(k) == \A i \in 1 .. k : pattern[i] \in {path[i], "*"}
    IN  IF n > 0 /\ pattern[n] = Rest
        THEN Len(path) >= n - 1 /\ Agree(n - 1)
        ELSE Len(path) = n /\ Agree(n)

\* a is the more specific of two patterns that match the same path.
Specific(a, b) ==
    LET Rank(p, i) == IF p # << >> /\ Last(p) = Rest /\ i >= Len(p) THEN 0
                      ELSE IF i <= Len(p) /\ p[i] = "*" THEN 1 ELSE 2
    IN  \A i \in 1 .. Max({Len(a), Len(b)}) : Rank(a, i) >= Rank(b, i)

\* net/http.ServeMux: the most specific pattern whose method and path match;
\* none is 405 when another method would have matched and 404 otherwise.
Mux(routes, req) ==
    LET there == {r \in routes : Matches(r.path, req.path)}
        hit == {r \in there : r.method \in {"", req.method}}
    IN  IF hit # {} THEN (CHOOSE r \in hit : \A o \in hit : Specific(r.path, o.path)).handler
        ELSE IF there # {} THEN "405" ELSE "404"
-----------------------------------------------------------------------------
\* Whether the server gets a session key it may use.
sessionKey(cfg) ==
    IF cfg.sessKey # "" THEN cfg.sessKey = "long" ELSE ~cfg.https

\* resolveControlPlane and the checks of auth.New and web.NewHandler
Builds(cfg) == ~cfg.control \/ sessionKey(cfg)

authOn(cfg) == cfg.control

\* The providers with both halves of their credentials.
buildProviders(cfg) == {p \in DOMAIN cfg.creds : cfg.creds[p] = {"id", "secret"}}

\* auth.New: dev-login only when no real provider is configured.
devLogin(cfg) == buildProviders(cfg) = {}

\* Auth.Register
authRoutes(cfg) ==
    {Route("GET", <<"login">>, "loginPage"), Route("GET", <<"auth", "*", "start">>, "start"),
     Route("GET", <<"auth", "*", "callback">>, "callback"),
     Route("GET", <<"logout">>, "logout"), Route("POST", <<"logout">>, "logout")}
    \union (IF devLogin(cfg) THEN {Route("POST", <<"auth", "dev", "login">>, "devLogin")} ELSE {})

\* Handler.Register of the dashboard
webRoutes ==
    {Route("GET", <<Rest>>, "overview"), Route("GET", <<"dashboard">>, "overview"),
     Route("GET", <<"performance">>, "performance"), Route("GET", <<"setup">>, "setup"),
     Route("GET", <<"setup", "handshake">>, "handshake"),
     Route("POST", <<"setup", "keys">>, "createKey"),
     Route("POST", <<"setup", "keys", "*", "revoke">>, "revokeKey"),
     Route("POST", <<"setup", "invites">>, "createInvite"),
     Route("POST", <<"setup", "invites", "*", "revoke">>, "revokeInvite"),
     Route("POST", <<"setup", "members", "*", "remove">>, "removeMember"),
     Route("GET", <<"services", "*">>, "endpoints"),
     Route("GET", <<"services", "*", "endpoint">>, "detail"),
     Route("GET", <<"api", "series">>, "series"), Route("GET", <<"api", "histogram">>, "histogram"),
     Route("GET", <<"api", "instances">>, "instances"),
     Route("GET", <<"assets", "copy.js">>, "asset"), Route("GET", <<"assets", "handshake.js">>, "asset")}

docRoutes == {Route("GET", <<"doc">>, "doc"), Route("GET", <<"doc", "*">>, "doc")}

coreRoutes ==
    {Route("GET", <<"healthz">>, "health"),
     Route("", <<"maping.v1.IngestService", Rest>>, "ingest"), Route("", <<Rest>>, "root")}

\* Mutant: the login routes are mounted beside the dashboard's, behind the gate.
mountDashboardGated(cfg) == [outer |-> coreRoutes \union docRoutes,
                             gated |-> webRoutes \union IF authOn(cfg) THEN authRoutes(cfg) ELSE {}]

\* The outer mux and the dashboard's, which the gate wraps.
mountDashboard(cfg) == [outer |-> coreRoutes \union docRoutes \union
                                      IF authOn(cfg) THEN authRoutes(cfg) ELSE {},
                        gated |-> webRoutes]
-----------------------------------------------------------------------------
Answer(status, tenant, to) == [status |-> status, tenant |-> tenant, to |-> to]

Plain(status) == Answer(status, "", << >>)

Teams == {"createInvite", "revokeInvite", "removeMember"}

\* The tenant the dashboard renders; none for a session without an organisation.
tenantResolver(cfg, session) ==
    IF authOn(cfg) THEN (IF session = << >> THEN "" ELSE session[1].org) ELSE cfg.const

\* Mutant: the role is not asked.
teamActionAnyRole(cfg, session, csrf) ==
    IF ~(cfg.control /\ cfg.team) THEN "404" ELSE IF ~csrf THEN "403" ELSE "303"

\* teamAction after the tenant: a team store, the form's token, an admin.
teamAction(cfg, session, csrf) ==
    IF ~(cfg.control /\ cfg.team) THEN "404"
    ELSE IF ~csrf THEN "403"
    ELSE IF session = << >> \/ session[1].role # "admin" THEN "403" ELSE "303"

\* serveCreateKey and serveRevokeKey after the tenant
keyAction(cfg, handler, csrf) ==
    IF ~cfg.control THEN "404" ELSE IF ~csrf THEN "403"
    ELSE IF handler = "createKey" THEN "200" ELSE "303"

\* What the dashboard's mux answers once the gate is passed.
Dashboard(cfg, req, session, handler) ==
    LET t == tenantResolver(cfg, session)
    IN  CASE handler \in {"404", "405"} -> Plain(handler)
          [] handler = "asset" -> Plain("200")
          [] handler = "overview" /\ req.path \notin {<< >>, <<"dashboard">>} -> Plain("404")
          [] t = "" -> Plain("401")
          [] handler \in Teams -> Answer(teamAction(cfg, session, req.csrf), t, <<"setup">>)
          [] handler \in {"createKey", "revokeKey"} ->
                 Answer(keyAction(cfg, handler, req.csrf), t, <<"setup">>)
          [] OTHER -> Answer("200", t, << >>)

denyUnauthenticated(req) ==
    IF Len(req.path) > 1 /\ req.path[1] = "api" THEN Plain("401")
    ELSE Answer("303", "", <<"login">>)

\* The handlers of the auth layer, as far as routing goes.
AuthHandler(cfg, req, handler) ==
    CASE handler = "loginPage" -> Plain("200")
      [] handler = "start" -> IF req.path[2] \in buildProviders(cfg) THEN Answer("303", "", <<"consent">>)
                              ELSE Plain("404")
      [] handler = "callback" -> Plain("callback")
      [] handler = "logout" -> Answer("303", "", <<"login">>)
      [] handler = "devLogin" -> Answer("303", "", << >>)

\* The gate, with the auth routes of the mutant behind it.
Middleware(cfg, req, session) ==
    LET handler == Mux(mountDashboard(cfg).gated, req)
    IN  IF authOn(cfg) /\ session = << >> THEN denyUnauthenticated(req)
        ELSE IF handler \in {r.handler : r \in authRoutes(cfg)} THEN AuthHandler(cfg, req, handler)
        ELSE Dashboard(cfg, req, session, handler)

rootHandler(cfg, req, session) ==
    IF authOn(cfg) /\ cfg.home /\ req.path = << >> /\ session = << >> THEN Plain("home")
    ELSE Middleware(cfg, req, session)

\* assembleMux: the answer to one request.
Serve(cfg, req, session) ==
    LET handler == Mux(mountDashboard(cfg).outer, req)
    IN  CASE handler \in {"health", "ingest", "doc"} -> Plain("200")
          [] handler \in {"404", "405"} -> Plain(handler)
          [] handler = "root" -> rootHandler(cfg, req, session)
          [] OTHER -> AuthHandler(cfg, req, handler)

\* handleLoginPage: the ways in that the page offers.
loginOffers(cfg) ==
    {[method |-> "GET", path |-> <<"auth", p, "start">>, csrf |-> FALSE] : p \in buildProviders(cfg)}
    \union IF devLogin(cfg) THEN {[method |-> "POST", path |-> <<"auth", "dev", "login">>, csrf |-> FALSE]}
           ELSE {}
-----------------------------------------------------------------------------
\* A visitor is never stuck: every redirect of the server lands, for the same
\* visitor, on a page that answers, some way in is offered, every way in that is
\* offered works, and the probe, the documentation and the ingest path need no
\* session ("the page never offers an auth path the server cannot honor").
NoDeadEnd(cfg, req, session) ==
    Builds(cfg) =>
        LET a == Serve(cfg, req, session)
            Get(p) == Serve(cfg, [method |-> "GET", path |-> p, csrf |-> FALSE], session)
        IN  /\ a.status = "303" /\ a.to \notin {<<"consent">>, << >>} => Get(a.to).status = "200"
            /\ authOn(cfg) => /\ loginOffers(cfg) # {}
                              /\ \A o \in loginOffers(cfg) : Serve(cfg, o, << >>).status = "303"
                                                             /\ Serve(cfg, o, << >>).to # <<"login">>
            /\ \A p \in {<<"healthz">>, <<"doc">>} : Get(p).status = "200"

\* Nobody is served, and no form acts on, an organisation that is not theirs: a
\* tenant's answer goes to a session of that tenant, or to anyone where there is
\* no authentication at all; a team write needs an admin; the development login
\* is there only where no provider is.
OwnTenantOnly(cfg, req, session) ==
    Builds(cfg) =>
        LET a == Serve(cfg, req, session)
        IN  /\ a.tenant # "" => IF cfg.control THEN session # << >> /\ session[1].org = a.tenant
                                ELSE a.tenant = cfg.const
            /\ Mux(webRoutes, req) \in Teams /\ a.status = "303" /\ a.to = <<"setup">>
                   => session # << >> /\ session[1].role = "admin"
            /\ req.path = <<"auth", "dev", "login">> /\ req.method = "POST" /\ session = << >>
                   => (a.to = << >> /\ a.status = "303") = (cfg.control /\ buildProviders(cfg) = {})
=============================================================================
