------------------------------- MODULE Portal -------------------------------
(***************************************************************************)
(* Signing in and the Setup page: the OAuth handlers with their signed     *)
(* state and session cookies, first login and its key, dev-login, the      *)
(* Setup forms with their CSRF tokens, and the replicas that seed the      *)
(* development key as they boot.  A browser may have several tabs open; a  *)
(* statement of the control plane may fail, and a commit or a response may *)
(* be lost.  The deployment is "oidc" (providers, one stable session key;  *)
(* it starts seeded, its replicas up) or "dev" (dev-login, a fresh session *)
(* key per boot; its replicas seed as they boot).                          *)
(***************************************************************************)
EXTENDS ControlStore

CONSTANTS
    Browsers, Replicas,
    ProviderOf,     \* the provider of each subject
    CanUse,         \* the subjects each browser's person signs in as
    MaxFlows, MaxBoots,
    MaxKeys         \* of each kind of deployment

\* No provider's subject looks like dev-login's.
ASSUME PortalAssumption == CanUse \in [Browsers -> SUBSET Subjects] /\ DevSub \notin Subjects

VARIABLES
    mode,       \* "oidc" or "dev"
    replica,    \* per replica: [pc, org, signer]; org is the seeded tenant once up
    state,      \* per browser, the state cookie: {} or {[prov, state]}
    session,    \* per browser, the session cookie: {} or {[sub, org, signer]}
    page,       \* per browser, the Setup page it shows: {} or {[tenant, signer, connected]}
    flows,      \* consents given, each with an unused code: [by, prov, state, sub]
    req,        \* per browser, the callback being handled: [pc, sub, org]
    started, boots,     \* counters
    raced       \* emails, and DevOrg, whose creation two requests overlapped in (history)

webVars == <<mode, replica, state, session, page, flows, req, started, boots, raced>>
vars == <<storeVars, webVars>>

Idle == [pc |-> "idle", sub |-> DevSub, org |-> 0]
Down == [pc |-> "down", org |-> 0, signer |-> 0]

Init ==
    /\ mode \in {"oidc", "dev"}
    /\ members = {} /\ sources = {}
    /\ IF mode = "oidc"
       THEN /\ orgs = <<DevOrg>> /\ keys = <<[org |-> 1, revoked |-> FALSE, dev |-> TRUE]>>
            /\ replica = [n \in Replicas |-> [pc |-> "up", org |-> 1, signer |-> 0]]
       ELSE orgs = <<>> /\ keys = <<>> /\ replica = [n \in Replicas |-> Down]
    /\ state = [b \in Browsers |-> {}] /\ session = [b \in Browsers |-> {}] /\ page = [b \in Browsers |-> {}]
    /\ flows = {} /\ req = [b \in Browsers |-> Idle]
    /\ started = 0 /\ boots = 0 /\ raced = {}
-----------------------------------------------------------------------------
(* handleStart: a fresh state in the cookie, and the consent screen, where *)
(* the person agrees as one of their identities.                           *)
Start(b, sub) ==
    /\ mode = "oidc" /\ started < MaxFlows
    /\ started' = started + 1
    /\ state' = [state EXCEPT ![b] = {[prov |-> ProviderOf[sub], state |-> started']}]
    /\ flows' = flows \cup {[by |-> b, prov |-> ProviderOf[sub], state |-> started', sub |-> sub]}
    /\ UNCHANGED <<storeVars, mode, replica, session, page, req, boots, raced>>

\* Mutant: the state parameter is not compared with the cookie.
StateMatchesProvider(b, f) == \E c \in state[b] : c.prov = f.prov

\* resolveIdentity: the cookie names this provider and this state
StateMatches(b, f) == \E c \in state[b] : c.prov = f.prov /\ c.state = f.state

(* resolveIdentity for a callback URL opened in b.  The exchange uses up   *)
(* the code, whatever it answers.  The state cookie stays: clearCookie is  *)
(* deferred past the response's header.                                    *)
Callback(b, f, ok) ==
    /\ req[b].pc = "idle" /\ StateMatches(b, f)
    /\ flows' = flows \ {f}
    /\ req' = IF ok THEN [req EXCEPT ![b] = [pc |-> "lookup", sub |-> f.sub, org |-> 0]] ELSE req
    /\ UNCHANGED <<storeVars, mode, replica, state, session, page, started, boots, raced>>

SignIn(b, sub, org, signer) ==
    session' = [session EXCEPT ![b] = {[sub |-> sub, org |-> org, signer |-> signer]}]

\* Mutant: the member is looked up by email.
RepeatLoginByEmail(sub) == {m \in members : SameEmail(m.sub, sub)}

RepeatLogin(sub) == Member(sub)

(* upsertMemberFromOIDC: a repeat login starts a session. *)
Lookup(b) ==
    /\ req[b].pc = "lookup"
    /\ IF RepeatLogin(req[b].sub) = {}
       THEN req' = [req EXCEPT ![b].pc = "link"] /\ UNCHANGED session
       ELSE /\ \E m \in RepeatLogin(req[b].sub) : SignIn(b, req[b].sub, m.org, 0)
            /\ req' = [req EXCEPT ![b] = Idle]
    /\ UNCHANGED <<storeVars, mode, replica, state, page, flows, started, boots, raced>>

(* firstLoginOrLink: the lookup of an organisation to link to. *)
Link(b) ==
    /\ req[b].pc = "link"
    /\ req' = [req EXCEPT ![b].pc = "insert", ![b].org = LinkTarget(req[b].sub)]
    /\ raced' = IF \E c \in Browsers : /\ req[c].pc = "insert" /\ req[c].org = 0
                                       /\ Lower[Of(req[c].sub)] = Lower[Of(req[b].sub)]
                THEN raced \cup {Lower[Of(req[b].sub)]} ELSE raced
    /\ UNCHANGED <<storeVars, mode, replica, state, session, page, flows, started, boots>>

(* firstLoginOrLink: the inserts and the commit, whose answer may be lost; *)
(* handleCallback: a session, and for a new organisation its first key.    *)
Insert(b, answered) ==
    LET sub == req[b].sub  new == req[b].org = 0  refused == Member(sub) # {}
    IN /\ req[b].pc = "insert"
       /\ Inserted(sub, req[b].org)
       /\ IF refused \/ ~answered \/ ~new
          THEN req' = [req EXCEPT ![b] = Idle]
          ELSE req' = [req EXCEPT ![b].pc = "key", ![b].org = Len(orgs')]
       /\ IF ~refused /\ answered /\ ~new THEN SignIn(b, sub, req[b].org, 0) ELSE UNCHANGED session
       /\ UNCHANGED <<keys, sources, mode, replica, state, page, flows, started, boots, raced>>

(* renderKeyInterstitial: the key may fail to issue, and the response with *)
(* the token and the session may be lost.                                  *)
FirstKey(b, issued, arrives) ==
    /\ req[b].pc = "key" /\ (issued => Len(keys) < MaxKeys[mode])
    /\ IF issued THEN IssueKey(req[b].org) ELSE UNCHANGED keys
    /\ IF arrives THEN SignIn(b, req[b].sub, req[b].org, 0) ELSE UNCHANGED session
    /\ req' = [req EXCEPT ![b] = Idle]
    /\ UNCHANGED <<orgs, members, sources, mode, replica, state, page, flows, started, boots, raced>>

\* A statement fails and the transaction is rolled back.
Fails(b) ==
    /\ req[b].pc \in {"lookup", "link", "insert"}
    /\ IF req[b].pc = "insert" THEN RolledBack(req[b].sub, req[b].org) ELSE UNCHANGED orgs
    /\ req' = [req EXCEPT ![b] = Idle]
    /\ UNCHANGED <<members, keys, sources, mode, replica, state, session, page, flows, started, boots, raced>>

\* handleLogout, and the cookie's MaxAge and Exp
Logout(b) ==
    /\ session[b] # {} /\ session' = [session EXCEPT ![b] = {}]
    /\ UNCHANGED <<storeVars, mode, replica, state, page, flows, req, started, boots, raced>>
-----------------------------------------------------------------------------
\* Middleware, resolveTenant: replica n verifies b's session
Authentic(b, n) == replica[n].pc = "up" /\ \E s \in session[b] : s.signer = replica[n].signer
Tenant(b) == (CHOOSE s \in session[b] : TRUE).org

\* renderSetup: the token of its forms, and the onboarding state
Rendered(b, n) ==
    page' = [page EXCEPT ![b] = {[tenant |-> Tenant(b), signer |-> replica[n].signer,
                                  connected |-> Connected(Tenant(b))]}]

(* serveSetup *)
LoadSetup(b, n) ==
    /\ Authentic(b, n)
    /\ Rendered(b, n)
    /\ UNCHANGED <<storeVars, mode, replica, state, session, flows, req, started, boots, raced>>

\* Mutant: the token is not bound to a tenant.
VerifiesAny(b, n) == \E p \in page[b] : p.signer = replica[n].signer

\* checkCSRF: the form's token is signed with this key for the session's tenant
Verifies(b, n) == \E p \in page[b] : p.signer = replica[n].signer /\ p.tenant = Tenant(b)

(* serveCreateKey; the answer is the page again, with the new token. *)
CreateKey(b, n) ==
    /\ Authentic(b, n) /\ Verifies(b, n) /\ Len(keys) < MaxKeys[mode]
    /\ IssueKey(Tenant(b))
    /\ Rendered(b, n)
    /\ UNCHANGED <<orgs, members, sources, mode, replica, state, session, flows, req, started, boots, raced>>

(* serveRevokeKey for a key of the page; the answer redirects to Setup. *)
RevokeListed(b, n) ==
    /\ Authentic(b, n) /\ Verifies(b, n)
    /\ \E p \in page[b] : \E k \in ListKeys(p.tenant) : ~keys[k].revoked /\ RevokeKey(Tenant(b), k)
    /\ Rendered(b, n)
    /\ UNCHANGED <<orgs, members, sources, mode, replica, state, session, flows, req, started, boots, raced>>

(* ingest Register with an active key: RecordHandshake's failure is only   *)
(* logged.                                                                 *)
Register(k) ==
    /\ ~keys[k].revoked /\ ~Connected(keys[k].org)
    /\ RecordHandshake(keys[k].org)
    /\ UNCHANGED <<orgs, members, keys, webVars>>
-----------------------------------------------------------------------------
Goto(n, pc) == replica' = [replica EXCEPT ![n].pc = pc]

(* buildIngestWiring: EnsureDevKey, first the key ... *)
Boot(n) ==
    /\ mode = "dev" /\ replica[n].pc = "down" /\ boots < MaxBoots
    /\ boots' = boots + 1
    /\ replica' = [replica EXCEPT ![n] =
            IF DevKey # {} THEN [pc |-> "up", org |-> keys[CHOOSE k \in DevKey : TRUE].org, signer |-> boots']
            ELSE [pc |-> "org", org |-> 0, signer |-> boots']]
    /\ UNCHANGED <<storeVars, mode, state, session, page, flows, req, started, raced>>

\* Mutant: every seeding makes an organisation of its own.
ReusableNone == {}

Reusable == DevOrgs

\* ... then an organisation of that name ...
FindOrg(n) ==
    /\ replica[n].pc = "org"
    /\ IF Reusable = {} THEN Goto(n, "create")
       ELSE \E o \in Reusable : replica' = [replica EXCEPT ![n].pc = "key", ![n].org = o]
    /\ raced' = IF \E p \in Replicas \ {n} : replica[p].pc = "create" THEN raced \cup {DevOrg} ELSE raced
    /\ UNCHANGED <<storeVars, mode, state, session, page, flows, req, started, boots>>

CreateOrg(n) ==
    /\ replica[n].pc = "create"
    /\ InsertDevOrg
    /\ replica' = [replica EXCEPT ![n].pc = "key", ![n].org = Len(orgs')]
    /\ UNCHANGED <<members, keys, sources, mode, state, session, page, flows, req, started, boots, raced>>

\* Mutant: a conflicting insert is taken for success.
SeededAnyway(n) == replica' = [replica EXCEPT ![n].pc = "up"]

\* The insert conflicts with another replica's, and the start fails.
Seeded(n) == replica' = [replica EXCEPT ![n] = IF DevKey = {} THEN [@ EXCEPT !.pc = "up"] ELSE Down]

(* ... and the key, whose hash is unique. *)
CreateDevKey(n) ==
    /\ replica[n].pc = "key"
    /\ IF DevKey = {} THEN InsertDevKey(replica[n].org) ELSE UNCHANGED keys
    /\ Seeded(n)
    /\ UNCHANGED <<orgs, members, sources, mode, state, session, page, flows, req, started, boots, raced>>

\* A replica stops, or its start fails, between any two statements.
Stop(n) ==
    /\ mode = "dev" /\ replica[n].pc # "down"
    /\ replica' = [replica EXCEPT ![n] = Down]
    /\ UNCHANGED <<storeVars, mode, state, session, page, flows, req, started, boots, raced>>

(* handleDevLogin, devOrgAdmin: any organisation of that name; the member  *)
(* is made on the first login.                                             *)
DevLogin(b, n) ==
    /\ mode = "dev" /\ replica[n].pc = "up" /\ session[b] = {}
    /\ \E o \in DevOrgs : Inserted(DevSub, o) /\ SignIn(b, DevSub, o, replica[n].signer)
    /\ UNCHANGED <<keys, sources, mode, replica, state, page, flows, req, started, boots, raced>>

Next ==
    \/ \E b \in Browsers :
        \/ \E sub \in CanUse[b] : Start(b, sub)
        \/ \E f \in flows, ok \in BOOLEAN : Callback(b, f, ok)
        \/ Lookup(b) \/ Link(b) \/ Fails(b) \/ Logout(b)
        \/ \E answered \in BOOLEAN : Insert(b, answered)
        \/ \E issued, arrives \in BOOLEAN : FirstKey(b, issued, arrives)
        \/ \E n \in Replicas : LoadSetup(b, n) \/ CreateKey(b, n) \/ RevokeListed(b, n) \/ DevLogin(b, n)
    \/ \E k \in DOMAIN keys : Register(k)
    \/ \E n \in Replicas : Boot(n) \/ FindOrg(n) \/ CreateOrg(n) \/ CreateDevKey(n) \/ Stop(n)

Spec == Init /\ [][Next]_vars
-----------------------------------------------------------------------------
(* "creates, atomically in one transaction, an org and an admin member in  *)
(* it": a first login that fails, conflicts or loses its answer leaves no  *)
(* organisation nobody belongs to.                                         *)
NoOrphanOrg == \A o \in DOMAIN orgs : orgs[o] # DevOrg => \E m \in members : m.org = o

(* "a person keeps a single org/plan instead of a duplicate per provider", *)
(* however the providers spell the email, as long as the person's first    *)
(* logins do not overlap.                                                  *)
OnePersonOneOrg ==
    \A m, l \in members :
        LET email == Lower[Of(m.sub)]
        IN email = Lower[Of(l.sub)] /\ email \notin raced => m.org = l.org

(* Whatever the order of tabs and retries, a session carries the           *)
(* organisation its subject is a member of; seedings that overlap can make *)
(* two development organisations, and dev-login then picks either.         *)
SessionIsMember ==
    \A b \in Browsers : \A s \in session[b] :
        DevOrg \notin raced => [sub |-> s.sub, org |-> s.org] \in members

(* Membership survives failing statements and lost commits: every          *)
(* organisation but a seeded one has a member, and every session is a      *)
(* member's, dev-login's too unless two replicas seeded at once.           *)
MembershipHolds == NoOrphanOrg /\ SessionIsMember

(* A browser's callback goes on as a subject only through a flow started   *)
(* in that browser, as that subject, and none later: not an older tab's,   *)
(* not another browser's, whoever opens the callback URL.                  *)
LastFlowOnly ==
    [][\A b \in Browsers : req[b].pc = "idle" /\ req'[b].pc # "idle" =>
          \E f \in flows \ flows' :
             /\ f.by = b /\ f.sub = req'[b].sub
             /\ \A later \in flows : later.by = b => later.state <= f.state
             /\ \A c \in state[b] : c.state <= f.state]_vars

(* A key is issued or revoked only for an organisation whose Setup page    *)
(* somebody has open, or by its first login: a form loaded before the      *)
(* session changed hands acts on nothing.                                  *)
FormsActOnTheirTenant ==
    [][\A k \in DOMAIN keys' :
        (k \notin DOMAIN keys \/ keys'[k] # keys[k]) =>
            \/ keys'[k].dev /\ k \notin DOMAIN keys
            \/ \E b \in Browsers : \/ \E p \in page[b] : p.tenant = keys'[k].org
                                   \/ req[b].pc = "key" /\ req[b].org = keys'[k].org]_vars

(* Replicas that seed concurrently, or crash while seeding, agree on the   *)
(* tenant of the development key.                                          *)
ReplicasAgree ==
    \A n \in Replicas : mode = "dev" /\ replica[n].pc = "up" =>
        \A k \in DevKey : keys[k].org = replica[n].org

(* Dev-login shows the organisation the development key reports to, when   *)
(* no two replicas seeded it at once.                                      *)
DevSeesDevData ==
    DevOrg \notin raced =>
        \A b \in Browsers : \A s \in session[b] : s.sub = DevSub => \A k \in DevKey : keys[k].org = s.org

(* Replicas and the development key always mean one organisation, and so   *)
(* does dev-login unless two replicas seeded at once.                      *)
OneDevOrg == ReplicasAgree /\ DevSeesDevData

(* "Any failure clears the state cookie": once its callback has been       *)
(* handled a browser no longer holds the state.                            *)
StateCookieCleared ==
    [][\A b \in Browsers : \A f \in flows \ flows' : f.by = b => state'[b] = {}]_vars

(* "a person keeps a single org/plan", with no exception for overlaps.     *)
NeverTwoOrgs == \A m, l \in members : Lower[Of(m.sub)] = Lower[Of(l.sub)] => m.org = l.org
=============================================================================
