------------------------- MODULE PortalStepProofs --------------------------
(***************************************************************************)
(* What every step of Portal keeps, for any number of browsers, replicas,  *)
(* people and providers: the inductive invariant, that it holds at the     *)
(* start, what the control plane's statements do to the rows, the types,   *)
(* and which steps each mode of the deployment has.                        *)
(***************************************************************************)
EXTENDS Portal, WellFoundedInduction, TLAPS

People    == Subjects \cup {DevSub}
Names     == {Of(s) : s \in People} \cup {DevOrg}
Providers == {ProviderOf[s] : s \in Subjects}
KeyRows   == [org : Nat, revoked : BOOLEAN, dev : BOOLEAN]
Handling  == [pc : {"idle", "lookup", "link", "insert", "key"}, sub : People, org : Nat]
Seeding   == [pc : {"down", "org", "create", "key", "up"}, org : Nat, signer : Nat]

(* The tables *)
StoreTypes ==
    /\ orgs \in Seq(Names) /\ keys \in Seq(KeyRows)
    /\ members \subseteq [sub : People, org : Nat]

(* The processes and the cookies *)
WebTypes ==
    /\ mode \in {"oidc", "dev"}
    /\ replica \in [Replicas -> Seeding] /\ req \in [Browsers -> Handling]
    /\ state \in [Browsers -> SUBSET [prov : Providers, state : Nat]]
    /\ session \in [Browsers -> SUBSET [sub : People, org : Nat, signer : Nat]]
    /\ flows \subseteq [by : Browsers, prov : Providers, state : Nat, sub : Subjects]
    /\ started \in Nat /\ boots \in Nat

(* A state is given to one flow, and a cookie holds the last one started *)
FlowsTold ==
    /\ \A f \in flows : f.state <= started
    /\ \A b \in Browsers : \A c \in state[b] :
          /\ c.state <= started
          /\ state[b] = {c}
          /\ \A f \in flows : f.state = c.state => f.by = b /\ f.prov = c.prov
          /\ \A f \in flows : f.by = b => f.state <= c.state

(* Dev-login and the providers never meet in one deployment *)
Apart ==
    /\ mode = "dev" => /\ flows = {} /\ \A b \in Browsers : req[b].pc = "idle" /\ state[b] = {}
                       /\ \A m \in members : m.sub = DevSub
                       /\ \A b \in Browsers : \A s \in session[b] : s.sub = DevSub
                       /\ \A o \in DOMAIN orgs : orgs[o] = DevOrg
    /\ mode = "oidc" => /\ \A n \in Replicas : replica[n].pc = "up"
                        /\ \A b \in Browsers : req[b].pc # "idle" => req[b].sub \in Subjects
                        /\ \A m \in members : m.sub \in Subjects
                        /\ \A b \in Browsers : \A s \in session[b] : s.sub \in Subjects
                        /\ \A o \in DOMAIN orgs : orgs[o] # DevOrg => \E m \in members : m.org = o

(* A subject is in one organisation, and what a request or a session holds *)
(* of it is still true                                                     *)
Membership ==
    /\ \A m, l \in members : m.sub = l.sub => m = l
    /\ \A m \in members : m.org \in DOMAIN orgs
    /\ \A b \in Browsers : req[b].pc = "key" => [sub |-> req[b].sub, org |-> req[b].org] \in members
    /\ \A b \in Browsers : req[b].pc = "insert" /\ req[b].org # 0 =>
          \E m \in members : m.org = req[b].org /\ SameEmail(m.sub, req[b].sub)
    /\ \A b \in Browsers : \A s \in session[b] :
          mode = "oidc" \/ DevOrg \notin raced => [sub |-> s.sub, org |-> s.org] \in members
    /\ mode = "dev" => \A b \in Browsers : \A s \in session[b] : s.org \in DOMAIN orgs

(* Two organisations for one email need two first logins at once *)
OnePerson ==
    /\ OnePersonOneOrg
    /\ \A b, c \in Browsers :
          /\ b # c /\ req[b].pc = "insert" /\ req[b].org = 0 /\ req[c].pc = "insert" /\ req[c].org = 0
          /\ SameEmail(req[b].sub, req[c].sub)
          => Lower[Of(req[b].sub)] \in raced
    /\ \A b \in Browsers : \A m \in members :
          req[b].pc = "insert" /\ req[b].org = 0 /\ SameEmail(m.sub, req[b].sub) => Lower[Of(req[b].sub)] \in raced

(* One development key, of an organisation every replica that is up reports *)
OneDev ==
    /\ \A k, l \in DevKey : k = l
    /\ mode = "dev" =>
          /\ \A k \in DevKey : keys[k].org \in DOMAIN orgs
          /\ \A n \in Replicas : replica[n].pc \in {"key", "up"} => replica[n].org \in DOMAIN orgs
          /\ \A n \in Replicas : replica[n].pc = "up" => DevKey # {} /\ \A k \in DevKey : keys[k].org = replica[n].org
    /\ mode = "dev" /\ DevOrg \notin raced =>
          /\ \A o, p \in DOMAIN orgs : o = p
          /\ \A n, p \in Replicas : replica[n].pc = "create" /\ replica[p].pc = "create" => n = p
          /\ \A n \in Replicas : replica[n].pc = "create" => DOMAIN orgs = {}

PortalInv == StoreTypes /\ WebTypes /\ FlowsTold /\ Apart /\ Membership /\ OnePerson /\ OneDev
-----------------------------------------------------------------------------
(* Every set of numbers that is not empty has a least one: the oldest      *)
(* organisation that firstLoginOrLink takes exists.                        *)
LEMMA OldestExists ==
  ASSUME NEW T \in SUBSET Nat, T # {} PROVE \E x \in T : \A y \in T : x <= y
  <1>1. PICK x \in T : \A y \in T : ~(<<y, x>> \in OpToRel(<, Nat))
    BY NatLessThanWellFounded, WFMin, Zenon
  <1>2. ASSUME NEW y \in T, y < x PROVE FALSE
    <2>1. <<y, x>> \in OpToRel(<, Nat)
      BY <1>2 DEF OpToRel
    <2> QED
      BY <1>1, <2>1, Zenon
  <1>3. \A y \in T : ~(y < x)
    BY <1>2
  <1> QED
    BY <1>3

(* handleStart's two cookies, the OAuth tables and the processes keep their *)
(* shape, from the deployment's first start.                                *)
LEMMA PortalInvInit == Init => PortalInv
  <1> SUFFICES ASSUME Init PROVE PortalInv
    OBVIOUS
  <1>1. StoreTypes
    <2>1. DevOrg \in Names /\ [org |-> 1, revoked |-> FALSE, dev |-> TRUE] \in KeyRows
      BY DEF Names, KeyRows
    <2> DEFINE k == [org |-> 1, revoked |-> FALSE, dev |-> TRUE]
    <2>2. (orgs = <<DevOrg>> /\ keys = <<k>>) \/ (orgs = <<>> /\ keys = <<>>)
      BY DEF Init
    <2>3. k \in KeyRows
      BY <2>1
    <2> HIDE DEF k
    <2>4. orgs \in Seq(Names) /\ keys \in Seq(KeyRows)
      <3>1. <<DevOrg>> \in Seq(Names)
        BY <2>1
      <3>2. <<k>> \in Seq(KeyRows)
        BY <2>3
      <3>3. << >> \in Seq(Names) /\ << >> \in Seq(KeyRows)
        OBVIOUS
      <3> QED BY <2>2, <3>1, <3>2, <3>3, Zenon
    <2> QED
      BY <2>4 DEF Init, StoreTypes
  <1>2. WebTypes
    <2>1. Idle \in Handling /\ Down \in Seeding /\ [pc |-> "up", org |-> 1, signer |-> 0] \in Seeding
      BY DEF Idle, Down, Handling, Seeding, People
    <2>2. replica \in [Replicas -> Seeding] /\ req \in [Browsers -> Handling]
      BY <2>1 DEF Init
    <2> QED
      BY <2>2 DEF Init, WebTypes
  <1>3. FlowsTold
    BY DEF Init, FlowsTold
  <1>4. Apart
    <2>1. ASSUME mode = "oidc", NEW n \in Replicas PROVE replica[n].pc = "up"
      BY <2>1 DEF Init, Down
    <2>2. mode = "oidc" => \A o \in DOMAIN orgs : orgs[o] = DevOrg
      BY DEF Init
    <2>3. mode = "dev" => DOMAIN orgs = {}
      BY DEF Init
    <2> QED
      BY <2>1, <2>2, <2>3 DEF Init, Apart, Idle
  <1>5. Membership
    BY DEF Init, Membership, Idle
  <1>6. OnePerson
    BY DEF Init, OnePerson, OnePersonOneOrg, Idle
  <1>7. OneDev
    <2>1. mode = "dev" => DevKey = {} /\ DOMAIN orgs = {}
      BY DEF Init, DevKey
    <2>3. \A k, l \in DevKey : k = l
      BY DEF Init, DevKey
    <2>2. ASSUME mode = "dev", NEW n \in Replicas PROVE replica[n].pc = "down"
      BY <2>2 DEF Init, Down
    <2> QED
      BY <2>1, <2>2, <2>3 DEF OneDev
  <1> QED
    BY <1>1, <1>2, <1>3, <1>4, <1>5, <1>6, <1>7 DEF PortalInv

(* firstLoginOrLink and devOrgAdmin: at most one row is added to the       *)
(* members and to the organisations, and none is changed.                  *)
LEMMA InsertedAdds ==
  ASSUME StoreTypes, NEW sub \in People, NEW org \in Nat, Inserted(sub, org)
  PROVE  /\ orgs' \in Seq(Names) /\ members' \subseteq [sub : People, org : Nat]
         /\ members \subseteq members' /\ DOMAIN orgs \subseteq DOMAIN orgs'
         /\ \A o \in DOMAIN orgs : orgs'[o] = orgs[o]
         /\ Member(sub) # {} => orgs' = orgs /\ members' = members
         /\ Member(sub) = {} /\ org = 0 =>
               /\ orgs' = Append(orgs, Of(sub)) /\ Len(orgs') = Len(orgs) + 1
               /\ DOMAIN orgs' = DOMAIN orgs \cup {Len(orgs')}
               /\ members' = members \cup {[sub |-> sub, org |-> Len(orgs')]}
         /\ Member(sub) = {} /\ org # 0 =>
               orgs' = orgs /\ members' = members \cup {[sub |-> sub, org |-> org]}
  <1>1. CASE Member(sub) # {}
    BY <1>1 DEF Inserted, StoreTypes
  <1>2. CASE Member(sub) = {} /\ org # 0
    BY <1>2 DEF Inserted, StoreTypes
  <1>3. CASE Member(sub) = {} /\ org = 0
    <2>1. Of(sub) \in Names /\ orgs \in Seq(Names)
      BY DEF Names, StoreTypes
    <2>2. orgs' = Append(orgs, Of(sub)) /\ members' = members \cup {[sub |-> sub, org |-> Len(orgs')]}
      BY <1>3 DEF Inserted
    <2>3. /\ orgs' \in Seq(Names) /\ Len(orgs') = Len(orgs) + 1 /\ Len(orgs) \in Nat
          /\ \A o \in DOMAIN orgs : orgs'[o] = orgs[o]
      BY <2>1, <2>2
    <2>4. DOMAIN orgs = 1 .. Len(orgs) /\ DOMAIN orgs' = 1 .. Len(orgs')
      BY <2>1, <2>3
    <2>5. DOMAIN orgs' = DOMAIN orgs \cup {Len(orgs')}
      BY <2>3, <2>4
    <2>6. members' \subseteq [sub : People, org : Nat]
      BY <2>2, <2>3 DEF StoreTypes
    <2> QED
      BY <1>3, <2>2, <2>3, <2>5, <2>6
  <1> QED
    BY <1>1, <1>2, <1>3

(* The oldest organisation to link to is one of a member with the email, *)
(* or none is.                                                           *)
LEMMA LinkTargetFound ==
  ASSUME StoreTypes, Membership, NEW sub \in People
  PROVE  /\ LinkTarget(sub) \in Nat
         /\ LinkTarget(sub) # 0 => \E m \in members : m.org = LinkTarget(sub) /\ SameEmail(m.sub, sub)
         /\ LinkTarget(sub) = 0 => \A m \in members : ~SameEmail(m.sub, sub)
  <1> DEFINE found == {m.org : m \in {m \in members : SameEmail(m.sub, sub)}}
             least == CHOOSE o \in found : \A p \in found : o <= p
  <1>0. LinkTarget(sub) = IF found = {} THEN 0 ELSE least
    BY DEF LinkTarget
  <1>1. \A m \in members : m.org \in Nat /\ m.org # 0
    <2> SUFFICES ASSUME NEW m \in members PROVE m.org \in Nat /\ m.org # 0
      OBVIOUS
    <2>0. orgs \in Seq(Names) /\ m.org \in DOMAIN orgs
      BY DEF Membership, StoreTypes
    <2>1. m.org \in 1 .. Len(orgs) /\ Len(orgs) \in Nat
      BY <2>0
    <2> QED
      BY <2>1
  <1>2. CASE found = {}
    <2>1. ASSUME NEW m \in members, SameEmail(m.sub, sub) PROVE FALSE
      <3>1. m.org \in found
        BY <2>1
      <3> QED
        BY <1>2, <3>1
    <2> QED
      BY <1>0, <1>2, <2>1
  <1>3. CASE found # {}
    <2>1. found \subseteq Nat
      BY <1>1
    <2>2. \E o \in found : \A p \in found : o <= p
      BY <2>1, <1>3, OldestExists
    <2>3. least \in found
      BY <2>2
    <2>4. PICK m \in members : SameEmail(m.sub, sub) /\ m.org = least
      BY <2>3
    <2> QED
      BY <1>0, <1>1, <1>3, <2>4
  <1> QED
    BY <1>2, <1>3

(* An INSERT adds its row after the others. *)
LEMMA RowAdded ==
  ASSUME NEW S, NEW q \in Seq(S), NEW r \in S
  PROVE  /\ Append(q, r) \in Seq(S) /\ Len(Append(q, r)) = Len(q) + 1
         /\ DOMAIN Append(q, r) = DOMAIN q \cup {Len(q) + 1} /\ Len(q) + 1 \notin DOMAIN q
         /\ \A i \in DOMAIN q : Append(q, r)[i] = q[i]
         /\ Append(q, r)[Len(q) + 1] = r
  OBVIOUS

(* An UPDATE changes its row only. *)
LEMMA RowUpdated ==
  ASSUME NEW S, NEW q \in Seq(S), NEW k \in DOMAIN q, NEW r \in S
  PROVE  /\ [q EXCEPT ![k] = r] \in Seq(S) /\ DOMAIN [q EXCEPT ![k] = r] = DOMAIN q
         /\ \A i \in DOMAIN q : [q EXCEPT ![k] = r][i] = IF i = k THEN r ELSE q[i]
  OBVIOUS

(* A session names an organisation. *)
LEMMA TenantTyped ==
  ASSUME WebTypes, NEW b \in Browsers, session[b] # {} PROVE Tenant(b) \in Nat
  <1>1. (CHOOSE s \in session[b] : TRUE) \in [sub : People, org : Nat, signer : Nat]
    BY DEF WebTypes
  <1> QED
    BY <1>1 DEF Tenant

(* A key's row is added by the seeding of the development key, or for an  *)
(* organisation in hand; one that is updated keeps its organisation.      *)
InHand(o) == \E b \in Browsers : \/ \E p \in page[b] : p.tenant = o
                                 \/ req[b].pc = "key" /\ req[b].org = o

KeyAdded(r) ==
    /\ keys' = Append(keys, r)
    /\ \/ ~r.dev /\ InHand(r.org)
       \/ r.dev /\ DevKey = {} /\ \E n \in Replicas : r.org = replica[n].org /\ CreateDevKey(n)

KeyUpdated(k, r) ==
    keys' = [keys EXCEPT ![k] = r] /\ r.org = keys[k].org /\ r.dev = keys[k].dev /\ InHand(r.org)

KeysStep ==
    \/ keys' = keys
    \/ \E r \in KeyRows : KeyAdded(r)
    \/ \E k \in DOMAIN keys, r \in KeyRows : KeyUpdated(k, r)

(* The forms, the first login and the seeding change the keys so. *)
LEMMA KeysSteps == StoreTypes /\ WebTypes /\ [Next]_vars => KeysStep
  <1> SUFFICES ASSUME StoreTypes, WebTypes, [Next]_vars PROVE KeysStep
    OBVIOUS
  <1>k. ASSUME NEW o \in Nat, NEW d \in BOOLEAN PROVE [org |-> o, revoked |-> FALSE, dev |-> d] \in KeyRows
    BY DEF KeyRows
  <1>0. ASSUME UNCHANGED keys PROVE KeysStep
    BY <1>0 DEF KeysStep
  <1>2. ASSUME NEW b \in Browsers, NEW issued \in BOOLEAN, NEW arrives \in BOOLEAN, FirstKey(b, issued, arrives)
        PROVE KeysStep
    <2> DEFINE row == [org |-> req[b].org, revoked |-> FALSE, dev |-> FALSE]
    <2>1. req[b].org \in Nat
      BY DEF WebTypes, Handling
    <2>2. keys' = keys \/ keys' = Append(keys, row)
      BY <1>2 DEF FirstKey, IssueKey
    <2>3. row \in KeyRows
      BY <2>1, <1>k
    <2>4. ~row.dev /\ InHand(row.org)
      BY <1>2 DEF FirstKey, InHand
    <2> HIDE DEF row
    <2> QED
      BY <2>2, <2>3, <2>4 DEF KeysStep, KeyAdded
  <1>3. ASSUME NEW b \in Browsers, NEW n \in Replicas, CreateKey(b, n) PROVE KeysStep
    <2> DEFINE row == [org |-> Tenant(b), revoked |-> FALSE, dev |-> FALSE]
    <2>1. Tenant(b) \in Nat
      BY <1>3, TenantTyped DEF CreateKey, Authentic
    <2>2. keys' = Append(keys, row)
      BY <1>3 DEF CreateKey, IssueKey
    <2>3. row \in KeyRows
      BY <2>1, <1>k
    <2>4. ~row.dev /\ InHand(row.org)
      BY <1>3 DEF CreateKey, Verifies, InHand
    <2> HIDE DEF row
    <2> QED
      BY <2>2, <2>3, <2>4 DEF KeysStep, KeyAdded
  <1>4. ASSUME NEW b \in Browsers, NEW n \in Replicas, RevokeListed(b, n) PROVE KeysStep
    <2>1. PICK k \in DOMAIN keys : RevokeKey(Tenant(b), k)
      BY <1>4 DEF RevokeListed, ListKeys
    <2> DEFINE row == [keys[k] EXCEPT !.revoked = TRUE]
    <2>2. keys' = keys \/ (keys[k].org = Tenant(b) /\ keys' = [keys EXCEPT ![k] = row])
      <3>1. CASE keys[k].org = Tenant(b)
        BY <2>1, <3>1, Zenon DEF RevokeKey
      <3>2. CASE ~(keys[k].org = Tenant(b))
        <4>1. keys' = keys
          BY <2>1, <3>2 DEF RevokeKey
        <4> QED
          BY <4>1, Zenon
      <3> QED
        BY <3>1, <3>2
    <2>3. keys[k] \in KeyRows
      BY <2>1 DEF StoreTypes
    <2>4. row \in KeyRows /\ row.org = keys[k].org /\ row.dev = keys[k].dev
      BY <2>3 DEF KeyRows
    <2>5. InHand(Tenant(b))
      BY <1>4 DEF RevokeListed, Verifies, InHand
    <2> HIDE DEF row
    <2> QED
      BY <2>1, <2>2, <2>4, <2>5 DEF KeysStep, KeyUpdated
  <1>7. ASSUME NEW n \in Replicas, CreateDevKey(n) PROVE KeysStep
    <2> DEFINE row == [org |-> replica[n].org, revoked |-> FALSE, dev |-> TRUE]
    <2>1. replica[n].org \in Nat
      BY DEF WebTypes, Seeding
    <2>2. keys' = keys \/ (DevKey = {} /\ keys' = Append(keys, row))
      <3>1. CASE DevKey = {}
        BY <1>7, <3>1, Zenon DEF CreateDevKey, InsertDevKey
      <3>2. CASE ~(DevKey = {})
        <4>1. keys' = keys
          BY <1>7, <3>2 DEF CreateDevKey
        <4> QED
          BY <4>1, Zenon
      <3> QED
        BY <3>1, <3>2
    <2>3. row \in KeyRows
      BY <2>1, <1>k
    <2>4. row.dev /\ row.org = replica[n].org
      OBVIOUS
    <2> HIDE DEF row
    <2> QED
      BY <1>7, <2>2, <2>3, <2>4 DEF KeysStep, KeyAdded
  <1> QED
    BY <1>0, <1>2, <1>3, <1>4, <1>7
       DEF Next, vars, storeVars, webVars, Start, Callback, Lookup, Link, Fails, Logout, Insert, LoadSetup,
           Register, Boot, FindOrg, CreateOrg, Stop, DevLogin

(* Every statement leaves rows of the tables' types. *)
LEMMA StoreTypesNext == StoreTypes /\ WebTypes /\ [Next]_vars => StoreTypes'
  <1> SUFFICES ASSUME StoreTypes, WebTypes, [Next]_vars PROVE StoreTypes'
    OBVIOUS
  <1>1. keys' \in Seq(KeyRows)
    <2>1. keys \in Seq(KeyRows)
      BY DEF StoreTypes
    <2>2. CASE \E r \in KeyRows : KeyAdded(r)
      BY <2>1, <2>2, RowAdded DEF KeyAdded
    <2>3. CASE \E k \in DOMAIN keys, r \in KeyRows : KeyUpdated(k, r)
      BY <2>1, <2>3, RowUpdated DEF KeyUpdated
    <2> QED
      BY <2>1, <2>2, <2>3, KeysSteps DEF KeysStep
  <1> DEFINE Kept == orgs' \in Seq(Names) /\ members' \subseteq [sub : People, org : Nat]
  <1>2. Kept
    <2>0. ASSUME UNCHANGED <<orgs, members>> PROVE Kept
      BY <2>0 DEF StoreTypes
    <2>1. ASSUME NEW b \in Browsers, NEW answered \in BOOLEAN, Insert(b, answered) PROVE Kept
      <3>1. req[b].sub \in People /\ req[b].org \in Nat
        BY DEF WebTypes, Handling
      <3>2. Inserted(req[b].sub, req[b].org)
        BY <2>1 DEF Insert
      <3> QED
        BY <3>1, <3>2, InsertedAdds
    <2>2. ASSUME NEW b \in Browsers, NEW n \in Replicas, DevLogin(b, n) PROVE Kept
      <3>1. PICK o \in DevOrgs : Inserted(DevSub, o)
        BY <2>2 DEF DevLogin
      <3>2. o \in Nat /\ DevSub \in People
        BY <3>1 DEF DevOrgs, StoreTypes, People
      <3> QED
        BY <3>1, <3>2, InsertedAdds
    <2>3. ASSUME NEW n \in Replicas, CreateOrg(n) PROVE Kept
      BY <2>3 DEF CreateOrg, InsertDevOrg, StoreTypes, Names
    <2> QED
      BY <2>0, <2>1, <2>2, <2>3
         DEF Next, vars, storeVars, webVars, Start, Callback, Lookup, Link, Fails, RolledBack, Logout, FirstKey,
             LoadSetup, CreateKey, RevokeListed, Register, Boot, FindOrg, CreateDevKey, Stop
  <1> QED
    BY <1>1, <1>2 DEF StoreTypes

(* What a request may become: handled, or one step further. *)
LEMMA RequestTyped ==
  ASSUME WebTypes, NEW b \in Browsers, NEW r \in Handling PROVE [req EXCEPT ![b] = r] \in [Browsers -> Handling]
  BY DEF WebTypes

(* The same of a replica. *)
LEMMA ReplicaTyped ==
  ASSUME WebTypes, NEW n \in Replicas, NEW r \in Seeding PROVE [replica EXCEPT ![n] = r] \in [Replicas -> Seeding]
  BY DEF WebTypes

(* The handlers of a callback leave a request and a session well formed. *)
LEMMA RequestsNext == StoreTypes /\ WebTypes /\ Membership /\ [Next]_vars => req' \in [Browsers -> Handling]
  <1> SUFFICES ASSUME StoreTypes, WebTypes, Membership, [Next]_vars PROVE req' \in [Browsers -> Handling]
    OBVIOUS
  <1>0. ASSUME UNCHANGED req PROVE req' \in [Browsers -> Handling]
    BY <1>0 DEF WebTypes
  <1>i. Idle \in Handling
    BY DEF Idle, Handling, People
  <1>r. \A b \in Browsers : req[b] \in Handling
    BY DEF WebTypes
  <1>1. ASSUME NEW b \in Browsers, NEW f \in flows, NEW ok \in BOOLEAN, Callback(b, f, ok)
        PROVE req' \in [Browsers -> Handling]
    <2> DEFINE r == [pc |-> "lookup", sub |-> f.sub, org |-> 0]
    <2>1. r \in Handling
      BY DEF Handling, WebTypes, People
    <2>2. req' = req \/ req' = [req EXCEPT ![b] = r]
      BY <1>1 DEF Callback
    <2> HIDE DEF r
    <2> QED
      BY <1>0, <2>1, <2>2, RequestTyped
  <1>2. ASSUME NEW b \in Browsers, Lookup(b) PROVE req' \in [Browsers -> Handling]
    <2> DEFINE r == [req[b] EXCEPT !.pc = "link"]
    <2>1. r \in Handling
      BY <1>r DEF Handling
    <2>2. req' = [req EXCEPT ![b] = r] \/ req' = [req EXCEPT ![b] = Idle]
      BY <1>2 DEF Lookup
    <2> HIDE DEF r
    <2> QED
      BY <1>i, <2>1, <2>2, RequestTyped
  <1>3. ASSUME NEW b \in Browsers, Link(b) PROVE req' \in [Browsers -> Handling]
    <2> DEFINE r == [req[b] EXCEPT !.pc = "insert", !.org = LinkTarget(req[b].sub)]
    <2>1. LinkTarget(req[b].sub) \in Nat
      BY <1>r, LinkTargetFound DEF Handling
    <2>2. r \in Handling
      BY <1>r, <2>1 DEF Handling
    <2>3. req' = [req EXCEPT ![b] = r]
      BY <1>3, Zenon DEF Link
    <2> HIDE DEF r
    <2> QED
      BY <2>2, <2>3, RequestTyped
  <1>4. ASSUME NEW b \in Browsers, NEW answered \in BOOLEAN, Insert(b, answered)
        PROVE req' \in [Browsers -> Handling]
    <2> DEFINE r == [req[b] EXCEPT !.pc = "key", !.org = Len(orgs')]
    <2>1. Len(orgs') \in Nat
      BY StoreTypesNext DEF StoreTypes
    <2>2. r \in Handling
      BY <1>r, <2>1 DEF Handling
    <2>3. req' = [req EXCEPT ![b] = r] \/ req' = [req EXCEPT ![b] = Idle]
      BY <1>4, Zenon DEF Insert
    <2> HIDE DEF r
    <2> QED
      BY <1>i, <2>2, <2>3, RequestTyped
  <1>5. ASSUME NEW b \in Browsers, req' = [req EXCEPT ![b] = Idle] PROVE req' \in [Browsers -> Handling]
    BY <1>5, <1>i, RequestTyped
  <1> QED
    BY <1>0, <1>1, <1>2, <1>3, <1>4, <1>5
       DEF Next, vars, storeVars, webVars, Start, Fails, FirstKey, Logout, LoadSetup, CreateKey, RevokeListed,
           DevLogin, Register, Boot, FindOrg, CreateOrg, CreateDevKey, Stop

(* A replica that seeds stays well formed. *)
LEMMA ReplicasNext == StoreTypes /\ WebTypes /\ [Next]_vars => replica' \in [Replicas -> Seeding]
  <1> SUFFICES ASSUME StoreTypes, WebTypes, [Next]_vars PROVE replica' \in [Replicas -> Seeding]
    OBVIOUS
  <1>0. ASSUME UNCHANGED replica PROVE replica' \in [Replicas -> Seeding]
    BY <1>0 DEF WebTypes
  <1>d. Down \in Seeding
    BY DEF Down, Seeding
  <1>r. \A n \in Replicas : replica[n] \in Seeding
    BY DEF WebTypes
  <1>p. ASSUME NEW n \in Replicas, NEW p \in {"create", "up"} PROVE [replica[n] EXCEPT !.pc = p] \in Seeding
    BY <1>r DEF Seeding
  <1>o. ASSUME NEW n \in Replicas, NEW o \in Nat PROVE [replica[n] EXCEPT !.pc = "key", !.org = o] \in Seeding
    BY <1>r DEF Seeding
  <1>1. ASSUME NEW n \in Replicas, Boot(n) PROVE replica' \in [Replicas -> Seeding]
    <2> DEFINE r == IF DevKey # {} THEN [pc |-> "up", org |-> keys[CHOOSE k \in DevKey : TRUE].org, signer |-> boots']
                    ELSE [pc |-> "org", org |-> 0, signer |-> boots']
    <2>1. boots' \in Nat
      BY <1>1 DEF Boot, WebTypes
    <2>2. ASSUME DevKey # {} PROVE keys[CHOOSE k \in DevKey : TRUE].org \in Nat
      <3>1. (CHOOSE k \in DevKey : TRUE) \in DOMAIN keys
        BY <2>2 DEF DevKey
      <3>2. keys \in Seq(KeyRows)
        BY DEF StoreTypes
      <3>3. \A k \in DOMAIN keys : keys[k] \in KeyRows
        BY <3>2
      <3> QED
        BY <3>1, <3>3 DEF KeyRows
    <2>3. r \in Seeding
      BY <2>1, <2>2 DEF Seeding
    <2>4. replica' = [replica EXCEPT ![n] = r]
      BY <1>1, Zenon DEF Boot
    <2> HIDE DEF r
    <2> QED
      BY <2>3, <2>4, ReplicaTyped
  <1>2. ASSUME NEW n \in Replicas, FindOrg(n) PROVE replica' \in [Replicas -> Seeding]
    <2>1. CASE Reusable = {}
      <3>1. replica' = [replica EXCEPT ![n].pc = "create"]
        BY <1>2, <2>1 DEF FindOrg, Goto
      <3> QED
        BY <3>1, <1>p, ReplicaTyped
    <2>2. CASE Reusable # {}
      <3>1. PICK o \in Reusable : replica' = [replica EXCEPT ![n] = [replica[n] EXCEPT !.pc = "key", !.org = o]]
        BY <1>2, <2>2, Zenon DEF FindOrg
      <3>2. o \in Nat
        BY DEF Reusable, DevOrgs, StoreTypes
      <3> QED
        BY <3>1, <3>2, <1>o, ReplicaTyped, Zenon
    <2> QED
      BY <2>1, <2>2
  <1>3. ASSUME NEW n \in Replicas, CreateOrg(n) PROVE replica' \in [Replicas -> Seeding]
    <2>1. Len(orgs') \in Nat
      BY StoreTypesNext DEF StoreTypes
    <2>2. replica' = [replica EXCEPT ![n] = [replica[n] EXCEPT !.pc = "key", !.org = Len(orgs')]]
      BY <1>3, Zenon DEF CreateOrg
    <2> QED
      BY <2>1, <2>2, <1>o, ReplicaTyped, Zenon
  <1>4. ASSUME NEW n \in Replicas, CreateDevKey(n) PROVE replica' \in [Replicas -> Seeding]
    <2>1. replica' = [replica EXCEPT ![n] = Down] \/ replica' = [replica EXCEPT ![n] = [replica[n] EXCEPT !.pc = "up"]]
      BY <1>4, Zenon DEF CreateDevKey, Seeded
    <2> QED
      BY <2>1, <1>d, <1>p, ReplicaTyped
  <1>5. ASSUME NEW n \in Replicas, Stop(n) PROVE replica' \in [Replicas -> Seeding]
    BY <1>5, <1>d, ReplicaTyped DEF Stop
  <1> QED
    BY <1>0, <1>1, <1>2, <1>3, <1>4, <1>5
       DEF Next, vars, storeVars, webVars, Start, Callback, Lookup, Link, Insert, Fails, FirstKey, Logout,
           LoadSetup, CreateKey, RevokeListed, DevLogin, Register

(* The cookies, the consents and the processes keep their types. *)
LEMMA WebTypesNext == StoreTypes /\ WebTypes /\ Membership /\ [Next]_vars => WebTypes'
  <1> SUFFICES ASSUME StoreTypes, WebTypes, Membership, [Next]_vars PROVE WebTypes'
    OBVIOUS
  <1> DEFINE Sessions == SUBSET [sub : People, org : Nat, signer : Nat]
             Cookies  == /\ state' \in [Browsers -> SUBSET [prov : Providers, state : Nat]]
                         /\ flows' \subseteq [by : Browsers, prov : Providers, state : Nat, sub : Subjects]
                         /\ started' \in Nat
             Signed   == session' \in [Browsers -> Sessions]
  <1>1. Cookies
    <2>0. ASSUME UNCHANGED <<state, flows, started>> PROVE Cookies
      BY <2>0 DEF WebTypes
    <2>1. ASSUME NEW b \in Browsers, NEW sub \in CanUse[b], Start(b, sub) PROVE Cookies
      <3>1. sub \in Subjects /\ ProviderOf[sub] \in Providers /\ started' \in Nat
        <4>1. CanUse[b] \subseteq Subjects
          BY PortalAssumption
        <4> QED
          BY <2>1, <4>1 DEF Start, WebTypes, Providers
      <3>2. {[prov |-> ProviderOf[sub], state |-> started']} \in SUBSET [prov : Providers, state : Nat]
        BY <3>1
      <3> DEFINE c == {[prov |-> ProviderOf[sub], state |-> started']}
                 C == SUBSET [prov : Providers, state : Nat]
      <3>4. state' = [state EXCEPT ![b] = c] /\ c \in C /\ state \in [Browsers -> C]
        BY <2>1, <3>2, Zenon DEF Start, WebTypes
      <3> HIDE DEF c, C
      <3>5. state' \in [Browsers -> C]
        BY <3>4
      <3>3. state' \in [Browsers -> SUBSET [prov : Providers, state : Nat]]
        BY <3>5 DEF C
      <3> QED
        BY <2>1, <3>1, <3>3 DEF Start, WebTypes
    <2>2. ASSUME NEW b \in Browsers, NEW f \in flows, NEW ok \in BOOLEAN, Callback(b, f, ok) PROVE Cookies
      BY <2>2 DEF Callback, WebTypes
    <2> QED
      BY <2>0, <2>1, <2>2
         DEF Next, vars, storeVars, webVars, Lookup, Link, Insert, Fails, FirstKey, Logout, LoadSetup, CreateKey,
             RevokeListed, DevLogin, Register, Boot, FindOrg, CreateOrg, CreateDevKey, Stop
  <1>2. Signed
    <2>0. ASSUME UNCHANGED session PROVE Signed
      BY <2>0 DEF WebTypes
    <2>s. ASSUME NEW b \in Browsers, NEW sub \in People, NEW org \in Nat, NEW signer \in Nat,
                 SignIn(b, sub, org, signer)
          PROVE Signed
      <3>1. {[sub |-> sub, org |-> org, signer |-> signer]} \in Sessions
        OBVIOUS
      <3> QED
        BY <2>s, <3>1 DEF SignIn, WebTypes
    <2>r. \A b \in Browsers : req[b].sub \in People /\ req[b].org \in Nat
      BY DEF WebTypes, Handling
    <2>1. ASSUME NEW b \in Browsers, Lookup(b) PROVE Signed
      <3>1. \A m \in members : m.org \in Nat
        BY DEF StoreTypes
      <3>2. UNCHANGED session \/ \E m \in members : SignIn(b, req[b].sub, m.org, 0)
        BY <2>1 DEF Lookup, RepeatLogin, Member
      <3> QED
        BY <2>0, <2>s, <2>r, <3>1, <3>2
    <2>2. ASSUME NEW b \in Browsers, NEW answered \in BOOLEAN, Insert(b, answered) PROVE Signed
      <3>1. UNCHANGED session \/ SignIn(b, req[b].sub, req[b].org, 0)
        BY <2>2 DEF Insert
      <3> QED
        BY <2>0, <2>s, <2>r, <3>1
    <2>3. ASSUME NEW b \in Browsers, NEW issued \in BOOLEAN, NEW arrives \in BOOLEAN, FirstKey(b, issued, arrives)
          PROVE Signed
      <3>1. UNCHANGED session \/ SignIn(b, req[b].sub, req[b].org, 0)
        BY <2>3 DEF FirstKey
      <3> QED
        BY <2>0, <2>s, <2>r, <3>1
    <2>4. ASSUME NEW b \in Browsers, Logout(b) PROVE Signed
      BY <2>4 DEF Logout, WebTypes
    <2>5. ASSUME NEW b \in Browsers, NEW n \in Replicas, DevLogin(b, n) PROVE Signed
      <3>1. PICK o \in DevOrgs : SignIn(b, DevSub, o, replica[n].signer)
        BY <2>5 DEF DevLogin
      <3>2. o \in Nat /\ DevSub \in People /\ replica[n].signer \in Nat
        BY <3>1 DEF DevOrgs, StoreTypes, People, WebTypes, Seeding
      <3> QED
        BY <2>s, <3>1, <3>2
    <2> QED
      BY <2>0, <2>1, <2>2, <2>3, <2>4, <2>5
         DEF Next, vars, storeVars, webVars, Start, Callback, Link, Fails, LoadSetup, CreateKey,
             RevokeListed, Register, Boot, FindOrg, CreateOrg, CreateDevKey, Stop
  <1>5. boots' \in Nat
    <2>1. UNCHANGED boots \/ \E n \in Replicas : Boot(n)
      BY ZenonT(60)
         DEF Next, vars, storeVars, webVars, Start, Callback, Lookup, Link, Insert, Fails, FirstKey, Logout,
             LoadSetup, CreateKey, RevokeListed, DevLogin, Register, FindOrg, CreateOrg, CreateDevKey, Stop
    <2> QED
      BY <2>1 DEF Boot, WebTypes
  <1>3. mode' = mode
    BY ZenonT(60)
       DEF Next, vars, storeVars, webVars, Start, Callback, Lookup, Link, Insert, Fails, FirstKey, Logout,
           LoadSetup, CreateKey, RevokeListed, DevLogin, Register, Boot, FindOrg, CreateOrg, CreateDevKey, Stop
  <1>4. mode' \in {"oidc", "dev"}
    BY <1>3 DEF WebTypes
  <1> QED
    BY <1>1, <1>2, <1>4, <1>5, RequestsNext, ReplicasNext DEF WebTypes

(* handleStart makes a state nobody holds, in place of the browser's last. *)
LEMMA FlowsToldNext == WebTypes /\ FlowsTold /\ [Next]_vars => FlowsTold'
  <1> SUFFICES ASSUME WebTypes, FlowsTold, [Next]_vars PROVE FlowsTold'
    OBVIOUS
  <1>0. ASSUME UNCHANGED <<state, flows, started>> PROVE FlowsTold'
    BY <1>0 DEF FlowsTold
  <1>1. ASSUME NEW b \in Browsers, NEW sub \in CanUse[b], Start(b, sub) PROVE FlowsTold'
    <2> DEFINE c0 == [prov |-> ProviderOf[sub], state |-> started']
               f0 == [by |-> b, prov |-> ProviderOf[sub], state |-> started', sub |-> sub]
    <2>1. /\ started' = started + 1 /\ started \in Nat
          /\ flows' = flows \cup {f0}
          /\ state' = [state EXCEPT ![b] = {c0}]
          /\ \A f \in flows : f.state \in Nat /\ f.state <= started
          /\ \A d \in Browsers : \A c \in state[d] : c.state \in Nat /\ c.state <= started
      BY <1>1 DEF Start, WebTypes, FlowsTold
    <2>2. c0.state = started + 1 /\ f0.state = started + 1 /\ f0.by = b /\ f0.prov = c0.prov
      BY <2>1
    <2>3. state'[b] = {c0} /\ \A d \in Browsers : d # b => state'[d] = state[d]
      BY <2>1 DEF WebTypes
    <2> HIDE DEF c0, f0
    <2>4. \A f \in flows' : f.state <= started'
      BY <2>1, <2>2
    <2>5. ASSUME NEW d \in Browsers, NEW c \in state'[d]
          PROVE  /\ c.state <= started' /\ state'[d] = {c}
                 /\ \A f \in flows' : f.state = c.state => f.by = d /\ f.prov = c.prov
                 /\ \A f \in flows' : f.by = d => f.state <= c.state
      <3>1. CASE d = b
        BY <2>1, <2>2, <2>3, <2>5, <3>1
      <3>2. CASE d # b
        <4>1. c \in state[d] /\ state[d] = {c} /\ c.state <= started /\ c.state \in Nat
          BY <2>1, <2>3, <2>5, <3>2 DEF FlowsTold
        <4>2. \A f \in flows : /\ f.state = c.state => f.by = d /\ f.prov = c.prov
                               /\ f.by = d => f.state <= c.state
          BY <4>1 DEF FlowsTold
        <4>3. state'[d] = {c} /\ c.state <= started'
          BY <2>1, <2>3, <3>2, <4>1
        <4>4. f0.state # c.state /\ f0.by # d
          BY <2>1, <2>2, <3>2, <4>1
        <4>5. ASSUME NEW f \in flows'
              PROVE  /\ f.state = c.state => f.by = d /\ f.prov = c.prov
                     /\ f.by = d => f.state <= c.state
          <5>1. CASE f \in flows
            BY <4>2, <5>1
          <5>2. CASE f = f0
            BY <4>4, <5>2
          <5>3. f \in flows \/ f = f0
            BY <2>1, <4>5
          <5> QED BY <5>1, <5>2, <5>3, Zenon
        <4> QED
          BY <4>3, <4>5
      <3> QED
        BY <3>1, <3>2
    <2> QED
      BY <2>4, <2>5 DEF FlowsTold
  <1>2. ASSUME NEW b \in Browsers, NEW f \in flows, NEW ok \in BOOLEAN, Callback(b, f, ok) PROVE FlowsTold'
    BY <1>2 DEF Callback, FlowsTold
  <1> QED
    BY <1>0, <1>1, <1>2
       DEF Next, vars, storeVars, webVars, Lookup, Link, Insert, Fails, FirstKey, Logout, LoadSetup, CreateKey,
           RevokeListed, DevLogin, Register, Boot, FindOrg, CreateOrg, CreateDevKey, Stop
-----------------------------------------------------------------------------
(* The steps of a deployment with dev-login, and of one with providers *)
OnPage(b) == \E n \in Replicas : LoadSetup(b, n) \/ CreateKey(b, n) \/ RevokeListed(b, n)

DevStep ==
    \/ UNCHANGED vars
    \/ \E b \in Browsers : Logout(b) \/ OnPage(b) \/ \E n \in Replicas : DevLogin(b, n)
    \/ \E k \in DOMAIN keys : Register(k)
    \/ \E n \in Replicas : Boot(n) \/ FindOrg(n) \/ CreateOrg(n) \/ CreateDevKey(n) \/ Stop(n)

OidcStep ==
    \/ UNCHANGED vars
    \/ \E b \in Browsers :
        \/ \E sub \in CanUse[b] : Start(b, sub)
        \/ \E f \in flows, ok \in BOOLEAN : Callback(b, f, ok)
        \/ Lookup(b) \/ Link(b) \/ Fails(b) \/ Logout(b) \/ OnPage(b)
        \/ \E answered \in BOOLEAN : Insert(b, answered)
        \/ \E issued, arrives \in BOOLEAN : FirstKey(b, issued, arrives)
    \/ \E k \in DOMAIN keys : Register(k)

(* Without a provider no callback is ever handled. *)
LEMMA DevSteps == Apart /\ mode = "dev" /\ [Next]_vars => DevStep /\ mode' = "dev"
  <1> SUFFICES ASSUME Apart, mode = "dev", [Next]_vars PROVE DevStep /\ mode' = "dev"
    OBVIOUS
  <1>1. flows = {} /\ \A b \in Browsers : req[b].pc = "idle"
    BY DEF Apart
  <1>2. DevStep
    BY <1>1 DEF Next, DevStep, OnPage, Start, Lookup, Link, Fails, Insert, FirstKey
  <1>3. mode' = mode
    BY <1>2 DEF DevStep, OnPage, vars, storeVars, webVars, Logout, LoadSetup, CreateKey, RevokeListed, DevLogin,
                Register, Boot, FindOrg, CreateOrg, CreateDevKey, Stop
  <1> QED
    BY <1>2, <1>3

(* With providers no replica seeds a development key. *)
LEMMA OidcSteps == Apart /\ mode = "oidc" /\ [Next]_vars => OidcStep /\ mode' = "oidc" /\ UNCHANGED replica
  <1> SUFFICES ASSUME Apart, mode = "oidc", [Next]_vars PROVE OidcStep /\ mode' = "oidc" /\ UNCHANGED replica
    OBVIOUS
  <1>1. \A n \in Replicas : replica[n].pc = "up"
    BY DEF Apart
  <1>2. OidcStep
    BY <1>1 DEF Next, OidcStep, OnPage, Boot, FindOrg, CreateOrg, CreateDevKey, Stop, DevLogin
  <1>3. mode' = mode /\ UNCHANGED replica
    BY <1>2 DEF OidcStep, OnPage, vars, storeVars, webVars, Start, Callback, Lookup, Link, Fails, Logout, Insert,
                FirstKey, LoadSetup, CreateKey, RevokeListed, Register
  <1> QED
    BY <1>2, <1>3

(* handleDevLogin never makes an organisation: it finds one or refuses. *)
LEMMA DevLoginInserts ==
  ASSUME StoreTypes, NEW b \in Browsers, NEW n \in Replicas, DevLogin(b, n)
  PROVE  \E o \in DevOrgs :
            /\ SignIn(b, DevSub, o, replica[n].signer) /\ orgs' = orgs
            /\ \/ Member(DevSub) # {} /\ members' = members
               \/ Member(DevSub) = {} /\ members' = members \cup {[sub |-> DevSub, org |-> o]}
  <1>1. PICK o \in DevOrgs : Inserted(DevSub, o) /\ SignIn(b, DevSub, o, replica[n].signer)
    BY DEF DevLogin
  <1>2. o \in Nat /\ o # 0 /\ DevSub \in People
    BY <1>1 DEF DevOrgs, StoreTypes, People
  <1>3. orgs' = orgs
    BY <1>1, <1>2, InsertedAdds
  <1>4. \/ Member(DevSub) # {} /\ members' = members
        \/ Member(DevSub) = {} /\ members' = members \cup {[sub |-> DevSub, org |-> o]}
    BY <1>1, <1>2, InsertedAdds
  <1> QED
    BY <1>1, <1>3, <1>4

(* The dev deployment stays one. *)
LEMMA ApartDev ==
  ASSUME StoreTypes, WebTypes, Apart, mode = "dev", [Next]_vars
  PROVE  /\ flows' = {} /\ \A b \in Browsers : req'[b].pc = "idle" /\ state'[b] = {}
         /\ \A m \in members' : m.sub = DevSub
         /\ \A b \in Browsers : \A s \in session'[b] : s.sub = DevSub
         /\ \A o \in DOMAIN orgs' : orgs'[o] = DevOrg
  <1>0. DevStep
    BY DevSteps
  <1>1. UNCHANGED <<flows, req, state>>
    BY <1>0 DEF DevStep, OnPage, vars, storeVars, webVars, Logout, LoadSetup, CreateKey, RevokeListed, DevLogin,
                Register, Boot, FindOrg, CreateOrg, CreateDevKey, Stop
  <1> DEFINE Mine == \A m \in members' : m.sub = DevSub
             Held == \A b \in Browsers : \A s \in session'[b] : s.sub = DevSub
             Dev  == \A o \in DOMAIN orgs' : orgs'[o] = DevOrg
  <1>2. ASSUME UNCHANGED <<members, session, orgs>> PROVE Mine /\ Held /\ Dev
    BY <1>2 DEF Apart
  <1>3. ASSUME NEW b \in Browsers, Logout(b) PROVE Mine /\ Held /\ Dev
    <2>1. \A c \in Browsers : session'[c] = {} \/ session'[c] = session[c]
      BY <1>3 DEF Logout, WebTypes
    <2>2. UNCHANGED <<members, orgs>>
      BY <1>3 DEF Logout, storeVars
    <2> QED
      BY <2>1, <2>2 DEF Apart
  <1>4. ASSUME NEW b \in Browsers, NEW n \in Replicas, DevLogin(b, n) PROVE Mine /\ Held /\ Dev
    <2>1. PICK o \in DevOrgs :
            /\ SignIn(b, DevSub, o, replica[n].signer) /\ orgs' = orgs
            /\ \/ Member(DevSub) # {} /\ members' = members
               \/ Member(DevSub) = {} /\ members' = members \cup {[sub |-> DevSub, org |-> o]}
      BY <1>4, DevLoginInserts
    <2>2. \A c \in Browsers : session'[c] = session[c]
                            \/ session'[c] = {[sub |-> DevSub, org |-> o, signer |-> replica[n].signer]}
      BY <2>1 DEF SignIn, WebTypes
    <2>3. Held
      BY <2>2 DEF Apart
    <2>4. Mine
      BY <2>1 DEF Apart
    <2> QED
      BY <2>1, <2>3, <2>4 DEF Apart
  <1>5. ASSUME NEW n \in Replicas, CreateOrg(n) PROVE Mine /\ Held /\ Dev
    <2>1. orgs \in Seq(Names) /\ DevOrg \in Names /\ orgs' = Append(orgs, DevOrg)
      BY <1>5 DEF CreateOrg, InsertDevOrg, StoreTypes, Names
    <2>2. Dev
      BY <2>1, RowAdded DEF Apart
    <2> QED
      BY <1>5, <2>2 DEF CreateOrg, Apart
  <1>6. Mine /\ Held /\ Dev
    BY <1>0, <1>2, <1>3, <1>4, <1>5
       DEF DevStep, OnPage, vars, storeVars, webVars, LoadSetup, CreateKey, RevokeListed, Register, Boot, FindOrg,
           CreateDevKey, Stop
  <1> QED
    BY <1>1, <1>6 DEF Apart
=============================================================================
