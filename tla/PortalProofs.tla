---------------------------- MODULE PortalProofs ----------------------------
(***************************************************************************)
(* Proofs about Portal and the control plane's statements under it, for    *)
(* any number of browsers, replicas, people and providers: memberships,    *)
(* one person's organisation, the seeded tenant, the last flow and whose   *)
(* keys a form acts on.                                                    *)
(***************************************************************************)
EXTENDS PortalStepProofs

(* What the steps of a deployment with providers preserve together *)
OidcInv == StoreTypes /\ WebTypes /\ Apart /\ Membership /\ OnePerson /\ mode = "oidc"
OidcKept == Apart' /\ Membership' /\ OnePerson'

(* A step that writes no row, whatever it answers and whichever session it *)
(* starts for a member, keeps what requests and sessions know.             *)
LEMMA NoRowWritten ==
  ASSUME OidcInv, mode' = "oidc", UNCHANGED <<replica, members, orgs, raced>>,
         \A c \in Browsers : \/ req'[c] = req[c] \/ req'[c].pc = "idle"
                             \/ req'[c].pc \in {"lookup", "link"} /\ req'[c].sub \in Subjects,
         \A c \in Browsers : \A s \in session'[c] :
            s \in session[c] \/ (s.sub \in Subjects /\ [sub |-> s.sub, org |-> s.org] \in members)
  PROVE  OidcKept
  <1>1. Apart'
    BY DEF OidcInv, Apart
  <1>2. Membership'
    <2>1. ASSUME NEW b \in Browsers, req'[b].pc = "key"
          PROVE [sub |-> req'[b].sub, org |-> req'[b].org] \in members'
      <3>1. req'[b] = req[b]
        BY <2>1
      <3> QED
        BY <2>1, <3>1 DEF OidcInv, Membership
    <2>2. ASSUME NEW b \in Browsers, req'[b].pc = "insert", req'[b].org # 0
          PROVE \E m \in members' : m.org = req'[b].org /\ SameEmail(m.sub, req'[b].sub)
      <3>1. req'[b] = req[b]
        BY <2>2
      <3> QED
        BY <2>2, <3>1 DEF OidcInv, Membership
    <2>3. ASSUME NEW b \in Browsers, NEW s \in session'[b] PROVE [sub |-> s.sub, org |-> s.org] \in members'
      BY <2>3 DEF OidcInv, Membership
    <2> QED
      BY <2>1, <2>2, <2>3 DEF OidcInv, Membership
  <1>3. OnePerson'
    <2>1. ASSUME NEW b \in Browsers, req'[b].pc = "insert" PROVE req'[b] = req[b]
      BY <2>1
    <2> QED
      BY <2>1 DEF OidcInv, OnePerson, OnePersonOneOrg, SameEmail
  <1> QED
    BY <1>1, <1>2, <1>3 DEF OidcKept

(* The session cookie set by a sign-in is the browser's only one. *)
LEMMA SignedIn ==
  ASSUME WebTypes, NEW b \in Browsers, NEW sub, NEW org, NEW signer, SignIn(b, sub, org, signer)
  PROVE  \A c \in Browsers : \A s \in session'[c] :
            s \in session[c] \/ s = [sub |-> sub, org |-> org, signer |-> signer]
  <1> DEFINE v == {[sub |-> sub, org |-> org, signer |-> signer]}
  <1>1. session' = [session EXCEPT ![b] = v]
    BY Zenon DEF SignIn
  <1> HIDE DEF v
  <1>2. \A c \in Browsers : session'[c] = session[c] \/ session'[c] = v
    BY <1>1 DEF WebTypes
  <1> QED
    BY <1>2 DEF v

(* Starting a flow, a callback's exchange, a repeat login, the first key, *)
(* a failed statement and the forms write no member and no organisation.  *)
LEMMA OidcQuiet ==
  ASSUME OidcInv, NEW b \in Browsers, mode' = "oidc", UNCHANGED replica,
         \/ \E f \in flows, ok \in BOOLEAN : Callback(b, f, ok)
         \/ Lookup(b) \/ Fails(b) \/ Logout(b) \/ OnPage(b)
         \/ \E sub \in CanUse[b] : Start(b, sub)
         \/ \E issued, arrives \in BOOLEAN : FirstKey(b, issued, arrives)
         \/ \E k \in DOMAIN keys : Register(k)
         \/ UNCHANGED vars
  PROVE  OidcKept
  <1> DEFINE ReqFine == \A c \in Browsers : \/ req'[c] = req[c] \/ req'[c].pc = "idle"
                                            \/ req'[c].pc \in {"lookup", "link"} /\ req'[c].sub \in Subjects
             SessFine == \A c \in Browsers : \A s \in session'[c] :
                  s \in session[c] \/ (s.sub \in Subjects /\ [sub |-> s.sub, org |-> s.org] \in members)
  <1>1. UNCHANGED <<members, orgs, raced>>
    BY DEF OnPage, vars, storeVars, webVars, Start, Callback, Lookup, Fails, RolledBack, Logout, FirstKey, LoadSetup,
           CreateKey, RevokeListed, Register
  <1>e. ASSUME NEW r, req' = [req EXCEPT ![b] = r] PROVE \A c \in Browsers : req'[c] = req[c] \/ req'[c] = r
    BY <1>e DEF OidcInv, WebTypes
  <1>i. Idle.pc = "idle"
    BY DEF Idle
  <1>2. ReqFine
    <2>1. ASSUME NEW f \in flows, NEW ok \in BOOLEAN, Callback(b, f, ok) PROVE ReqFine
      <3> DEFINE r == [pc |-> "lookup", sub |-> f.sub, org |-> 0]
      <3>1. r.pc = "lookup" /\ r.sub \in Subjects
        BY DEF OidcInv, WebTypes
      <3>2. req' = req \/ req' = [req EXCEPT ![b] = r]
        BY <2>1 DEF Callback
      <3> HIDE DEF r
      <3> QED
        BY <3>1, <3>2, <1>e
    <2>2. ASSUME Lookup(b) PROVE ReqFine
      <3> DEFINE r == [req[b] EXCEPT !.pc = "link"]
      <3>1. r.pc = "link" /\ r.sub \in Subjects
        <4>1. req[b] \in Handling /\ req[b].sub \in Subjects
          BY <2>2 DEF Lookup, OidcInv, WebTypes, Apart
        <4> QED
          BY <4>1 DEF Handling
      <3>2. req' = [req EXCEPT ![b] = r] \/ req' = [req EXCEPT ![b] = Idle]
        BY <2>2, Zenon DEF Lookup
      <3> HIDE DEF r
      <3> QED
        BY <3>1, <3>2, <1>e, <1>i
    <2>3. ASSUME req' = [req EXCEPT ![b] = Idle] PROVE ReqFine
      BY <2>3, <1>e, <1>i
    <2>4. ASSUME req' = req PROVE ReqFine
      BY <2>4
    <2> QED
      BY <2>1, <2>2, <2>3, <2>4
         DEF OnPage, vars, webVars, Start, Fails, Logout, FirstKey, LoadSetup, CreateKey, RevokeListed, Register
  <1>3. SessFine
    <2>0. ASSUME session' = session PROVE SessFine
      BY <2>0
    <2>s. ASSUME NEW sub \in Subjects, NEW org, [sub |-> sub, org |-> org] \in members, SignIn(b, sub, org, 0)
          PROVE SessFine
      <3> DEFINE v == [sub |-> sub, org |-> org, signer |-> 0]
      <3>1. v.sub = sub /\ v.org = org
        OBVIOUS
      <3>2. \A c \in Browsers : \A s \in session'[c] : s \in session[c] \/ s = v
        BY <2>s, SignedIn DEF OidcInv
      <3> HIDE DEF v
      <3> QED
        BY <2>s, <3>1, <3>2
    <2>1. ASSUME Lookup(b) PROVE SessFine
      <3>1. req[b].sub \in Subjects
        BY <2>1 DEF Lookup, OidcInv, Apart
      <3>2. session' = session \/ \E m \in members : m.sub = req[b].sub /\ SignIn(b, req[b].sub, m.org, 0)
        BY <2>1 DEF Lookup, RepeatLogin, Member
      <3>3. ASSUME NEW m \in members PROVE [sub |-> m.sub, org |-> m.org] \in members
        <4>1. m = [sub |-> m.sub, org |-> m.org]
          BY DEF OidcInv, StoreTypes
        <4> QED
          BY <4>1
      <3> QED
        BY <2>0, <2>s, <3>1, <3>2, <3>3
    <2>2. ASSUME NEW issued \in BOOLEAN, NEW arrives \in BOOLEAN, FirstKey(b, issued, arrives) PROVE SessFine
      <3>1. req[b].sub \in Subjects /\ [sub |-> req[b].sub, org |-> req[b].org] \in members
        BY <2>2 DEF FirstKey, OidcInv, Apart, Membership
      <3>2. session' = session \/ SignIn(b, req[b].sub, req[b].org, 0)
        BY <2>2 DEF FirstKey
      <3> QED
        BY <2>0, <2>s, <3>1, <3>2
    <2>3. ASSUME Logout(b) PROVE SessFine
      BY <2>3 DEF Logout, OidcInv, WebTypes
    <2> QED
      BY <2>0, <2>1, <2>2, <2>3
         DEF OnPage, vars, webVars, Start, Callback, Fails, LoadSetup, CreateKey, RevokeListed, Register
  <1> QED
    BY <1>1, <1>2, <1>3, NoRowWritten

(* firstLoginOrLink's lookup: an organisation of the email is linked to, or *)
(* a second request that also found none is noticed.                        *)
LEMMA LinkKeeps ==
  ASSUME OidcInv, NEW b \in Browsers, mode' = "oidc", UNCHANGED replica, Link(b) PROVE OidcKept
  <1> DEFINE sub == req[b].sub
             target == LinkTarget(sub)
             r == [req[b] EXCEPT !.pc = "insert", !.org = target]
  <1>1. /\ UNCHANGED <<orgs, members, session>> /\ raced \subseteq raced'
        /\ (\E c \in Browsers : req[c].pc = "insert" /\ req[c].org = 0 /\ Lower[Of(req[c].sub)] = Lower[Of(sub)])
           => Lower[Of(sub)] \in raced'
    BY DEF Link, storeVars
  <1>2. req' = [req EXCEPT ![b] = r]
    BY Zenon DEF Link
  <1>3. req[b] \in Handling /\ req[b].pc = "link" /\ sub \in Subjects /\ sub \in People
    BY DEF Link, OidcInv, WebTypes, Apart, People
  <1>4. r.pc = "insert" /\ r.sub = sub /\ r.org = target
    BY <1>3 DEF Handling
  <1>5. /\ target # 0 => \E m \in members : m.org = target /\ SameEmail(m.sub, sub)
        /\ target = 0 => \A m \in members : ~SameEmail(m.sub, sub)
    BY <1>3, LinkTargetFound DEF OidcInv
  <1>6. \A c \in Browsers : IF c = b THEN req'[c] = r ELSE req'[c] = req[c]
    BY <1>2 DEF OidcInv, WebTypes
  <1> HIDE DEF r, target, sub
  <1>7. Apart'
    BY <1>1, <1>3, <1>4, <1>6 DEF OidcInv, Apart
  <1>8. Membership'
    <2>1. ASSUME NEW c \in Browsers, req'[c].pc = "key" PROVE [sub |-> req'[c].sub, org |-> req'[c].org] \in members'
      <3>1. req'[c] = req[c]
        BY <1>4, <1>6, <2>1
      <3> QED
        BY <2>1, <3>1, <1>1 DEF OidcInv, Membership
    <2>2. ASSUME NEW c \in Browsers, req'[c].pc = "insert", req'[c].org # 0
          PROVE \E m \in members' : m.org = req'[c].org /\ SameEmail(m.sub, req'[c].sub)
      <3>1. CASE c = b
        BY <1>1, <1>4, <1>5, <1>6, <2>2, <3>1
      <3>2. CASE c # b
        BY <1>1, <1>6, <2>2, <3>2 DEF OidcInv, Membership
      <3> QED
        BY <3>1, <3>2
    <2>3. ASSUME NEW c \in Browsers, NEW s \in session'[c] PROVE [sub |-> s.sub, org |-> s.org] \in members'
      BY <1>1, <2>3 DEF OidcInv, Membership
    <2> QED
      BY <1>1, <2>1, <2>2, <2>3 DEF OidcInv, Membership
  <1>9. OnePerson'
    <2>1. OnePersonOneOrg'
      BY <1>1 DEF OidcInv, OnePerson, OnePersonOneOrg
    <2>2. ASSUME NEW c \in Browsers, NEW d \in Browsers, c # d,
                 req'[c].pc = "insert", req'[c].org = 0, req'[d].pc = "insert", req'[d].org = 0,
                 Lower[Of(req'[c].sub)] = Lower[Of(req'[d].sub)]
          PROVE Lower[Of(req'[c].sub)] \in raced'
      <3>1. CASE c = b
        <4>1. req'[c].sub = sub /\ req'[d] = req[d]
          BY <1>4, <1>6, <2>2, <3>1
        <4> QED
          BY <4>1, <1>1, <2>2
      <3>2. CASE d = b
        <4>1. req'[d].sub = sub /\ req'[c] = req[c]
          BY <1>4, <1>6, <2>2, <3>2
        <4> QED
          BY <4>1, <1>1, <2>2
      <3>3. CASE c # b /\ d # b
        <4>1. req'[c] = req[c] /\ req'[d] = req[d]
          BY <1>6, <3>3
        <4>2. Lower[Of(req[c].sub)] \in raced
          BY <4>1, <2>2 DEF OidcInv, OnePerson, SameEmail
        <4> QED
          BY <4>1, <4>2, <1>1
      <3> QED
        BY <3>1, <3>2, <3>3
    <2>3. ASSUME NEW c \in Browsers, NEW m \in members', req'[c].pc = "insert", req'[c].org = 0,
                 Lower[Of(m.sub)] = Lower[Of(req'[c].sub)]
          PROVE Lower[Of(req'[c].sub)] \in raced'
      <3>1. CASE c = b
        <4>1. SameEmail(m.sub, sub) /\ target = 0 /\ m \in members
          BY <1>1, <1>4, <1>6, <2>3, <3>1 DEF SameEmail
        <4> QED
          BY <4>1, <1>5
      <3>2. CASE c # b
        <4>1. req'[c] = req[c] /\ m \in members
          BY <1>1, <1>6, <3>2
        <4>2. Lower[Of(req[c].sub)] \in raced
          BY <4>1, <2>3 DEF OidcInv, OnePerson, SameEmail
        <4> QED
          BY <4>1, <4>2, <1>1
      <3> QED
        BY <3>1, <3>2
    <2> QED
      BY <2>1, <2>2, <2>3 DEF OnePerson, SameEmail
  <1> QED
    BY <1>7, <1>8, <1>9 DEF OidcKept

(* A member is inserted with the organisation the request found, or with a *)
(* new one.                                                                *)
LEMMA MemberAdded ==
  ASSUME OidcInv, NEW b \in Browsers, mode' = "oidc", UNCHANGED <<replica, raced>>,
         req[b].pc = "insert", Member(req[b].sub) = {}, NEW org \in DOMAIN orgs',
         req[b].org = 0 \/ org = req[b].org,
         members' = members \cup {[sub |-> req[b].sub, org |-> org]},
         DOMAIN orgs \subseteq DOMAIN orgs', DOMAIN orgs' \subseteq DOMAIN orgs \cup {org},
         \A o \in DOMAIN orgs : orgs'[o] = orgs[o],
         \A c \in Browsers : c # b => req'[c] = req[c],
         req'[b].pc = "idle" \/ (req'[b].pc = "key" /\ req'[b].sub = req[b].sub /\ req'[b].org = org),
         \A c \in Browsers : \A s \in session'[c] : s \in session[c] \/ (s.sub = req[b].sub /\ s.org = org)
  PROVE  OidcKept
  <1> DEFINE sub == req[b].sub
             added == [sub |-> sub, org |-> org]
  <1>1. /\ members' = members \cup {added} /\ added.sub = sub /\ added.org = org
        /\ sub \in Subjects /\ \A m \in members : m.sub # sub
    BY DEF OidcInv, Apart, Member
  <1>2. \/ req[b].org = 0 /\ \A m \in members : Lower[Of(m.sub)] = Lower[Of(sub)] => Lower[Of(sub)] \in raced
        \/ \E m \in members : m.org = org /\ Lower[Of(m.sub)] = Lower[Of(sub)]
    <2>1. CASE req[b].org = 0
      BY <2>1 DEF OidcInv, OnePerson, SameEmail
    <2>2. CASE req[b].org # 0
      BY <2>2 DEF OidcInv, Membership, SameEmail
    <2> QED
      BY <2>1, <2>2
  <1>k. req'[b].pc = "key" => [sub |-> req'[b].sub, org |-> req'[b].org] = added
    OBVIOUS
  <1>s. \A c \in Browsers : \A s \in session'[c] :
           s \in session[c] \/ (s.sub = sub /\ [sub |-> s.sub, org |-> s.org] = added)
    OBVIOUS
  <1>b. req'[b].pc = "idle" \/ (req'[b].pc = "key" /\ req'[b].sub = sub)
    OBVIOUS
  <1> HIDE DEF added, sub
  <1>3. Apart'
    <2>1. \A o \in DOMAIN orgs' : orgs'[o] # DevOrg => \E m \in members' : m.org = o
      BY <1>1 DEF OidcInv, Apart
    <2>2. \A c \in Browsers : req'[c].pc # "idle" => req'[c].sub \in Subjects
      BY <1>1, <1>b DEF OidcInv, Apart
    <2>3. \A m \in members' : m.sub \in Subjects
      BY <1>1 DEF OidcInv, Apart
    <2>4. \A c \in Browsers : \A s \in session'[c] : s.sub \in Subjects
      BY <1>1, <1>s DEF OidcInv, Apart
    <2> QED
      BY <2>1, <2>2, <2>3, <2>4 DEF OidcInv, Apart
  <1>4. Membership'
    <2>1. \A m, l \in members' : m.sub = l.sub => m = l
      BY <1>1 DEF OidcInv, Membership
    <2>2. \A m \in members' : m.org \in DOMAIN orgs'
      BY <1>1 DEF OidcInv, Membership
    <2>3. ASSUME NEW c \in Browsers, req'[c].pc = "key" PROVE [sub |-> req'[c].sub, org |-> req'[c].org] \in members'
      <3>1. CASE c = b
        BY <1>1, <1>k, <2>3, <3>1
      <3>2. CASE c # b
        BY <1>1, <2>3, <3>2 DEF OidcInv, Membership
      <3> QED
        BY <3>1, <3>2
    <2>4. ASSUME NEW c \in Browsers, req'[c].pc = "insert", req'[c].org # 0
          PROVE \E m \in members' : m.org = req'[c].org /\ SameEmail(m.sub, req'[c].sub)
      <3>1. req'[c] = req[c]
        BY <1>b, <2>4
      <3> QED
        BY <1>1, <2>4, <3>1, ZenonT(60) DEF OidcInv, Membership
    <2>5. ASSUME NEW c \in Browsers, NEW s \in session'[c] PROVE [sub |-> s.sub, org |-> s.org] \in members'
      BY <1>1, <1>s, <2>5 DEF OidcInv, Membership
    <2> QED
      BY <2>1, <2>2, <2>3, <2>4, <2>5 DEF Membership
  <1>5. OnePerson'
    <2>0. ASSUME NEW l \in members, Lower[Of(l.sub)] = Lower[Of(sub)], Lower[Of(sub)] \notin raced PROVE l.org = org
      BY <1>2, <2>0 DEF OidcInv, OnePerson, OnePersonOneOrg
    <2>1. ASSUME NEW m \in members', NEW l \in members', Lower[Of(m.sub)] = Lower[Of(l.sub)],
                 Lower[Of(m.sub)] \notin raced
          PROVE m.org = l.org
      <3>1. CASE m \in members /\ l \in members
        BY <2>1, <3>1 DEF OidcInv, OnePerson, OnePersonOneOrg
      <3>2. CASE m = added \/ l = added
        BY <1>1, <2>0, <2>1, <3>2
      <3> QED
        BY <1>1, <3>1, <3>2
    <2>r. ASSUME NEW c \in Browsers, req'[c].pc = "insert" PROVE c # b /\ req'[c] = req[c]
      BY <1>b, <2>r
    <2>2. ASSUME NEW c \in Browsers, NEW d \in Browsers, c # d,
                 req'[c].pc = "insert", req'[c].org = 0, req'[d].pc = "insert", req'[d].org = 0,
                 Lower[Of(req'[c].sub)] = Lower[Of(req'[d].sub)]
          PROVE Lower[Of(req'[c].sub)] \in raced
      BY <2>2, <2>r, ZenonT(60) DEF OidcInv, OnePerson, SameEmail
    <2>3. ASSUME NEW c \in Browsers, NEW m \in members', req'[c].pc = "insert", req'[c].org = 0,
                 Lower[Of(m.sub)] = Lower[Of(req'[c].sub)]
          PROVE Lower[Of(req'[c].sub)] \in raced
      <3>0. c # b /\ req'[c] = req[c]
        BY <2>3, <2>r
      <3>1. CASE m \in members
        BY <2>3, <3>0, <3>1 DEF OidcInv, OnePerson, SameEmail
      <3>2. CASE m = added
        <4>1. Lower[Of(sub)] = Lower[Of(req[c].sub)] /\ req[c].pc = "insert" /\ req[c].org = 0
          BY <1>1, <2>3, <3>0, <3>2
        <4>2. CASE req[b].org = 0
          BY <4>1, <4>2, <3>0 DEF OidcInv, OnePerson, SameEmail, sub
        <4>3. CASE \E x \in members : x.org = org /\ Lower[Of(x.sub)] = Lower[Of(sub)]
          BY <4>1, <4>3, <3>0 DEF OidcInv, OnePerson, SameEmail
        <4> QED
          BY <1>2, <4>2, <4>3
      <3> QED
        BY <1>1, <2>3, <3>1, <3>2
    <2> QED
      BY <2>1, <2>2, <2>3 DEF OnePerson, OnePersonOneOrg, SameEmail
  <1> QED
    BY <1>3, <1>4, <1>5 DEF OidcKept

(* firstLoginOrLink: refused by the unique subject, linked, or with an     *)
(* organisation of its own; the answer arrives or is lost.                 *)
LEMMA InsertKeeps ==
  ASSUME OidcInv, NEW b \in Browsers, NEW answered \in BOOLEAN, mode' = "oidc", UNCHANGED replica, Insert(b, answered)
  PROVE  OidcKept
  <1> DEFINE sub == req[b].sub
             org == req[b].org
             r == [req[b] EXCEPT !.pc = "key", !.org = Len(orgs')]
  <1>1. req[b].pc = "insert" /\ Inserted(sub, org) /\ raced' = raced
    BY DEF Insert
  <1>2. req[b] \in Handling /\ sub \in People /\ org \in Nat
    BY DEF OidcInv, WebTypes, Handling
  <1>3. \/ req' = [req EXCEPT ![b] = Idle]
        \/ Member(sub) = {} /\ org = 0 /\ req' = [req EXCEPT ![b] = r]
    BY Zenon DEF Insert
  <1>4. \/ session' = session
        \/ Member(sub) = {} /\ org # 0 /\ SignIn(b, sub, org, 0)
    BY DEF Insert
  <1>5. r.pc = "key" /\ r.sub = sub /\ r.org = Len(orgs') /\ Idle.pc = "idle"
    BY <1>2 DEF Handling, Idle
  <1>6. /\ \A c \in Browsers : c # b => req'[c] = req[c]
        /\ req'[b] = Idle \/ (Member(sub) = {} /\ org = 0 /\ req'[b] = r)
    <2> HIDE DEF r
    <2> QED
      BY <1>3 DEF OidcInv, WebTypes
  <1> HIDE DEF r
  <1>7. CASE Member(sub) # {}
    <2>1. orgs' = orgs /\ members' = members
      BY <1>1, <1>2, <1>7, InsertedAdds DEF OidcInv
    <2>2. \A c \in Browsers : req'[c] = req[c] \/ req'[c].pc = "idle"
      BY <1>5, <1>6, <1>7
    <2>3. session' = session
      BY <1>4, <1>7
    <2> QED
      BY <1>1, <2>1, <2>2, <2>3, NoRowWritten
  <1>8. CASE Member(sub) = {} /\ org = 0
    <2>1. /\ DOMAIN orgs' = DOMAIN orgs \cup {Len(orgs')}
          /\ members' = members \cup {[sub |-> sub, org |-> Len(orgs')]}
          /\ \A o \in DOMAIN orgs : orgs'[o] = orgs[o]
      BY <1>1, <1>2, <1>8, InsertedAdds DEF OidcInv
    <2>2. req'[b].pc = "idle" \/ (req'[b].pc = "key" /\ req'[b].sub = sub /\ req'[b].org = Len(orgs'))
      BY <1>5, <1>6
    <2>3. session' = session
      BY <1>4, <1>8
    <2> QED
      BY <1>1, <1>6, <1>8, <2>1, <2>2, <2>3, MemberAdded
  <1>9. CASE Member(sub) = {} /\ org # 0
    <2>1. orgs' = orgs /\ members' = members \cup {[sub |-> sub, org |-> org]}
      BY <1>1, <1>2, <1>9, InsertedAdds DEF OidcInv
    <2>2. org \in DOMAIN orgs
      BY <1>1, <1>9 DEF OidcInv, Membership
    <2>3. req'[b].pc = "idle"
      BY <1>5, <1>6, <1>9
    <2>4. \A c \in Browsers : \A s \in session'[c] : s \in session[c] \/ (s.sub = sub /\ s.org = org)
      <3> DEFINE v == [sub |-> sub, org |-> org, signer |-> 0]
      <3>1. v.sub = sub /\ v.org = org
        OBVIOUS
      <3>2. \A c \in Browsers : \A s \in session'[c] : s \in session[c] \/ s = v
        BY <1>4, SignedIn DEF OidcInv
      <3> HIDE DEF v
      <3> QED
        BY <3>1, <3>2
    <2> QED
      BY <1>1, <1>6, <1>9, <2>1, <2>2, <2>3, <2>4, MemberAdded
  <1> QED
    BY <1>7, <1>8, <1>9

(* All steps of a deployment with providers. *)
LEMMA OidcNext == ASSUME OidcInv, [Next]_vars PROVE OidcKept
  <1>1. OidcStep /\ mode' = "oidc" /\ UNCHANGED replica
    BY OidcSteps DEF OidcInv
  <1>2. ASSUME NEW b \in Browsers, Link(b) PROVE OidcKept
    BY <1>1, <1>2, LinkKeeps
  <1>3. ASSUME NEW b \in Browsers, NEW answered \in BOOLEAN, Insert(b, answered) PROVE OidcKept
    BY <1>1, <1>3, InsertKeeps
  <1>4. ASSUME (\E k \in DOMAIN keys : Register(k)) \/ UNCHANGED vars PROVE OidcKept
    <2>1. UNCHANGED <<members, orgs, raced, req, session>>
      BY <1>4 DEF Register, vars, storeVars, webVars
    <2> QED
      BY <1>1, <2>1, NoRowWritten
  <1> QED
    BY <1>1, <1>2, <1>3, <1>4, OidcQuiet DEF OidcStep
-----------------------------------------------------------------------------
(* The development key is one row, which no form changes the organisation  *)
(* of, and which only a replica that found none inserts.                   *)
DevKeyKept == DevKey' = DevKey /\ \A k \in DevKey : keys'[k].org = keys[k].org

DevKeyMade(n) ==
    CreateDevKey(n) /\ DevKey = {} /\ \E k : DevKey' = {k} /\ keys'[k].org = replica[n].org

(* EnsureDevKey's insert is the only way to a development key. *)
LEMMA DevKeySteps ==
  ASSUME StoreTypes, WebTypes, [Next]_vars PROVE DevKeyKept \/ \E n \in Replicas : DevKeyMade(n)
  <1>0. KeysStep /\ keys \in Seq(KeyRows)
    BY KeysSteps DEF StoreTypes
  <1>1. CASE keys' = keys
    BY <1>1 DEF DevKeyKept, DevKey
  <1>2. ASSUME NEW r \in KeyRows, KeyAdded(r) PROVE DevKeyKept \/ \E n \in Replicas : DevKeyMade(n)
    <2>1. /\ DOMAIN keys' = DOMAIN keys \cup {Len(keys) + 1} /\ Len(keys) + 1 \notin DOMAIN keys
          /\ \A i \in DOMAIN keys : keys'[i] = keys[i]
          /\ keys'[Len(keys) + 1] = r
      BY <1>0, <1>2, RowAdded DEF KeyAdded
    <2>2. CASE ~r.dev
      <3>1. DevKey' = DevKey
        BY <2>1, <2>2 DEF DevKey
      <3> QED
        BY <2>1, <3>1 DEF DevKeyKept, DevKey
    <2>3. CASE r.dev
      <3>1. PICK n \in Replicas : DevKey = {} /\ r.org = replica[n].org /\ CreateDevKey(n)
        BY <1>2, <2>3 DEF KeyAdded
      <3>2. DevKey' = {Len(keys) + 1}
        BY <2>1, <2>3, <3>1 DEF DevKey
      <3> QED
        BY <2>1, <3>1, <3>2 DEF DevKeyMade
    <2> QED
      BY <2>2, <2>3
  <1>3. ASSUME NEW k \in DOMAIN keys, NEW r \in KeyRows, KeyUpdated(k, r) PROVE DevKeyKept
    <2>1. DOMAIN keys' = DOMAIN keys /\ \A i \in DOMAIN keys : keys'[i] = IF i = k THEN r ELSE keys[i]
      BY <1>0, <1>3, RowUpdated DEF KeyUpdated
    <2>2. r.dev = keys[k].dev /\ r.org = keys[k].org
      BY <1>3 DEF KeyUpdated
    <2>3. DevKey' = DevKey
      BY <2>1, <2>2 DEF DevKey
    <2> QED
      BY <2>1, <2>2, <2>3 DEF DevKeyKept, DevKey
  <1> QED
    BY <1>0, <1>1, <1>2, <1>3 DEF KeysStep

(* With dev-login there is one member, dev:admin, of a development         *)
(* organisation; the session carries the member's when there is only one.  *)
LEMMA DevMembers ==
  ASSUME PortalInv, mode = "dev", [Next]_vars PROVE Membership' /\ OnePerson'
  <1> USE DEF PortalInv
  <1>0. DevStep /\ mode' = "dev"
    BY DevSteps
  <1>1. /\ \A b \in Browsers : req'[b].pc = "idle"
        /\ \A m \in members' : m.sub = DevSub
        /\ \A o \in DOMAIN orgs' : orgs'[o] = DevOrg
    BY ApartDev
  <1>2. raced \subseteq raced'
    BY <1>0 DEF DevStep, OnPage, vars, storeVars, webVars, Logout, LoadSetup, CreateKey, RevokeListed, DevLogin,
                Register, Boot, FindOrg, CreateOrg, CreateDevKey, Stop
  <1> DEFINE Ids == \A m, l \in members' : m.sub = l.sub => m = l
             In  == \A m \in members' : m.org \in DOMAIN orgs'
             Held == \A b \in Browsers : \A s \in session'[b] :
                        /\ s.org \in DOMAIN orgs'
                        /\ DevOrg \notin raced => [sub |-> s.sub, org |-> s.org] \in members'
  <1>3. Ids /\ In /\ Held
    <2>0. ASSUME members' = members, DOMAIN orgs \subseteq DOMAIN orgs',
                 \A b \in Browsers : session'[b] \subseteq session[b]
          PROVE Ids /\ In /\ Held
      BY <2>0 DEF Membership
    <2>1. ASSUME NEW b \in Browsers, NEW n \in Replicas, DevLogin(b, n) PROVE Ids /\ In /\ Held
      <3>1. PICK o \in DevOrgs :
            /\ SignIn(b, DevSub, o, replica[n].signer) /\ orgs' = orgs
            /\ \/ Member(DevSub) # {} /\ members' = members
               \/ Member(DevSub) = {} /\ members' = members \cup {[sub |-> DevSub, org |-> o]}
        BY <2>1, DevLoginInserts
      <3>2. o \in DOMAIN orgs
        BY DEF DevOrgs
      <3> DEFINE added == [sub |-> DevSub, org |-> o]
      <3>3. added.sub = DevSub /\ added.org = o
        OBVIOUS
      <3>4. (Member(DevSub) # {} /\ members' = members) \/ (Member(DevSub) = {} /\ members' = members \cup {added})
        BY <3>1
      <3>5. \A c \in Browsers : \A s \in session'[c] :
               s \in session[c] \/ (s.org = o /\ [sub |-> s.sub, org |-> s.org] = added)
        <4> DEFINE v == [sub |-> DevSub, org |-> o, signer |-> replica[n].signer]
        <4>1. v.sub = DevSub /\ v.org = o
          OBVIOUS
        <4>2. \A c \in Browsers : \A s \in session'[c] : s \in session[c] \/ s = v
          BY <3>1, SignedIn
        <4> HIDE DEF v
        <4> QED
          BY <4>1, <4>2
      <3>6. ASSUME DevOrg \notin raced PROVE added \in members'
        <4>1. CASE Member(DevSub) = {}
          BY <3>4, <4>1
        <4>2. CASE Member(DevSub) # {}
          <5>1. PICK m \in members : m.sub = DevSub
            BY <4>2 DEF Member
          <5>2. m.org = o
            BY <3>2, <3>6 DEF Membership, OneDev
          <5>3. m = [sub |-> m.sub, org |-> m.org]
            BY DEF StoreTypes
          <5> QED
            BY <3>4, <5>1, <5>2, <5>3
        <4> QED
          BY <4>1, <4>2
      <3> HIDE DEF added
      <3>7. Ids
        BY <3>3, <3>4 DEF Membership, Member
      <3>8. In
        BY <3>1, <3>2, <3>3, <3>4 DEF Membership
      <3>9. members \subseteq members'
        BY <3>4
      <3>10. Held
        BY <3>1, <3>2, <3>5, <3>6, <3>9 DEF Membership
      <3> QED
        BY <3>7, <3>8, <3>10
    <2>2. ASSUME NEW n \in Replicas, CreateOrg(n) PROVE Ids /\ In /\ Held
      <3>1. orgs \in Seq(Names) /\ DevOrg \in Names /\ orgs' = Append(orgs, DevOrg)
        BY <2>2 DEF CreateOrg, InsertDevOrg, StoreTypes, Names
      <3>2. DOMAIN orgs \subseteq DOMAIN orgs'
        BY <3>1, RowAdded
      <3> QED
        BY <2>0, <2>2, <3>2 DEF CreateOrg
    <2>3. ASSUME NEW b \in Browsers, Logout(b) PROVE Ids /\ In /\ Held
      <3>1. \A c \in Browsers : session'[c] \subseteq session[c]
        BY <2>3 DEF Logout, WebTypes
      <3> QED
        BY <2>0, <2>3, <3>1 DEF Logout, storeVars
    <2>4. ASSUME UNCHANGED <<members, orgs, session>> PROVE Ids /\ In /\ Held
      BY <2>0, <2>4
    <2> QED
      BY <1>0, <2>1, <2>2, <2>3, <2>4
         DEF DevStep, OnPage, vars, storeVars, webVars, LoadSetup, CreateKey, RevokeListed, Register, Boot, FindOrg,
             CreateDevKey, Stop
  <1>4. Membership'
    BY <1>0, <1>1, <1>2, <1>3 DEF Membership
  <1>5. OnePerson'
    <2>1. \A m, l \in members' : m = l
      BY <1>1, <1>3
    <2> QED
      BY <1>1, <2>1 DEF OnePerson, OnePersonOneOrg
  <1> QED
    BY <1>4, <1>5

(* The insert of a replica that found no development key makes one. *)
LEMMA SeedingSeeds ==
  ASSUME StoreTypes, WebTypes, NEW n \in Replicas, CreateDevKey(n), DevKey = {} PROVE DevKey' # {}
  <1> DEFINE row == [org |-> replica[n].org, revoked |-> FALSE, dev |-> TRUE]
  <1>1. keys' = Append(keys, row)
    BY Zenon DEF CreateDevKey, InsertDevKey
  <1>2. replica[n].org \in Nat /\ keys \in Seq(KeyRows)
    BY DEF WebTypes, Seeding, StoreTypes
  <1>3. row \in KeyRows /\ row.dev
    BY <1>2 DEF KeyRows
  <1> HIDE DEF row
  <1>4. Len(keys) + 1 \in DOMAIN keys' /\ keys'[Len(keys) + 1] = row
    BY <1>1, <1>2, <1>3, RowAdded
  <1> QED
    BY <1>3, <1>4 DEF DevKey

(* One replica changes; what it holds of the organisation is so, and the  *)
(* others keep theirs.                                                    *)
LEMMA ReplicaMoves ==
  ASSUME WebTypes, OneDev, mode = "dev", DevKeyKept, NEW n \in Replicas, NEW r,
         replica' = [replica EXCEPT ![n] = r], DOMAIN orgs \subseteq DOMAIN orgs',
         r.pc \in {"key", "up"} => r.org \in DOMAIN orgs',
         r.pc = "up" => DevKey # {} /\ \A k \in DevKey : keys[k].org = r.org
  PROVE  /\ \A k \in DevKey' : keys'[k].org \in DOMAIN orgs'
         /\ \A p \in Replicas : replica'[p].pc \in {"key", "up"} => replica'[p].org \in DOMAIN orgs'
         /\ \A p \in Replicas : replica'[p].pc = "up" =>
               DevKey' # {} /\ \A k \in DevKey' : keys'[k].org = replica'[p].org
  <1>1. DevKey' = DevKey /\ \A k \in DevKey : keys'[k].org = keys[k].org
    BY DEF DevKeyKept
  <1>2. \A p \in Replicas : IF p = n THEN replica'[p] = r ELSE replica'[p] = replica[p]
    BY DEF WebTypes
  <1>3. \A k \in DevKey' : keys'[k].org \in DOMAIN orgs'
    BY <1>1 DEF OneDev
  <1>4. ASSUME NEW p \in Replicas, replica'[p].pc \in {"key", "up"} PROVE replica'[p].org \in DOMAIN orgs'
    BY <1>2, <1>4 DEF OneDev
  <1>5. ASSUME NEW p \in Replicas, replica'[p].pc = "up"
        PROVE DevKey' # {} /\ \A k \in DevKey' : keys'[k].org = replica'[p].org
    BY <1>1, <1>2, <1>5 DEF OneDev
  <1> QED
    BY <1>3, <1>4, <1>5

(* EnsureDevKey, however the replicas that run it interleave, stop and     *)
(* start again: the key stays one and those that are up hold its tenant.   *)
LEMMA SeededAlike ==
  ASSUME PortalInv, mode = "dev", [Next]_vars
  PROVE  /\ \A k \in DevKey' : keys'[k].org \in DOMAIN orgs'
         /\ \A p \in Replicas : replica'[p].pc \in {"key", "up"} => replica'[p].org \in DOMAIN orgs'
         /\ \A p \in Replicas : replica'[p].pc = "up" =>
               DevKey' # {} /\ \A k \in DevKey' : keys'[k].org = replica'[p].org
  <1> USE DEF PortalInv
  <1> DEFINE Alike == /\ \A k \in DevKey' : keys'[k].org \in DOMAIN orgs'
                      /\ \A p \in Replicas : replica'[p].pc \in {"key", "up"} => replica'[p].org \in DOMAIN orgs'
                      /\ \A p \in Replicas : replica'[p].pc = "up" =>
                            DevKey' # {} /\ \A k \in DevKey' : keys'[k].org = replica'[p].org
  <1>0. DevStep
    BY DevSteps
  <1>d. Down.pc = "down"
    BY DEF Down
  <1>o. \A o \in DOMAIN orgs : orgs[o] = DevOrg
    BY DEF Apart
  <1>1. ASSUME NEW n \in Replicas, DevKeyMade(n) PROVE Alike
    <2>1. PICK k : DevKey' = {k} /\ keys'[k].org = replica[n].org
      BY <1>1 DEF DevKeyMade
    <2>2. DevKey = {} /\ CreateDevKey(n) /\ orgs' = orgs /\ replica[n].pc = "key"
      BY <1>1 DEF DevKeyMade, CreateDevKey
    <2> DEFINE r == [replica[n] EXCEPT !.pc = "up"]
    <2>3. replica' = [replica EXCEPT ![n] = r]
      BY <2>2, Zenon DEF CreateDevKey, Seeded
    <2>4. r.pc = "up" /\ r.org = replica[n].org
      <3>1. replica[n] \in Seeding
        BY DEF WebTypes
      <3> QED
        BY <3>1 DEF Seeding
    <2> HIDE DEF r
    <2>5. \A p \in Replicas : IF p = n THEN replica'[p] = r ELSE replica'[p] = replica[p]
      BY <2>3 DEF WebTypes
    <2>6. replica[n].org \in DOMAIN orgs /\ \A p \in Replicas : replica[p].pc # "up"
      BY <2>2 DEF OneDev
    <2>7. \A p \in Replicas : replica'[p].pc \in {"key", "up"} => replica'[p].org \in DOMAIN orgs'
      BY <2>2, <2>4, <2>5, <2>6 DEF OneDev
    <2>8. ASSUME NEW p \in Replicas, replica'[p].pc = "up" PROVE replica'[p].org = replica[n].org
      BY <2>4, <2>5, <2>6, <2>8
    <2> QED
      BY <2>1, <2>2, <2>6, <2>7, <2>8
  <1>2. ASSUME DevKeyKept PROVE Alike
    <2>0. ASSUME UNCHANGED replica, DOMAIN orgs \subseteq DOMAIN orgs' PROVE Alike
      BY <1>2, <2>0 DEF DevKeyKept, OneDev
    <2>1. ASSUME NEW n \in Replicas, Boot(n) PROVE Alike
      <3>1. CASE DevKey = {}
        <4> DEFINE r == [pc |-> "org", org |-> 0, signer |-> boots']
        <4>1. replica' = [replica EXCEPT ![n] = r]
          BY <2>1, <3>1, Zenon DEF Boot
        <4>2. r.pc = "org"
          OBVIOUS
        <4> HIDE DEF r
        <4> QED
          BY <1>2, <2>1, <4>1, <4>2, ReplicaMoves DEF Boot, storeVars
      <3>2. CASE DevKey # {}
        <4> DEFINE k0 == CHOOSE k \in DevKey : TRUE
                   r == [pc |-> "up", org |-> keys[k0].org, signer |-> boots']
        <4>1. replica' = [replica EXCEPT ![n] = r]
          BY <2>1, <3>2 DEF Boot
        <4>2. r.pc = "up" /\ r.org = keys[k0].org /\ k0 \in DevKey
          BY <3>2
        <4> HIDE DEF k0, r
        <4>3. r.org \in DOMAIN orgs /\ \A k \in DevKey : keys[k].org = r.org
          BY <4>2 DEF OneDev
        <4> QED
          BY <1>2, <2>1, <3>2, <4>1, <4>2, <4>3, ReplicaMoves DEF Boot, storeVars
      <3> QED
        BY <3>1, <3>2
    <2>2. ASSUME NEW n \in Replicas, FindOrg(n) PROVE Alike
      <3>0. orgs' = orgs /\ replica[n] \in Seeding
        BY <2>2 DEF FindOrg, storeVars, WebTypes
      <3>1. CASE Reusable = {}
        <4> DEFINE r == [replica[n] EXCEPT !.pc = "create"]
        <4>1. replica' = [replica EXCEPT ![n] = r]
          BY <2>2, <3>1, Zenon DEF FindOrg, Goto
        <4>2. r.pc = "create"
          BY <3>0 DEF Seeding
        <4> HIDE DEF r
        <4> QED
          BY <1>2, <3>0, <4>1, <4>2, ReplicaMoves
      <3>2. CASE ~(Reusable = {})
        <4>1. PICK o \in Reusable : replica' = [replica EXCEPT ![n] = [replica[n] EXCEPT !.pc = "key", !.org = o]]
          BY <2>2, <3>2, Zenon DEF FindOrg
        <4> DEFINE r == [replica[n] EXCEPT !.pc = "key", !.org = o]
        <4>2. r.pc = "key" /\ r.org = o
          BY <3>0 DEF Seeding
        <4>3. o \in DOMAIN orgs
          BY DEF Reusable, DevOrgs
        <4> HIDE DEF r
        <4>4. replica' = [replica EXCEPT ![n] = r]
          BY <4>1 DEF r
        <4> QED
          BY <1>2, <3>0, <4>2, <4>3, <4>4, ReplicaMoves
      <3> QED
        BY <3>1, <3>2
    <2>3. ASSUME NEW n \in Replicas, CreateOrg(n) PROVE Alike
      <3>1. orgs \in Seq(Names) /\ DevOrg \in Names /\ orgs' = Append(orgs, DevOrg) /\ replica[n] \in Seeding
        BY <2>3 DEF CreateOrg, InsertDevOrg, StoreTypes, Names, WebTypes
      <3>2. DOMAIN orgs \subseteq DOMAIN orgs' /\ Len(orgs') \in DOMAIN orgs'
        BY <3>1, RowAdded
      <3> DEFINE r == [replica[n] EXCEPT !.pc = "key", !.org = Len(orgs')]
      <3>3. replica' = [replica EXCEPT ![n] = r]
        BY <2>3, Zenon DEF CreateOrg
      <3>4. r.pc = "key" /\ r.org = Len(orgs')
        BY <3>1 DEF Seeding
      <3> HIDE DEF r
      <3> QED
        BY <1>2, <3>2, <3>3, <3>4, ReplicaMoves
    <2>4. ASSUME NEW n \in Replicas, CreateDevKey(n) PROVE Alike
      <3>1. ~(DevKey = {})
        BY <1>2, <2>4, SeedingSeeds DEF DevKeyKept
      <3>2. replica' = [replica EXCEPT ![n] = Down] /\ orgs' = orgs
        BY <2>4, <3>1, Zenon DEF CreateDevKey, Seeded
      <3> QED
        BY <1>2, <1>d, <3>2, ReplicaMoves
    <2>5. ASSUME NEW n \in Replicas, Stop(n) PROVE Alike
      BY <1>2, <1>d, <2>5, ReplicaMoves DEF Stop, storeVars
    <2>6. ASSUME NEW b \in Browsers, NEW n \in Replicas, DevLogin(b, n) PROVE Alike
      BY <2>0, <2>6, DevLoginInserts DEF DevLogin
    <2> QED
      BY <1>0, <2>0, <2>1, <2>2, <2>3, <2>4, <2>5, <2>6
         DEF DevStep, OnPage, vars, storeVars, webVars, Logout, LoadSetup, CreateKey, RevokeListed, Register
  <1> QED
    BY <1>1, <1>2, DevKeySteps

(* Two organisations named dev need two replicas that create at once. *)
LEMMA OneOrgUnlessRaced ==
  ASSUME PortalInv, mode = "dev", [Next]_vars, DevOrg \notin raced'
  PROVE  /\ \A o, p \in DOMAIN orgs' : o = p
         /\ \A n, p \in Replicas : replica'[n].pc = "create" /\ replica'[p].pc = "create" => n = p
         /\ \A n \in Replicas : replica'[n].pc = "create" => DOMAIN orgs' = {}
  <1> USE DEF PortalInv
  <1> DEFINE Single == /\ \A o, p \in DOMAIN orgs' : o = p
                       /\ \A n, p \in Replicas : replica'[n].pc = "create" /\ replica'[p].pc = "create" => n = p
                       /\ \A n \in Replicas : replica'[n].pc = "create" => DOMAIN orgs' = {}
  <1>0. DevStep
    BY DevSteps
  <1>1. DevOrg \notin raced
    BY <1>0 DEF DevStep, OnPage, vars, storeVars, webVars, Logout, LoadSetup, CreateKey, RevokeListed, DevLogin,
                Register, Boot, FindOrg, CreateOrg, CreateDevKey, Stop
  <1>2. /\ \A o, p \in DOMAIN orgs : o = p
        /\ \A n, p \in Replicas : replica[n].pc = "create" /\ replica[p].pc = "create" => n = p
        /\ \A n \in Replicas : replica[n].pc = "create" => DOMAIN orgs = {}
    BY <1>1 DEF OneDev
  <1>3. ASSUME orgs' = orgs, \A n \in Replicas : replica'[n].pc = "create" => replica[n].pc = "create" PROVE Single
    BY <1>2, <1>3
  <1>4. ASSUME NEW n \in Replicas, NEW r, r.pc # "create", replica' = [replica EXCEPT ![n] = r], orgs' = orgs
        PROVE Single
    <2>1. \A p \in Replicas : replica'[p].pc = "create" => replica[p].pc = "create"
      BY <1>4 DEF WebTypes
    <2> QED
      BY <1>3, <1>4, <2>1
  <1>d. Down.pc = "down"
    BY DEF Down
  <1>5. ASSUME NEW n \in Replicas, Boot(n) PROVE Single
    <2> DEFINE r == IF DevKey # {} THEN [pc |-> "up", org |-> keys[CHOOSE k \in DevKey : TRUE].org, signer |-> boots']
                    ELSE [pc |-> "org", org |-> 0, signer |-> boots']
    <2>1. replica' = [replica EXCEPT ![n] = r] /\ orgs' = orgs
      BY <1>5, Zenon DEF Boot, storeVars
    <2>2. r.pc # "create"
      OBVIOUS
    <2> HIDE DEF r
    <2> QED
      BY <1>4, <2>1, <2>2
  <1>6. ASSUME NEW n \in Replicas, FindOrg(n) PROVE Single
    <2>0. orgs' = orgs /\ replica[n] \in Seeding
      BY <1>6 DEF FindOrg, storeVars, WebTypes
    <2>1. CASE Reusable = {}
      <3> DEFINE r == [replica[n] EXCEPT !.pc = "create"]
      <3>1. replica' = [replica EXCEPT ![n] = r]
        BY <1>6, <2>1, Zenon DEF FindOrg, Goto
      <3> HIDE DEF r
      <3>2. \A p \in Replicas : p # n => replica'[p] = replica[p]
        BY <3>1 DEF WebTypes
      <3>3. \A p \in Replicas \ {n} : replica[p].pc # "create"
        BY <1>6 DEF FindOrg
      <3>4. DOMAIN orgs = {}
        BY <2>1 DEF Reusable, DevOrgs, Apart
      <3> QED
        BY <2>0, <3>2, <3>3, <3>4
    <2>2. CASE ~(Reusable = {})
      <3>1. PICK o \in Reusable : replica' = [replica EXCEPT ![n] = [replica[n] EXCEPT !.pc = "key", !.org = o]]
        BY <1>6, <2>2, Zenon DEF FindOrg
      <3> DEFINE r == [replica[n] EXCEPT !.pc = "key", !.org = o]
      <3>2. r.pc # "create"
        BY <2>0 DEF Seeding
      <3>3. replica' = [replica EXCEPT ![n] = r]
        BY <3>1
      <3> HIDE DEF r
      <3> QED
        BY <1>4, <2>0, <3>2, <3>3
    <2> QED
      BY <2>1, <2>2
  <1>7. ASSUME NEW n \in Replicas, CreateOrg(n) PROVE Single
    <2>1. orgs \in Seq(Names) /\ DevOrg \in Names /\ orgs' = Append(orgs, DevOrg) /\ replica[n] \in Seeding
      BY <1>7 DEF CreateOrg, InsertDevOrg, StoreTypes, Names, WebTypes
    <2>2. replica[n].pc = "create" /\ DOMAIN orgs = {}
      BY <1>2, <1>7 DEF CreateOrg
    <2>3. DOMAIN orgs' = {Len(orgs) + 1}
      BY <2>1, <2>2, RowAdded
    <2> DEFINE r == [replica[n] EXCEPT !.pc = "key", !.org = Len(orgs')]
    <2>4. replica' = [replica EXCEPT ![n] = r]
      BY <1>7, Zenon DEF CreateOrg
    <2>5. r.pc = "key"
      BY <2>1 DEF Seeding
    <2> HIDE DEF r
    <2>6. \A p \in Replicas : replica'[p].pc # "create"
      BY <1>2, <2>2, <2>4, <2>5 DEF WebTypes
    <2> QED
      BY <2>3, <2>6
  <1>8. ASSUME NEW n \in Replicas, CreateDevKey(n) PROVE Single
    <2> DEFINE r == [replica[n] EXCEPT !.pc = "up"]
    <2>1. replica' = [replica EXCEPT ![n] = Down] \/ replica' = [replica EXCEPT ![n] = r]
      BY <1>8, Zenon DEF CreateDevKey, Seeded
    <2>2. r.pc # "create"
      <3>1. replica[n] \in Seeding
        BY DEF WebTypes
      <3> QED
        BY <3>1 DEF Seeding
    <2>3. orgs' = orgs
      BY <1>8 DEF CreateDevKey
    <2> HIDE DEF r
    <2> QED
      BY <1>4, <1>d, <2>1, <2>2, <2>3
  <1>9. ASSUME NEW n \in Replicas, Stop(n) PROVE Single
    BY <1>4, <1>9, <1>d DEF Stop, storeVars
  <1>10. ASSUME NEW b \in Browsers, NEW n \in Replicas, DevLogin(b, n) PROVE Single
    <2>1. orgs' = orgs /\ replica' = replica
      BY <1>10, DevLoginInserts DEF DevLogin
    <2> QED
      BY <1>3, <2>1
  <1> QED
    BY <1>0, <1>3, <1>5, <1>6, <1>7, <1>8, <1>9, <1>10
       DEF DevStep, OnPage, vars, storeVars, webVars, Logout, LoadSetup, CreateKey, RevokeListed, Register
-----------------------------------------------------------------------------
(* Every step of the portal keeps the invariant. *)
LEMMA PortalInvNext == PortalInv /\ [Next]_vars => PortalInv'
  <1> SUFFICES ASSUME PortalInv, [Next]_vars PROVE PortalInv'
    OBVIOUS
  <1> USE DEF PortalInv
  <1>1. StoreTypes' /\ WebTypes' /\ FlowsTold'
    BY StoreTypesNext, WebTypesNext, FlowsToldNext
  <1>2. \A k, l \in DevKey' : k = l
    BY DevKeySteps DEF DevKeyKept, DevKeyMade, OneDev
  <1>3. CASE mode = "oidc"
    <2>1. OidcKept /\ mode' = "oidc"
      BY <1>3, OidcNext, OidcSteps DEF OidcInv
    <2>2. OneDev'
      BY <1>2, <2>1 DEF OneDev
    <2> QED
      BY <1>1, <2>1, <2>2 DEF OidcKept
  <1>4. CASE mode = "dev"
    <2>1. mode' = "dev"
      BY <1>4, DevSteps
    <2>2. Apart'
      BY <1>4, <2>1, ApartDev DEF Apart
    <2>3. Membership' /\ OnePerson'
      BY <1>4, DevMembers
    <2>4. OneDev'
      BY <1>2, <1>4, <2>1, SeededAlike, OneOrgUnlessRaced DEF OneDev
    <2> QED
      BY <1>1, <2>2, <2>3, <2>4
  <1> QED
    BY <1>3, <1>4 DEF WebTypes

(* The invariant holds always. *)
LEMMA PortalHolds == Spec => []PortalInv
  BY PortalInvInit, PortalInvNext, PTL DEF Spec

(* upsertMemberFromOIDC and the handlers over it: whatever fails, conflicts *)
(* or is lost between the statements, an organisation has a member, and a   *)
(* session is a member's.                                                   *)
THEOREM PortalMembershipHolds == Spec => []MembershipHolds
  <1>1. PortalInv => MembershipHolds
    <2> SUFFICES ASSUME PortalInv PROVE MembershipHolds
      OBVIOUS
    <2>1. NoOrphanOrg
      BY DEF PortalInv, WebTypes, Apart, NoOrphanOrg
    <2>2. SessionIsMember
      BY DEF PortalInv, Membership, SessionIsMember
    <2> QED
      BY <2>1, <2>2 DEF MembershipHolds
  <1> QED
    BY <1>1, PortalHolds, PTL

(* firstLoginOrLink gives a person one organisation through any number of *)
(* providers and browsers, unless two of their first logins overlap.      *)
THEOREM PortalOnePersonOneOrg == Spec => []OnePersonOneOrg
  <1>1. PortalInv => OnePersonOneOrg
    BY DEF PortalInv, OnePerson
  <1> QED
    BY <1>1, PortalHolds, PTL

(* Any number of replicas running EnsureDevKey, stopping between any two    *)
(* statements, agree on the key's tenant; dev-login shows it too unless two *)
(* of them seeded at once.                                                  *)
THEOREM PortalOneDevOrg == Spec => []OneDevOrg
  <1>1. PortalInv => OneDevOrg
    <2> SUFFICES ASSUME PortalInv PROVE OneDevOrg
      OBVIOUS
    <2>1. ReplicasAgree
      BY DEF PortalInv, OneDev, ReplicasAgree
    <2>2. ASSUME DevOrg \notin raced, NEW b \in Browsers, NEW s \in session[b], s.sub = DevSub, NEW k \in DevKey
          PROVE keys[k].org = s.org
      <3>1. CASE mode = "oidc"
        BY <2>2, <3>1, PortalAssumption DEF PortalInv, Apart
      <3>2. CASE mode = "dev"
        BY <2>2, <3>2 DEF PortalInv, Membership, OneDev
      <3> QED
        BY <3>1, <3>2 DEF PortalInv, WebTypes
    <2> QED
      BY <2>1, <2>2 DEF OneDevOrg, DevSeesDevData
  <1> QED
    BY <1>1, PortalHolds, PTL

(* resolveIdentity lets a browser's callback go on only through a flow     *)
(* started in that browser, and no later one of its own exists.            *)
THEOREM PortalLastFlowOnly == Spec => LastFlowOnly
  <1> DEFINE Own(b) == \E f \in flows \ flows' :
                          /\ f.by = b /\ f.sub = req'[b].sub
                          /\ \A later \in flows : later.by = b => later.state <= f.state
                          /\ \A c \in state[b] : c.state <= f.state
             Last == \A b \in Browsers : req[b].pc = "idle" /\ req'[b].pc # "idle" => Own(b)
  <1>1. ASSUME PortalInv, [Next]_vars PROVE Last
    <2>1. ASSUME NEW b \in Browsers, NEW f \in flows, NEW ok \in BOOLEAN, Callback(b, f, ok) PROVE Last
      <3>0. req \in [Browsers -> Handling]
        BY <1>1 DEF PortalInv, WebTypes
      <3>1. PICK c \in state[b] : c.prov = f.prov /\ c.state = f.state
        BY <2>1 DEF Callback, StateMatches
      <3>2. state[b] = {c} /\ f.by = b /\ \A g \in flows : g.by = b => g.state <= c.state
        BY <1>1, <3>1 DEF PortalInv, FlowsTold
      <3>3. c.state \in Nat
        BY <1>1, <3>1 DEF PortalInv, WebTypes
      <3>4. flows \ flows' = {f}
        BY <2>1 DEF Callback
      <3>5. \A d \in Browsers : req'[d].pc # "idle" /\ req[d].pc = "idle" => d = b /\ req'[d].sub = f.sub
        BY <2>1, <3>0 DEF Callback
      <3> QED
        BY <3>1, <3>2, <3>3, <3>4, <3>5
    <2>2. ASSUME \A b \in Browsers : req[b].pc = "idle" => req'[b].pc = "idle" PROVE Last
      BY <2>2
    <2>3. ASSUME NEW b \in Browsers, req[b].pc # "idle", NEW r, req' = [req EXCEPT ![b] = r] PROVE Last
      <3>1. \A d \in Browsers : req[d].pc = "idle" => req'[d] = req[d]
        BY <1>1, <2>3 DEF PortalInv, WebTypes
      <3> QED
        BY <2>2, <3>1
    <2>4. ASSUME NEW b \in Browsers, Lookup(b) \/ Link(b) \/ Fails(b) PROVE Last
      <3>1. req[b].pc # "idle" /\ \E r : req' = [req EXCEPT ![b] = r]
        BY <2>4 DEF Lookup, Link, Fails
      <3> QED
        BY <2>3, <3>1
    <2>5. ASSUME NEW b \in Browsers, NEW answered \in BOOLEAN, Insert(b, answered) PROVE Last
      <3>1. req[b].pc # "idle" /\ \E r : req' = [req EXCEPT ![b] = r]
        BY <2>5 DEF Insert
      <3> QED
        BY <2>3, <3>1
    <2>6. ASSUME NEW b \in Browsers, NEW issued \in BOOLEAN, NEW arrives \in BOOLEAN, FirstKey(b, issued, arrives)
          PROVE  Last
      <3>1. req[b].pc # "idle" /\ \E r : req' = [req EXCEPT ![b] = r]
        BY <2>6 DEF FirstKey
      <3> QED
        BY <2>3, <3>1
    <2>7. CASE UNCHANGED req
      BY <2>2, <2>7
    <2> HIDE DEF Last
    <2> QED
      BY <1>1, <2>1, <2>4, <2>5, <2>6, <2>7
         DEF Next, vars, storeVars, webVars, Start, Logout, LoadSetup, CreateKey, RevokeListed, DevLogin, Register,
             Boot, FindOrg, CreateOrg, CreateDevKey, Stop
  <1>2. PortalInv /\ [Next]_vars => [Last]_vars
    BY <1>1
  <1> QED
    BY <1>2, PortalHolds, PTL DEF Spec, LastFlowOnly

(* checkCSRF's tenant binding: a key is made or revoked only for the       *)
(* organisation of a page somebody shows, or of a first login in progress. *)
THEOREM PortalFormsActOnTheirTenant == Spec => FormsActOnTheirTenant
  <1> DEFINE Theirs == \A k \in DOMAIN keys' :
        (k \notin DOMAIN keys \/ keys'[k] # keys[k]) =>
            \/ keys'[k].dev /\ k \notin DOMAIN keys
            \/ \E b \in Browsers : \/ \E p \in page[b] : p.tenant = keys'[k].org
                                   \/ req[b].pc = "key" /\ req[b].org = keys'[k].org
  <1>1. ASSUME PortalInv, [Next]_vars PROVE Theirs
    <2>0. KeysStep /\ keys \in Seq(KeyRows)
      BY <1>1, KeysSteps DEF PortalInv, StoreTypes
    <2>1. CASE keys' = keys
      BY <2>1
    <2>2. ASSUME NEW r \in KeyRows, KeyAdded(r) PROVE Theirs
      <3>1. /\ DOMAIN keys' = DOMAIN keys \cup {Len(keys) + 1} /\ Len(keys) + 1 \notin DOMAIN keys
            /\ \A i \in DOMAIN keys : keys'[i] = keys[i]
            /\ keys'[Len(keys) + 1] = r
        <4>1. keys' = Append(keys, r)
          BY <2>2, Zenon DEF KeyAdded
        <4>2. /\ DOMAIN Append(keys, r) = DOMAIN keys \cup {Len(keys) + 1} /\ Len(keys) + 1 \notin DOMAIN keys
              /\ \A i \in DOMAIN keys : Append(keys, r)[i] = keys[i]
              /\ Append(keys, r)[Len(keys) + 1] = r
          BY <2>0, RowAdded
        <4> QED
          BY <4>1, <4>2, Zenon
      <3>2. r.dev \/ InHand(r.org)
        BY <2>2 DEF KeyAdded
      <3> QED
        BY <3>1, <3>2 DEF InHand
    <2>3. ASSUME NEW k \in DOMAIN keys, NEW r \in KeyRows, KeyUpdated(k, r) PROVE Theirs
      <3>1. DOMAIN keys' = DOMAIN keys /\ \A i \in DOMAIN keys : keys'[i] = IF i = k THEN r ELSE keys[i]
        BY <2>0, <2>3, RowUpdated DEF KeyUpdated
      <3>2. InHand(r.org)
        BY <2>3 DEF KeyUpdated
      <3> QED
        BY <3>1, <3>2 DEF InHand
    <2> QED
      BY <2>0, <2>1, <2>2, <2>3 DEF KeysStep
  <1>2. PortalInv /\ [Next]_vars => [Theirs]_vars
    BY <1>1
  <1> QED
    BY <1>2, PortalHolds, PTL DEF Spec, FormsActOnTheirTenant
=============================================================================
