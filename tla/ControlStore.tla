---------------------------- MODULE ControlStore ----------------------------
(***************************************************************************)
(* The control plane's Postgres tables and the statements of               *)
(* internal/control on them.  A row's id is its place in its table, which  *)
(* is also its creation order.  oidc_subject and key_hash are unique,      *)
(* emails and organisation names are not; every organisation of this build *)
(* is on the free plan.                                                    *)
(***************************************************************************)
EXTENDS Integers, Sequences, FiniteSets

CONSTANTS
    Subjects,   \* oidc_subject values
    EmailOf,    \* the verified email of each
    Lower       \* lower() on emails

VARIABLES
    orgs,       \* sequence of organisation names
    members,    \* set of [sub, org]; every member is an admin
    keys,       \* sequence of [org, revoked]
    sources     \* organisations with a row in handshakes

storeVars == <<orgs, members, keys, sources>>

DevOrg  == "dev"
DevSub  == "dev:admin"
Of(sub) == IF sub = DevSub THEN "dev@maping.local" ELSE EmailOf[sub]
-----------------------------------------------------------------------------
(* upsertMemberFromOIDC: the member with this subject. *)
Member(sub) == {m \in members : m.sub = sub}

\* Mutant: emails are compared as the provider wrote them.
SameEmailExact(s, t) == Of(s) = Of(t)

\* lower(email) = lower($1)
SameEmail(s, t) == Lower[Of(s)] = Lower[Of(t)]

(* firstLoginOrLink: the oldest organisation with a member of this email, *)
(* 0 when there is none.                                                  *)
LinkTarget(sub) ==
    LET found == {m.org : m \in {m \in members : SameEmail(m.sub, sub)}}
    IN IF found = {} THEN 0 ELSE CHOOSE o \in found : \A p \in found : o <= p

\* Mutant: the organisation is inserted outside the transaction.
RolledBackOrgKept(sub, org) == orgs' = IF org = 0 THEN Append(orgs, Of(sub)) ELSE orgs

\* upsertMemberFromOIDC: the deferred Rollback, after the inserts that went through
RolledBack(sub, org) == orgs' = orgs

(* firstLoginOrLink: insert the member, and its organisation when there is *)
(* none to link to, in one transaction; a second member with the subject   *)
(* violates the unique constraint and rolls both back.                     *)
Inserted(sub, org) ==
    IF Member(sub) # {} THEN UNCHANGED <<orgs, members>>
    ELSE /\ orgs' = IF org = 0 THEN Append(orgs, Of(sub)) ELSE orgs
         /\ members' = members \cup {[sub |-> sub, org |-> IF org = 0 THEN Len(orgs') ELSE org]}

(* issueKey *)
IssueKey(org) == keys' = Append(keys, [org |-> org, revoked |-> FALSE, dev |-> FALSE])

(* revokeKey: an active key of the organisation, else nothing. *)
RevokeKey(org, k) ==
    keys' = IF keys[k].org = org THEN [keys EXCEPT ![k].revoked = TRUE] ELSE keys

(* ListKeys *)
ListKeys(org) == {k \in DOMAIN keys : keys[k].org = org}

(* recordHandshake, an upsert *)
RecordHandshake(org) == sources' = sources \cup {org}

(* onboardingState *)
Connected(org) == org \in sources
-----------------------------------------------------------------------------
(* ensureDevKey's statements: the seeded key, the organisations of that    *)
(* name (LIMIT 1 returns any of them), and the two inserts.                *)
DevKey  == {k \in DOMAIN keys : keys[k].dev}
DevOrgs == {o \in DOMAIN orgs : orgs[o] = DevOrg}

InsertDevOrg == orgs' = Append(orgs, DevOrg)

InsertDevKey(org) == keys' = Append(keys, [org |-> org, revoked |-> FALSE, dev |-> TRUE])
=============================================================================
