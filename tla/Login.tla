------------------------------- MODULE Login -------------------------------
(* What travels with a sign-in: the signed cookies (auth/session.go, auth.go) *)
(* the page the visitor asked for (safeNext), and the identity a provider     *)
(* vouches for (userinfo.go).  Text is a sequence of characters where its     *)
(* separators matter; a field is one of "|" free characters.  A MAC is the    *)
(* pair of its key and payload.                                               *)
EXTENDS Integers, Sequences, SequencesExt

Bar == "|"

HexDigits == {"0", "1", "2", "3", "4", "5", "6", "7", "8", "9", "a", "b", "c", "d", "e", "f",
              "A", "B", "C", "D", "E", "F"}

sign(key, payload) == [payload |-> payload, mac |-> <<key, payload>>]

\* readSignedCookie and the first half of decode: the payload, if the MAC is right.
verified(key, cookie) == cookie.mac = <<key, cookie.payload>>

\* strings.SplitN(s, "|", n): at most n parts, the last with the separators left.
SplitN(s, n) ==
    LET Put(parts, c) ==
            IF c = Bar /\ Len(parts) < n THEN Append(parts, << >>)
            ELSE [parts EXCEPT ![Len(parts)] = Append(@, c)]
    IN  FoldLeft(Put, <<<< >>>>, s)

\* strings.Split
Split(s) == SplitN(s, Len(s) + 1)

Join(fields) == FoldLeft(LAMBDA s, f : s \o <<Bar>> \o f, Head(fields), Tail(fields))

setStateCookie(key, provider, state, next) == sign(key, Join(<<provider, state, next>>))

\* Mutant: every separator splits.
readStateCookieSplit(key, cookie) ==
    LET parts == Split(cookie.payload)
    IN  IF ~verified(key, cookie) \/ Len(parts) < 2 THEN << >>
        ELSE <<parts[1], parts[2], IF Len(parts) >= 3 THEN parts[3] ELSE << >>>>

\* << >>, or provider, state and next.
readStateCookie(key, cookie) ==
    LET parts == SplitN(cookie.payload, 3)
    IN  IF ~verified(key, cookie) \/ Len(parts) < 2 THEN << >>
        ELSE <<parts[1], parts[2], IF Len(parts) = 3 THEN parts[3] ELSE << >>>>

\* The url.Parse of a path: a "%" starts an escape, of two hex digits.
Parses(next) ==
    \A i \in DOMAIN next : next[i] = "%" =>
        i + 2 <= Len(next) /\ {next[i + 1], next[i + 2]} \subseteq HexDigits

safeNext(next) ==
    IF \/ next = << >> \/ Head(next) # "/"
       \/ Len(next) > 1 /\ next[2] \in {"/", "\\"}
       \/ ~Parses(next)
    THEN <<"/">> ELSE next

\* handleStart to the redirect of handleCallback: where a sign-in ends.
Landing(key, provider, state, next) ==
    LET read == readStateCookie(key, setStateCookie(key, provider, state, safeNext(next)))
    IN  safeNext(read[3])
-----------------------------------------------------------------------------
\* strconv.FormatInt and ParseInt, in unary: digits, and so no separator.
FormatInt(n) == [i \in 1 .. n |-> "1"]

ParseInt(text) == Len(text)

encode(key, s) == sign(key, Join(<<s.org, s.member, s.role, FormatInt(s.exp)>>))

\* << >>, or the session.
decode(key, cookie, now) ==
    LET parts == Split(cookie.payload)
    IN  IF ~verified(key, cookie) \/ Len(parts) # 4 THEN << >>
        ELSE IF ~(ParseInt(parts[4]) > now) THEN << >>
        ELSE <<[org |-> parts[1], member |-> parts[2], role |-> parts[3], exp |-> ParseInt(parts[4])]>>
-----------------------------------------------------------------------------
\* Mutant: the first primary address is taken, verified or not.
githubIdentityPrimary(user) ==
    LET mine == SelectSeq(user.emails, LAMBDA e : e.primary)
    IN  IF user.id = 0 \/ mine = << >> THEN << >> ELSE <<[subject |-> <<"github", user.id>>, email |-> mine[1].email]>>

\* << >> is an error, from either request or for want of a verified address.
githubIdentity(user) ==
    LET mine == SelectSeq(user.emails, LAMBDA e : e.primary /\ e.verified)
    IN  IF user.id = 0 \/ mine = << >> THEN << >>
        ELSE IF mine[1].email = "" THEN << >>
        ELSE <<[subject |-> <<"github", user.id>>, email |-> mine[1].email]>>

googleIdentity(user) ==
    LET e == user.emails[1]
    IN  IF user.id = 0 \/ ~e.verified \/ e.email = "" THEN << >>
        ELSE <<[subject |-> <<"google", user.id>>, email |-> e.email]>>

httpUserinfo(provider, user) ==
    CASE provider = "github" -> githubIdentity(user)
      [] provider = "google" -> googleIdentity(user)
      [] OTHER -> << >>
-----------------------------------------------------------------------------
\* A sign-in ends at the page the visitor asked for, whatever characters its
\* address has, or at the front page where that page is not a path of this
\* site: what was accepted at the start is what the callback redirects to.
\* The session written there reads back as it was until the second it expires
\* and not from then on, and only under the key it was written with.
SignInHolds(next, s, now) ==
    LET to == Landing("k", <<"g">>, <<"s">>, next)
    IN  /\ to = safeNext(next) /\ Head(to) = "/"
        /\ decode("k", encode("k", s), now) = IF now < s.exp THEN <<s>> ELSE << >>
        /\ decode("other", encode("k", s), now) = << >>

\* A member is looked up only by an address its provider has verified, and
\* accounts of two providers, or two accounts of one, are never one subject.
IdentitiesVouched(user, other) ==
    \A p, q \in {"github", "google"} :
        LET mine == httpUserinfo(p, user)
            their == httpUserinfo(q, other)
        IN  /\ mine # << >> => \E i \in DOMAIN user.emails :
                   user.emails[i].verified /\ user.emails[i].email = mine[1].email /\ mine[1].email # ""
            /\ mine # << >> /\ their # << >> /\ mine[1].subject = their[1].subject
                   => p = q /\ user.id = other.id
=============================================================================
