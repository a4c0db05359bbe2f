---------------------------- MODULE ClientConfig ----------------------------
(* The ingest key (proto/token) and the client's configuration                *)
(* (client/config.go).  An origin is its scheme and the labels of its host;   *)
(* a token is its prefix and its segments between dots.  A segment knows the  *)
(* origins it decodes to as base64url (none or one).                          *)
EXTENDS Integers, Sequences, SequencesExt

NoOrigin == [scheme |-> "", host |-> << >>]

Text(t) == [text |-> t, decodes |-> {}]

Base64(origin) == [text |-> "b64", decodes |-> {origin}]

EmptyToken == [prefixed |-> FALSE, segments |-> <<Text("")>>]

Encode(origin, secret) ==
    IF origin = NoOrigin THEN [prefixed |-> TRUE, segments |-> <<Text(secret)>>]
    ELSE [prefixed |-> TRUE, segments |-> <<Base64(origin), Text(secret)>>]

Undecodable == [origin |-> NoOrigin, secret |-> << >>, ok |-> FALSE]

decodeStructured(first, rest) ==
    IF first.decodes = {} \/ rest = <<Text("")>> THEN Undecodable
    ELSE [origin |-> CHOOSE o \in first.decodes : TRUE, secret |-> rest, ok |-> TRUE]

\* Mutant: a dot splits a key with no prefix as well.
DecodeAnyDot(tok) ==
    IF tok = EmptyToken THEN Undecodable
    ELSE IF Len(tok.segments) > 1 THEN decodeStructured(Head(tok.segments), Tail(tok.segments))
    ELSE IF tok.segments = <<Text("")>> THEN Undecodable
    ELSE [origin |-> NoOrigin, secret |-> tok.segments, ok |-> TRUE]

Decode(tok) ==
    IF tok = EmptyToken THEN Undecodable
    ELSE IF tok.prefixed /\ Len(tok.segments) > 1
    THEN decodeStructured(Head(tok.segments), Tail(tok.segments))
    ELSE IF tok.segments = <<Text("")>> THEN Undecodable
    ELSE [origin |-> NoOrigin, secret |-> tok.segments, ok |-> TRUE]
-----------------------------------------------------------------------------
defaultEndpoint == [scheme |-> "https", host |-> <<"www", "mapi-ng", "com">>]

validOrigin(o) == o.scheme \in {"http", "https"} /\ o.host # << >>

\* The last two labels of a host.
registrableDomain(o) ==
    IF Len(o.host) < 2 THEN o.host ELSE SubSeq(o.host, Len(o.host) - 1, Len(o.host))

originIsTrusted(o, optIn) == optIn \/ IsSuffix(registrableDomain(defaultEndpoint), o.host)

\* Mutant: the embedded origin wins over the environment.
resolveEndpointKeyFirst(opt, env, key, optIn) ==
    LET d == Decode(key)
    IN  IF opt # NoOrigin THEN opt
        ELSE IF d.ok /\ validOrigin(d.origin) /\ originIsTrusted(d.origin, optIn) THEN d.origin
        ELSE IF env # NoOrigin THEN env ELSE defaultEndpoint

resolveEndpoint(opt, env, key, optIn) ==
    LET d == Decode(key)
    IN  IF opt # NoOrigin THEN opt
        ELSE IF env # NoOrigin THEN env
        ELSE IF d.ok /\ validOrigin(d.origin) /\ originIsTrusted(d.origin, optIn) THEN d.origin
        ELSE defaultEndpoint

firstNonEmpty(vs) ==
    LET set == {i \in DOMAIN vs : vs[i] # ""} IN
    IF set = {} THEN "" ELSE vs[CHOOSE i \in set : \A j \in set : i <= j]

deriveService(env) == firstNonEmpty(<<env.service, env.otel, "binary">>)

\* osHostname is << >> for an error, or the name.
deriveInstance(env) ==
    LET v == firstNonEmpty(<<env.instance, env.hostname>>)
    IN  IF v # "" THEN v ELSE IF env.osHostname # << >> THEN env.osHostname[1] ELSE "unknown"

deriveDeployID(env) == firstNonEmpty(<<env.deployID, env.vcs>>)

\* flush is the parsed MAPING_FLUSH_SECONDS, 0 when absent or unparseable.
deriveFlushWindow(env) == IF env.flush <= 0 THEN 10 ELSE env.flush

\* The labels copied from one variable (DeployVersion, Environment, Region) are
\* resolved as deployVersion is.
resolveConfig(opt, env) ==
    LET Over(o, derived) == IF o # "" THEN o ELSE derived
        key == IF opt.key # EmptyToken THEN opt.key ELSE env.key
    IN  [key |-> key,
         service |-> Over(opt.service, deriveService(env)),
         instance |-> Over(opt.instance, deriveInstance(env)),
         deployID |-> Over(opt.deployID, deriveDeployID(env)),
         deployVersion |-> Over(opt.deployVersion, env.deployVersion),
         flushWindow |-> IF opt.flush > 0 THEN opt.flush ELSE deriveFlushWindow(env),
         endpoint |-> resolveEndpoint(opt.endpoint, env.endpoint, key, env.trust)]
-----------------------------------------------------------------------------
\* The three forms of a key decode to what they were made of: an issued key to
\* its origin and secret, an unprefixed one (dots included) to itself.
KeysDecode(origin, secret, legacy) ==
    /\ Decode(Encode(origin, secret)) = [origin |-> origin, secret |-> <<Text(secret)>>, ok |-> TRUE]
    /\ legacy # EmptyToken /\ ~legacy.prefixed =>
           Decode(legacy) = [origin |-> NoOrigin, secret |-> legacy.segments, ok |-> TRUE]

\* The operator's explicit endpoint always wins; without one telemetry goes to
\* the origin embedded in the very key that is sent, never to that of a key
\* that lost, to a valid origin, and outside the service's domain only on
\* opt-in.  The resolved service is never empty, the instance only on a host
\* whose own name is, and the window is positive.
ConfigResolves(opt, env) ==
    LET c == resolveConfig(opt, env)
        explicit == IF opt.endpoint # NoOrigin THEN opt.endpoint ELSE env.endpoint
    IN  /\ explicit # NoOrigin => c.endpoint = explicit
        /\ explicit = NoOrigin /\ c.endpoint # defaultEndpoint =>
               /\ \E s \in {c.key.segments[1]} : c.endpoint \in s.decodes
               /\ env.trust \/ SubSeq(c.endpoint.host, Len(c.endpoint.host) - 1, Len(c.endpoint.host))
                                   = <<"mapi-ng", "com">>
        /\ explicit = NoOrigin => validOrigin(c.endpoint)
        /\ c.service # "" /\ c.flushWindow > 0
        /\ c.instance = "" => env.osHostname = <<"">>
=============================================================================
