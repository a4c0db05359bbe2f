----------------------------- MODULE MCQueries -----------------------------
EXTENDS Queries, TLC

MCWidth == [raw |-> 1] @@ ("1m" :> 2) @@ ("1h" :> 4) @@ ("1d" :> 4)

MCTTL == [raw |-> 2, windows |-> 2] @@ ("1m" :> 3) @@ ("1h" :> 5) @@ ("1d" :> 16)

MCMaxSpan == [raw |-> 1] @@ ("1m" :> 3) @@ ("1h" :> 5)

\* Two instances and two releases of one endpoint, a healthy class (once with a
\* label, and calls that overlapped) and a refused one, and a second endpoint
\* answered without a status.
Healthy == [service |-> "s", ep |-> "a", inst |-> "i1", ver |-> "v1", class |-> "2XX",
            err |-> "", reason |-> "", lat |-> 1, ds |-> 0]

Replica == [Healthy EXCEPT !.inst = "i2", !.lat = 2, !.ds = 3, !.err = "retried"]

Client == [Healthy EXCEPT !.class = "4XX", !.err = "bad", !.lat = 2, !.ver = "v2"]

Aborted == [Healthy EXCEPT !.ep = "b", !.class = "NO_STATUS", !.reason = "gone"]

MCTraffic == [tenant : {"t1"}, of : {Healthy, Replica, Client, Aborted}]
             \union {[tenant |-> "t2", of |-> Healthy]}
=============================================================================
