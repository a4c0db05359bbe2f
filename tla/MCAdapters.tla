----------------------------- MODULE MCAdapters -----------------------------
(* One goroutine whose handlers write any number of times, early hints and *)
(* streaming included, and make outbound calls; the other only passes or   *)
(* panics.                                                                 *)
EXTENDS Adapters, TLC

CONSTANTS r1, r2

MCEnds == {e \in AllEnds : e.code \in {0, 404}}

MCHost ==
    (r1 :> [frameworks |-> {"nethttp", "chi", "gin", "echo", "beego"},
            ops |-> {Header(103), Header(404), Write, Flush}, ends |-> MCEnds,
            calls |-> {"c1", "c2"}, causes |-> {"canceled", "deadline"}]) @@
    (r2 :> [frameworks |-> {"nethttp"}, ops |-> {},
            ends |-> {e \in MCEnds : e.how \in {"nil", "panic"}}, calls |-> {}, causes |-> {}])
=============================================================================
