------------------------------ MODULE MCServer ------------------------------
(* Three rows of the stream the batcher flushes second: enough to fill a   *)
(* channel of two and block an Enqueue.  One handler and one job use the   *)
(* pool.                                                                   *)
EXTENDS Server

CONSTANTS w1, w2, w3, job

MCStreamOf == [r \in Rows |-> InstanceWindows]
=============================================================================
