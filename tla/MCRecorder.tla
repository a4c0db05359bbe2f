----------------------------- MODULE MCRecorder -----------------------------
(* Instances of Recorder: o2 is of a second series, in a second shard.     *)
EXTENDS Recorder

CONSTANTS o1, o2, o3, o4, s1, s2

MCSeries   == {s1, s2}
MCSeriesOf == [o \in Obs |-> IF o = o2 THEN s2 ELSE s1]
MCShardOf  == [s \in MCSeries |-> IF s = s1 THEN 1 ELSE 2]
=============================================================================
