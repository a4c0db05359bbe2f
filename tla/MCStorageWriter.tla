-------------------------- MODULE MCStorageWriter --------------------------
(* Three summary rows, two instance-window rows and a row with no tenant.  *)
EXTENDS StorageWriter

CONSTANTS r1, r2, r3, w1, w2, z

MCStreamOf == [r \in Rows |-> IF r \in {w1, w2} THEN InstanceWindows ELSE Summaries]
=============================================================================
