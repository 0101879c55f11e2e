---------------------------- MODULE MCIoWorkers ----------------------------
(* Instances of IoWorkers: two callers and one pool. *)
EXTENDS IoWorkers, TLC

CONSTANTS c1, c2, o1, o2, o3, u1, u2

MCCallerOf == [op \in Ops |-> IF op \in {o1, o3} THEN c1 ELSE c2]

\* Three ops race for one pool.
OnePool == [op \in Ops |-> 1]

\* One user gets its context by id, as the worker does, the other without a table.
MCUserPool == [u \in Users |-> 1]
MCUserTable == [u \in Users |-> IF u = u1 THEN "id" ELSE "ceph"]
=============================================================================
