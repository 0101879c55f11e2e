------------------------------ MODULE MCOpQueue ------------------------------
(* Instances of OpQueue: two messengers, capacity 1. *)
EXTENDS OpQueue, TLC

CONSTANTS p1, p2, o1, o2, o3, o4

MCVia == (o1 :> p1) @@ (o2 :> p1) @@ (o3 :> p2) @@ (o4 :> p2)

\* One queue and four ops, so that producers find it full: a copyup with ops
\* behind it, a name and a pool id that are refused; one op of each messenger
\* has a write under QoS.
OneObj  == [op \in Ops |-> "a"]
OneHash == ("a" :> 1)
OneKind == (o1 :> "copyup") @@ (o2 :> "plain") @@ (o3 :> "shortName") @@ (o4 :> "poolOverflow")

\* One messenger and reads only, for the stop protocol.
StopVia == [op \in Ops |-> p1]
StopKind == [op \in Ops |-> "plain"]
=============================================================================
