---------------------------- MODULE MCRbdClient ----------------------------
(* Instances of RbdClient: two threads, or three. *)
EXTENDS RbdClient

CONSTANTS t1, t2, t3
=============================================================================
