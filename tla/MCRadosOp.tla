----------------------------- MODULE MCRadosOp -----------------------------
(* Chains of two entries per SGL: a full chain, one with entries shorter    *)
(* than a page, and one whose first SGL is not full.                        *)
EXTENDS RadosOp

MCChains == {<<<<2, 2>>, <<2>>>>, <<<<1, 2>>, <<1>>>>, <<<<2>>, <<1, 2>>>>}
MCLens == {0, 1, 3, 5}
=============================================================================
