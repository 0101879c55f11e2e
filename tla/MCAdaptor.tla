----------------------------- MODULE MCAdaptor -----------------------------
(* Two classes that clients may call share dependencies: rgw needs a and b, *)
(* a needs b, lock needs b. b exports no __cls_init; lock is not in the     *)
(* load list.                                                               *)
EXTENDS Adaptor, TLC

CONSTANTS rgw, lock, a, b, t1, t2

MCClasses == {rgw, lock, a, b}
MCDeps == (rgw :> {a, b}) @@ (lock :> {b}) @@ (a :> {b}) @@ (b :> {})
MCInits == {rgw, lock, a}
MCLoadList == {rgw, a}
MCClassList == <<rgw, lock>>
MCCallers == {t1, t2}
=============================================================================
