---------------------------- MODULE MCOpThrottle ----------------------------
(* Instances of OpThrottle: two or three handlers, five or six ops. *)
EXTENDS OpThrottle, TLC

CONSTANTS h1, h2, h3, o1, o2, o3, o4, o5, o6

MCHandlerOf ==
  [op \in Ops |-> CASE op \in {o1, o2, o3} -> h1 [] op \in {o4, o5} -> h2 [] OTHER -> h3]
MCLength == [op \in Ops |-> CASE op = o2 -> 1 [] op = o3 -> 3 [] op = o5 -> 0 [] OTHER -> 2]

\* Two handlers write, one of them has an op that is refused, the third reads.
\* The throttles are low enough for every kind of wait to become one of the
\* handlers for themselves: three handlers against saOpThrottle 2, two writers
\* against the op throttle 1, and o3, longer than the bandwidth throttle 2.
MCKind == [op \in Ops |-> CASE op = o5 -> "shortName" [] op = o6 -> "read" [] OTHER -> "write"]
MCOpThrottles == ("write" :> {0, 1}) @@ ("read" :> {1})
MCBWThrottles == ("write" :> {2}) @@ ("read" :> {0, 2})

\* All throttles off but saOpThrottle.
Off == [c \in Classes |-> {0}]
\* Three refused ops and then ordinary ones, on one handler or two.
RefuseKind == [op \in Ops |-> IF op \in {o1, o2, o4} THEN "shortName" ELSE "write"]
=============================================================================
