----------------------------- MODULE OpThrottle -----------------------------
(***************************************************************************)
(* The throttles between a handler thread and the cache                    *)
(* (network_module.cpp, the *Cas functions and FinishCacheOps).            *)
(*                                                                         *)
(* An op that ProcessOpReq accepts is counted in lwtCount, in the count of *)
(* its class and in the bandwidth of its class, each with a compare-and-   *)
(* swap, and its handler polls each counter until it is low enough.  The   *)
(* cache threads take the op out of the three counters in FinishCacheOps.  *)
(* The counters are 64 bit and unsigned; Width stands for 2^64.            *)
(*                                                                         *)
(* A step is one atomic access: a compare-and-swap loop that succeeds is   *)
(* one step, the check before it another.  A poll that finds the counter   *)
(* too high changes nothing and is no step.                                *)
(***************************************************************************)
EXTENDS Integers, FiniteSets

CONSTANTS
  Handlers,     \* OpHandlerThreads, one per queue
  Ops,
  HandlerOf,    \* the handler an op's queue belongs to
  Kind,         \* what ProcessOpReq finds: see Kinds
  Length,       \* opreq->optionLength
  Throttle,     \* qosParam.saOpThrottle, 0: no limit
  OpThrottles,  \* per class, what Get{Write,Read}OpThrottle may return at a call
  BWThrottles,  \* per class, what Get{Write,Read}BWThrottle may return at a call
  Width         \* the counters are modulo Width

Classes == {"write", "read"}
Kinds == Classes \cup {"shortName", "poolOverflow"}

\* The bytes of the ops of S, and how many they are: the sum of their lengths.
Bytes(S) == UNION {{op} \X (1..Length[op]) : op \in S}
SumLength(S) == Cardinality(Bytes(S))

\* The counters do not overflow: no 2^64 ops and no 2^64 bytes are under way.
ASSUME ThrottleAssumption ==
  /\ IsFiniteSet(Handlers) /\ IsFiniteSet(Ops)
  /\ HandlerOf \in [Ops -> Handlers] /\ Kind \in [Ops -> Kinds] /\ Length \in [Ops -> Nat]
  /\ Throttle \in Nat
  /\ OpThrottles \in [Classes -> SUBSET Nat] /\ BWThrottles \in [Classes -> SUBSET Nat]
  /\ Width \in Nat /\ Width > Throttle + Cardinality(Ops)
  /\ (\A op \in Ops : Length[op] < Width) /\ SumLength(Ops) < Width

VARIABLES
  stage,      \* per op: where it is
  lwtCount,
  count,      \* lwtWriteCount, lwtReadCount
  bw          \* writeBW, readBW

vars == <<stage, lwtCount, count, bw>>

Goto(op, s) == stage' = [stage EXCEPT ![op] = s]

\* The stages an op goes through in its handler, and those in FinishCacheOps.
Getting == {"lwt", "lwtWait", "count", "countWait", "bw", "bwWait"}
Putting == {"putBW", "putBWCas", "putCount", "putCountCas", "putLwt"}

\* The handler's thread is inside the batch loop's turn for op.  A refused op
\* is finished by the handler itself.
InHandler(op) == \/ stage[op] \in Getting
                 \/ Kind[op] = "shortName" /\ stage[op] = "putLwt"

\* ProcessOpReq.  A short name is answered with FinishCacheOps and option
\* type 0 at once, which leaves PutlwtCas only.
ProcessOpReq(op) ==
  /\ stage[op] = "queued"
  /\ \A o \in Ops : InHandler(o) => HandlerOf[o] # HandlerOf[op]
  /\ Goto(op, CASE Kind[op] = "shortName" -> "putLwt"
                [] Kind[op] = "poolOverflow" -> "done"
                [] OTHER -> "lwt")
  /\ UNCHANGED <<lwtCount, count, bw>>

\* The op is counted and then, if oldCount, the value before, is too high,
\* waits.
GetlwtCas(op) ==
  /\ stage[op] = "lwt"
  /\ lwtCount' = IF Throttle = 0 THEN lwtCount ELSE (lwtCount + 1) % Width
  /\ Goto(op, IF Throttle = 0 \/ lwtCount <= Throttle THEN "count" ELSE "lwtWait")
  /\ UNCHANGED <<count, bw>>

\* Mutant: sleeps once, "if" for "while".
LwtSleptOnce(n) == n \in Nat

\* The test of the polling loop.
LwtLow(n) == n <= Throttle

LwtPoll(op) ==
  /\ stage[op] = "lwtWait" /\ LwtLow(lwtCount)
  /\ Goto(op, "count")
  /\ UNCHANGED <<lwtCount, count, bw>>

\* Mutant: sleeps once, whatever the counter is then.
PassesOnce(n, throttles) == n \in Nat

\* Some answer, or every answer, of the cache's Get...Throttle lets n pass.
Passes(n, throttles) == \E t \in throttles : t = 0 \/ n <= t
PassesAll(n, throttles) == \A t \in throttles : t = 0 \/ n <= t

\* Mutant: without a throttle nothing is counted (as in GetWritelwt).
CountedIfThrottled(op, throttles) == IF 0 \in throttles THEN 0 ELSE 1

\* What the class count grows by.  It is counted before the throttle is
\* compared with 0: the throttle may be turned on while ops are in flight.
Counted(op, throttles) == 1

\* GetWritelwtCas and GetReadlwtCas up to their polling loop.
GetClasslwt(op, c) ==
  /\ stage[op] = "count" /\ Kind[op] = c
  /\ count' = [count EXCEPT ![c] = (@ + Counted(op, OpThrottles[c])) % Width]
  /\ \E t \in OpThrottles[c] :
       Goto(op, IF t = 0 \/ count[c] <= t THEN "bw" ELSE "countWait")
  /\ UNCHANGED <<lwtCount, bw>>
GetWritelwtCas(op) == GetClasslwt(op, "write")
GetReadlwtCas(op) == GetClasslwt(op, "read")

CountPoll(op) ==
  /\ stage[op] = "countWait" /\ Passes(count[Kind[op]], OpThrottles[Kind[op]])
  /\ Goto(op, "bw")
  /\ UNCHANGED <<lwtCount, count, bw>>

\* GetWriteBWCas and GetReadBWCas; what passes is given to DoOneOps.
GetClassBW(op, c) ==
  /\ stage[op] = "bw" /\ Kind[op] = c
  /\ bw' = [bw EXCEPT ![c] = (@ + Length[op]) % Width]
  /\ \E t \in BWThrottles[c] :
       Goto(op, IF t = 0 \/ bw[c] <= t THEN "cache" ELSE "bwWait")
  /\ UNCHANGED <<lwtCount, count>>
GetWriteBWCas(op) == GetClassBW(op, "write")
GetReadBWCas(op) == GetClassBW(op, "read")

BWPoll(op) ==
  /\ stage[op] = "bwWait" /\ Passes(bw[Kind[op]], BWThrottles[Kind[op]])
  /\ Goto(op, "cache")
  /\ UNCHANGED <<lwtCount, count, bw>>
-----------------------------------------------------------------------------
\* OSA_FinishCacheOps, called by the cache (external) for an op it has run.
FinishCacheOps(op) ==
  /\ stage[op] = "cache"
  /\ Goto(op, "putBW")
  /\ UNCHANGED <<lwtCount, count, bw>>

\* PutWriteBWCas, PutReadBWCas: the check, then the compare-and-swap.  If the
\* bandwidth has fallen below the length in between, the first exchange still
\* goes ahead and wraps, a repeated one gives up.
PutClassBW(op, c) ==
  /\ Kind[op] = c
  /\ \/ /\ stage[op] = "putBW"
        /\ Goto(op, IF bw[c] < Length[op] THEN "putCount" ELSE "putBWCas")
        /\ UNCHANGED bw
     \/ /\ stage[op] = "putBWCas"
        /\ \E v \in {(bw[c] - Length[op]) % Width}
                      \cup (IF bw[c] < Length[op] THEN {bw[c]} ELSE {}) :
             bw' = [bw EXCEPT ![c] = v]
        /\ Goto(op, "putCount")
  /\ UNCHANGED <<lwtCount, count>>
PutWriteBWCas(op) == PutClassBW(op, "write")
PutReadBWCas(op) == PutClassBW(op, "read")

\* PutWritelwtCas, PutReadlwtCas.
PutClasslwt(op, c) ==
  /\ Kind[op] = c
  /\ \/ /\ stage[op] = "putCount"
        /\ Goto(op, IF count[c] = 0 THEN "putLwt" ELSE "putCountCas")
        /\ UNCHANGED count
     \/ /\ stage[op] = "putCountCas"
        /\ \E v \in {(count[c] - 1) % Width} \cup (IF count[c] = 0 THEN {0} ELSE {}) :
             count' = [count EXCEPT ![c] = v]
        /\ Goto(op, "putLwt")
  /\ UNCHANGED <<lwtCount, bw>>
PutWritelwtCas(op) == PutClasslwt(op, "write")
PutReadlwtCas(op) == PutClasslwt(op, "read")

\* Mutant: PutlwtCas stops at 0, as the class counters do.
DecrementStopsAt0(n) == IF n = 0 THEN 0 ELSE n - 1

\* oldCount - 1 in PutlwtCas.
Decrement(n) == (n - 1) % Width

\* Mutant: only refused ops put.
PutlwtCasSkipped(op) ==
  /\ stage[op] = "putLwt"
  /\ lwtCount' = IF Kind[op] = "shortName" THEN Decrement(lwtCount) ELSE lwtCount
  /\ Goto(op, "done")
  /\ UNCHANGED <<count, bw>>

PutlwtCas(op) ==
  /\ stage[op] = "putLwt"
  /\ lwtCount' = IF Throttle = 0 THEN lwtCount ELSE Decrement(lwtCount)
  /\ Goto(op, "done")
  /\ UNCHANGED <<count, bw>>
-----------------------------------------------------------------------------
Init ==
  /\ stage = [op \in Ops |-> "queued"]
  /\ lwtCount = 0
  /\ count = [c \in Classes |-> 0] /\ bw = [c \in Classes |-> 0]

Finish(op) ==
  \/ PutWriteBWCas(op) \/ PutReadBWCas(op) \/ PutWritelwtCas(op) \/ PutReadlwtCas(op)
  \/ PutlwtCas(op)

Next == \E op \in Ops :
  \/ ProcessOpReq(op)
  \/ GetlwtCas(op) \/ LwtPoll(op)
  \/ GetWritelwtCas(op) \/ GetReadlwtCas(op) \/ CountPoll(op)
  \/ GetWriteBWCas(op) \/ GetReadBWCas(op) \/ BWPoll(op)
  \/ FinishCacheOps(op) \/ Finish(op)

Spec == Init /\ [][Next]_vars

\* A step the thread of handler h is bound to take.  A poll of a class counter
\* is bound to succeed only if every answer of the cache would let it.
HandlerStep(h) == \E op \in Ops : HandlerOf[op] = h /\
  \/ ProcessOpReq(op)
  \/ GetlwtCas(op) \/ LwtPoll(op)
  \/ GetWritelwtCas(op) \/ GetReadlwtCas(op) \/ GetWriteBWCas(op) \/ GetReadBWCas(op)
  \/ CountPoll(op) /\ PassesAll(count[Kind[op]], OpThrottles[Kind[op]])
  \/ BWPoll(op) /\ PassesAll(bw[Kind[op]], BWThrottles[Kind[op]])

\* Threads keep running and the cache finishes what it is given.
Fairness ==
  /\ \A h \in Handlers : WF_vars(HandlerStep(h))
  /\ \A op \in Ops : WF_vars(FinishCacheOps(op) \/ Finish(op))

FairSpec == Spec /\ Fairness
-----------------------------------------------------------------------------
\* The types of the variables: the counters stay in their width.
TypeOK ==
  /\ stage \in [Ops -> Getting \cup Putting \cup {"queued", "cache", "done"}]
  /\ lwtCount \in 0..(Width - 1)
  /\ count \in [Classes -> 0..(Width - 1)]
  /\ bw \in [Classes -> 0..(Width - 1)]

\* The ops that are in each counter, and the refused ops that were taken out
\* of lwtCount without ever having been in it.
Accepted == {op \in Ops : Kind[op] \in Classes}
InLwt == {op \in Accepted : stage[op] \notin {"queued", "lwt", "done"}}
Unmatched == {op \in Ops : Kind[op] = "shortName" /\ stage[op] = "done"}
InCount(c) == {op \in InLwt : Kind[op] = c /\ stage[op] \notin {"lwtWait", "count", "putLwt"}}
InBW(c) == {op \in InCount(c) : stage[op] \notin {"countWait", "bw", "putCount", "putCountCas"}}

\* Ops past GetlwtCas, and ops past the bandwidth throttle, not yet put back.
Admitted == {op \in InLwt : stage[op] # "lwtWait"}
WithCache(c) == {op \in InBW(c) : stage[op] # "bwWait"}

\* lwtCount is the number of ops between GetlwtCas and PutlwtCas, less the
\* PutlwtCas calls of refused ops, which have no GetlwtCas; modulo 2^64.
LwtLedger ==
  lwtCount = IF Throttle = 0 THEN 0
             ELSE (Cardinality(InLwt) - Cardinality(Unmatched)) % Width

\* The class counters are exact whatever the cache answers for the throttles
\* and however often it turns them on and off: what Get has added, Put takes
\* away, and the checks for 0 and for a low bandwidth never make Put return.
ClassLedger == \A c \in Classes :
  /\ count[c] = Cardinality(InCount(c))
  /\ bw[c] = SumLength(InBW(c))

\* No more than saOpThrottle + 1 accepted ops are past GetlwtCas (the first
\* test is made on the value before the op's own increment), plus one for
\* each op refused so far.
AdmissionBound ==
  Throttle # 0 => Cardinality(Admitted) <= Throttle + 1 + Cardinality(Unmatched)

\* Where the bandwidth throttle is always on, what the cache works on
\* overshoots an answer of Get{Write,Read}BWThrottle by one op's length at most.
BandwidthBound == \A c \in Classes :
  0 \notin BWThrottles[c] /\ WithCache(c) # {} =>
    \E t \in BWThrottles[c], op \in Ops : SumLength(WithCache(c)) <= t + Length[op]

\* The ops whose handlers sleep and look again.  Each is in the counter its
\* handler polls.
Polling == {op \in Ops : stage[op] \in {"lwtWait", "countWait", "bwWait"}}

\* What the sleeping handlers alone have added to the counter that op's handler
\* polls is too much for the throttle: the cache can finish whatever it has and
\* the handler sleeps on.
PollsItself(op) ==
  \/ /\ stage[op] = "lwtWait"
     /\ Cardinality(InLwt \cap Polling) > Throttle + Cardinality(Unmatched)
  \/ /\ stage[op] = "countWait"
     /\ ~PassesAll(Cardinality(InCount(Kind[op]) \cap Polling), OpThrottles[Kind[op]])
  \/ /\ stage[op] = "bwWait"
     /\ ~PassesAll(SumLength(InBW(Kind[op]) \cap Polling), BWThrottles[Kind[op]])

\* A set of ops with one at most for each handler, and throttles that, where
\* they are on, leave room for such a set.
Apart(S) == \A o1, o2 \in S : HandlerOf[o1] = HandlerOf[o2] => o1 = o2
Roomy ==
  /\ Throttle # 0 => Cardinality(Handlers) <= Throttle
  /\ \A c \in Classes : PassesAll(Cardinality(Handlers), OpThrottles[c])
  /\ \A c \in Classes, S \in SUBSET Ops : Apart(S) => PassesAll(SumLength(S), BWThrottles[c])

\* In the end every op is finished, or its handler polls for ever a counter
\* that the sleeping handlers themselves keep too high.  Nothing else makes a
\* handler poll for ever: no drift of the counters, no throttle switched on
\* late, no decrement that returns early.
EveryOpFinishes == <>[](\A op \in Ops :
  \/ stage[op] = "done"
  \/ \E o \in Ops : HandlerOf[o] = HandlerOf[op] /\ PollsItself(o))
=============================================================================
