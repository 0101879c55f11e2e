-------------------------- MODULE IoWorkersProofs --------------------------
(***************************************************************************)
(* Proofs about IoWorkers, for any callers, ops, pools and users, any      *)
(* limit of the queues and any faults.                                     *)
(***************************************************************************)
EXTENDS IoWorkers, SequenceTheorems, WellFoundedInduction, TLAPS

\* The ops a worker has been given and has not handed on, in order.
Batch(w) == ls[w] \o queue[w]

InPut(op) == call[op] \in {"create", "push"}
AtWork == {"lookup", "make", "insert", "use"}
Over == {"clear", "closing", "down"}

\* A Queue call past the check has a pool, is over when Shutdown begins, and
\* pushes to the worker the pool has. A pool's worker has the pool's ops.
CallInv ==
  /\ \A op \in Ops : call[op] \in {"create", "push", "accepted"} => OpPool[op] \in Pools
  /\ \A op \in Ops : InPut(op) => mpc = "up"
  /\ \A op \in Ops : call[op] = "push" => target[op] \in Workers /\ target[op] = ioWorkers[OpPool[op]]
  /\ \A p \in Pools : ioWorkers[p] \in Workers =>
       OpPool[ioWorkers[p]] = p /\ pc[ioWorkers[p]] # "none"
  /\ \A w \in Workers : call[w] \in {"new", "create"} => pc[w] = "none"

\* A thread that has a batch is at work on it, and only such a thread has one.
WorkerInv == \A w \in Workers :
  /\ ls[w] # <<>> => running[w]
  /\ running[w] => pc[w] \in AtWork
  /\ pc[w] \in {"make", "insert", "use"} => ls[w] # <<>>

\* Ops are accepted once and are in one place: with the worker of their pool, or
\* handed on in it. While a worker has an op nobody has completed it.
BatchInv ==
  /\ \A w \in Workers : Batch(w) # <<>> => OpPool[w] \in Pools /\ ioWorkers[OpPool[w]] = w
  /\ \A w \in Workers : IsInjective(Batch(w))
  /\ \A w \in Workers : \A op \in Range(Batch(w)) :
       /\ call[op] = "accepted" /\ OpPool[op] = OpPool[w]
       /\ completions[op] = 0 /\ op \notin inflight
  /\ \A p \in Pools : \A op \in Range(handled[p]) : call[op] = "accepted"
  /\ \A op \in inflight : call[op] = "accepted"
  /\ \A op \in Ops : call[op] = "accepted" =>
       \/ op \in Range(handled[OpPool[op]])
       \/ /\ ioWorkers[OpPool[op]] \in Workers
          /\ op \in Range(Batch(ioWorkers[OpPool[op]]))

\* A worker that Shutdown has found empty stays empty.
Idle(w) == queue[w] = <<>> /\ ~running[w]

\* Shutdown goes through the pools in order: what lies behind it has been
\* joined, and in the end nothing is left.
StopInv ==
  /\ mpc \in {"empty", "emptyWait", "stopProc", "join"} =>
       /\ ioWorkers[mi] \in Workers
       /\ \A p \in Pools : p < mi /\ ioWorkers[p] \in Workers =>
            Idle(ioWorkers[p]) /\ Joined(ioWorkers[p])
  /\ mpc \in {"stopProc", "join"} => Idle(ioWorkers[mi])
  /\ mpc \in Over => \A p \in Pools : ioWorkers[p] = None
  /\ mpc \notin Over => \A w \in Workers : pc[w] # "none" =>
       OpPool[w] \in Pools /\ ioWorkers[OpPool[w]] = w
  /\ mpc \in Over => \A w \in Workers : pc[w] \in {"none", "nothread", "done"}
  /\ \A w \in Workers : stop[w] => mpc # "up" /\ Idle(w)

\* A user is in no call once Shutdown has begun, and looks at a table only if
\* its call has one.
CtxInv ==
  /\ mpc # "up" => \A u \in Users : pc[u] \in {"idle", "use", "gone"}
  /\ \A u \in Users : pc[u] \in {"lookup", "insert"} => UserTable[u] # "ceph"

IoInv == TypeOK /\ CallInv /\ WorkerInv /\ BatchInv /\ StopInv /\ CtxInv /\ CompletedOnce
-----------------------------------------------------------------------------
(* Ops in sequences.                                                       *)

\* Putting an element at the end of two sequences one after the other.
LEMMA AppendFacts ==
  ASSUME NEW S, NEW s \in Seq(S), NEW t \in Seq(S), NEW x \in S
  PROVE  /\ s \o Append(t, x) = Append(s \o t, x)
         /\ s \o t \in Seq(S)
         /\ Range(Append(s, x)) = Range(s) \cup {x}
         /\ IsInjective(s) /\ x \notin Range(s) => IsInjective(Append(s, x))
<1>1. s \o Append(t, x) = Append(s \o t, x)
  <2>1. Append(t, x) = t \o <<x>> /\ Append(s \o t, x) = (s \o t) \o <<x>>
    BY AppendIsConcat, ConcatProperties
  <2>2. <<x>> \in Seq(S)
    OBVIOUS
  <2> QED
    BY <2>1, <2>2, ConcatAssociative
<1>2. /\ Append(s, x) \in Seq(S) /\ DOMAIN Append(s, x) = 1..(Len(s) + 1)
      /\ DOMAIN s = 1..Len(s) /\ Len(s) \in Nat
      /\ \A i \in 1..Len(s) : Append(s, x)[i] = s[i]
      /\ Append(s, x)[Len(s) + 1] = x
  OBVIOUS
<1>3. Range(Append(s, x)) = Range(s) \cup {x}
  <2>1. \A i \in 1..(Len(s) + 1) : i \in 1..Len(s) \/ i = Len(s) + 1
    BY <1>2
  <2>2. 1..Len(s) \subseteq 1..(Len(s) + 1) /\ Len(s) + 1 \in 1..(Len(s) + 1)
    BY <1>2
  <2> QED
    BY <1>2, <2>1, <2>2 DEF Range
<1>4. ASSUME IsInjective(s), x \notin Range(s)
      PROVE  IsInjective(Append(s, x))
  <2> SUFFICES ASSUME NEW i \in 1..(Len(s) + 1), NEW j \in 1..(Len(s) + 1),
                      Append(s, x)[i] = Append(s, x)[j]
               PROVE  i = j
    BY <1>2 DEF IsInjective
  <2>1. \A k \in 1..Len(s) : s[k] # x
    BY <1>2, <1>4 DEF Range
  <2>2. CASE i \in 1..Len(s) /\ j \in 1..Len(s)
    BY <1>2, <1>4, <2>2 DEF IsInjective
  <2>3. CASE i = Len(s) + 1 \/ j = Len(s) + 1
    BY <1>2, <2>1, <2>3
  <2> QED
    BY <1>2, <2>2, <2>3
<1> QED
  BY <1>1, <1>3, <1>4, ConcatProperties

\* Taking an element from their head.
LEMMA TailFacts ==
  ASSUME NEW S, NEW s \in Seq(S), NEW t \in Seq(S), s # <<>>
  PROVE  /\ Head(s \o t) = Head(s) /\ Tail(s \o t) = Tail(s) \o t
         /\ s \o t \in Seq(S) /\ s \o t # <<>>
<1>1. Len(s) \in Nat \ {0} /\ Len(t) \in Nat
  BY EmptySeq
<1>2. s \o t \in Seq(S) /\ Len(s \o t) = Len(s) + Len(t) /\ s \o t # <<>>
  BY <1>1, ConcatProperties, EmptySeq
<1>3. Head(s \o t) = Head(s)
  BY <1>1, <1>2
<1>4. Tail(s) \in Seq(S) /\ Len(Tail(s)) = Len(s) - 1 /\ Tail(s \o t) \in Seq(S)
      /\ Len(Tail(s \o t)) = Len(s) + Len(t) - 1
  BY <1>1, <1>2, HeadTailProperties
<1>5. Tail(s) \o t \in Seq(S) /\ Len(Tail(s) \o t) = Len(s) + Len(t) - 1
  BY <1>1, <1>4, ConcatProperties
<1>6. ASSUME NEW i \in 1..(Len(s) + Len(t) - 1)
      PROVE  Tail(s \o t)[i] = (Tail(s) \o t)[i]
  BY <1>1, <1>2, <1>4, <1>5
<1>7. Tail(s \o t) = Tail(s) \o t
  BY <1>4, <1>5, <1>6, SeqEqual
<1> QED
  BY <1>2, <1>3, <1>7

\* What is left of a sequence without repetitions.
LEMMA RestFacts ==
  ASSUME NEW S, NEW s \in Seq(S), s # <<>>, IsInjective(s)
  PROVE  /\ Tail(s) \in Seq(S) /\ Head(s) \in S /\ Head(s) \in Range(s)
         /\ Range(Tail(s)) = Range(s) \ {Head(s)}
         /\ IsInjective(Tail(s))
<1>1. /\ Len(s) \in Nat \ {0} /\ Tail(s) \in Seq(S) /\ Len(Tail(s)) = Len(s) - 1
      /\ Head(s) = s[1] /\ Head(s) \in S /\ DOMAIN s = 1..Len(s)
      /\ DOMAIN Tail(s) = 1..(Len(s) - 1)
      /\ \A i \in 1..(Len(s) - 1) : Tail(s)[i] = s[i + 1]
  BY EmptySeq, HeadTailProperties
<1>2. IsInjective(Tail(s))
  BY <1>1 DEF IsInjective
<1>3. Head(s) \in Range(s)
  BY <1>1 DEF Range
<1>4. ASSUME NEW i \in 1..(Len(s) - 1)
      PROVE  i + 1 \in 1..Len(s) /\ s[i + 1] # s[1]
  BY <1>1 DEF IsInjective
<1>5. Range(Tail(s)) \subseteq Range(s) \ {Head(s)}
  BY <1>1, <1>4 DEF Range
<1>6. ASSUME NEW j \in 1..Len(s), s[j] # s[1]
      PROVE  \E i \in 1..(Len(s) - 1) : Tail(s)[i] = s[j]
  <2>1. j - 1 \in 1..(Len(s) - 1) /\ Tail(s)[j - 1] = s[j]
    BY <1>1, <1>6
  <2> QED
    BY <2>1
<1>7. Range(s) \ {Head(s)} \subseteq Range(Tail(s))
  <2> SUFFICES ASSUME NEW j \in 1..Len(s), s[j] # s[1]
               PROVE  s[j] \in Range(Tail(s))
    BY <1>1 DEF Range
  <2>1. PICK i \in 1..(Len(s) - 1) : Tail(s)[i] = s[j]
    BY <1>6
  <2> QED
    BY <1>1, <2>1 DEF Range
<1> QED
  BY <1>1, <1>2, <1>3, <1>5, <1>7

LEMMA OpAppended ==
  ASSUME NEW s \in Seq(Ops), NEW t \in Seq(Ops), NEW op \in Ops
  PROVE  s \o Append(t, op) = Append(s \o t, op)
  BY AppendFacts

LEMMA OpTaken ==
  ASSUME NEW s \in Seq(Ops), NEW t \in Seq(Ops), s # <<>>
  PROVE  Head(s \o t) = Head(s) /\ Tail(s \o t) = Tail(s) \o t
  BY TailFacts

\* The first pool with a worker exists if there is one.
LEMMA MinPool ==
  ASSUME NEW S \in SUBSET Nat, S # {}
  PROVE  Min(S) \in S /\ \A x \in S : Min(S) <= x
<1>1. PICK m \in S : \A x \in S : <<x, m>> \notin OpToRel(<, Nat)
  BY WFMin, NatLessThanWellFounded, Zenon
<1>2. \A x \in S : ~(x < m)
  BY <1>1, Zenon DEF OpToRel
<1>3. \A x \in S : m <= x
  BY <1>2
<1> QED
  BY <1>3 DEF Min
-----------------------------------------------------------------------------
(* Types.                                                                  *)

LEMMA Basics ==
  /\ Pools \subseteq Nat /\ None \notin Getters /\ Workers = Ops /\ Workers \cap Users = {}
  /\ Workers \subseteq Getters /\ Users \subseteq Getters /\ MaxCount \in Nat
  /\ 1 \in Pools /\ \A p \in Pools : 0 < p
  /\ \A op \in Ops : OpPool[op] # BadPool => OpPool[op] \in Pools
  /\ \A u \in Users : UserPool[u] \in Pools
  /\ BadPool \notin Pools
  BY IoAssumption DEF Pools, Getters, Workers

LEMMA UserTables == \A u \in Users : UserTable[u] \in Tables \/ UserTable[u] = "ceph"
  BY IoAssumption

\* Where the loop of Shutdown goes on: at the first worker left, or it is over.
LEMMA FromPoolFacts ==
  ASSUME CallTypes, NEW i \in Nat, FromPool(i)
  PROVE  \/ /\ mpc' = "clear" /\ mi' = mi /\ ioWorkers' = [p \in Pools |-> None]
            /\ \A p \in Pools : p > i => ioWorkers[p] = None
         \/ /\ mpc' = "empty" /\ mi' \in Pools /\ mi' > i /\ ioWorkers' = ioWorkers
            /\ ioWorkers[mi'] \in Workers
            /\ \A p \in Pools : p > i /\ p < mi' => ioWorkers[p] = None
<1> DEFINE rest == {p \in Pools : p > i /\ ioWorkers[p] # None}
<1>1. CASE rest = {}
  BY <1>1 DEF FromPool
<1>2. CASE rest # {}
  <2>1. mpc' = "empty" /\ mi' = Min(rest) /\ ioWorkers' = ioWorkers
    BY <1>2 DEF FromPool
  <2>2. rest \in SUBSET Nat
    BY Basics
  <2>3. mi' \in rest /\ \A x \in rest : mi' <= x
    BY <1>2, <2>1, <2>2, MinPool
  <2>4. \A p \in Pools : p > i /\ p < mi' => ioWorkers[p] = None
    BY <2>2, <2>3, Basics
  <2> QED
    BY <2>1, <2>3, <2>4, Basics DEF CallTypes
<1> QED
  BY <1>1, <1>2

\* A worker with ops is the worker of its pool.
LEMMA OwnerFacts ==
  ASSUME TypeOK, BatchInv, NEW w \in Workers
  PROVE  /\ ls[w] \in Seq(Ops) /\ queue[w] \in Seq(Ops) /\ Batch(w) \in Seq(Ops)
         /\ Batch(w) = <<>> <=> ls[w] = <<>> /\ queue[w] = <<>>
         /\ Range(Batch(w)) \subseteq Ops
         /\ \A op \in Range(Batch(w)) : OpPool[op] \in Pools /\ ioWorkers[OpPool[op]] = w
<1>1. ls[w] \in Seq(Ops) /\ queue[w] \in Seq(Ops)
  BY DEF TypeOK, WorkerTypes
<1>2. Batch(w) \in Seq(Ops) /\ (Batch(w) = <<>> <=> ls[w] = <<>> /\ queue[w] = <<>>)
  BY <1>1, ConcatProperties, ConcatEqualIffEmpty DEF Batch
<1>3. ASSUME NEW op \in Range(Batch(w))
      PROVE  op \in Ops /\ OpPool[op] \in Pools /\ ioWorkers[OpPool[op]] = w
  <2>1. Batch(w) # <<>> /\ op \in Ops
    BY <1>2, <1>3, RangeOfSeq DEF Range
  <2> QED
    BY <1>3, <2>1 DEF BatchInv
<1> QED
  BY <1>1, <1>2, <1>3

\* A thread that looks for a context looks for one of a pool.
LEMMA GetterFacts ==
  ASSUME TypeOK, BatchInv, NEW g \in Getters, g \in Workers => ls[g] # <<>>,
         g \in Users => UserTable[g] # "ceph"
  PROVE  /\ TableOf(g) \in Tables /\ PoolOf(g) \in Pools
         /\ g \in Workers => PoolOf(g) = OpPool[g] /\ Head(ls[g]) \in Ops
<1>1. CASE g \in Users
  BY <1>1, Basics, UserTables DEF TableOf, PoolOf
<1>2. CASE g \in Workers
  <2>1. Batch(g) # <<>> /\ ls[g] \in Seq(Ops)
    BY <1>2, OwnerFacts
  <2>2. OpPool[g] \in Pools
    BY <1>2, <2>1 DEF BatchInv
  <2>3. Head(ls[g]) \in Ops
    BY <1>2, <2>1, HeadTailProperties
  <2>4. g \notin Users
    BY <1>2, Basics
  <2> QED
    BY <1>2, <2>2, <2>3, <2>4 DEF TableOf, PoolOf, Tables
<1> QED
  BY <1>1, <1>2 DEF Getters

\* The thread hands on the op at the head of what its worker has.
LEMMA NextOpFacts ==
  ASSUME IoInv, NEW w \in Workers, pc[w] \in {"make", "use"}, NextOp(w), NEW op, op = Head(ls[w])
  PROVE  /\ op \in Ops /\ ls[w] # <<>> /\ ls[w] \in Seq(Ops) /\ Tail(ls[w]) \in Seq(Ops)
         /\ OpPool[w] \in Pools /\ OpPool[op] = OpPool[w] /\ ioWorkers[OpPool[w]] = w
         /\ handled' = [handled EXCEPT ![OpPool[w]] = Append(@, op)]
         /\ Batch(w) # <<>> /\ op = Head(Batch(w)) /\ Batch(w)' = Tail(Batch(w))
         /\ \A x \in Workers : x # w => Batch(x)' = Batch(x) /\ op \notin Range(Batch(x))
         /\ op \in Range(Batch(w)) /\ Range(Tail(Batch(w))) = Range(Batch(w)) \ {op}
         /\ IsInjective(Tail(Batch(w)))
         /\ call[op] = "accepted" /\ completions[op] = 0 /\ op \notin inflight
<1> USE DEF IoInv
<1>1. ls[w] # <<>>
  BY DEF WorkerInv
<1>2. ls[w] \in Seq(Ops) /\ queue[w] \in Seq(Ops) /\ Batch(w) \in Seq(Ops) /\ Batch(w) # <<>>
  BY <1>1, OwnerFacts
<1>3. op \in Ops /\ Tail(ls[w]) \in Seq(Ops)
  BY <1>1, <1>2, HeadTailProperties
<1>4. Head(Batch(w)) = op /\ Tail(Batch(w)) = Tail(ls[w]) \o queue[w]
  BY <1>1, <1>2, OpTaken DEF Batch
<1>5. IsInjective(Batch(w)) /\ OpPool[w] \in Pools /\ ioWorkers[OpPool[w]] = w
  BY <1>2 DEF BatchInv
<1>6. /\ op \in Range(Batch(w)) /\ Range(Tail(Batch(w))) = Range(Batch(w)) \ {op}
      /\ IsInjective(Tail(Batch(w)))
  BY <1>2, <1>4, <1>5, RestFacts
<1>7. call[op] = "accepted" /\ OpPool[op] = OpPool[w] /\ completions[op] = 0 /\ op \notin inflight
  BY <1>6 DEF BatchInv
<1>8. ls' = [ls EXCEPT ![w] = Tail(ls[w])] /\ queue' = queue
      /\ handled' = [handled EXCEPT ![OpPool[w]] = Append(@, op)]
  BY Basics DEF NextOp, PoolOf
<1>9. ls \in [Workers -> Seq(Ops)]
  BY DEF TypeOK, WorkerTypes
<1>10. Batch(w)' = Tail(Batch(w))
  BY <1>4, <1>8, <1>9 DEF Batch
<1>11. ASSUME NEW x \in Workers, x # w
       PROVE  Batch(x)' = Batch(x) /\ op \notin Range(Batch(x))
  <2>1. Batch(x)' = Batch(x)
    BY <1>8, <1>9, <1>11 DEF Batch
  <2>2. op \in Range(Batch(x)) => ioWorkers[OpPool[op]] = x
    BY OwnerFacts
  <2> QED
    BY <1>5, <1>7, <1>11, <2>1, <2>2
<1> QED
  BY <1>1, <1>2, <1>3, <1>4, <1>5, <1>6, <1>7, <1>8, <1>10, <1>11

\* Swapping the queue in, or finding none, leaves every worker with the ops it has.
LEMMA SwapFacts ==
  ASSUME TypeOK, NEW w \in Workers, ls[w] = <<>>,
         SwapIn(w) \/ RunDry(w) \/ UNCHANGED <<queue, ls>>
  PROVE  \A x \in Workers : Batch(x)' = Batch(x)
<1> SUFFICES ASSUME NEW x \in Workers PROVE Batch(x)' = Batch(x)
  OBVIOUS
<1>1. queue \in [Workers -> Seq(Ops)] /\ ls \in [Workers -> Seq(Ops)]
  BY DEF TypeOK, WorkerTypes
<1>2. CASE SwapIn(w)
  <2>1. ls' = [ls EXCEPT ![w] = queue[w]] /\ queue' = [queue EXCEPT ![w] = <<>>]
    BY <1>2 DEF SwapIn
  <2>2. CASE x # w
    BY <1>1, <2>1, <2>2 DEF Batch
  <2>3. CASE x = w
    <3>1. ls'[w] = queue[w] /\ queue'[w] = <<>>
      BY <1>1, <2>1
    <3>2. queue[w] \o <<>> = queue[w] /\ <<>> \o queue[w] = queue[w]
      BY <1>1, ConcatEmptySeq
    <3> QED
      BY <2>3, <3>1, <3>2 DEF Batch
  <2> QED
    BY <2>2, <2>3
<1>3. CASE RunDry(w) \/ UNCHANGED <<queue, ls>>
  BY <1>3 DEF RunDry, Batch
<1> QED
  BY <1>2, <1>3
-----------------------------------------------------------------------------
(* The steps, one by one.                                                  *)

\* What is said of the ops depends on these variables only.
LEMMA BatchKept ==
  ASSUME BatchInv, \A w \in Workers : Batch(w)' = Batch(w),
         UNCHANGED <<call, ioWorkers, handled, completions, inflight>>
  PROVE  BatchInv'
<1> DEFINE B == [w \in Workers |-> Batch(w)]
<1>1. \A w \in Workers : B[w] = Batch(w) /\ Batch(w)' = B[w]
  OBVIOUS
<1> HIDE DEF B
<1>2. ASSUME NEW op \in Ops, call'[op] = "accepted"
      PROVE  \/ op \in Range(handled'[OpPool[op]])
             \/ /\ ioWorkers'[OpPool[op]] \in Workers
                /\ op \in Range(Batch(ioWorkers[OpPool[op]])')
  BY <1>1, <1>2 DEF BatchInv
<1> QED
  BY <1>1, <1>2 DEF BatchInv

\* A step of a Queue call that finds a worker, finds none or gives up.
LEMMA CallStep ==
  ASSUME IoInv, mpc = "up", NEW op \in Ops, call[op] \in {"new", "create", "push"},
         NEW q \in {"refused", "create", "push"}, call' = [call EXCEPT ![op] = q],
         call[op] = "push" => q = "refused",
         NEW w \in Workers \cup {None}, target' = [target EXCEPT ![op] = w],
         q # "refused" => OpPool[op] \in Pools,
         q = "push" => w \in Workers /\ w = ioWorkers[OpPool[op]],
         UNCHANGED <<ioWorkers, workerVars, pc, ctxVars, opVars, mainVars>>
  PROVE  IoInv'
<1> USE Basics DEF IoInv, TypeOK, workerVars, ctxVars, opVars, mainVars
<1>1. CallTypes'
  BY DEF CallTypes
<1>2. WorkerTypes' /\ PcTypes' /\ CtxTypes' /\ OpTypes' /\ MainTypes'
      /\ \A x \in Workers : Len(queue'[x]) <= MaxCount + 1
  BY DEF WorkerTypes, PcTypes, CtxTypes, OpTypes, MainTypes
<1>3. CallInv'
  BY DEF CallInv, InPut, CallTypes
<1>4. BatchInv'
  BY DEF BatchInv, Batch, CallTypes
<1>5. CompletedOnce'
  BY DEF CompletedOnce, CallTypes
<1>6. WorkerInv' /\ StopInv' /\ CtxInv'
  BY DEF WorkerInv, StopInv, CtxInv, Idle, Joined
<1> QED
  BY <1>1, <1>2, <1>3, <1>4, <1>5, <1>6

LEMMA QueueStep ==
  ASSUME IoInv, NEW op \in Ops, Queue(op)
  PROVE  IoInv'
<1> DEFINE w == IF OpPool[op] = BadPool THEN None ELSE ioWorkers[OpPool[op]]
           q == IF OpPool[op] = BadPool THEN "refused" ELSE IF w = None THEN "create" ELSE "push"
<1>1. /\ mpc = "up" /\ call[op] = "new" /\ call' = [call EXCEPT ![op] = q]
      /\ target' = [target EXCEPT ![op] = w]
      /\ UNCHANGED <<ioWorkers, workerVars, pc, ctxVars, opVars, mainVars>>
  BY DEF Queue
<1>2. w \in Workers \cup {None}
  BY Basics DEF IoInv, TypeOK, CallTypes
<1>3. /\ q \in {"refused", "create", "push"} /\ (q # "refused" => OpPool[op] \in Pools)
      /\ q = "push" => w \in Workers /\ w = ioWorkers[OpPool[op]]
  BY <1>2, Basics
<1> HIDE DEF w, q
<1> QED
  BY <1>1, <1>2, <1>3, CallStep

\* CreateIOWorker creates the worker of a pool that has none.
LEMMA NewWorkerStep ==
  ASSUME IoInv, NEW op \in Ops, call[op] = "create", ioWorkers[OpPool[op]] = None,
         NEW q \in {"start", "nothread"}, pc' = [pc EXCEPT ![op] = q],
         ioWorkers' = [ioWorkers EXCEPT ![OpPool[op]] = op],
         target' = [target EXCEPT ![op] = op], call' = [call EXCEPT ![op] = "push"],
         UNCHANGED <<workerVars, ctxVars, opVars, mainVars>>
  PROVE  IoInv'
<1> USE Basics DEF IoInv, TypeOK, workerVars, ctxVars, opVars, mainVars
<1>a. mpc = "up" /\ OpPool[op] \in Pools /\ pc[op] = "none" /\ op \in Workers /\ op \in Getters
  BY DEF CallInv, InPut
<1>b. ls[op] = <<>> /\ ~running[op]
  BY <1>a DEF WorkerInv, AtWork
<1>1. CallTypes' /\ PcTypes'
  BY <1>a DEF CallTypes, PcTypes
<1>2. WorkerTypes' /\ CtxTypes' /\ OpTypes' /\ MainTypes'
      /\ \A x \in Workers : Len(queue'[x]) <= MaxCount + 1
  BY DEF WorkerTypes, CtxTypes, OpTypes, MainTypes
<1>3. CallInv'
  <2>1. \A o \in Ops : call'[o] = "push" =>
          target'[o] \in Workers /\ target'[o] = ioWorkers'[OpPool[o]]
    BY <1>a DEF CallInv, CallTypes
  <2>2. \A p \in Pools : ioWorkers'[p] \in Workers =>
          OpPool[ioWorkers'[p]] = p /\ pc'[ioWorkers'[p]] # "none"
    <3>1. pc'[op] = q /\ \A g \in Getters : g # op => pc'[g] = pc[g]
      BY <1>a DEF PcTypes
    <3>2. \A p \in Pools : ioWorkers'[p] = IF p = OpPool[op] THEN op ELSE ioWorkers[p]
      BY <1>a DEF CallTypes
    <3> QED
      BY <1>a, <3>1, <3>2 DEF CallInv
  <2>3. \A w \in Workers : call'[w] \in {"new", "create"} => pc'[w] = "none"
    BY <1>a DEF CallInv, CallTypes, PcTypes
  <2> QED
    BY <1>a, <2>1, <2>2, <2>3 DEF CallInv, InPut, CallTypes
<1>4. WorkerInv'
  BY <1>a, <1>b DEF WorkerInv, PcTypes
<1>5. BatchInv'
  <2>1. \A w \in Workers : Batch(w)' = Batch(w)
    BY DEF Batch
  <2>2. \A w \in Workers : Batch(w) # <<>> => OpPool[w] # OpPool[op]
    BY <1>a DEF BatchInv
  <2>3. \A o \in Ops : call'[o] = "accepted" <=> call[o] = "accepted"
    BY DEF CallTypes
  <2>4. \A w \in Workers : Batch(w) # <<>> => OpPool[w] \in Pools /\ ioWorkers'[OpPool[w]] = w
    BY <2>2 DEF BatchInv, CallTypes
  <2>5. ASSUME NEW o \in Ops, call[o] = "accepted", o \notin Range(handled[OpPool[o]])
        PROVE  /\ ioWorkers'[OpPool[o]] = ioWorkers[OpPool[o]] /\ ioWorkers[OpPool[o]] \in Workers
               /\ o \in Range(Batch(ioWorkers[OpPool[o]]))
    <3>1. ioWorkers[OpPool[o]] \in Workers /\ o \in Range(Batch(ioWorkers[OpPool[o]]))
      BY <2>5 DEF BatchInv
    <3>2. OpPool[o] # OpPool[op] /\ OpPool[o] \in Pools
      BY <2>5, <3>1 DEF CallInv
    <3> QED
      BY <3>1, <3>2 DEF CallTypes
  <2>6. \A w \in Workers : Range(Batch(w)) \subseteq Ops
    BY OwnerFacts
  <2>7. \A p \in Pools : Range(handled[p]) \subseteq Ops
    BY RangeOfSeq DEF OpTypes
  <2>8. ASSUME NEW w \in Workers, NEW o \in Range(Batch(w))
        PROVE  /\ call'[o] = "accepted" /\ OpPool[o] = OpPool[w]
               /\ completions[o] = 0 /\ o \notin inflight
    BY <2>3, <2>6 DEF BatchInv
  <2>9. ASSUME NEW p \in Pools, NEW o \in Range(handled[p])
        PROVE  call'[o] = "accepted"
    BY <2>3, <2>7 DEF BatchInv
  <2>10. ASSUME NEW o \in Ops, call'[o] = "accepted"
         PROVE  \/ o \in Range(handled[OpPool[o]])
                \/ /\ ioWorkers'[OpPool[o]] \in Workers
                   /\ o \in Range(Batch(ioWorkers[OpPool[o]])')
    <3>1. CASE o \in Range(handled[OpPool[o]])
      BY <3>1
    <3>2. CASE o \notin Range(handled[OpPool[o]])
      BY <2>3, <2>5, <2>10, <3>2 DEF Batch
    <3> QED
      BY <3>1, <3>2
  <2> QED
    BY <2>1, <2>4, <2>8, <2>9, <2>10 DEF BatchInv
<1>6. StopInv'
  BY <1>a DEF StopInv, Over, Idle, CallTypes, PcTypes
<1>7. CtxInv'
  BY <1>a DEF CtxInv
<1>8. CompletedOnce'
  BY DEF CompletedOnce, CallTypes
<1> QED
  BY <1>1, <1>2, <1>3, <1>4, <1>5, <1>6, <1>7, <1>8

LEMMA CreateIOWorkerStep ==
  ASSUME IoInv, NEW op \in Ops, CreateIOWorker(op)
  PROVE  IoInv'
<1>a. /\ call[op] = "create" /\ mpc = "up" /\ OpPool[op] \in Pools
      /\ target \in [Ops -> Workers \cup {None}] /\ ioWorkers[OpPool[op]] \in Workers \cup {None}
  BY DEF CreateIOWorker, IoInv, CallInv, InPut, TypeOK, CallTypes
<1>1. CASE ioWorkers[OpPool[op]] # None
  <2>1. /\ target' = [target EXCEPT ![op] = ioWorkers[OpPool[op]]]
        /\ call' = [call EXCEPT ![op] = "push"]
        /\ UNCHANGED <<ioWorkers, workerVars, pc, ctxVars, opVars, mainVars>>
    BY <1>1 DEF CreateIOWorker, NoWorkerYet
  <2> QED
    BY <1>a, <1>1, <2>1, CallStep
<1>2. CASE ioWorkers[OpPool[op]] = None
  <2>1. CASE /\ call' = [call EXCEPT ![op] = "refused"]
             /\ UNCHANGED <<target, ioWorkers, workerVars, pc, ctxVars, opVars, mainVars>>
    <3>1. target' = [target EXCEPT ![op] = target[op]] /\ target[op] \in Workers \cup {None}
      BY <1>a, <2>1
    <3> QED
      BY <1>a, <2>1, <3>1, CallStep
  <2>2. ASSUME NEW q \in {"start", "nothread"}, pc' = [pc EXCEPT ![op] = q],
               ioWorkers' = [ioWorkers EXCEPT ![OpPool[op]] = op],
               target' = [target EXCEPT ![op] = op], call' = [call EXCEPT ![op] = "push"],
               UNCHANGED <<workerVars, ctxVars, opVars, mainVars>>
        PROVE  IoInv'
    BY <1>a, <1>2, <2>2, NewWorkerStep
  <2> QED
    BY <1>2, <2>1, <2>2 DEF CreateIOWorker, NoWorkerYet, Step
<1> QED
  BY <1>1, <1>2

\* A notified thread is one that waits.
LEMMA NotifyFacts ==
  ASSUME PcTypes, NEW w \in Workers, NotifyWorker(w) \/ UNCHANGED pc
  PROVE  /\ PcTypes'
         /\ \A g \in Getters :
           pc'[g] = pc[g] \/ (g = w /\ pc[g] = "waiting" /\ pc'[g] = "notified")
<1>1. pc' = pc \/ (pc[w] = "waiting" /\ pc' = [pc EXCEPT ![w] = "notified"])
  BY Basics DEF PcTypes, NotifyWorker, Step
<1>2. CASE pc' = pc
  BY <1>2 DEF PcTypes
<1>3. CASE pc[w] = "waiting" /\ pc' = [pc EXCEPT ![w] = "notified"]
  BY <1>3, Basics DEF PcTypes
<1> QED
  BY <1>1, <1>2, <1>3

\* RadosIOWorker::Queue takes the op.
LEMMA AcceptStep ==
  ASSUME IoInv, NEW op \in Ops, call[op] = "push", NEW w, w = target[op], ~Full(w),
         NotifyWorker(w) \/ UNCHANGED pc, queue' = [queue EXCEPT ![w] = Append(@, op)],
         call' = [call EXCEPT ![op] = "accepted"],
         UNCHANGED <<target, ioWorkers, ls, stop, running, emptyWait, ctxVars, opVars, mainVars>>
  PROVE  IoInv'
<1>0. \A s, t \in Seq(Ops) : s \o Append(t, op) = Append(s \o t, op)
  BY OpAppended
<1> USE Basics DEF IoInv, TypeOK, ctxVars, opVars, mainVars
<1>a. w \in Workers /\ w = ioWorkers[OpPool[op]] /\ OpPool[op] \in Pools /\ mpc = "up"
      /\ OpPool[w] = OpPool[op]
  BY DEF CallInv, InPut
<1>b. /\ PcTypes'
      /\ \A g \in Getters :
           pc'[g] = pc[g] \/ (g = w /\ pc[g] = "waiting" /\ pc'[g] = "notified")
  BY <1>a, NotifyFacts
<1>c. queue[w] \in Seq(Ops) /\ ls[w] \in Seq(Ops) /\ queue \in [Workers -> Seq(Ops)]
      /\ Batch(w) \in Seq(Ops)
  BY <1>a, OwnerFacts DEF WorkerTypes
<1>d. /\ Batch(w)' = Append(Batch(w), op)
      /\ \A x \in Workers : x # w => Batch(x)' = Batch(x)
  <2>1. queue'[w] = Append(queue[w], op) /\ \A x \in Workers : x # w => queue'[x] = queue[x]
    BY <1>a, <1>c
  <2>2. ls[w] \o Append(queue[w], op) = Append(ls[w] \o queue[w], op)
    BY <1>0, <1>c, Zenon
  <2> QED
    BY <2>1, <2>2 DEF Batch
<1>e. \A x \in Workers : op \notin Range(Batch(x))
  BY DEF BatchInv
<1>f. Range(Append(Batch(w), op)) = Range(Batch(w)) \cup {op} /\ IsInjective(Append(Batch(w), op))
  BY <1>a, <1>c, <1>e, AppendFacts DEF BatchInv
<1>1. CallTypes' /\ CtxTypes' /\ OpTypes' /\ MainTypes'
  BY DEF CallTypes, CtxTypes, OpTypes, MainTypes
<1>2. WorkerTypes'
  <2>1. Append(queue[w], op) \in Seq(Ops)
    BY <1>c, AppendProperties
  <2> QED
    BY <1>a, <2>1 DEF WorkerTypes
<1>3. \A x \in Workers : Len(queue'[x]) <= MaxCount + 1
  <2>1. Len(Append(queue[w], op)) = Len(queue[w]) + 1 /\ Len(queue[w]) \in Nat
    BY <1>c, AppendProperties
  <2> QED
    BY <1>a, <1>c, <2>1 DEF Full
<1>4. CallInv'
  <2>1. \A g \in Getters : pc'[g] = "none" <=> pc[g] = "none"
    BY <1>b
  <2> QED
    BY <1>a, <2>1 DEF CallInv, InPut, CallTypes
<1>5. WorkerInv'
  BY <1>a, <1>b DEF WorkerInv, AtWork
<1>6. BatchInv'
  <2>1. \A x \in Workers : Batch(x)' # <<>> => OpPool[x] \in Pools /\ ioWorkers'[OpPool[x]] = x
    BY <1>a, <1>d DEF BatchInv
  <2>2. ASSUME NEW x \in Workers
        PROVE  IsInjective(Batch(x)')
    <3>1. CASE x = w
      BY <1>d, <1>f, <3>1
    <3>2. CASE x # w
      BY <1>d, <3>2 DEF BatchInv
    <3> QED
      BY <3>1, <3>2
  <2>3. \A o \in Ops : call'[o] = "accepted" <=> (o = op \/ call[o] = "accepted")
    BY DEF CallTypes
  <2>4. completions[op] = 0 /\ op \notin inflight
    BY DEF CompletedOnce, OpTypes, BatchInv
  <2>5. ASSUME NEW x \in Workers, NEW o \in Range(Batch(x)')
        PROVE  /\ call'[o] = "accepted" /\ OpPool[o] = OpPool[x]
               /\ completions[o] = 0 /\ o \notin inflight
    <3>1. CASE o = op /\ x = w
      BY <1>a, <2>3, <2>4, <3>1
    <3>2. CASE o \in Range(Batch(x))
      <4>1. o \in Ops
        BY <3>2, OwnerFacts
      <4> QED
        BY <2>3, <3>2, <4>1 DEF BatchInv
    <3> QED
      BY <1>d, <1>f, <3>1, <3>2
  <2>6. ASSUME NEW p \in Pools, NEW o \in Range(handled[p])
        PROVE  call'[o] = "accepted"
    <3>1. o \in Ops
      BY RangeOfSeq DEF OpTypes
    <3> QED
      BY <2>3, <3>1 DEF BatchInv
  <2>7. ASSUME NEW o \in Ops, call'[o] = "accepted"
        PROVE  \/ o \in Range(handled[OpPool[o]])
               \/ /\ ioWorkers[OpPool[o]] \in Workers
                  /\ o \in Range(Batch(ioWorkers[OpPool[o]])')
    <3>1. CASE o = op
      <4>1. op \in Range(Batch(w)')
        BY <1>d, <1>f
      <4> QED
        BY <1>a, <3>1, <4>1
    <3>2. CASE o # op
      <4>1. call[o] = "accepted"
        BY <2>3, <2>7, <3>2
      <4>2. \A x \in Workers : Range(Batch(x)) \subseteq Range(Batch(x)')
        BY <1>d, <1>f
      <4> QED
        BY <4>1, <4>2 DEF BatchInv
    <3> QED
      BY <3>1, <3>2
  <2> QED
    BY <2>1, <2>2, <2>5, <2>6, <2>7 DEF BatchInv
<1>7. StopInv'
  BY <1>a, <1>b DEF StopInv, Over, Idle, CallTypes
<1>8. CtxInv'
  BY <1>a, <1>b DEF CtxInv
<1>9. CompletedOnce'
  BY DEF CompletedOnce, CallTypes
<1> QED
  BY <1>b, <1>1, <1>2, <1>3, <1>4, <1>5, <1>6, <1>7, <1>8, <1>9

LEMMA PushStep ==
  ASSUME IoInv, NEW op \in Ops, Push(op)
  PROVE  IoInv'
<1>1. call[op] = "push" /\ mpc = "up" /\ target \in [Ops -> Workers \cup {None}]
  BY DEF Push, IoInv, CallInv, InPut, TypeOK, CallTypes
<1>2. CASE Full(target[op])
  <2>1. /\ call' = [call EXCEPT ![op] = "refused"]
        /\ target' = [target EXCEPT ![op] = target[op]] /\ target[op] \in Workers \cup {None}
        /\ UNCHANGED <<ioWorkers, workerVars, pc, ctxVars, opVars, mainVars>>
    BY <1>1, <1>2 DEF Push, workerVars
  <2> QED
    BY <1>1, <2>1, CallStep
<1>3. CASE ~Full(target[op])
  BY <1>1, <1>3, AcceptStep DEF Push
<1> QED
  BY <1>2, <1>3

\* librados completes an op it has.
LEMMA CallbackStep ==
  ASSUME IoInv, NEW op \in Ops, Callback(op)
  PROVE  IoInv'
<1> USE Basics DEF IoInv, TypeOK, callVars, workerVars, ctxVars, mainVars
<1>1. OpTypes'
  BY DEF Callback, OpTypes
<1>2. CallTypes' /\ WorkerTypes' /\ PcTypes' /\ CtxTypes' /\ MainTypes'
      /\ \A x \in Workers : Len(queue'[x]) <= MaxCount + 1
  BY DEF Callback, CallTypes, WorkerTypes, PcTypes, CtxTypes, MainTypes
<1>3. BatchInv'
  <2>1. /\ \A w \in Workers : op \notin Range(Batch(w))
        /\ \A o \in Ops : o # op => completions'[o] = completions[o]
        /\ inflight' \subseteq inflight
    BY DEF Callback, BatchInv, OpTypes
  <2>2. \A w \in Workers : \A o \in Range(Batch(w)) : completions'[o] = 0 /\ o \notin inflight'
    BY <2>1, OwnerFacts DEF BatchInv
  <2> QED
    BY <2>2 DEF Callback, BatchInv, Batch
<1>4. CompletedOnce'
  <2>1. call[op] = "accepted"
    BY DEF Callback, CompletedOnce, OpTypes, BatchInv
  <2> QED
    BY <2>1 DEF Callback, CompletedOnce, OpTypes
<1>5. CallInv' /\ WorkerInv' /\ StopInv' /\ CtxInv'
  BY DEF Callback, CallInv, WorkerInv, StopInv, CtxInv, Idle, Joined, InPut
<1> QED
  BY <1>1, <1>2, <1>3, <1>4, <1>5

\* What the types and the calls say of pc is kept by a thread that goes on.
LEMMA ThreadFacts ==
  ASSUME IoInv, NEW w \in Workers, pc[w] # "none", NEW q \in {"waiting", "notified", "done"} \cup AtWork,
         pc' = [pc EXCEPT ![w] = q], UNCHANGED callVars, mpc' = "up" <=> mpc = "up",
         mi' = mi, UNCHANGED <<table, released>>,
         mpc' \in {"closing", "down"} <=> mpc \in {"closing", "down"}
  PROVE  /\ CallTypes' /\ PcTypes' /\ CallInv' /\ CtxInv'
         /\ pc'[w] = q /\ \A g \in Getters : g # w => pc'[g] = pc[g]
<1> USE Basics DEF IoInv, TypeOK, callVars
<1>1. CallTypes'
  BY DEF CallTypes
<1>2. pc'[w] = q /\ \A g \in Getters : g # w => pc'[g] = pc[g]
  BY DEF PcTypes
<1>3. PcTypes'
  BY DEF PcTypes, AtWork
<1>4. CallInv'
  <2>1. \A g \in Getters : pc'[g] = "none" <=> pc[g] = "none"
    BY <1>2 DEF AtWork
  <2> QED
    BY <2>1 DEF CallInv, InPut, CallTypes
<1>5. CtxInv'
  BY <1>2 DEF CtxInv
<1> QED
  BY <1>1, <1>2, <1>3, <1>4, <1>5

\* The thread swaps the queue in.
LEMMA SwapInStep ==
  ASSUME IoInv, NEW w \in Workers, pc[w] \in {"start", "notified", "lookup"}, ls[w] = <<>>,
         SwapIn(w), UNCHANGED <<callVars, emptyWait, ctxVars, opVars, mi>>
  PROVE  IoInv'
<1> USE Basics DEF IoInv, TypeOK, callVars, ctxVars, opVars
<1>a. /\ queue[w] # <<>> /\ stop' = stop /\ mpc' = mpc
      /\ ls' = [ls EXCEPT ![w] = queue[w]] /\ queue' = [queue EXCEPT ![w] = <<>>]
      /\ running' = [running EXCEPT ![w] = TRUE] /\ pc' = [pc EXCEPT ![w] = "lookup"]
  BY DEF SwapIn, Step
<1>b. /\ CallTypes' /\ PcTypes' /\ CallInv' /\ CtxInv'
      /\ pc'[w] = "lookup" /\ \A g \in Getters : g # w => pc'[g] = pc[g]
  BY <1>a, ThreadFacts DEF AtWork
<1>c. ~Idle(w) /\ ~stop[w]
  BY <1>a DEF Idle, StopInv
<1>1. CtxTypes' /\ OpTypes' /\ MainTypes'
  BY <1>a DEF CtxTypes, OpTypes, MainTypes
<1>2. WorkerTypes'
  BY <1>a DEF WorkerTypes
<1>3. \A x \in Workers : Len(queue'[x]) <= MaxCount + 1
  BY <1>a, EmptySeq DEF WorkerTypes
<1>4. WorkerInv'
  BY <1>a, <1>b DEF WorkerInv, AtWork, WorkerTypes
<1>5. BatchInv'
  BY SwapFacts, BatchKept
<1>6. StopInv'
  <2>1. \A x \in Workers : x # w => (Idle(x)' <=> Idle(x)) /\ (Joined(x)' <=> Joined(x))
    BY <1>a, <1>b DEF Idle, Joined, WorkerTypes
  <2>2. mpc \notin Over
    BY DEF StopInv
  <2>3. ~Joined(w)
    BY DEF Joined
  <2> QED
    BY <1>a, <1>b, <1>c, <2>1, <2>2, <2>3 DEF StopInv, WorkerTypes, CallTypes
<1>7. CompletedOnce'
  BY DEF CompletedOnce
<1> QED
  BY <1>b, <1>1, <1>2, <1>3, <1>4, <1>5, <1>6, <1>7

\* The thread finds no op, and waits or leaves.
LEMMA DryStep ==
  ASSUME IoInv, NEW w \in Workers, pc[w] \in {"start", "notified", "lookup"}, ls[w] = <<>>,
         queue[w] = <<>>, running' = [running EXCEPT ![w] = FALSE],
         NEW q \in {"waiting", "done"}, pc' = [pc EXCEPT ![w] = q],
         NEW b \in BOOLEAN, stop' = [stop EXCEPT ![w] = b], b => stop[w],
         mpc' = mpc \/ (mpc = "emptyWait" /\ mpc' = "empty"),
         UNCHANGED <<callVars, queue, ls, emptyWait, ctxVars, opVars, mi>>
  PROVE  IoInv'
<1> USE Basics DEF IoInv, TypeOK, callVars, ctxVars, opVars
<1>b. /\ CallTypes' /\ PcTypes' /\ CallInv' /\ CtxInv'
      /\ pc'[w] = q /\ \A g \in Getters : g # w => pc'[g] = pc[g]
  BY ThreadFacts
<1>1. CtxTypes' /\ OpTypes' /\ MainTypes'
  BY DEF CtxTypes, OpTypes, MainTypes
<1>2. WorkerTypes' /\ \A x \in Workers : Len(queue'[x]) <= MaxCount + 1
  BY DEF WorkerTypes
<1>4. WorkerInv'
  BY <1>b DEF WorkerInv, WorkerTypes
<1>5. BatchInv'
  BY BatchKept DEF Batch
<1>6. StopInv'
  <2>1. \A x \in Workers : x # w => (Idle(x)' <=> Idle(x)) /\ (Joined(x)' <=> Joined(x))
    BY <1>b DEF Idle, Joined, WorkerTypes
  <2>2. mpc \notin Over /\ mpc' \notin Over
    BY DEF StopInv, Over
  <2>3. ~Joined(w)
    BY DEF Joined
  <2>4. Idle(w)'
    BY DEF Idle, WorkerTypes
  <2>5. \A x \in Workers : stop'[x] => stop[x]
    BY DEF WorkerTypes
  <2>6. \A x \in Workers : pc'[x] # "none" => pc[x] # "none"
    BY <1>b
  <2>7. \A x \in Workers : stop'[x] => mpc' # "up" /\ Idle(x)'
    BY <2>1, <2>4, <2>5 DEF StopInv
  <2>8. mpc' \in {"empty", "emptyWait", "stopProc", "join"} =>
          /\ ioWorkers[mi] \in Workers
          /\ \A p \in Pools : p < mi /\ ioWorkers[p] \in Workers =>
               Idle(ioWorkers[p])' /\ Joined(ioWorkers[p])'
    BY <2>1, <2>3 DEF StopInv
  <2>9. mpc' \in {"stopProc", "join"} => Idle(ioWorkers[mi])'
    BY <2>1, <2>4, <2>8 DEF StopInv
  <2> QED
    BY <2>2, <2>6, <2>7, <2>8, <2>9 DEF StopInv
<1>7. CompletedOnce'
  BY DEF CompletedOnce
<1> QED
  BY <1>b, <1>1, <1>2, <1>4, <1>5, <1>6, <1>7

LEMMA RunDryStep ==
  ASSUME IoInv, NEW w \in Workers, pc[w] \in {"start", "notified", "lookup"}, ls[w] = <<>>,
         RunDry(w), UNCHANGED <<callVars, emptyWait, ctxVars, opVars, mi>>
  PROVE  IoInv'
<1>1. /\ queue[w] = <<>> /\ running' = [running EXCEPT ![w] = FALSE] /\ UNCHANGED <<queue, ls>>
      /\ stop \in [Workers -> BOOLEAN]
  BY DEF RunDry, IoInv, TypeOK, WorkerTypes
<1>2. mpc' = mpc \/ (mpc = "emptyWait" /\ mpc' = "empty")
  BY DEF RunDry, Exit, NotifyEmpty
<1>3. CASE stop[w]
  <2>1. stop' = [stop EXCEPT ![w] = FALSE] /\ pc' = [pc EXCEPT ![w] = "done"]
    BY <1>3 DEF RunDry, Exit, Step
  <2> QED
    BY <1>1, <1>2, <2>1, DryStep
<1>4. CASE ~stop[w]
  <2>1. stop' = [stop EXCEPT ![w] = FALSE] /\ pc' = [pc EXCEPT ![w] = "waiting"]
    <3>1. stop' = stop /\ pc' = [pc EXCEPT ![w] = "waiting"]
      BY <1>4 DEF RunDry, Step
    <3>2. stop[w] = FALSE
      BY <1>1, <1>4, Zenon
    <3> QED
      BY <1>1, <3>1, <3>2
  <2> QED
    BY <1>1, <1>2, <2>1, DryStep
<1> QED
  BY <1>3, <1>4

LEMMA WakeStep ==
  ASSUME IoInv, NEW w \in Workers, Wake(w)
  PROVE  IoInv'
<1>1. /\ pc[w] \in {"start", "notified"} /\ UNCHANGED <<callVars, emptyWait, ctxVars, opVars, mi>>
      /\ stop \in [Workers -> BOOLEAN] /\ running \in [Workers -> BOOLEAN]
  BY DEF Wake, IoInv, TypeOK, WorkerTypes
<1>2. ls[w] = <<>> /\ ~running[w]
  BY <1>1 DEF IoInv, WorkerInv, AtWork
<1>3. CASE stop[w]
  <2>1. /\ stop' = [stop EXCEPT ![w] = FALSE] /\ pc' = [pc EXCEPT ![w] = "done"]
        /\ UNCHANGED <<queue, ls, running>> /\ (mpc' = mpc \/ (mpc = "emptyWait" /\ mpc' = "empty"))
    BY <1>3 DEF Wake, Exit, NotifyEmpty, Step
  <2>2. queue[w] = <<>>
    BY <1>3 DEF IoInv, StopInv, Idle
  <2>3. running[w] = FALSE
    BY <1>1, <1>2, Zenon
  <2>4. running' = [running EXCEPT ![w] = FALSE]
    BY <1>1, <2>1, <2>3
  <2> QED
    BY <1>1, <1>2, <2>1, <2>2, <2>4, DryStep
<1>4. CASE ~stop[w]
  <2>1. SwapIn(w) \/ RunDry(w)
    BY <1>4 DEF Wake
  <2> QED
    BY <1>1, <1>2, <2>1, SwapInStep, RunDryStep
<1> QED
  BY <1>3, <1>4

LEMMA RelockStep ==
  ASSUME IoInv, NEW w \in Workers, Relock(w)
  PROVE  IoInv'
  BY SwapInStep, RunDryStep DEF Relock

\* A thread that waits is woken, or Shutdown's own wait ends, for no reason.
LEMMA SpuriousStep ==
  ASSUME IoInv,
         \/ \E w \in Workers : SpuriousWakeup(w)
         \/ SpuriousEmpty
  PROVE  IoInv'
<1> USE Basics DEF IoInv, TypeOK, callVars, workerVars, ctxVars, opVars, mainVars
<1>1. ASSUME NEW w \in Workers, SpuriousWakeup(w)
      PROVE  IoInv'
  <2>a. pc[w] = "waiting" /\ pc' = [pc EXCEPT ![w] = "notified"]
        /\ UNCHANGED <<callVars, workerVars, ctxVars, opVars, mainVars>>
    BY <1>1 DEF SpuriousWakeup, Step
  <2>b. /\ CallTypes' /\ PcTypes' /\ CallInv' /\ CtxInv'
        /\ pc'[w] = "notified" /\ \A g \in Getters : g # w => pc'[g] = pc[g]
    BY <2>a, ThreadFacts
  <2>1. CtxTypes' /\ OpTypes' /\ MainTypes' /\ WorkerTypes'
        /\ \A x \in Workers : Len(queue'[x]) <= MaxCount + 1
    BY <2>a DEF CtxTypes, OpTypes, MainTypes, WorkerTypes
  <2>2. WorkerInv'
    BY <2>a, <2>b DEF WorkerInv, AtWork
  <2>3. BatchInv'
    BY <2>a, BatchKept DEF Batch
  <2>4. StopInv'
    BY <2>a, <2>b DEF StopInv, Idle, Joined
  <2>5. CompletedOnce'
    BY <2>a DEF CompletedOnce
  <2> QED
    BY <2>b, <2>1, <2>2, <2>3, <2>4, <2>5
<1>2. CASE SpuriousEmpty
  <2>a. /\ mpc = "emptyWait" /\ mpc' = "empty"
        /\ UNCHANGED <<callVars, workerVars, pc, ctxVars, opVars, mi>>
    BY <1>2 DEF SpuriousEmpty
  <2>1. CallTypes' /\ CtxTypes' /\ OpTypes' /\ MainTypes' /\ WorkerTypes' /\ PcTypes'
        /\ \A x \in Workers : Len(queue'[x]) <= MaxCount + 1
    BY <2>a DEF CallTypes, CtxTypes, OpTypes, MainTypes, WorkerTypes, PcTypes
  <2>2. CallInv' /\ WorkerInv' /\ CtxInv' /\ CompletedOnce'
    BY <2>a DEF CallInv, InPut, WorkerInv, CtxInv, CompletedOnce
  <2>3. BatchInv'
    BY <2>a, BatchKept DEF Batch
  <2>4. StopInv'
    BY <2>a DEF StopInv, Idle, Joined, Over
  <2> QED
    BY <2>1, <2>2, <2>3, <2>4
<1> QED
  BY <1>1, <1>2

\* The thread hands on an op, to librados or by completing it with an error.
LEMMA HandOnStep ==
  ASSUME IoInv, NEW w \in Workers, pc[w] \in {"make", "use"}, NextOp(w), NEW op, op = Head(ls[w]),
         \/ completions' = [completions EXCEPT ![op] = @ + 1] /\ inflight' = inflight
         \/ completions' = completions /\ inflight' = inflight \cup {op}
  PROVE  IoInv'
<1> USE Basics DEF IoInv, TypeOK, callVars, mainVars
<1>a. /\ ls' = [ls EXCEPT ![w] = Tail(ls[w])] /\ held' = [held EXCEPT ![w] = None]
      /\ pc' = [pc EXCEPT ![w] = "lookup"]
      /\ UNCHANGED <<callVars, queue, stop, running, emptyWait, table, released, mainVars>>
  BY DEF NextOp, Step
<1>b. /\ CallTypes' /\ PcTypes' /\ CallInv' /\ CtxInv'
      /\ pc'[w] = "lookup" /\ \A g \in Getters : g # w => pc'[g] = pc[g]
  BY <1>a, ThreadFacts DEF AtWork
<1>c. /\ op \in Ops /\ ls[w] # <<>> /\ ls[w] \in Seq(Ops) /\ Tail(ls[w]) \in Seq(Ops)
      /\ OpPool[w] \in Pools /\ OpPool[op] = OpPool[w] /\ ioWorkers[OpPool[w]] = w
      /\ handled' = [handled EXCEPT ![OpPool[w]] = Append(@, op)]
      /\ call[op] = "accepted" /\ completions[op] = 0 /\ op \notin inflight
  BY NextOpFacts
<1>d. /\ Batch(w) # <<>> /\ Batch(w)' = Tail(Batch(w))
      /\ Range(Batch(w)') = Range(Batch(w)) \ {op} /\ IsInjective(Batch(w)')
      /\ \A x \in Workers : x # w => Batch(x)' = Batch(x) /\ op \notin Range(Batch(x))
  <2>1. /\ Batch(w) # <<>> /\ Batch(w)' = Tail(Batch(w)) /\ IsInjective(Tail(Batch(w)))
        /\ Range(Tail(Batch(w))) = Range(Batch(w)) \ {op}
    BY NextOpFacts
  <2>2. \A x \in Workers : x # w => Batch(x)' = Batch(x) /\ op \notin Range(Batch(x))
    BY NextOpFacts
  <2>3. Range(Batch(w)') = Range(Batch(w)) \ {op} /\ IsInjective(Batch(w)')
    BY <2>1
  <2> QED
    BY <2>1, <2>2, <2>3
<1>e. /\ handled[OpPool[w]] \in Seq(Ops) /\ handled'[OpPool[w]] = Append(handled[OpPool[w]], op)
      /\ Range(handled'[OpPool[w]]) = Range(handled[OpPool[w]]) \cup {op}
      /\ \A p \in Pools : p # OpPool[w] => handled'[p] = handled[p]
  <2>1. handled[OpPool[w]] \in Seq(Ops)
    BY <1>c DEF OpTypes
  <2>2. Range(Append(handled[OpPool[w]], op)) = Range(handled[OpPool[w]]) \cup {op}
    BY <1>c, <2>1, AppendFacts
  <2> QED
    BY <1>c, <2>1, <2>2 DEF OpTypes
<1>f. running[w]
  BY <1>c DEF WorkerInv
<1>1. CtxTypes' /\ MainTypes'
  BY <1>a DEF CtxTypes, MainTypes
<1>2. WorkerTypes' /\ \A x \in Workers : Len(queue'[x]) <= MaxCount + 1
  BY <1>a, <1>c DEF WorkerTypes
<1>3. OpTypes'
  <2>1. handled' \in [Pools -> Seq(Ops)]
    <3>1. Append(handled[OpPool[w]], op) \in Seq(Ops)
      BY <1>c, <1>e, AppendProperties
    <3> QED
      BY <1>c, <3>1 DEF OpTypes
  <2>2. inflight' \subseteq Ops
    BY <1>c DEF OpTypes
  <2>3. completions' \in [Ops -> Nat]
    <3>1. CASE completions' = completions
      BY <3>1 DEF OpTypes
    <3>2. CASE completions' = [completions EXCEPT ![op] = @ + 1]
      BY <1>c, <3>2 DEF OpTypes
    <3> QED
      BY <3>1, <3>2
  <2> QED
    BY <2>1, <2>2, <2>3 DEF OpTypes
<1>4. WorkerInv'
  BY <1>a, <1>b, <1>f DEF WorkerInv, AtWork, WorkerTypes
<1>5. BatchInv'
  <2>0. \A x \in Workers : Range(Batch(x)') = Range(Batch(x)) \ {op}
    BY <1>d
  <2>1. \A x \in Workers : Batch(x)' # <<>> => OpPool[x] \in Pools /\ ioWorkers'[OpPool[x]] = x
    BY <1>a, <1>c, <1>d DEF BatchInv
  <2>2. ASSUME NEW x \in Workers
        PROVE  IsInjective(Batch(x)')
    <3>1. CASE x = w
      BY <1>d, <3>1
    <3>2. CASE x # w
      BY <1>d, <3>2 DEF BatchInv
    <3> QED
      BY <3>1, <3>2
  <2>3. \A o \in Ops : o # op => completions'[o] = completions[o] /\ (o \in inflight' <=> o \in inflight)
    BY DEF OpTypes
  <2>4. ASSUME NEW x \in Workers, NEW o \in Range(Batch(x)')
        PROVE  /\ call'[o] = "accepted" /\ OpPool[o] = OpPool[x]
               /\ completions'[o] = 0 /\ o \notin inflight'
    <3>1. o \in Range(Batch(x)) /\ o # op
      BY <2>0
    <3>2. o \in Ops
      BY <3>1, OwnerFacts
    <3> QED
      BY <1>a, <2>3, <3>1, <3>2 DEF BatchInv
  <2>5. ASSUME NEW p \in Pools, NEW o \in Range(handled'[p])
        PROVE  call'[o] = "accepted"
    <3>1. o = op \/ o \in Range(handled[p])
      BY <1>e
    <3> QED
      BY <1>a, <1>c, <3>1 DEF BatchInv
  <2>6. \A o \in inflight' : call'[o] = "accepted"
    BY <1>a, <1>c DEF BatchInv
  <2>7. ASSUME NEW o \in Ops, call'[o] = "accepted"
        PROVE  \/ o \in Range(handled'[OpPool[o]])
               \/ /\ ioWorkers'[OpPool[o]] \in Workers
                  /\ o \in Range(Batch(ioWorkers[OpPool[o]])')
    <3>1. CASE o = op
      BY <1>c, <1>e, <3>1
    <3>2. CASE o # op
      <4>1. OpPool[o] \in Pools /\ call[o] = "accepted"
        BY <1>a, <2>7 DEF CallInv
      <4>2. o \in Range(handled[OpPool[o]]) => o \in Range(handled'[OpPool[o]])
        BY <1>e, <4>1
      <4> QED
        BY <1>a, <2>0, <3>2, <4>1, <4>2 DEF BatchInv
    <3> QED
      BY <3>1, <3>2
  <2> QED
    BY <1>a, <2>1, <2>2, <2>4, <2>5, <2>6, <2>7 DEF BatchInv
<1>6. StopInv'
  <2>1. \A x \in Workers : (Idle(x)' <=> Idle(x))
    BY <1>a DEF Idle
  <2>2. \A x \in Workers : Joined(x)' <=> Joined(x)
    BY <1>b DEF Joined
  <2>3. mpc \notin Over
    BY DEF StopInv
  <2> QED
    BY <1>a, <1>b, <2>1, <2>2, <2>3 DEF StopInv, CallTypes
<1>7. CompletedOnce'
  <2> SUFFICES ASSUME NEW o \in Ops
               PROVE  /\ completions'[o] <= IF o \in inflight' THEN 0 ELSE 1
                      /\ call'[o] # "accepted" => completions'[o] = 0
    BY DEF CompletedOnce
  <2>1. CASE completions' = completions /\ inflight' = inflight \cup {op}
    BY <1>a, <1>c, <2>1 DEF CompletedOnce, OpTypes
  <2>2. CASE completions' = [completions EXCEPT ![op] = @ + 1] /\ inflight' = inflight
    <3>1. completions'[op] = 1 /\ \A x \in Ops : x # op => completions'[x] = completions[x]
      BY <1>c, <2>2 DEF OpTypes
    <3> QED
      BY <1>a, <1>c, <2>2, <3>1 DEF CompletedOnce
  <2> QED
    BY <2>1, <2>2
<1> QED
  BY <1>b, <1>1, <1>2, <1>3, <1>4, <1>5, <1>6, <1>7

LEMMA HandOnSteps ==
  ASSUME IoInv, NEW w \in Workers, FailOp(w) \/ AioOperate(w)
  PROVE  IoInv'
<1>1. CASE FailOp(w)
  BY <1>1, HandOnStep DEF FailOp, Fail
<1>2. CASE AioOperate(w)
  BY <1>2, HandOnStep DEF AioOperate
<1> QED
  BY <1>1, <1>2

\* One step of GetIoCtx or GetIoCtx2, for a thread or a user.
LEMMA GetIoCtxStep ==
  ASSUME IoInv, NEW g \in Getters, GetIoCtx(g)
  PROVE  IoInv'
<1> USE Basics DEF IoInv, TypeOK, callVars, workerVars, opVars, mainVars
<1>a. pc[g] \in {"lookup", "make", "insert"} /\ (g \in Workers => ls[g] # <<>>)
  BY DEF GetIoCtx, Lookup, CreateIoCtx, InsertIoCtx, WorkerInv
<1>b. /\ g \in Users => PoolOf(g) \in Pools
      /\ pc[g] \in {"lookup", "insert"} => TableOf(g) \in Tables /\ PoolOf(g) \in Pools
      /\ g \in Workers => Head(ls[g]) \in Ops
  <2>1. CASE g \in Users
    BY <1>a, <2>1, UserTables DEF CtxInv, TableOf, PoolOf
  <2>2. CASE g \in Workers
    BY <1>a, <2>2, GetterFacts
  <2> QED
    BY <2>1, <2>2 DEF Getters
<1>c. UNCHANGED <<callVars, workerVars, released, opVars, mainVars>>
  BY DEF GetIoCtx, Lookup, CreateIoCtx, InsertIoCtx
<1>d. PICK q \in {"make", "insert", "use"} : pc' = [pc EXCEPT ![g] = q]
  BY DEF GetIoCtx, Lookup, CreateIoCtx, InsertIoCtx, Step
<1>e. pc'[g] = q /\ \A x \in Getters : x # g => pc'[x] = pc[x]
  BY <1>d DEF PcTypes
<1>f. mpc \notin Over /\ (g \in Users => mpc = "up")
  <2>1. CASE g \in Users
    BY <1>a, <2>1 DEF CtxInv, Over
  <2>2. CASE g \in Workers
    BY <1>a, <2>2 DEF CtxInv, StopInv, Over
  <2> QED
    BY <2>1, <2>2 DEF Getters
<1>1. CallTypes' /\ WorkerTypes' /\ OpTypes' /\ MainTypes'
      /\ \A x \in Workers : Len(queue'[x]) <= MaxCount + 1
  BY <1>c DEF CallTypes, WorkerTypes, OpTypes, MainTypes
<1>2. PcTypes'
  BY <1>a, <1>d DEF PcTypes
<1>3. CtxTypes'
  <2>1. CASE Lookup(g)
    <3>1. table[TableOf(g)][PoolOf(g)] \in Getters \cup {None}
      BY <1>b, <2>1 DEF CtxTypes, Lookup
    <3> QED
      BY <2>1, <3>1 DEF Lookup, CtxTypes
  <2>2. CASE CreateIoCtx(g)
    <3>1. (IF g \in Workers THEN Head(ls[g]) ELSE g) \in Getters
      BY <1>b
    <3> QED
      BY <2>2, <3>1 DEF CreateIoCtx, CtxTypes
  <2>3. CASE InsertIoCtx(g)
    <3> DEFINE t == TableOf(g)
               p == PoolOf(g)
               c == IF t = "name" \/ table[t][p] = None THEN held[g] ELSE table[t][p]
    <3>0. t \in Tables /\ p \in Pools
      BY <1>b, <2>3 DEF InsertIoCtx
    <3>1. c \in Getters \cup {None}
      BY <3>0 DEF CtxTypes
    <3>2. table' = [table EXCEPT ![t][p] = c] /\ held' = held
      BY <2>3, <3>0 DEF InsertIoCtx, Insert, Tables
    <3> HIDE DEF c, t, p
    <3> QED
      BY <1>c, <3>0, <3>1, <3>2 DEF CtxTypes
  <2> QED
    BY <2>1, <2>2, <2>3 DEF GetIoCtx
<1>4. CallInv'
  <2>1. \A x \in Getters : pc'[x] = "none" <=> pc[x] = "none"
    BY <1>a, <1>e
  <2> QED
    BY <1>c, <2>1 DEF CallInv, InPut, CallTypes
<1>5. WorkerInv'
  BY <1>a, <1>c, <1>e DEF WorkerInv, AtWork
<1>6. BatchInv'
  BY <1>c, BatchKept DEF Batch
<1>7. StopInv'
  <2>1. \A x \in Workers : (Idle(x)' <=> Idle(x)) /\ (Joined(x)' <=> Joined(x))
    BY <1>a, <1>c, <1>e DEF Idle, Joined
  <2> QED
    BY <1>a, <1>c, <1>e, <1>f, <2>1 DEF StopInv, CallTypes
<1>8. CtxInv'
  <2>1. ASSUME g \in Users, q = "insert"
        PROVE  UserTable[g] # "ceph"
    <3>1. pc'[g] = "insert"
      BY <1>e, <2>1
    <3>2. CreateIoCtx(g) /\ Kept(g)
      BY <3>1 DEF GetIoCtx, Lookup, CreateIoCtx, InsertIoCtx, Step, PcTypes
    <3> QED
      BY <2>1, <3>2 DEF Kept, TableOf, Tables
  <2> QED
    BY <1>c, <1>e, <1>f, <2>1 DEF CtxInv
<1>9. CompletedOnce'
  BY <1>c DEF CompletedOnce
<1> QED
  BY <1>1, <1>2, <1>3, <1>4, <1>5, <1>6, <1>7, <1>8, <1>9

\* A user calls, is told that there is no context, or releases one.
LEMMA UserStep ==
  ASSUME IoInv, NEW u \in Users, UserCall(u) \/ UserFails(u) \/ ReleaseIoCtx(u)
  PROVE  IoInv'
<1> USE Basics DEF IoInv, TypeOK, callVars, workerVars, ctxVars, opVars, mainVars
<1>a. UNCHANGED <<callVars, workerVars, held, table, opVars, mainVars>>
  BY DEF UserCall, UserFails, ReleaseIoCtx
<1>b. PICK q \in {"idle", "lookup", "make", "gone"} :
        /\ pc' = [pc EXCEPT ![u] = q]
        /\ q \in {"lookup", "make"} => mpc = "up"
        /\ q = "lookup" => UserTable[u] # "ceph"
  BY DEF UserCall, UserFails, ReleaseIoCtx, Step
<1>c. pc'[u] = q /\ \A x \in Getters : x # u => pc'[x] = pc[x]
  BY <1>b DEF PcTypes
<1>d. \A w \in Workers : pc'[w] = pc[w]
  BY <1>c
<1>0. CtxTypes'
  BY <1>a DEF UserCall, UserFails, ReleaseIoCtx, CtxTypes
<1>1. CallTypes' /\ WorkerTypes' /\ OpTypes' /\ MainTypes'
      /\ \A x \in Workers : Len(queue'[x]) <= MaxCount + 1
  BY <1>a DEF CallTypes, WorkerTypes, OpTypes, MainTypes
<1>2. PcTypes'
  BY <1>b DEF PcTypes
<1>3. CallInv' /\ WorkerInv' /\ CompletedOnce'
  BY <1>a, <1>d DEF CallInv, InPut, WorkerInv, CompletedOnce, CallTypes
<1>4. BatchInv'
  BY <1>a, BatchKept DEF Batch
<1>5. StopInv'
  <2>1. \A x \in Workers : (Idle(x)' <=> Idle(x)) /\ (Joined(x)' <=> Joined(x))
    BY <1>a, <1>d DEF Idle, Joined
  <2> QED
    BY <1>a, <1>d, <2>1 DEF StopInv, CallTypes
<1>6. CtxInv'
  BY <1>a, <1>b, <1>c DEF CtxInv
<1> QED
  BY <1>0, <1>1, <1>2, <1>3, <1>4, <1>5, <1>6
-----------------------------------------------------------------------------
(* Shutdown.                                                               *)

\* The loop goes on to the next pool, or nothing is left in any of them.
LEMMA LoopStep ==
  ASSUME IoInv, NEW i \in Nat, FromPool(i), mpc \notin Over,
         \A p \in Pools : p <= i /\ ioWorkers[p] \in Workers =>
           Idle(ioWorkers[p]) /\ Joined(ioWorkers[p]),
         \A op \in Ops : ~InPut(op), \A u \in Users : pc[u] \in {"idle", "use", "gone"},
         UNCHANGED <<call, target, workerVars, pc, ctxVars, opVars>>
  PROVE  IoInv'
<1> USE Basics DEF IoInv, TypeOK, workerVars, ctxVars, opVars
<1>a. WorkerTypes' /\ PcTypes' /\ CtxTypes' /\ OpTypes' /\ CompletedOnce' /\ WorkerInv'
      /\ \A x \in Workers : Len(queue'[x]) <= MaxCount + 1
  BY DEF WorkerTypes, PcTypes, CtxTypes, OpTypes, CompletedOnce, WorkerInv
<1>b. \A x \in Workers : /\ Idle(x)' <=> Idle(x)
                         /\ Joined(x)' <=> Joined(x)
                         /\ Batch(x)' = Batch(x)
  BY DEF Idle, Joined, Batch
<1>c. CtxInv'
  BY DEF CtxInv
<1>d. mpc' # "up"
  BY FromPoolFacts
<1>1. CASE /\ mpc' = "clear" /\ mi' = mi /\ ioWorkers' = [p \in Pools |-> None]
           /\ \A p \in Pools : p > i => ioWorkers[p] = None
  <2>1. CallTypes' /\ MainTypes'
    BY <1>1 DEF CallTypes, MainTypes
  <2>2. ASSUME NEW w \in Workers, OpPool[w] \in Pools, ioWorkers[OpPool[w]] = w
        PROVE  Idle(w) /\ Joined(w)
    <3>1. OpPool[w] <= i
      BY <1>1, <2>2
    <3> QED
      BY <2>2, <3>1
  <2>3. ASSUME NEW w \in Workers
        PROVE  pc[w] \in {"none", "nothread", "done"}
    BY <2>2 DEF StopInv, Joined
  <2>4. ASSUME NEW w \in Workers
        PROVE  Batch(w) = <<>>
    <3>1. CASE Batch(w) # <<>>
      <4>1. Idle(w)
        BY <2>2, <3>1 DEF BatchInv
      <4>2. queue[w] = <<>> /\ ls[w] = <<>>
        BY <4>1 DEF Idle, WorkerInv
      <4> QED
        BY <4>2, OwnerFacts
    <3> QED
      BY <3>1
  <2>5. CallInv'
    BY <1>1 DEF CallInv, InPut
  <2>6. BatchInv'
    <3>1. \A w \in Workers : Batch(w)' = <<>>
      BY <1>b, <2>4
    <3>2. Range(<<>>) = {} /\ IsInjective(<<>>)
      BY DEF Range, IsInjective
    <3>3. \A op \in Ops : call[op] = "accepted" => op \in Range(handled[OpPool[op]])
      BY <2>4, <3>2 DEF BatchInv
    <3> QED
      BY <3>1, <3>2, <3>3 DEF BatchInv
  <2>7. StopInv'
    BY <1>1, <1>b, <1>d, <2>3 DEF StopInv, Over
  <2>8. CtxInv'
    BY <1>c
  <2> QED
    BY <1>a, <2>1, <2>5, <2>6, <2>7, <2>8
<1>2. CASE /\ mpc' = "empty" /\ mi' \in Pools /\ mi' > i /\ ioWorkers' = ioWorkers
           /\ ioWorkers[mi'] \in Workers
           /\ \A p \in Pools : p > i /\ p < mi' => ioWorkers[p] = None
  <2>1. CallTypes' /\ MainTypes'
    BY <1>2 DEF CallTypes, MainTypes
  <2>2. CallInv'
    BY <1>2 DEF CallInv, InPut
  <2>3. BatchInv'
    BY <1>b, <1>2, BatchKept
  <2>4. ASSUME NEW p \in Pools, p < mi', ioWorkers[p] \in Workers
        PROVE  Idle(ioWorkers[p])' /\ Joined(ioWorkers[p])'
    <3>1. p <= i
      <4>1. ioWorkers[p] # None /\ p \in Nat
        BY <2>4
      <4> QED
        BY <1>2, <2>4, <4>1
    <3> QED
      BY <1>2, <1>b, <2>4, <3>1
  <2>5. StopInv'
    BY <1>2, <1>b, <1>d, <2>4 DEF StopInv, Over
  <2>6. CtxInv'
    BY <1>c
  <2> QED
    BY <1>a, <2>1, <2>2, <2>3, <2>5, <2>6
<1> QED
  BY <1>1, <1>2, FromPoolFacts

LEMMA ShutdownStep ==
  ASSUME IoInv, Shutdown
  PROVE  IoInv'
<1>1. \A p \in Pools : ~(p <= 0)
  BY Basics
<1> QED
  BY <1>1, LoopStep DEF Shutdown, InPut, Over

LEMMA JoinStep ==
  ASSUME IoInv, Join
  PROVE  IoInv'
<1>1. mpc = "join" /\ mi \in Nat /\ mi \in Pools /\ Joined(ioWorkers[mi]) /\ FromPool(mi)
      /\ UNCHANGED <<call, target, workerVars, pc, ctxVars, opVars>>
  BY Basics DEF Join, IoInv, TypeOK, MainTypes
<1>2. ASSUME NEW p \in Pools, p <= mi, ioWorkers[p] \in Workers
      PROVE  Idle(ioWorkers[p]) /\ Joined(ioWorkers[p])
  <2>1. p < mi \/ p = mi
    BY <1>1, <1>2, Basics
  <2> QED
    BY <1>1, <1>2, <2>1 DEF IoInv, StopInv
<1>3. \A op \in Ops : ~InPut(op)
  BY <1>1 DEF IoInv, CallInv
<1>4. \A u \in Users : pc[u] \in {"idle", "use", "gone"}
  BY <1>1 DEF IoInv, CtxInv
<1> QED
  BY <1>1, <1>2, <1>3, <1>4, LoopStep DEF Over

\* The other steps of Shutdown.
LEMMA WaitForEmptyStep ==
  ASSUME IoInv, WaitForEmpty
  PROVE  IoInv'
<1> USE Basics DEF IoInv, TypeOK, callVars, ctxVars, opVars
<1> DEFINE w == ioWorkers[mi]
<1>a. /\ mpc = "empty" /\ mpc' \in {"emptyWait", "stopProc"} /\ (mpc' = "stopProc" => Idle(w))
      /\ UNCHANGED <<callVars, queue, ls, stop, running, pc, ctxVars, opVars, mi>>
  BY DEF WaitForEmpty, Busy, Idle
<1>b. w \in Workers
  BY <1>a DEF StopInv
<1>1. CallTypes' /\ PcTypes' /\ CtxTypes' /\ OpTypes' /\ MainTypes'
      /\ \A x \in Workers : Len(queue'[x]) <= MaxCount + 1
  BY <1>a DEF CallTypes, PcTypes, CtxTypes, OpTypes, MainTypes
<1>2. WorkerTypes'
  <2>1. Busy(w) \in BOOLEAN
    BY <1>b DEF Busy, WorkerTypes
  <2>2. emptyWait' = [emptyWait EXCEPT ![w] = Busy(w)]
    BY DEF WaitForEmpty
  <2> QED
    BY <1>a, <2>1, <2>2 DEF WorkerTypes
<1>3. CallInv' /\ WorkerInv' /\ CtxInv' /\ CompletedOnce'
  BY <1>a DEF CallInv, InPut, WorkerInv, CtxInv, CompletedOnce
<1>4. BatchInv'
  BY <1>a, BatchKept DEF Batch
<1>5. StopInv'
  BY <1>a DEF StopInv, Idle, Joined, Over
<1> QED
  BY <1>1, <1>2, <1>3, <1>4, <1>5

LEMMA StopProcStep ==
  ASSUME IoInv, StopProc
  PROVE  IoInv'
<1> USE Basics DEF IoInv, TypeOK, callVars, ctxVars, opVars
<1> DEFINE w == ioWorkers[mi]
<1>a. /\ mpc = "stopProc" /\ mpc' = "join" /\ NotifyWorker(w)
      /\ stop' = [stop EXCEPT ![w] = TRUE]
      /\ UNCHANGED <<callVars, queue, ls, running, emptyWait, ctxVars, opVars, mi>>
  BY DEF StopProc
<1>b. w \in Workers /\ Idle(w)
  BY <1>a DEF StopInv
<1>c. /\ PcTypes'
      /\ \A g \in Getters :
           pc'[g] = pc[g] \/ (g = w /\ pc[g] = "waiting" /\ pc'[g] = "notified")
  BY <1>a, <1>b, NotifyFacts
<1> HIDE DEF w
<1>1. CallTypes' /\ CtxTypes' /\ OpTypes' /\ MainTypes' /\ WorkerTypes'
      /\ \A x \in Workers : Len(queue'[x]) <= MaxCount + 1
  BY <1>a DEF CallTypes, CtxTypes, OpTypes, MainTypes, WorkerTypes
<1>2. \A g \in Getters : pc'[g] = "none" <=> pc[g] = "none"
  BY <1>c
<1>3. CallInv'
  BY <1>a, <1>2 DEF CallInv, InPut, CallTypes
<1>4. WorkerInv' /\ CompletedOnce'
  BY <1>a, <1>c DEF WorkerInv, AtWork, CompletedOnce
<1>5. CtxInv'
  <2>1. \A u \in Users : pc'[u] = pc[u]
    BY <1>b, <1>c
  <2> QED
    BY <1>a, <2>1 DEF CtxInv
<1>6. BatchInv'
  BY <1>a, BatchKept DEF Batch
<1>7. StopInv'
  <2>1. \A x \in Workers : (Idle(x)' <=> Idle(x)) /\ (Joined(x) => Joined(x)')
    BY <1>a, <1>c DEF Idle, Joined
  <2>2. \A x \in Workers : stop'[x] => Idle(x)
    BY <1>a, <1>b DEF StopInv, WorkerTypes
  <2>3. /\ ioWorkers'[mi'] \in Workers
        /\ \A p \in Pools : p < mi /\ ioWorkers[p] \in Workers =>
             Idle(ioWorkers[p])' /\ Joined(ioWorkers[p])'
    BY <1>a, <2>1 DEF StopInv
  <2> QED
    BY <1>a, <1>b, <1>2, <2>1, <2>2, <2>3 DEF StopInv, Over, w
<1> QED
  BY <1>c, <1>1, <1>3, <1>4, <1>5, <1>6, <1>7

\* The contexts are cleared, the client is shut down.
LEMMA EndStep ==
  ASSUME IoInv, Clear \/ ClientShutdown
  PROVE  IoInv'
<1> USE Basics DEF IoInv, TypeOK, callVars, workerVars, opVars, ctxVars
<1>a. /\ mpc \in {"clear", "closing"} /\ mpc' \in {"closing", "down"}
      /\ UNCHANGED <<callVars, workerVars, pc, held, opVars, mi>>
  BY DEF Clear, ClientShutdown
<1>1. CallTypes' /\ PcTypes' /\ OpTypes' /\ MainTypes' /\ WorkerTypes'
      /\ \A x \in Workers : Len(queue'[x]) <= MaxCount + 1
  BY <1>a DEF CallTypes, PcTypes, OpTypes, MainTypes, WorkerTypes
<1>2. CallInv' /\ WorkerInv' /\ CompletedOnce'
  BY <1>a DEF CallInv, InPut, WorkerInv, CompletedOnce
<1>3. BatchInv'
  BY <1>a, BatchKept DEF Batch
<1>4. StopInv'
  BY <1>a DEF StopInv, Idle, Joined, Over
<1>5. CtxTypes' /\ CtxInv'
  <2>1. CASE Clear
    <3>1. /\ released' = released \cup ({table[t][p] : t \in Tables, p \in Pools} \ {None})
          /\ table' = [t \in Tables |-> [p \in Pools |-> None]] /\ held' = held
      BY <2>1 DEF Clear
    <3>2. \A t \in Tables, p \in Pools : table[t][p] \in Getters \cup {None}
      BY DEF CtxTypes
    <3>3. released' \subseteq Getters
      BY <3>1, <3>2 DEF CtxTypes
    <3>4. CtxTypes'
      BY <3>1, <3>3 DEF CtxTypes
    <3>5. \A t \in Tables, p \in Pools : table'[t][p] \notin released'
      BY <3>1, <3>3
    <3> QED
      BY <1>a, <3>4, <3>5 DEF CtxInv
  <2>2. CASE ClientShutdown
    BY <1>a, <2>2 DEF ClientShutdown, CtxTypes, CtxInv
  <2> QED
    BY <2>1, <2>2
<1> QED
  BY <1>1, <1>2, <1>3, <1>4, <1>5
-----------------------------------------------------------------------------
(* The invariant.                                                          *)

LEMMA IoInit == Init => IoInv
<1> SUFFICES ASSUME Init PROVE IoInv
  OBVIOUS
<1> USE Basics DEF Init
<1>1. CallTypes /\ CtxTypes /\ OpTypes /\ MainTypes
  BY DEF CallTypes, CtxTypes, OpTypes, MainTypes
<1>2. WorkerTypes /\ \A w \in Workers : Len(queue[w]) <= MaxCount + 1
  BY EmptySeq DEF WorkerTypes
<1>3. PcTypes
  BY DEF PcTypes
<1>4. \A w \in Workers : pc[w] = "none" /\ ls[w] = <<>> /\ queue[w] = <<>> /\ running[w] = FALSE
      /\ stop[w] = FALSE /\ call[w] = "new"
  OBVIOUS
<1>5. CallInv /\ WorkerInv /\ CompletedOnce
  BY <1>4 DEF CallInv, InPut, WorkerInv, CompletedOnce
<1>6. StopInv /\ CtxInv
  BY <1>4 DEF StopInv, CtxInv, Over
<1>7. BatchInv
  <2>1. Range(<<>>) = {} /\ IsInjective(<<>>)
    BY DEF Range, IsInjective
  <2>2. \A w \in Workers : Batch(w) = <<>>
    BY <1>4, ConcatEmptySeq DEF Batch
  <2> QED
    BY <2>1, <2>2 DEF BatchInv
<1> QED
  BY <1>1, <1>2, <1>3, <1>5, <1>6, <1>7 DEF IoInv, TypeOK

LEMMA IoStep == IoInv /\ [Next]_vars => IoInv'
<1> SUFFICES ASSUME IoInv, [Next]_vars PROVE IoInv'
  OBVIOUS
<1>1. ASSUME NEW op \in Ops, Queue(op) \/ CreateIOWorker(op) \/ Push(op) \/ Callback(op)
      PROVE  IoInv'
  BY <1>1, QueueStep, CreateIOWorkerStep, PushStep, CallbackStep
<1>2. ASSUME NEW w \in Workers, Worker(w) \/ SpuriousWakeup(w)
      PROVE  IoInv'
  BY <1>2, Basics, WakeStep, RelockStep, GetIoCtxStep, HandOnSteps, SpuriousStep DEF Worker
<1>3. ASSUME NEW u \in Users, UserCall(u) \/ GetIoCtx(u) \/ UserFails(u) \/ ReleaseIoCtx(u)
      PROVE  IoInv'
  BY <1>3, Basics, UserStep, GetIoCtxStep
<1>4. CASE Shutdown \/ Finishing \/ SpuriousEmpty
  BY <1>4, ShutdownStep, WaitForEmptyStep, StopProcStep, JoinStep, EndStep, SpuriousStep DEF Finishing
<1>5. CASE UNCHANGED vars
  <2>1. UNCHANGED <<callVars, workerVars, pc, ctxVars, opVars, mainVars>>
    BY <1>5 DEF vars
  <2> USE <2>1 DEF IoInv, TypeOK, callVars, workerVars, ctxVars, opVars, mainVars
  <2>2. CallTypes' /\ WorkerTypes' /\ PcTypes' /\ CtxTypes' /\ OpTypes' /\ MainTypes'
        /\ \A x \in Workers : Len(queue'[x]) <= MaxCount + 1
    BY DEF CallTypes, WorkerTypes, PcTypes, CtxTypes, OpTypes, MainTypes
  <2>3. CallInv' /\ WorkerInv' /\ CtxInv' /\ CompletedOnce'
    BY DEF CallInv, InPut, WorkerInv, CtxInv, CompletedOnce
  <2>4. BatchInv'
    BY BatchKept DEF Batch
  <2>5. StopInv'
    BY DEF StopInv, Idle, Joined
  <2> QED
    BY <2>2, <2>3, <2>4, <2>5
<1> QED
  BY <1>1, <1>2, <1>3, <1>4, <1>5 DEF Next

\* What holds of the callers, the worker threads and Shutdown at every moment.
THEOREM IoInvariant == Spec => []IoInv
  BY IoInit, IoStep, PTL DEF Spec
-----------------------------------------------------------------------------
(* The queues of the pools are FIFO queues.                                *)

\* The refinement mapping: what the worker of a pool has.
Waiting == [p \in Pools |-> IF ioWorkers[p] = None THEN <<>>
                            ELSE ls[ioWorkers[p]] \o queue[ioWorkers[p]]]

\* One pool gets another worker's place, and every worker keeps what it has.
LEMMA WaitingFacts ==
  ASSUME IoInv
  PROVE  /\ \A p \in Pools : ioWorkers[p] = None \/ (ioWorkers[p] \in Workers /\ OpPool[ioWorkers[p]] = p)
         /\ \A p \in Pools : Waiting[p] = IF ioWorkers[p] = None THEN <<>> ELSE ls[ioWorkers[p]] \o queue[ioWorkers[p]]
         /\ \A p \in Pools : Waiting[p] \in Seq(Ops) /\ handled[p] \in Seq(Ops)
<1>1. \A p \in Pools : ioWorkers[p] = None \/ (ioWorkers[p] \in Workers /\ OpPool[ioWorkers[p]] = p)
  BY DEF IoInv, TypeOK, CallTypes, CallInv
<1>2. \A p \in Pools : Waiting[p] = IF ioWorkers[p] = None THEN <<>> ELSE ls[ioWorkers[p]] \o queue[ioWorkers[p]]
  BY DEF Waiting
<1>3. \A w \in Workers : ls[w] \o queue[w] \in Seq(Ops)
  BY OwnerFacts DEF IoInv, Batch
<1>4. ASSUME NEW p \in Pools
      PROVE  Waiting[p] \in Seq(Ops)
  <2>1. CASE ioWorkers[p] = None
    <3>1. Waiting[p] = <<>>
      BY <1>2, <2>1
    <3> QED
      BY <3>1, EmptySeq
  <2>2. CASE ioWorkers[p] # None
    <3>1. Waiting[p] = ls[ioWorkers[p]] \o queue[ioWorkers[p]] /\ ioWorkers[p] \in Workers
      BY <1>1, <1>2, <2>2
    <3> QED
      BY <1>3, <3>1
  <2> QED
    BY <2>1, <2>2
<1> QED
  BY <1>1, <1>2, <1>4 DEF IoInv, TypeOK, OpTypes

\* A step that leaves the ops where they are.
LEMMA WaitingKept ==
  ASSUME IoInv, UNCHANGED <<ioWorkers, queue, ls>>
  PROVE  Waiting' = Waiting
  BY DEF Waiting

\* Accepting an op puts it at the end of its pool's queue.
LEMMA PutStep ==
  ASSUME IoInv, NEW op \in Ops, Push(op)
  PROVE  \/ Waiting' = Waiting /\ handled' = handled
         \/ \E p \in Pools : /\ \A q \in Pools : op \notin Range(handled[q]) /\ op \notin Range(Waiting[q])
                             /\ Waiting' = [Waiting EXCEPT ![p] = Append(@, op)]
                             /\ handled' = handled
<1> USE Basics
<1> DEFINE w == target[op]
           p == OpPool[op]
<1>a. /\ w \in Workers /\ p \in Pools /\ w = ioWorkers[p] /\ OpPool[w] = p /\ w # None
      /\ UNCHANGED <<ioWorkers, ls, handled>>
  BY DEF Push, opVars, IoInv, CallInv
<1>1. CASE Full(w)
  BY <1>a, <1>1, WaitingKept DEF Push
<1>2. CASE ~Full(w)
  <2>1. queue' = [queue EXCEPT ![w] = Append(@, op)] /\ call[op] = "push"
    BY <1>2 DEF Push
  <2>2. queue \in [Workers -> Seq(Ops)] /\ queue[w] \in Seq(Ops) /\ ls[w] \in Seq(Ops)
    BY <1>a DEF IoInv, TypeOK, WorkerTypes
  <2> HIDE DEF w, p
  <2>3. /\ ls'[w] \o queue'[w] = Append(ls[w] \o queue[w], op)
        /\ \A x \in Workers : x # w => ls'[x] \o queue'[x] = ls[x] \o queue[x]
    <3>1. queue'[w] = Append(queue[w], op) /\ \A x \in Workers : x # w => queue'[x] = queue[x]
      BY <1>a, <2>1, <2>2
    <3>2. ls[w] \o Append(queue[w], op) = Append(ls[w] \o queue[w], op)
      BY <2>2, OpAppended
    <3> QED
      BY <1>a, <3>1, <3>2
  <2>4. ASSUME NEW q \in Pools
        PROVE  op \notin Range(handled[q]) /\ op \notin Range(Waiting[q])
    <3>1. \A x \in Workers : op \notin Range(ls[x] \o queue[x])
      BY <2>1 DEF IoInv, BatchInv, Batch
    <3>2. Range(<<>>) = {}
      BY DEF Range
    <3>3. op \notin Range(Waiting[q])
      BY <3>1, <3>2, WaitingFacts
    <3> QED
      BY <2>1, <3>3 DEF IoInv, BatchInv
  <2>5. ASSUME NEW q \in Pools
        PROVE  Waiting'[q] = [Waiting EXCEPT ![p] = Append(@, op)][q]
    <3>1. Waiting'[q] = IF ioWorkers[q] = None THEN <<>> ELSE ls'[ioWorkers[q]] \o queue'[ioWorkers[q]]
      BY <1>a DEF Waiting
    <3>2. CASE q = p
      <4>1. Waiting[p] = ls[w] \o queue[w]
        BY <1>a, WaitingFacts
      <4> QED
        BY <1>a, <2>3, <3>1, <3>2, <4>1 DEF Waiting
    <3>3. CASE q # p
      <4>1. ioWorkers[q] # w
        BY <1>a, <3>3, WaitingFacts
      <4>2. Waiting'[q] = Waiting[q]
        BY <2>3, <3>1, <4>1, WaitingFacts
      <4> QED
        BY <3>3, <4>2 DEF Waiting
    <3> QED
      BY <3>2, <3>3
  <2>6. Waiting' = [Waiting EXCEPT ![p] = Append(@, op)]
    BY <2>5 DEF Waiting
  <2> QED
    BY <1>a, <2>4, <2>6
<1> QED
  BY <1>1, <1>2

\* Handing on an op takes it from the head of its pool's queue.
LEMMA TakeStep ==
  ASSUME IoInv, NEW w \in Workers, FailOp(w) \/ AioOperate(w)
  PROVE  \E p \in Pools : /\ Waiting[p] # <<>>
                          /\ handled' = [handled EXCEPT ![p] = Append(@, Head(Waiting[p]))]
                          /\ Waiting' = [Waiting EXCEPT ![p] = Tail(@)]
<1> USE Basics
<1> DEFINE p == OpPool[w]
<1>a. pc[w] \in {"make", "use"} /\ NextOp(w) /\ ioWorkers' = ioWorkers
  BY DEF FailOp, AioOperate, NextOp, callVars
<1>b. /\ p \in Pools /\ ioWorkers[p] = w /\ w # None
      /\ handled' = [handled EXCEPT ![p] = Append(@, Head(ls[w]))]
      /\ ls[w] \o queue[w] # <<>> /\ Head(ls[w]) = Head(ls[w] \o queue[w])
      /\ ls'[w] \o queue'[w] = Tail(ls[w] \o queue[w])
      /\ \A x \in Workers : x # w => ls'[x] \o queue'[x] = ls[x] \o queue[x]
  <2>1. /\ p \in Pools /\ ioWorkers[p] = w
        /\ handled' = [handled EXCEPT ![p] = Append(@, Head(ls[w]))]
        /\ Batch(w) # <<>> /\ Head(ls[w]) = Head(Batch(w)) /\ Batch(w)' = Tail(Batch(w))
        /\ \A x \in Workers : x # w => Batch(x)' = Batch(x)
    BY <1>a, NextOpFacts
  <2> QED
    BY <2>1 DEF Batch
<1> HIDE DEF p
<1>1. Waiting[p] = ls[w] \o queue[w]
  BY <1>b, WaitingFacts
<1>2. ASSUME NEW q \in Pools
      PROVE  Waiting'[q] = [Waiting EXCEPT ![p] = Tail(@)][q]
  <2>1. Waiting'[q] = IF ioWorkers[q] = None THEN <<>> ELSE ls'[ioWorkers[q]] \o queue'[ioWorkers[q]]
    BY <1>a DEF Waiting
  <2>2. CASE q = p
    BY <1>b, <1>1, <2>1, <2>2 DEF Waiting
  <2>3. CASE q # p
    <3>1. ioWorkers[q] # w
      BY <1>b, <2>3, WaitingFacts DEF p
    <3>2. Waiting'[q] = Waiting[q]
      BY <1>b, <2>1, <3>1, WaitingFacts
    <3> QED
      BY <2>3, <3>2 DEF Waiting
  <2> QED
    BY <2>2, <2>3
<1>3. Waiting' = [Waiting EXCEPT ![p] = Tail(@)]
  BY <1>2 DEF Waiting
<1> QED
  BY <1>b, <1>1, <1>3

\* A new worker has no op, and a worker that is gone had none left.
LEMMA EmptyHanded ==
  ASSUME IoInv, IoInv', UNCHANGED <<queue, ls>>,
         \A p \in Pools : ioWorkers'[p] # ioWorkers[p] => ioWorkers[p] = None \/ ioWorkers'[p] = None
  PROVE  Waiting' = Waiting
<1> SUFFICES ASSUME NEW p \in Pools
             PROVE  Waiting'[p] = Waiting[p]
  BY DEF Waiting
<1> USE Basics
<1>2. Waiting[p] = IF ioWorkers[p] = None THEN <<>> ELSE ls[ioWorkers[p]] \o queue[ioWorkers[p]]
  BY DEF Waiting
<1>3. Waiting'[p] = IF ioWorkers'[p] = None THEN <<>> ELSE ls[ioWorkers'[p]] \o queue[ioWorkers'[p]]
  BY DEF Waiting
<1>4. CASE ioWorkers'[p] = ioWorkers[p]
  BY <1>2, <1>3, <1>4
<1>5. CASE ioWorkers[p] = None /\ ioWorkers'[p] # None
  <2>1. ioWorkers'[p] \in Workers /\ OpPool[ioWorkers'[p]] = p
    BY <1>5 DEF IoInv, TypeOK, CallTypes, CallInv
  <2>2. ls[ioWorkers'[p]] \o queue[ioWorkers'[p]] = <<>>
    BY <1>5, <2>1 DEF IoInv, BatchInv, Batch
  <2> QED
    BY <1>2, <1>3, <1>5, <2>2
<1>6. CASE ioWorkers'[p] = None /\ ioWorkers[p] # None
  <2>1. ioWorkers[p] \in Workers /\ OpPool[ioWorkers[p]] = p
    BY <1>6 DEF IoInv, TypeOK, CallTypes, CallInv
  <2>2. ls'[ioWorkers[p]] \o queue'[ioWorkers[p]] = <<>>
    BY <1>6, <2>1 DEF IoInv, BatchInv, Batch
  <2> QED
    BY <1>2, <1>3, <1>6, <2>2
<1> QED
  BY <1>4, <1>5, <1>6

\* Every other step leaves the queues of the pools alone.
LEMMA StutterStep ==
  ASSUME IoInv, [Next]_vars,
         \A op \in Ops : ~Push(op), \A w \in Workers : ~(FailOp(w) \/ AioOperate(w))
  PROVE  Waiting' = Waiting /\ handled' = handled
<1> USE Basics DEF vars, callVars, workerVars, opVars
<1>0. IoInv'
  BY IoStep
<1>1. ASSUME NEW op \in Ops, Queue(op) \/ Callback(op)
      PROVE  Waiting' = Waiting /\ handled' = handled
  BY <1>1, WaitingKept DEF Queue, Callback
<1>2. ASSUME NEW op \in Ops, CreateIOWorker(op)
      PROVE  Waiting' = Waiting /\ handled' = handled
  <2>1. UNCHANGED <<queue, ls, handled>>
    BY <1>2 DEF CreateIOWorker
  <2>2. ioWorkers' = ioWorkers \/ (ioWorkers[OpPool[op]] = None /\ ioWorkers' = [ioWorkers EXCEPT ![OpPool[op]] = op])
    BY <1>2 DEF CreateIOWorker, NoWorkerYet
  <2>3. \A p \in Pools : ioWorkers'[p] # ioWorkers[p] => ioWorkers[p] = None
    BY <2>2 DEF IoInv, TypeOK, CallTypes
  <2> QED
    BY <1>0, <2>1, <2>3, EmptyHanded
<1>3. ASSUME NEW w \in Workers, Wake(w) \/ Relock(w)
      PROVE  Waiting' = Waiting /\ handled' = handled
  <2>1. ls[w] = <<>>
    BY <1>3 DEF Wake, Relock, IoInv, WorkerInv, AtWork
  <2>2. SwapIn(w) \/ RunDry(w) \/ UNCHANGED <<queue, ls>>
    BY <1>3 DEF Wake, Relock
  <2>3. \A x \in Workers : ls'[x] \o queue'[x] = ls[x] \o queue[x]
    BY <2>1, <2>2, SwapFacts DEF IoInv, Batch
  <2>4. UNCHANGED <<ioWorkers, handled>>
    BY <1>3 DEF Wake, Relock
  <2>5. ASSUME NEW p \in Pools
        PROVE  Waiting'[p] = Waiting[p]
    <3>1. Waiting'[p] = IF ioWorkers[p] = None THEN <<>> ELSE ls'[ioWorkers[p]] \o queue'[ioWorkers[p]]
      BY <2>4 DEF Waiting
    <3> QED
      BY <2>3, <3>1, WaitingFacts
  <2> QED
    BY <2>4, <2>5 DEF Waiting
<1>4. ASSUME NEW g \in Getters, GetIoCtx(g)
      PROVE  Waiting' = Waiting /\ handled' = handled
  BY <1>4, WaitingKept DEF GetIoCtx, Lookup, CreateIoCtx, InsertIoCtx
<1>5. ASSUME NEW g \in Getters, UserCall(g) \/ UserFails(g) \/ ReleaseIoCtx(g) \/ SpuriousWakeup(g)
      PROVE  Waiting' = Waiting /\ handled' = handled
  BY <1>5, WaitingKept DEF UserCall, UserFails, ReleaseIoCtx, SpuriousWakeup
<1>6. CASE Shutdown \/ Join
  <2>1. UNCHANGED <<queue, ls, handled>>
    BY <1>6 DEF Shutdown, Join
  <2>2. ioWorkers' = ioWorkers \/ ioWorkers' = [p \in Pools |-> None]
    BY <1>6 DEF Shutdown, Join, FromPool
  <2>3. \A p \in Pools : ioWorkers'[p] # ioWorkers[p] => ioWorkers'[p] = None
    BY <2>2
  <2> QED
    BY <1>0, <2>1, <2>3, EmptyHanded
<1>7. CASE WaitForEmpty \/ StopProc \/ Clear \/ ClientShutdown \/ SpuriousEmpty
  BY <1>7, WaitingKept DEF WaitForEmpty, StopProc, Clear, ClientShutdown, SpuriousEmpty
<1>8. CASE UNCHANGED vars
  BY <1>8, WaitingKept
<1> QED
  BY <1>1, <1>2, <1>3, <1>4, <1>5, <1>6, <1>7, <1>8 DEF Next, Worker, Finishing

LEMMA FifoStep == IoInv /\ [Next]_vars => [Fifo!FifoNext]_(Fifo!fvars)
<1> SUFFICES ASSUME IoInv, [Next]_vars
             PROVE  Fifo!FifoNext \/ Fifo!fvars' = Fifo!fvars
  OBVIOUS
<1>1. ASSUME NEW op \in Ops, Push(op)
      PROVE  Fifo!FifoNext \/ Fifo!fvars' = Fifo!fvars
  <2>1. CASE Waiting' = Waiting /\ handled' = handled
    BY <2>1 DEF Fifo!fvars, Waiting
  <2>2. ASSUME NEW p \in Pools,
               \A q \in Pools : op \notin Range(handled[q]) /\ op \notin Range(Waiting[q]),
               Waiting' = [Waiting EXCEPT ![p] = Append(@, op)], handled' = handled
        PROVE  Fifo!FifoNext
    <3>1. ASSUME NEW q \in Pools
          PROVE  op \notin Range(handled[q] \o Waiting[q])
      BY <2>2, WaitingFacts, RangeConcatenation
    <3>2. ~Fifo!Known(op)
      BY <3>1 DEF Fifo!Known, Range, Waiting
    <3>3. Fifo!Put(p, op)
      BY <2>2, <3>2 DEF Fifo!Put, Waiting
    <3> QED
      BY <3>3 DEF Fifo!FifoNext
  <2> QED
    BY <1>1, <2>1, <2>2, PutStep
<1>2. ASSUME NEW w \in Workers, FailOp(w) \/ AioOperate(w)
      PROVE  Fifo!FifoNext
  <2>1. PICK p \in Pools : /\ Waiting[p] # <<>>
                           /\ handled' = [handled EXCEPT ![p] = Append(@, Head(Waiting[p]))]
                           /\ Waiting' = [Waiting EXCEPT ![p] = Tail(@)]
    BY <1>2, TakeStep
  <2>2. Fifo!Take(p)
    BY <2>1 DEF Fifo!Take, Waiting
  <2> QED
    BY <2>2 DEF Fifo!FifoNext
<1>3. CASE (\A op \in Ops : ~Push(op)) /\ (\A w \in Workers : ~(FailOp(w) \/ AioOperate(w)))
  <2>1. Waiting' = Waiting /\ handled' = handled
    BY <1>3, StutterStep
  <2> QED
    BY <2>1 DEF Fifo!fvars, Waiting
<1> QED
  BY <1>1, <1>2, <1>3

LEMMA FifoStart == Init => Fifo!FifoInit
  BY DEF Init, Fifo!FifoInit
-----------------------------------------------------------------------------
(* The results.                                                            *)

\* The queue of a RadosIOWorker never holds more than IO_WORKER_QUEUE_MAX_COUNT
\* + 1 ops, and the variables keep their types.
THEOREM QueuesAreBounded == Spec => []TypeOK
<1>1. IoInv => TypeOK
  BY DEF IoInv
<1> QED
  BY <1>1, IoInvariant, PTL

\* The completion of an op is called at most once, not while librados has the
\* op, and not for an op that Queue refused.
THEOREM OpsCompleteOnce == Spec => []CompletedOnce
<1>1. IoInv => CompletedOnce
  BY DEF IoInv
<1> QED
  BY <1>1, IoInvariant, PTL

\* CephProxy::Shutdown leaves no accepted op behind in a worker.
THEOREM ShutdownLeavesNothing == Spec => []NothingLeftBehind
<1>1. IoInv => NothingLeftBehind
  <2> SUFFICES ASSUME IoInv, mpc \in Over, NEW op \in Ops, call[op] = "accepted"
               PROVE  \E i \in DOMAIN handled[OpPool[op]] : handled[OpPool[op]][i] = op
    BY DEF NothingLeftBehind, Over
  <2>1. OpPool[op] \in Pools /\ ioWorkers[OpPool[op]] \notin Workers
    <3>1. OpPool[op] \in Pools
      BY DEF IoInv, CallInv
    <3>2. \A p \in Pools : ioWorkers[p] = None
      BY DEF IoInv, StopInv
    <3>3. None \notin Workers
      BY Basics
    <3> QED
      BY <3>1, <3>2, <3>3
  <2>2. op \in Range(handled[OpPool[op]])
    BY <2>1 DEF IoInv, BatchInv
  <2> QED
    BY <2>2 DEF Range
<1> QED
  BY <1>1, IoInvariant, PTL

-----------------------------------------------------------------------------
(* Contexts.                                                               *)

\* The context g has was made for a call like its own, for the same table and
\* the same pool; a call of GetIoCtxFromCeph has its own.
AtHome(g) ==
  /\ held[g] \in Getters
  /\ TableOf(held[g]) = TableOf(g) /\ PoolOf(held[g]) = PoolOf(g)
  /\ TableOf(g) = "ceph" => held[g] = g

Cleared == {"closing", "down"}

\* A context stays with the calls it was made for and in its place of the
\* tables.  Until Clear only users release contexts; Clear leaves none.
HomeInv ==
  /\ \A g \in Getters : pc[g] \in {"insert", "use", "gone"} => AtHome(g)
  /\ \A t \in Tables, p \in Pools : table[t][p] # None =>
       TableOf(table[t][p]) = t /\ PoolOf(table[t][p]) = p
  /\ mpc \notin Cleared => \A c \in released : \E u \in Users : pc[u] = "gone" /\ held[u] = c
  /\ mpc \in Cleared => \A t \in Tables, p \in Pools : table[t][p] = None

\* Steps that get nobody a context, release none and leave the tables alone.
LEMMA HomeKept ==
  ASSUME HomeInv, UNCHANGED <<table, released>>, mpc' \in Cleared <=> mpc \in Cleared,
         \A u \in Users : pc'[u] = "gone" <=> pc[u] = "gone",
         \A g \in Getters : pc'[g] \in {"insert", "use", "gone"} => pc'[g] = pc[g],
         \A g \in Getters : pc[g] \in {"insert", "use", "gone"} /\ pc'[g] = pc[g] =>
                             held'[g] = held[g]
  PROVE  HomeInv'
<1> USE Basics DEF HomeInv
<1>1. ASSUME NEW g \in Getters, pc'[g] \in {"insert", "use", "gone"}
      PROVE  AtHome(g)'
  <2>1. pc[g] \in {"insert", "use", "gone"} /\ held'[g] = held[g]
    BY <1>1
  <2> QED
    BY <2>1 DEF AtHome, TableOf, PoolOf
<1>2. ASSUME mpc' \notin Cleared, NEW c \in released'
      PROVE  \E u \in Users : pc'[u] = "gone" /\ held'[u] = c
  <2>1. PICK u \in Users : pc[u] = "gone" /\ held[u] = c
    BY <1>2
  <2>2. pc'[u] = "gone" /\ held'[u] = held[u]
    BY <2>1
  <2> QED
    BY <2>1, <2>2
<1>3. \A t \in Tables, p \in Pools : table'[t][p] # None =>
        TableOf(table'[t][p]) = t /\ PoolOf(table'[t][p]) = p
  OBVIOUS
<1>4. mpc' \in Cleared => \A t \in Tables, p \in Pools : table'[t][p] = None
  OBVIOUS
<1> QED
  BY <1>1, <1>2, <1>3, <1>4 DEF TableOf, PoolOf

\* Steps of a worker's thread, and steps that start or wake it.
LEMMA HomeThread ==
  ASSUME PcTypes, HomeInv, UNCHANGED <<table, released>>, mpc' \in Cleared <=> mpc \in Cleared,
         NEW w \in Workers,
         \A g \in Getters : g # w => pc'[g] = pc[g] /\ held'[g] = held[g],
         \/ pc'[w] \in {"start", "nothread", "notified", "lookup", "waiting", "done"}
         \/ pc'[w] = pc[w] /\ held'[w] = held[w]
  PROVE  HomeInv'
<1>1. w \in Getters /\ w \notin Users /\ Users \subseteq Getters
  BY Basics
<1>2. \A g \in Getters : pc'[g] \in {"insert", "use", "gone"} => pc'[g] = pc[g] /\ held'[g] = held[g]
  OBVIOUS
<1>3. \A u \in Users : pc'[u] = pc[u] /\ held'[u] = held[u]
  BY <1>1
<1>4. \A g \in Getters : pc[g] \in {"insert", "use", "gone"} /\ pc'[g] = pc[g] => held'[g] = held[g]
  BY <1>2
<1> QED
  BY <1>2, <1>3, <1>4, HomeKept

\* GetIoCtx and its sisters give a call its own context or one of its place.
LEMMA HomeGet ==
  ASSUME IoInv, HomeInv, NEW g \in Getters, GetIoCtx(g)
  PROVE  HomeInv'
<1> USE Basics
<1>0. PcTypes /\ CtxTypes /\ CtxInv /\ TypeOK /\ BatchInv /\ WorkerInv /\ StopInv
  BY DEF IoInv, TypeOK
<1>a. mpc \notin Cleared
  BY <1>0 DEF GetIoCtx, Lookup, CreateIoCtx, InsertIoCtx, CtxInv, StopInv, Over, Cleared, Getters
<1>b. UNCHANGED <<released, mpc>> /\ \A x \in Getters : x # g => pc'[x] = pc[x] /\ held'[x] = held[x]
  BY <1>0 DEF GetIoCtx, Lookup, CreateIoCtx, InsertIoCtx, Step, mainVars, PcTypes, CtxTypes
<1>c. pc[g] # "gone" /\ pc'[g] # "gone"
  BY <1>0 DEF GetIoCtx, Lookup, CreateIoCtx, InsertIoCtx, Step, PcTypes
<1>d. pc[g] \in {"lookup", "insert"} => TableOf(g) \in Tables /\ PoolOf(g) \in Pools
  <2>1. CASE g \in Users
    BY <1>0, <2>1, UserTables DEF CtxInv, TableOf, PoolOf
  <2>2. CASE g \in Workers /\ ls[g] # <<>>
    BY <1>0, <2>2, GetterFacts
  <2>3. CASE g \in Workers /\ ls[g] = <<>>
    BY <1>0, <2>3 DEF GetIoCtx, Lookup, CreateIoCtx, InsertIoCtx, WorkerInv
  <2> QED
    BY <2>1, <2>2, <2>3 DEF Getters
\* What is left to show: the caller's context is at home, and so are the tables.
<1>e. ASSUME pc'[g] \in {"insert", "use"} => AtHome(g)',
             \A t \in Tables, p \in Pools : table'[t][p] # None =>
               TableOf(table'[t][p]) = t /\ PoolOf(table'[t][p]) = p
      PROVE  HomeInv'
  <2>1. ASSUME NEW x \in Getters, pc'[x] \in {"insert", "use", "gone"}
        PROVE  AtHome(x)'
    <3>1. CASE x = g
      BY <1>c, <1>e, <2>1, <3>1
    <3>2. CASE x # g
      BY <1>b, <2>1, <3>2 DEF HomeInv, AtHome, TableOf, PoolOf
    <3> QED
      BY <3>1, <3>2
  <2>2. ASSUME NEW c \in released'
        PROVE  \E u \in Users : pc'[u] = "gone" /\ held'[u] = c
    <3>1. PICK u \in Users : pc[u] = "gone" /\ held[u] = c
      BY <1>a, <1>b, <2>2 DEF HomeInv
    <3>2. u # g /\ u \in Getters
      BY <1>c, <3>1
    <3> QED
      BY <1>b, <3>1, <3>2
  <2> QED
    BY <1>a, <1>b, <1>e, <2>1, <2>2 DEF HomeInv, TableOf, PoolOf
<1>1. CASE Lookup(g)
  <2> DEFINE c == table[TableOf(g)][PoolOf(g)]
  <2>1. held'[g] = c /\ table' = table /\ pc'[g] = (IF c = None THEN "make" ELSE "use")
    BY <1>0, <1>1 DEF Lookup, Step, PcTypes, CtxTypes
  <2>2. TableOf(g) \in Tables /\ PoolOf(g) \in Pools
    BY <1>1, <1>d DEF Lookup
  <2>3. c # None => c \in Getters /\ TableOf(c) = TableOf(g) /\ PoolOf(c) = PoolOf(g)
    <3>1. \A t \in Tables, p \in Pools : table[t][p] # None =>
            TableOf(table[t][p]) = t /\ PoolOf(table[t][p]) = p
      BY DEF HomeInv
    <3>2. c # None => TableOf(c) = TableOf(g) /\ PoolOf(c) = PoolOf(g)
      BY <2>2, <3>1
    <3>3. c \in Getters \cup {None}
      BY <1>0, <2>2 DEF CtxTypes
    <3> QED
      BY <3>2, <3>3
  <2>4. TableOf(g) # "ceph"
    BY <2>2 DEF Tables
  <2> HIDE DEF c
  <2>5. pc'[g] \in {"insert", "use"} => AtHome(g)'
    BY <2>1, <2>3, <2>4 DEF AtHome, TableOf, PoolOf
  <2> QED
    BY <1>e, <2>1, <2>5 DEF HomeInv
<1>2. CASE CreateIoCtx(g)
  <2>1. held'[g] = (IF g \in Workers THEN Head(ls[g]) ELSE g) /\ table' = table
    BY <1>0, <1>2 DEF CreateIoCtx, CtxTypes
  <2>2. CASE g \in Workers
    <3>1. ls[g] # <<>>
      BY <1>0, <1>2, <2>2 DEF CreateIoCtx, WorkerInv
    <3>2. ls[g] \in Seq(Ops) /\ queue[g] \in Seq(Ops) /\ Batch(g) \in Seq(Ops) /\ Batch(g) # <<>>
      BY <1>0, <2>2, <3>1, OwnerFacts
    <3>3. Head(Batch(g)) = Head(ls[g]) /\ Head(Batch(g)) \in Range(Batch(g))
      BY <1>0, <2>2, <3>1, <3>2, OpTaken, RestFacts DEF Batch, BatchInv
    <3>4. OpPool[Head(ls[g])] = OpPool[g] /\ Head(ls[g]) \in Ops
      BY <1>0, <2>2, <3>2, <3>3, OwnerFacts DEF BatchInv
    <3>5. Head(ls[g]) \notin Users /\ g \notin Users /\ Head(ls[g]) \in Getters
      BY <2>2, <3>4
    <3>6. AtHome(g)'
      BY <2>1, <2>2, <3>4, <3>5 DEF AtHome, TableOf, PoolOf
    <3> QED
      BY <1>e, <2>1, <3>6 DEF HomeInv
  <2>3. CASE g \notin Workers
    <3>1. AtHome(g)'
      BY <2>1, <2>3 DEF AtHome, TableOf, PoolOf
    <3> QED
      BY <1>e, <2>1, <3>1 DEF HomeInv
  <2> QED
    BY <2>2, <2>3
<1>3. CASE InsertIoCtx(g)
  <2>1. AtHome(g) /\ held' = held
    BY <1>3 DEF InsertIoCtx, HomeInv
  <2>2. TableOf(g) \in Tables /\ PoolOf(g) \in Pools
    BY <1>3, <1>d DEF InsertIoCtx
  <2>3. \A t \in Tables, p \in Pools :
          table'[t][p] = table[t][p] \/ (t = TableOf(g) /\ p = PoolOf(g) /\ table'[t][p] = held[g])
    <3> DEFINE t0 == TableOf(g)
               p0 == PoolOf(g)
               c0 == IF t0 = "name" \/ table[t0][p0] = None THEN held[g] ELSE table[t0][p0]
    <3>1. t0 \in Tables /\ p0 \in Pools
      BY <2>2
    <3>2. table' = [table EXCEPT ![t0][p0] = c0]
      BY <1>3, <3>1 DEF InsertIoCtx, Insert, Tables
    <3>3. c0 = held[g] \/ c0 = table[t0][p0]
      OBVIOUS
    <3> HIDE DEF t0, p0, c0
    <3>4. table'[t0][p0] = c0
      BY <1>0, <3>1, <3>2 DEF CtxTypes
    <3>5. \A t \in Tables, p \in Pools : t # t0 \/ p # p0 => table'[t][p] = table[t][p]
      BY <1>0, <3>1, <3>2 DEF CtxTypes
    <3>6. \A t \in Tables, p \in Pools :
            table'[t][p] = table[t][p] \/ (t = t0 /\ p = p0 /\ table'[t][p] = held[g])
      BY <3>3, <3>4, <3>5
    <3> QED
      BY <3>6 DEF t0, p0
  <2>4. \A t \in Tables, p \in Pools : table'[t][p] # None =>
          TableOf(table'[t][p]) = t /\ PoolOf(table'[t][p]) = p
    BY <2>1, <2>3 DEF HomeInv, AtHome
  <2>5. AtHome(g)'
    BY <2>1 DEF AtHome, TableOf, PoolOf
  <2> QED
    BY <1>e, <2>4, <2>5
<1> QED
  BY <1>1, <1>2, <1>3 DEF GetIoCtx

LEMMA HomeRelease ==
  ASSUME IoInv, HomeInv, NEW u \in Users, ReleaseIoCtx(u)
  PROVE  HomeInv'
<1> USE Basics
<1>0. PcTypes /\ CtxTypes
  BY DEF IoInv, TypeOK
<1>1. /\ pc[u] = "use" /\ pc'[u] = "gone" /\ UNCHANGED <<held, table, mpc>> /\ mpc = "up"
      /\ \A g \in Getters : g # u => pc'[g] = pc[g]
      /\ released' \subseteq released \cup {held[u]}
  BY <1>0 DEF ReleaseIoCtx, Step, mainVars, PcTypes
<1>2. \A g \in Getters : pc'[g] \in {"insert", "use", "gone"} => AtHome(g)'
  BY <1>1 DEF HomeInv, AtHome, TableOf, PoolOf
<1>3. ASSUME NEW c \in released'
      PROVE  \E v \in Users : pc'[v] = "gone" /\ held'[v] = c
  <2>1. CASE c = held[u]
    BY <1>1, <2>1
  <2>2. CASE c # held[u]
    <3>1. PICK v \in Users : pc[v] = "gone" /\ held[v] = c
      BY <1>1, <1>3, <2>2 DEF HomeInv, Cleared
    <3>2. pc'[v] = "gone" /\ held'[v] = c
      BY <1>1, <3>1
    <3> QED
      BY <3>2
  <2> QED
    BY <2>1, <2>2
<1> QED
  BY <1>1, <1>2, <1>3 DEF HomeInv, Cleared, TableOf, PoolOf

LEMMA HomeStep ==
  ASSUME IoInv, HomeInv, [Next]_vars
  PROVE  HomeInv'
<1>0. PcTypes /\ CtxTypes
  BY DEF IoInv, TypeOK
<1> USE Basics DEF ctxVars, mainVars
<1>1. ASSUME NEW op \in Ops, Queue(op) \/ Callback(op)
      PROVE  HomeInv'
  BY <1>1, HomeKept DEF Queue, Callback
<1>2. ASSUME NEW op \in Ops, CreateIOWorker(op)
      PROVE  HomeInv'
  <2>1. /\ UNCHANGED <<held, table, released, mpc>> /\ op \in Workers
        /\ pc' = pc \/ pc' = [pc EXCEPT ![op] = "start"] \/ pc' = [pc EXCEPT ![op] = "nothread"]
    BY <1>2 DEF CreateIOWorker, Step
  <2> QED
    BY <1>0, <2>1, HomeThread DEF PcTypes
<1>3. ASSUME NEW op \in Ops, Push(op)
      PROVE  HomeInv'
  <2>1. target[op] \in Workers
    BY <1>3 DEF Push, IoInv, CallInv
  <2>2. /\ UNCHANGED <<held, table, released, mpc>>
        /\ pc' = pc \/ NotifyWorker(target[op])
    BY <1>3 DEF Push
  <2> QED
    BY <1>0, <2>1, <2>2, HomeThread DEF PcTypes, NotifyWorker, Step
<1>4. ASSUME NEW w \in Workers, Wake(w) \/ Relock(w) \/ SpuriousWakeup(w)
      PROVE  HomeInv'
  <2>1. PICK q \in {"lookup", "done", "waiting", "notified"} : pc' = [pc EXCEPT ![w] = q]
    BY <1>4 DEF Wake, Relock, SpuriousWakeup, SwapIn, RunDry, Exit, Step
  <2>2. UNCHANGED <<held, table, released>> /\ (mpc' \in Cleared <=> mpc \in Cleared)
    BY <1>4 DEF Wake, Relock, SpuriousWakeup, SwapIn, RunDry, Exit, NotifyEmpty, Cleared
  <2> QED
    BY <1>0, <2>1, <2>2, HomeThread DEF PcTypes
<1>5. ASSUME NEW w \in Workers, FailOp(w) \/ AioOperate(w)
      PROVE  HomeInv'
  <2>1. /\ pc' = [pc EXCEPT ![w] = "lookup"] /\ held' = [held EXCEPT ![w] = None]
        /\ UNCHANGED <<table, released, mpc>>
    BY <1>5 DEF FailOp, AioOperate, NextOp, Step
  <2> QED
    BY <1>0, <2>1, HomeThread DEF PcTypes, CtxTypes
<1>6. ASSUME NEW u \in Users, UserCall(u) \/ UserFails(u)
      PROVE  HomeInv'
  <2>1. PICK q \in {"idle", "lookup", "make"} : pc' = [pc EXCEPT ![u] = q]
    BY <1>6 DEF UserCall, UserFails, Step
  <2>2. UNCHANGED <<held, table, released, mpc>> /\ pc[u] \in {"idle", "make"}
    BY <1>6 DEF UserCall, UserFails
  <2>3. pc'[u] = q /\ \A g \in Getters : g # u => pc'[g] = pc[g]
    BY <1>0, <2>1 DEF PcTypes
  <2>4. \A v \in Users : pc'[v] = "gone" <=> pc[v] = "gone"
    BY <2>2, <2>3
  <2>5. \A g \in Getters : pc'[g] \in {"insert", "use", "gone"} => pc'[g] = pc[g]
    BY <2>3
  <2> QED
    BY <2>2, <2>4, <2>5, HomeKept
<1>7. CASE Shutdown \/ Join
  <2>1. UNCHANGED <<pc, held, table, released>>
    BY <1>7 DEF Shutdown, Join
  <2>2. mpc \notin Cleared /\ mpc' \notin Cleared
    BY <1>7 DEF Shutdown, Join, FromPool, Cleared
  <2> QED
    BY <2>1, <2>2, HomeKept
<1>8. CASE WaitForEmpty \/ SpuriousEmpty
  <2>1. UNCHANGED <<pc, held, table, released>>
    BY <1>8 DEF WaitForEmpty, SpuriousEmpty
  <2>2. mpc \notin Cleared /\ mpc' \notin Cleared
    BY <1>8 DEF WaitForEmpty, SpuriousEmpty, Cleared
  <2> QED
    BY <2>1, <2>2, HomeKept
<1>9. CASE StopProc
  <2>1. ioWorkers[mi] \in Workers
    BY <1>9 DEF StopProc, IoInv, StopInv
  <2>2. /\ NotifyWorker(ioWorkers[mi]) /\ UNCHANGED <<held, table, released>>
        /\ mpc \notin Cleared /\ mpc' \notin Cleared
    BY <1>9 DEF StopProc, Cleared
  <2> QED
    BY <1>0, <2>1, <2>2, HomeThread DEF PcTypes, NotifyWorker, Step
<1>10. CASE Clear
  <2>1. UNCHANGED <<pc, held>> /\ mpc' \in Cleared
    BY <1>10 DEF Clear, Cleared
  <2>2. \A t \in Tables, p \in Pools : table'[t][p] = None
    BY <1>10 DEF Clear
  <2>3. \A g \in Getters : pc'[g] \in {"insert", "use", "gone"} => AtHome(g)'
    BY <2>1 DEF HomeInv, AtHome, TableOf, PoolOf
  <2> QED
    BY <2>1, <2>2, <2>3 DEF HomeInv
<1>11. CASE ClientShutdown
  BY <1>11, HomeKept DEF ClientShutdown, Cleared
<1>12. CASE UNCHANGED vars
  BY <1>12, HomeKept DEF vars
<1> QED
  BY <1>1, <1>2, <1>3, <1>4, <1>5, <1>6, <1>7, <1>8, <1>9, <1>10, <1>11, <1>12,
     HomeGet, HomeRelease DEF Next, Worker, Finishing

LEMMA HomeInvariant == Spec => []HomeInv
<1>1. Init => HomeInv
  BY Basics DEF Init, HomeInv, Cleared
<1>2. IoInv /\ HomeInv /\ [Next]_vars => HomeInv'
  BY HomeStep
<1> QED
  BY <1>1, <1>2, IoInvariant, PTL DEF Spec

\* No thread, table or user has a deleted context, but for one a user released
\* that had it from a table; what GetIoCtxFromCeph returned may be released at
\* any time, and Clear deletes no context twice.
THEOREM ContextsAreLive == Spec => []ContextLive
<1>1. IoInv /\ HomeInv => ContextLive
  <2> SUFFICES ASSUME IoInv, HomeInv PROVE ContextLive
    OBVIOUS
  <2> USE Basics
  <2>0. PcTypes /\ CtxTypes
    BY DEF IoInv, TypeOK
  \* A context somebody has, or finds in a table, was released by a user that
  \* had it from a table, if at all.
  <2>1. ASSUME mpc \notin Cleared, NEW c \in released, TableOf(c) # "ceph"
        PROVE  c \in Shared
    <3>1. PICK u \in Users : pc[u] = "gone" /\ held[u] = c
      BY <2>1 DEF HomeInv
    <3>2. UserTable[u] # "ceph"
      BY <2>1, <3>1 DEF HomeInv, AtHome, TableOf
    <3> QED
      BY <3>1, <3>2 DEF Shared
  <2>2. ASSUME NEW w \in Workers, pc[w] \in {"insert", "use"}
        PROVE  held[w] \notin released \ Shared
    <3>1. mpc \notin Cleared
      BY <2>2 DEF IoInv, StopInv, Over, Cleared
    <3>2. TableOf(held[w]) = "id"
      BY <2>2 DEF HomeInv, AtHome, TableOf
    <3> QED
      BY <2>1, <3>1, <3>2
  <2>3. ASSUME NEW t \in Tables, NEW p \in Pools
        PROVE  table[t][p] \notin released \ Shared
    <3>1. CASE table[t][p] = None
      BY <2>0, <3>1 DEF CtxTypes
    <3>2. CASE table[t][p] # None
      <4>1. mpc \notin Cleared /\ TableOf(table[t][p]) # "ceph"
        BY <3>2 DEF HomeInv, Tables
      <4> QED
        BY <2>1, <4>1
    <3> QED
      BY <3>1, <3>2
  <2>4. ASSUME NEW t \in Tables, NEW p \in Pools, NEW s \in Tables, NEW q \in Pools,
               table[s][q] = table[t][p], table[t][p] # None
        PROVE  s = t /\ q = p
    BY <2>4 DEF HomeInv
  <2>5. ASSUME mpc = "up", NEW u \in Users, pc[u] \in {"insert", "use"}
        PROVE  held[u] \notin released \ Shared
    <3>1. CASE UserTable[u] = "ceph" /\ held[u] \in released
      <4>1. held[u] = u
        BY <2>5, <3>1 DEF HomeInv, AtHome, TableOf
      <4>2. PICK v \in Users : pc[v] = "gone" /\ held[v] = u
        BY <2>5, <3>1, <4>1 DEF HomeInv, Cleared
      <4>3. TableOf(v) = "ceph" => held[v] = v
        BY <4>2 DEF HomeInv, AtHome
      <4>4. TableOf(u) = TableOf(v) /\ TableOf(u) = "ceph"
        BY <3>1, <4>2 DEF HomeInv, AtHome, TableOf
      <4> QED
        BY <2>5, <4>2, <4>3, <4>4
    <3>2. CASE UserTable[u] # "ceph"
      <4>1. TableOf(held[u]) # "ceph"
        BY <2>5, <3>2 DEF HomeInv, AtHome, TableOf
      <4> QED
        BY <2>1, <2>5, <4>1 DEF Cleared
    <3> QED
      BY <3>1, <3>2
  <2> QED
    BY <2>2, <2>3, <2>4, <2>5 DEF ContextLive
<1> QED
  BY <1>1, IoInvariant, HomeInvariant, PTL

\* The ops of a pool are handed on in the order in which Queue accepted them.
THEOREM PoolQueuesAreFifo == Spec => PoolFifo
<1>1. Init => Fifo!FifoInit
  BY FifoStart
<1>2. IoInv /\ [Next]_vars => [Fifo!FifoNext]_(Fifo!fvars)
  BY FifoStep
<1> QED
  BY <1>1, <1>2, IoInvariant, PTL DEF Spec, PoolFifo, Fifo!FifoSpec
=============================================================================
