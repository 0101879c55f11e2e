--------------------------- MODULE OpQueueProofs ---------------------------
(***************************************************************************)
(* Proofs about OpQueue, for every number of messengers, queues and ops    *)
(* and every capacity.                                                     *)
(***************************************************************************)
EXTENDS OpQueue, FiniteSetTheorems, SequenceTheorems, TLAPS

\* The queue of an op is a queue, and not the no-owner mark.
LEMMA QueueOfType == \A op \in Ops : QueueOf(op) \in Queues
  BY ConstantsAssumption DEF QueueOf

\* Counting: what the size of a set of producers is bounded by.
LEMMA ProducerSubset ==
  ASSUME NEW S \in SUBSET Producers
  PROVE  /\ IsFiniteSet(S) /\ Cardinality(S) \in Nat
         /\ Cardinality(S) <= Cardinality(Producers)
         /\ \A p \in Producers \ S : Cardinality(S) <= Cardinality(Producers) - 1
         /\ \A p \in S : Cardinality(S \ {p}) = Cardinality(S) - 1
         /\ \A p \in Producers \ S : Cardinality(S \cup {p}) = Cardinality(S) + 1
<1>1. IsFiniteSet(Producers) /\ Cardinality(Producers) \in Nat
  BY ConstantsAssumption, FS_CardinalityType
<1>2. IsFiniteSet(S) /\ Cardinality(S) \in Nat /\ Cardinality(S) <= Cardinality(Producers)
  BY <1>1, FS_Subset, FS_CardinalityType
<1>3. ASSUME NEW p \in Producers \ S
      PROVE  Cardinality(S \cup {p}) = Cardinality(S) + 1
  BY <1>2, FS_AddElement
<1>4. ASSUME NEW p \in S
      PROVE  Cardinality(S \ {p}) = Cardinality(S) - 1
  BY <1>2, FS_RemoveElement
<1>5. ASSUME NEW p \in Producers \ S
      PROVE  Cardinality(S) <= Cardinality(Producers) - 1
  <2>1. S \cup {p} \in SUBSET Producers
    OBVIOUS
  <2>2. Cardinality(S \cup {p}) <= Cardinality(Producers)
    BY <1>1, <2>1, FS_Subset
  <2> QED
    BY <1>1, <1>2, <1>3, <2>2
<1> QED
  BY <1>2, <1>3, <1>4, <1>5
-----------------------------------------------------------------------------
\* Every step keeps every variable in its type; in particular the handler
\* never works on an op it has not got, and StopThread's index stays in range.
LEMMA TypeStep == TypeOK /\ TimestampsAligned /\ [Next]_vars => TypeOK'
<1> SUFFICES ASSUME TypeOK, TimestampsAligned, [Next]_vars
             PROVE  TypeOK'
  OBVIOUS
<1> USE ConstantsAssumption, QueueOfType
<1> USE DEF prodVars, queueVars, batchVars, cacheVars, stopVars
<1>a. QueueTypes /\ ProducerTypes /\ HandlerTypes /\ BatchTypes /\ CacheTypes /\ StopTypes
  BY DEF TypeOK
<1> USE <1>a
<1>1. ASSUME NEW p \in Producers, NEW op \in Ops, Arrive(p, op)
      PROVE  TypeOK'
  <2>1. QueueTypes'
    BY <1>1 DEF Arrive, QueueTypes, Owners
  <2>2. ProducerTypes'
    BY <1>1 DEF Arrive, ProducerTypes, Owners
  <2>3. HandlerTypes'
    BY <1>1 DEF Arrive, HandlerTypes
  <2>4. BatchTypes'
    BY <1>1 DEF Arrive, BatchTypes
  <2>5. CacheTypes'
    BY <1>1 DEF Arrive, CacheTypes
  <2>6. StopTypes'
    BY <1>1 DEF Arrive, StopTypes
  <2> QED
    BY <2>1, <2>2, <2>3, <2>4, <2>5, <2>6 DEF TypeOK
<1>2. ASSUME NEW p \in Producers, Block(p)
      PROVE  TypeOK'
  <2>1. QueueTypes'
    BY <1>2 DEF Block, QueueTypes, Owners
  <2>2. ProducerTypes'
    BY <1>2 DEF Block, ProducerTypes, Owners
  <2>3. HandlerTypes'
    BY <1>2 DEF Block, HandlerTypes
  <2>4. BatchTypes'
    BY <1>2 DEF Block, BatchTypes
  <2>5. CacheTypes'
    BY <1>2 DEF Block, CacheTypes
  <2>6. StopTypes'
    BY <1>2 DEF Block, StopTypes
  <2> QED
    BY <2>1, <2>2, <2>3, <2>4, <2>5, <2>6 DEF TypeOK
<1>3. ASSUME NEW p \in Producers, Enqueue(p)
      PROVE  TypeOK'
  <2>0. cur[p] \in Ops /\ QueueOf(cur[p]) \in Queues
    BY <1>3 DEF Enqueue, SpaceSeen, ProducerTypes
  <2>1. QueueTypes'
    <3>1. mutex' \in [Queues -> Owners]
      BY <1>3, <2>0 DEF Enqueue, QueueTypes, Owners
    <3>2. /\ reqQueue' \in [Queues -> Seq(Ops)]
          /\ tsQueue' \in [Queues -> Seq(Ops)]
          /\ period' \in [Queues -> Seq(Ops)]
      <4> DEFINE q == QueueOf(cur[p])
      <4>1. /\ Append(reqQueue[q], cur[p]) \in Seq(Ops)
            /\ Append(tsQueue[q], cur[p]) \in Seq(Ops)
            /\ Append(period[q], cur[p]) \in Seq(Ops)
        BY <2>0 DEF QueueTypes
      <4>2. /\ reqQueue' = [reqQueue EXCEPT ![q] = Append(reqQueue[q], cur[p])]
            /\ tsQueue' = [tsQueue EXCEPT ![q] = Append(tsQueue[q], cur[p])]
            /\ period' = [period EXCEPT ![q] = Append(period[q], cur[p])]
        BY <1>3 DEF Enqueue, EnQueue
      <4> HIDE DEF q
      <4> QED
        BY <4>1, <4>2 DEF QueueTypes
    <3> QED
      BY <3>1, <3>2 DEF QueueTypes
  <2>2. ProducerTypes'
    BY <1>3, <2>0 DEF Enqueue, SpaceSeen, EnQueue, NotifyHandler, ProducerTypes, Owners
  <2>3. HandlerTypes'
    BY <1>3, <2>0 DEF Enqueue, SpaceSeen, EnQueue, NotifyHandler, HandlerTypes
  <2>4. BatchTypes'
    BY <1>3, <2>0 DEF Enqueue, SpaceSeen, EnQueue, NotifyHandler, BatchTypes
  <2>5. CacheTypes'
    BY <1>3, <2>0 DEF Enqueue, SpaceSeen, EnQueue, NotifyHandler, CacheTypes
  <2>6. StopTypes'
    BY <1>3, <2>0 DEF Enqueue, SpaceSeen, EnQueue, NotifyHandler, StopTypes
  <2> QED
    BY <2>1, <2>2, <2>3, <2>4, <2>5, <2>6 DEF TypeOK
<1>4. ASSUME NEW p \in Producers, LimitEnter(p)
      PROVE  TypeOK'
  <2>1. QueueTypes'
    BY <1>4 DEF LimitEnter, QueueTypes, Owners
  <2>2. ProducerTypes'
    BY <1>4 DEF LimitEnter, ProducerTypes, Owners
  <2>3. HandlerTypes'
    BY <1>4 DEF LimitEnter, HandlerTypes
  <2>4. BatchTypes'
    BY <1>4 DEF LimitEnter, BatchTypes
  <2>5. CacheTypes'
    BY <1>4 DEF LimitEnter, CacheTypes
  <2>6. StopTypes'
    BY <1>4 DEF LimitEnter, StopTypes
  <2> QED
    BY <2>1, <2>2, <2>3, <2>4, <2>5, <2>6 DEF TypeOK
<1>5. ASSUME NEW p \in Producers, LimitLeave(p)
      PROVE  TypeOK'
  <2>0. QueueOf(cur[p]) \in Queues
    BY <1>5 DEF LimitLeave, ProducerTypes
  <2>1. QueueTypes'
    BY <1>5, <2>0 DEF LimitLeave, QueueTypes, Owners
  <2>2. ProducerTypes'
    BY <1>5, <2>0 DEF LimitLeave, ProducerTypes, Owners
  <2>3. HandlerTypes'
    BY <1>5, <2>0 DEF LimitLeave, HandlerTypes
  <2>4. BatchTypes'
    BY <1>5, <2>0 DEF LimitLeave, BatchTypes
  <2>5. CacheTypes'
    BY <1>5, <2>0 DEF LimitLeave, CacheTypes
  <2>6. StopTypes'
    BY <1>5, <2>0 DEF LimitLeave, StopTypes
  <2> QED
    BY <2>1, <2>2, <2>3, <2>4, <2>5, <2>6 DEF TypeOK
<1>6. ASSUME NEW p \in Producers, SpuriousWakeup(p)
      PROVE  TypeOK'
  <2>1. QueueTypes'
    BY <1>6 DEF SpuriousWakeup, QueueTypes, Owners
  <2>2. ProducerTypes'
    BY <1>6 DEF SpuriousWakeup, ProducerTypes, Owners
  <2>3. HandlerTypes'
    BY <1>6 DEF SpuriousWakeup, HandlerTypes
  <2>4. BatchTypes'
    BY <1>6 DEF SpuriousWakeup, BatchTypes
  <2>5. CacheTypes'
    BY <1>6 DEF SpuriousWakeup, CacheTypes
  <2>6. StopTypes'
    BY <1>6 DEF SpuriousWakeup, StopTypes
  <2> QED
    BY <2>1, <2>2, <2>3, <2>4, <2>5, <2>6 DEF TypeOK
<1>7. ASSUME NEW q \in Queues, HandlerLock(q)
      PROVE  TypeOK'
  <2>1. QueueTypes'
    BY <1>7 DEF HandlerLock, WantsLock, QueueTypes, Owners
  <2>2. ProducerTypes'
    BY <1>7 DEF HandlerLock, WantsLock, ProducerTypes, Owners
  <2>3. HandlerTypes'
    BY <1>7 DEF HandlerLock, WantsLock, HandlerTypes
  <2>4. BatchTypes'
    BY <1>7 DEF HandlerLock, WantsLock, BatchTypes
  <2>5. CacheTypes'
    BY <1>7 DEF HandlerLock, WantsLock, CacheTypes
  <2>6. StopTypes'
    BY <1>7 DEF HandlerLock, WantsLock, StopTypes
  <2> QED
    BY <2>1, <2>2, <2>3, <2>4, <2>5, <2>6 DEF TypeOK
<1>8. ASSUME NEW q \in Queues, CheckFinish(q)
      PROVE  TypeOK'
  <2>1. QueueTypes'
    BY <1>8 DEF CheckFinish, QueueTypes, Owners
  <2>2. ProducerTypes'
    BY <1>8 DEF CheckFinish, ProducerTypes, Owners
  <2>3. HandlerTypes'
    BY <1>8 DEF CheckFinish, HandlerTypes
  <2>4. BatchTypes'
    BY <1>8 DEF CheckFinish, BatchTypes
  <2>5. CacheTypes'
    BY <1>8 DEF CheckFinish, CacheTypes
  <2>6. StopTypes'
    BY <1>8 DEF CheckFinish, StopTypes
  <2> QED
    BY <2>1, <2>2, <2>3, <2>4, <2>5, <2>6 DEF TypeOK
<1>9. ASSUME NEW q \in Queues, Swap(q)
      PROVE  TypeOK'
  <2>1. QueueTypes'
    BY <1>9 DEF Swap, QueueTypes, BatchTypes, Owners
  <2>2. ProducerTypes'
    BY <1>9 DEF Swap, NotifyProducers, At, ProducerTypes, Owners
  <2>3. HandlerTypes'
    BY <1>9 DEF Swap, NotifyProducers, At, HandlerTypes
  <2>4. BatchTypes'
    BY <1>9 DEF Swap, QueueTypes, BatchTypes
  <2>5. CacheTypes'
    BY <1>9 DEF Swap, NotifyProducers, At, CacheTypes
  <2>6. StopTypes'
    BY <1>9 DEF Swap, NotifyProducers, At, StopTypes
  <2> QED
    BY <2>1, <2>2, <2>3, <2>4, <2>5, <2>6 DEF TypeOK
<1>10. ASSUME NEW q \in Queues, HandlerWait(q)
       PROVE  TypeOK'
  <2>1. QueueTypes'
    BY <1>10 DEF HandlerWait, QueueTypes, Owners
  <2>2. ProducerTypes'
    BY <1>10 DEF HandlerWait, ProducerTypes, Owners
  <2>3. HandlerTypes'
    BY <1>10 DEF HandlerWait, HandlerTypes
  <2>4. BatchTypes'
    BY <1>10 DEF HandlerWait, BatchTypes
  <2>5. CacheTypes'
    BY <1>10 DEF HandlerWait, CacheTypes
  <2>6. StopTypes'
    BY <1>10 DEF HandlerWait, StopTypes
  <2> QED
    BY <2>1, <2>2, <2>3, <2>4, <2>5, <2>6 DEF TypeOK
<1>11. ASSUME NEW q \in Queues, HandlerSpuriousWakeup(q)
       PROVE  TypeOK'
  <2>1. QueueTypes'
    BY <1>11 DEF HandlerSpuriousWakeup, QueueTypes, Owners
  <2>2. ProducerTypes'
    BY <1>11 DEF HandlerSpuriousWakeup, ProducerTypes, Owners
  <2>3. HandlerTypes'
    BY <1>11 DEF HandlerSpuriousWakeup, HandlerTypes
  <2>4. BatchTypes'
    BY <1>11 DEF HandlerSpuriousWakeup, BatchTypes
  <2>5. CacheTypes'
    BY <1>11 DEF HandlerSpuriousWakeup, CacheTypes
  <2>6. StopTypes'
    BY <1>11 DEF HandlerSpuriousWakeup, StopTypes
  <2> QED
    BY <2>1, <2>2, <2>3, <2>4, <2>5, <2>6 DEF TypeOK
<1>12. ASSUME NEW q \in Queues, ProcessOpReq(q)
       PROVE  TypeOK'
  <2>0. /\ Head(dealQueue[q]) \in Ops /\ Tail(dealQueue[q]) \in Seq(Ops)
        /\ dealTs[q] = dealQueue[q] /\ periodTs[q] = dealQueue[q]
    BY <1>12 DEF ProcessOpReq, BatchTypes, TimestampsAligned
  <2>1. QueueTypes'
    BY <1>12, <2>0 DEF ProcessOpReq, Pop, Rejected, QueueTypes, Owners
  <2>2. ProducerTypes'
    BY <1>12, <2>0 DEF ProcessOpReq, Pop, Rejected, ProducerTypes, Owners
  <2>3. HandlerTypes'
    BY <1>12, <2>0 DEF ProcessOpReq, Pop, Rejected, HandlerTypes
  <2>4. BatchTypes'
    <3>1. Append(handled[q], Head(dealQueue[q])) \in Seq(Ops)
      BY <2>0 DEF BatchTypes
    <3>2. /\ dealQueue' = [dealQueue EXCEPT ![q] = Tail(dealQueue[q])]
          /\ dealTs' = [dealTs EXCEPT ![q] = Tail(dealQueue[q])]
          /\ periodTs' = [periodTs EXCEPT ![q] = Tail(dealQueue[q])]
          /\ handled' = [handled EXCEPT ![q] = Append(handled[q], Head(dealQueue[q]))]
      BY <1>12, <2>0 DEF ProcessOpReq, Pop
    <3> QED
      BY <2>0, <3>1, <3>2 DEF BatchTypes
  <2>5. CacheTypes'
    BY <1>12, <2>0 DEF ProcessOpReq, Pop, Rejected, CacheTypes
  <2>6. StopTypes'
    BY <1>12, <2>0 DEF ProcessOpReq, Pop, Rejected, StopTypes
  <2> QED
    BY <2>1, <2>2, <2>3, <2>4, <2>5, <2>6 DEF TypeOK
<1>13. ASSUME NEW q \in Queues, DispatchOp(q)
       PROVE  TypeOK'
  <2>1. QueueTypes'
    BY <1>13 DEF DispatchOp, CopyupDone, IsCopyup, QueueTypes, Owners
  <2>2. ProducerTypes'
    BY <1>13 DEF DispatchOp, CopyupDone, IsCopyup, ProducerTypes, Owners
  <2>3. HandlerTypes'
    BY <1>13 DEF DispatchOp, CopyupDone, IsCopyup, HandlerTypes
  <2>4. BatchTypes'
    BY <1>13 DEF DispatchOp, CopyupDone, IsCopyup, BatchTypes
  <2>5. CacheTypes'
    BY <1>13 DEF DispatchOp, CopyupDone, CacheTypes, HandlerTypes
  <2>6. StopTypes'
    BY <1>13 DEF DispatchOp, CopyupDone, IsCopyup, StopTypes
  <2> QED
    BY <2>1, <2>2, <2>3, <2>4, <2>5, <2>6 DEF TypeOK
<1>14. ASSUME NEW op \in Ops, ExecClass(op)
       PROVE  TypeOK'
  <2>1. QueueTypes'
    BY <1>14 DEF ExecClass, QueueTypes, Owners
  <2>2. ProducerTypes'
    BY <1>14 DEF ExecClass, ProducerTypes, Owners
  <2>3. HandlerTypes'
    BY <1>14 DEF ExecClass, HandlerTypes
  <2>4. BatchTypes'
    BY <1>14 DEF ExecClass, BatchTypes
  <2>5. CacheTypes'
    BY <1>14 DEF ExecClass, CacheTypes
  <2>6. StopTypes'
    BY <1>14 DEF ExecClass, StopTypes
  <2> QED
    BY <2>1, <2>2, <2>3, <2>4, <2>5, <2>6 DEF TypeOK
<1>15. ASSUME NEW op \in Ops, FinishCacheOps(op)
       PROVE  TypeOK'
  <2>1. QueueTypes'
    BY <1>15 DEF FinishCacheOps, QueueTypes, Owners
  <2>2. ProducerTypes'
    BY <1>15 DEF FinishCacheOps, ProducerTypes, Owners
  <2>3. HandlerTypes'
    BY <1>15 DEF FinishCacheOps, HandlerTypes
  <2>4. BatchTypes'
    BY <1>15 DEF FinishCacheOps, BatchTypes
  <2>5. CacheTypes'
    BY <1>15 DEF FinishCacheOps, CacheTypes
  <2>6. StopTypes'
    BY <1>15 DEF FinishCacheOps, StopTypes
  <2> QED
    BY <2>1, <2>2, <2>3, <2>4, <2>5, <2>6 DEF TypeOK
<1>16. CASE OsaFinish
  <2> USE DEF Shutdown, JoinServer, StopLock, StopSet, StopNotify, StopJoin
  <2>1. QueueTypes' /\ ProducerTypes' /\ BatchTypes' /\ CacheTypes'
    BY <1>16 DEF OsaFinish, QueueTypes, ProducerTypes, BatchTypes, CacheTypes
  <2>2. HandlerTypes'
    BY <1>16 DEF OsaFinish, NotifyHandler, HandlerTypes, StopTypes
  <2>3. StopTypes'
    <3>1. \A a, b : Advance(a, b) => mi' \in Queues /\ mpc' \in {a, b}
      BY DEF Advance, Queues, StopTypes
    <3>2. CASE Shutdown \/ JoinServer \/ StopLock
      BY <3>2 DEF Queues, StopTypes
    <3>3. CASE StopSet \/ StopNotify \/ StopJoin
      BY <3>1, <3>3 DEF StopTypes
    <3> QED
      BY <1>16, <3>2, <3>3 DEF OsaFinish
  <2> QED
    BY <2>1, <2>2, <2>3 DEF TypeOK
<1>17. CASE UNCHANGED vars
  BY <1>17 DEF vars, TypeOK, QueueTypes, ProducerTypes, HandlerTypes, BatchTypes, CacheTypes,
                StopTypes
<1> QED
  BY <1>1, <1>2, <1>3, <1>4, <1>5, <1>6, <1>7, <1>8, <1>9, <1>10, <1>11, <1>12, <1>13, <1>14,
     <1>15, <1>16, <1>17
  DEF Next, Producer, Handler, Cache

\* The three queues stay in step: EnQueue, Swap and ProcessOpReq are the only
\* actions that touch one, and each does the same to all three.
LEMMA AlignedStep == TypeOK /\ TimestampsAligned /\ [Next]_vars => TimestampsAligned'
<1> SUFFICES ASSUME TypeOK, TimestampsAligned, [Next]_vars
             PROVE  TimestampsAligned'
  OBVIOUS
<1> USE DEF TypeOK, QueueTypes, BatchTypes, TimestampsAligned, queueVars, batchVars
<1>1. ASSUME NEW p \in Producers, Enqueue(p)
      PROVE  TimestampsAligned'
  BY <1>1 DEF Enqueue, EnQueue
<1>2. ASSUME NEW q \in Queues, Swap(q)
      PROVE  TimestampsAligned'
  BY <1>2 DEF Swap
<1>3. ASSUME NEW q \in Queues, ProcessOpReq(q)
      PROVE  TimestampsAligned'
  BY <1>3 DEF ProcessOpReq, Pop
<1>4. ASSUME UNCHANGED <<queueVars, batchVars>>
      PROVE  TimestampsAligned'
  BY <1>4
<1>5. ASSUME NEW p \in Producers, Producer(p)
      PROVE  TimestampsAligned'
  BY <1>1, <1>4, <1>5 DEF Producer, Arrive, Block, LimitEnter, LimitLeave, SpuriousWakeup
<1>6. ASSUME NEW q \in Queues, Handler(q)
      PROVE  TimestampsAligned'
  BY <1>2, <1>3, <1>4, <1>6
  DEF Handler, HandlerLock, CheckFinish, HandlerWait, HandlerSpuriousWakeup, DispatchOp
<1>7. CASE (\E op \in Ops : Cache(op)) \/ OsaFinish \/ UNCHANGED vars
  BY <1>4, <1>7 DEF Cache, ExecClass, FinishCacheOps, OsaFinish, Shutdown, JoinServer, StopLock,
                   StopSet, StopNotify, StopJoin, vars
<1> QED
  BY <1>5, <1>6, <1>7 DEF Next

\* Types and alignment hold in every reachable state.  They need each other:
\* Tail of dealTs has a meaning only because dealTs is as long as dealQueue.
THEOREM TypeCorrect == Spec => [](TypeOK /\ TimestampsAligned)
<1>1. Init => TypeOK /\ TimestampsAligned
  BY ConstantsAssumption DEF Init, TypeOK, QueueTypes, ProducerTypes, HandlerTypes, BatchTypes,
                              CacheTypes, StopTypes, Owners, Queues, TimestampsAligned
<1> QED
  BY <1>1, TypeStep, AlignedStep, PTL DEF Spec
-----------------------------------------------------------------------------
\* The inductive invariant behind QueueBound.
BoundInv == TypeOK /\ NotifiedCounted /\ BatchDone

\* A handler outside its batch loop has an empty batch, so that what Swap
\* puts into reqQueue is empty.
LEMMA BatchDoneStep == TypeOK /\ BatchDone /\ [Next]_vars => BatchDone'
<1> SUFFICES ASSUME TypeOK, BatchDone, [Next]_vars
             PROVE  BatchDone'
  OBVIOUS
<1> USE DEF TypeOK, HandlerTypes, BatchTypes, BatchDone, batchVars
<1>1. ASSUME UNCHANGED dealQueue, NEW q \in Queues, NotifyHandler(q)
      PROVE  BatchDone'
  BY <1>1 DEF NotifyHandler
<1>2. ASSUME UNCHANGED <<hpc, dealQueue>>
      PROVE  BatchDone'
  BY <1>2
<1>3. ASSUME NEW p \in Producers, Producer(p)
      PROVE  BatchDone'
  <2>1. CASE Enqueue(p)
    <3>1. QueueOf(cur[p]) \in Queues
      BY <2>1, QueueOfType DEF Enqueue, SpaceSeen, ProducerTypes
    <3> QED
      BY <2>1, <3>1, <1>1 DEF Enqueue, EnQueue
  <2> QED
    BY <1>2, <1>3, <2>1 DEF Producer, Arrive, Block, LimitEnter, LimitLeave, SpuriousWakeup
<1>4. ASSUME NEW q \in Queues, Handler(q)
      PROVE  BatchDone'
  BY <1>4 DEF Handler, HandlerLock, WantsLock, CheckFinish, Swap, HandlerWait,
              HandlerSpuriousWakeup, ProcessOpReq, Pop, Rejected, DispatchOp, CopyupDone
<1>5. CASE OsaFinish
  BY <1>1, <1>2, <1>5 DEF OsaFinish, Shutdown, JoinServer, StopLock, StopSet, StopNotify, StopJoin,
                          StopTypes
<1>6. CASE (\E op \in Ops : Cache(op)) \/ UNCHANGED vars
  BY <1>2, <1>6 DEF Cache, ExecClass, FinishCacheOps, vars
<1> QED
  BY <1>3, <1>4, <1>5, <1>6 DEF Next

\* A step that adds to no queue and notifies no producer keeps the count.
LEMMA CountKept ==
  ASSUME TypeOK, NotifiedCounted, UNCHANGED <<reqQueue, spurious>>,
         \A q \in Queues : At("notified", q)' = At("notified", q)
  PROVE  NotifiedCounted'
  BY DEF NotifiedCounted

\* Each producer adds at most one op beyond what it saw: Enqueue either saw
\* the size or uses up its own notification.
LEMMA CountStep == BoundInv /\ [Next]_vars => NotifiedCounted'
<1> SUFFICES ASSUME BoundInv, [Next]_vars
             PROVE  NotifiedCounted'
  OBVIOUS
<1>a. TypeOK /\ NotifiedCounted /\ BatchDone
  BY DEF BoundInv
<1>b. \A q : At("notified", q) \in SUBSET Producers /\ At("notified", q)' \in SUBSET Producers
  BY DEF At
<1>c. Cardinality(Producers) \in Nat /\ spurious \in Nat /\ QueueMaxCapacity \in Nat
  BY <1>a, ConstantsAssumption, FS_CardinalityType DEF TypeOK, ProducerTypes
<1> DEFINE N(q) == At("notified", q)
<1>1. ASSUME NEW p \in Producers, Enqueue(p)
      PROVE  NotifiedCounted'
  <2>0. cur[p] \in Ops /\ pc[p] \in {"lock", "notified"}
    BY <1>a, <1>1 DEF Enqueue, SpaceSeen, TypeOK, ProducerTypes
  <2>1. PICK r \in Queues : r = QueueOf(cur[p])
    BY <2>0, QueueOfType
  <2>2. pc'[p] \in {"idle", "limit"} /\ \A x \in Producers \ {p} : pc'[x] = pc[x] /\ cur'[x] = cur[x]
    BY <1>a, <1>1 DEF Enqueue, TypeOK, ProducerTypes
  <2>3. /\ Len(reqQueue'[r]) = Len(reqQueue[r]) + 1 /\ Len(reqQueue[r]) \in Nat
        /\ \A q \in Queues \ {r} : reqQueue'[q] = reqQueue[q]
        /\ spurious' = spurious
    BY <1>a, <1>1, <2>0, <2>1 DEF Enqueue, EnQueue, TypeOK, QueueTypes
  <2>4. \A q \in Queues \ {r} : N(q)' = N(q)
    BY <2>1, <2>2 DEF At
  <2>7. ASSUME Len(reqQueue'[r]) + Cardinality(N(r)')
                 <= QueueMaxCapacity + Cardinality(Producers) + spurious
        PROVE  NotifiedCounted'
    BY <1>a, <2>3, <2>4, <2>7 DEF NotifiedCounted
  <2>8. Len(reqQueue[r]) + Cardinality(N(r))
          <= QueueMaxCapacity + Cardinality(Producers) + spurious
    BY <1>a DEF NotifiedCounted
  <2>5. CASE pc[p] = "notified"
    <3>1. p \in N(r) /\ N(r)' = N(r) \ {p}
      BY <2>1, <2>2, <2>5 DEF At
    <3>2. Cardinality(N(r)') = Cardinality(N(r)) - 1 /\ Cardinality(N(r)) \in Nat
      BY <1>b, <3>1, ProducerSubset
    <3> QED
      BY <1>c, <2>3, <2>7, <2>8, <3>2
  <2>6. CASE pc[p] = "lock"
    <3>1. p \notin N(r) /\ N(r)' = N(r)
      BY <2>1, <2>2, <2>6 DEF At
    <3>2. Cardinality(N(r)) <= Cardinality(Producers) - 1 /\ Cardinality(N(r)) \in Nat
      BY <1>b, <3>1, ProducerSubset
    <3>3. Len(reqQueue[r]) <= QueueMaxCapacity
      BY <1>1, <2>1, <2>6 DEF Enqueue, SpaceSeen
    <3> QED
      <4>1. Cardinality(N(r)') = Cardinality(N(r))
        BY <3>1
      <4>2. Len(reqQueue'[r]) + Cardinality(N(r)')
              <= QueueMaxCapacity + Cardinality(Producers) + spurious
        BY <1>c, <2>3, <3>2, <3>3, <4>1
      <4> QED
        BY <2>7, <4>2
  <2> QED
    BY <2>0, <2>5, <2>6
<1>2. ASSUME NEW p \in Producers, SpuriousWakeup(p)
      PROVE  NotifiedCounted'
  <2>0. PICK r \in Queues : r = QueueOf(cur[p])
    BY <1>a, <1>2, QueueOfType DEF SpuriousWakeup, TypeOK, ProducerTypes
  <2>1. /\ \A q \in Queues \ {r} : N(q)' = N(q)
        /\ p \notin N(r) /\ N(r)' = N(r) \cup {p}
        /\ reqQueue' = reqQueue /\ spurious' = spurious + 1
    BY <1>a, <1>2, <2>0 DEF SpuriousWakeup, At, TypeOK, ProducerTypes, queueVars
  <2>2. Cardinality(N(r)') = Cardinality(N(r)) + 1 /\ Cardinality(N(r)) \in Nat
    BY <1>b, <2>1, ProducerSubset
  <2>3. \A q \in Queues : Len(reqQueue[q]) \in Nat /\ Cardinality(N(q)) \in Nat
    BY <1>a, <1>b, ProducerSubset DEF TypeOK, QueueTypes
  <2>4. \A q \in Queues : Len(reqQueue[q]) + Cardinality(N(q))
          <= QueueMaxCapacity + Cardinality(Producers) + spurious
    BY <1>a DEF NotifiedCounted
  <2>5. ASSUME NEW q \in Queues
        PROVE  Len(reqQueue'[q]) + Cardinality(N(q)')
                 <= QueueMaxCapacity + Cardinality(Producers) + spurious'
    <3>1. CASE q = r
      BY <1>c, <2>1, <2>2, <2>3, <2>4, <3>1
    <3>2. CASE q # r
      <4>1. Cardinality(N(q)') = Cardinality(N(q))
        BY <2>1, <3>2
      <4> QED
        BY <1>c, <2>1, <2>3, <2>4, <4>1
    <3> QED
      BY <3>1, <3>2
  <2> QED
    BY <2>5 DEF NotifiedCounted
<1>3. ASSUME NEW r \in Queues, Swap(r)
      PROVE  NotifiedCounted'
  <2>1. /\ reqQueue'[r] = <<>> /\ Len(reqQueue'[r]) = 0 /\ spurious' = spurious
        /\ \A q \in Queues \ {r} : reqQueue'[q] = reqQueue[q]
    <3>1. dealQueue[r] = <<>>
      BY <1>a, <1>3 DEF Swap, BatchDone
    <3>2. reqQueue' = [reqQueue EXCEPT ![r] = <<>>] /\ spurious' = spurious
      BY <1>3, <3>1 DEF Swap
    <3> QED
      BY <1>a, <3>2 DEF TypeOK, QueueTypes
  <2>2. \A q \in Queues \ {r} : N(q)' = N(q)
    BY <1>3 DEF Swap, NotifyProducers, At
  <2>3. Cardinality(N(r)') \in Nat /\ Cardinality(N(r)') <= Cardinality(Producers)
    BY <1>b, ProducerSubset
  <2> QED
    BY <1>a, <1>c, <2>1, <2>2, <2>3 DEF NotifiedCounted
<1>4. ASSUME NEW p \in Producers,
             Block(p) \/ LimitEnter(p) \/ LimitLeave(p) \/ \E op \in Ops : Arrive(p, op)
      PROVE  NotifiedCounted'
  <2>1. UNCHANGED <<reqQueue, spurious>>
    BY <1>4 DEF Block, LimitEnter, LimitLeave, Arrive, queueVars
  <2>2. pc[p] # "notified" /\ pc'[p] # "notified"
    BY <1>a, <1>4 DEF Block, LimitEnter, LimitLeave, Arrive, TypeOK, ProducerTypes
  <2>3. \A x \in Producers \ {p} : pc'[x] = pc[x] /\ cur'[x] = cur[x]
    BY <1>a, <1>4 DEF Block, LimitEnter, LimitLeave, Arrive, TypeOK, ProducerTypes
  <2>4. \A q \in Queues : N(q)' = N(q)
    BY <2>2, <2>3 DEF At
  <2> QED
    BY <1>a, <2>1, <2>4, CountKept
<1>5. ASSUME UNCHANGED <<pc, cur, reqQueue>>, spurious' \in Nat, spurious' >= spurious
      PROVE  NotifiedCounted'
  <2>1. \A q \in Queues : N(q)' = N(q)
    BY <1>5 DEF At
  <2>2. \A q \in Queues : Len(reqQueue[q]) \in Nat /\ Cardinality(N(q)) \in Nat
    BY <1>a, <1>b, ProducerSubset DEF TypeOK, QueueTypes
  <2> QED
    BY <1>a, <1>c, <1>5, <2>1, <2>2 DEF NotifiedCounted
<1>6. ASSUME NEW q \in Queues,
             \/ HandlerLock(q) \/ CheckFinish(q) \/ HandlerWait(q) \/ HandlerSpuriousWakeup(q)
             \/ ProcessOpReq(q) \/ DispatchOp(q)
      PROVE  NotifiedCounted'
  BY <1>c, <1>5, <1>6
  DEF HandlerLock, CheckFinish, HandlerWait, HandlerSpuriousWakeup, ProcessOpReq, DispatchOp,
      prodVars, queueVars
<1>7. CASE (\E op \in Ops : Cache(op)) \/ OsaFinish \/ UNCHANGED vars
  BY <1>c, <1>5, <1>7
  DEF Cache, ExecClass, FinishCacheOps, OsaFinish, Shutdown, JoinServer, StopLock, StopSet,
      StopNotify, StopJoin, vars, prodVars, queueVars
<1> QED
  BY <1>1, <1>2, <1>3, <1>4, <1>6, <1>7 DEF Next, Producer, Handler

\* A request queue of the server adaptor never holds more than
\* queueMaxCapacity ops plus one per messenger plus one per spurious wakeup.
THEOREM QueueIsBounded == Spec => []QueueBound
<1>1. Init => NotifiedCounted /\ BatchDone
  <2> SUFFICES ASSUME Init
               PROVE  NotifiedCounted /\ BatchDone
    OBVIOUS
  <2>1. \A q \in Queues : At("notified", q) = {} /\ Len(reqQueue[q]) = 0
    BY DEF Init, At
  <2>2. Cardinality(Producers) \in Nat /\ spurious = 0 /\ QueueMaxCapacity \in Nat
    BY ConstantsAssumption, FS_CardinalityType DEF Init
  <2>3. NotifiedCounted
    <3>1. \A q \in Queues : Cardinality(At("notified", q)) = 0
      BY <2>1, FS_EmptySet
    <3> QED
      BY <2>1, <2>2, <3>1 DEF NotifiedCounted
  <2> QED
    BY <2>3 DEF Init, BatchDone
<1>2. TypeOK /\ NotifiedCounted /\ BatchDone /\ [Next]_vars => (NotifiedCounted /\ BatchDone)'
  BY CountStep, BatchDoneStep DEF BoundInv
<1>3. TypeOK /\ NotifiedCounted => QueueBound
  <2> SUFFICES ASSUME TypeOK, NotifiedCounted, NEW q \in Queues
               PROVE  Len(reqQueue[q]) <= QueueMaxCapacity + Cardinality(Producers) + spurious
    BY DEF QueueBound
  <2>1. Cardinality(At("notified", q)) \in Nat
    BY ProducerSubset DEF At
  <2>2. /\ Len(reqQueue[q]) \in Nat /\ QueueMaxCapacity \in Nat
        /\ Cardinality(Producers) \in Nat /\ spurious \in Nat
    BY ConstantsAssumption, FS_CardinalityType DEF TypeOK, QueueTypes, ProducerTypes
  <2> QED
    BY <2>1, <2>2 DEF NotifiedCounted
<1> QED
  BY <1>1, <1>2, <1>3, TypeCorrect, PTL DEF Spec
-----------------------------------------------------------------------------
(* Every op is in one place.                                               *)

\* What a queue and its handler's batch hold, in order.
Held == [q \in Queues |-> dealQueue[q] \o reqQueue[q]]

\* The op is with its messenger, on its way into a queue.
Coming(op) == pc[Via[op]] \in {"lock", "waiting", "notified"} /\ cur[Via[op]] = op

\* The op has been put into a queue.
Entered(op) == op \in Range(arrival[Via[op]]) /\ ~Coming(op)

ArrivalInv == \A p \in Producers :
  pc[p] # "idle" => Via[cur[p]] = p /\ cur[p] \in Range(arrival[p])

\* A queued op has not been taken off, is not with the cache and has no answer.
QueuedInv == \A q \in Queues :
  /\ IsInjective(Held[q])
  /\ \A op \in Range(Held[q]) :
       /\ QueueOf(op) = q /\ Entered(op) /\ op \notin Range(handled[q])
       /\ op \notin inflight /\ replies[op] = 0

\* An op that has been taken off came from this queue; the one the handler is
\* about to give to the cache is one of them.
TakenInv == \A q \in Queues :
  /\ \A op \in Range(handled[q]) : QueueOf(op) = q /\ Entered(op)
  /\ hpc[q] = "dispatch" =>
       hop[q] \in Range(handled[q]) /\ hop[q] \notin inflight /\ replies[hop[q]] = 0

CacheInv == \A op \in inflight : op \in Range(handled[QueueOf(op)]) /\ replies[op] = 0

\* At most one answer, and none for an op that is queued or with the cache.
AnswerInv == \A op \in Ops :
  /\ replies[op] <= 1
  /\ replies[op] = 1 => op \notin inflight /\ op \in Range(handled[QueueOf(op)])

PlaceInv == ArrivalInv /\ QueuedInv /\ TakenInv /\ CacheInv /\ AnswerInv

\* A copyup the cache has still to execute: its handler's flag is up, and it is
\* the only one of its queue.
Unexecuted(c) == c \in inflight /\ IsCopyup(c) /\ c \notin executed
BarrierInv ==
  /\ \A c \in Ops : Unexecuted(c) => copyupFlag[QueueOf(c)]
  /\ \A c, d \in Ops : Unexecuted(c) /\ Unexecuted(d) /\ QueueOf(c) = QueueOf(d) => c = d

-----------------------------------------------------------------------------
(* Ops in sequences: what appending and taking do to the elements of a     *)
(* sequence and to two one after the other, the batch in the handler's     *)
(* hands and the queue it came from.                                       *)

\* Putting an element at the end of two sequences one after the other.
LEMMA AppendFacts ==
  ASSUME NEW S, NEW s \in Seq(S), NEW t \in Seq(S), NEW x \in S
  PROVE  /\ s \o Append(t, x) = Append(s \o t, x)
         /\ s \o t \in Seq(S)
         /\ Range(Append(s, x)) = Range(s) \cup {x}
         /\ IsInjective(s) /\ x \notin Range(s) => IsInjective(Append(s, x))
<1>1. s \o Append(t, x) = Append(s \o t, x)
  <2>1. Append(t, x) = t \o <<x>> /\ Append(s \o t, x) = (s \o t) \o <<x>>
    BY AppendIsConcat, ConcatProperties
  <2>2. <<x>> \in Seq(S)
    OBVIOUS
  <2> QED
    BY <2>1, <2>2, ConcatAssociative
<1>2. /\ Append(s, x) \in Seq(S) /\ DOMAIN Append(s, x) = 1..(Len(s) + 1)
      /\ DOMAIN s = 1..Len(s) /\ Len(s) \in Nat
      /\ \A i \in 1..Len(s) : Append(s, x)[i] = s[i]
      /\ Append(s, x)[Len(s) + 1] = x
  OBVIOUS
<1>3. Range(Append(s, x)) = Range(s) \cup {x}
  <2>1. \A i \in 1..(Len(s) + 1) : i \in 1..Len(s) \/ i = Len(s) + 1
    BY <1>2
  <2>2. 1..Len(s) \subseteq 1..(Len(s) + 1) /\ Len(s) + 1 \in 1..(Len(s) + 1)
    BY <1>2
  <2> QED
    BY <1>2, <2>1, <2>2 DEF Range
<1>4. ASSUME IsInjective(s), x \notin Range(s)
      PROVE  IsInjective(Append(s, x))
  <2> SUFFICES ASSUME NEW i \in 1..(Len(s) + 1), NEW j \in 1..(Len(s) + 1),
                      Append(s, x)[i] = Append(s, x)[j]
               PROVE  i = j
    BY <1>2 DEF IsInjective
  <2>1. \A k \in 1..Len(s) : s[k] # x
    BY <1>2, <1>4 DEF Range
  <2>2. CASE i \in 1..Len(s) /\ j \in 1..Len(s)
    BY <1>2, <1>4, <2>2 DEF IsInjective
  <2>3. CASE i = Len(s) + 1 \/ j = Len(s) + 1
    BY <1>2, <2>1, <2>3
  <2> QED
    BY <1>2, <2>2, <2>3
<1> QED
  BY <1>1, <1>3, <1>4, ConcatProperties

\* Taking an element from their head.
LEMMA TailFacts ==
  ASSUME NEW S, NEW s \in Seq(S), NEW t \in Seq(S), s # <<>>
  PROVE  /\ Head(s \o t) = Head(s) /\ Tail(s \o t) = Tail(s) \o t
         /\ s \o t \in Seq(S) /\ s \o t # <<>>
<1>1. Len(s) \in Nat \ {0} /\ Len(t) \in Nat
  BY EmptySeq
<1>2. s \o t \in Seq(S) /\ Len(s \o t) = Len(s) + Len(t) /\ s \o t # <<>>
  BY <1>1, ConcatProperties, EmptySeq
<1>3. Head(s \o t) = Head(s)
  BY <1>1, <1>2
<1>4. Tail(s) \in Seq(S) /\ Len(Tail(s)) = Len(s) - 1 /\ Tail(s \o t) \in Seq(S)
      /\ Len(Tail(s \o t)) = Len(s) + Len(t) - 1
  BY <1>1, <1>2, HeadTailProperties
<1>5. Tail(s) \o t \in Seq(S) /\ Len(Tail(s) \o t) = Len(s) + Len(t) - 1
  BY <1>1, <1>4, ConcatProperties
<1>6. ASSUME NEW i \in 1..(Len(s) + Len(t) - 1)
      PROVE  Tail(s \o t)[i] = (Tail(s) \o t)[i]
  BY <1>1, <1>2, <1>4, <1>5
<1>7. Tail(s \o t) = Tail(s) \o t
  BY <1>4, <1>5, <1>6, SeqEqual
<1> QED
  BY <1>2, <1>3, <1>7

\* What is left of a sequence without repetitions.
LEMMA RestFacts ==
  ASSUME NEW S, NEW s \in Seq(S), s # <<>>, IsInjective(s)
  PROVE  /\ Tail(s) \in Seq(S) /\ Head(s) \in S /\ Head(s) \in Range(s)
         /\ Range(Tail(s)) = Range(s) \ {Head(s)}
         /\ IsInjective(Tail(s))
<1>1. /\ Len(s) \in Nat \ {0} /\ Tail(s) \in Seq(S) /\ Len(Tail(s)) = Len(s) - 1
      /\ Head(s) = s[1] /\ Head(s) \in S /\ DOMAIN s = 1..Len(s)
      /\ DOMAIN Tail(s) = 1..(Len(s) - 1)
      /\ \A i \in 1..(Len(s) - 1) : Tail(s)[i] = s[i + 1]
  BY EmptySeq, HeadTailProperties
<1>2. IsInjective(Tail(s))
  BY <1>1 DEF IsInjective
<1>3. Head(s) \in Range(s)
  BY <1>1 DEF Range
<1>4. ASSUME NEW i \in 1..(Len(s) - 1)
      PROVE  i + 1 \in 1..Len(s) /\ s[i + 1] # s[1]
  BY <1>1 DEF IsInjective
<1>5. Range(Tail(s)) \subseteq Range(s) \ {Head(s)}
  BY <1>1, <1>4 DEF Range
<1>6. ASSUME NEW j \in 1..Len(s), s[j] # s[1]
      PROVE  \E i \in 1..(Len(s) - 1) : Tail(s)[i] = s[j]
  <2>1. j - 1 \in 1..(Len(s) - 1) /\ Tail(s)[j - 1] = s[j]
    BY <1>1, <1>6
  <2> QED
    BY <2>1
<1>7. Range(s) \ {Head(s)} \subseteq Range(Tail(s))
  <2> SUFFICES ASSUME NEW j \in 1..Len(s), s[j] # s[1]
               PROVE  s[j] \in Range(Tail(s))
    BY <1>1 DEF Range
  <2>1. PICK i \in 1..(Len(s) - 1) : Tail(s)[i] = s[j]
    BY <1>6
  <2> QED
    BY <1>1, <2>1 DEF Range
<1> QED
  BY <1>1, <1>2, <1>3, <1>5, <1>7

LEMMA OpAppended ==
  ASSUME NEW s \in Seq(Ops), NEW t \in Seq(Ops), NEW op \in Ops
  PROVE  s \o Append(t, op) = Append(s \o t, op)
  BY AppendFacts

LEMMA OpAdded ==
  ASSUME NEW s \in Seq(Ops), NEW op \in Ops
  PROVE  /\ Range(Append(s, op)) = Range(s) \cup {op}
         /\ IsInjective(s) /\ op \notin Range(s) => IsInjective(Append(s, op))
  BY AppendFacts

LEMMA OpTaken ==
  ASSUME NEW s \in Seq(Ops), NEW t \in Seq(Ops), s # <<>>
  PROVE  Head(s \o t) = Head(s) /\ Tail(s \o t) = Tail(s) \o t /\ s \o t # <<>>
  BY TailFacts

LEMMA OpsLeft ==
  ASSUME NEW s \in Seq(Ops), s # <<>>, IsInjective(s)
  PROVE  /\ Head(s) \in Ops /\ Head(s) \in Range(s)
         /\ Range(Tail(s)) = Range(s) \ {Head(s)} /\ IsInjective(Tail(s))
  BY RestFacts

LEMMA HeldFacts ==
  ASSUME TypeOK, NEW q \in Queues
  PROVE  /\ Held[q] = dealQueue[q] \o reqQueue[q] /\ Held[q] \in Seq(Ops)
         /\ Range(Held[q]) \subseteq Ops
         /\ handled[q] \in Seq(Ops) /\ Range(handled[q]) \subseteq Ops
<1>1. dealQueue[q] \in Seq(Ops) /\ reqQueue[q] \in Seq(Ops) /\ handled[q] \in Seq(Ops)
  BY DEF TypeOK, QueueTypes, BatchTypes
<1>2. Held[q] = dealQueue[q] \o reqQueue[q]
  BY DEF Held
<1>3. Held[q] \in Seq(Ops)
  BY <1>1, <1>2, ConcatProperties
<1> QED
  BY <1>1, <1>2, <1>3, RangeOfSeq

LEMMA OpFacts ==
  ASSUME NEW op \in Ops
  PROVE  Via[op] \in Producers /\ QueueOf(op) \in Queues
  BY ConstantsAssumption, QueueOfType

\* What Enqueue does to the queues.
LEMMA PutFacts ==
  ASSUME TypeOK, PlaceInv, NEW p \in Producers, Enqueue(p), NEW op, op = cur[p]
  PROVE  /\ op \in Ops /\ QueueOf(op) \in Queues /\ Via[op] = p
         /\ op \in Range(arrival[p]) /\ Coming(op)
         /\ \A r \in Queues : op \notin Range(Held[r]) /\ op \notin Range(handled[r])
         /\ Held' = [Held EXCEPT ![QueueOf(op)] = Append(@, op)]
         /\ UNCHANGED <<arrival, handled, inflight, replies, executed, copyupFlag, hop>>
         /\ pc'[p] \in {"idle", "limit"} /\ (pc'[p] = "limit" => cur'[p] = op)
         /\ \A x \in Producers : x # p => pc'[x] = pc[x] /\ cur'[x] = cur[x]
         /\ \A q \in Queues : hpc'[q] = "dispatch" => hpc[q] = "dispatch"
<1> DEFINE q == QueueOf(op)
<1>1. op \in Ops /\ pc[p] \in {"lock", "notified"}
  BY DEF Enqueue, SpaceSeen, TypeOK, ProducerTypes
<1>2. q \in Queues
  BY <1>1, OpFacts
<1>3. Via[op] = p /\ op \in Range(arrival[p]) /\ Coming(op)
  BY <1>1 DEF PlaceInv, ArrivalInv, Coming
<1>4. \A r \in Queues : op \notin Range(Held[r]) /\ op \notin Range(handled[r])
  BY <1>3 DEF PlaceInv, QueuedInv, TakenInv, Entered
<1>5. /\ reqQueue' = [reqQueue EXCEPT ![q] = Append(@, op)]
      /\ UNCHANGED <<arrival, handled, inflight, replies, executed, copyupFlag, hop, dealQueue>>
  BY DEF Enqueue, EnQueue, cacheVars, batchVars
<1>6. /\ pc'[p] \in {"idle", "limit"} /\ (pc'[p] = "limit" => cur'[p] = op)
      /\ \A x \in Producers : x # p => pc'[x] = pc[x] /\ cur'[x] = cur[x]
  BY <1>1 DEF Enqueue, TypeOK, ProducerTypes
<1>7. \A r \in Queues : hpc'[r] = "dispatch" => hpc[r] = "dispatch"
  BY <1>2 DEF Enqueue, EnQueue, NotifyHandler, TypeOK, HandlerTypes
<1> HIDE DEF q
<1>8. ASSUME NEW r \in Queues
      PROVE  dealQueue'[r] \o reqQueue'[r] = [Held EXCEPT ![q] = Append(@, op)][r]
  <2>1. CASE r = q
    <3>0. dealQueue[q] \in Seq(Ops) /\ reqQueue[q] \in Seq(Ops)
      BY <1>2 DEF TypeOK, QueueTypes, BatchTypes
    <3>1. dealQueue[q] \o Append(reqQueue[q], op) = Append(dealQueue[q] \o reqQueue[q], op)
      BY <1>1, <3>0, OpAppended
    <3>2. dealQueue'[q] = dealQueue[q] /\ reqQueue'[q] = Append(reqQueue[q], op)
      BY <1>2, <1>5 DEF TypeOK, QueueTypes
    <3> QED
      BY <1>2, <2>1, <3>1, <3>2 DEF Held
  <2>2. CASE r # q
    BY <1>2, <1>5, <2>2 DEF Held, TypeOK, QueueTypes
  <2> QED
    BY <2>1, <2>2
<1>9. Held' = [Held EXCEPT ![q] = Append(@, op)]
  BY <1>8 DEF Held
<1> QED
  BY <1>1, <1>2, <1>3, <1>4, <1>5, <1>6, <1>7, <1>9 DEF q

\* What the head of a turn of the batch loop does to them.
LEMMA TakeFacts ==
  ASSUME TypeOK, NEW q \in Queues, ProcessOpReq(q), NEW op, op = Head(dealQueue[q])
  PROVE  /\ Held[q] # <<>> /\ op = Head(Held[q]) /\ op \in Ops
         /\ Held' = [Held EXCEPT ![q] = Tail(@)]
         /\ handled' = [handled EXCEPT ![q] = Append(@, op)]
<1>1. /\ dealQueue[q] # <<>> /\ dealQueue' = [dealQueue EXCEPT ![q] = Tail(@)] /\ reqQueue' = reqQueue
      /\ handled' = [handled EXCEPT ![q] = Append(@, op)]
  BY DEF ProcessOpReq, Pop, queueVars
<1>2. /\ dealQueue[q] \in Seq(Ops) /\ reqQueue[q] \in Seq(Ops)
      /\ dealQueue \in [Queues -> Seq(Ops)]
  BY DEF TypeOK, QueueTypes, BatchTypes
<1>3. /\ Head(dealQueue[q] \o reqQueue[q]) = op /\ dealQueue[q] \o reqQueue[q] # <<>>
      /\ Tail(dealQueue[q] \o reqQueue[q]) = Tail(dealQueue[q]) \o reqQueue[q]
  BY <1>1, <1>2, OpTaken
<1>4. op \in Ops
  BY <1>1, <1>2, HeadTailProperties
<1>5. ASSUME NEW r \in Queues
      PROVE  dealQueue'[r] \o reqQueue'[r] = [Held EXCEPT ![q] = Tail(@)][r]
  <2>1. CASE r = q
    BY <1>1, <1>2, <1>3, <2>1 DEF Held
  <2>2. CASE r # q
    BY <1>1, <1>2, <2>2 DEF Held
  <2> QED
    BY <2>1, <2>2
<1>6. Held' = [Held EXCEPT ![q] = Tail(@)]
  BY <1>5 DEF Held
<1> QED
  BY <1>1, <1>3, <1>4, <1>6, HeldFacts

\* Every other step leaves what a queue and its batch hold together alone.
LEMMA HeldKept ==
  ASSUME TypeOK, BatchDone, [Next]_vars,
         \A p \in Producers : ~Enqueue(p), \A q \in Queues : ~ProcessOpReq(q)
  PROVE  Held' = Held /\ handled' = handled
<1>1. ASSUME NEW q \in Queues, Swap(q)
      PROVE  Held' = Held /\ handled' = handled
  <2>1. /\ dealQueue[q] = <<>> /\ reqQueue' = [reqQueue EXCEPT ![q] = dealQueue[q]]
        /\ dealQueue' = [dealQueue EXCEPT ![q] = reqQueue[q]] /\ handled' = handled
    BY <1>1 DEF Swap, BatchDone
  <2>2. /\ reqQueue \in [Queues -> Seq(Ops)] /\ dealQueue \in [Queues -> Seq(Ops)]
        /\ reqQueue[q] \in Seq(Ops)
    BY DEF TypeOK, QueueTypes, BatchTypes
  <2>3. reqQueue[q] \o <<>> = reqQueue[q] /\ <<>> \o reqQueue[q] = reqQueue[q]
    BY <2>2, ConcatEmptySeq
  <2>4. ASSUME NEW r \in Queues
        PROVE  dealQueue'[r] \o reqQueue'[r] = dealQueue[r] \o reqQueue[r]
    <3>1. CASE r = q
      <4>1. dealQueue'[q] = reqQueue[q] /\ reqQueue'[q] = <<>>
        BY <2>1, <2>2
      <4> QED
        BY <2>1, <2>3, <3>1, <4>1
    <3>2. CASE r # q
      BY <2>1, <2>2, <3>2
    <3> QED
      BY <3>1, <3>2
  <2> QED
    BY <2>1, <2>4 DEF Held
<1>2. ASSUME UNCHANGED <<dealQueue, reqQueue, handled>>
      PROVE  Held' = Held /\ handled' = handled
  BY <1>2 DEF Held
<1> USE DEF queueVars, batchVars
<1>3. ASSUME NEW p \in Producers, Producer(p)
      PROVE  Held' = Held /\ handled' = handled
  BY <1>2, <1>3 DEF Producer, Arrive, Block, LimitEnter, LimitLeave, SpuriousWakeup
<1>4. ASSUME NEW q \in Queues, Handler(q)
      PROVE  Held' = Held /\ handled' = handled
  BY <1>1, <1>2, <1>4
  DEF Handler, HandlerLock, CheckFinish, HandlerWait, HandlerSpuriousWakeup, DispatchOp
<1>5. CASE (\E op \in Ops : Cache(op)) \/ OsaFinish \/ UNCHANGED vars
  BY <1>2, <1>5 DEF Cache, ExecClass, FinishCacheOps, OsaFinish, Shutdown, JoinServer, StopLock,
                   StopSet, StopNotify, StopJoin, vars
<1> QED
  BY <1>3, <1>4, <1>5 DEF Next
-----------------------------------------------------------------------------
(* The steps that move an op, and the others.                              *)

LEMMA KeptStep ==
  ASSUME TypeOK, PlaceInv, Held' = Held, UNCHANGED <<handled, inflight, replies, arrival>>,
         \A p \in Producers :
           \/ pc'[p] = "idle"
           \/ /\ pc[p] # "idle" /\ cur'[p] = cur[p]
              /\ pc'[p] \in {"lock", "waiting", "notified"} => pc[p] \in {"lock", "waiting", "notified"},
         \A q \in Queues : hpc'[q] = "dispatch" => hpc[q] = "dispatch" /\ hop'[q] = hop[q]
  PROVE  PlaceInv'
<1> USE DEF PlaceInv
<1>1. ArrivalInv'
  BY DEF ArrivalInv
<1>2. ASSUME NEW op \in Ops, Entered(op)
      PROVE  Entered(op)'
  BY <1>2, OpFacts DEF Entered, Coming
<1>3. QueuedInv'
  <2>1. ASSUME NEW q \in Queues
        PROVE  \A op \in Range(Held[q]) :
                 /\ QueueOf(op) = q /\ Entered(op)' /\ op \notin Range(handled[q])
                 /\ op \notin inflight /\ replies[op] = 0
    BY <1>2, HeldFacts DEF QueuedInv
  <2> QED
    BY <2>1 DEF QueuedInv
<1>4. TakenInv'
  <2>1. ASSUME NEW q \in Queues
        PROVE  \A op \in Range(handled[q]) : QueueOf(op) = q /\ Entered(op)'
    BY <1>2, HeldFacts DEF TakenInv
  <2> QED
    BY <2>1 DEF TakenInv
<1>5. CacheInv' /\ AnswerInv'
  BY DEF CacheInv, AnswerInv
<1> QED
  BY <1>1, <1>3, <1>4, <1>5

LEMMA ArriveStep ==
  ASSUME TypeOK, PlaceInv, NEW p \in Producers, NEW op \in Ops, Arrive(p, op)
  PROVE  PlaceInv'
<1> USE DEF PlaceInv
<1>a. /\ Via[op] = p /\ op \notin Range(arrival[p]) /\ pc[p] = "idle"
      /\ UNCHANGED <<handled, inflight, replies, hpc, hop, reqQueue, dealQueue>>
      /\ arrival' = [arrival EXCEPT ![p] = Append(@, op)]
      /\ pc' = [pc EXCEPT ![p] = "lock"] /\ cur' = [cur EXCEPT ![p] = op]
  BY DEF Arrive, Range, queueVars, batchVars, cacheVars
<1>b. Held' = Held
  BY <1>a DEF Held
<1>c. arrival[p] \in Seq(Ops) /\ arrival \in [Producers -> Seq(Ops)]
  BY DEF TypeOK, ProducerTypes
<1>d. Range(Append(arrival[p], op)) = Range(arrival[p]) \cup {op}
  BY <1>c, OpAdded
<1>e. \A x \in Producers : Range(arrival'[x]) = IF x = p THEN Range(arrival[x]) \cup {op} ELSE Range(arrival[x])
  BY <1>a, <1>c, <1>d
<1>f. /\ pc'[p] = "lock" /\ cur'[p] = op
      /\ \A x \in Producers : x # p => pc'[x] = pc[x] /\ cur'[x] = cur[x]
  BY <1>a DEF TypeOK, ProducerTypes
<1>1. ArrivalInv'
  <2> SUFFICES ASSUME NEW x \in Producers, pc'[x] # "idle"
               PROVE  Via[cur'[x]] = x /\ cur'[x] \in Range(arrival'[x])
    BY DEF ArrivalInv
  <2>1. CASE x = p
    <3>1. op \in Range(arrival'[p])
      BY <1>e
    <3>2. Via[cur'[p]] = p /\ cur'[p] \in Range(arrival'[p])
      BY <1>a, <1>f, <3>1
    <3> QED
      BY <2>1, <3>2
  <2>2. CASE x # p
    <3>1. pc[x] # "idle" /\ cur'[x] = cur[x] /\ Range(arrival'[x]) = Range(arrival[x])
      BY <1>e, <1>f, <2>2
    <3> QED
      BY <3>1 DEF ArrivalInv
  <2> QED
    BY <2>1, <2>2
<1>2. ASSUME NEW o \in Ops, Entered(o)
      PROVE  Entered(o)'
  <2>1. o # op
    BY <1>2, <1>a DEF Entered
  <2>2. o \in Range(arrival'[Via[o]])
    BY <1>2, <1>e, OpFacts DEF Entered
  <2>3. ~(pc'[Via[o]] \in {"lock", "waiting", "notified"} /\ cur'[Via[o]] = o)
    BY <1>2, <1>f, <2>1, OpFacts DEF Entered, Coming
  <2> QED
    BY <2>2, <2>3 DEF Entered, Coming
<1>3. QueuedInv'
  <2>1. ASSUME NEW q \in Queues
        PROVE  \A o \in Range(Held[q]) :
                 /\ QueueOf(o) = q /\ Entered(o)' /\ o \notin Range(handled[q])
                 /\ o \notin inflight /\ replies[o] = 0
    BY <1>2, HeldFacts DEF QueuedInv
  <2> QED
    BY <1>a, <1>b, <2>1 DEF QueuedInv
<1>4. TakenInv'
  <2>1. ASSUME NEW q \in Queues
        PROVE  \A o \in Range(handled[q]) : QueueOf(o) = q /\ Entered(o)'
    BY <1>2, HeldFacts DEF TakenInv
  <2> QED
    BY <1>a, <2>1 DEF TakenInv
<1>5. CacheInv' /\ AnswerInv'
  BY <1>a DEF CacheInv, AnswerInv
<1> QED
  BY <1>1, <1>3, <1>4, <1>5

LEMMA EnqueueStep ==
  ASSUME TypeOK, PlaceInv, NEW p \in Producers, Enqueue(p)
  PROVE  PlaceInv'
<1> USE DEF PlaceInv
<1>0. PICK op : op = cur[p]
  OBVIOUS
<1>a. /\ op \in Ops /\ QueueOf(op) \in Queues /\ Via[op] = p
      /\ op \in Range(arrival[p])
      /\ \A r \in Queues : op \notin Range(Held[r]) /\ op \notin Range(handled[r])
  BY <1>0, PutFacts
<1>b. /\ Held' = [Held EXCEPT ![QueueOf(op)] = Append(@, op)]
      /\ UNCHANGED <<arrival, handled, inflight, replies, hop>>
  BY <1>0, PutFacts
<1>c. /\ pc'[p] \in {"idle", "limit"} /\ (pc'[p] = "limit" => cur'[p] = op)
      /\ \A x \in Producers : x # p => pc'[x] = pc[x] /\ cur'[x] = cur[x]
      /\ \A q \in Queues : hpc'[q] = "dispatch" => hpc[q] = "dispatch"
  BY <1>0, PutFacts
<1>d. op \notin inflight /\ replies[op] = 0
  <2>1. op \notin inflight /\ replies[op] # 1 /\ replies[op] <= 1 /\ replies[op] \in Nat
    BY <1>a DEF CacheInv, AnswerInv, TypeOK, CacheTypes
  <2> QED
    BY <2>1
<1>1. ArrivalInv'
  BY <1>a, <1>b, <1>c DEF ArrivalInv
<1>2. ASSUME NEW o \in Ops, Entered(o) \/ o = op
      PROVE  Entered(o)'
  BY <1>2, <1>a, <1>b, <1>c, OpFacts DEF Entered, Coming
<1>3. QueuedInv'
  <2> SUFFICES ASSUME NEW q \in Queues
               PROVE  /\ IsInjective(Held'[q])
                      /\ \A o \in Range(Held'[q]) :
                           /\ QueueOf(o) = q /\ Entered(o)' /\ o \notin Range(handled[q])
                           /\ o \notin inflight /\ replies[o] = 0
    BY <1>b DEF QueuedInv
  <2>0. IsInjective(Held[q]) /\ \A o \in Range(Held[q]) :
                           /\ QueueOf(o) = q /\ Entered(o)' /\ o \notin Range(handled[q])
                           /\ o \notin inflight /\ replies[o] = 0
    BY <1>2, HeldFacts DEF QueuedInv
  <2>1. CASE q = QueueOf(op)
    <3>1. Held'[q] = Append(Held[q], op)
      BY <1>b, <2>1 DEF Held
    <3>2. Range(Held'[q]) = Range(Held[q]) \cup {op} /\ IsInjective(Held'[q])
      <4>1. Held[q] \in Seq(Ops) /\ op \notin Range(Held[q]) /\ IsInjective(Held[q])
        BY <1>a, <2>0, HeldFacts
      <4>2. Range(Append(Held[q], op)) = Range(Held[q]) \cup {op} /\ IsInjective(Append(Held[q], op))
        BY <1>a, <4>1, OpAdded
      <4> QED
        BY <3>1, <4>2
    <3> QED
      BY <1>a, <1>d, <1>2, <2>0, <2>1, <3>2
  <2>2. CASE q # QueueOf(op)
    <3>1. Held'[q] = Held[q]
      BY <1>b, <2>2 DEF Held
    <3> QED
      BY <2>0, <3>1
  <2> QED
    BY <2>1, <2>2
<1>4. TakenInv'
  <2>1. ASSUME NEW q \in Queues
        PROVE  \A o \in Range(handled[q]) : QueueOf(o) = q /\ Entered(o)'
    BY <1>2, HeldFacts DEF TakenInv
  <2> QED
    BY <1>b, <1>c, <2>1 DEF TakenInv
<1>5. CacheInv' /\ AnswerInv'
  BY <1>b DEF CacheInv, AnswerInv
<1> QED
  BY <1>1, <1>3, <1>4, <1>5

LEMMA ProcessStep ==
  ASSUME TypeOK, PlaceInv, NEW q \in Queues, ProcessOpReq(q)
  PROVE  PlaceInv'
<1> USE DEF PlaceInv
<1>0. PICK op : op = Head(dealQueue[q])
  OBVIOUS
<1>a. /\ Held[q] # <<>> /\ op = Head(Held[q]) /\ op \in Ops
      /\ Held' = [Held EXCEPT ![q] = Tail(@)]
      /\ handled' = [handled EXCEPT ![q] = Append(@, op)]
  BY <1>0, TakeFacts
<1>b. /\ UNCHANGED <<pc, cur, arrival, inflight>>
      /\ replies' = [replies EXCEPT ![op] = IF Kind[op] = "shortName" THEN @ + 1 ELSE @]
  BY <1>0 DEF ProcessOpReq, prodVars
<1>c. \/ UNCHANGED <<hpc, hop>>
      \/ /\ Kind[op] # "shortName"
         /\ hpc' = [hpc EXCEPT ![q] = "dispatch"] /\ hop' = [hop EXCEPT ![q] = op]
  BY <1>0 DEF ProcessOpReq, Rejected
<1>d. /\ op \in Range(Held[q]) /\ Range(Tail(Held[q])) = Range(Held[q]) \ {op}
      /\ IsInjective(Tail(Held[q]))
  BY <1>a, HeldFacts, OpsLeft DEF QueuedInv
<1>e. /\ QueueOf(op) = q /\ Entered(op) /\ op \notin Range(handled[q])
      /\ op \notin inflight /\ replies[op] = 0
  BY <1>d DEF QueuedInv
<1>f. /\ Held'[q] = Tail(Held[q]) /\ \A r \in Queues : r # q => Held'[r] = Held[r]
      /\ handled'[q] = Append(handled[q], op) /\ \A r \in Queues : r # q => handled'[r] = handled[r]
  BY <1>a DEF Held, TypeOK, BatchTypes
<1>g. Range(handled'[q]) = Range(handled[q]) \cup {op}
  BY <1>a, <1>f, HeldFacts, OpAdded
<1>h. /\ replies'[op] = IF Kind[op] = "shortName" THEN 1 ELSE 0
      /\ \A o \in Ops : o # op => replies'[o] = replies[o]
  BY <1>a, <1>b, <1>e DEF TypeOK, CacheTypes
<1>1. ArrivalInv'
  BY <1>b DEF ArrivalInv
<1>2. \A o \in Ops : Entered(o)' <=> Entered(o)
  BY <1>b DEF Entered, Coming
<1>3. QueuedInv'
  <2> SUFFICES ASSUME NEW r \in Queues
               PROVE  /\ IsInjective(Held'[r])
                      /\ \A o \in Range(Held'[r]) :
                           /\ QueueOf(o) = r /\ Entered(o)' /\ o \notin Range(handled'[r])
                           /\ o \notin inflight' /\ replies'[o] = 0
    BY DEF QueuedInv
  <2>1. CASE r = q
    <3>1. IsInjective(Held'[r]) /\ Range(Held'[r]) = Range(Held[r]) \ {op}
      BY <1>d, <1>f, <2>1
    <3>2. \A o \in Range(Held'[r]) : o \in Ops /\ o # op /\ o \in Range(Held[r])
      BY <3>1, HeldFacts
    <3> QED
      BY <1>b, <1>g, <1>h, <1>2, <2>1, <3>1, <3>2 DEF QueuedInv
  <2>2. CASE r # q
    <3>1. \A o \in Range(Held[r]) : o \in Ops /\ o # op
      BY <1>e, <2>2, HeldFacts DEF QueuedInv
    <3> QED
      BY <1>b, <1>f, <1>h, <1>2, <2>2, <3>1 DEF QueuedInv
  <2> QED
    BY <2>1, <2>2
<1>4. TakenInv'
  <2>0. ASSUME NEW r \in Queues
        PROVE  Range(handled[r]) \subseteq Range(handled'[r])
    BY <1>f, <1>g
  <2>1. ASSUME NEW r \in Queues, NEW o \in Range(handled'[r])
        PROVE  QueueOf(o) = r /\ Entered(o)'
    <3>1. o \in Ops /\ (o \in Range(handled[r]) \/ (r = q /\ o = op))
      BY <1>a, <1>f, <1>g, <2>1, HeldFacts
    <3> QED
      BY <1>e, <1>2, <3>1 DEF TakenInv
  <2>2. ASSUME NEW r \in Queues, hpc'[r] = "dispatch"
        PROVE  hop'[r] \in Range(handled'[r]) /\ hop'[r] \notin inflight /\ replies'[hop'[r]] = 0
    <3>1. CASE hpc[r] = "dispatch" /\ hop'[r] = hop[r]
      <4>1. hop[r] \in Range(handled[r]) /\ hop[r] \notin inflight /\ replies[hop[r]] = 0
            /\ hop[r] \in Ops
        BY <3>1, HeldFacts DEF TakenInv
      <4>2. hop[r] # op
        <5>1. QueueOf(hop[r]) = r
          BY <4>1 DEF TakenInv
        <5> QED
          BY <1>e, <4>1, <5>1
      <4> QED
        BY <1>h, <2>0, <3>1, <4>1, <4>2
    <3>2. CASE r = q /\ hop'[r] = op /\ Kind[op] # "shortName"
      BY <1>e, <1>g, <1>h, <3>2
    <3> QED
      BY <1>c, <2>2, <3>1, <3>2 DEF TypeOK, HandlerTypes
  <2> QED
    BY <1>b, <2>1, <2>2 DEF TakenInv
<1>5. CacheInv'
  <2> SUFFICES ASSUME NEW o \in inflight
               PROVE  o \in Range(handled'[QueueOf(o)]) /\ replies'[o] = 0
    BY <1>b DEF CacheInv
  <2>1. o \in Ops /\ o # op /\ QueueOf(o) \in Queues
    BY <1>e, OpFacts DEF TypeOK, CacheTypes
  <2> QED
    BY <1>f, <1>g, <1>h, <2>1 DEF CacheInv
<1>6. AnswerInv'
  <2> SUFFICES ASSUME NEW o \in Ops
               PROVE  /\ replies'[o] <= 1
                      /\ replies'[o] = 1 => o \notin inflight /\ o \in Range(handled'[QueueOf(o)])
    BY <1>b DEF AnswerInv
  <2>1. CASE o = op
    BY <1>e, <1>g, <1>h, <2>1
  <2>2. CASE o # op
    BY <1>f, <1>g, <1>h, <2>2, OpFacts DEF AnswerInv
  <2> QED
    BY <2>1, <2>2
<1> QED
  BY <1>1, <1>3, <1>4, <1>5, <1>6

LEMMA DispatchStep ==
  ASSUME TypeOK, PlaceInv, NEW q \in Queues, DispatchOp(q)
  PROVE  PlaceInv'
<1> USE DEF PlaceInv
<1>a. /\ hpc[q] = "dispatch" /\ inflight' = inflight \cup {hop[q]}
      /\ hpc' = [hpc EXCEPT ![q] = "process"] /\ hop' = [hop EXCEPT ![q] = NoOp]
      /\ UNCHANGED <<pc, cur, arrival, reqQueue, dealQueue, handled, replies>>
  BY DEF DispatchOp, CopyupDone, prodVars, queueVars, batchVars
<1>b. Held' = Held
  BY <1>a DEF Held
<1>c. /\ hop[q] \in Range(handled[q]) /\ hop[q] \notin inflight /\ replies[hop[q]] = 0
      /\ QueueOf(hop[q]) = q
  BY <1>a DEF TakenInv
<1>d. /\ hpc'[q] = "process" /\ \A r \in Queues : r # q => hpc'[r] = hpc[r] /\ hop'[r] = hop[r]
  BY <1>a DEF TypeOK, HandlerTypes
<1>1. ArrivalInv'
  BY <1>a DEF ArrivalInv
<1>2. \A o \in Ops : Entered(o)' <=> Entered(o)
  BY <1>a DEF Entered, Coming
<1>3. QueuedInv'
  <2>1. ASSUME NEW r \in Queues, NEW o \in Range(Held[r])
        PROVE  o \in Ops /\ o # hop[q]
    <3>1. o \in Ops /\ QueueOf(o) = r /\ o \notin Range(handled[r])
      BY HeldFacts DEF QueuedInv
    <3> QED
      BY <1>c, <3>1
  <2> QED
    BY <1>a, <1>b, <1>2, <2>1 DEF QueuedInv
<1>4. TakenInv'
  <2>1. ASSUME NEW r \in Queues
        PROVE  \A o \in Range(handled[r]) : QueueOf(o) = r /\ Entered(o)'
    BY <1>2, HeldFacts DEF TakenInv
  <2>2. ASSUME NEW r \in Queues, hpc'[r] = "dispatch"
        PROVE  hop'[r] \in Range(handled[r]) /\ hop'[r] \notin inflight' /\ replies[hop'[r]] = 0
    <3>1. r # q /\ hpc[r] = "dispatch" /\ hop'[r] = hop[r]
      BY <1>d, <2>2
    <3>2. QueueOf(hop[r]) = r
      BY <3>1 DEF TakenInv
    <3> QED
      BY <1>a, <1>c, <3>1, <3>2 DEF TakenInv
  <2> QED
    BY <1>a, <2>1, <2>2 DEF TakenInv
<1>5. CacheInv'
  BY <1>a, <1>c DEF CacheInv
<1>6. AnswerInv'
  BY <1>a, <1>c DEF AnswerInv
<1> QED
  BY <1>1, <1>3, <1>4, <1>5, <1>6

LEMMA FinishStep ==
  ASSUME TypeOK, PlaceInv, NEW op \in Ops, FinishCacheOps(op)
  PROVE  PlaceInv'
<1> USE DEF PlaceInv
<1>a. /\ op \in inflight /\ inflight' = inflight \ {op} /\ replies' = [replies EXCEPT ![op] = @ + 1]
      /\ UNCHANGED <<pc, cur, arrival, reqQueue, dealQueue, handled, hpc, hop>>
  BY DEF FinishCacheOps, prodVars, queueVars, batchVars
<1>b. Held' = Held
  BY <1>a DEF Held
<1>c. replies[op] = 0 /\ op \in Range(handled[QueueOf(op)])
  BY <1>a DEF CacheInv
<1>d. replies'[op] = 1 /\ \A o \in Ops : o # op => replies'[o] = replies[o]
  BY <1>a, <1>c DEF TypeOK, CacheTypes
<1>1. ArrivalInv'
  BY <1>a DEF ArrivalInv
<1>2. \A o \in Ops : Entered(o)' <=> Entered(o)
  BY <1>a DEF Entered, Coming
<1>3. QueuedInv'
  <2>1. ASSUME NEW r \in Queues
        PROVE  \A o \in Range(Held[r]) : o \in Ops /\ o # op
    BY <1>a, HeldFacts DEF QueuedInv
  <2> QED
    BY <1>a, <1>b, <1>d, <1>2, <2>1 DEF QueuedInv
<1>4. TakenInv'
  <2>1. ASSUME NEW r \in Queues
        PROVE  \A o \in Range(handled[r]) : o \in Ops /\ QueueOf(o) = r /\ Entered(o)'
    BY <1>2, HeldFacts DEF TakenInv
  <2>2. ASSUME NEW r \in Queues, hpc[r] = "dispatch"
        PROVE  hop[r] \in Range(handled[r]) /\ hop[r] \notin inflight' /\ replies'[hop[r]] = 0
    BY <1>a, <1>d, <2>1, <2>2 DEF TakenInv
  <2> QED
    BY <1>a, <2>1, <2>2 DEF TakenInv
<1>5. CacheInv'
  <2>1. \A o \in inflight' : o \in Ops /\ o # op
    BY <1>a DEF TypeOK, CacheTypes
  <2> QED
    BY <1>a, <1>d, <2>1 DEF CacheInv
<1>6. AnswerInv'
  BY <1>a, <1>c, <1>d DEF AnswerInv
<1> QED
  BY <1>1, <1>3, <1>4, <1>5, <1>6

\* An op is in one place at a time, whatever the threads do.
LEMMA PlaceStep == TypeOK /\ BatchDone /\ PlaceInv /\ [Next]_vars => PlaceInv'
<1> SUFFICES ASSUME TypeOK, BatchDone, PlaceInv, [Next]_vars
             PROVE  PlaceInv'
  OBVIOUS
<1> USE DEF prodVars, queueVars, batchVars, cacheVars
<1>1. CASE \E p \in Producers : Enqueue(p) \/ \E op \in Ops : Arrive(p, op)
  BY <1>1, EnqueueStep, ArriveStep
<1>2. CASE \E q \in Queues : ProcessOpReq(q) \/ DispatchOp(q)
  BY <1>2, ProcessStep, DispatchStep
<1>3. CASE \E op \in Ops : FinishCacheOps(op)
  BY <1>3, FinishStep
<1>4. CASE /\ \A p \in Producers : ~Enqueue(p) /\ \A op \in Ops : ~Arrive(p, op)
           /\ \A q \in Queues : ~ProcessOpReq(q) /\ ~DispatchOp(q)
           /\ \A op \in Ops : ~FinishCacheOps(op)
  <2>1. Held' = Held /\ handled' = handled
    BY <1>4, HeldKept
  <2>a. pc \in [Producers -> {"idle", "lock", "waiting", "notified", "limit", "limited"}]
        /\ cur \in [Producers -> Ops \cup {NoOp}] /\ DOMAIN hpc = Queues
    BY DEF TypeOK, ProducerTypes, HandlerTypes
  <2> DEFINE Kept == UNCHANGED <<inflight, replies, arrival>>
             Calls == \A p \in Producers :
               \/ pc'[p] = "idle"
               \/ /\ pc[p] # "idle" /\ cur'[p] = cur[p]
                  /\ pc'[p] \in {"lock", "waiting", "notified"} => pc[p] \in {"lock", "waiting", "notified"}
             Hands == \A q \in Queues : hpc'[q] = "dispatch" => hpc[q] = "dispatch" /\ hop'[q] = hop[q]
  <2>b. ASSUME UNCHANGED <<pc, cur>> PROVE Calls
    BY <2>b, <2>a
  <2>c. ASSUME NEW q \in Queues, NotifyHandler(q), UNCHANGED hop PROVE Hands
    BY <2>c, <2>a DEF NotifyHandler
  <2>d. ASSUME UNCHANGED <<hpc, hop>> PROVE Hands
    BY <2>d
  <2>2. ASSUME NEW p \in Producers, Block(p) \/ LimitEnter(p) \/ LimitLeave(p) \/ SpuriousWakeup(p)
        PROVE  Kept /\ Calls /\ Hands
    <3>1. Kept /\ UNCHANGED <<hpc, hop>>
      BY <2>2 DEF Block, LimitEnter, LimitLeave, SpuriousWakeup
    <3>2. Calls
      BY <2>2, <2>a DEF Block, LimitEnter, LimitLeave, SpuriousWakeup
    <3> QED
      BY <3>1, <3>2
  <2>3. ASSUME NEW q \in Queues,
               \/ HandlerLock(q) \/ CheckFinish(q) \/ HandlerWait(q) \/ HandlerSpuriousWakeup(q)
               \/ Swap(q)
        PROVE  Kept /\ Calls /\ Hands
    <3>1. Kept /\ UNCHANGED <<cur, hop>>
      BY <2>3 DEF HandlerLock, CheckFinish, HandlerWait, HandlerSpuriousWakeup, Swap
    <3>2. Calls
      <4>1. UNCHANGED pc \/ NotifyProducers(q)
        BY <2>3 DEF HandlerLock, CheckFinish, HandlerWait, HandlerSpuriousWakeup, Swap
      <4> QED
        BY <2>a, <3>1, <4>1 DEF NotifyProducers, At
    <3>3. Hands
      <4>1. PICK s \in {"check", "done", "test", "waiting", "notified", "process"} :
              hpc' = [hpc EXCEPT ![q] = s]
        BY <2>3 DEF HandlerLock, CheckFinish, HandlerWait, HandlerSpuriousWakeup, Swap
      <4> QED
        BY <2>a, <3>1, <4>1
    <3> QED
      BY <3>1, <3>2, <3>3
  <2>4. ASSUME NEW op \in Ops, ExecClass(op)
        PROVE  Kept /\ Calls /\ Hands
    BY <2>4, <2>b DEF ExecClass
  <2> HIDE DEF Calls, Hands
  <2>5. ASSUME OsaFinish
        PROVE  Kept /\ Calls /\ Hands
    <3>1. Kept /\ UNCHANGED <<pc, cur, hop>>
      BY <2>5 DEF OsaFinish, Shutdown, JoinServer, StopLock, StopSet, StopNotify, StopJoin
    <3>2. UNCHANGED hpc \/ (mi \in Queues /\ NotifyHandler(mi))
      BY <2>5 DEF OsaFinish, Shutdown, JoinServer, StopLock, StopSet, StopNotify, StopJoin, TypeOK, StopTypes
    <3> QED
      BY <2>b, <2>c, <2>d, <3>1, <3>2
  <2>6. ASSUME UNCHANGED vars
        PROVE  Kept /\ Calls /\ Hands
    BY <2>6, <2>b, <2>d DEF vars
  <2>7. Kept /\ Calls /\ Hands
    BY <1>4, <2>2, <2>3, <2>4, <2>5, <2>6 DEF Next, Producer, Handler, Cache
  <2> QED
    BY <2>1, <2>7, KeptStep DEF Calls, Hands
<1> QED
  BY <1>1, <1>2, <1>3, <1>4

\* The flag of a handler is up as long as the cache has its copyup.
LEMMA BarrierStep == TypeOK /\ PlaceInv /\ BarrierInv /\ [Next]_vars => BarrierInv'
<1> SUFFICES ASSUME TypeOK, PlaceInv, BarrierInv, [Next]_vars
             PROVE  BarrierInv'
  OBVIOUS
<1> USE DEF prodVars, queueVars, batchVars, cacheVars
<1>a. copyupFlag \in [Queues -> BOOLEAN] /\ inflight \subseteq Ops
  BY DEF TypeOK, HandlerTypes, CacheTypes
<1>1. ASSUME UNCHANGED <<executed, copyupFlag>>, inflight' \subseteq inflight
      PROVE  BarrierInv'
  BY <1>1 DEF BarrierInv, Unexecuted
<1>2. ASSUME NEW q \in Queues, DispatchOp(q)
      PROVE  BarrierInv'
  <2>1. /\ ~copyupFlag[q] /\ inflight' = inflight \cup {hop[q]} /\ executed' = executed
        /\ copyupFlag' = [copyupFlag EXCEPT ![q] = IsCopyup(hop[q])]
        /\ QueueOf(hop[q]) = q
    BY <1>2 DEF DispatchOp, CopyupDone, PlaceInv, TakenInv
  <2>2. \A c \in Ops : Unexecuted(c) => QueueOf(c) # q
    BY <2>1 DEF BarrierInv
  <2>3. \A c \in Ops : Unexecuted(c)' => (Unexecuted(c) \/ (c = hop[q] /\ IsCopyup(c)))
    BY <2>1 DEF Unexecuted
  <2>4. \A r \in Queues : r # q => copyupFlag'[r] = copyupFlag[r]
    BY <1>a, <2>1
  <2>5. IsCopyup(hop[q]) => copyupFlag'[q]
    BY <1>a, <2>1
  <2>6. ASSUME NEW c \in Ops, Unexecuted(c)'
        PROVE  copyupFlag'[QueueOf(c)]
    <3>1. CASE Unexecuted(c)
      BY <2>2, <2>4, <3>1, OpFacts DEF BarrierInv
    <3>2. CASE c = hop[q] /\ IsCopyup(c)
      BY <2>1, <2>5, <3>2
    <3> QED
      BY <2>3, <2>6, <3>1, <3>2
  <2>7. \A c, d \in Ops : Unexecuted(c)' /\ Unexecuted(d)' /\ QueueOf(c) = QueueOf(d) => c = d
    BY <2>1, <2>2, <2>3 DEF BarrierInv
  <2> QED
    BY <2>6, <2>7 DEF BarrierInv
<1>3. ASSUME NEW op \in Ops, ExecClass(op)
      PROVE  BarrierInv'
  <2>1. /\ Unexecuted(op) /\ executed' = executed \cup {op} /\ inflight' = inflight
        /\ copyupFlag' = copyupFlag \/ copyupFlag' = [copyupFlag EXCEPT ![QueueOf(op)] = FALSE]
    BY <1>3 DEF ExecClass, Unexecuted
  <2>2. \A c \in Ops : Unexecuted(c)' => Unexecuted(c) /\ c # op
    BY <2>1 DEF Unexecuted
  <2>3. \A r \in Queues : r # QueueOf(op) => copyupFlag'[r] = copyupFlag[r]
    BY <1>a, <2>1
  <2>4. ASSUME NEW c \in Ops, Unexecuted(c)'
        PROVE  copyupFlag'[QueueOf(c)]
    <3>1. Unexecuted(c) /\ QueueOf(c) # QueueOf(op)
      BY <2>1, <2>2, <2>4 DEF BarrierInv
    <3> QED
      BY <2>3, <3>1, OpFacts DEF BarrierInv
  <2> QED
    BY <2>2, <2>4 DEF BarrierInv
<1>4. ASSUME NEW p \in Producers, Producer(p)
      PROVE  BarrierInv'
  BY <1>1, <1>4 DEF Producer, Arrive, Block, Enqueue, LimitEnter, LimitLeave, SpuriousWakeup
<1>5. ASSUME NEW q \in Queues, Handler(q)
      PROVE  BarrierInv'
  BY <1>1, <1>2, <1>5 DEF Handler, HandlerLock, CheckFinish, Swap, HandlerWait,
                          HandlerSpuriousWakeup, ProcessOpReq
<1>6. ASSUME NEW op \in Ops, Cache(op)
      PROVE  BarrierInv'
  BY <1>1, <1>3, <1>6 DEF Cache, FinishCacheOps
<1>7. CASE OsaFinish \/ UNCHANGED vars
  BY <1>1, <1>7 DEF OsaFinish, Shutdown, JoinServer, StopLock, StopSet, StopNotify, StopJoin, vars
<1> QED
  BY <1>4, <1>5, <1>6, <1>7 DEF Next

LEMMA PlaceInit == Init => PlaceInv /\ BarrierInv /\ BatchDone
<1> SUFFICES ASSUME Init PROVE PlaceInv /\ BarrierInv /\ BatchDone
  OBVIOUS
<1>1. Range(<<>>) = {} /\ IsInjective(<<>>)
  BY DEF Range, IsInjective
<1>2. \A q \in Queues : Held[q] = <<>>
  BY ConcatEmptySeq DEF Init, Held
<1>3. ArrivalInv /\ CacheInv /\ AnswerInv /\ BarrierInv /\ BatchDone
  BY DEF Init, ArrivalInv, CacheInv, AnswerInv, BarrierInv, Unexecuted, BatchDone
<1>4. QueuedInv /\ TakenInv
  BY <1>1, <1>2 DEF Init, QueuedInv, TakenInv
<1> QED
  BY <1>3, <1>4 DEF PlaceInv

\* Where the ops are, in every reachable state.
THEOREM PlaceCorrect == Spec => [](TypeOK /\ BatchDone /\ PlaceInv /\ BarrierInv)
<1>1. TypeOK /\ BatchDone /\ [Next]_vars => BatchDone'
  BY BatchDoneStep
<1> QED
  BY <1>1, PlaceInit, PlaceStep, BarrierStep, TypeCorrect, PTL DEF Spec

\* No op is answered twice, or while it is queued or with the cache.
THEOREM OpsAnsweredOnce == Spec => []AnsweredOnce
<1>1. PlaceInv => AnsweredOnce
  BY DEF PlaceInv, AnswerInv, AnsweredOnce, Range
<1> QED
  BY <1>1, PlaceCorrect, PTL

\* Nothing that was queued behind a copyup reaches the cache before the cache
\* has executed the copyup.
THEOREM CopyupHoldsUp == Spec => CopyupBarrier
<1> DEFINE Barrier == \A op \in inflight' \ inflight : \A c \in inflight :
                        IsCopyup(c) /\ c \notin executed => QueueOf(c) # QueueOf(op)
<1>1. TypeOK /\ BatchDone /\ PlaceInv /\ BarrierInv /\ [Next]_vars => [Barrier]_vars
  <2> SUFFICES ASSUME TypeOK, PlaceInv, BarrierInv, [Next]_vars,
                      NEW op \in inflight' \ inflight, NEW c \in inflight,
                      IsCopyup(c), c \notin executed
               PROVE  QueueOf(c) # QueueOf(op)
    OBVIOUS
  <2>1. ASSUME NEW q \in Queues, DispatchOp(q)
        PROVE  QueueOf(c) # QueueOf(op)
    <3>1. op = hop[q] /\ QueueOf(op) = q /\ ~copyupFlag[q]
      BY <2>1 DEF DispatchOp, CopyupDone, PlaceInv, TakenInv
    <3>2. copyupFlag[QueueOf(c)]
      BY DEF BarrierInv, Unexecuted, TypeOK, CacheTypes
    <3> QED
      BY <3>1, <3>2
  <2>2. CASE inflight' \subseteq inflight
    BY <2>2
  <2> USE DEF cacheVars
  <2>3. ASSUME NEW p \in Producers, Producer(p)
        PROVE  inflight' \subseteq inflight
    BY <2>3 DEF Producer, Arrive, Block, Enqueue, LimitEnter, LimitLeave, SpuriousWakeup
  <2>4. ASSUME NEW q \in Queues, Handler(q), ~DispatchOp(q)
        PROVE  inflight' \subseteq inflight
    BY <2>4 DEF Handler, HandlerLock, CheckFinish, Swap, HandlerWait, HandlerSpuriousWakeup, ProcessOpReq
  <2>5. CASE (\E o \in Ops : Cache(o)) \/ OsaFinish \/ UNCHANGED vars
    BY <2>2, <2>5 DEF Cache, ExecClass, FinishCacheOps, OsaFinish, Shutdown, JoinServer, StopLock,
                      StopSet, StopNotify, StopJoin, vars
  <2> QED
    BY <2>1, <2>2, <2>3, <2>4, <2>5 DEF Next
<1> QED
  BY <1>1, PlaceCorrect, PTL DEF Spec, CopyupBarrier
-----------------------------------------------------------------------------
(* The request queues are FIFO queues.                                     *)

LEMMA FifoStep == TypeOK /\ BatchDone /\ PlaceInv /\ [Next]_vars => [Fifo!FifoNext]_(Fifo!fvars)
<1> SUFFICES ASSUME TypeOK, BatchDone, PlaceInv, [Next]_vars
             PROVE  Fifo!FifoNext \/ Fifo!fvars' = Fifo!fvars
  OBVIOUS
<1>1. ASSUME NEW p \in Producers, Enqueue(p)
      PROVE  Fifo!FifoNext
  <2>0. PICK op : op = cur[p]
    OBVIOUS
  <2>1. /\ op \in Ops /\ QueueOf(op) \in Queues /\ handled' = handled
        /\ \A r \in Queues : op \notin Range(Held[r]) /\ op \notin Range(handled[r])
        /\ Held' = [Held EXCEPT ![QueueOf(op)] = Append(@, op)]
    BY <1>1, <2>0, PutFacts
  <2>2. ASSUME NEW r \in Queues
        PROVE  op \notin Range(handled[r] \o Held[r])
    <3>1. handled[r] \in Seq(Ops) /\ Held[r] \in Seq(Ops)
      BY HeldFacts
    <3>2. Range(handled[r] \o Held[r]) = Range(handled[r]) \cup Range(Held[r])
      BY <3>1, RangeConcatenation
    <3> QED
      BY <2>1, <3>2
  <2>3. ~Fifo!Known(op)
    BY <2>2 DEF Fifo!Known, Range, Held
  <2>4. Fifo!Put(QueueOf(op), op)
    BY <2>1, <2>3 DEF Fifo!Put, Held
  <2> QED
    BY <2>1, <2>4 DEF Fifo!FifoNext
<1>2. ASSUME NEW q \in Queues, ProcessOpReq(q)
      PROVE  Fifo!FifoNext
  <2>0. PICK op : op = Head(dealQueue[q])
    OBVIOUS
  <2>1. /\ Held[q] # <<>> /\ Held' = [Held EXCEPT ![q] = Tail(@)]
        /\ handled' = [handled EXCEPT ![q] = Append(@, Head(Held[q]))]
    BY <1>2, <2>0, TakeFacts
  <2>2. Fifo!Take(q)
    BY <2>1 DEF Fifo!Take, Held
  <2> QED
    BY <2>2 DEF Fifo!FifoNext
<1>3. CASE (\A p \in Producers : ~Enqueue(p)) /\ (\A q \in Queues : ~ProcessOpReq(q))
  <2>1. Held' = Held /\ handled' = handled
    BY <1>3, HeldKept
  <2> QED
    BY <2>1 DEF Fifo!fvars, Held
<1> QED
  BY <1>1, <1>2, <1>3

\* A request queue and its handler's batch are together one FIFO queue: the
\* ops of an object are handled in the order in which they were enqueued.
THEOREM RequestQueuesAreFifo == Spec => ImplementsFifo
<1>1. Init => Fifo!FifoInit
  <2> SUFFICES ASSUME Init PROVE Fifo!FifoInit
    OBVIOUS
  <2>1. \A q \in Queues : dealQueue[q] \o reqQueue[q] = <<>>
    BY ConcatEmptySeq DEF Init
  <2> QED
    BY <2>1 DEF Init, Fifo!FifoInit
<1> QED
  BY <1>1, FifoStep, PlaceCorrect, PTL DEF Spec, ImplementsFifo, Fifo!FifoSpec
=============================================================================
