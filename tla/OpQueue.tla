------------------------------ MODULE OpQueue ------------------------------
(***************************************************************************)
(* The request path of the server adaptor (network_module.cpp,             *)
(* client_op_queue.h, sa_server_dispatcher.cpp, osa.cpp).                   *)
(*                                                                         *)
(* The dispatch thread of every messenger (a producer) puts client ops     *)
(* into the queue chosen by the hash of the object name.  One handler      *)
(* thread per queue swaps the whole queue out and works through the batch  *)
(* without the lock.  OSA_Finish stops the messengers and then the         *)
(* handlers.  The cache behind sa->DoOneOps runs the ops and answers them; *)
(* it is external and modelled by the calls it makes back (OSA_ExecClass,  *)
(* OSA_FinishCacheOps).                                                    *)
(*                                                                         *)
(* A step is what a thread does between two points where another thread    *)
(* can see or change what it uses: taking opQueueMutex, releasing it, a    *)
(* wait on a condition variable, an access to a flag no lock protects.     *)
(* The throttles between ProcessOpReq and DoOneOps are in OpThrottle.      *)
(***************************************************************************)
EXTENDS Naturals, Sequences, FiniteSets

CONSTANTS
  Producers,         \* dispatch threads, one per messenger (one per port)
  Port0,             \* the messenger whose wait() the server thread sits in
  QueueNum,          \* queue_amount
  QueueMaxCapacity,  \* queue_max_capacity
  Ops,               \* client ops (MOSDOp)
  Objects,           \* object names
  Obj, Via, Kind,    \* an op's object, its messenger and what it holds
  HasWrite,          \* the ops for which ContainWriteOp is true, of any kind
  Hash,              \* hash of the object name modulo queueNum
  LimitWrite,        \* qosParam.limitWrite
  MaxSpurious,       \* bound: spurious wakeups, all threads together
  NoOp, NoOwner

Queues == 1..QueueNum

\* What an op holds, as far as ProcessOpReq and OSA_ExecClass tell it apart:
\* shortName: "rbd_data" with fewer than 3 sections; poolOverflow: a pool id
\* beyond 32 bits; copyup: a call of rbd.copyup; copyupTrunc: one whose input
\* is shorter than its header says.
Kinds == {"plain", "copyup", "copyupTrunc", "shortName", "poolOverflow"}
IsCopyup(op) == Kind[op] \in {"copyup", "copyupTrunc"}

ASSUME ConstantsAssumption ==
  /\ IsFiniteSet(Producers) /\ Port0 \in Producers
  /\ QueueNum \in Nat \ {0} /\ QueueMaxCapacity \in Nat \ {0}
  /\ Obj \in [Ops -> Objects] /\ Via \in [Ops -> Producers] /\ Kind \in [Ops -> Kinds]
  /\ HasWrite \subseteq Ops
  /\ Hash \in [Objects -> Queues]
  /\ LimitWrite \in BOOLEAN /\ MaxSpurious \in Nat
  /\ NoOp \notin Ops /\ NoOwner \notin Producers \cup Queues

VARIABLES
  mutex,      \* opQueueMutex of each queue: a producer, the handler q, or NoOwner
  reqQueue, tsQueue, period,     \* the three parallel queues of ClientOpQueue
  pc, cur,    \* per producer: where it is in EnqueueClientop, and with which op
  limitMtx,   \* limitWriteMtx
  spurious,   \* spurious wakeups so far
  arrival,    \* history, per producer: ops delivered to ms_dispatch
  hpc, hop,   \* per handler: where it is, the op between ProcessOpReq and DoOneOps
  dealQueue, dealTs, periodTs,   \* its batch
  copyupFlag, \* its stack variable
  handled,    \* history, per queue: ops taken off the batch
  inflight,   \* ops given to DoOneOps and not yet finished
  executed,   \* copyups OSA_ExecClass has returned from
  replies,    \* replies sent per op
  mpc, mi, finishThread  \* OSA_Finish: where it is, its loop index; the stop flags

prodVars == <<pc, cur, limitMtx, spurious, arrival>>
queueVars == <<reqQueue, tsQueue, period>>
batchVars == <<dealQueue, dealTs, periodTs>>
cacheVars == <<inflight, executed, replies>>
stopVars == <<mpc, mi, finishThread>>
vars == <<mutex, queueVars, prodVars, hpc, hop, batchVars, copyupFlag, handled,
          cacheVars, stopVars>>

\* EnqueueClientop: the queue an op belongs to.
QueueOf(op) == Hash[Obj[op]]

\* Mutant: nobody is notified.
NotifyNobody(q) == hpc' = hpc

\* notify_all on condOpReq of q, where only the handler of q waits.
NotifyHandler(q) ==
  hpc' = [hpc EXCEPT ![q] = IF @ = "waiting" THEN "notified" ELSE @]

\* The producers inside cond.wait of queue q, and those notified there.
At(where, q) == {p \in Producers : pc[p] = where /\ QueueOf(cur[p]) = q}

\* notify_all on cond of q.
NotifyProducers(q) ==
  pc' = [p \in Producers |-> IF p \in At("waiting", q) THEN "notified" ELSE pc[p]]
-----------------------------------------------------------------------------
\* The dispatch threads of the messengers.

\* ms_dispatch gets an OSD_OP; pings and other messages change nothing here.
Arrive(p, op) ==
  /\ mpc = "run"
  /\ pc[p] = "idle" /\ Via[op] = p
  /\ \A i \in DOMAIN arrival[p] : arrival[p][i] # op
  /\ pc' = [pc EXCEPT ![p] = "lock"]
  /\ cur' = [cur EXCEPT ![p] = op]
  /\ arrival' = [arrival EXCEPT ![p] = Append(@, op)]
  /\ UNCHANGED <<mutex, queueVars, limitMtx, spurious, hpc, hop, batchVars, copyupFlag,
                 handled, cacheVars, stopVars>>

\* EnqueueClientop finds more than queueMaxCapacity ops and waits for space.
Block(p) ==
  LET q == QueueOf(cur[p]) IN
  /\ pc[p] = "lock" /\ mutex[q] = NoOwner
  /\ Len(reqQueue[q]) > QueueMaxCapacity
  /\ pc' = [pc EXCEPT ![p] = "waiting"]
  /\ UNCHANGED <<mutex, queueVars, cur, limitMtx, spurious, arrival, hpc, hop, batchVars,
                 copyupFlag, handled, cacheVars, stopVars>>

\* ClientOpQueue::EnQueue.
EnQueue(q, op) ==
  /\ reqQueue' = [reqQueue EXCEPT ![q] = Append(@, op)]
  /\ tsQueue' = [tsQueue EXCEPT ![q] = Append(@, op)]
  /\ period' = [period EXCEPT ![q] = Append(@, op)]
  /\ NotifyHandler(q)

\* Mutant: the capacity check is gone.
SpaceNotSeen(p) == pc[p] \in {"lock", "notified"}

\* May producer p, holding the lock, go on to EnQueue?  The size is looked at
\* once: a producer that has waited does not look again.
SpaceSeen(p) ==
  \/ pc[p] = "lock" /\ Len(reqQueue[QueueOf(cur[p])]) <= QueueMaxCapacity
  \/ pc[p] = "notified"

\* The rest of EnqueueClientop.  An op with a write, under QoS, keeps
\* opQueueMutex and goes on to LimitWrite; any other returns and releases it.
Enqueue(p) ==
  LET op == cur[p]
      q == QueueOf(op) IN
  /\ SpaceSeen(p) /\ mutex[q] = NoOwner
  /\ EnQueue(q, op)
  /\ IF LimitWrite /\ op \in HasWrite
     THEN /\ pc' = [pc EXCEPT ![p] = "limit"]
          /\ mutex' = [mutex EXCEPT ![q] = p]
          /\ UNCHANGED cur
     ELSE /\ pc' = [pc EXCEPT ![p] = "idle"]
          /\ cur' = [cur EXCEPT ![p] = NoOp]
          /\ UNCHANGED mutex
  /\ UNCHANGED <<limitMtx, spurious, arrival, hop, batchVars, copyupFlag, handled,
                 cacheVars, stopVars>>

\* LimitWrite: takes limitWriteMtx, sleeps with both locks for a time the
\* quota decides, and releases both.
LimitEnter(p) ==
  /\ pc[p] = "limit" /\ limitMtx = NoOwner
  /\ limitMtx' = p
  /\ pc' = [pc EXCEPT ![p] = "limited"]
  /\ UNCHANGED <<mutex, queueVars, cur, spurious, arrival, hpc, hop, batchVars, copyupFlag,
                 handled, cacheVars, stopVars>>

LimitLeave(p) ==
  /\ pc[p] = "limited"
  /\ limitMtx' = NoOwner
  /\ mutex' = [mutex EXCEPT ![QueueOf(cur[p])] = NoOwner]
  /\ pc' = [pc EXCEPT ![p] = "idle"]
  /\ cur' = [cur EXCEPT ![p] = NoOp]
  /\ UNCHANGED <<queueVars, spurious, arrival, hpc, hop, batchVars, copyupFlag, handled,
                 cacheVars, stopVars>>

\* std::condition_variable::wait may return without a notification.
SpuriousWakeup(p) ==
  /\ pc[p] = "waiting" /\ spurious < MaxSpurious
  /\ pc' = [pc EXCEPT ![p] = "notified"]
  /\ spurious' = spurious + 1
  /\ UNCHANGED <<mutex, queueVars, cur, limitMtx, arrival, hpc, hop, batchVars, copyupFlag,
                 handled, cacheVars, stopVars>>
-----------------------------------------------------------------------------
\* OpHandlerThread of queue q.

\* Mutant: back to the queue before the batch is done.
WantsLockEarly(q) == hpc[q] \in {"start", "notified", "process"}

\* opReqLock.lock(): at the start, when wait returns, and after a batch.
WantsLock(q) == \/ hpc[q] \in {"start", "notified"}
                \/ hpc[q] = "process" /\ dealQueue[q] = <<>>

HandlerLock(q) ==
  /\ WantsLock(q)
  /\ mutex[q] = NoOwner
  /\ mutex' = [mutex EXCEPT ![q] = q]
  /\ hpc' = [hpc EXCEPT ![q] = "check"]
  /\ UNCHANGED <<queueVars, prodVars, hop, batchVars, copyupFlag, handled, cacheVars, stopVars>>

\* while (!finishThread[threadId]): leaving the loop releases the lock.
CheckFinish(q) ==
  /\ hpc[q] = "check"
  /\ IF finishThread[q]
     THEN /\ hpc' = [hpc EXCEPT ![q] = "done"]
          /\ mutex' = [mutex EXCEPT ![q] = NoOwner]
     ELSE /\ hpc' = [hpc EXCEPT ![q] = "test"]
          /\ UNCHANGED mutex
  /\ UNCHANGED <<queueVars, prodVars, hop, batchVars, copyupFlag, handled, cacheVars, stopVars>>

\* The queue is not empty: swap the three queues with the (empty) batch,
\* notify the waiting producers, release the lock.
Swap(q) ==
  /\ hpc[q] = "test" /\ reqQueue[q] # <<>>
  /\ reqQueue' = [reqQueue EXCEPT ![q] = dealQueue[q]]
  /\ dealQueue' = [dealQueue EXCEPT ![q] = reqQueue[q]]
  /\ tsQueue' = [tsQueue EXCEPT ![q] = dealTs[q]]
  /\ dealTs' = [dealTs EXCEPT ![q] = tsQueue[q]]
  /\ period' = [period EXCEPT ![q] = periodTs[q]]
  /\ periodTs' = [periodTs EXCEPT ![q] = period[q]]
  /\ NotifyProducers(q)
  /\ mutex' = [mutex EXCEPT ![q] = NoOwner]
  /\ hpc' = [hpc EXCEPT ![q] = "process"]
  /\ UNCHANGED <<cur, limitMtx, spurious, arrival, hop, copyupFlag, handled, cacheVars, stopVars>>

\* The queue is empty: condOpReq.wait.
HandlerWait(q) ==
  /\ hpc[q] = "test" /\ reqQueue[q] = <<>>
  /\ hpc' = [hpc EXCEPT ![q] = "waiting"]
  /\ mutex' = [mutex EXCEPT ![q] = NoOwner]
  /\ UNCHANGED <<queueVars, prodVars, hop, batchVars, copyupFlag, handled, cacheVars, stopVars>>

HandlerSpuriousWakeup(q) ==
  /\ hpc[q] = "waiting" /\ spurious < MaxSpurious
  /\ hpc' = [hpc EXCEPT ![q] = "notified"]
  /\ spurious' = spurious + 1
  /\ UNCHANGED <<mutex, queueVars, pc, cur, limitMtx, arrival, hop, batchVars, copyupFlag,
                 handled, cacheVars, stopVars>>

\* Mutant: the short-name path falls through after its reply.
RejectedOverflowOnly(op) == Kind[op] = "poolOverflow"

\* The ops for which ProcessOpReq returns non-zero.
Rejected(op) == Kind[op] \in {"shortName", "poolOverflow"}

\* Mutant: a rejected op keeps its entry in periodTs.
PopUnlessRejected(q) ==
  /\ dealTs' = [dealTs EXCEPT ![q] = Tail(@)]
  /\ dealQueue' = [dealQueue EXCEPT ![q] = Tail(@)]
  /\ periodTs' = IF Rejected(Head(dealQueue[q])) THEN periodTs
                 ELSE [periodTs EXCEPT ![q] = Tail(@)]

\* The three pops at the head of the batch.
Pop(q) ==
  /\ dealTs' = [dealTs EXCEPT ![q] = Tail(@)]
  /\ dealQueue' = [dealQueue EXCEPT ![q] = Tail(@)]
  /\ periodTs' = [periodTs EXCEPT ![q] = Tail(@)]

\* One turn of the batch loop up to ProcessOpReq's return.  A short rbd_data
\* name is answered with -EINVAL, an overflowing pool id is dropped without
\* an answer; every other op goes on to DoOneOps.
ProcessOpReq(q) ==
  LET op == Head(dealQueue[q]) IN
  /\ hpc[q] = "process" /\ dealQueue[q] # <<>>
  /\ Pop(q)
  /\ handled' = [handled EXCEPT ![q] = Append(@, op)]
  /\ replies' = [replies EXCEPT ![op] = IF Kind[op] = "shortName" THEN @ + 1 ELSE @]
  /\ IF Rejected(op)
     THEN UNCHANGED <<hpc, hop>>
     ELSE /\ hpc' = [hpc EXCEPT ![q] = "dispatch"]
          /\ hop' = [hop EXCEPT ![q] = op]
  /\ UNCHANGED <<mutex, queueVars, prodVars, copyupFlag, inflight, executed, stopVars>>

\* Mutant: a copyup does not hold up what follows.
NoBarrier(q) == hpc[q] = "dispatch"

\* while (copyupFlag.load() == 1) usleep.
CopyupDone(q) == hpc[q] = "dispatch" /\ ~copyupFlag[q]

\* The rest of the turn, once the throttles have let the op through: wait
\* for the copyup before it, raise the flag for a copyup, DoOneOps.
DispatchOp(q) ==
  /\ CopyupDone(q)
  /\ copyupFlag' = [copyupFlag EXCEPT ![q] = IsCopyup(hop[q])]
  /\ inflight' = inflight \cup {hop[q]}
  /\ hop' = [hop EXCEPT ![q] = NoOp]
  /\ hpc' = [hpc EXCEPT ![q] = "process"]
  /\ UNCHANGED <<mutex, queueVars, prodVars, batchVars, handled, executed, replies, stopVars>>
-----------------------------------------------------------------------------
\* The cache behind DoOneOps (external) and its calls into the adaptor.

\* OSA_ExecClass of a copyup.  Input that cannot be decoded returns before
\* the flag is lowered.
ExecClass(op) ==
  /\ op \in inflight /\ IsCopyup(op) /\ op \notin executed
  /\ executed' = executed \cup {op}
  /\ copyupFlag' = IF Kind[op] = "copyup" THEN [copyupFlag EXCEPT ![QueueOf(op)] = FALSE]
                                          ELSE copyupFlag
  /\ UNCHANGED <<mutex, queueVars, prodVars, hpc, hop, batchVars, handled, inflight, replies,
                 stopVars>>

\* OSA_FinishCacheOps: the reply is sent.
FinishCacheOps(op) ==
  /\ op \in inflight /\ (IsCopyup(op) => op \in executed)
  /\ replies' = [replies EXCEPT ![op] = @ + 1]
  /\ inflight' = inflight \ {op}
  /\ UNCHANGED <<mutex, queueVars, prodVars, hpc, hop, batchVars, copyupFlag, handled, executed,
                 stopVars>>
-----------------------------------------------------------------------------
\* OSA_Finish.

\* FinishMessenger shuts every messenger down (no further ms_dispatch) ...
Shutdown ==
  /\ mpc = "run"
  /\ mpc' = "closing"
  /\ UNCHANGED <<mutex, queueVars, prodVars, hpc, hop, batchVars, copyupFlag, handled, cacheVars,
                 mi, finishThread>>

\* ... and joins the server thread, which waits for the first messenger only.
JoinServer ==
  /\ mpc = "closing" /\ pc[Port0] = "idle"
  /\ mpc' = "lock" /\ mi' = 1
  /\ UNCHANGED <<mutex, queueVars, prodVars, hpc, hop, batchVars, copyupFlag, handled, cacheVars,
                 finishThread>>

\* StopThread's first loop takes each opQueueMutex and releases it again ...
StopLock ==
  /\ mpc = "lock" /\ mutex[mi] = NoOwner
  /\ mpc' = "set"
  /\ UNCHANGED <<mutex, queueVars, prodVars, hpc, hop, batchVars, copyupFlag, handled, cacheVars,
                 mi, finishThread>>

\* One turn of a loop of StopThread over the queues.
Advance(loop, next) == IF mi < QueueNum THEN mi' = mi + 1 /\ mpc' = loop
                                        ELSE mi' = 1 /\ mpc' = next

\* ... before it raises the flag.
StopSet ==
  /\ mpc = "set"
  /\ finishThread' = [finishThread EXCEPT ![mi] = TRUE]
  /\ Advance("lock", "notify")
  /\ UNCHANGED <<mutex, queueVars, prodVars, hpc, hop, batchVars, copyupFlag, handled, cacheVars>>

StopNotify ==
  /\ mpc = "notify"
  /\ NotifyHandler(mi)
  /\ Advance("notify", "join")
  /\ UNCHANGED <<mutex, queueVars, prodVars, hop, batchVars, copyupFlag, handled, cacheVars,
                 finishThread>>

StopJoin ==
  /\ mpc = "join" /\ hpc[mi] = "done"
  /\ Advance("join", "stopped")
  /\ UNCHANGED <<mutex, queueVars, prodVars, hpc, hop, batchVars, copyupFlag, handled, cacheVars,
                 finishThread>>
-----------------------------------------------------------------------------
Init ==
  /\ mutex = [q \in Queues |-> NoOwner]
  /\ reqQueue = [q \in Queues |-> <<>>] /\ tsQueue = [q \in Queues |-> <<>>]
  /\ period = [q \in Queues |-> <<>>]
  /\ pc = [p \in Producers |-> "idle"] /\ cur = [p \in Producers |-> NoOp]
  /\ limitMtx = NoOwner /\ spurious = 0
  /\ arrival = [p \in Producers |-> <<>>]
  /\ hpc = [q \in Queues |-> "start"] /\ hop = [q \in Queues |-> NoOp]
  /\ dealQueue = [q \in Queues |-> <<>>] /\ dealTs = [q \in Queues |-> <<>>]
  /\ periodTs = [q \in Queues |-> <<>>]
  /\ copyupFlag = [q \in Queues |-> FALSE]
  /\ handled = [q \in Queues |-> <<>>]
  /\ inflight = {} /\ executed = {} /\ replies = [op \in Ops |-> 0]
  /\ mpc = "run" /\ mi = 1 /\ finishThread = [q \in Queues |-> FALSE]

Producer(p) == \/ \E op \in Ops : Arrive(p, op)
               \/ Block(p) \/ Enqueue(p) \/ LimitEnter(p) \/ LimitLeave(p)
               \/ SpuriousWakeup(p)

Handler(q) == \/ HandlerLock(q) \/ CheckFinish(q) \/ Swap(q) \/ HandlerWait(q)
              \/ HandlerSpuriousWakeup(q) \/ ProcessOpReq(q) \/ DispatchOp(q)

Cache(op) == ExecClass(op) \/ FinishCacheOps(op)

OsaFinish == Shutdown \/ JoinServer \/ StopLock \/ StopSet \/ StopNotify \/ StopJoin

Next == \/ \E p \in Producers : Producer(p)
        \/ \E q \in Queues : Handler(q)
        \/ \E op \in Ops : Cache(op)
        \/ OsaFinish

Spec == Init /\ [][Next]_vars

\* Every thread keeps running, the cache gets to each op, a quota is granted
\* in the end.  Clients, OSA_Finish and spurious wakeups are not obliged.
Fairness ==
  /\ \A p \in Producers : WF_vars(Enqueue(p) \/ Block(p) \/ LimitEnter(p) \/ LimitLeave(p))
  /\ \A q \in Queues : WF_vars(HandlerLock(q) \/ CheckFinish(q) \/ Swap(q) \/ HandlerWait(q)
                               \/ ProcessOpReq(q) \/ DispatchOp(q))
  /\ \A op \in Ops : WF_vars(Cache(op))
  /\ WF_vars(JoinServer \/ StopLock \/ StopSet \/ StopNotify \/ StopJoin)

FairSpec == Spec /\ Fairness
-----------------------------------------------------------------------------
Owners == Producers \cup Queues \cup {NoOwner}

QueueTypes ==
  /\ mutex \in [Queues -> Owners]
  /\ reqQueue \in [Queues -> Seq(Ops)]
  /\ tsQueue \in [Queues -> Seq(Ops)]
  /\ period \in [Queues -> Seq(Ops)]

ProducerTypes ==
  /\ pc \in [Producers -> {"idle", "lock", "waiting", "notified", "limit", "limited"}]
  /\ cur \in [Producers -> Ops \cup {NoOp}]
  /\ \A p \in Producers : pc[p] # "idle" => cur[p] \in Ops
  /\ limitMtx \in Owners
  /\ spurious \in 0..MaxSpurious
  /\ arrival \in [Producers -> Seq(Ops)]

HandlerTypes ==
  /\ hpc \in [Queues -> {"start", "check", "test", "waiting", "notified", "process",
                         "dispatch", "done"}]
  /\ hop \in [Queues -> Ops \cup {NoOp}]
  /\ \A q \in Queues : hpc[q] = "dispatch" => hop[q] \in Ops
  /\ copyupFlag \in [Queues -> BOOLEAN]

BatchTypes ==
  /\ dealQueue \in [Queues -> Seq(Ops)]
  /\ dealTs \in [Queues -> Seq(Ops)]
  /\ periodTs \in [Queues -> Seq(Ops)]
  /\ handled \in [Queues -> Seq(Ops)]

CacheTypes ==
  /\ inflight \subseteq Ops /\ executed \subseteq Ops
  /\ replies \in [Ops -> Nat]

StopTypes ==
  /\ mpc \in {"run", "closing", "lock", "set", "notify", "join", "stopped"}
  /\ mi \in Queues
  /\ finishThread \in [Queues -> BOOLEAN]

\* The types of the variables; a producer outside ms_dispatch has no op, a
\* handler about to call DoOneOps has one.
TypeOK == QueueTypes /\ ProducerTypes /\ HandlerTypes /\ BatchTypes /\ CacheTypes /\ StopTypes

\* The size check in EnqueueClientop is an "if" with ">", taken before the
\* wait and not after it.  The queue may therefore pass queueMaxCapacity, but
\* by no more than one op per messenger, plus one per spurious wakeup.
QueueBound == \A q \in Queues :
  Len(reqQueue[q]) <= QueueMaxCapacity + Cardinality(Producers) + spurious

\* The strengthening that makes QueueBound inductive: a producer that has been
\* notified will add an op without looking, and Swap hands back an empty batch.
NotifiedCounted == \A q \in Queues :
  Len(reqQueue[q]) + Cardinality(At("notified", q))
    <= QueueMaxCapacity + Cardinality(Producers) + spurious
BatchDone == \A q \in Queues : hpc[q] \notin {"process", "dispatch"} => dealQueue[q] = <<>>

\* reqQueue, tsQueue and period are three queues pushed, swapped and popped in
\* different functions; the time stamps at the head are always those of the
\* op at the head (a time stamp is written as the op it was taken for).
TimestampsAligned == \A q \in Queues :
  /\ tsQueue[q] = reqQueue[q] /\ period[q] = reqQueue[q]
  /\ dealTs[q] = dealQueue[q] /\ periodTs[q] = dealQueue[q]

\* No op is answered twice: not by the cache after ProcessOpReq has refused
\* it, and none is answered while it is still queued or with the cache.
AnsweredOnce == \A op \in Ops :
  /\ replies[op] <= 1
  /\ replies[op] = 1 => /\ op \notin inflight
                       /\ \E i \in DOMAIN handled[QueueOf(op)] : handled[QueueOf(op)][i] = op

\* While a copyup is with the cache and has not been executed, its handler
\* gives the cache no other op: what was queued behind the copyup must see
\* the object the copyup makes.
CopyupBarrier ==
  [][\A op \in inflight' \ inflight : \A c \in inflight :
       IsCopyup(c) /\ c \notin executed => QueueOf(c) # QueueOf(op)]_vars

\* The queue and the batch in the hands of the handler are together one FIFO.
Fifo == INSTANCE FifoQueues WITH
  waiting <- [q \in Queues |-> dealQueue[q] \o reqQueue[q]],
  taken <- handled
ImplementsFifo == Fifo!FifoSpec

\* A copyup that could not be decoded leaves its handler spinning.
Wedged(q) == copyupFlag[q] /\ ~\E c \in inflight : IsCopyup(c) /\ c \notin executed
                                                /\ QueueOf(c) = q

\* Every op a messenger delivers is answered.  The code excuses three cases:
\* a pool id out of range, an adaptor that is being stopped (what is queued
\* then is dropped) and a handler wedged by an undecodable copyup.
EveryOpAnswered == \A op \in Ops :
  cur[Via[op]] = op /\ Kind[op] # "poolOverflow" ~>
    \/ replies[op] = 1
    \/ mpc # "run"
    \/ Wedged(QueueOf(op))

\* OSA_Finish returns: StopThread's joins all succeed.
OsaFinishReturns == mpc = "closing" ~> mpc = "stopped"
=============================================================================
