----------------------------- MODULE IoWorkers -----------------------------
(***************************************************************************)
(* The path of an op through the ceph proxy: RadosWorker and RadosIOWorker *)
(* (RadosWorker.h, RadosWorker.cc), the table of io contexts               *)
(* (PoolContext.h, CephProxy.cc) and CephProxy::Shutdown.                  *)
(*                                                                         *)
(* Callers queue ops; the first op of a pool creates the pool's worker,    *)
(* whose thread swaps the queue out, gets the pool's io context and hands  *)
(* the ops to librados (external), which completes them.                   *)
(*                                                                         *)
(* ioworkerLock protects every field of a RadosIOWorker, so what a thread  *)
(* does between taking the lock and releasing it or waiting is one step.   *)
(* A worker is named after the op whose Queue call creates it, an io       *)
(* context after the op or the user for whom it is created: no call makes  *)
(* two.                                                                    *)
(***************************************************************************)
EXTENDS Naturals, Sequences, FiniteSets, FiniteSetsExt

CONSTANTS
  Ops,            \* ceph_proxy_op_t, each queued once
  CallerOf,       \* the thread that queues an op
  PoolNum,
  OpPool,         \* the pool of an op, or BadPool: negative
  Users,          \* calls of CephProxyGetIoCtx, ...GetIoCtx2, ...GetIoCtxFromCeph
  UserPool,
  UserTable,      \* the table a user's call looks at, or "ceph": none
  MaxCount,       \* IO_WORKER_QUEUE_MAX_COUNT
  Faults,         \* of "alloc", "thread", "ioctx", "aio": what may fail
  BadPool, None

Pools == 1..PoolNum
Workers == Ops
Getters == Workers \cup Users
Tables == {"name", "id"}   \* table1 and table2 of IOCtxTable

ASSUME IoAssumption ==
  /\ PoolNum \in Nat \ {0} /\ MaxCount \in Nat
  /\ BadPool \notin Pools /\ None \notin Ops \cup Users /\ Ops \cap Users = {}
  /\ OpPool \in [Ops -> Pools \cup {BadPool}]
  /\ UserPool \in [Users -> Pools] /\ UserTable \in [Users -> Tables \cup {"ceph"}]
  /\ Faults \subseteq {"alloc", "thread", "ioctx", "aio"}

VARIABLES
  call, target,   \* per op: where its Queue call is, the worker it found
  ioWorkers,      \* pool -> worker
  queue, ls,      \* per worker: Ops, the batch in the hands of the thread
  stop, running, emptyWait,
  pc, held,       \* per worker thread and user: where it is, the context it got
  table,          \* IOCtxTable
  released,       \* contexts deleted by RadosReleaseIoCtx
  handled,        \* history, per pool: ops taken off the batch
  inflight,       \* ops with librados
  completions,    \* calls of the completion's fn, per op
  mpc, mi         \* Shutdown: where it is, the pool its loop is at

callVars == <<call, target, ioWorkers>>
workerVars == <<queue, ls, stop, running, emptyWait>>
ctxVars == <<held, table, released>>
opVars == <<handled, inflight, completions>>
mainVars == <<mpc, mi>>
vars == <<callVars, workerVars, pc, ctxVars, opVars, mainVars>>

Step(g, where) == pc' = [pc EXCEPT ![g] = where]

\* Mutant: nobody is notified.
NotifyNoWorker(w) == UNCHANGED pc

\* notify_all on ioworkerCond, where only the worker's thread waits.
NotifyWorker(w) == Step(w, IF pc[w] = "waiting" THEN "notified" ELSE pc[w])
-----------------------------------------------------------------------------
\* RadosWorker::Queue.

\* The check of the pool id, then GetIOWorker under the shared lock.
Queue(op) ==
  /\ mpc = "up" /\ call[op] = "new"
  /\ \A o \in Ops : CallerOf[o] = CallerOf[op] => call[o] \notin {"create", "push"}
  /\ LET w == IF OpPool[op] = BadPool THEN None ELSE ioWorkers[OpPool[op]] IN
     /\ target' = [target EXCEPT ![op] = w]
     /\ call' = [call EXCEPT ![op] = IF OpPool[op] = BadPool THEN "refused"
                                     ELSE IF w = None THEN "create" ELSE "push"]
  /\ UNCHANGED <<ioWorkers, workerVars, pc, ctxVars, opVars, mainVars>>

\* Mutant: CreateIOWorker without the second look.
NobodyElse(pool) == TRUE

\* Under the exclusive lock there is still no worker for the pool.
NoWorkerYet(pool) == ioWorkers[pool] = None

\* CreateIOWorker.  If the thread cannot be created that is only logged.
CreateIOWorker(op) ==
  LET pool == OpPool[op] IN
  /\ call[op] = "create"
  /\ IF NoWorkerYet(pool)
     THEN \/ /\ \/ Step(op, "start")
                \/ "thread" \in Faults /\ Step(op, "nothread")
             /\ ioWorkers' = [ioWorkers EXCEPT ![pool] = op]
             /\ target' = [target EXCEPT ![op] = op]
             /\ call' = [call EXCEPT ![op] = "push"]
          \/ /\ "alloc" \in Faults
             /\ call' = [call EXCEPT ![op] = "refused"]
             /\ UNCHANGED <<ioWorkers, target, pc>>
     ELSE /\ target' = [target EXCEPT ![op] = ioWorkers[pool]]
          /\ call' = [call EXCEPT ![op] = "push"]
          /\ UNCHANGED <<ioWorkers, pc>>
  /\ UNCHANGED <<workerVars, ctxVars, opVars, mainVars>>

\* Mutant: no limit.
NeverFull(w) == FALSE

\* Ops.size() > IO_WORKER_QUEUE_MAX_COUNT: the queue takes one more than that.
Full(w) == Len(queue[w]) > MaxCount

\* RadosIOWorker::Queue: the thread is notified only if the queue was empty.
Push(op) ==
  LET w == target[op] IN
  /\ call[op] = "push"
  /\ IF Full(w)
     THEN /\ call' = [call EXCEPT ![op] = "refused"]
          /\ UNCHANGED <<queue, pc>>
     ELSE /\ IF queue[w] = <<>> THEN NotifyWorker(w) ELSE UNCHANGED pc
          /\ queue' = [queue EXCEPT ![w] = Append(@, op)]
          /\ call' = [call EXCEPT ![op] = "accepted"]
  /\ UNCHANGED <<target, ioWorkers, ls, stop, running, emptyWait, ctxVars, opVars, mainVars>>
-----------------------------------------------------------------------------
\* RadosIOWorker::OpHandler.

\* notify_all on ioworkerEmptyCond, where only Shutdown waits.
NotifyEmpty(w) ==
  mpc' = IF mpc = "emptyWait" /\ ioWorkers[mi] = w THEN "empty" ELSE mpc

\* There are ops: swap them into ls and release the lock.
SwapIn(w) ==
  /\ queue[w] # <<>>
  /\ ls' = [ls EXCEPT ![w] = queue[w]]
  /\ queue' = [queue EXCEPT ![w] = <<>>]
  /\ running' = [running EXCEPT ![w] = TRUE]
  /\ Step(w, "lookup")
  /\ UNCHANGED <<stop, mpc>>

\* The loop is left.
Exit(w) ==
  /\ NotifyEmpty(w)
  /\ stop' = [stop EXCEPT ![w] = FALSE]
  /\ Step(w, "done")

\* Mutant: a thread that runs out of ops tells nobody.
WaitQuietly(w) ==
  /\ queue[w] = <<>>
  /\ running' = [running EXCEPT ![w] = FALSE]
  /\ IF stop[w] THEN Exit(w)
     ELSE /\ Step(w, "waiting")
          /\ UNCHANGED <<stop, mpc>>
  /\ UNCHANGED <<queue, ls>>

\* There are none: tell WaitForEmpty, then leave or wait.
RunDry(w) ==
  /\ queue[w] = <<>>
  /\ running' = [running EXCEPT ![w] = FALSE]
  /\ IF stop[w] THEN Exit(w)
     ELSE /\ IF emptyWait[w] THEN NotifyEmpty(w) ELSE UNCHANGED mpc
          /\ Step(w, "waiting")
          /\ UNCHANGED stop
  /\ UNCHANGED <<queue, ls>>

\* The thread takes the lock at its start and when a wait ends, looks at the
\* stop flag first ...
Wake(w) ==
  /\ pc[w] \in {"start", "notified"}
  /\ IF stop[w] THEN Exit(w) /\ UNCHANGED <<queue, ls, running>>
                ELSE SwapIn(w) \/ RunDry(w)
  /\ UNCHANGED <<callVars, emptyWait, ctxVars, opVars, mi>>

\* ... and after a batch, where the queue comes first.
Relock(w) ==
  /\ pc[w] = "lookup" /\ w \in Workers /\ ls[w] = <<>>
  /\ SwapIn(w) \/ RunDry(w)
  /\ UNCHANGED <<callVars, emptyWait, ctxVars, opVars, mi>>

SpuriousWakeup(w) ==
  /\ pc[w] = "waiting"
  /\ Step(w, "notified")
  /\ UNCHANGED <<callVars, workerVars, ctxVars, opVars, mainVars>>
-----------------------------------------------------------------------------
\* GetIoCtx2 for the op at the head of a batch, and GetIoCtx2, GetIoCtx or
\* GetIoCtxFromCeph for a user.  The spin lock covers one look at the table or
\* one insertion; GetIoCtxFromCeph makes neither.

TableOf(g) == IF g \in Users THEN UserTable[g] ELSE "id"
PoolOf(g) == IF g \in Users THEN UserPool[g] ELSE OpPool[g]

UserCall(u) ==
  /\ mpc = "up" /\ pc[u] = "idle"
  /\ Step(u, IF UserTable[u] = "ceph" THEN "make" ELSE "lookup")
  /\ UNCHANGED <<callVars, workerVars, ctxVars, opVars, mainVars>>

\* IOCtxTable::GetIoCtx.
Lookup(g) ==
  LET c == table[TableOf(g)][PoolOf(g)] IN
  /\ pc[g] = "lookup" /\ (g \in Workers => ls[g] # <<>>)
  /\ held' = [held EXCEPT ![g] = c]
  /\ Step(g, IF c = None THEN "make" ELSE "use")
  /\ UNCHANGED <<callVars, workerVars, table, released, opVars, mainVars>>

\* Mutant: GetIoCtxFromCeph keeps its context for GetIoCtx2, as that does.
AlwaysKept(g) == TRUE

\* The context that was made for g goes into a table.
Kept(g) == TableOf(g) \in Tables

\* RadosCreateIoCtx, RadosCreateIoCtx2.
CreateIoCtx(g) ==
  /\ pc[g] = "make"
  /\ held' = [held EXCEPT ![g] = IF g \in Workers THEN Head(ls[g]) ELSE g]
  /\ Step(g, IF Kept(g) THEN "insert" ELSE "use")
  /\ UNCHANGED <<callVars, workerVars, table, released, opVars, mainVars>>

\* IOCtxTable::Insert.  By name it replaces what is there, by id it does not;
\* the caller goes on with its own context in both cases.
Insert(g) ==
  LET t == IF TableOf(g) = "name" THEN "name" ELSE "id"
      p == PoolOf(g) IN
  table' = [table EXCEPT ![t][p] = IF t = "name" \/ @ = None THEN held[g] ELSE @]

InsertIoCtx(g) ==
  /\ pc[g] = "insert"
  /\ Insert(g)
  /\ Step(g, "use")
  /\ UNCHANGED <<callVars, workerVars, held, released, opVars, mainVars>>

\* A user is told there is no context.
UserFails(u) ==
  /\ "ioctx" \in Faults /\ pc[u] = "make"
  /\ Step(u, "idle")
  /\ UNCHANGED <<callVars, workerVars, ctxVars, opVars, mainVars>>

\* CephProxyReleaseIoCtx deletes the context, whoever else has it; the table
\* is not told.
ReleaseIoCtx(u) ==
  /\ mpc = "up" /\ pc[u] = "use"
  /\ released' = released \cup ({held[u]} \ {None})
  /\ Step(u, "gone")
  /\ UNCHANGED <<callVars, workerVars, held, table, opVars, mainVars>>

\* The thread is done with the op at the head of its batch.
NextOp(w) ==
  LET op == Head(ls[w]) IN
  /\ ls' = [ls EXCEPT ![w] = Tail(@)]
  /\ handled' = [handled EXCEPT ![PoolOf(w)] = Append(@, op)]
  /\ held' = [held EXCEPT ![w] = None]
  /\ Step(w, "lookup")
  /\ UNCHANGED <<callVars, queue, stop, running, emptyWait, table, released, mainVars>>

\* Mutant: the op is handed to librados although its completion was called.
FailAndSubmit(w) ==
  /\ completions' = [completions EXCEPT ![Head(ls[w])] = @ + 1]
  /\ inflight' = inflight \cup {Head(ls[w])}

\* c->fn(ret, c->cbArg); continue.
Fail(w) ==
  /\ completions' = [completions EXCEPT ![Head(ls[w])] = @ + 1]
  /\ UNCHANGED inflight

\* No context, or RadosOperationAioOperate < 0: the thread completes the op.
FailOp(w) ==
  /\ \/ pc[w] = "make" /\ "ioctx" \in Faults
     \/ pc[w] = "use" /\ "aio" \in Faults
  /\ Fail(w)
  /\ NextOp(w)

\* RadosOperationAioOperate.
AioOperate(w) ==
  /\ pc[w] = "use"
  /\ inflight' = inflight \cup {Head(ls[w])}
  /\ UNCHANGED completions
  /\ NextOp(w)

\* librados calls ReadCallback or WriteCallback, which calls fn.
Callback(op) ==
  /\ op \in inflight /\ mpc # "down"
  /\ completions' = [completions EXCEPT ![op] = @ + 1]
  /\ inflight' = inflight \ {op}
  /\ UNCHANGED <<callVars, workerVars, pc, ctxVars, handled, mainVars>>
-----------------------------------------------------------------------------
\* CephProxy::Shutdown.  The client makes no call at the same time.

\* The first pool after i that has a worker, in the order of std::map.
FromPool(i) ==
  LET rest == {p \in Pools : p > i /\ ioWorkers[p] # None} IN
  IF rest = {} THEN mpc' = "clear" /\ mi' = mi /\ ioWorkers' = [p \in Pools |-> None]
               ELSE mpc' = "empty" /\ mi' = Min(rest) /\ UNCHANGED ioWorkers

Shutdown ==
  /\ mpc = "up"
  /\ \A op \in Ops : call[op] \notin {"create", "push"}
  /\ \A u \in Users : pc[u] \in {"idle", "use", "gone"}
  /\ FromPool(0)
  /\ UNCHANGED <<call, target, workerVars, pc, ctxVars, opVars>>

\* Mutant: only the thread's batch is waited for.
BatchOnly(w) == running[w]

\* The loop condition of WaitForEmpty.
Busy(w) == queue[w] # <<>> \/ running[w]

\* One turn of WaitForEmpty, with the lock.
WaitForEmpty ==
  LET w == ioWorkers[mi] IN
  /\ mpc = "empty"
  /\ emptyWait' = [emptyWait EXCEPT ![w] = Busy(w)]
  /\ mpc' = IF Busy(w) THEN "emptyWait" ELSE "stopProc"
  /\ UNCHANGED <<callVars, queue, ls, stop, running, pc, ctxVars, opVars, mi>>

SpuriousEmpty ==
  /\ mpc = "emptyWait" /\ mpc' = "empty"
  /\ UNCHANGED <<callVars, workerVars, pc, ctxVars, opVars, mi>>

StopProc ==
  LET w == ioWorkers[mi] IN
  /\ mpc = "stopProc"
  /\ stop' = [stop EXCEPT ![w] = TRUE]
  /\ NotifyWorker(w)
  /\ mpc' = "join"
  /\ UNCHANGED <<callVars, queue, ls, running, emptyWait, ctxVars, opVars, mi>>

\* pthread_join returns.
Joined(w) == pc[w] \in {"done", "nothread"}

\* Join and delete; after the last worker ioWorkers.clear().
Join ==
  /\ mpc = "join" /\ Joined(ioWorkers[mi])
  /\ FromPool(mi)
  /\ UNCHANGED <<call, target, workerVars, pc, ctxVars, opVars>>

\* IOCtxTable::Clear.
Clear ==
  /\ mpc = "clear" /\ mpc' = "closing"
  /\ released' = released \cup ({table[t][p] : t \in Tables, p \in Pools} \ {None})
  /\ table' = [t \in Tables |-> [p \in Pools |-> None]]
  /\ UNCHANGED <<callVars, workerVars, pc, held, opVars, mi>>

\* RadosClientShutdown does not wait for what is in flight.
ClientShutdown ==
  /\ mpc = "closing" /\ mpc' = "down"
  /\ UNCHANGED <<callVars, workerVars, pc, ctxVars, opVars, mi>>
-----------------------------------------------------------------------------
\* The proxy as CephProxy::Init leaves it.
Init ==
  /\ call = [op \in Ops |-> "new"] /\ target = [op \in Ops |-> None]
  /\ ioWorkers = [p \in Pools |-> None]
  /\ queue = [w \in Workers |-> <<>>] /\ ls = [w \in Workers |-> <<>>]
  /\ stop = [w \in Workers |-> FALSE] /\ running = [w \in Workers |-> FALSE]
  /\ emptyWait = [w \in Workers |-> FALSE]
  /\ pc = [g \in Getters |-> IF g \in Users THEN "idle" ELSE "none"]
  /\ held = [g \in Getters |-> None]
  /\ table = [t \in Tables |-> [p \in Pools |-> None]] /\ released = {}
  /\ handled = [p \in Pools |-> <<>>] /\ inflight = {}
  /\ completions = [op \in Ops |-> 0]
  /\ mpc = "up" /\ mi = 1

GetIoCtx(g) == Lookup(g) \/ CreateIoCtx(g) \/ InsertIoCtx(g)
Worker(w) == Wake(w) \/ Relock(w) \/ GetIoCtx(w) \/ FailOp(w) \/ AioOperate(w)
Finishing == WaitForEmpty \/ StopProc \/ Join \/ Clear \/ ClientShutdown

Next ==
  \/ \E op \in Ops : Queue(op) \/ CreateIOWorker(op) \/ Push(op) \/ Callback(op)
  \/ \E w \in Workers : Worker(w) \/ SpuriousWakeup(w)
  \/ \E u \in Users : UserCall(u) \/ GetIoCtx(u) \/ UserFails(u) \/ ReleaseIoCtx(u)
  \/ Shutdown \/ Finishing \/ SpuriousEmpty

Spec == Init /\ [][Next]_vars

\* Threads run, librados completes what it has, and Shutdown, once called,
\* goes on; nobody has to queue an op, to call Shutdown or to wake up early.
Fairness ==
  /\ \A op \in Ops : WF_vars(CreateIOWorker(op) \/ Push(op)) /\ WF_vars(Callback(op))
  /\ \A w \in Workers : WF_vars(Worker(w))
  /\ WF_vars(Finishing)

FairSpec == Spec /\ Fairness
-----------------------------------------------------------------------------
CallTypes ==
  /\ call \in [Ops -> {"new", "create", "push", "accepted", "refused"}]
  /\ target \in [Ops -> Workers \cup {None}]
  /\ ioWorkers \in [Pools -> Workers \cup {None}]
WorkerTypes ==
  /\ queue \in [Workers -> Seq(Ops)] /\ ls \in [Workers -> Seq(Ops)]
  /\ stop \in [Workers -> BOOLEAN] /\ running \in [Workers -> BOOLEAN]
  /\ emptyWait \in [Workers -> BOOLEAN]
PcTypes ==
  /\ pc \in [Getters -> {"idle", "none", "nothread", "start", "waiting", "notified",
                         "lookup", "make", "insert", "use", "gone", "done"}]
  /\ \A w \in Workers : pc[w] \notin {"idle", "gone"}
  /\ \A u \in Users : pc[u] \in {"idle", "lookup", "make", "insert", "use", "gone"}
CtxTypes ==
  /\ held \in [Getters -> Getters \cup {None}]
  /\ table \in [Tables -> [Pools -> Getters \cup {None}]]
  /\ released \subseteq Getters
OpTypes ==
  /\ handled \in [Pools -> Seq(Ops)] /\ inflight \subseteq Ops
  /\ completions \in [Ops -> Nat]
MainTypes ==
  /\ mpc \in {"up", "empty", "emptyWait", "stopProc", "join", "clear", "closing", "down"}
  /\ mi \in Pools

\* The types of the variables, and the length of the workers' queues.
TypeOK ==
  /\ \A w \in Workers : Len(queue[w]) <= MaxCount + 1
  /\ CallTypes /\ WorkerTypes /\ PcTypes /\ CtxTypes /\ OpTypes /\ MainTypes

\* An op's completion is called at most once, by the worker thread or by
\* librados, never while librados still has the op, and never for an op whose
\* Queue call returned an error: that op is still the caller's.
CompletedOnce == \A op \in Ops :
  /\ completions[op] <= IF op \in inflight THEN 0 ELSE 1
  /\ call[op] # "accepted" => completions[op] = 0

\* The ops of one pool reach librados in the order in which Queue accepted
\* them, whichever callers and however many of them raced to create the
\* pool's worker.
Fifo == INSTANCE FifoQueues WITH
  Queues <- Pools,
  waiting <- [p \in Pools |-> IF ioWorkers[p] = None THEN <<>>
                              ELSE ls[ioWorkers[p]] \o queue[ioWorkers[p]]],
  taken <- handled
PoolFifo == Fifo!FifoSpec

\* Once Shutdown is through with the workers, every accepted op has been
\* handed on, although the stop flag makes a thread leave without a look at
\* its queue.
NothingLeftBehind == mpc \in {"clear", "closing", "down"} =>
  \A op \in Ops : call[op] = "accepted" =>
    \E i \in DOMAIN handled[OpPool[op]] : handled[OpPool[op]][i] = op

\* The contexts that a user got from a table, where they stay, and released.
Shared == {held[u] : u \in {v \in Users : pc[v] = "gone" /\ UserTable[v] # "ceph"}}

\* No thread, no table and, while the proxy is up, no user has a context that
\* was deleted, but for one a user released that had it from a table.  A user
\* of GetIoCtxFromCeph may release its context at any time: nobody else ever
\* meets it.  No context is in two places of the tables, so Clear deletes each
\* once, and none a second time but for those.
ContextLive ==
  /\ \A w \in Workers : pc[w] \in {"insert", "use"} => held[w] \notin released \ Shared
  /\ \A t \in Tables, p \in Pools :
       /\ table[t][p] \notin released \ Shared
       /\ \A s \in Tables, q \in Pools :
            table[s][q] = table[t][p] /\ table[t][p] # None => s = t /\ q = p
  /\ mpc = "up" => \A u \in Users : pc[u] \in {"insert", "use"} => held[u] \notin released \ Shared

\* The workers whose pthread_create failed: they take ops all the same.
Threadless == {w \in Workers : pc[w] = "nothread"}

\* Every accepted op is completed, unless its worker never got a thread or the
\* proxy is shut down while librados has the op.
EveryOpCompleted == \A op \in Ops :
  call[op] = "accepted" ~> \/ completions[op] = 1
                           \/ mpc = "down" /\ op \in inflight
                           \/ target[op] \in Threadless

\* CephProxy::Shutdown returns if every worker it waits for has a thread.
ShutdownReturns == mpc # "up" ~> mpc = "down" \/ Threadless # {}
=============================================================================
