# A TLA+ model of the Ceph global cache adaptor

The adaptor sits between Ceph clients and a global cache that is linked in as a
library. Its **server adaptor** (`src/src/server_adaptor`) takes OSD ops from
Ceph messengers, queues them, throttles them, gives them to the cache and sends
the replies. Its **ceph proxy** (`src/src/ceph_proxy`) is the way back: the
cache uses it to read and write RADOS pools, to watch them and to look at rbd
images.

The modules here are translated from that code. TLC checks them on small
instances; TLAPS proves every safety property of the runs, for every instance. `PROJECT.json` maps
every definition to the lines it models.

## 1. The system

| Part | State | Operations | What is hard |
|---|---|---|---|
| Op queues and handler threads (`network_module.cpp`, `client_op_queue.h`, `sa_server_dispatcher.cpp`) | per queue: three parallel lists (request, time stamp, period), a mutex, two condition variables, a batch, `copyupFlag` | `ms_dispatch`, `EnqueueClientop`, `OpHandlerThread`, `ProcessOpReq`, `StopThread` | messengers, handlers, cache threads and `OSA_Finish` interleave; some flags have no lock; bounded queue; order per object |
| Op throttles (`network_module.cpp`) | `lwtCount`, `lwtWriteCount`, `lwtReadCount`, `writeBW`, `readBW`, unsigned 64 bit | `Get…Cas` by a handler, `Put…Cas` in `FinishCacheOps` | compare-and-swap races, wrap-around, throttles that change while ops are counted, polling for ever |
| Write QoS (`LimitWrite`) | quota, cycle, bandwidth, `limitWriteMtx` | once per queued write | sleeps while it holds two locks |
| Copyup and class execution (`osa.cpp`) | `copyupFlag` of the handler that waits | `OSA_ExecClass` from a cache thread | a barrier raised by one thread and lowered by another |
| Class API (`class_api.cc`) | the client's message, whose ops a call borrows | `cls_*` calls of a class method | swap and swap back on every path; encoders and decoders that must agree |
| Start and stop (`osa.cpp`) | the singletons, the server thread | `OSA_Init`, `OSA_Finish` | a handshake through a stack variable, joins, late callbacks |
| Op conversion and reply encoding (`msg_module.cpp`, `network_module.cpp`) | none | MOSDOp to a cache request; what the cache found into the op's output | empty keys and values |
| Class handler (`ClassHandler.cc`) | table of classes and their states | open, load, register, shut down | recursive loading that may fail anywhere and is retried |
| Pool workers (`RadosWorker.*`) | pool to worker; per worker a queue, a batch, `stop`, `running`, `emptyWait` | `Queue`, `CreateIOWorker`, `OpHandler`, `WaitForEmpty`, `StopProc`, `Stop` | racing creators, lost wakeups, stopping without loss |
| Io contexts (`PoolContext.h`, `CephProxy.cc`) | two tables, by name and by id | `GetIoCtx`, `Insert`, `Clear`, `CephProxyReleaseIoCtx` | look, create and insert are three steps; a user may delete what a table holds |
| Rados wrapper (`RadosWrapper.cc`, `CephProxyOp.h`, `sgl.h`) | an op with its buffer list, its slots for results, its librados op | build, submit, call back, release | which thread completes an op; scatter and gather of buffers; release inside the callback |
| Rbd calls (`RbdWrapper.cc`) | `gProxyCtx`: one client, `init_flag`, `ref`, a shared mutex | `RadosInit`, `RadosShutdown`, `CephLibrbd*` | double-checked connection, a count changed under a shared lock |
| Pool monitor, CCM adaptor (`RadosMonitor.cc`, `CcmAdaptor.cc`) | `poolInfoMap`, what a round collects (`poolList`, `tmpPoolInfoMap`), `globalStripeSize`, a report function | rounds by `Start` and by a timer, `RegisterPoolNewNotifyFn`, `Stop`, look-ups | a round that fails half way, pools that go while it runs |
| Configuration, logs, tracing | values read once | – | – |

Calls go: messenger → `ms_dispatch` → queue → handler → throttles → cache
(`DoOneOps`) → `OSA_ExecClass` / `OSA_FinishCacheOps` from cache threads →
reply. In the other direction: cache → `CephProxyQueueOp` → pool worker →
librados → callback.

### What makes each part correct

* **Queues**: every queue with the batch of its handler is a FIFO; ops on one
  object keep their order; nothing is lost, doubled or answered twice; the
  three lists stay in step; the queue is bounded although the capacity test is
  made once and with `>`; nothing overtakes a copyup; every op is answered;
  `OSA_Finish` returns.
* **Start and stop**: an `OSA_Init` that returned 0 has every port bound; the
  server thread does not write into a frame that is gone, a class call does not
  meet a missing handler, `OSA_Finish` leaves nothing behind and gets past its
  join.
* **Class handler**: a class is open only above open dependencies, each library
  is loaded and initialised once, and every call returns, whatever failed.
* **Class API**: a call gives the method what the object holds and gives the
  client's message back as it was; a copyup overwrites no data.
* **Throttles**: what is added is taken away, whatever happens in between; the
  number of ops and bytes past a throttle is bounded; nobody polls for ever but
  handlers that fill a counter by themselves.
* **Pool workers**: one worker per pool, FIFO, one completion per accepted op,
  nothing accepted is left in a queue by `Shutdown`, and `Shutdown` returns.
* **Io contexts**: nobody is given one that has been released, unless a user
  released it that had it from a table.
* **Ops to RADOS**: librados gets what the user asked for, the bytes come back
  to where they belong and nowhere else, nobody touches an op after its release.
  A call the builder ignored is the user's to avoid.
* **Rbd client**: it is up while somebody has it, is never left connected when
  nobody has, and every call returns.
* **Pool monitor**: what callers are told of a pool is what the last completed
  round saw; failed rounds take nothing away; deleted pools are forgotten; every
  pool is reported; `Stop` returns.

## 2. The modules

| Module | Models |
|---|---|
| `FifoQueues` | abstract: a family of FIFO queues. Both queue modules implement it |
| `OpQueue` | queues, handlers, copyup barrier, `OSA_Finish` |
| `OpThrottle` | throttles and `FinishCacheOps` |
| `ClassHandler` | the table of classes and the loader |
| `Adaptor` | start-up, server thread and shut-down, composed with `ClassHandler` |
| `ClassApi` | class methods, copyup, the encoders and decoders between them and the cache |
| `IoWorkers` | pool workers, io contexts, `CephProxy::Shutdown` |
| `RadosOp` | one op to RADOS from its building to its release |
| `RbdClient` | the shared client of the rbd calls |
| `PoolMonitor` | the rounds of the pool monitor and their report |
| `MC…` | the values of the constants for TLC |
| `OpQueueProofs`, `OpThrottleProofs`, `AdaptorProofs`, `ClassApiProofs`, `IoWorkersProofs`, `RadosOpProofs`, `RbdClientProofs`, `PoolMonitorProofs` | the theorems about the module of that name (section 4) |

### OpQueue

One action is what a thread does between two points at which another thread
can see or change what it uses.

* A messenger's dispatch thread (`Producer`): `Arrive` is `ms_dispatch`;
  `Block` the wait for space; `Enqueue` the rest of `EnqueueClientop`;
  `LimitEnter` and `LimitLeave` are `LimitWrite`, which runs with
  `opQueueMutex` still held. `SpaceSeen` shows that a producer that has waited
  does not look at the size again.
* A handler: `HandlerLock`, `CheckFinish` (the loop condition), `Swap` or
  `HandlerWait`, then for each op of the batch `ProcessOpReq` and `DispatchOp`.
  `CheckFinish` and the test of the queue are two steps because `finishThread`
  is written without the lock.
* The cache is external: it calls `ExecClass` for a copyup and `FinishCacheOps`
  for everything.
* `OSA_Finish`: `Shutdown`, `JoinServer`, and the loops of `StopThread`
  (`StopLock`, `StopSet`, `StopNotify`, `StopJoin`). `StopLock` takes the lock
  and releases it before `StopSet`, as the scope of the `unique_lock` does.

Data is abstracted to what decides an op's path: `Kind` (an ordinary op; a
copyup, decodable or not; a name that is refused; a pool id that overflows),
whether its message contains a write (`HasWrite`), its object and its messenger. A time stamp is written as the op
for which it was taken, which makes a misaligned list visible. The histories
`arrival`, `handled` and `replies` are for the properties only.

### OpThrottle

The variable is the `stage` of each op; a step is one atomic access. `Getting`
lists the stages in the handler, `Putting` those in `FinishCacheOps`. A handler
has one op at a time (`InHandler`). The compare-and-swap loop is one step and
the check before it another, so that a counter can change in between. `Width`
stands for 2^64: counters wrap at it. A throttle of the cache is a *set* of
answers, one of which is given at each call. A refused (`shortName`) op calls
`FinishCacheOps` with option type 0 and thereby `PutlwtCas` only. The cache is
assumed to return the option type and length of an op unchanged.

A handler that sleeps in a `Get` function is in the counter it polls. `PollsItself`
says that the sleeping handlers alone fill that counter: more handlers than
`saOpThrottle`, or an op longer than a bandwidth throttle, and the code polls for
ever. Both are legal configurations. `Roomy` says when they cannot occur: every
throttle that is on leaves room for one op of each handler.

### ClassHandler and Adaptor

`Adaptor` extends `ClassHandler`: the table, the loader and the threads that go
through it are one part of its state, `OSA_Init`, the server thread and
`OSA_Finish` the other. Their steps are joined in four places: `RpcHandler`
makes the handler and enters `rpc_init`'s first `open_class`, `RpcInitDone`
waits for the last, `FinishDrop` ends the handler, and `ClassCall` starts a
class call if a messenger serves.

`_load_class` is recursive and runs under one mutex, so its calls are a `stack`
of classes, and `step` is where the innermost one stands: `enter` (already open?
needs a `dlopen`?), `resolve` (the missing dependencies, each a push), `init`
and `return` (`DependencyReturns` pops, `OpenReturns` releases the mutex). Every
`dlopen` may fail. A class that failed for a dependency keeps its handle and its
`missing` set and goes on from there at the next call. `class_deps` is the
constant `Deps`, without a cycle (`Acyclic`): with one, `_load_class` would not
return. Methods are abstracted to whether `__cls_init` has run.

`ctl` is where the main thread stands. `bind` is `bindSuccess` and `frame` says
whether the variable still exists: a `Report` after `InitTimeout` is a write to
a stack frame that is gone (`stray`). Until `RpcHandler` has run, a class call
ends the process (`pc` is `"null"`). `FinishDrop` waits until no class call is
running; the adaptor itself does not see to that, the cache has to.

### ClassApi

One message at a time, its ops one after the other: `ExecMethod`, up to
`MaxCalls` calls of a method, `MethodReturns`; or `CopyupStat`, `CopyupWrite`,
`CopyupReturns`. A call is three steps: `Request` (swap out), `CacheAnswers` and
`CallReturns` (swap back, test, decode). Every `cls_*` call is an operator that
gives the request it sends. The cache is external: it may fail, and what it
finds it passes to one of the `Encode…` functions of `network_module.cpp`. The
encoded bytes are a sequence of tokens (count, string, flag, raw bytes) that the
decoder of the call has to make sense of; an empty string is 0. The flag `more`
is always false in the encoders, so that only its place in the buffer matters;
of the time in a stat's answer, too, only the place is modelled, and `CallExact`
says nothing of its value.
Version, length and offset arguments that go to the cache as they are have been
left out; an object is one value, so that `write2` and `write_full` do the same.
A `std::map` is iterated in the order of its keys, which is `InOrder`; `PairsOf`
are the first pairs of such an iteration.

### RadosOp

A byte is named by the call it was given to, its SGL, entry and offset, so that
`bl`, `results` and the user's `memory` tell where every byte came from.
`Gather` and `Scatter` are the loops of `RadosWriteOpWriteSGL` and
`ReadCallback`, as functions of the number of turns: a turn is `GatherTurn` or
`ScatterTurn`, and `LoopStart` what the loop begins with. `whole` stands for
`isRelease` and `buildType` (a page of every entry, whatever its length). `Page`
and `PerSgl` stand for `DEFAULT_SGL_PAGE`
and `ENTRY_PER_SGL`. `req` holds, for each slot of `reqCtx`, the call that took
it last. `worker` is the thread in `OpHandler`, `cb` the librados callback; the
user may call `OpRelease` as soon as it has been told, while both may still be
running. `dangling` becomes true when one of them uses the op after that.

`RadosWriteOpWrite` without a buffer, and `RadosReadOpRead` without a buffer or
`bytesRead`, log an error and return nothing (`Ignore`). So that the n-th sub-op
still belongs to the n-th call, such a call leaves `NoSubOp` in `subops`: what
librados has is `subops` without these. The other builders test only the op
itself; their pointers are taken to be good. The user passes chains that hold
the length given, with entries of 1 to `Page` bytes, and lengths below 2^32: the
gathering loops keep the rest of a length in 32 bits, and a longer one would be
cut.

### IoWorkers

`Queue`, `CreateIOWorker` and `Push` are the three locked sections of
`RadosWorker::Queue`. `Wake` and `Relock` are the two places where the handler
thread has `ioworkerLock`: after a wait it looks at `stop` first, after a batch
at the queue. `Lookup`, `CreateIoCtx` and `InsertIoCtx` are `GetIoCtx`; users
(`CephProxyGetIoCtx`, `CephProxyGetIoCtx2`) run them too. One of
`CephProxyGetIoCtxFromCeph` (`UserTable` is `"ceph"`) only creates: its context
goes into no table (`Kept`). `ReleaseIoCtx` is `CephProxyReleaseIoCtx`, by a user
at any time while the proxy is up; it deletes the context, and a table that has
it is not told. What becomes of a thread that goes on with a deleted context is
undefined; the model lets it go on, and `ContextLive` says which contexts this
can happen with. `GetPoolIdByPoolName` and `GetPoolNameByPoolId` create and
release a context nobody else sees and are left out. `Faults` is what may fail: allocation of a
worker, `pthread_create`, creating a context, submission. `Shutdown` is called
while no other call of the proxy's interface is running: its caller must see to
that, the code has no protection for it. Worker threads and librados do run.

### RbdClient

`FastCheck`, `RefRead` and `RefWrite` are `FastInitRados` under the shared lock,
with `ref++` as a read and a write; `SlowCheck`, `ConnectFails`, `InitFails` and
`Connected` are the exclusive part of `RadosInit` with its retries. The calls
are abstracted to what they open and close. `ref` is an `int` and may, after lost
increments, go below zero. Errors of the configuration reader
are taken to be negative.

### PoolMonitor

A round is `Df`, then `QueryPool` and `Record` for each line that the pattern
matches, `Compare`, `UpdatePoolList` and `ReportCreatePool`; `QueryFails` ends
it early, as it must for a pool that was deleted after `Df`. `QueryPool` stands
for all queries about one pool (`IsECPool`, `GetECProfileSize`,
`GetPoolReplicationSize`), which change nothing but `globalStripeSize`. The
lines are taken in any order. Sizes are abstracted to two values and to "PiB",
which no pattern matches. The order of `Start` and the timer thread is in
`inTimer`: the first round is made by `Start`, the timer exists afterwards. The
io contexts the monitor uses come from the table in `IoWorkers`, where it is
one of the users.

## 3. The runs

| Run | Checks | Result |
|---|---|---|
| `queue` | `QueueBound`, `TimestampsAligned`, `AnsweredOnce`, `CopyupBarrier`, `ImplementsFifo`, `EveryOpAnswered` | hold |
| `queue_stop` | `OsaFinishReturns` | **violated** |
| `throttle` | `LwtLedger`, `ClassLedger`, `AdmissionBound`, `BandwidthBound`, `EveryOpFinishes` | hold |
| `throttle_refused` | `EveryOpFinishes` with several refused ops | **violated** |
| `adaptor` | `OpenClosure`, `LoadedOnce`, `InitHonest`, `NullOnlyAtStart`, `HandlerFollowsModule`, `ServerJoined`, `CallAnswered` | hold |
| `class_api` | `CallExact`, `OpsRestored`, `CopyupKeepsData` | hold |
| `rados_op` | `SubOpsFaithful`, `ReadExact`, `StrayExplained`, `NoUseAfterRelease` | hold |
| `io` | `TypeOK` (with the bound of the workers' queues), `CompletedOnce`, `NothingLeftBehind`, `ContextLive`, `PoolFifo`, `EveryOpCompleted`, `ShutdownReturns` | hold |
| `rbd` | `ClientUp`, `NotLeftUp`, `CallReturns`, two threads | hold |
| `rbd_race` | `ClientUp`, three threads | **violated** |
| `pools` | `UsageFresh`, `CleanRoundExact`, `KnownPoolStays`, `PoolReported`, `StopReturns` | hold |
| `pools_gone` | `NoGonePools` | **violated** |

`class_api` and `rados_op` have no end and check for deadlock. The other systems
may come to rest, when no op is left, when they have been stopped, or when each
thread has made its calls.

### What the properties leave open

Some properties hold only because they say where the code falls short; each of
these exceptions is as narrow as it could be made. Such a property delimits a
hazard and does not rule it out; the notes of the hazards in `PROJECT.json` say
which do.

* `EveryOpAnswered`: an op whose pool id does not fit into 32 bits is dropped, and
  a copyup that cannot be decoded wedges the handler of its queue (none is in the
  instance).
* `EveryOpFinishes`: an op may wait for ever if its handler, or the handler of an
  op before it, `PollsItself`. The `throttle` run gets there at `lwtCount`, at a
  class's op counter and at its bandwidth, and shows that nothing else keeps an
  op waiting; `RoomEndsWaits` (section 4) says for which throttles it is excluded.
* `ContextLive`: a context that a user got from a table and released with
  `CephProxyReleaseIoCtx` stays in the table: the next caller gets it, and `Clear`
  deletes it once more. No other deleted context is met.

* `CallExact`: `EncodeOmapGetvals` counts an empty value and does not encode it.
  Listings of values (`cls_cxx_map_get_vals`, `…_get_all_vals`) are exact if no
  listed value is empty; one empty value makes the whole listing fail with
  `-EIO`.
* `CopyupKeepsData`: a copyup never overwrites an object whose stat succeeded. A
  stat that *fails* on an existing object is taken for "no object", and the
  parent's data overwrites it.
* `SubOpsFaithful`: all data builders of an op append to one `bl`, so that a
  second data sub-op carries the bytes of the first, too; and the writing
  `omap_cmp` hands librados an empty map of assertions. A write or a read with a
  null argument is ignored: exactly those calls have no sub-op, and since the
  builders return nothing, only the log says so.
* `StrayExplained`: `ReadCallback` writes outside the user's memory only if
  an SGL before the last is not full (it steps on at `ENTRY_PER_SGL`, not at
  `entrySumInSgl`) and its unused entries have a length or whole pages are
  asked for; or if a plain buffer was given for an earlier, shorter read of the
  same op.
* `NullOnlyAtStart`: a class call that comes while `OSA_Init` is between
  starting the server thread and making the class handler ends the process.
* `InitHonest`, `ServerJoined`: after the time-out of `OSA_Init` the server thread
  writes to a frame that is gone, and `OSA_Finish` may wait for ever for a
  messenger that was started after the others had been shut down. A later
  `OSA_Init` returns 0 for the module of the failed one.
* `EveryOpCompleted`, `ShutdownReturns`: a worker whose thread could not be
  created accepts ops nobody handles, and `Shutdown` waits for it for ever; ops
  that librados has when the client is shut down may never be completed.

### What the violations show

* **`queue_stop`**: `StopThread` releases `opQueueMutex` before it raises
  `finishThread` and notifies. A handler that has just tested the flag and
  finds its queue empty begins to wait after the notification; the join waits
  for ever.
* **`throttle_refused`**: a short `rbd_data` name is answered through
  `FinishCacheOps`, whose `PutlwtCas` takes 1 from a counter the op was never
  added to. Two such ops and an idle adaptor leave `lwtCount` at 2^64 - 2; the
  next op waits in `GetlwtCas`, and for ever unless ops on other handlers come
  and carry the counter over 2^64. `LwtLedger` states the exact drift.
* **`rbd_race`**: with the client up, two threads do `ref++` under the shared
  lock at once and one increment is lost, so the client is shut down under a
  thread that uses it. It takes a third thread to have the client up, which is
  why `rbd` holds with two.
* **`pools_gone`**: a round that fails in `Record` leaves the pools it has
  recorded in `poolList`. If one of them is deleted before the next round, that
  round's `Compare` takes it for a pool it has seen, although its comment says
  that pools that no longer exist are deleted. `CleanRoundExact` says how far
  this goes: until the round after.

### Bounds, and why they are enough

* `OpQueue`: two messengers, capacity 1 and four ops on one queue: the queue is
  full with an op in hand on both messengers, both wait and both are notified
  at once. One spurious wakeup shows its effect on the bound; without a bound on
  their number (`MaxSpurious`) there is none on the queue. Queues share nothing
  but `limitWriteMtx`, and an object's ops go to one of them, so one queue with
  its handler is what an order can be broken in.
* `OpThrottle`: six ops on three handlers with `saOpThrottle` 2, so that the
  handlers can fill `lwtCount` by themselves; writes of 1, 2 and 3 bytes against a
  bandwidth of 2; op throttles of 0 and 1, which the cache changes between calls;
  a refused op, so that the counter drifts.
  `Width` = 16 is larger than anything the instance counts, so that what wraps
  wraps as at 2^64.
* `IoWorkers`: `MaxCount` 1 lets a queue fill (it takes one more than its
  maximum). Three ops and two callers race to create one worker. Faults can
  happen at every point. Workers of different pools share nothing but the table
  they are made in; one pool is enough for the race to make its worker. Two
  users: one gets its context by id, where it meets the worker's, the other with
  `GetIoCtxFromCeph`. A negative pool id, which `Queue` refuses at once, and the
  table by name are left to the proofs, which have them all.
* `Adaptor`: four classes, two of them callable, with a shared and an indirect
  dependency and one class without `__cls_init`; two ports, so that one can
  serve while the next fails; two callers, so that one waits for the mutex; two
  lives (`MaxLives`), so that what the first leaves behind would be seen.
* `ClassApi`: two keys and the values 0 and 1 make every omap with an empty value
  and without; two ops, because a call answers in op 0 whatever op it is for;
  two calls per method, which together with the other ops and messages reach
  every object (the object goes on through messages without end).
* `RadosOp`: two builder calls of every kind; chains that are full, that have
  entries shorter than a page, and whose first SGL is not full; lengths from 0
  to all of a chain.
* `RbdClient`: `Calls` is 2 so that a thread can come back to a client that has
  been shut down; `ConnectRetry` is 2. Two threads cannot lose an increment of
  `ref`: one of them has the client, and the other is alone in `FastInitRados`.
  `rbd` is therefore about the double-checked connection and the locks; `rbd_race`
  has the third thread, and `ClientNeverLeaked` holds for any number.
* `PoolMonitor`: two pools, so that one line can fail after another was
  recorded; two failures, so that two rounds in a row can fail, and one change
  of usage, to tell an old value from a new one. Failures have to be bounded for
  the liveness properties: if every round fails nothing is forgotten or
  reported.

No symmetry is used: ops differ in kind, and some runs check liveness.

### Fairness

Threads are scheduled: every step of a thread that is not a wait is weakly
fair. Weak fairness is enough for the locks because the ops, and with them the
times a lock can be taken by others, are finite in every instance; on an
endless stream of ops the code relies on `std::mutex` not to starve anybody.
Further assumptions, each of them on something outside the repository:
the cache finishes an op it was given and executes a copyup; a quota is
granted in the end (`LimitLeave`); librados completes what it has taken. In
`OpThrottle` fairness is per handler thread. A poll of a class throttle has to
succeed only when *every* answer of the cache would let it. Strong fairness appears once: `CephLibrbdDiskUsage` reaches the end of
its pools and its images, which are finite lists in the code. Nobody is obliged
to send an op, to make a call, to shut anything down or to wake up spuriously.

`EveryOpAnswered` names the cases in which the code does not answer: a pool id
out of range (dropped), an adaptor that is being stopped (its queues are
dropped), and a handler behind a copyup that `OSA_ExecClass` could not decode,
which spins because `copyupFlag` is not lowered on that path.

In `Adaptor` the server thread, the loader and a class call go on; the class
handler's mutex is granted in the end to a thread that keeps asking for it
(strong fairness of `Open` and `GetMethod`), since calls without end may take
it in between. `OSA_Init`'s own steps need no fairness: nothing waits for them.

## 4. What is proved

Each theorem holds for every value of the constants that the named assumption
allows: any number of threads, ops, queues, pools and so on. Most properties are
not inductive; the conjunction that is has been checked by TLC on the instance of
the run before it was proved, and is a definition of the proof module. (TLC
cannot evaluate all of two of them: `SeqInv` of `RadosOpProofs`, which says of
three variables that they are sequences, was left out, and in `ObjectInv` of
`ClassApiProofs` the form of an object and of a call was written out.)

Two modules are about data of any size: sequences of tokens, chains of buffers.
The library's induction theorems take the predicate as an operator, which the
provers cannot instantiate. `SetInduction` takes a set of numbers instead, with
the same strength, and follows from the least element of its complement
(`WFMin`). The lemmas on `FlattenSeq`, on sorted keys and on the loops over SGLs
all use it.

### The server adaptor

`OpQueueProofs`, from `ConstantsAssumption`:

* **`TypeCorrect`**: `Spec => [](TypeOK /\ TimestampsAligned)`. The two are
  proved together because `TypeOK` is not inductive: `Tail(dealTs[q])` and
  `Tail(periodTs[q])` have a meaning only because these lists are as long as
  `dealQueue[q]`, which is the only one the handler tests.
* **`QueueIsBounded`**: `Spec => []QueueBound`. `QueueBound` is not inductive:
  a notified producer adds an op without looking. `NotifiedCounted` counts
  those producers as if their ops were in the queue already; `Swap` is the
  step that needs care, since it turns waiting producers into notified ones, and
  is safe because it leaves the queue empty — which is `BatchDone`: outside
  the batch loop the batch that is swapped in is empty. `BoundInv` is the
  conjunction with `TypeOK`.
* **`OpsAnsweredOnce`**: `Spec => []AnsweredOnce`. Replies are counted, so the
  invariant has to say where an op is: `PlaceInv` says that it is in one place
  only, with its messenger (`ArrivalInv`), in a queue or batch (`QueuedInv`),
  in the handler's hands (`TakenInv`) or in the cache (`CacheInv`), and has no
  answer while it is in any of them (`AnswerInv`).
* **`CopyupHoldsUp`**: `Spec => CopyupBarrier`. `BarrierInv`: `copyupFlag` is up
  as long as the cache has a copyup of the queue it has not executed. That is
  inductive only with the second half, that there is one such copyup per queue:
  otherwise `ExecClass` of one would lower the flag for the other.
* **`RequestQueuesAreFifo`**: `Spec => ImplementsFifo`. Under the mapping
  `Held` (the batch, then the queue) every step is a `Put`, a `Take` or a
  stutter of `FifoQueues`; `Swap` is a stutter because of `BatchDone`.

`OpThrottleProofs`, from `ThrottleAssumption`. It bounds the ops, and the sum of
their lengths, below `Width`: over 2^64 ops or bytes the counters mean nothing.

* **`LwtCountIsExact`**, **`ClassCountersAreExact`**, **`AdmissionIsBounded`** and
  **`BandwidthIsBounded`**: the four safety properties of the run. `ThrottleInv` is
  their conjunction with `TypeOK` and the stages a refused op can be in
  (`StageOfRefused`). The bounds need the ledgers, since a check reads the
  counter and the bound is on the ops; the ledger of `lwtCount` needs the width,
  since refused ops take it below zero. Every action moves one op between two
  stages, so that the sets that are counted change by one member
  (`ModWidth` and the lemmas on `SumLength` do the arithmetic).
* **`RoomEndsWaits`**: under `Roomy` no op ever `PollsItself`. The handlers that
  sleep have one op each (`SleepersApart`), so that what they hold is at most one
  op per handler, for which there is room.

`AdaptorProofs`, from `ClassAssumption`, `Acyclic` and, for the last three,
`AdaptorAssumption`:

* **`OpenOnlyWithDependencies`** and **`LibrariesLoadedOnce`**:
  `Spec => []OpenClosure` and `Spec => []LoadedOnce`. Neither is inductive. Both
  follow from `LoaderInv` (**`LoaderCorrect`**), which accounts for a load that is
  under way or has failed half way: once a library is open each dependency of
  its class is open or in `missing` (`DepsSettled`, which gives the closure);
  only a class the loader is at work on has a handle and a status that asks for
  a `dlopen` (`HandleKnown`, which gives the single `dlopen`); the classes under
  the top of the stack have their library and are not open (`Waiting`); and
  heights grow down the stack (`Rising`), so that no class is on it twice and
  the class that becomes open is none of those that wait. The height is a
  witness of `Acyclic`. The mutex, the stack and the one thread in `_load_class`
  belong together (`Locked`), which is what lets the steps of other threads and
  of `OSA_Init` and `OSA_Finish` leave all this alone.
* **`StartIsHonest`**, **`NullHandlerOnlyAtStart`** and **`HandlerLivesWithModule`**:
  `Spec => []` of `InitHonest`, `NullOnlyAtStart` and `HandlerFollowsModule`.
  `StartInv` ties together what three threads know: how long `bindSuccess` and
  the handler exist (`LifeInv`), what the server thread has done against what it
  has reported (`BindInv`), what `OSA_Init` made of the report (`ReportInv`), and
  that without a handler nobody is in a class call and the table is empty
  (`QuietInv`).

`ClassApiProofs`, from `ApiAssumption`, for messages of any length:

* **`ClientOpsRestored`** (`OpsRestored`) and **`CopyupKeepsObject`**
  (`CopyupKeepsData`), from `ApiInv`: during a reading call the client's ops are
  in `local` and the message has the call's own vector (`SwapInv`); `rbd.copyup`
  writes only after a stat that failed (`CopyupInv`).
* **`CallsAreExact`**: `Spec => []CallExact`, for every object and every listing.
  It has a half about control and one about data. Control: `AnsweredInv` of
  `ApiInv` says that a call decodes what the cache encoded for *this* request,
  from the object as it was then; `ObjectInv` (**`ObjectInvariant`**) that this
  object is well formed and has what the call asks for, which takes the writing
  calls with it (`AppliedObject`). Data: `ReadingCallExact`, that the decoder of
  every reading call inverts the encoder of its answer. `MapFrame` finds the
  keys of an encoded map at even and the values at odd places, `MapRoundTrip`
  and `ValsRoundTrip` read them back, `MissingValue` counts the tokens of a
  listing with an empty value and shows that the decoder meets the flag where it
  wants a string. `ListedWanted` says that the cache's first `max` keys in order
  are those with fewer than `max` before them: a finite set of keys has an
  ordered list (`SortedExists`), in which `p - 1` keys come before the p-th
  (`KeysBefore`).

### The ceph proxy

`IoWorkersProofs`, from `IoAssumption`, with any faults:

* **`QueuesAreBounded`** (`TypeOK`), **`OpsCompleteOnce`** (`CompletedOnce`),
  **`ShutdownLeavesNothing`** (`NothingLeftBehind`) and **`ContextsAreLive`**
  (`ContextLive`), all from `IoInv` (**`IoInvariant`**). An accepted op is with
  the worker of its pool or has been handed on, never both (`BatchInv`), and
  a Queue call that is about to push has the worker that is in the table
  (`CallInv`), whoever won the race to create it. `StopInv` follows `Shutdown`
  through the pools: the workers behind it are idle and joined, and `stop` is
  raised for an idle worker only, which is why it may leave without a look at
  its queue.
  `ContextsAreLive` needs `HomeInv` in addition: a context stays with the table
  and the pool it was made for, so that no two places hold the same one and a
  context of `GetIoCtxFromCeph` is met by its user only; and until `Clear` each
  released one has a user that released it.
* **`PoolQueuesAreFifo`**: `Spec => PoolFifo`, the refinement of `FifoQueues` by the
  queue of a pool's worker and its batch.

`RbdClientProofs`, from `RbdAssumption`:

* **`ClientSafeWithoutRace`**: `Spec /\ []OneReader => [](ClientUp /\ NotLeftUp)`,
  for any number of threads. `OneReader` says that no two threads are in
  `FastInitRados` at once; `rbd_race` is a behaviour in which two are. Together
  they say that two threads in the `ref++` under the shared lock are the one way
  to lose the client. `CountInv`: `ref` is the number of users, the
  flag is up iff there is one, and the value a thread has read is not stale.
* **`ClientNeverLeaked`**: `Spec => []NeverLeaked`, for any number of threads and
  with the race: the client is up only if somebody uses it. `LowInv`: while the
  client is up `ref` is between 1 and the number of users, and so is the value a
  thread has read and not yet written back. Lost increments make `ref` too small,
  never too big.

`RadosOpProofs`, from `RadosOpAssumption`, for any chains, page and SGL sizes:

* **`OpUsedWhileAlive`** (`NoUseAfterRelease`) and **`UserToldOnce`**: worker and
  callback leave the op alone once the user has been told, and only one of them
  tells it (`FlightInv`).
* **`SubOpsAreFaithful`**, **`ReadsAreExact`** and **`StraysAreExplained`**:
  `SubOpsFaithful`, `ReadExact` and `StrayExplained`, to the byte. The control
  part is `OpInv` (**`RadosOpInvariant`**): the sub-ops in order, none for the
  ignored calls, the slots of
  `reqCtx` with calls of their kind (`SlotInv`), an answer not longer than the
  last read (`ResultsInv`). The data part is `DataInv` (**`RadosDataInvariant`**):
  `bl` is the concatenation of what the data calls so far asked for and each
  payload a prefix of it (`BytesInv`); every destination is the memory of its
  chain or buffer (`DestInv`); bytes go astray from an SGL only at a gap
  (`GapInv`); an only read has been delivered (`DeliveredInv`).
  Under it are the two loops. After every turn a loop stands at an entry, and
  the cells it has been through with what is left make the length: by induction
  on the turns the cells of `Gather` are the first ones of the chain in order,
  and those of `Scatter` are too unless it meets a gap. `ChainCells`, which
  the properties use, is the concatenation of the entries and has no loop.

`PoolMonitorProofs`, from `MonitorAssumption`, for any number of failures:

* **`UsageIsFresh`**, **`CleanRoundIsExact`** and **`KnownPoolsStay`**: the
  properties of the same names in the run. All three follow from `RoundInv`
  (**`RoundAccount`**): `poolList` and `tmpPoolInfoMap` name the same pools
  (`ListMatchesMap`); the lines that are done are in them with this df's usage
  (`DoneRecorded`); unless a round has failed nothing else is (`OnlyDone`); and
  between `Compare` and the swap `poolInfoMap` is what was collected
  (`Compared`). The properties speak of the state after `Compare` only and are
  not inductive without this account of the lines before it.

### Only model-checked

* Liveness (`EveryOpAnswered`, `EveryOpFinishes`, `ServerJoined`, `CallAnswered`,
  `EveryOpCompleted`, `ShutdownReturns`, `CallReturns`, `PoolReported`,
  `StopReturns`): fairness and `ENABLED` are out of the prover's reach.
* The violations (`queue_stop`, `throttle_refused`, `rbd_race`, `pools_gone`) are
  behaviours TLC found; `ClientSafeWithoutRace` and `LwtCountIsExact` prove
  for two of them how far they go: without the race the client is safe, and the
  counter drifts by one per refused op and no more.

## 5. What is not modelled

* The cache and librados: their calls and failures only.
* The arithmetic of `LimitWrite` (quota, cycle, bandwidth): it depends on the
  wall clock, and a clock that goes back behind `cycleBegin` leaves `timeInterval`
  (`network_module.cpp:735`) without a value. `OpQueue` has its locks and that it
  sleeps with them.
* The classification of ops in `ConvertClientopToOpreq`, beyond the copyup test,
  and `EncodeListSnaps`: conversions of one data structure into another without
  state.
* Calls of the class API that do not reach the cache (origin, features, random
  bytes, log).
* Builders of `RadosWrapper.cc` that `CephProxyInterface.h` does not offer,
  iteration over xattrs, the stat calls: one call into librados each.
* `CephProxy::Init`: configuration and one connection, before anything else runs.
* Configuration, logging, tracing, CPU affinity, performance records.
* Functions nothing calls: the mutex variants of the throttles,
  `IOCtxTable::Delete`, `open_all_classes`, filters of classes.
* The patches to Ceph under `src/patch`.

`g_networkModule`, through which `FinishCacheOps` finds the throttles, is out of the
models: it is set once (`network_module.cpp:335`) and never reset, so that after an
`OSA_Finish` and a second `OSA_Init` every `FinishCacheOps` uses the first module,
which has been deleted. No property depends on it: `OpQueue` and `OpThrottle` are
about one life, and `Adaptor`, which has two, has no ops.

The cache is assumed to have ended its class calls before `OSA_Finish` drops the
class handler (`FinishDrop`); the code does not wait for them, and a call that is
still running would use a handler that is gone. This keeps that hazard
(`ClassHandler.cc:96`) out of every property.

## 6. Plan

Every safety property of the passing runs, and both refinements, are proved for
all values of the constants; liveness is model-checked. What could come next is
more of the code: the classification of ops in `ConvertClientopToOpreq`, the
quota arithmetic of `LimitWrite` with a clock that may go back, and the builders
of `RadosWrapper.cc` that the interface does not offer yet.

A hazard without a property is listed in `PROJECT.json` with the reason.
