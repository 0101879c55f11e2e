----------------------------- MODULE RbdClient -----------------------------
(***************************************************************************)
(* The shared librados client of the rbd calls (RbdWrapper.cc).            *)
(*                                                                         *)
(* Every CephLibrbd* call gets the one client in gProxyCtx with RadosInit, *)
(* opens an io context and an image with it, closes them and gives it back *)
(* with RadosShutdown; the last one out shuts the client down.             *)
(*                                                                         *)
(* gProxyCtx.lock is a shared mutex.  What is done under the exclusive     *)
(* lock in one go is one step; ref++ under the shared lock is a read and a *)
(* write.                                                                  *)
(***************************************************************************)
EXTENDS Integers, FiniteSets

CONSTANTS
  Threads,
  Calls,         \* bound: the calls each thread makes
  ConnectRetry,  \* RADOS_CONNECT_RETRY
  NoThread

\* CephLibrbdSnapRemove, GetImageName and GetImageInfo open one image,
\* GetPoolName none, DiskUsage any number in any number of pools.
Apis == {"image", "poolName", "diskUsage"}

ASSUME RbdAssumption ==
  /\ IsFiniteSet(Threads) /\ NoThread \notin Threads
  /\ Calls \in Nat /\ ConnectRetry \in Nat \ {0}

VARIABLES
  initFlag, ref,     \* gProxyCtx.init_flag, gProxyCtx.ref
  readers, writer,   \* gProxyCtx.lock
  pc, api, left,     \* per thread: where it is, its call, the calls it still makes
  old,               \* per thread: ref as read by ref++
  retry,             \* retryCount of the thread that connects
  open               \* per thread: which of "ioctx", "image" it has open

vars == <<initFlag, ref, readers, writer, pc, api, left, old, retry, open>>
lockVars == <<readers, writer>>

Goto(t, where) == pc' = [pc EXCEPT ![t] = where]
Return(t) == Goto(t, "idle")

\* RadosInit has succeeded; DiskUsage starts with monitor commands.
Started(t) == Goto(t, IF api[t] = "diskUsage" THEN "mon" ELSE "ioctx")

Call(t, a) ==
  /\ pc[t] = "idle" /\ left[t] > 0
  /\ left' = [left EXCEPT ![t] = @ - 1]
  /\ api' = [api EXCEPT ![t] = a]
  /\ Goto(t, "fast")
  /\ UNCHANGED <<initFlag, ref, lockVars, old, retry, open>>
-----------------------------------------------------------------------------
\* RadosInit.

\* Under the shared lock: is there a client?
FastCheck(t) ==
  /\ pc[t] = "fast" /\ writer = NoThread
  /\ IF initFlag THEN Goto(t, "refRead") /\ readers' = readers \cup {t}
                 ELSE Goto(t, "slow") /\ UNCHANGED readers
  /\ UNCHANGED <<initFlag, ref, writer, api, left, old, retry, open>>

\* FastInitRados: gProxyCtx.ref++, with the shared lock only.
RefRead(t) ==
  /\ pc[t] = "refRead"
  /\ old' = [old EXCEPT ![t] = ref]
  /\ Goto(t, "refWrite")
  /\ UNCHANGED <<initFlag, ref, lockVars, api, left, retry, open>>

Counted(t) == ref' = old[t] + 1

\* Mutant: a return that keeps the shared lock.
KeepShared(t) == UNCHANGED readers

\* The end of the shared lock's scope.
ReleaseShared(t) == readers' = readers \ {t}

RefWrite(t) ==
  /\ pc[t] = "refWrite"
  /\ Counted(t)
  /\ ReleaseShared(t)
  /\ Started(t)
  /\ UNCHANGED <<initFlag, writer, api, left, old, retry, open>>

\* Mutant: no second look under the exclusive lock.
ConnectAnyway == FALSE

\* Another thread has connected between the two locks.
Recheck == initFlag

\* The exclusive lock: another thread has connected in between, or this one
\* keeps the lock and sets the client up.
SlowCheck(t) ==
  /\ pc[t] = "slow" /\ writer = NoThread /\ readers = {}
  /\ IF Recheck THEN /\ ref' = ref + 1
                     /\ Started(t)
                     /\ UNCHANGED <<writer, retry>>
                ELSE /\ writer' = t
                     /\ retry' = 0
                     /\ Goto(t, "connect")
                     /\ UNCHANGED ref
  /\ UNCHANGED <<initFlag, readers, api, left, old, open>>

\* init, the configuration or the last connect fails: RadosInit returns a
\* negative error and so does the call.
InitFails(t) ==
  /\ pc[t] = "connect" /\ retry \in {0, ConnectRetry}
  /\ writer' = NoThread
  /\ Return(t)
  /\ UNCHANGED <<initFlag, ref, readers, api, left, old, retry, open>>

ConnectFails(t) ==
  /\ pc[t] = "connect" /\ retry < ConnectRetry
  /\ retry' = retry + 1
  /\ UNCHANGED <<initFlag, ref, lockVars, pc, api, left, old, open>>

Connected(t) ==
  /\ pc[t] = "connect" /\ retry < ConnectRetry
  /\ ref' = 1 /\ initFlag' = TRUE
  /\ writer' = NoThread
  /\ Started(t)
  /\ UNCHANGED <<readers, api, left, old, retry, open>>
-----------------------------------------------------------------------------
\* The calls.  Every error goes to the label that closes what is open.

\* MonCommand, as often as DiskUsage asks the monitor about its pools.
MonCommand(t) ==
  /\ pc[t] = "mon"
  /\ Goto(t, "ioctx") \/ Goto(t, "put")
  /\ UNCHANGED <<initFlag, ref, lockVars, api, left, old, retry, open>>

\* IoctxInit: on an error in setting the namespace the context is closed again.
IoctxInit(t) ==
  /\ pc[t] = "ioctx"
  /\ \/ /\ open' = [open EXCEPT ![t] = {"ioctx"}]
        /\ Goto(t, IF api[t] = "poolName" THEN "close" ELSE "image")
     \/ Goto(t, "put") /\ UNCHANGED open
  /\ UNCHANGED <<initFlag, ref, lockVars, api, left, old, retry>>

\* IoctxOpenImage, or open_read_only in CalImageUsage.
OpenImage(t) ==
  /\ pc[t] = "image"
  /\ \/ open' = [open EXCEPT ![t] = @ \cup {"image"}] /\ Goto(t, "work")
     \/ Goto(t, "close") /\ UNCHANGED open
  /\ UNCHANGED <<initFlag, ref, lockVars, api, left, old, retry>>

\* The image is worked on, with or without an error, and closed; DiskUsage
\* may go on to the next image.
CloseImage(t) ==
  /\ pc[t] = "work"
  /\ open' = [open EXCEPT ![t] = @ \ {"image"}]
  /\ Goto(t, "close") \/ (api[t] = "diskUsage" /\ Goto(t, "image"))
  /\ UNCHANGED <<initFlag, ref, lockVars, api, left, old, retry>>

\* IoCtxDestroy; DiskUsage may go on to the next pool.
IoCtxDestroy(t) ==
  /\ pc[t] = "close"
  /\ open' = [open EXCEPT ![t] = {}]
  /\ Goto(t, "put") \/ (api[t] = "diskUsage" /\ Goto(t, "ioctx"))
  /\ UNCHANGED <<initFlag, ref, lockVars, api, left, old, retry>>

\* Mutant: the first one out shuts the client down.
FirstOut(n) == TRUE

LastOut(n) == n = 0

RadosShutdown(t) ==
  /\ pc[t] = "put" /\ writer = NoThread /\ readers = {}
  /\ ref' = ref - 1
  /\ initFlag' = (initFlag /\ ~LastOut(ref - 1))
  /\ Return(t)
  /\ UNCHANGED <<lockVars, api, left, old, retry, open>>
-----------------------------------------------------------------------------
\* ref has no initial value; it is set before it is first used.
Init ==
  /\ initFlag = FALSE /\ ref = 0
  /\ readers = {} /\ writer = NoThread
  /\ pc = [t \in Threads |-> "idle"]
  /\ api = [t \in Threads |-> "image"] /\ left = [t \in Threads |-> Calls]
  /\ old = [t \in Threads |-> 0] /\ retry = 0
  /\ open = [t \in Threads |-> {}]

GetClient(t) == FastCheck(t) \/ RefRead(t) \/ RefWrite(t) \/ SlowCheck(t)
                \/ InitFails(t) \/ ConnectFails(t) \/ Connected(t)
UseClient(t) == MonCommand(t) \/ IoctxInit(t) \/ OpenImage(t) \/ CloseImage(t) \/ IoCtxDestroy(t)

Next == \E t \in Threads :
  \/ \E a \in Apis : Call(t, a)
  \/ GetClient(t) \/ UseClient(t) \/ RadosShutdown(t)

Spec == Init /\ [][Next]_vars

\* A thread in a call keeps running, and DiskUsage gets to the end of its
\* pools and images.
Fairness == \A t \in Threads :
  /\ WF_vars(GetClient(t) \/ UseClient(t) \/ RadosShutdown(t))
  /\ SF_vars(CloseImage(t) /\ Goto(t, "close"))
  /\ SF_vars(IoCtxDestroy(t) /\ Goto(t, "put"))

FairSpec == Spec /\ Fairness
-----------------------------------------------------------------------------
\* The types of the variables.
TypeOK ==
  /\ initFlag \in BOOLEAN /\ ref \in Int
  /\ readers \subseteq Threads /\ writer \in Threads \cup {NoThread}
  /\ pc \in [Threads -> {"idle", "fast", "refRead", "refWrite", "slow", "connect", "mon",
                         "ioctx", "image", "work", "close", "put"}]
  /\ api \in [Threads -> Apis] /\ left \in [Threads -> 0..Calls]
  /\ old \in [Threads -> Int] /\ retry \in 0..ConnectRetry
  /\ open \in [Threads -> SUBSET {"ioctx", "image"}]

\* The threads between RadosInit and RadosShutdown.
Using == {t \in Threads : pc[t] \in {"mon", "ioctx", "image", "work", "close", "put"}}

\* The assertions in IoctxInit and MonCommand, and more: from a successful
\* RadosInit to its RadosShutdown nobody shuts the client down, so that no
\* image or context is used or closed on a client that is gone.
ClientUp == \A t \in Threads :
  /\ t \in Using => initFlag
  /\ open[t] # {} => t \in Using

\* The client is up exactly as long as somebody uses it: it is not left
\* connected by the last one out.
NotLeftUp == writer = NoThread /\ readers = {} => (initFlag <=> Using # {})

\* Whatever ref++ loses, the client does not stay connected with nobody to give
\* it back: the races take it away too early, never leave it behind.
NeverLeaked == initFlag => Using # {}

\* Every call returns, with both locks and the retries on its way.
CallReturns == \A t \in Threads : pc[t] # "idle" ~> pc[t] = "idle"
=============================================================================
