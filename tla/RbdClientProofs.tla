-------------------------- MODULE RbdClientProofs --------------------------
(***************************************************************************)
(* Proofs about RbdClient, for any threads, calls and retries: the client  *)
(* is never left behind, and it is counted exactly as long as no two       *)
(* threads are in FastInitRados at once.                                   *)
(***************************************************************************)
EXTENDS RbdClient, FiniteSetTheorems, TLAPS

\* The threads in FastInitRados, and where a call uses the client.
InUse == {"mon", "ioctx", "image", "work", "close", "put"}

\* ref++ is never done by two threads at once.
OneReader == \A s, t \in readers : s = t

\* The exclusive lock is held by the thread that connects, the shared one by
\* those that count themselves in, and both never at once.
LockInv ==
  /\ \A t \in Threads : t \in readers <=> pc[t] \in {"refRead", "refWrite"}
  /\ \A t \in Threads : writer = t <=> pc[t] = "connect"
  /\ writer # NoThread => readers = {} /\ ~initFlag

\* ref is the number of users, and what a thread has read of it is not stale;
\* whoever counts itself in finds somebody else who uses the client.
CountInv ==
  /\ ref = Cardinality(Using)
  /\ initFlag <=> Using # {}
  /\ readers # {} => initFlag
  /\ \A t \in Threads : pc[t] = "refWrite" => old[t] = ref

\* A thread has open only what it has opened in its call.
OpenInv == \A t \in Threads : open[t] # {} => pc[t] \in {"image", "work", "close"}


\* What holds whatever ref counts.
Base == TypeOK /\ LockInv /\ OpenInv
RbdInv == Base /\ CountInv

\* ref++ may lose counts, so that ref is at most the number of users; but it is
\* at least 1 while there is a client, so that it is given back in time.
LowInv ==
  /\ readers # {} => initFlag
  /\ initFlag => ref \in 1..Cardinality(Using)
  /\ \A t \in Threads : pc[t] = "refWrite" => old[t] \in 1..Cardinality(Using)
-----------------------------------------------------------------------------
(* Counting the users.                                                     *)

Places == {"idle", "fast", "refRead", "refWrite", "slow", "connect"} \cup InUse

\* A thread that goes somewhere joins the users, leaves them, or neither.
LEMMA UsingStep ==
  ASSUME pc \in [Threads -> Places], NEW t \in Threads, NEW s \in Places, Goto(t, s)
  PROVE  /\ Using' = IF s \in InUse THEN Using \cup {t} ELSE Using \ {t}
         /\ t \in Using <=> pc[t] \in InUse
         /\ pc'[t] = s /\ \A u \in Threads : u # t => pc'[u] = pc[u]
         /\ pc' \in [Threads -> Places]
<1>1. pc'[t] = s /\ (\A u \in Threads : u # t => pc'[u] = pc[u]) /\ pc' \in [Threads -> Places]
  BY DEF Goto, Places, InUse
<1>2. t \in Using <=> pc[t] \in InUse
  BY DEF Using, InUse
<1>3. Using = {u \in Threads : pc[u] \in InUse} /\ Using' = {u \in Threads : pc'[u] \in InUse}
  BY DEF Using, InUse
<1> QED
  BY <1>1, <1>2, <1>3

LEMMA UserCount ==
  /\ IsFiniteSet(Using) /\ Cardinality(Using) \in Nat
  /\ Cardinality(Using) = 0 <=> Using = {}
  /\ \A t \in Threads \ Using : Cardinality(Using \cup {t}) = Cardinality(Using) + 1
  /\ \A t \in Using : Cardinality(Using \ {t}) = Cardinality(Using) - 1
<1>1. IsFiniteSet(Using)
  BY RbdAssumption, FS_Subset DEF Using
<1>2. Cardinality(Using) \in Nat /\ (Cardinality(Using) = 0 <=> Using = {})
  BY <1>1, FS_CardinalityType, FS_EmptySet
<1>3. \A t \in Threads \ Using : Cardinality(Using \cup {t}) = Cardinality(Using) + 1
  BY <1>1, FS_AddElement
<1>4. \A t \in Using : Cardinality(Using \ {t}) = Cardinality(Using) - 1
  BY <1>1, FS_RemoveElement
<1> QED
  BY <1>1, <1>2, <1>3, <1>4
-----------------------------------------------------------------------------
(* The steps.                                                              *)

\* A step that leaves the users, ref and the client as they are; a thread may
\* read ref under the shared lock.
Quiet ==
  /\ Using' = Using /\ UNCHANGED <<initFlag, ref>>
  /\ readers' # {} => readers # {} \/ initFlag
  /\ \A u \in Threads : pc'[u] = "refWrite" =>
       \/ readers # {} /\ old'[u] = ref
       \/ pc[u] = "refWrite" /\ old'[u] = old[u]

\* A step within the use of the client, or outside of it and of RadosInit.
LEMMA MoveStep ==
  ASSUME Base, NEW t \in Threads, NEW s \in Places, Goto(t, s),
         UNCHANGED <<initFlag, ref, readers, writer, old>>,
         pc[t] \notin {"refRead", "refWrite", "connect"}, s \notin {"refRead", "refWrite", "connect"},
         pc[t] \in InUse <=> s \in InUse
  PROVE  LockInv' /\ Quiet
<1>0. pc \in [Threads -> Places]
  BY DEF Base, TypeOK, Places, InUse
<1>1. Using' = Using
  BY <1>0, UsingStep
<1>2. pc'[t] = s /\ \A u \in Threads : u # t => pc'[u] = pc[u]
  BY <1>0, UsingStep
<1>3. LockInv'
  BY <1>2 DEF Base, LockInv
<1>4. Quiet
  BY <1>1, <1>2 DEF Quiet
<1> QED
  BY <1>3, <1>4

\* The whole types follow from those of what a step can change.
LEMMA TypeStep ==
  ASSUME TypeOK, NEW t \in Threads, NEW s \in Places, Goto(t, s),
         initFlag' \in BOOLEAN, ref' \in Int,
         readers' \subseteq Threads, writer' \in Threads \cup {NoThread},
         api' = api \/ \E a \in Apis : api' = [api EXCEPT ![t] = a],
         left' = left \/ (left[t] > 0 /\ left' = [left EXCEPT ![t] = @ - 1]),
         old' = old \/ old' = [old EXCEPT ![t] = ref],
         retry' \in 0..ConnectRetry,
         open' = open \/ \E o \in SUBSET {"ioctx", "image"} : open' = [open EXCEPT ![t] = o]
  PROVE  TypeOK'
<1>1. pc' \in [Threads -> {"idle", "fast", "refRead", "refWrite", "slow", "connect", "mon",
                           "ioctx", "image", "work", "close", "put"}]
  BY UsingStep DEF TypeOK, Places, InUse
<1>2. api' \in [Threads -> Apis]
  BY DEF TypeOK
<1>3. left' \in [Threads -> 0..Calls]
  BY RbdAssumption DEF TypeOK
<1>4. old' \in [Threads -> Int]
  BY DEF TypeOK
<1>5. open' \in [Threads -> SUBSET {"ioctx", "image"}]
  BY DEF TypeOK
<1> QED
  BY <1>1, <1>2, <1>3, <1>4, <1>5 DEF TypeOK

LEMMA InvTypes ==
  ASSUME Base
  PROVE  /\ TypeOK /\ initFlag \in BOOLEAN /\ ref \in Int /\ readers \subseteq Threads
         /\ pc \in [Threads -> Places]
         /\ writer \in Threads \cup {NoThread} /\ retry \in 0..ConnectRetry
         /\ \A t \in Threads : pc[t] \in Places /\ open[t] \in SUBSET {"ioctx", "image"}
  BY DEF Base, TypeOK, Places, InUse

LEMMA CallStep ==
  ASSUME Base, NEW t \in Threads, NEW a \in Apis, Call(t, a)
  PROVE  Base' /\ Quiet
<1>a. /\ Goto(t, "fast") /\ "fast" \in Places /\ pc[t] = "idle"
      /\ UNCHANGED <<initFlag, ref, readers, writer, old, open>>
      /\ "fast" \notin InUse /\ "idle" \notin InUse
  BY DEF Call, lockVars, Places, InUse
<1>1. TypeOK'
  <2>1. /\ left[t] > 0 /\ left' = [left EXCEPT ![t] = @ - 1]
        /\ api' = [api EXCEPT ![t] = a] /\ retry' = retry
    BY DEF Call
  <2> QED
    BY <1>a, <2>1, InvTypes, TypeStep
<1>2. LockInv' /\ Quiet
  BY <1>a, MoveStep
<1>3. OpenInv'
  BY <1>a, InvTypes, UsingStep DEF Base, OpenInv
<1> QED
  BY <1>1, <1>2, <1>3 DEF Base

\* RadosInit on the fast path: the lock is shared, and the thread goes on only
\* if there is a client.
LEMMA FastCheckStep ==
  ASSUME Base, NEW t \in Threads, FastCheck(t)
  PROVE  Base' /\ Quiet
<1>a. /\ pc[t] = "fast" /\ writer = NoThread
      /\ UNCHANGED <<initFlag, ref, writer, api, left, old, retry, open>>
      /\ {"refRead", "slow"} \subseteq Places /\ {"fast", "refRead", "slow"} \cap InUse = {}
  BY DEF FastCheck, Places, InUse
<1>1. CASE initFlag
  <2>1. Goto(t, "refRead") /\ readers' = readers \cup {t}
    BY <1>1 DEF FastCheck
  <2>2. Using' = Using /\ pc'[t] = "refRead" /\ \A u \in Threads : u # t => pc'[u] = pc[u]
    BY <1>a, <2>1, InvTypes, UsingStep
  <2>3. TypeOK'
    BY <1>a, <2>1, InvTypes, TypeStep
  <2>4. LockInv'
    BY <1>a, <2>1, <2>2, RbdAssumption DEF Base, LockInv
  <2>5. Quiet
    BY <1>1, <1>a, <2>2 DEF Quiet
  <2>6. OpenInv'
    BY <1>a, <2>2 DEF Base, OpenInv
  <2> QED
    BY <2>3, <2>4, <2>5, <2>6 DEF Base
<1>2. CASE ~initFlag
  <2>1. Goto(t, "slow") /\ readers' = readers
    BY <1>2 DEF FastCheck
  <2>2. TypeOK'
    BY <1>a, <2>1, InvTypes, TypeStep
  <2>3. LockInv' /\ Quiet
    BY <1>a, <2>1, MoveStep
  <2>4. OpenInv'
    BY <1>a, <2>1, InvTypes, UsingStep DEF Base, OpenInv
  <2> QED
    BY <2>2, <2>3, <2>4 DEF Base
<1> QED
  BY <1>1, <1>2

LEMMA RefReadStep ==
  ASSUME Base, NEW t \in Threads, RefRead(t)
  PROVE  Base' /\ Quiet
<1>a. /\ pc[t] = "refRead" /\ old' = [old EXCEPT ![t] = ref] /\ Goto(t, "refWrite")
      /\ UNCHANGED <<initFlag, ref, readers, writer, api, left, retry, open>>
      /\ "refWrite" \in Places /\ "refRead" \notin InUse /\ "refWrite" \notin InUse
  BY DEF RefRead, lockVars, Places, InUse
<1>b. Using' = Using /\ pc'[t] = "refWrite" /\ \A u \in Threads : u # t => pc'[u] = pc[u]
  <2>1. pc \in [Threads -> Places]
    BY InvTypes
  <2> QED
    BY <1>a, <2>1, UsingStep
<1>c. old'[t] = ref /\ \A u \in Threads : u # t => old'[u] = old[u]
  BY <1>a DEF Base, TypeOK
<1>1. TypeOK'
  BY <1>a, InvTypes, TypeStep
<1>2. LockInv'
  BY <1>a, <1>b DEF Base, LockInv
<1>3. Quiet
  <2>1. readers # {}
    BY <1>a DEF Base, LockInv
  <2> QED
    BY <1>a, <1>b, <1>c, <2>1 DEF Quiet
<1>4. OpenInv'
  BY <1>a, <1>b DEF Base, OpenInv
<1> QED
  BY <1>1, <1>2, <1>3, <1>4 DEF Base

\* Where RadosInit returns to.
LEMMA StartedFacts ==
  ASSUME Base, NEW t \in Threads, Started(t), pc[t] \notin InUse
  PROVE  /\ Using' = Using \cup {t} /\ Cardinality(Using') = Cardinality(Using) + 1 /\ Using' # {}
         /\ pc'[t] \in {"mon", "ioctx"} /\ \A u \in Threads : u # t => pc'[u] = pc[u]
         /\ \E s \in Places : Goto(t, s)
<1>1. PICK s \in {"mon", "ioctx"} : Goto(t, s)
  BY DEF Started
<1>2. s \in Places /\ s \in InUse
  BY DEF Places, InUse
<1>3. /\ Using' = Using \cup {t} /\ t \notin Using
      /\ pc'[t] = s /\ \A u \in Threads : u # t => pc'[u] = pc[u]
  BY <1>1, <1>2, InvTypes, UsingStep
<1>4. Cardinality(Using') = Cardinality(Using) + 1
  BY <1>3, UserCount
<1> QED
  BY <1>1, <1>2, <1>3, <1>4

\* The one step that counts wrong if another thread is in FastInitRados too.
LEMMA RefWriteStep ==
  ASSUME Base, NEW t \in Threads, RefWrite(t)
  PROVE  /\ Base' /\ pc[t] = "refWrite" /\ t \in readers /\ ref' = old[t] + 1 /\ initFlag' = initFlag
         /\ Cardinality(Using') = Cardinality(Using) + 1 /\ Using' # {} /\ readers' \subseteq readers
         /\ pc'[t] # "refWrite" /\ \A u \in Threads : u # t => pc'[u] = pc[u] /\ old'[u] = old[u]
<1>a. /\ pc[t] = "refWrite" /\ ref' = old[t] + 1 /\ readers' = readers \ {t} /\ Started(t)
      /\ UNCHANGED <<initFlag, writer, api, left, old, retry, open>>
      /\ pc[t] \notin InUse
  BY DEF RefWrite, Counted, ReleaseShared, InUse
<1>b. /\ Cardinality(Using') = Cardinality(Using) + 1 /\ Using' # {}
      /\ pc'[t] \in {"mon", "ioctx"} /\ \A u \in Threads : u # t => pc'[u] = pc[u]
  BY <1>a, StartedFacts
<1>1. TypeOK'
  <2>1. PICK s \in Places : Goto(t, s)
    BY <1>a, StartedFacts
  <2>2. ref' \in Int
    BY <1>a DEF Base, TypeOK
  <2> QED
    BY <1>a, <2>1, <2>2, InvTypes, TypeStep
<1>2. LockInv'
  BY <1>a, <1>b DEF Base, LockInv
<1>3. t \in readers
  BY <1>a DEF Base, LockInv
<1>4. OpenInv'
  BY <1>a, <1>b DEF Base, OpenInv
<1> QED
  BY <1>1, <1>2, <1>3, <1>4, <1>a, <1>b DEF Base

\* RadosInit on the slow path.
LEMMA SlowCheckStep ==
  ASSUME Base, NEW t \in Threads, SlowCheck(t)
  PROVE  /\ Base' /\ readers' = readers /\ \A u \in Threads : pc'[u] # "refWrite"
         /\ \/ Quiet
            \/ /\ initFlag /\ initFlag' /\ ref' = ref + 1
               /\ Cardinality(Using') = Cardinality(Using) + 1 /\ Using' # {}
<1>a. /\ pc[t] = "slow" /\ writer = NoThread /\ readers = {}
      /\ UNCHANGED <<initFlag, readers, api, left, old, open>>
      /\ "connect" \in Places /\ {"slow", "connect"} \cap InUse = {}
  BY DEF SlowCheck, Places, InUse
<1>n. \A u \in Threads : pc[u] # "refWrite"
  BY <1>a DEF Base, LockInv
<1>1. CASE initFlag
  <2>1. ref' = ref + 1 /\ Started(t) /\ UNCHANGED <<writer, retry>>
    BY <1>1 DEF SlowCheck, Recheck
  <2>2. /\ Cardinality(Using') = Cardinality(Using) + 1 /\ Using' # {}
        /\ pc'[t] \in {"mon", "ioctx"} /\ \A u \in Threads : u # t => pc'[u] = pc[u]
    BY <1>a, <2>1, StartedFacts
  <2>3. TypeOK'
    <3>1. PICK s \in Places : Goto(t, s)
      BY <1>a, <2>1, StartedFacts
    <3> QED
      BY <1>a, <2>1, <3>1, InvTypes, TypeStep
  <2>4. LockInv'
    BY <1>a, <2>1, <2>2 DEF Base, LockInv
  <2>5. \A u \in Threads : pc'[u] # "refWrite"
    BY <1>n, <2>2
  <2>6. OpenInv'
    BY <1>a, <2>2 DEF Base, OpenInv
  <2> QED
    BY <1>1, <1>a, <2>1, <2>2, <2>3, <2>4, <2>5, <2>6 DEF Base
<1>2. CASE ~initFlag
  <2>1. writer' = t /\ retry' = 0 /\ Goto(t, "connect") /\ ref' = ref
    BY <1>2 DEF SlowCheck, Recheck
  <2>2. Using' = Using /\ pc'[t] = "connect" /\ \A u \in Threads : u # t => pc'[u] = pc[u]
    <3>1. pc \in [Threads -> Places]
      BY InvTypes
    <3>2. /\ Using' = IF "connect" \in InUse THEN Using \cup {t} ELSE Using \ {t}
          /\ t \in Using <=> pc[t] \in InUse
          /\ pc'[t] = "connect" /\ \A u \in Threads : u # t => pc'[u] = pc[u]
      BY <1>a, <2>1, <3>1, UsingStep
    <3>3. "connect" \notin InUse /\ t \notin Using
      BY <1>a, <3>2
    <3> QED
      BY <3>2, <3>3
  <2>3. TypeOK'
    <3>1. 0 \in 0..ConnectRetry
      BY RbdAssumption
    <3> QED
      BY <1>a, <2>1, <3>1, InvTypes, TypeStep
  <2>4. LockInv'
    BY <1>2, <1>a, <2>1, <2>2, RbdAssumption DEF Base, LockInv
  <2>5. Quiet /\ \A u \in Threads : pc'[u] # "refWrite"
    BY <1>a, <1>n, <2>1, <2>2 DEF Quiet
  <2>6. OpenInv'
    BY <1>a, <2>2 DEF Base, OpenInv
  <2> QED
    BY <1>a, <2>3, <2>4, <2>5, <2>6 DEF Base
<1> QED
  BY <1>1, <1>2

LEMMA InitFailsStep ==
  ASSUME Base, NEW t \in Threads, InitFails(t)
  PROVE  Base' /\ Quiet
<1>a. /\ pc[t] = "connect" /\ writer' = NoThread /\ Goto(t, "idle")
      /\ UNCHANGED <<initFlag, ref, readers, api, left, old, retry, open>>
      /\ "idle" \in Places /\ {"idle", "connect"} \cap InUse = {}
  BY DEF InitFails, Return, Places, InUse
<1>b. Using' = Using /\ pc'[t] = "idle" /\ \A u \in Threads : u # t => pc'[u] = pc[u]
  BY <1>a, InvTypes, UsingStep
<1>1. TypeOK'
  BY <1>a, InvTypes, TypeStep
<1>2. LockInv'
  <2>1. writer = t /\ \A u \in Threads : u # NoThread
    BY <1>a, RbdAssumption DEF Base, LockInv
  <2> QED
    BY <1>a, <1>b, <2>1 DEF Base, LockInv
<1>3. Quiet
  BY <1>a, <1>b DEF Quiet
<1>4. OpenInv'
  BY <1>a, <1>b DEF Base, OpenInv
<1> QED
  BY <1>1, <1>2, <1>3, <1>4 DEF Base

LEMMA ConnectFailsStep ==
  ASSUME Base, NEW t \in Threads, ConnectFails(t)
  PROVE  Base' /\ Quiet
<1>a. /\ retry < ConnectRetry /\ retry' = retry + 1
      /\ UNCHANGED <<initFlag, ref, readers, writer, pc, api, left, old, open>>
  BY DEF ConnectFails, lockVars
<1>b. Using' = Using
  BY <1>a DEF Using
<1>1. TypeOK'
  BY <1>a, RbdAssumption DEF Base, TypeOK
<1> QED
  BY <1>a, <1>b, <1>1 DEF Base, LockInv, OpenInv, Quiet

\* The thread that holds the exclusive lock finds no client and connects.
LEMMA ConnectedStep ==
  ASSUME Base, NEW t \in Threads, Connected(t)
  PROVE  /\ Base' /\ ref' = 1 /\ initFlag' /\ ~initFlag
         /\ Cardinality(Using') = Cardinality(Using) + 1 /\ Using' # {}
         /\ \A u \in Threads : pc'[u] # "refWrite"
<1>a. /\ pc[t] = "connect" /\ ref' = 1 /\ initFlag' = TRUE /\ writer' = NoThread /\ Started(t)
      /\ UNCHANGED <<readers, api, left, old, retry, open>>
      /\ pc[t] \notin InUse
  BY DEF Connected, InUse
<1>b. /\ Cardinality(Using') = Cardinality(Using) + 1 /\ Using' # {}
      /\ pc'[t] \in {"mon", "ioctx"} /\ \A u \in Threads : u # t => pc'[u] = pc[u]
  BY <1>a, StartedFacts
<1>c. writer = t /\ t # NoThread /\ readers = {} /\ ~initFlag
  BY <1>a, RbdAssumption DEF Base, LockInv
<1>1. TypeOK'
  <2>1. PICK s \in Places : Goto(t, s)
    BY <1>a, StartedFacts
  <2> QED
    BY <1>a, <2>1, InvTypes, TypeStep
<1>2. LockInv'
  <2>1. \A u \in Threads : u # NoThread
    BY RbdAssumption
  <2> QED
    BY <1>a, <1>b, <1>c, <2>1 DEF Base, LockInv
<1>3. \A u \in Threads : pc'[u] # "refWrite"
  BY <1>b, <1>c DEF Base, LockInv
<1>4. OpenInv'
  BY <1>a, <1>b DEF Base, OpenInv
<1> QED
  BY <1>1, <1>2, <1>3, <1>4, <1>a, <1>b, <1>c DEF Base

\* The calls between the two.
LEMMA UseStep ==
  ASSUME Base, NEW t \in Threads, UseClient(t)
  PROVE  Base' /\ Quiet
<1>a. UNCHANGED <<initFlag, ref, readers, writer, api, left, old, retry>>
  BY DEF UseClient, MonCommand, IoctxInit, OpenImage, CloseImage, IoCtxDestroy, lockVars
<1>1. PICK s \in InUse :
        /\ Goto(t, s) /\ pc[t] \in InUse
        /\ \/ s \in {"image", "work", "close"} /\ \E o \in SUBSET {"ioctx", "image"} : open' = [open EXCEPT ![t] = o]
           \/ open' = [open EXCEPT ![t] = {}]
           \/ open' = open /\ pc[t] \in {"mon", "ioctx"}
           \/ open' = open /\ s = "close"
  <2> USE DEF InUse
  <2>1. CASE MonCommand(t)
    BY <2>1 DEF MonCommand
  <2>2. CASE IoctxInit(t)
    <3>1. {"ioctx"} \in SUBSET {"ioctx", "image"}
      OBVIOUS
    <3> QED
      BY <2>2, <3>1 DEF IoctxInit
  <2>3. CASE OpenImage(t)
    <3>1. open[t] \cup {"image"} \in SUBSET {"ioctx", "image"}
      BY InvTypes
    <3> QED
      BY <2>3, <3>1 DEF OpenImage
  <2>4. CASE CloseImage(t)
    <3>1. open[t] \ {"image"} \in SUBSET {"ioctx", "image"}
      BY InvTypes
    <3> QED
      BY <2>4, <3>1 DEF CloseImage
  <2>5. CASE IoCtxDestroy(t)
    BY <2>5 DEF IoCtxDestroy
  <2> QED
    BY <2>1, <2>2, <2>3, <2>4, <2>5 DEF UseClient
<1>2. s \in Places /\ {s, pc[t]} \cap {"refRead", "refWrite", "connect"} = {}
  BY <1>1 DEF Places, InUse
<1>3. LockInv' /\ Quiet
  BY <1>a, <1>1, <1>2, MoveStep
<1>4. TypeOK'
  <2>1. open' = open \/ \E o \in SUBSET {"ioctx", "image"} : open' = [open EXCEPT ![t] = o]
    BY <1>1
  <2> QED
    BY <1>a, <1>1, <1>2, <2>1, InvTypes, TypeStep
<1>5. OpenInv'
  <2>1. pc'[t] = s /\ \A u \in Threads : u # t => pc'[u] = pc[u]
    BY <1>1, <1>2, InvTypes, UsingStep
  <2>2. \A u \in Threads : u # t => open'[u] = open[u]
    BY <1>1 DEF Base, TypeOK
  <2>3. open'[t] # {} => s \in {"image", "work", "close"}
    BY <1>1 DEF Base, TypeOK, OpenInv
  <2> QED
    BY <2>1, <2>2, <2>3 DEF Base, OpenInv
<1> QED
  BY <1>3, <1>4, <1>5 DEF Base

LEMMA ShutdownStep ==
  ASSUME Base, NEW t \in Threads, RadosShutdown(t)
  PROVE  /\ Base' /\ ref' = ref - 1 /\ initFlag' = (initFlag /\ ~(ref - 1 = 0)) /\ readers' = {}
         /\ Using # {} /\ Cardinality(Using') = Cardinality(Using) - 1
         /\ Cardinality(Using') = 0 <=> Using' = {}
         /\ \A u \in Threads : pc'[u] # "refWrite"
<1>a. /\ pc[t] = "put" /\ writer = NoThread /\ readers = {} /\ ref' = ref - 1
      /\ initFlag' = (initFlag /\ ~(ref - 1 = 0)) /\ Goto(t, "idle")
      /\ UNCHANGED <<readers, writer, api, left, old, retry, open>>
      /\ "idle" \in Places /\ "put" \in InUse /\ "idle" \notin InUse
  BY DEF RadosShutdown, Return, LastOut, lockVars, Places, InUse
<1>b. /\ Using' = Using \ {t} /\ t \in Using
      /\ pc'[t] = "idle" /\ \A u \in Threads : u # t => pc'[u] = pc[u]
  BY <1>a, InvTypes, UsingStep
<1>c. Cardinality(Using') = Cardinality(Using) - 1
  BY <1>b, UserCount
<1>d. Cardinality(Using') = 0 <=> Using' = {}
  BY <1>b, UserCount, FS_EmptySet, FS_RemoveElement
<1>1. TypeOK'
  <2>1. ref' \in Int /\ initFlag' \in BOOLEAN
    BY <1>a, InvTypes
  <2> QED
    BY <1>a, <2>1, InvTypes, TypeStep
<1>2. LockInv'
  <2>1. writer' # NoThread => ~initFlag'
    BY <1>a
  <2> QED
    BY <1>a, <1>b, <2>1 DEF Base, LockInv
<1>3. \A u \in Threads : pc'[u] # "refWrite"
  BY <1>a, <1>b DEF Base, LockInv
<1>4. OpenInv'
  BY <1>a, <1>b DEF Base, OpenInv
<1> QED
  BY <1>1, <1>2, <1>3, <1>4, <1>a, <1>b, <1>c, <1>d DEF Base

\* The locks and the types need no count.
LEMMA BaseStep == Base /\ [Next]_vars => Base'
<1> SUFFICES ASSUME Base, [Next]_vars
             PROVE  Base'
  OBVIOUS
<1>1. ASSUME NEW t \in Threads, GetClient(t)
      PROVE  Base'
  BY <1>1, FastCheckStep, RefReadStep, RefWriteStep, SlowCheckStep, InitFailsStep,
     ConnectFailsStep, ConnectedStep DEF GetClient
<1>2. CASE UNCHANGED vars
  BY <1>2 DEF vars, Base, TypeOK, LockInv, OpenInv
<1> QED
  BY <1>1, <1>2, CallStep, UseStep, ShutdownStep DEF Next
-----------------------------------------------------------------------------
(* Counting.                                                               *)

\* What a step does to the count.
LEMMA Cases ==
  ASSUME Base, [Next]_vars
  PROVE  \/ Quiet
         \/ \E t \in Threads : RefWrite(t) \/ SlowCheck(t) \/ Connected(t) \/ RadosShutdown(t)
<1>1. ASSUME NEW t \in Threads, FastCheck(t) \/ RefRead(t) \/ InitFails(t) \/ ConnectFails(t) \/ UseClient(t)
      PROVE  Quiet
  BY <1>1, FastCheckStep, RefReadStep, InitFailsStep, ConnectFailsStep, UseStep
<1>2. CASE UNCHANGED vars
  BY <1>2 DEF vars, Quiet, Using
<1> QED
  BY <1>1, <1>2, CallStep DEF Next, GetClient

\* With one reader at a time ref is the number of users.
LEMMA CountStep ==
  ASSUME RbdInv, OneReader, [Next]_vars
  PROVE  CountInv'
<1>0. /\ Base /\ ref = Cardinality(Using) /\ (initFlag <=> Using # {}) /\ (readers # {} => initFlag)
      /\ \A t \in Threads : pc[t] = "refWrite" => old[t] = ref
  BY DEF RbdInv, CountInv
<1>1. CASE Quiet
  BY <1>0, <1>1 DEF Quiet, CountInv
<1>2. ASSUME NEW t \in Threads, RefWrite(t)
      PROVE  CountInv'
  <2>1. /\ pc[t] = "refWrite" /\ t \in readers /\ ref' = old[t] + 1 /\ initFlag' = initFlag
        /\ Cardinality(Using') = Cardinality(Using) + 1 /\ Using' # {} /\ readers' \subseteq readers
        /\ pc'[t] # "refWrite" /\ \A u \in Threads : u # t => pc'[u] = pc[u]
    BY <1>0, <1>2, RefWriteStep
  <2>2. readers = {t}
    BY <2>1 DEF OneReader
  <2>3. \A u \in Threads : pc'[u] # "refWrite"
    BY <1>0, <2>1, <2>2 DEF Base, LockInv
  <2>4. ref' = Cardinality(Using') /\ (initFlag' <=> Using' # {}) /\ (readers' # {} => initFlag')
    BY <1>0, <2>1
  <2> QED
    BY <2>3, <2>4 DEF CountInv
<1>3. ASSUME NEW t \in Threads, SlowCheck(t)
      PROVE  CountInv'
  <2>1. /\ \A u \in Threads : pc'[u] # "refWrite"
        /\ readers' = readers
        /\ \/ Quiet
           \/ /\ initFlag /\ initFlag' /\ ref' = ref + 1
              /\ Cardinality(Using') = Cardinality(Using) + 1 /\ Using' # {}
    BY <1>0, <1>3, SlowCheckStep
  <2>2. CASE initFlag /\ initFlag' /\ ref' = ref + 1 /\ Cardinality(Using') = Cardinality(Using) + 1 /\ Using' # {}
    BY <1>0, <2>1, <2>2 DEF CountInv
  <2> QED
    BY <1>1, <2>1, <2>2
<1>4. ASSUME NEW t \in Threads, Connected(t)
      PROVE  CountInv'
  <2>1. /\ ref' = 1 /\ initFlag' /\ ~initFlag
        /\ Cardinality(Using') = Cardinality(Using) + 1 /\ Using' # {}
        /\ \A u \in Threads : pc'[u] # "refWrite"
    BY <1>0, <1>4, ConnectedStep
  <2>2. Cardinality(Using) = 0
    BY <1>0, <2>1, UserCount
  <2> QED
    BY <2>1, <2>2 DEF CountInv
<1>5. ASSUME NEW t \in Threads, RadosShutdown(t)
      PROVE  CountInv'
  <2>1. /\ ref' = ref - 1 /\ initFlag' = (initFlag /\ ~(ref - 1 = 0)) /\ readers' = {}
        /\ Using # {} /\ Cardinality(Using') = Cardinality(Using) - 1
        /\ Cardinality(Using') = 0 <=> Using' = {}
        /\ \A u \in Threads : pc'[u] # "refWrite"
    BY <1>0, <1>5, ShutdownStep
  <2>2. ref' = Cardinality(Using') /\ (initFlag' <=> Using' # {})
    BY <1>0, <2>1
  <2> QED
    BY <2>1, <2>2 DEF CountInv
<1> QED
  BY <1>0, <1>1, <1>2, <1>3, <1>4, <1>5, Cases

\* However they race, ref is at most that and at least 1.
LEMMA LowStep ==
  ASSUME Base, LowInv, [Next]_vars
  PROVE  LowInv'
<1>0. /\ Cardinality(Using) \in Nat
      /\ readers # {} => initFlag
      /\ initFlag => ref \in 1..Cardinality(Using)
      /\ \A t \in Threads : pc[t] = "refWrite" => old[t] \in 1..Cardinality(Using)
  BY UserCount DEF LowInv
<1>1. CASE Quiet
  BY <1>0, <1>1 DEF Quiet, LowInv
<1>2. ASSUME NEW t \in Threads, RefWrite(t)
      PROVE  LowInv'
  <2>1. /\ pc[t] = "refWrite" /\ t \in readers /\ ref' = old[t] + 1 /\ initFlag' = initFlag
        /\ Cardinality(Using') = Cardinality(Using) + 1 /\ readers' \subseteq readers
        /\ pc'[t] # "refWrite" /\ \A u \in Threads : u # t => pc'[u] = pc[u] /\ old'[u] = old[u]
    BY <1>2, RefWriteStep
  <2>2. \A n \in 1..Cardinality(Using) : n + 1 \in 1..Cardinality(Using') /\ n \in 1..Cardinality(Using')
    BY <1>0, <2>1
  <2>3. ref' \in 1..Cardinality(Using')
    BY <1>0, <2>1, <2>2
  <2>4. \A u \in Threads : pc'[u] = "refWrite" => old'[u] \in 1..Cardinality(Using')
    BY <1>0, <2>1, <2>2
  <2> QED
    BY <1>0, <2>1, <2>3, <2>4 DEF LowInv
<1>3. ASSUME NEW t \in Threads, SlowCheck(t)
      PROVE  LowInv'
  <2>1. /\ \A u \in Threads : pc'[u] # "refWrite"
        /\ readers' = readers
        /\ \/ Quiet
           \/ /\ initFlag /\ initFlag' /\ ref' = ref + 1
              /\ Cardinality(Using') = Cardinality(Using) + 1 /\ Using' # {}
    BY <1>3, SlowCheckStep
  <2>2. CASE initFlag /\ initFlag' /\ ref' = ref + 1 /\ Cardinality(Using') = Cardinality(Using) + 1
    <3>1. ref' \in 1..Cardinality(Using')
      BY <1>0, <2>2
    <3> QED
      BY <2>1, <2>2, <3>1 DEF LowInv
  <2> QED
    BY <1>1, <2>1, <2>2
<1>4. ASSUME NEW t \in Threads, Connected(t)
      PROVE  LowInv'
  <2>1. /\ ref' = 1 /\ initFlag' /\ Cardinality(Using') = Cardinality(Using) + 1
        /\ \A u \in Threads : pc'[u] # "refWrite"
    BY <1>4, ConnectedStep
  <2>2. ref' \in 1..Cardinality(Using')
    BY <1>0, <2>1
  <2> QED
    BY <2>1, <2>2 DEF LowInv
<1>5. ASSUME NEW t \in Threads, RadosShutdown(t)
      PROVE  LowInv'
  <2>1. /\ ref' = ref - 1 /\ initFlag' = (initFlag /\ ~(ref - 1 = 0)) /\ readers' = {}
        /\ Cardinality(Using') = Cardinality(Using) - 1
        /\ \A u \in Threads : pc'[u] # "refWrite"
    BY <1>5, ShutdownStep
  <2>2. initFlag' => ref' \in 1..Cardinality(Using')
    <3> SUFFICES ASSUME initFlag' PROVE ref' \in 1..Cardinality(Using')
      OBVIOUS
    <3>a. initFlag /\ ~(ref - 1 = 0)
      BY <2>1, Zenon
    <3>1. ref \in 1..Cardinality(Using) /\ ref # 1
      BY <1>0, <3>a
    <3> QED
      BY <1>0, <2>1, <3>1
  <2> QED
    BY <2>1, <2>2 DEF LowInv
<1> QED
  BY <1>1, <1>2, <1>3, <1>4, <1>5, Cases
-----------------------------------------------------------------------------
(* The theorems.                                                           *)

LEMMA RbdInit == Init => RbdInv /\ LowInv
<1> SUFFICES ASSUME Init PROVE RbdInv /\ LowInv
  OBVIOUS
<1>1. TypeOK
  <2>1. left \in [Threads -> 0..Calls] /\ retry \in 0..ConnectRetry /\ old \in [Threads -> Int]
    BY RbdAssumption DEF Init
  <2>2. api \in [Threads -> Apis] /\ open \in [Threads -> SUBSET {"ioctx", "image"}]
    BY DEF Init, Apis
  <2>3. ref \in Int /\ readers \subseteq Threads /\ writer \in Threads \cup {NoThread}
    BY DEF Init
  <2>a. initFlag \in BOOLEAN
    BY Zenon DEF Init
  <2>4. pc \in [Threads -> {"idle", "fast", "refRead", "refWrite", "slow", "connect", "mon",
                            "ioctx", "image", "work", "close", "put"}]
    BY DEF Init
  <2> QED
    BY <2>1, <2>2, <2>3, <2>4, <2>a DEF TypeOK
<1>2. LockInv
  BY RbdAssumption DEF Init, LockInv
<1>3. CountInv
  <2>1. Using = {}
    BY DEF Init, Using
  <2> QED
    BY <2>1, FS_EmptySet DEF Init, CountInv
<1>4. OpenInv /\ LowInv
  BY DEF Init, OpenInv, LowInv
<1> QED
  BY <1>1, <1>2, <1>3, <1>4 DEF RbdInv, Base

LEMMA RbdStep == RbdInv /\ OneReader /\ [Next]_vars => RbdInv'
  BY BaseStep, CountStep DEF RbdInv

\* What the invariant says of the client.
LEMMA RbdGoals == RbdInv => ClientUp /\ NotLeftUp
<1> SUFFICES ASSUME RbdInv PROVE ClientUp /\ NotLeftUp
  OBVIOUS
<1>1. ClientUp
  BY DEF RbdInv, Base, CountInv, OpenInv, ClientUp, Using
<1>2. NotLeftUp
  BY DEF RbdInv, CountInv, NotLeftUp
<1> QED
  BY <1>1, <1>2

\* However many threads call: as long as no two of them do ref++ in
\* FastInitRados at the same time, nobody loses the client from under a
\* context or an image, and the last one out shuts it down.  The unguarded
\* ref++ is the only thing that can go wrong.
THEOREM ClientSafeWithoutRace == Spec /\ []OneReader => [](ClientUp /\ NotLeftUp)
<1>1. Spec /\ []OneReader => []RbdInv
  BY RbdInit, RbdStep, PTL DEF Spec
<1> QED
  BY <1>1, RbdGoals, PTL

\* However many threads call and however ref++ races: the client does not stay
\* connected with nobody to give it back.  The lost counts make ref too small,
\* never too big.
THEOREM ClientNeverLeaked == Spec => []NeverLeaked
<1>1. Base /\ LowInv => NeverLeaked
  <2> SUFFICES ASSUME LowInv, initFlag PROVE Using # {}
    BY DEF NeverLeaked
  <2>1. Cardinality(Using) # 0
    BY UserCount DEF LowInv
  <2> QED
    BY <2>1, UserCount
<1>2. Init => Base /\ LowInv
  BY RbdInit DEF RbdInv
<1>3. Base /\ LowInv /\ [Next]_vars => (Base /\ LowInv)'
  BY BaseStep, LowStep
<1> QED
  BY <1>1, <1>2, <1>3, PTL DEF Spec
=============================================================================
