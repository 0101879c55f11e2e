---------------------------- MODULE AdaptorProofs ----------------------------
(***************************************************************************)
(* For any classes without a cycle of dependencies, any threads and any     *)
(* number of starts and stops of the adaptor: a class is open only with all *)
(* its dependencies open, and each library is opened and initialised once.  *)
(*                                                                          *)
(* Neither is inductive: what holds while the loader is at work is a        *)
(* statement about its stack. The classes under the top have their library  *)
(* and wait; heights grow down the stack, so that no class is on it twice   *)
(* and the one that becomes open is none of those that wait.                *)
(*                                                                          *)
(* The second part is about OSA_Init, OSA_Finish and the server thread:     *)
(* what OSA_Init returns is true, and the handler is there whenever the     *)
(* module is, but for the beginning of OSA_Init.                            *)
(***************************************************************************)
EXTENDS Adaptor, TLAPS

Height == CHOOSE h \in [Classes -> 0..Cardinality(Classes)] : IsHeight(h)

\* The mutex, the stack and the thread in open_class belong together.
Locked ==
  /\ \A t \in Threads : pc[t] = "load" <=> mutex = t
  /\ mutex = NoThread <=> stack = <<>>

\* A thread in a call has a class; rpc_init has one of its list.
Named ==
  /\ \A t \in Threads : pc[t] # "idle" => cname[t] \in Classes
  /\ pc[Main] \in {"idle", "open", "load"}
  /\ pc[Main] # "idle" => \E k \in DOMAIN ClassList : cname[Main] = ClassList[k]

\* The loader is past the opening of c's library and not done with c.
AtWork(c) ==
  \/ \E i \in 2..Len(stack) : stack[i] = c
  \/ Loading("resolve") /\ stack[1] = c

\* What is missing is a dependency with an entry, and an open class misses none.
MissingKnown == \A c \in Classes :
  /\ missing[c] \subseteq Deps[c]
  /\ \A d \in missing[c] : status[d] # "absent"
  /\ status[c] = "open" => missing[c] = {}

\* A class that got somewhere has its library open.
HandleKnown == \A c \in Classes :
  /\ status[c] \in {"missing_deps", "initializing", "open"} => handle[c]
  /\ status[c] = "absent" => ~handle[c]
  /\ handle[c] /\ status[c] \in {"unknown", "missing"} => AtWork(c)

\* Once the library is open, a dependency is open or still missing.
DepsSettled == \A c \in Classes : handle[c] =>
  \A d \in Deps[c] : status[d] = "open" \/ d \in missing[c]

\* The classes under the top wait, each for the one above.
Waiting ==
  /\ \A i \in 1..Len(stack) : status[stack[i]] # "absent"
  /\ \A i \in 2..Len(stack) : handle[stack[i]] /\ status[stack[i]] # "open"

Rising == \A i, j \in 1..Len(stack) : i < j => Height[stack[i]] < Height[stack[j]]

\* The class on top.
AtTop == stack # <<>> =>
  /\ step \in {"resolve", "init"} => handle[stack[1]] /\ status[stack[1]] # "open"
  /\ step = "init" => stack[1] \in Inits /\ missing[stack[1]] = {}
  /\ step = "return" /\ ret = 0 => status[stack[1]] = "open"

\* The table and the loader, and the threads.
TableInv ==
  /\ MissingKnown /\ HandleKnown /\ DepsSettled /\ Waiting /\ Rising /\ AtTop /\ LoadedOnce

ClassInv == ClassTypeOK /\ Locked /\ Named /\ TableInv

\* Only rpc_init takes the main thread into open_class.
MainInv == pc[Main] # "idle" => ctl = "rpc"

LoaderInv == ClassInv /\ MainInv

-----------------------------------------------------------------------------
\* There is a height, by the assumption that the dependencies have no cycle.
LEMMA HeightExists == Height \in [Classes -> Nat] /\ IsHeight(Height)
  BY Acyclic DEF Height

\* A sequence with one more element in front, as _load_class calls itself.
LEMMA Pushed ==
  ASSUME NEW S, NEW s \in Seq(S), NEW d \in S
  PROVE  /\ <<d>> \o s \in Seq(S)
         /\ Len(<<d>> \o s) = Len(s) + 1
         /\ (<<d>> \o s)[1] = d
         /\ \A i \in 1..Len(s) : (<<d>> \o s)[i + 1] = s[i]
         /\ \A i \in 2..(Len(s) + 1) : (<<d>> \o s)[i] = s[i - 1]
  OBVIOUS

\* A sequence without its first element, as _load_class returns.
LEMMA Popped ==
  ASSUME NEW S, NEW s \in Seq(S), s # <<>>
  PROVE  /\ Head(s) = s[1] /\ s[1] \in S
         /\ Len(s) \in Nat /\ Len(s) > 0
         /\ Tail(s) \in Seq(S)
         /\ Len(Tail(s)) = Len(s) - 1
         /\ \A i \in 1..(Len(s) - 1) : Tail(s)[i] = s[i + 1]
  OBVIOUS

\* A thread's step outside the loader leaves the table as it is.
LEMMA TableKept ==
  ASSUME TableInv, UNCHANGED <<table, loader>>
  PROVE  TableInv'
  BY DEF TableInv, table, loader, MissingKnown, HandleKnown, DepsSettled, Waiting, Rising, AtTop,
         AtWork, Loading, LoadedOnce, Opened

\* The top of a stack, and the classes under it, none of which is the top:
\* heights grow down the stack.
LEMMA OnStack ==
  ASSUME ClassTypeOK, Rising, stack # <<>>
  PROVE  /\ stack \in Seq(Classes) /\ stack[1] \in Classes /\ Top = stack[1]
         /\ Len(stack) \in Nat /\ Len(stack) > 0
         /\ \A i \in 1..Len(stack) : stack[i] \in Classes
         /\ \A i \in 2..Len(stack) : stack[i] # stack[1]
<1>1. stack \in Seq(Classes)
  BY DEF ClassTypeOK
<1>2. stack[1] \in Classes /\ Top = stack[1] /\ Len(stack) \in Nat /\ Len(stack) > 0
  BY <1>1, Popped DEF Top
<1>3. \A i \in 1..Len(stack) : stack[i] \in Classes
  BY <1>1
<1>4. ASSUME NEW i \in 2..Len(stack) PROVE stack[i] # stack[1]
  <2>1. 1 \in 1..Len(stack) /\ i \in 1..Len(stack) /\ 1 < i
    BY <1>2
  <2>2. Height[stack[1]] < Height[stack[i]]
    BY <2>1 DEF Rising
  <2>3. Height[stack[1]] \in Nat
    BY <1>2, HeightExists
  <2> QED
    BY <2>2, <2>3
<1> QED
  BY <1>1, <1>2, <1>3, <1>4

-----------------------------------------------------------------------------
(* The steps of _load_class.                                                *)

\* A dependency that is already open returns at once.
LEMMA AlreadyOpenStep == ClassInv /\ AlreadyOpen => ClassInv'
<1> SUFFICES ASSUME ClassInv, AlreadyOpen PROVE ClassInv'
  OBVIOUS
<1> USE DEF ClassInv, TableInv
<1>0. /\ stack \in Seq(Classes) /\ stack # <<>> /\ stack[1] \in Classes /\ Top = stack[1] /\ Len(stack) \in Nat
      /\ \A i \in 2..Len(stack) : stack[i] \in Classes /\ stack[i] # stack[1]
  BY OnStack DEF AlreadyOpen, Loading
<1>1. ClassTypeOK'
  BY <1>0 DEF AlreadyOpen, ClassTypeOK, Loading, Top, LoadReturn, table, Statuses
<1>2. Locked'
  BY <1>0 DEF AlreadyOpen, ClassTypeOK, Loading, Top, LoadReturn, table, Locked
<1>3. Named'
  BY <1>0 DEF AlreadyOpen, ClassTypeOK, Loading, Top, LoadReturn, table, Named
<1>4. MissingKnown'
  BY <1>0 DEF AlreadyOpen, ClassTypeOK, Loading, Top, LoadReturn, table, MissingKnown,
     Waiting, AtTop
<1>5. HandleKnown'
  BY <1>0 DEF AlreadyOpen, ClassTypeOK, Loading, Top, LoadReturn, table, HandleKnown,
     AtWork, Waiting, AtTop
<1>6. DepsSettled'
  BY <1>0 DEF AlreadyOpen, ClassTypeOK, Loading, Top, LoadReturn, table, DepsSettled,
     Waiting, AtTop
<1>7. Waiting'
  BY <1>0 DEF AlreadyOpen, ClassTypeOK, Loading, Top, LoadReturn, table, Waiting,
     HandleKnown, AtTop
<1>8. Rising'
  BY <1>0 DEF AlreadyOpen, ClassTypeOK, Loading, Top, LoadReturn, table, Rising
<1>9. AtTop'
  BY <1>0 DEF AlreadyOpen, ClassTypeOK, Loading, Top, LoadReturn, table, AtTop, Waiting,
     HandleKnown, MissingKnown, Statuses
<1>10. LoadedOnce'
  BY <1>0 DEF AlreadyOpen, ClassTypeOK, Loading, Top, LoadReturn, table, LoadedOnce,
     Opened, Waiting, AtTop
<1> QED
  BY <1>1, <1>2, <1>3, <1>4, <1>5, <1>6, <1>7, <1>8, <1>9, <1>10

\* A library that cannot be opened.
LEMMA DlopenFailsStep == ClassInv /\ DlopenFails => ClassInv'
<1> SUFFICES ASSUME ClassInv, DlopenFails PROVE ClassInv'
  OBVIOUS
<1> USE DEF ClassInv, TableInv
<1>0. /\ stack \in Seq(Classes) /\ stack # <<>> /\ stack[1] \in Classes /\ Top = stack[1] /\ Len(stack) \in Nat
      /\ \A i \in 2..Len(stack) : stack[i] \in Classes /\ stack[i] # stack[1]
  BY OnStack DEF DlopenFails, Loading
<1>1. ClassTypeOK'
  BY <1>0 DEF DlopenFails, ClassTypeOK, Loading, Top, LoadReturn, NeedsDlopen,
     Statuses
<1>2. Locked'
  BY <1>0 DEF DlopenFails, ClassTypeOK, Loading, Top, LoadReturn, NeedsDlopen,
     Locked
<1>3. Named'
  BY <1>0 DEF DlopenFails, ClassTypeOK, Loading, Top, LoadReturn, NeedsDlopen, Named
<1>4. MissingKnown'
  BY <1>0 DEF DlopenFails, ClassTypeOK, Loading, Top, LoadReturn, NeedsDlopen,
     MissingKnown, Waiting, AtTop
<1>5. HandleKnown'
  BY <1>0 DEF DlopenFails, ClassTypeOK, Loading, Top, LoadReturn, NeedsDlopen,
     HandleKnown, AtWork, Waiting, AtTop
<1>6. DepsSettled'
  BY <1>0 DEF DlopenFails, ClassTypeOK, Loading, Top, LoadReturn, NeedsDlopen,
     DepsSettled, Waiting, AtTop
<1>7. Waiting'
  BY <1>0 DEF DlopenFails, ClassTypeOK, Loading, Top, LoadReturn, NeedsDlopen,
     Waiting, HandleKnown, AtTop
<1>8. Rising'
  BY <1>0 DEF DlopenFails, ClassTypeOK, Loading, Top, LoadReturn, NeedsDlopen,
     Rising
<1>9. AtTop'
  BY <1>0 DEF DlopenFails, ClassTypeOK, Loading, Top, LoadReturn, NeedsDlopen,
     AtTop, Waiting, HandleKnown, MissingKnown, Statuses
<1>10. LoadedOnce'
  BY <1>0 DEF DlopenFails, ClassTypeOK, Loading, Top, LoadReturn, NeedsDlopen,
     LoadedOnce, Opened, Waiting, AtTop
<1> QED
  BY <1>1, <1>2, <1>3, <1>4, <1>5, <1>6, <1>7, <1>8, <1>9, <1>10

\* The library is opened, and the dependencies that are not open are to be loaded.
LEMMA DlopenStep == ClassInv /\ Dlopen => ClassInv'
<1> SUFFICES ASSUME ClassInv, Dlopen PROVE ClassInv'
  OBVIOUS
<1> USE DEF ClassInv, TableInv
<1>0. /\ stack \in Seq(Classes) /\ stack # <<>> /\ stack[1] \in Classes /\ Top = stack[1] /\ Len(stack) \in Nat
      /\ \A i \in 2..Len(stack) : stack[i] \in Classes /\ stack[i] # stack[1]
  BY OnStack DEF Dlopen, Loading
<1>a. status' \in [Classes -> Statuses]
  BY DEF Dlopen, WithEntries, ClassTypeOK, Statuses
<1>b. missing' \in [Classes -> SUBSET Classes]
  BY <1>0, ClassAssumption DEF Dlopen, UnopenedDeps, ClassTypeOK
<1>c. handle' \in [Classes -> BOOLEAN] /\ opens' \in [Classes -> Nat]
  BY <1>0 DEF Dlopen, ClassTypeOK
<1>1. ClassTypeOK'
  BY <1>a, <1>b, <1>c DEF Dlopen, ClassTypeOK
<1>2. Locked'
  BY <1>0, ClassAssumption DEF Dlopen, ClassTypeOK, Loading, Top, NeedsDlopen,
     WithEntries, UnopenedDeps, Locked
<1>3. Named'
  BY <1>0, ClassAssumption DEF Dlopen, ClassTypeOK, Loading, Top, NeedsDlopen,
     WithEntries, UnopenedDeps, Named
<1>4. MissingKnown'
  BY <1>0, ClassAssumption DEF Dlopen, ClassTypeOK, Loading, Top, NeedsDlopen,
     WithEntries, UnopenedDeps, MissingKnown, Waiting
<1>5. HandleKnown'
  BY <1>0, ClassAssumption DEF Dlopen, ClassTypeOK, Loading, Top, NeedsDlopen,
     WithEntries, UnopenedDeps, HandleKnown, AtWork, Waiting, AtTop, Statuses
<1>6. DepsSettled'
  BY <1>0, ClassAssumption DEF Dlopen, ClassTypeOK, Loading, Top, NeedsDlopen,
     WithEntries, UnopenedDeps, DepsSettled, HandleKnown, AtWork
<1>7. Waiting'
  BY <1>0, ClassAssumption DEF Dlopen, ClassTypeOK, Loading, Top, NeedsDlopen,
     WithEntries, UnopenedDeps, Waiting, HandleKnown, AtTop
<1>8. Rising'
  BY <1>0, ClassAssumption DEF Dlopen, ClassTypeOK, Loading, Top, NeedsDlopen,
     WithEntries, UnopenedDeps, Rising
<1>9. AtTop'
  BY <1>0, ClassAssumption DEF Dlopen, ClassTypeOK, Loading, Top, NeedsDlopen,
     WithEntries, UnopenedDeps, AtTop, Waiting, HandleKnown, MissingKnown, Statuses
<1>d. ~handle[stack[1]]
  BY <1>0 DEF Dlopen, Loading, NeedsDlopen, HandleKnown, AtWork
<1>e. Opened' = Opened
  BY DEF Dlopen, WithEntries, Opened
<1>10. LoadedOnce'
  BY <1>0, <1>d, <1>e DEF Dlopen, ClassTypeOK, LoadedOnce
<1> QED
  BY <1>1, <1>2, <1>3, <1>4, <1>5, <1>6, <1>7, <1>8, <1>9, <1>10

\* A class that waits for its dependencies is tried again.
LEMMA SkipDlopenStep == ClassInv /\ SkipDlopen => ClassInv'
<1> SUFFICES ASSUME ClassInv, SkipDlopen PROVE ClassInv'
  OBVIOUS
<1> USE DEF ClassInv, TableInv
<1>0. /\ stack \in Seq(Classes) /\ stack # <<>> /\ stack[1] \in Classes /\ Top = stack[1] /\ Len(stack) \in Nat
      /\ \A i \in 2..Len(stack) : stack[i] \in Classes /\ stack[i] # stack[1]
  BY OnStack DEF SkipDlopen, Loading
<1>1. ClassTypeOK'
  BY <1>0 DEF SkipDlopen, ClassTypeOK, Loading, Top, NeedsDlopen, table, Statuses
<1>2. Locked'
  BY <1>0 DEF SkipDlopen, ClassTypeOK, Loading, Top, NeedsDlopen, table, Locked
<1>3. Named'
  BY <1>0 DEF SkipDlopen, ClassTypeOK, Loading, Top, NeedsDlopen, table, Named
<1>4. MissingKnown'
  BY <1>0 DEF SkipDlopen, ClassTypeOK, Loading, Top, NeedsDlopen, table, MissingKnown,
     Waiting, AtTop
<1>5. HandleKnown'
  BY <1>0 DEF SkipDlopen, ClassTypeOK, Loading, Top, NeedsDlopen, table, HandleKnown,
     AtWork
<1>6. DepsSettled'
  BY <1>0 DEF SkipDlopen, ClassTypeOK, Loading, Top, NeedsDlopen, table, DepsSettled,
     Waiting, AtTop
<1>7. Waiting'
  BY <1>0 DEF SkipDlopen, ClassTypeOK, Loading, Top, NeedsDlopen, table, Waiting,
     HandleKnown, AtTop
<1>8. Rising'
  BY <1>0 DEF SkipDlopen, ClassTypeOK, Loading, Top, NeedsDlopen, table, Rising
<1>9. AtTop'
  BY <1>0 DEF SkipDlopen, ClassTypeOK, Loading, Top, NeedsDlopen, table, AtTop, Waiting,
     HandleKnown, MissingKnown, Statuses
<1>10. LoadedOnce'
  BY <1>0 DEF SkipDlopen, ClassTypeOK, Loading, Top, NeedsDlopen, table, LoadedOnce,
     Opened, Waiting, AtTop
<1> QED
  BY <1>1, <1>2, <1>3, <1>4, <1>5, <1>6, <1>7, <1>8, <1>9, <1>10

\* The class is about to be initialised.
LEMMA InitClassStep == ClassInv /\ InitClass => ClassInv'
<1> SUFFICES ASSUME ClassInv, InitClass PROVE ClassInv'
  OBVIOUS
<1> USE DEF ClassInv, TableInv
<1>0. /\ stack \in Seq(Classes) /\ stack # <<>> /\ stack[1] \in Classes /\ Top = stack[1] /\ Len(stack) \in Nat
      /\ \A i \in 2..Len(stack) : stack[i] \in Classes /\ stack[i] # stack[1]
  BY OnStack DEF InitClass, Loading
<1>1. ClassTypeOK'
  BY <1>0 DEF InitClass, ClassTypeOK, Loading, Top, Statuses
<1>2. Locked'
  BY <1>0 DEF InitClass, ClassTypeOK, Loading, Top, Locked
<1>3. Named'
  BY <1>0 DEF InitClass, ClassTypeOK, Loading, Top, Named
<1>4. MissingKnown'
  BY <1>0 DEF InitClass, ClassTypeOK, Loading, Top, MissingKnown, Waiting, AtTop
<1>5. HandleKnown'
  BY <1>0 DEF InitClass, ClassTypeOK, Loading, Top, HandleKnown, AtWork, Waiting,
     AtTop
<1>6. DepsSettled'
  BY <1>0 DEF InitClass, ClassTypeOK, Loading, Top, DepsSettled, Waiting, AtTop
<1>7. Waiting'
  BY <1>0 DEF InitClass, ClassTypeOK, Loading, Top, Waiting, HandleKnown, AtTop
<1>8. Rising'
  BY <1>0 DEF InitClass, ClassTypeOK, Loading, Top, Rising
<1>9. AtTop'
  BY <1>0 DEF InitClass, ClassTypeOK, Loading, Top, AtTop, Waiting, HandleKnown,
     MissingKnown, Statuses
<1>10. LoadedOnce'
  BY <1>0 DEF InitClass, ClassTypeOK, Loading, Top, LoadedOnce, Opened, Waiting,
     AtTop
<1> QED
  BY <1>1, <1>2, <1>3, <1>4, <1>5, <1>6, <1>7, <1>8, <1>9, <1>10

\* The class becomes open.
LEMMA ClassOpenStep == ClassInv /\ ClassOpen => ClassInv'
<1> SUFFICES ASSUME ClassInv, ClassOpen PROVE ClassInv'
  OBVIOUS
<1> USE DEF ClassInv, TableInv
<1>0. /\ stack \in Seq(Classes) /\ stack # <<>> /\ stack[1] \in Classes /\ Top = stack[1] /\ Len(stack) \in Nat
      /\ \A i \in 2..Len(stack) : stack[i] \in Classes /\ stack[i] # stack[1]
  BY OnStack DEF ClassOpen, Loading
<1>1. ClassTypeOK'
  BY <1>0 DEF ClassOpen, ClassTypeOK, Loading, Top, LoadReturn, Statuses
<1>2. Locked'
  BY <1>0 DEF ClassOpen, ClassTypeOK, Loading, Top, LoadReturn, Locked
<1>3. Named'
  BY <1>0 DEF ClassOpen, ClassTypeOK, Loading, Top, LoadReturn, Named
<1>4. MissingKnown'
  BY <1>0 DEF ClassOpen, ClassTypeOK, Loading, Top, LoadReturn, MissingKnown,
     Waiting, AtTop
<1>5. HandleKnown'
  BY <1>0 DEF ClassOpen, ClassTypeOK, Loading, Top, LoadReturn, HandleKnown, AtWork,
     Waiting, AtTop
<1>6. DepsSettled'
  BY <1>0 DEF ClassOpen, ClassTypeOK, Loading, Top, LoadReturn, DepsSettled,
     Waiting, AtTop
<1>7. Waiting'
  BY <1>0 DEF ClassOpen, ClassTypeOK, Loading, Top, LoadReturn, Waiting,
     HandleKnown, AtTop
<1>8. Rising'
  BY <1>0 DEF ClassOpen, ClassTypeOK, Loading, Top, LoadReturn, Rising
<1>9. AtTop'
  BY <1>0 DEF ClassOpen, ClassTypeOK, Loading, Top, LoadReturn, AtTop, Waiting,
     HandleKnown, MissingKnown, Statuses
<1>10. LoadedOnce'
  BY <1>0 DEF ClassOpen, ClassTypeOK, Loading, Top, LoadReturn, LoadedOnce, Opened,
     Waiting, AtTop
<1> QED
  BY <1>1, <1>2, <1>3, <1>4, <1>5, <1>6, <1>7, <1>8, <1>9, <1>10

\* A missing dependency is loaded: it is lower than the class that needs it.
LEMMA LoadDependencyStep == ClassInv /\ LoadDependency => ClassInv'
<1> SUFFICES ASSUME ClassInv, LoadDependency PROVE ClassInv'
  OBVIOUS
<1> USE DEF ClassInv, TableInv
<1>0. /\ stack \in Seq(Classes) /\ stack # <<>> /\ stack[1] \in Classes /\ Top = stack[1]
      /\ Len(stack) \in Nat /\ Len(stack) > 0
      /\ \A i \in 1..Len(stack) : stack[i] \in Classes
  BY OnStack DEF LoadDependency, Loading
<1>a. \E d \in missing[Top] : stack' = <<d>> \o stack
  BY DEF LoadDependency
<1>p. PICK d \in missing[stack[1]] : stack' = <<d>> \o stack
  BY <1>0, <1>a
<1>b. d \in Classes /\ d \in Deps[stack[1]] /\ status[d] # "absent"
  BY <1>0, <1>p DEF ClassTypeOK, MissingKnown
<1>c. /\ stack' \in Seq(Classes) /\ Len(stack') = Len(stack) + 1 /\ stack'[1] = d
      /\ \A i \in 1..Len(stack) : stack'[i + 1] = stack[i]
      /\ \A i \in 2..(Len(stack) + 1) : stack'[i] = stack[i - 1]
  BY <1>0, <1>b, <1>p, Pushed
<1>d. stack' # <<>>
  BY <1>0, <1>c
<1>e. UNCHANGED table /\ step = "resolve" /\ step' = "enter"
  BY DEF LoadDependency, Loading
<1>1. ClassTypeOK'
  BY <1>c DEF LoadDependency, ClassTypeOK, table
<1>2. Locked'
  BY <1>0, <1>d DEF LoadDependency, Locked
<1>3. Named'
  BY DEF LoadDependency, Named
<1>4. MissingKnown' /\ DepsSettled' /\ LoadedOnce'
  BY <1>e DEF table, MissingKnown, DepsSettled, LoadedOnce, Opened
<1>5. HandleKnown'
  <2>1. ASSUME NEW c \in Classes, AtWork(c) PROVE AtWork(c)'
    <3>1. CASE \E i \in 2..Len(stack) : stack[i] = c
      <4>1. PICK i \in 2..Len(stack) : stack[i] = c
        BY <3>1
      <4>2. i + 1 \in 2..Len(stack') /\ stack'[i + 1] = c
        BY <1>0, <1>c, <4>1
      <4> QED
        BY <4>2 DEF AtWork
    <3>2. CASE stack[1] = c
      <4>1. 2 \in 2..Len(stack') /\ stack'[2] = c
        BY <1>0, <1>c, <3>2
      <4> QED
        BY <4>1 DEF AtWork
    <3> QED
      BY <2>1, <3>1, <3>2 DEF AtWork
  <2> QED
    BY <1>e, <2>1 DEF table, HandleKnown
<1>6. Waiting'
  <2>1. handle[stack[1]] /\ status[stack[1]] # "open"
    BY <1>0, <1>e DEF AtTop
  <2>2. ASSUME NEW i \in 1..Len(stack') PROVE status[stack'[i]] # "absent"
    <3>1. CASE i = 1
      BY <1>b, <1>c, <3>1
    <3>2. CASE i # 1
      <4>1. i - 1 \in 1..Len(stack) /\ stack'[i] = stack[i - 1]
        BY <1>0, <1>c, <3>2
      <4> QED
        BY <4>1 DEF Waiting
    <3> QED
      BY <3>1, <3>2
  <2>3. ASSUME NEW i \in 2..Len(stack') PROVE handle[stack'[i]] /\ status[stack'[i]] # "open"
    <3>1. i - 1 \in 1..Len(stack) /\ stack'[i] = stack[i - 1]
      BY <1>0, <1>c
    <3> QED
      BY <1>0, <2>1, <3>1 DEF Waiting
  <2> QED
    BY <1>e, <2>2, <2>3 DEF Waiting, table
<1>7. Rising'
  <2>1. Height[d] < Height[stack[1]] /\ Height[d] \in Nat
    BY <1>0, <1>b, HeightExists DEF IsHeight
  <2>2. ASSUME NEW j \in 1..Len(stack) PROVE Height[d] < Height[stack[j]]
    <3>1. CASE j = 1
      BY <2>1, <3>1
    <3>2. CASE j # 1
      <4>1. Height[stack[1]] < Height[stack[j]]
        BY <1>0, <3>2 DEF Rising
      <4>2. Height[stack[1]] \in Nat /\ Height[stack[j]] \in Nat
        BY <1>0, HeightExists
      <4> QED
        BY <2>1, <4>1, <4>2
    <3> QED
      BY <3>1, <3>2
  <2>3. ASSUME NEW i \in 1..Len(stack'), NEW j \in 1..Len(stack'), i < j
        PROVE  Height[stack'[i]] < Height[stack'[j]]
    <3>1. j - 1 \in 1..Len(stack) /\ stack'[j] = stack[j - 1]
      BY <1>0, <1>c, <2>3
    <3>2. CASE i = 1
      BY <1>c, <2>2, <3>1, <3>2
    <3>3. CASE i # 1
      <4>1. i - 1 \in 1..Len(stack) /\ stack'[i] = stack[i - 1] /\ i - 1 < j - 1
        BY <1>0, <1>c, <2>3, <3>3
      <4> QED
        BY <3>1, <4>1 DEF Rising
    <3> QED
      BY <3>2, <3>3
  <2> QED
    BY <2>3 DEF Rising
<1>8. AtTop'
  BY <1>e DEF AtTop
<1> QED
  BY <1>1, <1>2, <1>3, <1>4, <1>5, <1>6, <1>7, <1>8

\* A dependency returns to the class that needs it.
LEMMA DependencyReturnsStep == ClassInv /\ DependencyReturns => ClassInv'
<1> SUFFICES ASSUME ClassInv, DependencyReturns PROVE ClassInv'
  OBVIOUS
<1> USE DEF ClassInv, TableInv
<1>p. PICK p : p = stack[2]
  OBVIOUS
<1>0. /\ stack \in Seq(Classes) /\ stack # <<>> /\ stack[1] \in Classes /\ Top = stack[1]
      /\ Len(stack) \in Nat /\ Len(stack) > 1
      /\ \A i \in 1..Len(stack) : stack[i] \in Classes
      /\ \A i \in 2..Len(stack) : stack[i] # stack[1]
  BY OnStack DEF DependencyReturns, Loading
<1>a. p \in Classes /\ p # stack[1] /\ handle[p] /\ status[p] # "open" /\ status[p] # "absent"
  BY <1>0, <1>p DEF Waiting
<1>b. /\ stack' \in Seq(Classes) /\ Len(stack') = Len(stack) - 1 /\ stack' # <<>>
      /\ \A i \in 1..(Len(stack) - 1) : stack'[i] = stack[i + 1]
  <2>1. stack' = Tail(stack)
    BY DEF DependencyReturns
  <2>2. stack' \in Seq(Classes) /\ Len(stack') = Len(stack) - 1
    BY <1>0, <2>1, Popped
  <2>3. \A i \in 1..(Len(stack) - 1) : stack'[i] = stack[i + 1]
    BY <1>0, <2>1, Popped
  <2>4. stack' # <<>>
    BY <1>0, <2>2
  <2> QED
    BY <2>2, <2>3, <2>4
<1>c. stack'[1] = p
  BY <1>0, <1>b, <1>p
<1>d. /\ step = "return" /\ step' = (IF ret = 0 THEN "resolve" ELSE "return")
      /\ UNCHANGED <<handler, handle, inits, opens, mutex, ret, pc, cname>>
      /\ status' = [status EXCEPT ![p] = IF ret = 0 THEN @ ELSE "missing_deps"]
      /\ missing' = [missing EXCEPT ![p] = IF ret = 0 THEN @ \ {stack[1]} ELSE @]
  BY <1>0, <1>p DEF DependencyReturns, Loading, Parent
<1>1. ClassTypeOK'
  BY <1>a, <1>b, <1>d DEF ClassTypeOK, Statuses
<1>2. Locked'
  BY <1>0, <1>b, <1>d DEF Locked
<1>3. Named'
  BY <1>d DEF Named
<1>e. /\ \A c \in Classes : status'[c] = status[c] \/ (c = p /\ ret # 0 /\ status'[c] = "missing_deps")
      /\ \A c \in Classes : missing'[c] = missing[c] \/ (c = p /\ ret = 0 /\ missing'[c] = missing[c] \ {stack[1]})
  BY <1>a, <1>d DEF ClassTypeOK
<1>f. \A c \in Classes : status'[c] = "open" <=> status[c] = "open"
  BY <1>a, <1>e
<1>g. \A c \in Classes : status'[c] = "absent" <=> status[c] = "absent"
  BY <1>a, <1>e
<1>4. MissingKnown'
  <2>1. \A c \in Classes : missing'[c] \subseteq missing[c]
    BY <1>e
  <2>2. \A c \in Classes : missing[c] \subseteq Classes
    BY DEF ClassTypeOK
  <2> QED
    BY <1>f, <1>g, <2>1, <2>2 DEF MissingKnown
<1>5. HandleKnown'
  <2>1. ASSUME NEW c \in Classes, AtWork(c), c # p PROVE AtWork(c)'
    <3>1. PICK i \in 2..Len(stack) : stack[i] = c
      BY <1>d, <2>1 DEF AtWork, Loading
    <3>2. i - 1 \in 2..Len(stack') /\ stack'[i - 1] = c
      BY <1>0, <1>b, <1>p, <2>1, <3>1
    <3> QED
      BY <3>2 DEF AtWork
  <2>2. ret = 0 => AtWork(p)'
    BY <1>b, <1>c, <1>d DEF AtWork, Loading
  <2>3. ASSUME NEW c \in Classes, c # p
        PROVE  /\ status'[c] \in {"missing_deps", "initializing", "open"} => handle'[c]
               /\ status'[c] = "absent" => ~handle'[c]
               /\ handle'[c] /\ status'[c] \in {"unknown", "missing"} => AtWork(c)'
    BY <1>d, <1>e, <2>1, <2>3 DEF HandleKnown
  <2>4. /\ handle'[p] /\ status'[p] # "absent"
        /\ status'[p] \in {"unknown", "missing"} => AtWork(p)'
    BY <1>a, <1>d, <2>2 DEF ClassTypeOK
  <2> QED
    BY <2>3, <2>4 DEF HandleKnown
<1>6. DepsSettled'
  <2>1. ret = 0 => status[stack[1]] = "open"
    BY <1>0, <1>d DEF AtTop
  <2>2. ASSUME NEW c \in Classes, NEW d \in Deps[c], handle'[c]
        PROVE  status'[d] = "open" \/ d \in missing'[c]
    <3>1. d \in Classes
      BY ClassAssumption
    <3>2. status[d] = "open" \/ d \in missing[c]
      BY <1>d, <2>2 DEF DepsSettled
    <3> QED
      BY <1>e, <1>f, <2>1, <3>1, <3>2
  <2> QED
    BY <2>2 DEF DepsSettled
<1>7. Waiting'
  <2>1. ASSUME NEW i \in 1..Len(stack') PROVE status'[stack'[i]] # "absent"
    <3>1. i + 1 \in 1..Len(stack) /\ stack'[i] = stack[i + 1] /\ stack[i + 1] \in Classes
      BY <1>0, <1>b
    <3> QED
      BY <1>g, <3>1 DEF Waiting
  <2>2. ASSUME NEW i \in 2..Len(stack') PROVE handle'[stack'[i]] /\ status'[stack'[i]] # "open"
    <3>1. i + 1 \in 2..Len(stack) /\ stack'[i] = stack[i + 1] /\ stack[i + 1] \in Classes
      BY <1>0, <1>b
    <3> QED
      BY <1>d, <1>f, <3>1 DEF Waiting
  <2> QED
    BY <2>1, <2>2 DEF Waiting
<1>8. Rising'
  <2>1. ASSUME NEW i \in 1..Len(stack'), NEW j \in 1..Len(stack'), i < j
        PROVE  Height[stack'[i]] < Height[stack'[j]]
    <3>1. /\ i + 1 \in 1..Len(stack) /\ stack'[i] = stack[i + 1]
          /\ j + 1 \in 1..Len(stack) /\ stack'[j] = stack[j + 1] /\ i + 1 < j + 1
      BY <1>0, <1>b, <2>1
    <3> QED
      BY <3>1 DEF Rising
  <2> QED
    BY <2>1 DEF Rising
<1>9. AtTop'
  BY <1>a, <1>c, <1>d, <1>f DEF AtTop, ClassTypeOK
<1>10. LoadedOnce'
  <2>1. Opened' = Opened
    BY <1>f DEF Opened
  <2> QED
    BY <1>d, <2>1 DEF LoadedOnce
<1> QED
  BY <1>1, <1>2, <1>3, <1>4, <1>5, <1>6, <1>7, <1>8, <1>9, <1>10

-----------------------------------------------------------------------------
(* The steps of the threads.                                                *)

\* What a thread does with the result of open_class: it is out of open_class,
\* no other thread moves, and rpc_init stays within its list of classes.
LEMMA AfterOpenStep ==
  ASSUME ClassTypeOK, Named, NEW t \in Threads, NEW r, pc[t] \in {"open", "load"}, AfterOpen(t, r)
  PROVE  /\ pc' \in [Threads -> {"idle", "open", "load", "method", "exec", "null"}]
         /\ cname' \in [Threads -> Classes \cup {NoClass}]
         /\ Named'
         /\ pc'[t] # "load"
         /\ \A u \in Threads : u # t => pc'[u] = pc[u]
<1>1. CASE t \in Callers
  <2>1. t # Main /\ Main \in Threads
    BY <1>1, ClassAssumption DEF Threads
  <2>2. pc' = [pc EXCEPT ![t] = IF r = 0 THEN "method" ELSE "idle"] /\ cname' = cname
    BY <1>1 DEF AfterOpen
  <2> QED
    BY <2>1, <2>2 DEF ClassTypeOK, Named
<1>2. CASE t \notin Callers
  <2> DEFINE i == CHOOSE k \in DOMAIN ClassList : ClassList[k] = cname[t]
  <2>1. t = Main
    BY <1>2 DEF Threads
  <2>2. i \in DOMAIN ClassList
    BY <2>1 DEF Named
  <2>3. DOMAIN ClassList = 1..Len(ClassList) /\ Len(ClassList) \in Nat
    BY ClassAssumption
  <2>4. CASE r = 0 /\ i < Len(ClassList)
    <3>1. cname' = [cname EXCEPT ![t] = ClassList[i + 1]] /\ pc' = [pc EXCEPT ![t] = "open"]
      BY <1>2, <2>4 DEF AfterOpen
    <3>2. i + 1 \in DOMAIN ClassList /\ ClassList[i + 1] \in Classes
      BY <2>2, <2>3, <2>4, ClassAssumption
    <3> QED
      BY <2>1, <3>1, <3>2 DEF ClassTypeOK, Named
  <2>5. CASE ~(r = 0 /\ i < Len(ClassList))
    <3>1. cname' = cname /\ pc' = [pc EXCEPT ![t] = "idle"]
      BY <1>2, <2>5 DEF AfterOpen
    <3> QED
      BY <2>1, <3>1 DEF ClassTypeOK, Named
  <2> QED
    BY <2>4, <2>5
<1> QED
  BY <1>1, <1>2

\* The load is over: nothing is at work any more.
LEMMA OpenReturnsStep == ClassInv /\ OpenReturns => ClassInv' /\ (pc'[Main] # "idle" => pc[Main] # "idle")
<1> SUFFICES ASSUME ClassInv, OpenReturns PROVE ClassInv' /\ (pc'[Main] # "idle" => pc[Main] # "idle")
  OBVIOUS
<1> USE DEF ClassInv, TableInv
<1>1. /\ stack # <<>> /\ Len(stack) = 1 /\ step = "return"
      /\ mutex' = NoThread /\ stack' = <<>> /\ step' = "none" /\ AfterOpen(mutex, ret)
      /\ UNCHANGED <<handler, table, ret>>
  BY DEF OpenReturns, Loading, Unlock
<1>2. mutex \in Threads /\ pc[mutex] = "load"
  BY <1>1 DEF Locked, ClassTypeOK
<1>3. /\ pc' \in [Threads -> {"idle", "open", "load", "method", "exec", "null"}]
      /\ cname' \in [Threads -> Classes \cup {NoClass}]
      /\ Named'
      /\ pc'[mutex] # "load"
      /\ \A u \in Threads : u # mutex => pc'[u] = pc[u]
  BY <1>1, <1>2, AfterOpenStep
<1>4. ClassTypeOK'
  BY <1>1, <1>3 DEF ClassTypeOK, table
<1>5. Locked'
  BY <1>1, <1>2, <1>3, ClassAssumption DEF Locked
<1>6. MissingKnown' /\ DepsSettled' /\ LoadedOnce'
  BY <1>1 DEF table, MissingKnown, DepsSettled, LoadedOnce, Opened
<1>7. HandleKnown'
  <2>1. \A c \in Classes : ~AtWork(c)
    BY <1>1 DEF AtWork, Loading
  <2> QED
    BY <1>1, <2>1 DEF table, HandleKnown
<1>8. Waiting' /\ Rising' /\ AtTop'
  BY <1>1 DEF Waiting, Rising, AtTop
<1>9. pc'[Main] # "idle" => pc[Main] # "idle"
  BY <1>2, <1>3 DEF Threads
<1> QED
  BY <1>3, <1>4, <1>5, <1>6, <1>7, <1>8, <1>9

\* open_class takes the mutex and enters _load_class.
LEMMA OpenLoadStep == \A t \in Threads : ClassInv /\ OpenLoad(t) => ClassInv'
<1> SUFFICES ASSUME NEW t \in Threads, ClassInv, OpenLoad(t) PROVE ClassInv'
  OBVIOUS
<1> USE DEF ClassInv, TableInv
<1>c. PICK c : c = cname[t]
  OBVIOUS
<1>1. /\ pc[t] = "open" /\ mutex = NoThread /\ status[c] # "open"
      /\ status' = WithEntries({c})
      /\ mutex' = t /\ stack' = <<c>> /\ step' = "enter"
      /\ pc' = [pc EXCEPT ![t] = "load"]
      /\ UNCHANGED <<handler, handle, missing, inits, opens, ret, cname>>
  BY <1>c DEF OpenLoad
<1>2. c \in Classes
  BY <1>1, <1>c DEF Named
<1>3. /\ stack' \in Seq(Classes) /\ Len(stack') = 1 /\ stack'[1] = c /\ stack' # <<>>
  BY <1>1, <1>2
<1>4. status' \in [Classes -> Statuses]
  BY <1>1 DEF WithEntries, ClassTypeOK, Statuses
<1>5. \A k \in Classes : status'[k] = status[k] \/ (status[k] = "absent" /\ status'[k] = "unknown")
  BY <1>1 DEF WithEntries
<1>6. status'[c] # "absent"
  BY <1>1, <1>2 DEF WithEntries
<1>a. ClassTypeOK'
  BY <1>1, <1>3, <1>4 DEF ClassTypeOK
<1>b. Locked'
  BY <1>1, <1>3, ClassAssumption DEF Locked, ClassTypeOK
<1>i. Named'
  BY <1>1 DEF Named, ClassTypeOK
<1>d. MissingKnown'
  <2>1. \A k \in Classes : missing[k] \subseteq Classes
    BY DEF ClassTypeOK
  <2> QED
    BY <1>1, <1>5, <2>1 DEF MissingKnown
<1>e. HandleKnown'
  <2>1. \A k \in Classes : ~AtWork(k)
    BY <1>1 DEF Locked, AtWork, Loading
  <2>2. \A k \in Classes : handle[k] => status[k] \notin {"absent", "unknown", "missing"}
    BY <2>1 DEF HandleKnown
  <2>3. \A k \in Classes : status'[k] = status[k] \/ ~handle[k]
    BY <1>5, <2>2
  <2>4. \A k \in Classes : status[k] = "absent" => status'[k] \in {"absent", "unknown"}
    BY <1>5
  <2> QED
    BY <1>1, <1>5, <2>2, <2>3, <2>4 DEF HandleKnown
<1>f. DepsSettled'
  BY <1>1, <1>5, ClassAssumption DEF DepsSettled
<1>g. Waiting' /\ Rising' /\ AtTop'
  <2>1. 1..Len(stack') = {1} /\ 2..Len(stack') = {}
    BY <1>3
  <2>2. Waiting'
    BY <1>3, <1>6, <2>1 DEF Waiting
  <2>3. Rising'
    BY <2>1 DEF Rising
  <2>4. AtTop'
    BY <1>1 DEF AtTop
  <2> QED
    BY <2>2, <2>3, <2>4
<1>h. LoadedOnce'
  <2>1. Opened' = Opened
    BY <1>5 DEF Opened
  <2> QED
    BY <1>1, <2>1 DEF LoadedOnce
<1> QED
  BY <1>a, <1>b, <1>i, <1>d, <1>e, <1>f, <1>g, <1>h

\* A thread that finds the class open or not allowed does not load it.
LEMMA OpenAtOnceStep ==
  \A t \in Threads : ClassInv /\ (OpenRefused(t) \/ OpenHit(t)) =>
                       ClassInv' /\ (pc'[Main] # "idle" => pc[Main] # "idle")
<1> SUFFICES ASSUME NEW t \in Threads, ClassInv, OpenRefused(t) \/ OpenHit(t)
             PROVE  ClassInv' /\ (pc'[Main] # "idle" => pc[Main] # "idle")
  OBVIOUS
<1>1. PICK r : AfterOpen(t, r)
  BY DEF OpenRefused, OpenHit
<1>2. pc[t] = "open" /\ mutex = NoThread /\ UNCHANGED <<handler, table, loader>>
  BY DEF OpenRefused, OpenHit
<1>3. /\ pc' \in [Threads -> {"idle", "open", "load", "method", "exec", "null"}]
      /\ cname' \in [Threads -> Classes \cup {NoClass}]
      /\ Named'
      /\ pc'[t] # "load"
      /\ \A u \in Threads : u # t => pc'[u] = pc[u]
  BY <1>1, <1>2, AfterOpenStep DEF ClassInv
<1>4. ClassTypeOK'
  BY <1>2, <1>3 DEF ClassInv, ClassTypeOK, table, loader
<1>5. Locked'
  BY <1>2, <1>3, ClassAssumption DEF ClassInv, Locked, loader
<1>6. TableInv'
  BY <1>2, TableKept DEF ClassInv
<1>7. pc'[Main] # "idle" => pc[Main] # "idle"
  BY <1>2, <1>3 DEF Threads
<1> QED
  BY <1>3, <1>4, <1>5, <1>6, <1>7 DEF ClassInv

\* A step of a class call outside open_class.
LEMMA CallStep ==
  ASSUME ClassInv, NEW t \in Callers, NEW q \in {"idle", "open", "method", "exec", "null"},
         pc[t] # "load", pc' = [pc EXCEPT ![t] = q],
         NEW k \in Classes, cname' = [cname EXCEPT ![t] = k],
         UNCHANGED <<handler, table, loader>>
  PROVE  ClassInv' /\ pc'[Main] = pc[Main]
<1>1. t \in Threads /\ Main \in Threads /\ t # Main
  BY ClassAssumption DEF Threads
<1>2. ClassTypeOK'
  BY <1>1 DEF ClassInv, ClassTypeOK, table, loader
<1>3. Locked'
  BY <1>1 DEF ClassInv, ClassTypeOK, Locked, loader
<1>4. Named'
  BY <1>1 DEF ClassInv, ClassTypeOK, Named
<1>5. TableInv'
  BY TableKept DEF ClassInv
<1>6. pc'[Main] = pc[Main]
  BY <1>1 DEF ClassInv, ClassTypeOK
<1> QED
  BY <1>2, <1>3, <1>4, <1>5, <1>6 DEF ClassInv

\* Any step of a thread that is already in a call.
LEMMA ClassNextStep == ClassInv /\ ClassNext => ClassInv' /\ (pc'[Main] # "idle" => pc[Main] # "idle")
<1> SUFFICES ASSUME ClassInv, ClassNext PROVE ClassInv' /\ (pc'[Main] # "idle" => pc[Main] # "idle")
  OBVIOUS
<1>1. CASE Load
  <2>1. CASE OpenReturns
    BY <2>1, OpenReturnsStep
  <2>2. CASE ~OpenReturns
    <3>1. pc' = pc
      BY <1>1, <2>2 DEF Load, AlreadyOpen, DlopenFails, Dlopen, SkipDlopen, LoadDependency,
         InitClass, ClassOpen, DependencyReturns
    <3>2. ClassInv'
      BY <1>1, <2>2, AlreadyOpenStep, DlopenFailsStep, DlopenStep, SkipDlopenStep,
         LoadDependencyStep, InitClassStep, ClassOpenStep, DependencyReturnsStep DEF Load
    <3> QED
      BY <3>1, <3>2
  <2> QED
    BY <2>1, <2>2
<1>2. CASE \E t \in Threads : Open(t)
  <2>1. PICK t \in Threads : Open(t)
    BY <1>2
  <2>2. CASE OpenLoad(t)
    <3>1. pc[t] = "open" /\ pc' = [pc EXCEPT ![t] = "load"]
      BY <2>2 DEF OpenLoad
    <3>2. pc'[Main] # "idle" => pc[Main] # "idle"
      BY <3>1 DEF ClassInv, ClassTypeOK, Threads
    <3> QED
      BY <2>2, <3>2, OpenLoadStep
  <2>3. CASE OpenRefused(t) \/ OpenHit(t)
    BY <2>3, OpenAtOnceStep
  <2> QED
    BY <2>1, <2>2, <2>3 DEF Open
<1>3. CASE \E t \in Callers : Exec(t) \/ \E found \in BOOLEAN : GetMethod(t, found)
  <2>1. PICK t \in Callers : Exec(t) \/ \E found \in BOOLEAN : GetMethod(t, found)
    BY <1>3
  <2>2. PICK q \in {"idle", "exec"} : pc' = [pc EXCEPT ![t] = q]
    BY <2>1 DEF Exec, GetMethod
  <2>3. pc[t] \in {"method", "exec"} /\ UNCHANGED <<handler, table, loader, cname>>
    BY <2>1 DEF Exec, GetMethod
  <2>4. cname[t] \in Classes /\ cname' = [cname EXCEPT ![t] = cname[t]]
    BY <2>3 DEF ClassInv, ClassTypeOK, Named, Threads
  <2> QED
    BY <2>2, <2>3, <2>4, CallStep
<1> QED
  BY <1>1, <1>2, <1>3 DEF ClassNext

-----------------------------------------------------------------------------
(* The specification.                                                       *)

\* OSA_Finish drops the handler when no thread is in the loader.
LEMMA DropHandlerStep ==
  ASSUME ClassInv, DropHandler, \A t \in Threads : pc[t] = "idle"
  PROVE  ClassInv'
<1>1. mutex = NoThread /\ stack = <<>>
  BY DEF ClassInv, ClassTypeOK, Locked
<1>2. \A c \in Classes : opens[c] = IF handle[c] THEN 1 ELSE 0
  BY DEF ClassInv, TableInv, LoadedOnce
<1>3. opens' = [c \in Classes |-> 0]
  BY <1>2 DEF DropHandler, LibrariesClosed
<1>4. ClassTypeOK'
  BY <1>3 DEF DropHandler, ClassInv, ClassTypeOK, loader, Statuses
<1>5. Locked' /\ Named'
  BY DEF DropHandler, ClassInv, Locked, Named, loader
<1>6. MissingKnown' /\ HandleKnown' /\ DepsSettled'
  BY DEF DropHandler, MissingKnown, HandleKnown, DepsSettled
<1>7. Waiting' /\ Rising' /\ AtTop'
  BY <1>1 DEF DropHandler, loader, Waiting, Rising, AtTop
<1>8. LoadedOnce'
  BY <1>3 DEF DropHandler, LoadedOnce, Opened
<1> QED
  BY <1>4, <1>5, <1>6, <1>7, <1>8 DEF ClassInv, TableInv

\* OSA_Init creates the handler and enters rpc_init.
LEMMA NewHandlerStep ==
  ASSUME ClassInv, NewHandler, pc[Main] = "idle"
  PROVE  ClassInv'
<1>1. Main \in Threads /\ 1 \in DOMAIN ClassList /\ ClassList[1] \in Classes
  BY ClassAssumption DEF Threads
<1>2. ClassTypeOK'
  BY <1>1 DEF NewHandler, ClassInv, ClassTypeOK, table, loader
<1>3. Locked'
  BY <1>1 DEF NewHandler, ClassInv, ClassTypeOK, Locked, loader
<1>4. Named'
  BY <1>1 DEF NewHandler, ClassInv, ClassTypeOK, Named
<1>5. TableInv'
  BY TableKept DEF NewHandler, ClassInv
<1> QED
  BY <1>2, <1>3, <1>4, <1>5 DEF ClassInv

\* Nothing of the class handler changes.
LEMMA ClassKept ==
  ASSUME ClassInv, UNCHANGED classVars
  PROVE  ClassInv' /\ pc' = pc
<1>1. TableInv'
  BY TableKept DEF ClassInv, classVars
<1> QED
  BY <1>1 DEF ClassInv, classVars, ClassTypeOK, Locked, Named, table, loader

\* The adaptor starts without a handler and with an empty table.
LEMMA LoaderInit == Init => LoaderInv
<1> SUFFICES ASSUME ClassInit PROVE LoaderInv
  BY DEF Init
<1> USE DEF ClassInit
<1>1. ClassTypeOK
  <2>1. handler \in BOOLEAN /\ status \in [Classes -> Statuses] /\ handle \in [Classes -> BOOLEAN]
    BY DEF Statuses
  <2>2. missing \in [Classes -> SUBSET Classes] /\ inits \in [Classes -> Nat] /\ opens \in [Classes -> Nat]
    OBVIOUS
  <2>3. mutex \in Threads \cup {NoThread} /\ stack \in Seq(Classes) /\ ret \in {0, 1}
    OBVIOUS
  <2>4. pc \in [Threads -> {"idle", "open", "load", "method", "exec", "null"}]
    OBVIOUS
  <2>5. cname \in [Threads -> Classes \cup {NoClass}]
    OBVIOUS
  <2> QED
    BY <2>1, <2>2, <2>3, <2>4, <2>5 DEF ClassTypeOK
<1>2. Locked /\ Named /\ MainInv
  BY ClassAssumption DEF Locked, Named, MainInv, Threads
<1>3. MissingKnown /\ HandleKnown /\ DepsSettled /\ LoadedOnce
  BY DEF MissingKnown, HandleKnown, DepsSettled, LoadedOnce, Opened
<1>4. Waiting /\ Rising /\ AtTop
  BY DEF Waiting, Rising, AtTop
<1> QED
  BY <1>1, <1>2, <1>3, <1>4 DEF LoaderInv, ClassInv, TableInv

\* Every step of OSA_Init, OSA_Finish, the server thread and the class calls.
LEMMA LoaderStep == LoaderInv /\ [Next]_vars => LoaderInv'
<1> SUFFICES ASSUME LoaderInv, [Next]_vars PROVE LoaderInv'
  OBVIOUS
<1> USE DEF LoaderInv
<1>1. CASE UNCHANGED classVars /\ (ctl' = ctl \/ ctl # "rpc" \/ pc[Main] = "idle")
  BY <1>1, ClassKept DEF MainInv
<1>2. CASE RpcHandler
  <2>1. pc[Main] = "idle" /\ NewHandler /\ ctl' = "rpc"
    BY <1>2 DEF RpcHandler, MainInv
  <2> QED
    BY <2>1, NewHandlerStep DEF MainInv
<1>3. CASE FinishDrop /\ handler
  <2>1. ctl = "stop" /\ ctl' = "idle" /\ DropHandler /\ \A t \in Callers : pc[t] = "idle"
    BY <1>3 DEF FinishDrop, ShutdownHandler
  <2>2. pc' = pc /\ pc[Main] = "idle"
    BY <2>1 DEF DropHandler, MainInv
  <2>3. ClassInv'
    BY <2>1, <2>2, DropHandlerStep DEF Threads
  <2> QED
    BY <2>2, <2>3 DEF MainInv
<1>4. CASE \E t \in Callers, c \in Classes : ClassCall(t, c)
  <2>1. PICK t \in Callers, c \in Classes : ClassCall(t, c)
    BY <1>4
  <2>2. PICK q \in {"open", "null"} : pc' = [pc EXCEPT ![t] = q]
    BY <2>1 DEF ClassCall, ExecClass
  <2>3. /\ pc[t] = "idle" /\ cname' = [cname EXCEPT ![t] = c] /\ ctl' = ctl
        /\ UNCHANGED <<handler, table, loader>>
    BY <2>1 DEF ClassCall, ExecClass, netVars
  <2>4. ClassInv' /\ pc'[Main] = pc[Main]
    BY <2>2, <2>3, CallStep
  <2> QED
    BY <2>3, <2>4 DEF MainInv
<1>5. CASE ClassNext /\ UNCHANGED netVars
  BY <1>5, ClassNextStep DEF MainInv, netVars
<1>6. CASE InitRefused \/ InitAgain \/ InitCreate \/ (\E created \in BOOLEAN : InitMessenger(created))
  BY <1>1, <1>6 DEF InitRefused, InitAgain, InitCreate, InitMessenger
<1>7. CASE RpcInitDone \/ InitReturns \/ InitTimeout
  BY <1>1, <1>7 DEF RpcInitDone, InitReturns, InitTimeout
<1>8. CASE ServerStep
  BY <1>1, <1>8 DEF ServerStep, BindPort, BindFails, ServerWait, ServerExits
<1>9. CASE FinishShutdown \/ FinishJoin \/ (\E next \in {"stop", "crash"} : JoinNoThread(next))
  BY <1>1, <1>9 DEF FinishShutdown, FinishJoin, JoinNoThread
<1>10. CASE FinishDrop /\ ~handler
  BY <1>1, <1>10 DEF FinishDrop, ShutdownHandler
<1>11. CASE UNCHANGED vars
  BY <1>1, <1>11 DEF vars, netVars
<1> QED
  BY <1>2, <1>3, <1>4, <1>5, <1>6, <1>7, <1>8, <1>9, <1>10, <1>11 DEF Next

\* The inductive invariant of the loader and the threads that use it.
THEOREM LoaderCorrect == Spec => []LoaderInv
  BY LoaderInit, LoaderStep, PTL DEF Spec

\* A class is open only with everything it depends on open, whatever failed
\* before and whichever threads loaded what: DepsSettled says that a dependency
\* of an opened library is open or missing, and an open class misses none.
THEOREM OpenOnlyWithDependencies == Spec => []OpenClosure
<1>1. LoaderInv => OpenClosure
  BY ClassAssumption DEF LoaderInv, ClassInv, TableInv, MissingKnown, HandleKnown, DepsSettled,
     OpenClosure, Opened
<1> QED
  BY <1>1, LoaderCorrect, PTL

\* Each library is opened once and initialised once in a life of the handler,
\* and closed once at its end.
THEOREM LibrariesLoadedOnce == Spec => []LoadedOnce
<1>1. LoaderInv => LoadedOnce
  BY DEF LoaderInv, ClassInv, TableInv
<1> QED
  BY <1>1, LoaderCorrect, PTL

-----------------------------------------------------------------------------
(* OSA_Init, OSA_Finish and the server thread.                              *)

\* bindSuccess exists while OSA_Init runs, and OSA_Init runs on a module it has
\* made; the class handler is there from OSA_Init's creation to OSA_Finish's end.
LifeInv ==
  /\ frame <=> ctl \in {"thread", "handler", "rpc", "poll"}
  /\ ctl # "idle" => network
  /\ handler <=> network /\ ctl \notin {"thread", "handler"}
  /\ network /\ ctl \notin {"join", "stop", "crash"} => down = {}

\* What the server thread has done and what it has reported: nothing before it
\* runs, the truth when it has bound the ports.
BindInv ==
  /\ ctl = "thread" => server = "none"
  /\ server = "none" => started = 0 /\ bind = "unknown"
  /\ server = "bind" => bind = "unknown"
  /\ bind = "bound" => started = Ports /\ (server = "wait" \/ (server = "exited" /\ 1 \in down))

\* What OSA_Init returns comes from a report, and a server thread that has not
\* reported when OSA_Init is over has been given up.
ReportInv ==
  /\ frame => result = "none"
  /\ result = "ok" => bind = "bound"
  /\ server = "bind" /\ ~frame => timedOut
  /\ stray => timedOut

\* Without a handler no thread is in a class call and the table is empty.
QuietInv == ~handler =>
  /\ \A t \in Threads : pc[t] \in {"idle", "null"}
  /\ \A c \in Classes : status[c] = "absent" /\ opens[c] = 0

StartInv == TypeOK /\ LifeInv /\ BindInv /\ ReportInv /\ QuietInv /\ NullOnlyAtStart

\* A step inside a class call needs the handler, and leads no thread to the null
\* pointer.
LEMMA ClassNextNeedsHandler ==
  ASSUME ClassInv, QuietInv, ClassNext
  PROVE  /\ handler' = handler /\ handler
         /\ \A t \in Callers : pc'[t] = "null" => pc[t] = "null"
<1>1. CASE Load
  <2>1. stack # <<>>
    BY <1>1 DEF Load, AlreadyOpen, DlopenFails, Dlopen, SkipDlopen, LoadDependency,
       InitClass, ClassOpen, DependencyReturns, OpenReturns, Loading
  <2>2. mutex \in Threads /\ pc[mutex] = "load"
    BY <2>1 DEF ClassInv, Locked, ClassTypeOK
  <2>3. handler
    BY <2>2 DEF QuietInv
  <2>4. CASE OpenReturns
    <3>1. AfterOpen(mutex, ret) /\ handler' = handler
      BY <2>4 DEF OpenReturns
    <3>2. pc'[mutex] # "null"
      BY <2>2, <3>1 DEF AfterOpen, ClassInv, ClassTypeOK
    <3>3. \A u \in Threads : u # mutex => pc'[u] = pc[u]
      BY <2>2, <3>1, AfterOpenStep DEF ClassInv
    <3> QED
      BY <2>3, <3>1, <3>2, <3>3 DEF Threads
  <2>5. CASE ~OpenReturns
    BY <1>1, <2>3, <2>5 DEF Load, AlreadyOpen, DlopenFails, Dlopen, SkipDlopen, LoadDependency,
       InitClass, ClassOpen, DependencyReturns
  <2> QED
    BY <2>4, <2>5
<1>2. ASSUME NEW t \in Threads, Open(t)
      PROVE  /\ handler' = handler /\ handler
             /\ \A u \in Callers : pc'[u] = "null" => pc[u] = "null"
  <2>1. pc[t] = "open" /\ handler' = handler
    BY <1>2 DEF Open, OpenRefused, OpenHit, OpenLoad
  <2>2. handler
    BY <2>1 DEF QuietInv
  <2>3. CASE OpenLoad(t)
    BY <2>1, <2>2, <2>3 DEF OpenLoad, ClassInv, ClassTypeOK, Threads
  <2>4. CASE OpenRefused(t) \/ OpenHit(t)
    <3>1. PICK r : AfterOpen(t, r)
      BY <2>4 DEF OpenRefused, OpenHit
    <3>2. pc'[t] # "null"
      BY <2>1, <3>1 DEF AfterOpen, ClassInv, ClassTypeOK
    <3>3. \A u \in Threads : u # t => pc'[u] = pc[u]
      BY <2>1, <3>1, AfterOpenStep DEF ClassInv
    <3> QED
      BY <2>1, <2>2, <3>2, <3>3 DEF Threads
  <2> QED
    BY <1>2, <2>3, <2>4 DEF Open
<1>3. ASSUME NEW t \in Callers, Exec(t) \/ \E found \in BOOLEAN : GetMethod(t, found)
      PROVE  /\ handler' = handler /\ handler
             /\ \A u \in Callers : pc'[u] = "null" => pc[u] = "null"
  <2>1. PICK q \in {"idle", "exec"} : pc' = [pc EXCEPT ![t] = q]
    BY <1>3 DEF Exec, GetMethod
  <2>2. pc[t] \in {"method", "exec"} /\ handler' = handler
    BY <1>3 DEF Exec, GetMethod
  <2> QED
    BY <2>1, <2>2 DEF QuietInv, ClassInv, ClassTypeOK, Threads
<1> QED
  BY <1>1, <1>2, <1>3 DEF ClassNext

\* A step of OSA_Init, OSA_Finish or the server thread that leaves the class
\* handler alone keeps what is said of the class calls.
LEMMA QuietKept ==
  ASSUME LoaderInv', QuietInv, NullOnlyAtStart, ~Crashed, UNCHANGED classVars
  PROVE  QuietInv' /\ NullOnlyAtStart' /\ ClassTypeOK' /\ handler' = handler
  BY DEF Crashed, LoaderInv, ClassInv, QuietInv, NullOnlyAtStart, classVars, table

\* Every step of the adaptor's life.
LEMMA StartStep == LoaderInv /\ LoaderInv' /\ StartInv /\ [Next]_vars => StartInv'
<1> SUFFICES ASSUME LoaderInv, LoaderInv', StartInv, [Next]_vars PROVE StartInv'
  OBVIOUS
<1>a. TypeOK /\ LifeInv /\ BindInv /\ ReportInv /\ QuietInv /\ NullOnlyAtStart
  BY DEF StartInv
<1>b. ClassTypeOK'
  BY DEF LoaderInv, ClassInv
<1>c. Ports \in Nat \ {0} /\ MaxLives \in Nat
  BY AdaptorAssumption
<1> USE <1>a
<1>d. ASSUME ~Crashed, UNCHANGED classVars, TypeOK', LifeInv', BindInv', ReportInv'
      PROVE  StartInv'
  BY <1>d, QuietKept DEF StartInv
<1>1. CASE Next
  <2>a. ~Crashed
    BY <1>1 DEF Next
  <2>1. CASE InitRefused \/ InitAgain
    <3>1. /\ UNCHANGED <<classVars, ctl, network, server, started, down, bind, frame, stray, timedOut, lives>>
          /\ ctl = "idle" /\ result' \in {"error", "again"}
      BY <2>1 DEF InitRefused, InitAgain
    <3>2. TypeOK' /\ LifeInv' /\ BindInv' /\ ReportInv'
      BY <3>1, <1>b DEF TypeOK, LifeInv, BindInv, ReportInv, classVars
    <3> QED
      BY <1>d, <2>a, <3>1, <3>2
  <2>2. CASE InitCreate
    <3>1. UNCHANGED classVars
      BY <2>2 DEF InitCreate
    <3>2. handler' = handler
      BY <3>1 DEF classVars
    <3>3. TypeOK'
      <4>1. 0 \in 0..Ports /\ lives + 1 \in 0..MaxLives /\ {} \subseteq 1..Ports
        BY <2>2, <1>c DEF InitCreate, TypeOK
      <4> QED
        BY <2>2, <1>b, <4>1, Zenon DEF InitCreate, TypeOK
    <3>4. LifeInv'
      BY <2>2, <3>2 DEF InitCreate, LifeInv
    <3>5. BindInv'
      BY <2>2, <3>2 DEF InitCreate, BindInv
    <3>6. ReportInv'
      BY <2>2, <3>2 DEF InitCreate, ReportInv, LifeInv, BindInv
    <3> QED
      BY <1>d, <2>a, <3>1, <3>3, <3>4, <3>5, <3>6
  <2>3. ASSUME NEW created \in BOOLEAN, InitMessenger(created)
        PROVE  StartInv'
    <3>1. UNCHANGED classVars
      BY <2>3 DEF InitMessenger
    <3>2. handler' = handler
      BY <3>1 DEF classVars
    <3>3. TypeOK'
      BY <2>3, <3>2, <1>b, <1>c DEF InitMessenger, TypeOK
    <3>4. LifeInv'
      BY <2>3, <3>2 DEF InitMessenger, LifeInv
    <3>5. BindInv'
      BY <2>3, <3>2 DEF InitMessenger, BindInv
    <3>6. ReportInv'
      BY <2>3, <3>2 DEF InitMessenger, ReportInv, LifeInv, BindInv
    <3> QED
      BY <1>d, <2>a, <3>1, <3>3, <3>4, <3>5, <3>6
  <2>4. CASE RpcHandler
    <3>1. handler' = TRUE /\ ctl = "handler" /\ ctl' = "rpc" /\ pc' = [pc EXCEPT ![Main] = "open"]
          /\ UNCHANGED <<network, server, started, down, bind, frame, stray, timedOut, result, lives>>
      BY <2>4 DEF RpcHandler, NewHandler
    <3>2. TypeOK' /\ LifeInv' /\ BindInv' /\ ReportInv'
      BY <3>1, <1>b DEF TypeOK, LifeInv, BindInv, ReportInv
    <3>3. QuietInv'
      BY <3>1 DEF QuietInv
    <3>4. NullOnlyAtStart'
      BY <2>a, <3>1, ClassAssumption DEF Crashed, NullOnlyAtStart, LoaderInv, ClassInv, ClassTypeOK, Threads
    <3> QED
      BY <3>2, <3>3, <3>4 DEF StartInv
  <2>5. CASE RpcInitDone
    <3>1. UNCHANGED classVars
      BY <2>5 DEF RpcInitDone
    <3>2. handler' = handler
      BY <3>1 DEF classVars
    <3>3. TypeOK'
      BY <2>5, <3>2, <1>b, <1>c DEF RpcInitDone, TypeOK
    <3>4. LifeInv'
      BY <2>5, <3>2 DEF RpcInitDone, LifeInv
    <3>5. BindInv'
      BY <2>5, <3>2 DEF RpcInitDone, BindInv
    <3>6. ReportInv'
      BY <2>5, <3>2 DEF RpcInitDone, ReportInv, LifeInv, BindInv
    <3> QED
      BY <1>d, <2>a, <3>1, <3>3, <3>4, <3>5, <3>6
  <2>6. CASE InitReturns
    <3>1. UNCHANGED classVars
      BY <2>6 DEF InitReturns, BindKnown
    <3>2. handler' = handler
      BY <3>1 DEF classVars
    <3>3. TypeOK'
      BY <2>6, <3>2, <1>b, <1>c DEF InitReturns, BindKnown, TypeOK
    <3>4. LifeInv'
      BY <2>6, <3>2 DEF InitReturns, BindKnown, LifeInv
    <3>5. BindInv'
      BY <2>6, <3>2 DEF InitReturns, BindKnown, BindInv
    <3>6. ReportInv'
      BY <2>6, <3>2 DEF InitReturns, BindKnown, ReportInv, LifeInv, BindInv, TypeOK
    <3> QED
      BY <1>d, <2>a, <3>1, <3>3, <3>4, <3>5, <3>6
  <2>7. CASE InitTimeout
    <3>1. UNCHANGED classVars
      BY <2>7 DEF InitTimeout
    <3>2. handler' = handler
      BY <3>1 DEF classVars
    <3>3. TypeOK'
      BY <2>7, <3>2, <1>b, <1>c DEF InitTimeout, TypeOK
    <3>4. LifeInv'
      BY <2>7, <3>2 DEF InitTimeout, LifeInv
    <3>5. BindInv'
      BY <2>7, <3>2 DEF InitTimeout, BindInv
    <3>6. ReportInv'
      BY <2>7, <3>2 DEF InitTimeout, ReportInv, LifeInv, BindInv
    <3> QED
      BY <1>d, <2>a, <3>1, <3>3, <3>4, <3>5, <3>6
  <2>8. CASE BindPort
    <3>1. UNCHANGED classVars
      BY <2>8 DEF BindPort
    <3>2. handler' = handler
      BY <3>1 DEF classVars
    <3>3. TypeOK'
      BY <2>8, <3>2, <1>b, <1>c DEF BindPort, TypeOK
    <3>4. LifeInv'
      BY <2>8, <3>2 DEF BindPort, LifeInv
    <3>5. BindInv'
      BY <2>8, <3>2 DEF BindPort, BindInv
    <3>6. ReportInv'
      BY <2>8, <3>2 DEF BindPort, ReportInv, LifeInv, BindInv
    <3> QED
      BY <1>d, <2>a, <3>1, <3>3, <3>4, <3>5, <3>6
  <2>9. CASE BindFails
    <3>1. UNCHANGED classVars
      BY <2>9 DEF BindFails, Report
    <3>2. handler' = handler
      BY <3>1 DEF classVars
    <3>3. TypeOK'
      BY <2>9, <3>2, <1>b, <1>c DEF BindFails, Report, TypeOK
    <3>4. LifeInv'
      BY <2>9, <3>2 DEF BindFails, Report, LifeInv
    <3>5. BindInv'
      BY <2>9, <3>2 DEF BindFails, Report, BindInv
    <3>6. ReportInv'
      BY <2>9, <3>2 DEF BindFails, Report, ReportInv, LifeInv, BindInv
    <3> QED
      BY <1>d, <2>a, <3>1, <3>3, <3>4, <3>5, <3>6
  <2>10. CASE ServerWait
    <3>1. UNCHANGED classVars
      BY <2>10 DEF ServerWait, Report
    <3>2. handler' = handler
      BY <3>1 DEF classVars
    <3>3. TypeOK'
      BY <2>10, <3>2, <1>b, <1>c DEF ServerWait, Report, TypeOK
    <3>4. LifeInv'
      BY <2>10, <3>2 DEF ServerWait, Report, LifeInv
    <3>5. BindInv'
      BY <2>10, <3>2 DEF ServerWait, Report, BindInv
    <3>6. ReportInv'
      BY <2>10, <3>2 DEF ServerWait, Report, ReportInv, LifeInv, BindInv
    <3> QED
      BY <1>d, <2>a, <3>1, <3>3, <3>4, <3>5, <3>6
  <2>11. CASE ServerExits
    <3>1. UNCHANGED classVars
      BY <2>11 DEF ServerExits
    <3>2. handler' = handler
      BY <3>1 DEF classVars
    <3>3. TypeOK'
      BY <2>11, <3>2, <1>b, <1>c DEF ServerExits, TypeOK
    <3>4. LifeInv'
      BY <2>11, <3>2 DEF ServerExits, LifeInv
    <3>5. BindInv'
      BY <2>11, <3>2 DEF ServerExits, BindInv
    <3>6. ReportInv'
      BY <2>11, <3>2 DEF ServerExits, ReportInv, LifeInv, BindInv
    <3> QED
      BY <1>d, <2>a, <3>1, <3>3, <3>4, <3>5, <3>6
  <2>12. CASE FinishShutdown
    <3>1. UNCHANGED classVars
      BY <2>12 DEF FinishShutdown, ShutdownMessengers
    <3>2. handler' = handler
      BY <3>1 DEF classVars
    <3>3. TypeOK'
      BY <2>12, <3>2, <1>b, <1>c DEF FinishShutdown, ShutdownMessengers, TypeOK
    <3>4. LifeInv'
      BY <2>12, <3>2 DEF FinishShutdown, ShutdownMessengers, LifeInv
    <3>5. BindInv'
      BY <2>12, <3>2, <1>c DEF FinishShutdown, ShutdownMessengers, BindInv, TypeOK
    <3>6. ReportInv'
      BY <2>12, <3>2 DEF FinishShutdown, ShutdownMessengers, ReportInv, LifeInv, BindInv
    <3> QED
      BY <1>d, <2>a, <3>1, <3>3, <3>4, <3>5, <3>6
  <2>13. CASE FinishJoin
    <3>1. UNCHANGED classVars
      BY <2>13 DEF FinishJoin
    <3>2. handler' = handler
      BY <3>1 DEF classVars
    <3>3. TypeOK'
      BY <2>13, <3>2, <1>b, <1>c DEF FinishJoin, TypeOK
    <3>4. LifeInv'
      BY <2>13, <3>2 DEF FinishJoin, LifeInv
    <3>5. BindInv'
      BY <2>13, <3>2 DEF FinishJoin, BindInv
    <3>6. ReportInv'
      BY <2>13, <3>2 DEF FinishJoin, ReportInv, LifeInv, BindInv
    <3> QED
      BY <1>d, <2>a, <3>1, <3>3, <3>4, <3>5, <3>6
  <2>14. ASSUME NEW next \in {"stop", "crash"}, JoinNoThread(next)
         PROVE  StartInv'
    <3>1. UNCHANGED classVars
      BY <2>14 DEF JoinNoThread
    <3>2. handler' = handler
      BY <3>1 DEF classVars
    <3>3. TypeOK'
      BY <2>14, <3>2, <1>b, <1>c DEF JoinNoThread, TypeOK
    <3>4. LifeInv'
      BY <2>14, <3>2 DEF JoinNoThread, LifeInv
    <3>5. BindInv'
      BY <2>14, <3>2 DEF JoinNoThread, BindInv
    <3>6. ReportInv'
      BY <2>14, <3>2 DEF JoinNoThread, ReportInv, LifeInv, BindInv
    <3> QED
      BY <1>d, <2>a, <3>1, <3>3, <3>4, <3>5, <3>6
  <2>15. CASE FinishDrop
    <3>1. /\ ctl = "stop" /\ ctl' = "idle" /\ network' = FALSE /\ handler
          /\ \A t \in Callers : pc[t] = "idle"
          /\ UNCHANGED <<server, started, down, bind, frame, stray, timedOut, result, lives>>
      BY <2>15 DEF FinishDrop, LifeInv
    <3>2. DropHandler
      BY <2>15, <3>1 DEF FinishDrop, ShutdownHandler
    <3>3. TypeOK' /\ LifeInv' /\ BindInv' /\ ReportInv'
      BY <3>1, <3>2, <1>b DEF DropHandler, TypeOK, LifeInv, BindInv, ReportInv
    <3>4. pc' = pc /\ \A t \in Threads : pc[t] = "idle"
      BY <3>1, <3>2 DEF DropHandler, LoaderInv, MainInv, Threads
    <3>5. \A c \in Classes : status'[c] = "absent" /\ opens'[c] = 0
      BY <3>2 DEF DropHandler, LibrariesClosed, LoaderInv, ClassInv, TableInv, LoadedOnce
    <3>6. QuietInv' /\ NullOnlyAtStart'
      BY <3>4, <3>5 DEF QuietInv, NullOnlyAtStart, Threads
    <3> QED
      BY <3>3, <3>6 DEF StartInv
  <2>16. ASSUME NEW t \in Callers, NEW c \in Classes, ClassCall(t, c)
         PROVE  StartInv'
    <3>1. /\ pc[t] = "idle" /\ pc' = [pc EXCEPT ![t] = IF handler THEN "open" ELSE "null"]
          /\ UNCHANGED <<handler, table>> /\ UNCHANGED netVars
          /\ network /\ 1..started \ down # {}
      BY <2>16 DEF ClassCall, ExecClass
    <3>2. TypeOK' /\ LifeInv' /\ BindInv' /\ ReportInv'
      BY <3>1, <1>b DEF netVars, TypeOK, LifeInv, BindInv, ReportInv
    <3>3. QuietInv'
      BY <3>1 DEF QuietInv, table, LoaderInv, ClassInv, ClassTypeOK, Threads
    <3>a. \A u \in Callers : u # t => pc'[u] = pc[u]
      BY <3>1 DEF LoaderInv, ClassInv, ClassTypeOK, Threads
    <3>b. pc'[t] = IF handler THEN "open" ELSE "null"
      BY <3>1 DEF LoaderInv, ClassInv, ClassTypeOK, Threads
    <3>4. CASE handler
      BY <2>a, <3>2, <3>3, <3>a, <3>b, <3>4 DEF Crashed, NullOnlyAtStart, StartInv
    <3>5. CASE ~handler
      <4>1. ctl \in {"thread", "handler"}
        BY <3>1, <3>5 DEF LifeInv
      <4>2. ctl # "thread"
        <5>1. ctl = "thread" => started = 0
          BY DEF BindInv
        <5>2. 1..0 = {}
          OBVIOUS
        <5> QED
          BY <3>1, <5>1, <5>2
      <4> QED
        BY <3>1, <3>2, <3>3, <4>1, <4>2 DEF NullOnlyAtStart, StartInv, netVars
    <3> QED
      BY <3>2, <3>3, <3>4, <3>5 DEF StartInv
  <2>17. CASE ClassNext /\ UNCHANGED netVars
    <3>1. handler' = handler /\ handler /\ \A t \in Callers : pc'[t] = "null" => pc[t] = "null"
      BY <2>17, ClassNextNeedsHandler DEF LoaderInv
    <3>2. TypeOK' /\ LifeInv' /\ BindInv' /\ ReportInv'
      BY <2>17, <3>1, <1>b DEF netVars, TypeOK, LifeInv, BindInv, ReportInv
    <3>3. QuietInv' /\ NullOnlyAtStart'
      BY <2>a, <3>1 DEF QuietInv, NullOnlyAtStart, Crashed
    <3> QED
      BY <3>2, <3>3 DEF StartInv
  <2> QED
    BY <1>1, <2>1, <2>2, <2>3, <2>4, <2>5, <2>6, <2>7, <2>8, <2>9, <2>10, <2>11, <2>12, <2>13,
       <2>14, <2>15, <2>16, <2>17
    DEF Next, ServerStep
<1>2. CASE UNCHANGED vars
  BY <1>2, <1>b DEF vars, classVars, table, netVars, StartInv, TypeOK, LifeInv, BindInv, ReportInv,
     QuietInv, NullOnlyAtStart
<1> QED
  BY <1>1, <1>2

LEMMA StartInit == Init => StartInv
<1> SUFFICES ASSUME Init PROVE StartInv
  OBVIOUS
<1>1. ClassTypeOK
  BY LoaderInit DEF LoaderInv, ClassInv
<1>2. TypeOK /\ LifeInv /\ BindInv /\ ReportInv
  <2>1. TypeOK
    <3>1. 0 \in 0..Ports /\ 0 \in 0..MaxLives /\ {} \subseteq 1..Ports
      BY AdaptorAssumption
    <3> QED
      BY <1>1, <3>1, Zenon DEF Init, TypeOK
  <2>2. LifeInv
    BY DEF Init, ClassInit, LifeInv
  <2>3. BindInv /\ ReportInv
    BY DEF Init, BindInv, ReportInv
  <2> QED
    BY <2>1, <2>2, <2>3
<1>3. QuietInv /\ NullOnlyAtStart
  BY DEF Init, ClassInit, QuietInv, NullOnlyAtStart, Threads
<1> QED
  BY <1>2, <1>3 DEF StartInv

LEMMA StartCorrect == Spec => []StartInv
  BY StartInit, StartStep, LoaderCorrect, PTL DEF Spec

\* OSA_Init returns 0 on a module of its own only with every port bound, its
\* messengers up and the class handler in place, and the server thread writes to
\* the frame OSA_Init has left only when OSA_Init gave up.
THEOREM StartIsHonest == Spec => []InitHonest
<1>1. StartInv => InitHonest
  BY DEF StartInv, LifeInv, BindInv, ReportInv, InitHonest
<1> QED
  BY <1>1, StartCorrect, PTL

\* Only a class call that comes between the start of the server thread and the
\* creation of the handler meets the null rpc_handler.
THEOREM NullHandlerOnlyAtStart == Spec => []NullOnlyAtStart
  BY StartCorrect, PTL DEF StartInv

\* Between calls the handler is there exactly when the module is, and without one
\* the table is empty and every library closed.
THEOREM HandlerLivesWithModule == Spec => []HandlerFollowsModule
<1>1. StartInv => HandlerFollowsModule
  BY DEF StartInv, TypeOK, ClassTypeOK, LifeInv, QuietInv, HandlerFollowsModule
<1> QED
  BY <1>1, StartCorrect, PTL
=============================================================================
