---------------------------- MODULE ClassHandler ----------------------------
(***************************************************************************)
(* The class handler of the server adaptor: the table of object classes    *)
(* (ClassHandler::classes), the loader that opens a class after the classes *)
(* it depends on, and the threads that go through it: the class calls of    *)
(* OSA_ExecClass and the rpc_init of OSA_Init.                              *)
(*                                                                          *)
(* _load_class is recursive and runs under ClassHandler::mutex from the     *)
(* first call to the last return, so the recursion is one stack of classes  *)
(* (top first) owned by the thread that holds the mutex.                    *)
(***************************************************************************)
EXTENDS Naturals, Sequences, FiniteSets, SequencesExt

CONSTANTS
  Classes,    \* names of class libraries
  Deps,       \* what class_deps() of each library names
  Inits,      \* the libraries that export __cls_init
  LoadList,   \* osd_class_load_list
  ClassList,  \* rgw, lock: what OSA_ExecClass accepts and rpc_init opens, in order
  Callers,    \* threads of the cache that call OSA_ExecClass
  Main,       \* the thread that calls OSA_Init and OSA_Finish
  NoThread, NoClass

Threads == Callers \cup {Main}

ASSUME ClassAssumption ==
  /\ Deps \in [Classes -> SUBSET Classes]
  /\ Inits \subseteq Classes
  /\ LoadList \subseteq Classes
  /\ ClassList \in Seq(Classes) /\ ClassList # <<>>
  /\ Main \notin Callers
  /\ NoThread \notin Threads
  /\ NoClass \notin Classes

\* A height of the classes: each is higher than those it depends on.
IsHeight(h) == \A c \in Classes : \A d \in Deps[c] : h[d] < h[c]

\* No class depends on itself, directly or through others: _load_class would
\* not return.
ASSUME Acyclic == \E h \in [Classes -> 0..Cardinality(Classes)] : IsHeight(h)

VARIABLES
  handler,  \* rpc_handler # nullptr
  status,   \* ClassData::status, "absent" for a name without an entry
  handle,   \* ClassData::handle # NULL
  missing,  \* ClassData::missing_dependencies
  inits,    \* history: calls of __cls_init since the library was opened
  opens,    \* history: dlopen()s less dlclose()s of each library
  mutex,    \* ClassHandler::mutex: its owner or NoThread
  stack,    \* the _load_class calls in progress, innermost first
  step,     \* where the innermost one stands
  ret,      \* what the last one to return returned: 0, or 1 for an error
  pc,       \* where each thread stands
  cname     \* the class each thread works on

table == <<status, handle, missing, inits, opens>>
loader == <<mutex, stack, step, ret>>
classVars == <<handler, table, loader, pc, cname>>

ClassInit ==
  /\ handler = FALSE
  /\ status = [c \in Classes |-> "absent"]
  /\ handle = [c \in Classes |-> FALSE]
  /\ missing = [c \in Classes |-> {}]
  /\ inits = [c \in Classes |-> 0]
  /\ opens = [c \in Classes |-> 0]
  /\ mutex = NoThread
  /\ stack = <<>>
  /\ step = "none"
  /\ ret = 0
  /\ pc = [t \in Threads |-> "idle"]
  /\ cname = [t \in Threads |-> NoClass]

-----------------------------------------------------------------------------
(* OSA_ExecClass. A class outside the white list is refused on the spot,    *)
(* and without a handler the call goes through a null pointer: pc "null" is *)
(* the crash of the process.                                                *)

\* A class call names any class.
ExecClass(t, c) ==
  /\ pc[t] = "idle"
  /\ t \in Callers
  /\ c \in ToSet(ClassList)
  /\ pc' = [pc EXCEPT ![t] = IF handler THEN "open" ELSE "null"]
  /\ cname' = [cname EXCEPT ![t] = c]
  /\ UNCHANGED <<handler, table, loader>>

-----------------------------------------------------------------------------
(* ClassHandler::open_class                                                 *)

\* _get_class with check_allowed: only a name without an entry is checked.
MayBeAdded(c) == status[c] # "absent" \/ c \in LoadList

\* _get_class adds the names of S that have no entry.
WithEntries(S) ==
  [c \in Classes |-> IF c \in S /\ status[c] = "absent" THEN "unknown" ELSE status[c]]

\* What a thread does with the result r of open_class: a class call goes on to
\* the method or gives up, rpc_init goes on to its next class or gives up.
AfterOpen(t, r) ==
  IF t \in Callers
  THEN /\ pc' = [pc EXCEPT ![t] = IF r = 0 THEN "method" ELSE "idle"]
       /\ UNCHANGED cname
  ELSE LET i == CHOOSE k \in DOMAIN ClassList : ClassList[k] = cname[t]
       IN IF r = 0 /\ i < Len(ClassList)
          THEN /\ cname' = [cname EXCEPT ![t] = ClassList[i + 1]]
               /\ pc' = [pc EXCEPT ![t] = "open"]
          ELSE pc' = [pc EXCEPT ![t] = "idle"] /\ UNCHANGED cname

OpenRefused(t) ==
  /\ pc[t] = "open" /\ mutex = NoThread
  /\ ~MayBeAdded(cname[t])
  /\ AfterOpen(t, 1)
  /\ UNCHANGED <<handler, table, loader>>

OpenHit(t) ==
  /\ pc[t] = "open" /\ mutex = NoThread
  /\ status[cname[t]] = "open"
  /\ AfterOpen(t, 0)
  /\ UNCHANGED <<handler, table, loader>>

OpenLoad(t) ==
  /\ pc[t] = "open" /\ mutex = NoThread
  /\ MayBeAdded(cname[t]) /\ status[cname[t]] # "open"
  /\ status' = WithEntries({cname[t]})
  /\ mutex' = t
  /\ stack' = <<cname[t]>>
  /\ step' = "enter"
  /\ pc' = [pc EXCEPT ![t] = "load"]
  /\ UNCHANGED <<handler, handle, missing, inits, opens, ret, cname>>

-----------------------------------------------------------------------------
(* ClassHandler::_load_class, for the class on top of the stack.            *)

Top == Head(stack)

Loading(s) == stack # <<>> /\ step = s

LoadReturn(r) == step' = "return" /\ ret' = r /\ UNCHANGED <<mutex, stack>>

AlreadyOpen ==
  /\ Loading("enter") /\ status[Top] = "open"
  /\ LoadReturn(0)
  /\ UNCHANGED <<handler, table, pc, cname>>

\* Mutant: a class that waits for its dependencies is opened again.
NotOpenedYet(c) == status[c] # "open"

\* The library is opened on the first attempt and after a failed one; a class
\* that only waits for its dependencies keeps its handle.
NeedsDlopen(c) == status[c] \in {"unknown", "missing"}

DlopenFails ==
  /\ Loading("enter") /\ NeedsDlopen(Top)
  /\ status' = [status EXCEPT ![Top] = "missing"]
  /\ LoadReturn(1)
  /\ UNCHANGED <<handler, handle, missing, inits, opens, pc, cname>>

\* Mutant: only dependencies the table does not know are waited for.
FreshDeps(c) == {d \in Deps[c] : status[d] = "absent"}

\* The dependencies that are not open when the library has been opened.
UnopenedDeps(c) == {d \in Deps[c] : status[d] # "open"}

Dlopen ==
  /\ Loading("enter") /\ NeedsDlopen(Top)
  /\ handle' = [handle EXCEPT ![Top] = TRUE]
  /\ opens' = [opens EXCEPT ![Top] = @ + 1]
  /\ status' = WithEntries(Deps[Top])
  /\ missing' = [missing EXCEPT ![Top] = @ \cup UnopenedDeps(Top)]
  /\ step' = "resolve"
  /\ UNCHANGED <<handler, inits, mutex, stack, ret, pc, cname>>

SkipDlopen ==
  /\ Loading("enter") /\ ~NeedsDlopen(Top) /\ status[Top] # "open"
  /\ step' = "resolve"
  /\ UNCHANGED <<handler, table, mutex, stack, ret, pc, cname>>

\* The missing dependencies are loaded in the order of their addresses.
LoadDependency ==
  /\ Loading("resolve")
  /\ \E d \in missing[Top] : stack' = <<d>> \o stack
  /\ step' = "enter"
  /\ UNCHANGED <<handler, table, mutex, ret, pc, cname>>

\* __cls_init registers the methods of the class, which register_class allows
\* only while the class is being initialised.
InitClass ==
  /\ Loading("resolve") /\ missing[Top] = {} /\ Top \in Inits
  /\ status' = [status EXCEPT ![Top] = "initializing"]
  /\ step' = "init"
  /\ UNCHANGED <<handler, handle, missing, inits, opens, mutex, stack, ret, pc, cname>>

ClassOpen ==
  /\ \/ Loading("init")
     \/ Loading("resolve") /\ missing[Top] = {} /\ Top \notin Inits
  /\ inits' = [inits EXCEPT ![Top] = IF step = "init" THEN @ + 1 ELSE @]
  /\ status' = [status EXCEPT ![Top] = "open"]
  /\ LoadReturn(0)
  /\ UNCHANGED <<handler, handle, missing, opens, pc, cname>>

\* The class that waits for the one on top: a dependency that failed stays
\* missing, and the class waits for it.
Parent ==
  /\ status' = [status EXCEPT ![stack[2]] = IF ret = 0 THEN @ ELSE "missing_deps"]
  /\ missing' = [missing EXCEPT ![stack[2]] = IF ret = 0 THEN @ \ {Top} ELSE @]

DependencyReturns ==
  /\ Loading("return") /\ Len(stack) > 1
  /\ Parent
  /\ stack' = Tail(stack)
  /\ step' = IF ret = 0 THEN "resolve" ELSE "return"
  /\ UNCHANGED <<handler, handle, inits, opens, mutex, ret, pc, cname>>

\* Mutant: a failed load leaves without the unlock.
LeaveLocked == mutex' = IF ret = 0 THEN NoThread ELSE mutex

\* The lock guard of open_class.
Unlock == mutex' = NoThread

OpenReturns ==
  /\ Loading("return") /\ Len(stack) = 1
  /\ Unlock
  /\ stack' = <<>>
  /\ step' = "none"
  /\ AfterOpen(mutex, ret)
  /\ UNCHANGED <<handler, table, ret>>

-----------------------------------------------------------------------------
(* The rest of OSA_ExecClass: get_method locks again, the method itself     *)
(* runs without the lock.                                                   *)

GetMethod(t, found) ==
  /\ pc[t] = "method" /\ mutex = NoThread
  /\ found => inits[cname[t]] > 0
  /\ pc' = [pc EXCEPT ![t] = IF found THEN "exec" ELSE "idle"]
  /\ UNCHANGED <<handler, table, loader, cname>>

Exec(t) ==
  /\ pc[t] = "exec"
  /\ pc' = [pc EXCEPT ![t] = "idle"]
  /\ UNCHANGED <<handler, table, loader, cname>>

-----------------------------------------------------------------------------
(* The handler's own life.                                                  *)

\* Mutant: the handler may be missing, as after a failed allocation that is not noticed.
HandlerPerhaps ==
  /\ handler' \in BOOLEAN
  /\ pc' = [pc EXCEPT ![Main] = "open"]
  /\ cname' = [cname EXCEPT ![Main] = ClassList[1]]
  /\ UNCHANGED <<table, loader>>

\* OSA_Init: a new handler, known to the class API, and rpc_init's first call.
NewHandler ==
  /\ handler' = TRUE
  /\ pc' = [pc EXCEPT ![Main] = "open"]
  /\ cname' = [cname EXCEPT ![Main] = ClassList[1]]
  /\ UNCHANGED <<table, loader>>

\* Mutant: the libraries stay open.
LibrariesLeftOpen == UNCHANGED opens

\* ClassHandler::shutdown closes every library that is open.
LibrariesClosed == opens' = [c \in Classes |-> IF handle[c] THEN opens[c] - 1 ELSE opens[c]]

\* OSA_Finish: shutdown closes the libraries and clears the table, without the
\* mutex and without waiting for calls that still use a class.
DropHandler ==
  /\ handler' = FALSE
  /\ LibrariesClosed
  /\ status' = [c \in Classes |-> "absent"]
  /\ handle' = [c \in Classes |-> FALSE]
  /\ missing' = [c \in Classes |-> {}]
  /\ inits' = [c \in Classes |-> 0]
  /\ UNCHANGED <<loader, pc, cname>>

Load == \/ AlreadyOpen \/ DlopenFails \/ Dlopen \/ SkipDlopen \/ LoadDependency
        \/ InitClass \/ ClassOpen \/ DependencyReturns \/ OpenReturns

Open(t) == OpenRefused(t) \/ OpenHit(t) \/ OpenLoad(t)

\* The steps of threads that are already in a call.
ClassNext ==
  \/ Load
  \/ \E t \in Threads : Open(t)
  \/ \E t \in Callers : Exec(t) \/ \E found \in BOOLEAN : GetMethod(t, found)

-----------------------------------------------------------------------------
Statuses == {"absent", "unknown", "missing", "missing_deps", "initializing", "open"}

ClassTypeOK ==
  /\ handler \in BOOLEAN
  /\ status \in [Classes -> Statuses]
  /\ handle \in [Classes -> BOOLEAN]
  /\ missing \in [Classes -> SUBSET Classes]
  /\ inits \in [Classes -> Nat]
  /\ opens \in [Classes -> Nat]
  /\ mutex \in Threads \cup {NoThread}
  /\ stack \in Seq(Classes)
  /\ step \in {"none", "enter", "resolve", "init", "return"}
  /\ ret \in {0, 1}
  /\ pc \in [Threads -> {"idle", "open", "load", "method", "exec", "null"}]
  /\ cname \in [Threads -> Classes \cup {NoClass}]

Opened == {c \in Classes : status[c] = "open"}

\* A class is usable only when every class it depends on is, however often
\* and in whatever order loads of them failed before (_load_class keeps the
\* failed ones in missing_dependencies and goes on from there).
OpenClosure == \A c \in Opened : Deps[c] \subseteq Opened

\* A library is opened once and its __cls_init runs once: a class that has
\* waited for a dependency goes on with the handle it has, a repeated
\* open_class, a shared dependency or a retry after a failure registers nothing
\* again, and shutdown closes each handle once, so that nothing stays loaded
\* (_load_class, shutdown).
LoadedOnce == \A c \in Classes :
  /\ opens[c] = IF handle[c] THEN 1 ELSE 0
  /\ inits[c] = IF c \in Opened \cap Inits THEN 1 ELSE 0
=============================================================================
