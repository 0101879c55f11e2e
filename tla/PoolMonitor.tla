---------------------------- MODULE PoolMonitor ----------------------------
(***************************************************************************)
(* The pool monitor of the ceph proxy (RadosMonitor.cc) and the report of  *)
(* pools to the cluster manager (CcmAdaptor.cc).                           *)
(*                                                                         *)
(* A round asks the Ceph monitor for "df", then, line by line, for the     *)
(* details of each pool; it collects them in tmpPoolInfoMap and poolList,  *)
(* brings poolInfoMap up to date and reports the list.  Start makes the    *)
(* first round itself and then leaves the rounds to the timer thread.      *)
(* Meanwhile pools come, grow and go, and any query may fail.              *)
(*                                                                         *)
(* A step is a query or what is done under one hold of mutex.              *)
(***************************************************************************)
EXTENDS Naturals, Sequences, SequencesExt

CONSTANTS
  Pools,        \* pool ids; Ceph does not use one twice
  OwnUnit,      \* erasure coded pools with a stripe_unit in their profile
  MaxFailures,  \* bound: queries, allocations and reports that fail
  MaxChanges,   \* bound: changes of a pool's usage
  None

\* What a line of df says of a pool.  A size in PiB is not matched by
\* storedPattern, usedPattern and availPattern.
Usages == {"low", "high", "PiB"}
Matched(u) == u # "PiB"
\* The default stripe unit, or the negative error of its query, as a uint32_t.
Units == {"default", "error", "own"}
Infos == [usage : Usages, unit : Units]

ASSUME MonitorAssumption ==
  /\ OwnUnit \subseteq Pools /\ MaxFailures \in Nat /\ MaxChanges \in Nat
  /\ None \notin Infos /\ None \notin Usages /\ None \notin [id : Pools, info : Infos]

VARIABLES
  life, usage,     \* the cluster: "new", "live" or "deleted"; the usage of each pool
  failures, changes,
  pc, inTimer,     \* the thread that makes rounds: where it is; Start or the timer
  line, todo,      \* df: usage by pool (None: no matching line), the lines still to do
  pool,            \* the pool Record is at, with what it has found out
  globalStripeSize,
  poolList, tmpPoolInfoMap, poolInfoMap,
  tmpList,         \* of UpdatePoolList
  dirty,           \* history: a round has failed since the last one that compared
  notifyCreateFunc,
  reported,        \* history: pools reported so far
  stop, app        \* the flag; the thread that calls Stop

cluster == <<life, usage, failures, changes>>
round == <<pc, inTimer, line, todo, pool>>
maps == <<globalStripeSize, poolList, tmpPoolInfoMap, poolInfoMap, tmpList, dirty>>
outside == <<notifyCreateFunc, reported, stop, app>>
vars == <<cluster, round, maps, outside>>

Listed == {p \in Pools : line[p] # None}
Known == {p \in Pools : poolInfoMap[p] # None}
-----------------------------------------------------------------------------
\* The cluster (external).

CreatePool(p) ==
  /\ life[p] = "new" /\ life' = [life EXCEPT ![p] = "live"]
  /\ UNCHANGED <<usage, failures, changes, round, maps, outside>>

DeletePool(p) ==
  /\ life[p] = "live" /\ life' = [life EXCEPT ![p] = "deleted"]
  /\ UNCHANGED <<usage, failures, changes, round, maps, outside>>

ChangeUsage(p, u) ==
  /\ changes < MaxChanges /\ life[p] = "live" /\ usage[p] # u
  /\ usage' = [usage EXCEPT ![p] = u] /\ changes' = changes + 1
  /\ UNCHANGED <<life, failures, round, maps, outside>>
-----------------------------------------------------------------------------
\* UpdatePoolUsage: one round.

Fault == failures < MaxFailures /\ failures' = failures + 1

\* Start goes on to create the timer, the timer to sleep.
EndRound == /\ pc' = IF inTimer THEN "sleep" ELSE "check"
            /\ inTimer' = TRUE

\* Start with a new adaptor; without memory for one there is no timer either.
Start ==
  /\ pc = "off"
  /\ \/ pc' = "df" /\ UNCHANGED failures
     \/ pc' = "noTimer" /\ Fault
  /\ UNCHANGED <<life, usage, changes, inTimer, line, todo, pool, maps, outside>>

\* The mon_command "df": the lines that the pattern matches.
Df ==
  /\ pc = "df"
  /\ \/ /\ line' = [p \in Pools |-> IF life[p] = "live" /\ Matched(usage[p]) THEN usage[p]
                                                                             ELSE None]
        /\ todo' = {p \in Pools : line'[p] # None}
        /\ pc' = "lines"
        /\ UNCHANGED <<inTimer, failures, dirty>>
     \/ Fault /\ EndRound /\ dirty' = TRUE /\ UNCHANGED <<line, todo>>
  /\ UNCHANGED <<life, usage, changes, pool, globalStripeSize, poolList, tmpPoolInfoMap,
                 poolInfoMap, tmpList, outside>>

\* GetDefaultECStripeUnit is called until globalStripeSize has a value ...
Unasked == globalStripeSize = None

\* ... and an error it returns is such a value.
StripeUnit ==
  IF Unasked THEN \/ globalStripeSize' = "default" /\ UNCHANGED failures
                  \/ globalStripeSize' = "error" /\ Fault
             ELSE UNCHANGED <<globalStripeSize, failures>>

\* Record up to its lock, ParseToRecordInfo and CalPoolSize: the queries for
\* the pool of the next line.
QueryPool(p) ==
  /\ pc = "lines" /\ p \in todo /\ life[p] = "live"
  /\ StripeUnit
  /\ pool' = [id |-> p,
              info |-> [usage |-> line[p],
                        unit |-> IF p \in OwnUnit THEN "own" ELSE globalStripeSize']]
  /\ todo' = todo \ {p}
  /\ pc' = "record"
  /\ UNCHANGED <<life, usage, changes, inTimer, line, poolList, tmpPoolInfoMap, poolInfoMap,
                 tmpList, dirty, outside>>

\* Mutant: a failed Record ends the loop over the lines, not the round.
CompareAll == todo' = {} /\ UNCHANGED <<pc, inTimer>>

\* GetPoolStorageUsage returns -1: the round ends here.
GiveUp == EndRound /\ UNCHANGED todo

\* A query fails, for a pool that is gone in any case, before or after the one
\* for the stripe unit; what earlier lines have left in poolList and
\* tmpPoolInfoMap stays.
QueryFails(p) ==
  /\ pc = "lines" /\ p \in todo
  /\ IF life[p] = "deleted" THEN UNCHANGED failures ELSE Fault
  /\ GiveUp
  /\ dirty' = TRUE
  /\ globalStripeSize' \in IF Unasked THEN {None, "default", "error"} ELSE {globalStripeSize}
  /\ UNCHANGED <<life, usage, changes, line, pool, poolList, tmpPoolInfoMap, poolInfoMap,
                 tmpList, outside>>

\* Mutant: map::insert, which leaves an entry that is there.
SetIfNew(map, p, info) == IF map[p] = None THEN [map EXCEPT ![p] = info] ELSE map

\* tmpPoolInfoMap[poolId].… = …
Set(map, p, info) == [map EXCEPT ![p] = info]

\* The rest of Record.
Record ==
  /\ pc = "record"
  /\ tmpPoolInfoMap' = Set(tmpPoolInfoMap, pool.id, pool.info)
  /\ poolList' = Append(poolList, pool.id)
  /\ pool' = None
  /\ pc' = "lines"
  /\ UNCHANGED <<cluster, inTimer, line, todo, globalStripeSize, poolInfoMap, tmpList, dirty,
                 outside>>

\* Mutant: Compare without its second half.
KeepOld(list) == [p \in Pools |-> IF p \in list THEN tmpPoolInfoMap[p] ELSE poolInfoMap[p]]

\* What Compare makes of poolInfoMap: the pools of the list with their new
\* values, and no others.
Updated(list) == [p \in Pools |-> IF p \in list THEN tmpPoolInfoMap[p] ELSE None]

Compare ==
  /\ pc = "lines" /\ todo = {}
  /\ poolInfoMap' = Updated(ToSet(poolList))
  /\ pc' = "swap"
  /\ UNCHANGED <<cluster, inTimer, line, todo, pool, globalStripeSize, poolList, tmpPoolInfoMap,
                 tmpList, dirty, outside>>

\* poolList.swap(tmpList), where tmpList is new.
SwapList == tmpList' = poolList /\ poolList' = <<>>

UpdatePoolList ==
  /\ pc = "swap"
  /\ SwapList
  /\ tmpPoolInfoMap' = [p \in Pools |-> None]
  /\ dirty' = FALSE
  /\ pc' = "report"
  /\ UNCHANGED <<cluster, inTimer, line, todo, pool, globalStripeSize, poolInfoMap, outside>>

\* Mutant: ReportCreatePool is given poolList, which is empty by now.
NewPools == ToSet(poolList)

\* What ReportPoolNewAndDel passes on: not the new pools, all of them.
PoolArr == ToSet(tmpList)

\* ReportCreatePool: allocate, call the function if there is one; its error
\* or that of the allocation only ends the round.
ReportCreatePool ==
  /\ pc = "report"
  /\ \/ /\ reported' = IF notifyCreateFunc THEN reported \cup PoolArr ELSE reported
        /\ UNCHANGED failures
     \/ Fault /\ UNCHANGED reported
  /\ tmpList' = <<>>
  /\ EndRound
  /\ UNCHANGED <<life, usage, changes, line, todo, pool, globalStripeSize, poolList,
                 tmpPoolInfoMap, poolInfoMap, dirty, notifyCreateFunc, stop, app>>
-----------------------------------------------------------------------------
\* PoolUsageTimer, and the calls from outside.

\* Mutant: the flag is looked at only before the first round.
NoLook == FALSE

\* isStop().
IsStop == stop

Check ==
  /\ pc = "check" /\ pc' = IF IsStop THEN "done" ELSE "df"
  /\ UNCHANGED <<cluster, inTimer, line, todo, pool, maps, outside>>

Sleep ==
  /\ pc = "sleep" /\ pc' = "check"
  /\ UNCHANGED <<cluster, inTimer, line, todo, pool, maps, outside>>

\* RegisterPoolNewNotifyFn succeeds once the adaptor is there, and once only.
Register ==
  /\ pc \notin {"off", "noTimer"} /\ app = "up" /\ ~notifyCreateFunc
  /\ notifyCreateFunc' = TRUE
  /\ UNCHANGED <<cluster, round, maps, reported, stop, app>>

\* Stop, after Start has returned: the flag, then timer.join(), which throws
\* if there is no timer.
Stop ==
  /\ app = "up" /\ (inTimer \/ pc = "noTimer")
  /\ stop' = TRUE
  /\ app' = IF pc = "noTimer" THEN "thrown" ELSE "joining"
  /\ UNCHANGED <<cluster, round, maps, notifyCreateFunc, reported>>

Join ==
  /\ app = "joining" /\ pc = "done"
  /\ app' = "down"
  /\ UNCHANGED <<cluster, round, maps, notifyCreateFunc, reported, stop>>
-----------------------------------------------------------------------------
Init ==
  /\ life \in [Pools -> {"new", "live"}] /\ usage = [p \in Pools |-> "low"]
  /\ failures = 0 /\ changes = 0
  /\ pc = "off" /\ inTimer = FALSE
  /\ line = [p \in Pools |-> None] /\ todo = {} /\ pool = None
  /\ globalStripeSize = None
  /\ poolList = <<>> /\ tmpList = <<>> /\ dirty = FALSE
  /\ tmpPoolInfoMap = [p \in Pools |-> None] /\ poolInfoMap = [p \in Pools |-> None]
  /\ notifyCreateFunc = FALSE /\ reported = {}
  /\ stop = FALSE /\ app = "up"

Monitor == \/ Df \/ Record \/ Compare \/ UpdatePoolList \/ ReportCreatePool
           \/ \E p \in Pools : QueryPool(p) \/ QueryFails(p)
           \/ Check \/ Sleep

Next ==
  \/ \E p \in Pools : CreatePool(p) \/ DeletePool(p) \/ \E u \in Usages : ChangeUsage(p, u)
  \/ Start \/ Monitor \/ Register \/ Stop \/ Join

Spec == Init /\ [][Next]_vars

\* The thread that makes rounds runs and its sleeps end; so does Stop.
Fairness == WF_vars(Monitor) /\ WF_vars(Join)

FairSpec == Spec /\ Fairness
-----------------------------------------------------------------------------
\* The types of the variables.
TypeOK ==
  /\ life \in [Pools -> {"new", "live", "deleted"}] /\ usage \in [Pools -> Usages]
  /\ failures \in 0..MaxFailures /\ changes \in 0..MaxChanges
  /\ pc \in {"off", "noTimer", "df", "lines", "record", "swap", "report", "sleep",
             "check", "done"}
  /\ inTimer \in BOOLEAN /\ dirty \in BOOLEAN
  /\ line \in [Pools -> Usages \cup {None}] /\ todo \subseteq Listed
  /\ pool \in [id : Pools, info : Infos] \cup {None} /\ (pc = "record" => pool # None)
  /\ globalStripeSize \in Units \cup {None}
  /\ poolList \in Seq(Pools) /\ tmpList \in Seq(Pools)
  /\ tmpPoolInfoMap \in [Pools -> Infos \cup {None}]
  /\ poolInfoMap \in [Pools -> Infos \cup {None}]
  /\ notifyCreateFunc \in BOOLEAN /\ reported \subseteq Pools
  /\ stop \in BOOLEAN /\ app \in {"up", "joining", "down", "thrown"}

\* A completed round leaves every pool that df listed in poolInfoMap with the
\* usage of that very df, also where a failed round has left an older one.
UsageFresh == pc = "swap" =>
  \A p \in Listed : poolInfoMap[p] # None /\ poolInfoMap[p].usage = line[p]

\* A round that follows a completed one leaves exactly the pools of its df.
CleanRoundExact == pc = "swap" /\ ~dirty => Known = Listed

\* "Delete pools that no longer exist from pool info": every completed round
\* leaves only pools of its df.
NoGonePools == pc = "swap" => Known \subseteq Listed

\* A pool that callers of GetPoolInfo are told about does not vanish while df
\* lists it, however many rounds fail.
KnownPoolStays == [][\A p \in Known \ Known' : p \notin Listed]_vars

\* Once the function is registered every pool is reported: a report that
\* failed, or came too early, is made up for by a later round.
PoolReported == \A p \in Pools :
  notifyCreateFunc /\ life[p] = "live" ~>
    p \in reported \/ life[p] = "deleted" \/ usage[p] = "PiB" \/ stop

\* Stop returns if there is a timer.
StopReturns == app = "joining" ~> app = "down"
=============================================================================
