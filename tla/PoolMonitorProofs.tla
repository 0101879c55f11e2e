------------------------- MODULE PoolMonitorProofs -------------------------
(***************************************************************************)
(* Proofs about PoolMonitor, for every set of pools and any number of      *)
(* failures.                                                               *)
(***************************************************************************)
EXTENDS PoolMonitor, TLAPS

\* Lines being worked through, and the pools of them that are done.
InRound == pc \in {"lines", "record", "swap"}
Done == {p \in Listed : p \notin todo /\ ~(pc = "record" /\ pool.id = p)}

\* The list and the map that a round fills name the same pools, whatever failed
\* rounds have left in them.
ListMatchesMap == \A p \in Pools : p \in ToSet(poolList) <=> tmpPoolInfoMap[p] # None

\* What Record holds is from this df and no longer to do.
PoolInHand == pc = "record" =>
  pool.id \in Listed \ todo /\ pool.info.usage = line[pool.id]

\* The lines that are done are in the list, with the usage of this df.
DoneRecorded == InRound =>
  \A p \in Done : tmpPoolInfoMap[p] # None /\ tmpPoolInfoMap[p].usage = line[p]

\* Without a failed round before, nothing else is.
OnlyDone == ~dirty => \A p \in Pools : tmpPoolInfoMap[p] # None => InRound /\ p \in Done

\* Compare has been through.
Compared == pc = "swap" => todo = {} /\ poolInfoMap = tmpPoolInfoMap

RoundInv == TypeOK /\ ListMatchesMap /\ PoolInHand /\ DoneRecorded /\ OnlyDone /\ Compared

\* An element of a sequence with one more at its end.
LEMMA ToSetAppend ==
  ASSUME NEW S, NEW s \in Seq(S), NEW e \in S
  PROVE  ToSet(Append(s, e)) = ToSet(s) \cup {e}
<1> DEFINE t == Append(s, e)
<1>1. /\ DOMAIN s = 1..Len(s) /\ DOMAIN t = 1..(Len(s) + 1) /\ Len(s) \in Nat
      /\ t[Len(s) + 1] = e
      /\ \A i \in 1..Len(s) : t[i] = s[i]
  OBVIOUS
<1>2. ASSUME NEW x \in ToSet(t) PROVE x \in ToSet(s) \cup {e}
  <2>1. PICK i \in 1..(Len(s) + 1) : x = t[i]
    BY <1>1, <1>2 DEF ToSet
  <2>2. CASE i = Len(s) + 1
    BY <1>1, <2>1, <2>2
  <2>3. CASE i \in 1..Len(s)
    BY <1>1, <2>1, <2>3 DEF ToSet
  <2> QED
    BY <1>1, <2>2, <2>3
<1>3. ASSUME NEW x \in ToSet(s) PROVE x \in ToSet(t)
  <2>1. PICK i \in 1..Len(s) : x = s[i]
    BY <1>1, <1>3 DEF ToSet
  <2>2. i \in DOMAIN t /\ x = t[i]
    BY <1>1, <2>1
  <2> HIDE DEF t
  <2> QED
    BY <2>2 DEF ToSet
<1>4. e \in ToSet(t)
  <2>1. Len(s) + 1 \in DOMAIN t /\ t[Len(s) + 1] = e
    BY <1>1
  <2> HIDE DEF t
  <2> QED
    BY <2>1 DEF ToSet
<1> QED
  BY <1>2, <1>3, <1>4

LEMMA ToSetEmpty == ToSet(<<>>) = {}
  BY DEF ToSet

LEMMA ToSetType ==
  ASSUME NEW S, NEW s \in Seq(S)
  PROVE  ToSet(s) \subseteq S
  BY DEF ToSet
-----------------------------------------------------------------------------
\* Every step keeps every variable in its type; the stripe unit Record uses
\* has been asked for.
LEMMA TypeStep == TypeOK /\ [Next]_vars => TypeOK'
<1> SUFFICES ASSUME TypeOK, [Next]_vars PROVE TypeOK'
  OBVIOUS
<1> USE MonitorAssumption DEF TypeOK, cluster, round, maps, outside
<1>1. ASSUME NEW p \in Pools, CreatePool(p) PROVE TypeOK'
  BY <1>1 DEF CreatePool, Listed
<1>2. ASSUME NEW p \in Pools, DeletePool(p) PROVE TypeOK'
  BY <1>2 DEF DeletePool, Listed
<1>3. ASSUME NEW p \in Pools, NEW u \in Usages, ChangeUsage(p, u) PROVE TypeOK'
  BY <1>3 DEF ChangeUsage, Listed
<1>4. CASE Start
  BY <1>4 DEF Start, Fault, Listed
<1>5. CASE Df
  <2>1. CASE Fault
    <3>1. failures' \in 0..MaxFailures /\ failures' # failures
      BY <2>1 DEF Fault
    <3>2. /\ UNCHANGED <<life, usage, changes, line, todo, pool, globalStripeSize, poolList,
                         tmpPoolInfoMap, poolInfoMap, tmpList, outside>>
          /\ pc' \in {"sleep", "check"} /\ inTimer' = TRUE /\ dirty' = TRUE
      BY <1>5, <3>1 DEF Df, EndRound
    <3> QED
      BY <3>1, <3>2 DEF Listed
  <2>2. CASE UNCHANGED <<inTimer, failures, dirty>> /\ pc' = "lines"
    <3>1. /\ line' = [p \in Pools |-> IF life[p] = "live" /\ Matched(usage[p]) THEN usage[p]
                                                                               ELSE None]
          /\ todo' = {p \in Pools : line'[p] # None}
      BY <1>5, <2>2 DEF Df, Fault
    <3>2. line' \in [Pools -> Usages \cup {None}] /\ todo' \subseteq Listed'
      BY <3>1 DEF Listed
    <3>3. UNCHANGED <<life, usage, failures, changes, inTimer, pool, maps, outside>>
      BY <1>5, <2>2 DEF Df
    <3>4. pc' # "record"
      BY <2>2
    <3> QED
      BY <2>2, <3>2, <3>3, <3>4
  <2> QED
    BY <1>5, <2>1, <2>2 DEF Df
<1>6. ASSUME NEW p \in Pools, QueryPool(p) PROVE TypeOK'
  <2>1. line[p] \in Usages /\ todo' \subseteq Listed'
    BY <1>6 DEF QueryPool, Listed
  <2>2. globalStripeSize' \in Units /\ failures' \in 0..MaxFailures
    BY <1>6 DEF QueryPool, StripeUnit, Unasked, Fault, Units
  <2>3. [usage |-> line[p], unit |-> IF p \in OwnUnit THEN "own" ELSE globalStripeSize'] \in Infos
    BY <2>1, <2>2 DEF Infos, Units
  <2>4. pool' \in [id : Pools, info : Infos] /\ pool' # None
    BY <1>6, <2>3 DEF QueryPool
  <2>5. /\ UNCHANGED <<life, usage, changes, inTimer, line, poolList, tmpPoolInfoMap, poolInfoMap,
                       tmpList, dirty, outside>>
        /\ pc' = "record"
    BY <1>6 DEF QueryPool
  <2> QED
    BY <2>1, <2>2, <2>4, <2>5
<1>7. ASSUME NEW p \in Pools, QueryFails(p) PROVE TypeOK'
  BY <1>7 DEF QueryFails, GiveUp, EndRound, Fault, Unasked, Listed, Units
<1>8. CASE Record
  BY <1>8 DEF Record, Set, Listed
<1>9. CASE Compare
  BY <1>9 DEF Compare, Updated, Listed
<1>10. CASE UpdatePoolList
  <2>1. /\ tmpList' \in Seq(Pools) /\ poolList' \in Seq(Pools)
        /\ tmpPoolInfoMap' \in [Pools -> Infos \cup {None}]
        /\ pc' = "report" /\ dirty' = FALSE
    BY <1>10 DEF UpdatePoolList, SwapList
  <2>2. UNCHANGED <<cluster, inTimer, line, todo, pool, globalStripeSize, poolInfoMap, outside>>
    BY <1>10 DEF UpdatePoolList
  <2> QED
    BY <2>1, <2>2 DEF Listed
<1>11. CASE ReportCreatePool
  BY <1>11, ToSetType DEF ReportCreatePool, PoolArr, EndRound, Fault, Listed
<1>12. CASE Check \/ Sleep \/ Register \/ Stop \/ Join \/ UNCHANGED vars
  <2>1. CASE Check
    BY <2>1 DEF Check, Listed
  <2>2. CASE Sleep
    BY <2>2 DEF Sleep, Listed
  <2>3. CASE Register
    BY <2>3 DEF Register, Listed
  <2>4. CASE Stop
    BY <2>4 DEF Stop, Listed
  <2>5. CASE Join
    BY <2>5 DEF Join, Listed
  <2>6. CASE UNCHANGED vars
    BY <2>6 DEF vars, Listed
  <2> QED
    BY <1>12, <2>1, <2>2, <2>3, <2>4, <2>5, <2>6
<1> QED
  BY <1>1, <1>2, <1>3, <1>4, <1>5, <1>6, <1>7, <1>8, <1>9, <1>10, <1>11, <1>12 DEF Next, Monitor
-----------------------------------------------------------------------------
RoundParts == ListMatchesMap /\ PoolInHand /\ DoneRecorded /\ OnlyDone /\ Compared

\* A step outside the lines of a round that touches neither list nor maps.
LEMMA IdleStep ==
  ASSUME RoundInv, ~InRound, ~InRound', UNCHANGED <<poolList, tmpPoolInfoMap>>,
         dirty' \in {dirty, TRUE}, TypeOK'
  PROVE  RoundParts'
  BY DEF RoundInv, RoundParts, TypeOK, ListMatchesMap, PoolInHand, DoneRecorded, OnlyDone, Compared,
         InRound

\* A step of somebody else.
LEMMA OtherStep ==
  ASSUME RoundInv,
         UNCHANGED <<pc, line, todo, pool, poolList, tmpPoolInfoMap, poolInfoMap, dirty>>
  PROVE  RoundParts'
  BY DEF RoundInv, RoundParts, ListMatchesMap, PoolInHand, DoneRecorded, OnlyDone, Compared,
         InRound, Done, Listed

\* Every step keeps the account of a round: what is done, what is left over
\* from failed rounds, what Compare has made of it.
LEMMA RoundStep == RoundInv /\ TypeOK' /\ [Next]_vars => RoundParts'
<1> SUFFICES ASSUME RoundInv, TypeOK', [Next]_vars PROVE RoundParts'
  OBVIOUS
<1>1. CASE \/ \E p \in Pools : CreatePool(p) \/ DeletePool(p) \/ \E u \in Usages : ChangeUsage(p, u)
           \/ Register \/ Stop \/ Join \/ UNCHANGED vars
  <2>1. UNCHANGED <<pc, line, todo, pool, poolList, tmpPoolInfoMap, poolInfoMap, dirty>>
    BY <1>1 DEF CreatePool, DeletePool, ChangeUsage, Register, Stop, Join, vars, round, maps
  <2> QED
    BY <2>1, OtherStep
<1>2. CASE Start \/ Check \/ Sleep \/ ReportCreatePool
  <2>1. /\ ~InRound /\ ~InRound' /\ UNCHANGED <<poolList, tmpPoolInfoMap>>
        /\ dirty' \in {dirty, TRUE}
    BY <1>2 DEF Start, Check, Sleep, ReportCreatePool, EndRound, maps, InRound
  <2> QED
    BY <2>1, IdleStep
<1>3. CASE Df
  <2>1. CASE pc' # "lines"
    <3>1. /\ ~InRound /\ ~InRound' /\ UNCHANGED <<poolList, tmpPoolInfoMap>>
          /\ dirty' \in {dirty, TRUE}
      BY <1>3, <2>1 DEF Df, EndRound, InRound
    <3> QED
      BY <3>1, IdleStep
  <2>2. CASE pc' = "lines"
    <3>1. /\ ~InRound /\ UNCHANGED <<poolList, tmpPoolInfoMap, dirty>>
          /\ todo' = {p \in Pools : line'[p] # None}
      BY <1>3, <2>2 DEF Df, EndRound, InRound
    <3>2. todo' = Listed'
      BY <3>1 DEF Listed
    <3> QED
      BY <2>2, <3>1, <3>2 DEF RoundInv, RoundParts, ListMatchesMap, PoolInHand, DoneRecorded,
                              OnlyDone, Compared, Done
  <2> QED
    BY <2>1, <2>2
<1>4. ASSUME NEW p \in Pools, QueryPool(p) PROVE RoundParts'
  <2>1. /\ pc = "lines" /\ pc' = "record" /\ p \in todo /\ todo' = todo \ {p}
        /\ pool'.id = p /\ pool'.info.usage = line[p]
        /\ UNCHANGED <<line, poolList, tmpPoolInfoMap, dirty>>
    BY <1>4 DEF QueryPool
  <2>2. p \in Listed /\ Listed' = Listed
    BY <2>1 DEF RoundInv, TypeOK, Listed
  <2>3. Done' = Done
    BY <2>1, <2>2 DEF Done
  <2> QED
    BY <2>1, <2>2, <2>3 DEF RoundInv, RoundParts, ListMatchesMap, PoolInHand, DoneRecorded,
                            OnlyDone, Compared, InRound
<1>5. ASSUME NEW p \in Pools, QueryFails(p) PROVE RoundParts'
  <2>1. pc' \in {"sleep", "check"} /\ dirty' = TRUE /\ UNCHANGED <<poolList, tmpPoolInfoMap>>
    BY <1>5 DEF QueryFails, GiveUp, EndRound
  <2> QED
    BY <2>1 DEF RoundInv, RoundParts, ListMatchesMap, PoolInHand, DoneRecorded, OnlyDone, Compared,
                InRound
<1>6. CASE Record
  <2>1. /\ pc = "record" /\ pc' = "lines"
        /\ tmpPoolInfoMap' = [tmpPoolInfoMap EXCEPT ![pool.id] = pool.info]
        /\ poolList' = Append(poolList, pool.id)
        /\ UNCHANGED <<line, todo, dirty>>
    BY <1>6 DEF Record, Set
  <2>2. /\ pool.id \in Pools /\ pool.info \in Infos /\ pool.info # None
        /\ tmpPoolInfoMap \in [Pools -> Infos \cup {None}] /\ poolList \in Seq(Pools)
    BY <2>1, MonitorAssumption DEF RoundInv, TypeOK
  <2>3. Listed' = Listed /\ Done' = Done \cup {pool.id}
    BY <2>1, <2>2 DEF RoundInv, PoolInHand, Done, Listed
  <2>4. ListMatchesMap'
    <3>1. ToSet(poolList') = ToSet(poolList) \cup {pool.id}
      BY <2>1, <2>2, ToSetAppend
    <3> QED
      BY <2>1, <2>2, <3>1 DEF RoundInv, ListMatchesMap
  <2>5. DoneRecorded'
    BY <2>1, <2>2, <2>3 DEF RoundInv, PoolInHand, DoneRecorded, InRound, Done, Listed
  <2>6. OnlyDone'
    BY <2>1, <2>2, <2>3 DEF RoundInv, OnlyDone, InRound
  <2> QED
    BY <2>1, <2>4, <2>5, <2>6 DEF RoundParts, PoolInHand, Compared
<1>7. CASE Compare
  <2>1. /\ pc = "lines" /\ pc' = "swap" /\ todo = {} /\ poolInfoMap' = Updated(ToSet(poolList))
        /\ UNCHANGED <<line, todo, pool, poolList, tmpPoolInfoMap, dirty>>
    BY <1>7 DEF Compare
  <2>2. poolInfoMap' = tmpPoolInfoMap
    BY <2>1 DEF RoundInv, TypeOK, ListMatchesMap, Updated
  <2>3. Done' = Done
    BY <2>1 DEF Done, Listed
  <2> QED
    BY <2>1, <2>2, <2>3 DEF RoundInv, RoundParts, ListMatchesMap, PoolInHand, DoneRecorded,
                            OnlyDone, Compared, InRound
<1>8. CASE UpdatePoolList
  <2>1. /\ pc' = "report" /\ poolList' = <<>> /\ tmpPoolInfoMap' = [p \in Pools |-> None]
    BY <1>8 DEF UpdatePoolList, SwapList
  <2> QED
    BY <2>1, ToSetEmpty DEF RoundParts, ListMatchesMap, PoolInHand, DoneRecorded, OnlyDone,
                            Compared, InRound
<1> QED
  BY <1>1, <1>2, <1>3, <1>4, <1>5, <1>6, <1>7, <1>8 DEF Next, Monitor

\* The account holds in every reachable state.
THEOREM RoundAccount == Spec => []RoundInv
<1>1. Init => RoundInv
  <2> SUFFICES ASSUME Init PROVE RoundInv
    OBVIOUS
  <2>1. TypeOK
    <3>1. life \in [Pools -> {"new", "live", "deleted"}] /\ usage \in [Pools -> Usages]
      BY DEF Init, Usages
    <3>2. /\ line \in [Pools -> Usages \cup {None}] /\ todo \subseteq Listed
          /\ tmpPoolInfoMap \in [Pools -> Infos \cup {None}]
          /\ poolInfoMap \in [Pools -> Infos \cup {None}]
      BY DEF Init
    <3>3. poolList \in Seq(Pools) /\ tmpList \in Seq(Pools)
      BY DEF Init
    <3>4. failures \in 0..MaxFailures /\ changes \in 0..MaxChanges
      BY MonitorAssumption DEF Init
    <3> QED
      BY <3>1, <3>2, <3>3, <3>4 DEF Init, TypeOK
  <2>2. RoundParts
    BY ToSetEmpty DEF Init, RoundParts, ListMatchesMap, PoolInHand, DoneRecorded, OnlyDone,
                      Compared, InRound
  <2> QED
    BY <2>1, <2>2 DEF RoundInv, RoundParts
<1>2. RoundInv /\ [Next]_vars => RoundInv'
  BY TypeStep, RoundStep DEF RoundInv, RoundParts
<1> QED
  BY <1>1, <1>2, PTL DEF Spec

\* After Compare every listed pool has the usage of the df of this round.
THEOREM UsageIsFresh == Spec => []UsageFresh
<1>1. RoundInv => UsageFresh
  BY DEF RoundInv, UsageFresh, DoneRecorded, Compared, InRound, Done, Listed
<1> QED
  BY <1>1, RoundAccount, PTL

\* A round that follows a completed one leaves exactly the pools of its df.
THEOREM CleanRoundIsExact == Spec => []CleanRoundExact
<1>1. RoundInv => CleanRoundExact
  BY DEF RoundInv, CleanRoundExact, DoneRecorded, OnlyDone, Compared, InRound, Done, Listed, Known
<1> QED
  BY <1>1, RoundAccount, PTL

\* A pool leaves poolInfoMap only by a Compare of a round that does not list it.
THEOREM KnownPoolsStay == Spec => KnownPoolStays
<1> DEFINE A == \A p \in Known \ Known' : p \notin Listed
<1>1. RoundInv /\ RoundInv' /\ [Next]_vars => [A]_vars
  <2> SUFFICES ASSUME RoundInv, RoundInv', Next PROVE A
    OBVIOUS
  <2>1. CASE Compare
    <3>1. pc' = "swap" /\ UNCHANGED line
      BY <2>1 DEF Compare
    <3>2. Listed \subseteq Known'
      BY <3>1 DEF RoundInv, DoneRecorded, Compared, InRound, Done, Listed, Known
    <3> QED
      BY <3>2
  <2>2. CASE UNCHANGED poolInfoMap
    BY <2>2 DEF Known
  <2> QED
    BY <2>1, <2>2 DEF Next, Monitor, CreatePool, DeletePool, ChangeUsage, Start, Df, QueryPool,
         QueryFails, Record, UpdatePoolList, ReportCreatePool, Check, Sleep, Register, Stop, Join,
         maps
<1> QED
  BY <1>1, RoundAccount, PTL DEF Spec, KnownPoolStays
=============================================================================
