-------------------------- MODULE OpThrottleProofs --------------------------
(***************************************************************************)
(* Proofs about OpThrottle, for every number of handlers and ops, every    *)
(* throttle and every answer of the cache.                                 *)
(***************************************************************************)
EXTENDS OpThrottle, FiniteSetTheorems, TLAPS

\* The parts of the assumption on the constants that the counting rests on.
LEMMA WidthFacts ==
  /\ Width \in Nat /\ Width > 0
  /\ IsFiniteSet(Ops) /\ Cardinality(Ops) \in Nat /\ Cardinality(Ops) < Width
  /\ \A op \in Ops : Length[op] \in Nat /\ Length[op] < Width
  /\ SumLength(Ops) < Width
<1>1. IsFiniteSet(Ops) /\ Cardinality(Ops) \in Nat
  BY ThrottleAssumption, FS_CardinalityType
<1> QED
  BY <1>1, ThrottleAssumption

\* What % Width does to the values the counters take.
LEMMA ModWidth ==
  ASSUME NEW x \in Int, -Width < x, x <= Width
  PROVE  x % Width = IF x = Width THEN 0 ELSE IF x >= 0 THEN x ELSE x + Width
<1>1. Width \in Nat /\ Width > 0
  BY WidthFacts
<1>2. CASE x >= 0 /\ x < Width
  BY <1>1, <1>2
<1>3. CASE x < 0
  <2>1. x + Width \in 0..(Width - 1)
    BY <1>1, <1>3
  <2>2. (x + Width) % Width = x % Width
    BY <1>1
  <2> QED
    BY <1>1, <1>3, <2>1, <2>2
<1>4. CASE x = Width
  BY <1>1, <1>4
<1> QED
  BY <1>1, <1>2, <1>3, <1>4

\* A step of a counter modulo Width agrees with a step of what it counts.
LEMMA ModStep ==
  ASSUME NEW x \in Int, NEW d \in {-1, 1}, -Width < x, x < Width, -Width < x + d, x + d < Width
  PROVE  ((x % Width) + d) % Width = (x + d) % Width
<1>1. Width \in Nat /\ Width > 0
  BY WidthFacts
<1>2. x % Width = IF x >= 0 THEN x ELSE x + Width
  BY <1>1, ModWidth
<1>3. (x + d) % Width = IF x + d >= 0 THEN x + d ELSE x + d + Width
  BY <1>1, ModWidth
<1>4. CASE x = -1 /\ d = 1
  <2>1. Width % Width = 0
    BY <1>1, ModWidth
  <2> QED
    BY <1>1, <1>2, <1>3, <1>4, <2>1
<1>5. CASE x = 0 /\ d = -1
  BY <1>1, <1>2, <1>5
<1>6. CASE ~(x = -1 /\ d = 1) /\ ~(x = 0 /\ d = -1)
  <2> DEFINE y == (x % Width) + d
  <2>1. y \in Int /\ y >= 0 /\ y < Width
    BY <1>1, <1>2, <1>6
  <2>2. y % Width = y
    BY <1>1, <2>1
  <2> QED
    BY <1>1, <1>2, <1>3, <1>6, <2>2
<1> QED
  BY <1>4, <1>5, <1>6
-----------------------------------------------------------------------------
\* Sets of ops are finite and smaller than Width.
LEMMA OpsCount ==
  ASSUME NEW S \in SUBSET Ops
  PROVE  /\ IsFiniteSet(S) /\ Cardinality(S) \in Nat /\ Cardinality(S) < Width
         /\ \A op \in S : /\ Cardinality(S) > 0
                          /\ Cardinality(S \ {op}) = Cardinality(S) - 1
         /\ \A op \in Ops \ S : Cardinality(S \cup {op}) = Cardinality(S) + 1
<1>1. IsFiniteSet(Ops) /\ Cardinality(Ops) \in Nat /\ Cardinality(Ops) < Width
                     /\ Width \in Nat
  BY WidthFacts
<1>2. IsFiniteSet(S) /\ Cardinality(S) \in Nat /\ Cardinality(S) <= Cardinality(Ops)
  BY <1>1, FS_Subset, FS_CardinalityType
<1>3. ASSUME NEW op \in S
      PROVE  Cardinality(S) > 0 /\ Cardinality(S \ {op}) = Cardinality(S) - 1
  <2>1. S # {}
    OBVIOUS
  <2>2. Cardinality(S) # 0
    BY <1>2, <2>1, FS_EmptySet
  <2>3. Cardinality(S \ {op}) = Cardinality(S) - 1
    BY <1>2, FS_RemoveElement
  <2> QED
    BY <1>2, <2>2, <2>3
<1>4. ASSUME NEW op \in Ops \ S
      PROVE  Cardinality(S \cup {op}) = Cardinality(S) + 1
  BY <1>2, FS_AddElement
<1> QED
  BY <1>1, <1>2, <1>3, <1>4

\* The lengths of sets of ops: natural numbers below Width, monotone, and
\* additive in one op.
LEMMA BytesFinite ==
  ASSUME NEW S \in SUBSET Ops
  PROVE  IsFiniteSet(Bytes(S)) /\ SumLength(S) \in Nat
<1>1. IsFiniteSet(1..Width)
  BY FS_Interval, WidthFacts
<1>2. IsFiniteSet(Ops \X (1..Width))
  BY <1>1, FS_Product, WidthFacts
<1>3. Bytes(S) \in SUBSET (Ops \X (1..Width))
  <2> SUFFICES ASSUME NEW op \in S, NEW b \in {op} \X (1..Length[op])
               PROVE  b \in Ops \X (1..Width)
    BY DEF Bytes
  <2>1. op \in Ops /\ Length[op] \in Nat /\ Length[op] < Width /\ Width \in Nat
    BY WidthFacts
  <2> QED
    BY <2>1
<1> QED
  BY <1>2, <1>3, FS_Subset, FS_CardinalityType DEF SumLength

LEMMA SumLengthMonotone ==
  ASSUME NEW S \in SUBSET Ops, NEW T \in SUBSET S
  PROVE  SumLength(T) <= SumLength(S) /\ SumLength(S) < Width
<1>1. Bytes(T) \in SUBSET Bytes(S) /\ Bytes(S) \in SUBSET Bytes(Ops)
  BY DEF Bytes
<1>2. IsFiniteSet(Bytes(S)) /\ IsFiniteSet(Bytes(Ops)) /\ IsFiniteSet(Bytes(T))
  BY BytesFinite
<1>3. SumLength(T) <= SumLength(S) /\ SumLength(S) <= SumLength(Ops)
  BY <1>1, <1>2, FS_Subset DEF SumLength
<1>4. SumLength(S) \in Nat /\ SumLength(Ops) \in Nat
  BY BytesFinite
<1> QED
  BY <1>3, <1>4, WidthFacts

LEMMA SumLengthAdd ==
  ASSUME NEW S \in SUBSET Ops, NEW op \in Ops \ S
  PROVE  SumLength(S \cup {op}) = SumLength(S) + Length[op]
<1> DEFINE own == {op} \X (1..Length[op])
<1>1. Bytes(S \cup {op}) = Bytes(S) \cup own
  BY DEF Bytes
<1>2. Bytes(S) \cap own = {}
  <2> SUFFICES ASSUME NEW o \in S, NEW b \in {o} \X (1..Length[o]), b \in own
               PROVE  FALSE
    BY DEF Bytes
  <2>1. b[1] = o /\ b[1] = op
    OBVIOUS
  <2> QED
    BY <2>1
<1>3. IsFiniteSet(own) /\ Cardinality(own) = Length[op]
  <2>1. IsFiniteSet({op}) /\ Cardinality({op}) = 1
    BY FS_Singleton
  <2>2. Length[op] \in Nat
    BY WidthFacts
  <2>3. IsFiniteSet(1..Length[op]) /\ Cardinality(1..Length[op]) = Length[op]
    BY <2>2, FS_Interval
  <2>4. IsFiniteSet(own) /\ Cardinality(own) = Cardinality({op}) * Cardinality(1..Length[op])
    BY <2>1, <2>3, FS_Product
  <2> QED
    BY <2>1, <2>2, <2>3, <2>4
<1>4. IsFiniteSet(Bytes(S))
  BY BytesFinite
<1>5. Cardinality(Bytes(S) \cup own)
        = Cardinality(Bytes(S)) + Cardinality(own) - Cardinality(Bytes(S) \cap own)
  BY <1>3, <1>4, FS_Union
<1>6. Cardinality(Bytes(S) \cap own) = 0
  BY <1>2, FS_EmptySet
<1>7. SumLength(S) \in Nat /\ Length[op] \in Nat
  BY BytesFinite, WidthFacts
<1>8. Cardinality(Bytes(S \cup {op})) = Cardinality(Bytes(S)) + Length[op]
  <2> HIDE DEF own
  <2>1. Cardinality(Bytes(S)) \in Nat
    BY <1>7 DEF SumLength
  <2>2. Cardinality(Bytes(S \cup {op})) = Cardinality(Bytes(S) \cup own)
    BY <1>1, Zenon
  <2> QED
    BY <1>3, <1>5, <1>6, <1>7, <2>1, <2>2
<1> QED
  BY <1>8 DEF SumLength
-----------------------------------------------------------------------------
\* An op that ProcessOpReq refuses is in no counter: one with a short name goes
\* straight to PutlwtCas, one with a pool id out of range straight to the end.
StageOfRefused == \A op \in Ops :
  /\ Kind[op] = "shortName" => stage[op] \in {"queued", "putLwt", "done"}
  /\ Kind[op] = "poolOverflow" => stage[op] \in {"queued", "done"}

LEMMA ModType == \A x \in Int : x % Width \in 0..(Width - 1)
  BY WidthFacts

LEMMA KindType == \A op \in Ops : /\ Kind[op] \in {"write", "read", "shortName", "poolOverflow"}
                                  /\ Length[op] \in Nat
  BY ThrottleAssumption DEF Kinds, Classes

\* Every step keeps the counters in their width and the stages in their order.
LEMMA TypeStep ==
  ASSUME TypeOK, StageOfRefused, [Next]_vars
  PROVE  TypeOK' /\ StageOfRefused'
<1> USE KindType, ModType, WidthFacts DEF TypeOK, StageOfRefused, Classes, Getting, Putting, Goto
<1>1. ASSUME NEW op \in Ops, ProcessOpReq(op)
      PROVE  TypeOK' /\ StageOfRefused'
  BY <1>1 DEF ProcessOpReq
<1>2. ASSUME NEW op \in Ops, GetlwtCas(op)
      PROVE  TypeOK' /\ StageOfRefused'
  BY <1>2 DEF GetlwtCas
<1>3. ASSUME NEW op \in Ops, LwtPoll(op)
      PROVE  TypeOK' /\ StageOfRefused'
  BY <1>3 DEF LwtPoll
<1>4. ASSUME NEW op \in Ops, NEW c \in Classes, GetClasslwt(op, c)
      PROVE  TypeOK' /\ StageOfRefused'
  BY <1>4 DEF GetClasslwt, Counted
<1>5. ASSUME NEW op \in Ops, CountPoll(op)
      PROVE  TypeOK' /\ StageOfRefused'
  BY <1>5 DEF CountPoll
<1>6. ASSUME NEW op \in Ops, NEW c \in Classes, GetClassBW(op, c)
      PROVE  TypeOK' /\ StageOfRefused'
  BY <1>6 DEF GetClassBW
<1>7. ASSUME NEW op \in Ops, BWPoll(op)
      PROVE  TypeOK' /\ StageOfRefused'
  BY <1>7 DEF BWPoll
<1>8. ASSUME NEW op \in Ops, FinishCacheOps(op)
      PROVE  TypeOK' /\ StageOfRefused'
  BY <1>8 DEF FinishCacheOps
<1>9. ASSUME NEW op \in Ops, NEW c \in Classes, PutClassBW(op, c)
      PROVE  TypeOK' /\ StageOfRefused'
  BY <1>9 DEF PutClassBW
<1>10. ASSUME NEW op \in Ops, NEW c \in Classes, PutClasslwt(op, c)
       PROVE  TypeOK' /\ StageOfRefused'
  BY <1>10 DEF PutClasslwt
<1>11. ASSUME NEW op \in Ops, PutlwtCas(op)
       PROVE  TypeOK' /\ StageOfRefused'
  BY <1>11 DEF PutlwtCas, Decrement
<1>12. CASE UNCHANGED vars
  BY <1>12 DEF vars
<1> QED
  BY <1>1, <1>2, <1>3, <1>4, <1>5, <1>6, <1>7, <1>8, <1>9, <1>10, <1>11, <1>12
  DEF Next, Finish, GetWritelwtCas, GetReadlwtCas, GetWriteBWCas, GetReadBWCas,
      PutWriteBWCas, PutReadBWCas, PutWritelwtCas, PutReadlwtCas
-----------------------------------------------------------------------------
\* The steps that leave the ops in lwtCount and the refused ops taken out of it
\* alone, and the ones that do not.
OtherSteps(op) ==
  \/ ProcessOpReq(op) \/ LwtPoll(op) \/ CountPoll(op) \/ BWPoll(op) \/ FinishCacheOps(op)
  \/ \E c \in Classes : \/ GetClasslwt(op, c) \/ GetClassBW(op, c)
                       \/ PutClassBW(op, c) \/ PutClasslwt(op, c)

LEMMA LwtCases ==
  ASSUME [Next]_vars
  PROVE  \/ UNCHANGED vars
         \/ \E op \in Ops : GetlwtCas(op) \/ PutlwtCas(op) \/ OtherSteps(op)
  BY DEF Next, Finish, GetWritelwtCas, GetReadlwtCas, GetWriteBWCas, GetReadBWCas,
         PutWriteBWCas, PutReadBWCas, PutWritelwtCas, PutReadlwtCas, OtherSteps, Classes

LEMMA LwtSetsKept ==
  ASSUME TypeOK, StageOfRefused, NEW op \in Ops, OtherSteps(op)
  PROVE  InLwt' = InLwt /\ Unmatched' = Unmatched /\ lwtCount' = lwtCount
<1> USE KindType DEF TypeOK, Goto
<1>1. CASE ProcessOpReq(op)
  BY <1>1 DEF ProcessOpReq, Accepted, Classes, InLwt, Unmatched
<1>2. CASE LwtPoll(op) \/ CountPoll(op) \/ BWPoll(op) \/ FinishCacheOps(op)
  BY <1>2 DEF LwtPoll, CountPoll, BWPoll, FinishCacheOps, InLwt, Unmatched, Accepted, Classes, StageOfRefused
<1>3. ASSUME NEW c \in Classes, GetClasslwt(op, c) \/ GetClassBW(op, c)
      PROVE  InLwt' = InLwt /\ Unmatched' = Unmatched /\ lwtCount' = lwtCount
  BY <1>3 DEF GetClasslwt, GetClassBW, InLwt, Unmatched, Accepted, Classes
<1>4. ASSUME NEW c \in Classes, PutClassBW(op, c) \/ PutClasslwt(op, c)
      PROVE  InLwt' = InLwt /\ Unmatched' = Unmatched /\ lwtCount' = lwtCount
  BY <1>4 DEF PutClassBW, PutClasslwt, InLwt, Unmatched, Accepted, Classes
<1> QED
  BY <1>1, <1>2, <1>3, <1>4 DEF OtherSteps

\* GetlwtCas counts the op, and PutlwtCas takes it out or, for a refused op, takes
\* out what was never in.
LEMMA LwtStep ==
  ASSUME TypeOK, StageOfRefused, LwtLedger, [Next]_vars
  PROVE  LwtLedger'
<1> DEFINE diff == Cardinality(InLwt) - Cardinality(Unmatched)
<1>a. /\ InLwt \in SUBSET Ops /\ Unmatched \in SUBSET Ops
      /\ InLwt' \in SUBSET Ops /\ Unmatched' \in SUBSET Ops
  BY DEF InLwt, Unmatched, Accepted
<1>b. /\ Cardinality(InLwt) \in 0..(Width - 1) /\ Cardinality(Unmatched) \in 0..(Width - 1)
      /\ Cardinality(InLwt') \in 0..(Width - 1) /\ Cardinality(Unmatched') \in 0..(Width - 1)
  BY <1>a, OpsCount, WidthFacts
<1>1. ASSUME NEW op \in Ops, GetlwtCas(op)
      PROVE  LwtLedger'
  <2>1. op \notin InLwt /\ InLwt' = InLwt \cup {op} /\ Unmatched' = Unmatched
    BY <1>1, KindType
    DEF GetlwtCas, Goto, TypeOK, StageOfRefused, InLwt, Unmatched, Accepted, Classes
  <2>2. Cardinality(InLwt') = Cardinality(InLwt) + 1
    BY <1>a, <2>1, OpsCount
  <2>3. CASE Throttle = 0
    BY <1>1, <2>3 DEF GetlwtCas, LwtLedger
  <2>4. CASE Throttle # 0
    <3>1. lwtCount' = ((diff % Width) + 1) % Width
      BY <1>1, <2>4 DEF GetlwtCas, LwtLedger
    <3>2. ((diff % Width) + 1) % Width = (diff + 1) % Width
      BY <1>b, <2>1, <2>2, ModStep, WidthFacts
    <3>3. diff + 1 = Cardinality(InLwt') - Cardinality(Unmatched')
      BY <1>b, <2>1, <2>2
    <3> HIDE DEF diff
    <3> QED
      BY <2>4, <3>1, <3>2, <3>3 DEF LwtLedger
  <2> QED
    BY <2>3, <2>4
<1>2. ASSUME NEW op \in Ops, PutlwtCas(op)
      PROVE  LwtLedger'
  <2>1. CASE Throttle = 0
    BY <1>2, <2>1 DEF PutlwtCas, LwtLedger
  <2>2. CASE Throttle # 0
    <3>1. Cardinality(InLwt') - Cardinality(Unmatched') = diff - 1
      <4>1. CASE op \in Accepted
        <5>1. op \in InLwt /\ InLwt' = InLwt \ {op} /\ Unmatched' = Unmatched
          BY <1>2, <4>1 DEF PutlwtCas, Goto, TypeOK, InLwt, Unmatched, Accepted, Classes
        <5>2. Cardinality(InLwt') = Cardinality(InLwt) - 1
          BY <1>a, <5>1, OpsCount
        <5> QED
          BY <1>b, <5>1, <5>2
      <4>2. CASE op \notin Accepted
        <5>1. op \notin Unmatched /\ Unmatched' = Unmatched \cup {op} /\ InLwt' = InLwt
          BY <1>2, <4>2, KindType
          DEF PutlwtCas, Goto, TypeOK, StageOfRefused, InLwt, Unmatched, Accepted, Classes
        <5>2. Cardinality(Unmatched') = Cardinality(Unmatched) + 1
          BY <1>a, <5>1, OpsCount
        <5> QED
          BY <1>b, <5>1, <5>2
      <4> QED
        BY <4>1, <4>2
    <3>2. lwtCount' = ((diff % Width) - 1) % Width
      BY <1>2, <2>2 DEF PutlwtCas, Decrement, LwtLedger
    <3>3. diff \in Int /\ -Width < diff /\ diff < Width /\ -Width < diff - 1
      BY <1>b, <3>1, WidthFacts
    <3> HIDE DEF diff
    <3>4. ((diff % Width) + (-1)) % Width = (diff + (-1)) % Width
      BY <3>3, ModStep, WidthFacts
    <3>5. (diff % Width) \in Int
      BY <3>3, ModType, WidthFacts
    <3>6. (diff % Width) - 1 = (diff % Width) + (-1) /\ diff - 1 = diff + (-1)
      BY <3>3, <3>5
    <3> QED
      BY <2>2, <3>1, <3>2, <3>4, <3>6 DEF LwtLedger
  <2> QED
    BY <2>1, <2>2
<1>3. ASSUME NEW op \in Ops, OtherSteps(op)
      PROVE  LwtLedger'
  BY <1>3, LwtSetsKept DEF LwtLedger
<1>4. CASE UNCHANGED vars
  BY <1>4 DEF vars, LwtLedger, InLwt, Unmatched, Accepted
<1> QED
  BY <1>1, <1>2, <1>3, <1>4, LwtCases
-----------------------------------------------------------------------------
\* Taking one op away takes its length away.
LEMMA SumLengthRemove ==
  ASSUME NEW S \in SUBSET Ops, NEW op \in S
  PROVE  /\ SumLength(S \ {op}) = SumLength(S) - Length[op]
         /\ SumLength(S) \in Nat /\ SumLength(S) < Width /\ Length[op] <= SumLength(S)
<1>1. S \ {op} \in SUBSET Ops /\ op \in Ops \ (S \ {op}) /\ (S \ {op}) \cup {op} = S
  OBVIOUS
<1>2. SumLength((S \ {op}) \cup {op}) = SumLength(S \ {op}) + Length[op]
  BY <1>1, SumLengthAdd
<1>3. SumLength(S) = SumLength(S \ {op}) + Length[op]
  BY <1>1, <1>2, Zenon
<1>4. SumLength(S \ {op}) \in Nat /\ SumLength(S) \in Nat /\ Length[op] \in Nat
  BY BytesFinite, WidthFacts
<1>5. SumLength(S) < Width
  BY SumLengthMonotone
<1> QED
  BY <1>3, <1>4, <1>5

\* The sets the class counters count.
LEMMA ClassSets ==
  ASSUME NEW c \in Classes
  PROVE  /\ InCount(c) \in SUBSET Ops /\ InBW(c) \in SUBSET Ops
         /\ InCount(c)' \in SUBSET Ops /\ InBW(c)' \in SUBSET Ops
  BY DEF InCount, InBW, InLwt, Accepted

\* The class counters follow the ops through Get and Put, and what the checks of
\* Put guard against does not happen.
LEMMA ClassStep ==
  ASSUME TypeOK, StageOfRefused, ClassLedger, [Next]_vars
  PROVE  ClassLedger'
<1> USE DEF TypeOK, Goto
<1>1. ASSUME NEW op \in Ops,
             \/ ProcessOpReq(op) \/ GetlwtCas(op) \/ LwtPoll(op) \/ CountPoll(op)
             \/ BWPoll(op) \/ FinishCacheOps(op) \/ PutlwtCas(op)
      PROVE  ClassLedger'
  <2>1. count' = count /\ bw' = bw
    BY <1>1 DEF ProcessOpReq, GetlwtCas, LwtPoll, CountPoll, BWPoll, FinishCacheOps, PutlwtCas
  <2>2. ASSUME NEW c \in Classes
        PROVE  InCount(c)' = InCount(c) /\ InBW(c)' = InBW(c)
    <3> USE DEF InCount, InBW, InLwt, Accepted, Classes
    <3>1. CASE ProcessOpReq(op)
      BY <3>1, KindType DEF ProcessOpReq
    <3>2. CASE GetlwtCas(op) \/ LwtPoll(op)
      BY <3>2 DEF GetlwtCas, LwtPoll
    <3>3. CASE CountPoll(op) \/ BWPoll(op)
      BY <3>3 DEF CountPoll, BWPoll
    <3>4. CASE FinishCacheOps(op) \/ PutlwtCas(op)
      BY <3>4 DEF FinishCacheOps, PutlwtCas
    <3> QED
      BY <1>1, <3>1, <3>2, <3>3, <3>4
  <2> QED
    BY <2>1, <2>2 DEF ClassLedger
<1>2. ASSUME NEW op \in Ops, NEW k \in Classes, GetClasslwt(op, k)
      PROVE  ClassLedger'
  <2>1. /\ op \notin InCount(k) /\ InCount(k)' = InCount(k) \cup {op}
        /\ \A c \in Classes \ {k} : InCount(c)' = InCount(c)
        /\ \A c \in Classes : InBW(c)' = InBW(c)
    BY <1>2 DEF GetClasslwt, InCount, InBW, InLwt, Accepted, Classes
  <2>2. Cardinality(InCount(k)') = Cardinality(InCount(k)) + 1
    BY <2>1, ClassSets, OpsCount
  <2>3. Cardinality(InCount(k)') \in 0..(Width - 1) /\ Cardinality(InCount(k)) \in Nat
    BY ClassSets, OpsCount, WidthFacts
  <2>4. count' = [count EXCEPT ![k] = (count[k] + 1) % Width] /\ bw' = bw
    BY <1>2 DEF GetClasslwt, Counted
  <2>5. (count[k] + 1) % Width = Cardinality(InCount(k)')
    BY <2>2, <2>3, ModWidth, WidthFacts DEF ClassLedger
  <2> QED
    BY <2>1, <2>4, <2>5 DEF ClassLedger
<1>3. ASSUME NEW op \in Ops, NEW k \in Classes, GetClassBW(op, k)
      PROVE  ClassLedger'
  <2>1. /\ op \notin InBW(k) /\ InBW(k)' = InBW(k) \cup {op}
        /\ \A c \in Classes \ {k} : InBW(c)' = InBW(c)
        /\ \A c \in Classes : InCount(c)' = InCount(c)
    BY <1>3 DEF GetClassBW, InCount, InBW, InLwt, Accepted, Classes
  <2>2. SumLength(InBW(k)') = SumLength(InBW(k)) + Length[op]
    BY <2>1, ClassSets, SumLengthAdd
  <2>3. SumLength(InBW(k)') \in 0..(Width - 1)
    BY ClassSets, BytesFinite, SumLengthMonotone, WidthFacts
  <2>4. bw' = [bw EXCEPT ![k] = (bw[k] + Length[op]) % Width] /\ count' = count
    BY <1>3 DEF GetClassBW
  <2>5. (bw[k] + Length[op]) % Width = SumLength(InBW(k)')
    BY <2>2, <2>3, ModWidth, WidthFacts DEF ClassLedger
  <2> QED
    BY <2>1, <2>4, <2>5 DEF ClassLedger
<1>4. ASSUME NEW op \in Ops, NEW k \in Classes, PutClassBW(op, k)
      PROVE  ClassLedger'
  <2>1. op \in InBW(k)
    BY <1>4 DEF PutClassBW, InCount, InBW, InLwt, Accepted
  <2>2. /\ SumLength(InBW(k) \ {op}) = bw[k] - Length[op]
        /\ bw[k] \in 0..(Width - 1) /\ Length[op] \in Nat /\ Length[op] <= bw[k]
    BY <2>1, ClassSets, SumLengthRemove, WidthFacts DEF ClassLedger
  <2>3. CASE stage[op] = "putBW"
    <3>1. stage' = [stage EXCEPT ![op] = "putBWCas"] /\ bw' = bw /\ count' = count
      BY <1>4, <2>2, <2>3 DEF PutClassBW
    <3>2. \A c \in Classes : InBW(c)' = InBW(c) /\ InCount(c)' = InCount(c)
      BY <2>3, <3>1 DEF InCount, InBW, InLwt, Accepted
    <3> QED
      BY <3>1, <3>2 DEF ClassLedger
  <2>4. CASE stage[op] = "putBWCas"
    <3>1. /\ stage' = [stage EXCEPT ![op] = "putCount"] /\ count' = count
          /\ bw' = [bw EXCEPT ![k] = (bw[k] - Length[op]) % Width]
      BY <1>4, <2>2, <2>4 DEF PutClassBW
    <3>2. /\ InBW(k)' = InBW(k) \ {op}
          /\ \A c \in Classes \ {k} : InBW(c)' = InBW(c)
          /\ \A c \in Classes : InCount(c)' = InCount(c)
      BY <1>4, <2>4, <3>1 DEF PutClassBW, InCount, InBW, InLwt, Accepted
    <3>3. (bw[k] - Length[op]) % Width = bw[k] - Length[op]
      BY <2>2, ModWidth, WidthFacts
    <3>4. bw'[k] = SumLength(InBW(k)')
      BY <2>2, <3>1, <3>2, <3>3
    <3> QED
      BY <3>1, <3>2, <3>4 DEF ClassLedger
  <2> QED
    BY <1>4, <2>3, <2>4 DEF PutClassBW
<1>5. ASSUME NEW op \in Ops, NEW k \in Classes, PutClasslwt(op, k)
      PROVE  ClassLedger'
  <2>1. op \in InCount(k)
    BY <1>5 DEF PutClasslwt, InCount, InLwt, Accepted
  <2>2. /\ Cardinality(InCount(k) \ {op}) = count[k] - 1
        /\ count[k] \in 0..(Width - 1) /\ count[k] > 0
    BY <2>1, ClassSets, OpsCount, WidthFacts DEF ClassLedger
  <2>3. CASE stage[op] = "putCount"
    <3>1. stage' = [stage EXCEPT ![op] = "putCountCas"] /\ bw' = bw /\ count' = count
      BY <1>5, <2>2, <2>3 DEF PutClasslwt
    <3>2. \A c \in Classes : InBW(c)' = InBW(c) /\ InCount(c)' = InCount(c)
      BY <2>3, <3>1 DEF InCount, InBW, InLwt, Accepted
    <3> QED
      BY <3>1, <3>2 DEF ClassLedger
  <2>4. CASE stage[op] = "putCountCas"
    <3>1. /\ stage' = [stage EXCEPT ![op] = "putLwt"] /\ bw' = bw
          /\ count' = [count EXCEPT ![k] = (count[k] - 1) % Width]
      BY <1>5, <2>2, <2>4 DEF PutClasslwt
    <3>2. /\ InCount(k)' = InCount(k) \ {op}
          /\ \A c \in Classes \ {k} : InCount(c)' = InCount(c)
          /\ \A c \in Classes : InBW(c)' = InBW(c)
      BY <1>5, <2>4, <3>1 DEF PutClasslwt, InCount, InBW, InLwt, Accepted
    <3>3. (count[k] - 1) % Width = count[k] - 1
      BY <2>2, ModWidth, WidthFacts
    <3>4. count'[k] = Cardinality(InCount(k)')
      BY <2>2, <3>1, <3>2, <3>3
    <3> QED
      BY <3>1, <3>2, <3>4 DEF ClassLedger
  <2> QED
    BY <1>5, <2>3, <2>4 DEF PutClasslwt
<1>6. CASE UNCHANGED vars
  BY <1>6 DEF vars, ClassLedger, InCount, InBW, InLwt, Accepted
<1> QED
  BY <1>1, <1>2, <1>3, <1>4, <1>5, <1>6, LwtCases DEF OtherSteps
-----------------------------------------------------------------------------
\* A value of lwtCount that lets an op pass bounds the ops counted: with more
\* refused ops than counted ones it has wrapped, and the bound holds anyway.
LEMMA LowCount ==
  ASSUME TypeOK, LwtLedger, Throttle # 0, lwtCount <= Throttle
  PROVE  Cardinality(InLwt) <= Throttle + Cardinality(Unmatched)
<1> DEFINE n == Cardinality(InLwt)
           u == Cardinality(Unmatched)
<1>1. InLwt \in SUBSET Ops /\ Unmatched \in SUBSET Ops
  BY DEF InLwt, Unmatched, Accepted
<1>2. n \in Nat /\ u \in Nat /\ n < Width /\ u < Width
  BY <1>1, OpsCount
<1>3. lwtCount = (n - u) % Width
  BY DEF LwtLedger
<1>4. Throttle \in Nat /\ Width \in Nat
  BY ThrottleAssumption
<1> HIDE DEF n, u
<1>5. (n - u) % Width = IF n - u >= 0 THEN n - u ELSE n - u + Width
  BY <1>2, <1>4, ModWidth
<1>6. n <= Throttle + u
  BY <1>2, <1>3, <1>4, <1>5
<1> QED
  BY <1>6 DEF n, u

LEMMA AdmissionStep ==
  ASSUME TypeOK, StageOfRefused, LwtLedger, AdmissionBound, [Next]_vars
  PROVE  AdmissionBound'
<1> SUFFICES ASSUME Throttle # 0
             PROVE  Cardinality(Admitted') <= Throttle + 1 + Cardinality(Unmatched')
  BY DEF AdmissionBound
<1> USE DEF TypeOK, Goto
<1>a. /\ InLwt \in SUBSET Ops /\ Unmatched \in SUBSET Ops /\ Admitted \in SUBSET Ops
      /\ Unmatched' \in SUBSET Ops /\ Admitted' \in SUBSET Ops /\ Throttle \in Nat
  BY ThrottleAssumption DEF InLwt, Unmatched, Accepted, Admitted
<1>b. /\ Cardinality(InLwt) \in Nat /\ Cardinality(Unmatched) \in Nat
      /\ Cardinality(Admitted) \in Nat /\ Cardinality(Admitted') \in Nat
      /\ Cardinality(Unmatched') \in Nat
      /\ IsFiniteSet(InLwt) /\ IsFiniteSet(Admitted) /\ IsFiniteSet(Unmatched')
  BY <1>a, OpsCount
\* A step that lets no op in.
<1>c. ASSUME Admitted' \in SUBSET Admitted, Unmatched \in SUBSET Unmatched'
      PROVE  Cardinality(Admitted') <= Throttle + 1 + Cardinality(Unmatched')
  <2>1. Cardinality(Admitted') <= Cardinality(Admitted)
    BY <1>b, <1>c, FS_Subset
  <2>2. Cardinality(Unmatched) <= Cardinality(Unmatched')
    BY <1>b, <1>c, FS_Subset
  <2>3. Cardinality(Admitted) <= Throttle + 1 + Cardinality(Unmatched)
    BY DEF AdmissionBound
  <2> QED
    BY <1>a, <1>b, <2>1, <2>2, <2>3
<1>1. ASSUME NEW op \in Ops, GetlwtCas(op)
      PROVE  Cardinality(Admitted') <= Throttle + 1 + Cardinality(Unmatched')
  <2>1. Unmatched' = Unmatched
    BY <1>1, KindType DEF GetlwtCas, StageOfRefused, Unmatched
  <2>2. CASE lwtCount <= Throttle
    <3>1. Admitted' \in SUBSET (InLwt \cup {op})
      BY <1>1 DEF GetlwtCas, Admitted, InLwt, Accepted
    <3>2. Cardinality(Admitted') <= Cardinality(InLwt) + 1
      <4>1. /\ IsFiniteSet(InLwt \cup {op})
            /\ \/ Cardinality(InLwt \cup {op}) = Cardinality(InLwt)
               \/ Cardinality(InLwt \cup {op}) = Cardinality(InLwt) + 1
        BY <1>b, FS_AddElement
      <4>2. Cardinality(Admitted') <= Cardinality(InLwt \cup {op})
        BY <3>1, <4>1, FS_Subset
      <4> QED
        BY <1>b, <4>1, <4>2
    <3>3. Cardinality(InLwt) <= Throttle + Cardinality(Unmatched)
      BY <2>2, LowCount
    <3> QED
      BY <1>a, <1>b, <2>1, <3>2, <3>3
  <2>3. CASE ~(lwtCount <= Throttle)
    <3>1. Admitted' \in SUBSET Admitted
      BY <1>1, <2>3 DEF GetlwtCas, Admitted, InLwt, Accepted
    <3> QED
      BY <1>c, <2>1, <3>1
  <2> QED
    BY <2>2, <2>3
<1>2. ASSUME NEW op \in Ops, LwtPoll(op)
      PROVE  Cardinality(Admitted') <= Throttle + 1 + Cardinality(Unmatched')
  <2>1. Unmatched' = Unmatched /\ Admitted' \in SUBSET InLwt
    BY <1>2, KindType DEF LwtPoll, StageOfRefused, Unmatched, Admitted, InLwt, Accepted
  <2>2. Cardinality(Admitted') <= Cardinality(InLwt)
    BY <1>b, <2>1, FS_Subset
  <2>3. Cardinality(InLwt) <= Throttle + Cardinality(Unmatched)
    BY <1>2, LowCount DEF LwtPoll, LwtLow
  <2> QED
    BY <1>a, <1>b, <2>1, <2>2, <2>3
<1>3. ASSUME NEW op \in Ops, PutlwtCas(op)
      PROVE  Cardinality(Admitted') <= Throttle + 1 + Cardinality(Unmatched')
  <2>1. Admitted' \in SUBSET Admitted /\ Unmatched \in SUBSET Unmatched'
    BY <1>3 DEF PutlwtCas, Unmatched, Admitted, InLwt, Accepted
  <2> QED
    BY <1>c, <2>1
<1>4. ASSUME NEW op \in Ops, OtherSteps(op), ~LwtPoll(op)
      PROVE  Cardinality(Admitted') <= Throttle + 1 + Cardinality(Unmatched')
  <2>1. InLwt' = InLwt /\ Unmatched' = Unmatched
    BY <1>4, LwtSetsKept
  <2>2. ASSUME NEW o \in InLwt, stage[o] = "lwtWait"
        PROVE  stage'[o] = "lwtWait"
    <3>1. stage'[o] = stage[o] \/ (o = op /\ stage[op] # "lwtWait")
      BY <1>4 DEF OtherSteps, ProcessOpReq, CountPoll, BWPoll, FinishCacheOps,
         GetClasslwt, GetClassBW, PutClassBW, PutClasslwt, InLwt, Accepted
    <3> QED
      BY <2>2, <3>1
  <2>3. Admitted' \in SUBSET Admitted
    BY <2>1, <2>2 DEF Admitted
  <2> QED
    BY <1>c, <2>1, <2>3
<1>5. CASE UNCHANGED vars
  <2>1. Admitted' = Admitted /\ Unmatched' = Unmatched
    BY <1>5 DEF vars, Unmatched, Admitted, InLwt, Accepted
  <2> QED
    BY <1>c, <2>1
<1> QED
  BY <1>1, <1>2, <1>3, <1>4, <1>5, LwtCases
-----------------------------------------------------------------------------
\* What is with the cache is in the bandwidth counter.
LEMMA WithCacheSets ==
  ASSUME NEW c \in Classes
  PROVE  /\ WithCache(c) \in SUBSET InBW(c) /\ WithCache(c)' \in SUBSET InBW(c)'
         /\ InBW(c) \in SUBSET Ops /\ InBW(c)' \in SUBSET Ops
         /\ WithCache(c) \in SUBSET Ops /\ WithCache(c)' \in SUBSET Ops
  BY ClassSets DEF WithCache

\* An op joins the others with the cache when the bandwidth, which is exactly
\* what they hold and what waits with them, was at most the throttle.
LEMMA BandwidthStep ==
  ASSUME TypeOK, StageOfRefused, ClassLedger, BandwidthBound, [Next]_vars
  PROVE  BandwidthBound'
<1> SUFFICES ASSUME NEW c \in Classes, 0 \notin BWThrottles[c], WithCache(c)' # {}
             PROVE  \E t \in BWThrottles[c], op \in Ops : SumLength(WithCache(c)') <= t + Length[op]
  BY DEF BandwidthBound
<1> USE DEF TypeOK, Goto
<1>a. /\ SumLength(InBW(c)) \in Nat /\ SumLength(WithCache(c)) \in Nat
      /\ SumLength(WithCache(c)') \in Nat
  BY WithCacheSets, BytesFinite
<1>b. \A t \in BWThrottles[c] : t \in Nat
  BY ThrottleAssumption
<1>c. \A op \in Ops : Length[op] \in Nat
  BY WidthFacts
\* A step that gives the cache nothing of this class.
<1>d. ASSUME WithCache(c)' \in SUBSET WithCache(c)
      PROVE  \E t \in BWThrottles[c], op \in Ops : SumLength(WithCache(c)') <= t + Length[op]
  <2>1. WithCache(c) # {}
    BY <1>d
  <2>2. PICK t \in BWThrottles[c], op \in Ops : SumLength(WithCache(c)) <= t + Length[op]
    BY <2>1 DEF BandwidthBound
  <2>3. SumLength(WithCache(c)') <= SumLength(WithCache(c))
    BY <1>d, WithCacheSets, SumLengthMonotone
  <2>4. SumLength(WithCache(c)') <= t + Length[op]
    BY <1>a, <1>b, <1>c, <2>2, <2>3
  <2> QED
    BY <2>4
<1>1. ASSUME NEW op \in Ops, NEW k \in Classes, GetClassBW(op, k)
      PROVE  \E t \in BWThrottles[c], o \in Ops : SumLength(WithCache(c)') <= t + Length[o]
  <2>1. PICK t \in BWThrottles[k] :
          Goto(op, IF t = 0 \/ bw[k] <= t THEN "cache" ELSE "bwWait")
    BY <1>1 DEF GetClassBW
  <2>2. CASE k = c /\ bw[k] <= t
    <3>1. op \notin InBW(c) /\ WithCache(c)' \in SUBSET (InBW(c) \cup {op})
      BY <1>1, <2>1, <2>2 DEF GetClassBW, WithCache, InBW, InCount, InLwt, Accepted
    <3>2. SumLength(InBW(c) \cup {op}) = SumLength(InBW(c)) + Length[op]
      BY <3>1, WithCacheSets, SumLengthAdd
    <3>3. InBW(c) \cup {op} \in SUBSET Ops
      BY WithCacheSets
    <3>4. SumLength(WithCache(c)') <= SumLength(InBW(c) \cup {op})
      BY <3>1, <3>3, SumLengthMonotone
    <3>5. bw[c] = SumLength(InBW(c))
      BY DEF ClassLedger
    <3>6. SumLength(WithCache(c)') <= t + Length[op]
      BY <1>a, <1>b, <1>c, <2>2, <3>2, <3>4, <3>5
    <3> QED
      BY <2>2, <3>6
  <2>3. CASE k # c \/ (t # 0 /\ ~(bw[k] <= t))
    <3>1. WithCache(c)' \in SUBSET WithCache(c)
      BY <1>1, <2>1, <2>3 DEF GetClassBW, WithCache, InBW, InCount, InLwt, Accepted
    <3> QED
      BY <1>d, <3>1
  <2> QED
    BY <2>2, <2>3
<1>2. ASSUME NEW op \in Ops, BWPoll(op)
      PROVE  \E t \in BWThrottles[c], o \in Ops : SumLength(WithCache(c)') <= t + Length[o]
  <2>1. CASE Kind[op] = c
    <3>1. PICK t \in BWThrottles[c] : bw[c] <= t
      BY <1>2, <2>1 DEF BWPoll, Passes
    <3>2. WithCache(c)' \in SUBSET InBW(c)
      BY <1>2 DEF BWPoll, WithCache, InBW, InCount, InLwt, Accepted
    <3>3. SumLength(WithCache(c)') <= SumLength(InBW(c)) /\ SumLength(InBW(c)) = bw[c]
      BY <3>2, WithCacheSets, SumLengthMonotone DEF ClassLedger
    <3>4. SumLength(WithCache(c)') <= t + Length[op]
      BY <1>a, <1>b, <1>c, <3>1, <3>3
    <3> QED
      BY <3>4
  <2>2. CASE Kind[op] # c
    <3>1. WithCache(c)' \in SUBSET WithCache(c)
      BY <1>2, <2>2 DEF BWPoll, WithCache, InBW, InCount, InLwt, Accepted
    <3> QED
      BY <1>d, <3>1
  <2> QED
    BY <2>1, <2>2
<1>3. ASSUME NEW op \in Ops,
             \/ ProcessOpReq(op) \/ GetlwtCas(op) \/ LwtPoll(op) \/ CountPoll(op)
             \/ FinishCacheOps(op) \/ PutlwtCas(op)
             \/ \E k \in Classes : GetClasslwt(op, k) \/ PutClassBW(op, k) \/ PutClasslwt(op, k)
      PROVE  \E t \in BWThrottles[c], o \in Ops : SumLength(WithCache(c)') <= t + Length[o]
  <2> USE DEF WithCache, InBW, InCount, InLwt, Accepted
  <2>1. CASE ProcessOpReq(op) \/ GetlwtCas(op) \/ LwtPoll(op)
    BY <1>d, <2>1, KindType DEF ProcessOpReq, GetlwtCas, LwtPoll
  <2>2. CASE CountPoll(op) \/ FinishCacheOps(op) \/ PutlwtCas(op)
    BY <1>d, <2>2 DEF CountPoll, FinishCacheOps, PutlwtCas
  <2>3. ASSUME NEW k \in Classes, GetClasslwt(op, k)
        PROVE  WithCache(c)' \in SUBSET WithCache(c)
    BY <2>3 DEF GetClasslwt
  <2>4. ASSUME NEW k \in Classes, PutClassBW(op, k) \/ PutClasslwt(op, k)
        PROVE  WithCache(c)' \in SUBSET WithCache(c)
    BY <2>4 DEF PutClassBW, PutClasslwt
  <2> HIDE DEF WithCache, InBW, InCount, InLwt, Accepted
  <2> QED
    BY <1>3, <1>d, <2>1, <2>2, <2>3, <2>4
<1>4. CASE UNCHANGED vars
  <2>1. WithCache(c)' = WithCache(c)
    BY <1>4 DEF vars, WithCache, InBW, InCount, InLwt, Accepted
  <2> QED
    BY <1>d, <2>1
<1> QED
  BY <1>1, <1>2, <1>3, <1>4, LwtCases DEF OtherSteps
-----------------------------------------------------------------------------
\* A handler's thread is in the turn of one op, and sleeps for lwtCount only
\* with a throttle.
OneTurn == Apart({op \in Ops : InHandler(op)})
LwtWaitThrottled == \A op \in Ops : stage[op] = "lwtWait" => Throttle # 0

LEMMA LwtWaitStep ==
  ASSUME TypeOK, LwtWaitThrottled, [Next]_vars
  PROVE  LwtWaitThrottled'
<1> USE DEF TypeOK, Goto, LwtWaitThrottled
<1>1. ASSUME NEW op \in Ops, ProcessOpReq(op) \/ GetlwtCas(op) \/ LwtPoll(op)
      PROVE  LwtWaitThrottled'
  BY <1>1 DEF ProcessOpReq, GetlwtCas, LwtPoll
<1>2. ASSUME NEW op \in Ops, CountPoll(op) \/ BWPoll(op) \/ FinishCacheOps(op) \/ PutlwtCas(op)
      PROVE  LwtWaitThrottled'
  BY <1>2 DEF CountPoll, BWPoll, FinishCacheOps, PutlwtCas
<1>3. ASSUME NEW op \in Ops, NEW c \in Classes, GetClasslwt(op, c) \/ GetClassBW(op, c)
      PROVE  LwtWaitThrottled'
  BY <1>3 DEF GetClasslwt, GetClassBW
<1>4. ASSUME NEW op \in Ops, NEW c \in Classes, PutClassBW(op, c) \/ PutClasslwt(op, c)
      PROVE  LwtWaitThrottled'
  BY <1>4 DEF PutClassBW, PutClasslwt
<1>5. CASE UNCHANGED vars
  BY <1>5 DEF vars
<1> QED
  BY <1>1, <1>2, <1>3, <1>4, <1>5, LwtCases DEF OtherSteps

LEMMA OneTurnStep ==
  ASSUME TypeOK, OneTurn, [Next]_vars
  PROVE  OneTurn'
<1> USE DEF TypeOK, Goto
\* Every step but ProcessOpReq leaves the ops in their handlers or takes one out.
<1>a. ASSUME \A o \in Ops : InHandler(o)' => InHandler(o)
      PROVE  OneTurn'
  BY <1>a DEF OneTurn, Apart
<1>1. ASSUME NEW op \in Ops, ProcessOpReq(op)
      PROVE  OneTurn'
  <2>1. \A o \in Ops : InHandler(o) => HandlerOf[o] # HandlerOf[op]
    BY <1>1 DEF ProcessOpReq
  <2>2. \A o \in Ops \ {op} : InHandler(o)' => InHandler(o)
    BY <1>1 DEF ProcessOpReq, InHandler
  <2> HIDE DEF InHandler
  <2> QED
    BY <2>1, <2>2 DEF OneTurn, Apart
<1>2. ASSUME NEW op \in Ops, GetlwtCas(op) \/ LwtPoll(op) \/ CountPoll(op) \/ BWPoll(op)
      PROVE  OneTurn'
  BY <1>2, <1>a DEF GetlwtCas, LwtPoll, CountPoll, BWPoll, InHandler, Getting
<1>3. ASSUME NEW op \in Ops, NEW c \in Classes, GetClasslwt(op, c) \/ GetClassBW(op, c)
      PROVE  OneTurn'
  BY <1>3, <1>a DEF GetClasslwt, GetClassBW, InHandler, Getting
<1>4. ASSUME NEW op \in Ops, FinishCacheOps(op) \/ PutlwtCas(op)
      PROVE  OneTurn'
  BY <1>4, <1>a DEF FinishCacheOps, PutlwtCas, InHandler, Getting
<1>5. ASSUME NEW op \in Ops, NEW c \in Classes, PutClassBW(op, c) \/ PutClasslwt(op, c)
      PROVE  OneTurn'
  BY <1>5, <1>a DEF PutClassBW, PutClasslwt, InHandler, Getting, Classes
<1>6. CASE UNCHANGED vars
  BY <1>6, <1>a DEF vars, InHandler
<1> QED
  BY <1>1, <1>2, <1>3, <1>4, <1>5, <1>6, LwtCases DEF OtherSteps
-----------------------------------------------------------------------------
\* The inductive invariant.
ThrottleInv ==
  /\ TypeOK /\ StageOfRefused /\ OneTurn /\ LwtWaitThrottled
  /\ LwtLedger /\ ClassLedger /\ AdmissionBound /\ BandwidthBound

LEMMA ThrottleInit == Init => ThrottleInv
<1> SUFFICES ASSUME Init PROVE ThrottleInv
  OBVIOUS
<1> USE DEF Init
<1>1. TypeOK /\ StageOfRefused
  BY WidthFacts DEF TypeOK, StageOfRefused, Classes
<1>2. /\ InLwt = {} /\ Unmatched = {} /\ Admitted = {}
      /\ \A c \in Classes : InCount(c) = {} /\ InBW(c) = {} /\ WithCache(c) = {}
  BY DEF InLwt, Unmatched, Admitted, InCount, InBW, WithCache, Accepted
<1>3. Cardinality({}) = 0 /\ SumLength({}) = 0
  BY FS_EmptySet DEF SumLength, Bytes
<1>4. LwtLedger
  <2>1. 0 % Width = 0
    BY WidthFacts
  <2> QED
    BY <1>2, <1>3, <2>1 DEF LwtLedger
<1>5. ClassLedger
  BY <1>2, <1>3 DEF ClassLedger, Classes
<1>6. AdmissionBound
  BY <1>2, <1>3, ThrottleAssumption DEF AdmissionBound
<1>7. BandwidthBound
  BY <1>2 DEF BandwidthBound
<1>8. OneTurn /\ LwtWaitThrottled
  BY DEF OneTurn, Apart, InHandler, Getting, LwtWaitThrottled
<1> QED
  BY <1>1, <1>4, <1>5, <1>6, <1>7, <1>8 DEF ThrottleInv

LEMMA ThrottleStep == ThrottleInv /\ [Next]_vars => ThrottleInv'
  BY TypeStep, OneTurnStep, LwtWaitStep, LwtStep, ClassStep, AdmissionStep, BandwidthStep DEF ThrottleInv

LEMMA ThrottleInvariant == Spec => []ThrottleInv
  BY ThrottleInit, ThrottleStep, PTL DEF Spec

\* lwtCount counts exactly the ops between GetlwtCas and PutlwtCas, less the ops
\* ProcessOpReq has refused for a short name, modulo 2^64.
THEOREM LwtCountIsExact == Spec => []LwtLedger
  BY ThrottleInvariant, PTL DEF ThrottleInv

\* The class counts and bandwidths are exact, whatever throttles the cache
\* answers with from one call to the next.
THEOREM ClassCountersAreExact == Spec => []ClassLedger
  BY ThrottleInvariant, PTL DEF ThrottleInv

\* No more than saOpThrottle + 1 ops and one for each refused op are past
\* GetlwtCas.
THEOREM AdmissionIsBounded == Spec => []AdmissionBound
  BY ThrottleInvariant, PTL DEF ThrottleInv

\* What the cache works on overshoots an answer of the bandwidth throttle by one
\* op at most.
THEOREM BandwidthIsBounded == Spec => []BandwidthBound
  BY ThrottleInvariant, PTL DEF ThrottleInv

\* The sleeping handlers have one op each in a counter, so many at most as
\* there are handlers.
LEMMA SleepersApart ==
  ASSUME OneTurn, NEW S \in SUBSET Polling
  PROVE  /\ S \in SUBSET Ops /\ Apart(S)
         /\ Cardinality(S) \in Nat /\ Cardinality(Handlers) \in Nat
         /\ Cardinality(S) <= Cardinality(Handlers)
<1> DEFINE f == [op \in S |-> HandlerOf[op]]
<1>1. S \in SUBSET Ops
  BY DEF Polling
<1>2. Apart(S)
  BY <1>1 DEF OneTurn, Apart, Polling, InHandler, Getting
<1>3. f \in Injection(S, Handlers)
  BY <1>1, <1>2, ThrottleAssumption DEF Injection, IsInjective, Apart
<1>4. IsFiniteSet(Handlers)
  BY ThrottleAssumption
<1>5. Cardinality(S) <= Cardinality(Handlers)
  <2> HIDE DEF f
  <2> QED
    BY <1>3, <1>4, FS_Injection
<1> QED
  BY <1>1, <1>2, <1>4, <1>5, OpsCount, FS_CardinalityType

\* With throttles that leave room for one op of each handler no handler polls
\* a counter that sleeping handlers keep too high: it waits for ops the cache
\* has or is given.
LEMMA RoomForSleepers ==
  ASSUME StageOfRefused, OneTurn, LwtWaitThrottled, Roomy, NEW op \in Ops
  PROVE  ~PollsItself(op)
<1>a. stage[op] \in {"countWait", "bwWait"} => Kind[op] \in Classes
  BY KindType DEF StageOfRefused, Classes
<1>1. CASE stage[op] = "lwtWait"
  <2>1. Throttle # 0
    BY <1>1 DEF LwtWaitThrottled
  <2>2. /\ Cardinality(InLwt \cap Polling) \in Nat /\ Cardinality(Handlers) \in Nat
        /\ Cardinality(InLwt \cap Polling) <= Cardinality(Handlers)
    BY SleepersApart
  <2>3. Cardinality(Unmatched) \in Nat /\ Throttle \in Nat
    BY OpsCount, ThrottleAssumption DEF Unmatched
  <2>4. Cardinality(Handlers) <= Throttle
    BY <2>1 DEF Roomy
  <2> QED
    BY <1>1, <2>2, <2>3, <2>4 DEF PollsItself
<1>2. CASE stage[op] = "countWait"
  <2> DEFINE S == InCount(Kind[op]) \cap Polling
  <2>1. /\ Cardinality(S) \in Nat /\ Cardinality(Handlers) \in Nat
        /\ Cardinality(S) <= Cardinality(Handlers)
    BY SleepersApart
  <2>2. \A t \in OpThrottles[Kind[op]] : t = 0 \/ Cardinality(Handlers) <= t
    BY <1>2, <1>a DEF Roomy, PassesAll
  <2>3. \A t \in OpThrottles[Kind[op]] : t \in Nat
    BY <1>2, <1>a, ThrottleAssumption
  <2> HIDE DEF S
  <2>4. PassesAll(Cardinality(S), OpThrottles[Kind[op]])
    BY <2>1, <2>2, <2>3 DEF PassesAll
  <2> QED
    BY <1>2, <2>4 DEF PollsItself, S
<1>3. CASE stage[op] = "bwWait"
  <2> DEFINE S == InBW(Kind[op]) \cap Polling
  <2>1. S \in SUBSET Ops /\ Apart(S)
    BY SleepersApart
  <2>2. PassesAll(SumLength(S), BWThrottles[Kind[op]])
    BY <1>3, <1>a, <2>1 DEF Roomy
  <2> QED
    BY <1>3, <2>2 DEF PollsItself
<1> QED
  BY <1>1, <1>2, <1>3 DEF PollsItself

\* Where every throttle that is on leaves room for one op of each handler, no
\* handler ever polls a counter that the sleeping handlers themselves keep too
\* high: the self-counting of GetlwtCas and its sisters is then harmless.
THEOREM RoomEndsWaits ==
  ASSUME Roomy
  PROVE  Spec => [](\A op \in Ops : ~PollsItself(op))
<1>1. ThrottleInv => \A op \in Ops : ~PollsItself(op)
  BY RoomForSleepers DEF ThrottleInv
<1> QED
  BY <1>1, ThrottleInvariant, PTL
=============================================================================
