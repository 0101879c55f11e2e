--------------------------- MODULE ClassApiProofs ---------------------------
(***************************************************************************)
(* Proofs about ClassApi, for any finite set of keys, any values, any      *)
(* number of ops in a message and any number of calls of a method: the     *)
(* swaps of the ops, what the encoders and decoders compute, and the two   *)
(* calls of rbd.copyup.  FlattenSeq is recursive and InOrder a choice: the *)
(* lemmas about them are by induction with a set for the predicate.        *)
(***************************************************************************)
EXTENDS ClassApi, SequenceTheorems, FiniteSetTheorems, WellFoundedInduction, TLAPS
-----------------------------------------------------------------------------
(* Induction, and the concatenation of sequences.                          *)

\* Induction with a set for the predicate.
LEMMA SetInduction ==
  ASSUME NEW S \in SUBSET Nat, 0 \in S, \A n \in S : n + 1 \in S
  PROVE  \A n \in Nat : n \in S
<1> SUFFICES ASSUME Nat \ S # {} PROVE FALSE
  OBVIOUS
<1>1. PICK m \in Nat \ S : \A i \in Nat \ S : <<i, m>> \notin OpToRel(<, Nat)
  <2>1. Nat \ S \in SUBSET Nat
    OBVIOUS
  <2> QED
    BY <2>1, WFMin, NatLessThanWellFounded, Zenon
<1>2. \A i \in Nat \ S : ~(i < m)
  BY <1>1, Zenon DEF OpToRel
<1>3. m # 0 /\ m - 1 \in Nat /\ m - 1 < m
  OBVIOUS
<1>4. m - 1 \in S
  BY <1>2, <1>3
<1>5. (m - 1) + 1 \in S
  BY <1>4
<1> QED
  BY <1>5

\* The recursive function of FlattenSeq exists.
LEMMA FlattenDefined ==
  ASSUME NEW seqs, NEW len \in Nat
  PROVE  \E f : f = [i \in 1..len |-> IF i = 1 THEN seqs[i] ELSE f[i - 1] \o seqs[i]]
<1> DEFINE Good(f, n) == /\ f = [i \in 1..n |-> f[i]]
                         /\ \A i \in 1..n : f[i] = IF i = 1 THEN seqs[i] ELSE f[i - 1] \o seqs[i]
           S == {n \in Nat : \E f : Good(f, n)}
<1>1. 0 \in S
  <2>1. Good(<<>>, 0)
    OBVIOUS
  <2> QED
    BY <2>1
<1>2. ASSUME NEW n \in S PROVE n + 1 \in S
  <2>1. PICK f : Good(f, n)
    BY <1>2
  <2> DEFINE g == [i \in 1..(n + 1) |-> IF i = n + 1
                     THEN IF i = 1 THEN seqs[i] ELSE f[i - 1] \o seqs[i] ELSE f[i]]
  <2>2. g = [i \in 1..(n + 1) |-> g[i]]
    OBVIOUS
  <2>3. ASSUME NEW i \in 1..(n + 1)
        PROVE  g[i] = IF i = 1 THEN seqs[i] ELSE g[i - 1] \o seqs[i]
    <3>1. CASE i = n + 1
      <4>1. i # 1 => g[i - 1] = f[i - 1]
        BY <3>1
      <4>2. g[i] = IF i = 1 THEN seqs[i] ELSE f[i - 1] \o seqs[i]
        BY <3>1
      <4> QED
        BY <4>1, <4>2
    <3>2. CASE i # n + 1
      <4>1. i \in 1..n /\ g[i] = f[i] /\ (i # 1 => g[i - 1] = f[i - 1])
        BY <3>2
      <4>2. f[i] = IF i = 1 THEN seqs[i] ELSE f[i - 1] \o seqs[i]
        BY <2>1, <4>1
      <4> QED
        BY <4>1, <4>2
    <3> QED
      BY <3>1, <3>2
  <2>4. Good(g, n + 1)
    BY <2>2, <2>3
  <2> HIDE DEF g, Good
  <2> QED
    BY <2>4
<1>3. len \in S
  <2>1. S \in SUBSET Nat
    OBVIOUS
  <2> HIDE DEF S
  <2> QED
    BY <1>1, <1>2, <2>1, SetInduction
<1>4. PICK f : Good(f, len)
  BY <1>3
<1>5. f = [i \in 1..len |-> IF i = 1 THEN seqs[i] ELSE f[i - 1] \o seqs[i]]
  BY <1>4
<1> QED
  BY <1>5, Zenon

\* The partial results of FlattenSeq.
LEMMA FlattenParts ==
  ASSUME NEW S, NEW seqs \in Seq(Seq(S))
  PROVE  \E f \in [0..Len(seqs) -> Seq(S)] :
           /\ f[0] = <<>>
           /\ \A i \in 1..Len(seqs) : f[i] = f[i - 1] \o seqs[i]
           /\ f[Len(seqs)] = FlattenSeq(seqs)
<1>0. Len(seqs) \in Nat /\ <<>> \in Seq(S) /\ \A i \in 1..Len(seqs) : seqs[i] \in Seq(S)
  OBVIOUS
<1>1. CASE Len(seqs) = 0
  <2>1. seqs = <<>>
    BY <1>1
  <2>2. FlattenSeq(seqs) = seqs
    BY <1>1 DEF FlattenSeq
  <2> DEFINE f == [i \in 0..Len(seqs) |-> <<>>]
  <2>3. f \in [0..Len(seqs) -> Seq(S)] /\ f[0] = <<>> /\ f[Len(seqs)] = <<>>
    BY <1>0, <1>1
  <2>4. 1..Len(seqs) = {}
    BY <1>1
  <2> HIDE DEF f
  <2> QED
    BY <2>1, <2>2, <2>3, <2>4
<1>2. CASE Len(seqs) # 0
  <2> DEFINE flatten[i \in 1..Len(seqs)] == IF i = 1 THEN seqs[i] ELSE flatten[i-1] \o seqs[i]
  <2>1. FlattenSeq(seqs) = flatten[Len(seqs)]
    BY <1>2 DEF FlattenSeq
  <2>2. flatten = [i \in 1..Len(seqs) |-> IF i = 1 THEN seqs[i] ELSE flatten[i - 1] \o seqs[i]]
    BY <1>0, FlattenDefined
  <2> HIDE DEF flatten
  <2>3. \A i \in 1..Len(seqs) : flatten[i] = IF i = 1 THEN seqs[i] ELSE flatten[i - 1] \o seqs[i]
    BY <2>2
  <2> DEFINE T == {n \in Nat : n + 1 <= Len(seqs) => flatten[n + 1] \in Seq(S)}
  <2>4. 0 \in T
    BY <1>0, <1>2, <2>3
  <2>5. ASSUME NEW n \in T PROVE n + 1 \in T
    <3>1. SUFFICES ASSUME n + 2 <= Len(seqs) PROVE flatten[n + 2] \in Seq(S)
      OBVIOUS
    <3>2. flatten[n + 1] \in Seq(S) /\ seqs[n + 2] \in Seq(S)
      BY <1>0, <3>1
    <3>3. n + 2 \in 1..Len(seqs) /\ (n + 2) - 1 = n + 1 /\ n + 2 # 1
      BY <1>0, <3>1
    <3>4. flatten[n + 2] = flatten[n + 1] \o seqs[n + 2]
      BY <2>3, <3>3
    <3> QED
      BY <3>2, <3>4, ConcatProperties
  <2>6. \A n \in Nat : n \in T
    <3>1. T \in SUBSET Nat
      OBVIOUS
    <3> HIDE DEF T
    <3> QED
      BY <2>4, <2>5, <3>1, SetInduction
  <2>7. ASSUME NEW i \in 1..Len(seqs) PROVE flatten[i] \in Seq(S)
    <3>1. i - 1 \in Nat /\ (i - 1) + 1 = i /\ i <= Len(seqs)
      BY <1>0
    <3>2. i - 1 \in T
      BY <2>6, <3>1
    <3> QED
      BY <3>1, <3>2
  <2> DEFINE f == [i \in 0..Len(seqs) |-> IF i = 0 THEN <<>> ELSE flatten[i]]
  <2>8. f \in [0..Len(seqs) -> Seq(S)] /\ f[0] = <<>> /\ f[Len(seqs)] = FlattenSeq(seqs)
    BY <1>0, <1>2, <2>1, <2>7
  <2>9. ASSUME NEW i \in 1..Len(seqs) PROVE f[i] = f[i - 1] \o seqs[i]
    <3>1. CASE i = 1
      <4>1. <<>> \o seqs[1] = seqs[1]
        BY <1>0, <1>2, ConcatEmptySeq
      <4>2. f[1] = seqs[1] /\ f[0] = <<>>
        BY <1>0, <1>2, <2>3
      <4> QED
        BY <3>1, <4>1, <4>2
    <3>2. CASE i # 1
      <4>1. f[i] = flatten[i] /\ f[i - 1] = flatten[i - 1]
        BY <3>2
      <4> QED
        BY <2>3, <3>2, <4>1
    <3> QED
      BY <3>1, <3>2
  <2> QED
    BY <2>8, <2>9
<1> QED
  BY <1>1, <1>2

\* The i-th of several sequences, kept folded for the provers.
At(seqs, i) == seqs[i]

\* f holds the concatenations of the first sequences of seqs.
Parts(f, seqs, n) == At(f, 0) = <<>> /\ \A i \in 1..n : At(f, i) = At(f, i - 1) \o At(seqs, i)

\* FlattenSeq is the last of its partial results.
LEMMA FlattenSplit ==
  ASSUME NEW S, NEW seqs \in Seq(Seq(S))
  PROVE  /\ Len(seqs) \in Nat /\ \A i \in 1..Len(seqs) : At(seqs, i) \in Seq(S)
         /\ \E f : /\ \A i \in 0..Len(seqs) : At(f, i) \in Seq(S)
                   /\ Parts(f, seqs, Len(seqs)) /\ At(f, Len(seqs)) = FlattenSeq(seqs)
<1>1. Len(seqs) \in Nat /\ \A i \in 1..Len(seqs) : seqs[i] \in Seq(S)
  OBVIOUS
<1>2. PICK f \in [0..Len(seqs) -> Seq(S)] :
           /\ f[0] = <<>>
           /\ \A i \in 1..Len(seqs) : f[i] = f[i - 1] \o seqs[i]
           /\ f[Len(seqs)] = FlattenSeq(seqs)
  BY FlattenParts
<1>3. \A i \in 0..Len(seqs) : f[i] \in Seq(S)
  BY <1>2, Zenon
<1> QED
  BY <1>1, <1>2, <1>3, Zenon DEF At, Parts

\* They are determined by the sequences, ...
LEMMA PartsUnique ==
  ASSUME NEW seqs, NEW n \in Nat, NEW f, NEW g, Parts(f, seqs, n), Parts(g, seqs, n)
  PROVE  At(f, n) = At(g, n)
<1> DEFINE T == {m \in Nat : m <= n => At(f, m) = At(g, m)}
<1>1. 0 \in T
  BY DEF Parts
<1>2. ASSUME NEW m \in T PROVE m + 1 \in T
  <2> SUFFICES ASSUME m + 1 <= n PROVE At(f, m + 1) = At(g, m + 1)
    OBVIOUS
  <2>1. m + 1 \in 1..n /\ (m + 1) - 1 = m /\ At(f, m) = At(g, m)
    OBVIOUS
  <2>2. At(f, m + 1) = At(f, m) \o At(seqs, m + 1) /\ At(g, m + 1) = At(g, m) \o At(seqs, m + 1)
    BY <2>1 DEF Parts
  <2> QED
    BY <2>1, <2>2
<1>3. n \in T
  <2>1. T \in SUBSET Nat
    OBVIOUS
  <2> HIDE DEF T
  <2> QED
    BY <1>1, <1>2, <2>1, SetInduction
<1> QED
  BY <1>3

\* ... and all of them are sequences over the same set, ...
LEMMA FlattenIsSeq ==
  ASSUME NEW S, NEW seqs \in Seq(Seq(S))
  PROVE  FlattenSeq(seqs) \in Seq(S)
<1>1. PICK f : (\A i \in 0..Len(seqs) : At(f, i) \in Seq(S)) /\ At(f, Len(seqs)) = FlattenSeq(seqs)
  BY FlattenSplit, Zenon
<1>2. Len(seqs) \in 0..Len(seqs)
  OBVIOUS
<1> QED
  BY <1>1, <1>2, Zenon

\* ... so that one more sequence comes after the others.
LEMMA FlattenAppend ==
  ASSUME NEW S, NEW seqs \in Seq(Seq(S)), NEW x \in Seq(S)
  PROVE  FlattenSeq(Append(seqs, x)) = FlattenSeq(seqs) \o x
<1> DEFINE more == Append(seqs, x)
           n == Len(seqs)
<1>1. /\ more \in Seq(Seq(S)) /\ Len(more) = n + 1 /\ n \in Nat
      /\ At(more, n + 1) = x /\ \A i \in 1..n : At(more, i) = At(seqs, i)
  BY AppendProperties DEF At
<1> HIDE DEF more, n
<1>2. PICK f : Parts(f, seqs, n) /\ At(f, n) = FlattenSeq(seqs)
  BY FlattenSplit, Zenon DEF n
<1>3. PICK g : Parts(g, more, n + 1) /\ At(g, n + 1) = FlattenSeq(more)
  <2>1. \E g : Parts(g, more, Len(more)) /\ At(g, Len(more)) = FlattenSeq(more)
    BY <1>1, FlattenSplit, Zenon
  <2> QED
    BY <1>1, <2>1
<1>4. Parts(g, seqs, n)
  <2>1. ASSUME NEW i \in 1..n PROVE At(g, i) = At(g, i - 1) \o At(seqs, i)
    <3>1. i \in 1..(n + 1) /\ At(more, i) = At(seqs, i)
      BY <1>1
    <3>2. At(g, i) = At(g, i - 1) \o At(more, i)
      BY <1>3, <3>1 DEF Parts
    <3> QED
      BY <3>1, <3>2
  <2> QED
    BY <1>3, <2>1 DEF Parts
<1>5. At(f, n) = At(g, n)
  BY <1>1, <1>2, <1>4, PartsUnique
<1>6. n + 1 \in 1..(n + 1) /\ (n + 1) - 1 = n
  BY <1>1
<1>7. At(g, n + 1) = At(g, n) \o x
  BY <1>1, <1>3, <1>6 DEF Parts
<1> QED
  BY <1>2, <1>3, <1>5, <1>7 DEF more

\* Each of them starts the next, ...
LEMMA PartsGrow ==
  ASSUME NEW S, NEW n \in Nat, NEW seqs, NEW f, Parts(f, seqs, n), NEW i \in 1..n,
         At(f, i - 1) \in Seq(S), At(seqs, i) \in Seq(S)
  PROVE  /\ Len(At(f, i)) \in Nat /\ Len(At(f, i - 1)) \in Nat /\ Len(At(seqs, i)) \in Nat
         /\ Len(At(f, i)) = Len(At(f, i - 1)) + Len(At(seqs, i))
         /\ \A p \in 1..Len(At(f, i - 1)) : At(f, i)[p] = At(f, i - 1)[p]
         /\ \A p \in 1..Len(At(seqs, i)) : At(f, i)[Len(At(f, i - 1)) + p] = At(seqs, i)[p]
<1> DEFINE s == At(f, i - 1)
           t == At(seqs, i)
<1>1. At(f, i) = s \o t
  BY DEF Parts
<1>2. s \in Seq(S) /\ t \in Seq(S)
  OBVIOUS
<1> HIDE DEF s, t
<1>3. /\ Len(s \o t) = Len(s) + Len(t) /\ Len(s) \in Nat /\ Len(t) \in Nat
      /\ \A p \in 1..Len(s) : (s \o t)[p] = s[p]
      /\ \A p \in 1..Len(t) : (s \o t)[Len(s) + p] = t[p]
  BY <1>2
<1>4. Len(s \o t) \in Nat
  BY <1>3
<1> QED
  BY <1>1, <1>3, <1>4, Zenon DEF s, t

\* ... and so all that come after it.
LEMMA PartsStart ==
  ASSUME NEW S, NEW n \in Nat, NEW seqs, NEW f, Parts(f, seqs, n),
         \A i \in 0..n : At(f, i) \in Seq(S), \A i \in 1..n : At(seqs, i) \in Seq(S), NEW i \in 0..n
  PROVE  Len(At(f, i)) <= Len(At(f, n)) /\ \A p \in 1..Len(At(f, i)) : At(f, n)[p] = At(f, i)[p]
<1> DEFINE Starts(m) == Len(At(f, i)) <= Len(At(f, m)) /\ \A p \in 1..Len(At(f, i)) : At(f, m)[p] = At(f, i)[p]
           T == {d \in Nat : i + d <= n => Starts(i + d)}
<1>0. i \in Nat /\ Len(At(f, i)) \in Nat
  OBVIOUS
<1>1. Starts(i + 0)
  <2>1. i + 0 = i
    BY <1>0
  <2>2. Starts(i)
    BY <1>0
  <2> QED
    BY <2>1, <2>2
<1>2. ASSUME NEW d \in Nat, i + d <= n => Starts(i + d), i + (d + 1) <= n
      PROVE  Starts(i + (d + 1))
  <2> DEFINE m == i + (d + 1)
  <2>1. m \in 1..n /\ m - 1 = i + d /\ i + d <= n /\ m - 1 \in 0..n
    BY <1>0, <1>2
  <2> HIDE DEF m
  <2>2. Starts(m - 1)
    BY <1>2, <2>1
  <2>3. /\ Len(At(f, m)) \in Nat /\ Len(At(f, m - 1)) \in Nat /\ Len(At(seqs, m)) \in Nat
        /\ Len(At(f, m)) = Len(At(f, m - 1)) + Len(At(seqs, m))
        /\ \A p \in 1..Len(At(f, m - 1)) : At(f, m)[p] = At(f, m - 1)[p]
    <3>1. At(f, m - 1) \in Seq(S) /\ At(seqs, m) \in Seq(S)
      BY <2>1
    <3> QED
      BY <2>1, <3>1, PartsGrow
  <2>4. ASSUME NEW p \in 1..Len(At(f, i)) PROVE At(f, m)[p] = At(f, i)[p]
    <3>1. p \in 1..Len(At(f, m - 1))
      BY <1>0, <2>2, <2>3
    <3> QED
      BY <2>2, <2>3, <3>1
  <2>5. Len(At(f, i)) <= Len(At(f, m))
    BY <1>0, <2>2, <2>3
  <2>6. Starts(m)
    BY <2>4, <2>5
  <2> QED
    BY <2>6 DEF m
<1> HIDE DEF Starts
<1>3. 0 \in T /\ \A d \in T : d + 1 \in T
  <2>1. 0 \in Nat /\ \A d \in Nat : d + 1 \in Nat
    OBVIOUS
  <2> QED
    BY <1>1, <1>2, <2>1, Zenon
<1>4. n - i \in T
  <2>1. T \in SUBSET Nat /\ n - i \in Nat
    BY <1>0
  <2> HIDE DEF T
  <2> QED
    BY <1>3, <2>1, SetInduction
<1>5. i + (n - i) = n
  BY <1>0
<1>6. Starts(n)
  BY <1>0, <1>4, <1>5
<1> QED
  BY <1>6 DEF Starts

\* Where each of the sequences starts in their concatenation.
Layout(start, seqs, all, n) ==
  /\ start \in [1..(n + 1) -> Nat]
  /\ start[1] = 0 /\ start[n + 1] = Len(all)
  /\ \A i \in 1..n :
       /\ start[i + 1] = start[i] + Len(At(seqs, i)) /\ start[i + 1] <= Len(all)
       /\ \A p \in 1..Len(At(seqs, i)) : all[start[i] + p] = At(seqs, i)[p]

LEMMA FlattenLayout ==
  ASSUME NEW S, NEW seqs \in Seq(Seq(S))
  PROVE  \E start : Layout(start, seqs, FlattenSeq(seqs), Len(seqs))
<1> DEFINE n == Len(seqs)
           all == FlattenSeq(seqs)
<1>0. n \in Nat /\ \A i \in 1..n : At(seqs, i) \in Seq(S)
  BY FlattenSplit, Zenon
<1>1. PICK f : /\ \A i \in 0..n : At(f, i) \in Seq(S)
               /\ Parts(f, seqs, n) /\ At(f, n) = all
  BY FlattenSplit, Zenon
<1> HIDE DEF n, all
<1>2. At(f, 0) = <<>>
  BY <1>1 DEF Parts
<1> DEFINE start == [i \in 1..(n + 1) |-> Len(At(f, i - 1))]
<1>7. start \in [1..(n + 1) -> Nat]
  <2>1. ASSUME NEW i \in 1..(n + 1) PROVE Len(At(f, i - 1)) \in Nat
    <3>1. i - 1 \in 0..n
      BY <1>0
    <3>2. At(f, i - 1) \in Seq(S)
      BY <1>1, <3>1
    <3> QED
      BY <3>2
  <2> QED
    BY <2>1
<1>8. start[1] = 0 /\ start[n + 1] = Len(all)
  <2>1. start[1] = Len(At(f, 0)) /\ start[n + 1] = Len(At(f, n))
    BY <1>0
  <2> HIDE DEF start
  <2> QED
    BY <1>1, <1>2, <2>1
<1>9. ASSUME NEW i \in 1..n
      PROVE  /\ start[i + 1] = start[i] + Len(At(seqs, i)) /\ start[i + 1] <= Len(all)
             /\ \A p \in 1..Len(At(seqs, i)) : all[start[i] + p] = At(seqs, i)[p]
  <2>1. i \in 1..(n + 1) /\ i + 1 \in 1..(n + 1) /\ (i + 1) - 1 = i /\ i \in 0..n /\ i - 1 \in 0..n
    BY <1>0
  <2>2. start[i] = Len(At(f, i - 1)) /\ start[i + 1] = Len(At(f, i))
    BY <2>1
  <2> HIDE DEF start
  <2>3. /\ Len(At(f, i)) \in Nat /\ Len(At(f, i - 1)) \in Nat /\ Len(At(seqs, i)) \in Nat
        /\ Len(At(f, i)) = Len(At(f, i - 1)) + Len(At(seqs, i))
        /\ \A p \in 1..Len(At(seqs, i)) : At(f, i)[Len(At(f, i - 1)) + p] = At(seqs, i)[p]
    <3>1. At(f, i - 1) \in Seq(S) /\ At(seqs, i) \in Seq(S)
      BY <1>0, <1>1, <2>1
    <3> QED
      BY <1>0, <1>1, <3>1, PartsGrow
  <2>4. Len(At(f, i)) <= Len(all) /\ \A p \in 1..Len(At(f, i)) : all[p] = At(f, i)[p]
    BY <1>0, <1>1, <2>1, PartsStart
  <2>5. ASSUME NEW p \in 1..Len(At(seqs, i)) PROVE all[start[i] + p] = At(seqs, i)[p]
    <3>1. start[i] + p \in 1..Len(At(f, i))
      BY <2>2, <2>3
    <3>2. At(f, i)[start[i] + p] = At(seqs, i)[p]
      BY <2>2, <2>3
    <3> QED
      BY <2>4, <3>1, <3>2
  <2> QED
    BY <2>2, <2>3, <2>4, <2>5
<1> HIDE DEF start
<1>10. Layout(start, seqs, all, n)
  BY <1>7, <1>8, <1>9 DEF Layout
<1> QED
  BY <1>10 DEF n, all
-----------------------------------------------------------------------------
(* The keys of a map in order.                                             *)

\* s lists the elements of S from the least to the greatest.
Sorted(s, S) ==
  /\ s \in [1..Cardinality(S) -> S]
  /\ \A k \in S : \E i \in 1..Cardinality(S) : s[i] = k
  /\ \A i, j \in 1..Cardinality(S) : i < j => s[i] < s[j]

\* A set of keys has a least one.
LEMMA LeastElement ==
  ASSUME NEW S \in SUBSET Nat, S # {}
  PROVE  \E m \in S : \A k \in S : m <= k
<1>1. PICK m \in S : \A i \in S : <<i, m>> \notin OpToRel(<, Nat)
  BY WFMin, NatLessThanWellFounded, Zenon
<1>2. \A i \in S : ~(i < m)
  BY <1>1, Zenon DEF OpToRel
<1>3. \A i \in S : m <= i
  BY <1>2
<1> QED
  BY <1>3

\* The least element goes before the others.
LEMMA SortedGrows ==
  ASSUME NEW S \in SUBSET Nat, IsFiniteSet(S), NEW m \in S, \A k \in S : m <= k,
         NEW t, Sorted(t, S \ {m})
  PROVE  \E s : Sorted(s, S)
<1> DEFINE n == Cardinality(S \ {m})
           s == [i \in 1..(n + 1) |-> IF i = 1 THEN m ELSE t[i - 1]]
<1>1. n \in Nat /\ Cardinality(S) = n + 1
  <2>1. IsFiniteSet(S \ {m}) /\ Cardinality(S) \in Nat /\ n = Cardinality(S) - 1
    BY FS_RemoveElement, FS_CardinalityType
  <2>2. n \in Nat
    BY <2>1, FS_CardinalityType
  <2> QED
    BY <2>1, <2>2
<1>2. /\ \A i \in 1..n : t[i] \in S \ {m}
      /\ \A k \in S \ {m} : \E i \in 1..n : t[i] = k
      /\ \A i, j \in 1..n : i < j => t[i] < t[j]
  BY DEF Sorted
<1> HIDE DEF n
<1>3. \A i \in 1..(n + 1) : i = 1 \/ (i # 1 /\ i - 1 \in 1..n)
  BY <1>1
<1>4. s \in [1..(n + 1) -> S] /\ 1 \in 1..(n + 1) /\ s[1] = m /\ \A i \in 1..n : i + 1 \in 1..(n + 1) /\ s[i + 1] = t[i]
  <2>1. \A i \in 1..(n + 1) : (IF i = 1 THEN m ELSE t[i - 1]) \in S
    BY <1>2, <1>3
  <2>2. \A i \in 1..n : i + 1 \in 1..(n + 1) /\ i + 1 # 1 /\ (i + 1) - 1 = i
    BY <1>1
  <2> QED
    BY <1>1, <2>1, <2>2
<1>5. \A k \in S : \E i \in 1..(n + 1) : s[i] = k
  <2> SUFFICES ASSUME NEW k \in S PROVE \E i \in 1..(n + 1) : s[i] = k
    OBVIOUS
  <2>1. CASE k = m
    BY <1>4, <2>1
  <2>2. CASE k # m
    <3>1. PICK i \in 1..n : t[i] = k
      BY <1>2, <2>2
    <3> QED
      BY <1>4, <3>1
  <2> QED
    BY <2>1, <2>2
<1>6. ASSUME NEW i \in 1..(n + 1), NEW j \in 1..(n + 1), i < j
      PROVE  s[i] < s[j]
  <2>1. j # 1 /\ j - 1 \in 1..n /\ s[j] = t[j - 1]
    BY <1>1, <1>6
  <2>2. s[j] \in S \ {m} /\ s[j] \in Nat /\ m \in Nat /\ m <= s[j]
    BY <1>2, <2>1
  <2>3. CASE i = 1
    BY <1>4, <2>2, <2>3
  <2>4. CASE i # 1
    <3>1. i - 1 \in 1..n /\ s[i] = t[i - 1] /\ i - 1 < j - 1
      BY <1>1, <1>6, <2>4
    <3> QED
      BY <1>2, <2>1, <3>1
  <2> QED
    BY <2>3, <2>4
<1> HIDE DEF s
<1>7. Sorted(s, S)
  BY <1>1, <1>4, <1>5, <1>6 DEF Sorted
<1> QED
  BY <1>7

\* Every finite set of keys can be listed in order.
LEMMA SortedExists ==
  ASSUME NEW S \in SUBSET Nat, IsFiniteSet(S)
  PROVE  \E s : Sorted(s, S)
<1> DEFINE Fine(n) == \A X \in SUBSET Nat : IsFiniteSet(X) /\ Cardinality(X) = n => \E s : Sorted(s, X)
           T == {n \in Nat : Fine(n)}
<1>1. Fine(0)
  <2> SUFFICES ASSUME NEW X \in SUBSET Nat, IsFiniteSet(X), Cardinality(X) = 0 PROVE \E s : Sorted(s, X)
    OBVIOUS
  <2>1. X = {}
    BY FS_EmptySet
  <2> DEFINE s == [i \in 1..0 |-> 0]
  <2>2. s \in [1..0 -> {}]
    OBVIOUS
  <2>3. Sorted(s, X)
    BY <2>1, <2>2 DEF Sorted
  <2> QED
    BY <2>3
<1>2. ASSUME NEW n \in Nat, Fine(n) PROVE Fine(n + 1)
  <2> SUFFICES ASSUME NEW X \in SUBSET Nat, IsFiniteSet(X), Cardinality(X) = n + 1 PROVE \E s : Sorted(s, X)
    OBVIOUS
  <2>1. X # {}
    BY FS_EmptySet
  <2>2. PICK m \in X : \A k \in X : m <= k
    BY <2>1, LeastElement
  <2>3. X \ {m} \in SUBSET Nat /\ IsFiniteSet(X \ {m}) /\ Cardinality(X \ {m}) = n
    <3>1. IsFiniteSet(X \ {m}) /\ Cardinality(X \ {m}) = Cardinality(X) - 1
      BY FS_RemoveElement
    <3>2. (n + 1) - 1 = n
      OBVIOUS
    <3> QED
      BY <3>1, <3>2
  <2>4. PICK t : Sorted(t, X \ {m})
    BY <1>2, <2>3
  <2> QED
    BY <2>2, <2>4, SortedGrows
<1> HIDE DEF Fine
<1>3. 0 \in T /\ \A n \in T : n + 1 \in T
  <2>1. 0 \in Nat /\ \A n \in Nat : n + 1 \in Nat
    OBVIOUS
  <2> QED
    BY <1>1, <1>2, <2>1, Zenon
<1>4. Cardinality(S) \in T
  <2>1. T \in SUBSET Nat /\ Cardinality(S) \in Nat
    BY FS_CardinalityType
  <2> HIDE DEF T
  <2> QED
    BY <1>3, <2>1, SetInduction
<1> QED
  BY <1>4, Zenon DEF Fine

\* InOrder is such a list.
LEMMA InOrderSorted ==
  ASSUME NEW S \in SUBSET Nat, IsFiniteSet(S)
  PROVE  Sorted(InOrder(S), S) /\ Cardinality(S) \in Nat
<1> DEFINE n == Cardinality(S)
<1>1. PICK t : Sorted(t, S)
  BY SortedExists
<1>2. n \in Nat
  BY FS_CardinalityType
<1> HIDE DEF n
<1>3. \A s \in [1..n -> S] : DOMAIN s = 1..n /\ ToSet(s) = {s[i] : i \in 1..n}
  BY DEF ToSet
<1>4. t \in [1..n -> S] /\ ToSet(t) = S /\ \A i, j \in DOMAIN t : i < j => t[i] < t[j]
  <2>1. t \in [1..n -> S] /\ (\A k \in S : \E i \in 1..n : t[i] = k) /\ \A i, j \in 1..n : i < j => t[i] < t[j]
    BY <1>1 DEF Sorted, n
  <2> QED
    BY <1>3, <2>1
<1> DEFINE s == InOrder(S)
<1>5. s \in [1..n -> S] /\ ToSet(s) = S /\ \A i, j \in DOMAIN s : i < j => s[i] < s[j]
  BY <1>4 DEF InOrder, n
<1> HIDE DEF s
<1>6. \A k \in S : \E i \in 1..n : s[i] = k
  BY <1>3, <1>5
<1>7. Sorted(s, S)
  BY <1>3, <1>5, <1>6 DEF Sorted, n
<1> QED
  BY <1>2, <1>7 DEF s, n

\* Before the p-th key there are p - 1.
LEMMA KeysBefore ==
  ASSUME NEW S \in SUBSET Nat, IsFiniteSet(S), NEW s, Sorted(s, S), NEW p \in 1..Cardinality(S)
  PROVE  Cardinality({k \in S : k < s[p]}) = p - 1
<1> DEFINE n == Cardinality(S)
           B == {k \in S : k < s[p]}
           f == [i \in 1..(p - 1) |-> s[i]]
<1>1. n \in Nat /\ p \in 1..n
  BY FS_CardinalityType
<1>2. /\ \A i \in 1..n : s[i] \in S /\ s[i] \in Nat
      /\ \A k \in S : \E i \in 1..n : s[i] = k
      /\ \A i, j \in 1..n : i < j => s[i] < s[j]
  BY DEF Sorted
<1> HIDE DEF n
<1>3. p - 1 \in Nat /\ \A i \in 1..(p - 1) : i \in 1..n /\ i < p
  BY <1>1
<1>4. \A i \in 1..(p - 1) : s[i] \in B
  BY <1>1, <1>2, <1>3
<1>5. \A k \in B : \E i \in 1..(p - 1) : s[i] = k
  <2> SUFFICES ASSUME NEW k \in B PROVE \E i \in 1..(p - 1) : s[i] = k
    OBVIOUS
  <2>1. PICK i \in 1..n : s[i] = k
    BY <1>2
  <2>2. i < p
    <3> SUFFICES ASSUME p <= i PROVE FALSE
      BY <1>1
    <3>1. p = i \/ p < i
      BY <1>1
    <3>2. s[p] <= s[i] /\ s[i] \in Nat /\ s[p] \in Nat
      BY <1>1, <1>2, <3>1
    <3> QED
      BY <2>1, <3>2
  <2>3. i \in 1..(p - 1)
    BY <1>1, <2>2
  <2> QED
    BY <2>1, <2>3
<1>6. \A i, j \in 1..(p - 1) : s[i] = s[j] => i = j
  <2> SUFFICES ASSUME NEW i \in 1..(p - 1), NEW j \in 1..(p - 1), s[i] = s[j], i # j PROVE FALSE
    OBVIOUS
  <2>1. i \in 1..n /\ j \in 1..n /\ (i < j \/ j < i)
    BY <1>3
  <2>2. s[i] < s[j] \/ s[j] < s[i]
    BY <1>2, <2>1
  <2> QED
    BY <1>2, <2>1, <2>2
<1> HIDE DEF B
<1>7. f \in Bijection(1..(p - 1), B)
  BY <1>4, <1>5, <1>6 DEF Bijection, Injection, Surjection, IsInjective
<1>8. ExistsBijection(1..(p - 1), B)
  BY <1>7 DEF ExistsBijection
<1>9. Cardinality(B) = p - 1
  BY <1>3, <1>8, FS_CountingElements
<1> QED
  BY <1>9 DEF B

\* How many of S come before k.
Before(S, k) == Cardinality({j \in S : j < k})

\* The first n keys of s are the ones of S with fewer than max before them.
Firsts(s, n, S, max) ==
  \A k : (\E i \in 1..n : s[i] = k) <=> k \in S /\ Before(S, k) < max

AtMost(n, max) == IF n < max THEN n ELSE max

\* The first keys: those with fewer than max before them.
LEMMA FirstKeys ==
  ASSUME NEW S \in SUBSET Nat, IsFiniteSet(S), NEW s, Sorted(s, S), NEW max \in Nat,
         NEW n, n = AtMost(Cardinality(S), max)
  PROVE  n \in 0..Cardinality(S) /\ Firsts(s, n, S, max)
<1>1. Cardinality(S) \in Nat
  BY FS_CardinalityType
<1>2. n \in 0..Cardinality(S)
  BY <1>1 DEF AtMost
<1>3. /\ \A i \in 1..Cardinality(S) : s[i] \in S
      /\ \A k \in S : \E i \in 1..Cardinality(S) : s[i] = k
  BY DEF Sorted
<1>4. ASSUME NEW i \in 1..n
      PROVE  s[i] \in S /\ Cardinality({j \in S : j < s[i]}) < max
  <2>1. i \in 1..Cardinality(S) /\ i - 1 < max
    BY <1>1, <1>2 DEF AtMost
  <2>2. Cardinality({j \in S : j < s[i]}) = i - 1
    BY <2>1, KeysBefore
  <2> QED
    BY <1>3, <2>1, <2>2
<1>5. ASSUME NEW k \in S, Cardinality({j \in S : j < k}) < max
      PROVE  \E i \in 1..n : s[i] = k
  <2>1. PICK i \in 1..Cardinality(S) : s[i] = k
    BY <1>3
  <2>2. Cardinality({j \in S : j < s[i]}) = i - 1
    BY KeysBefore
  <2>3. i - 1 < max
    BY <1>5, <2>1, <2>2
  <2>4. i \in 1..n
    BY <1>1, <2>3 DEF AtMost
  <2> QED
    BY <2>1, <2>4
<1> QED
  BY <1>2, <1>4, <1>5 DEF Before, Firsts
-----------------------------------------------------------------------------
(* Encoded maps.                                                           *)

Token == {"num", "str", "flag", "raw"} \X Int

\* What the tokens are made of.
LEMMA TokenFacts ==
  /\ \A v \in Int : Num(v) \in Token /\ Str(v) \in Token /\ Raw(v) \in Token
  /\ Flag \in Token /\ Flag[1] # "str"
  /\ \A v : Str(v)[1] = "str" /\ Str(v)[2] = v /\ Num(v)[2] = v /\ Raw(v)[2] = v
<1>1. \A v \in Int : Num(v) \in Token /\ Str(v) \in Token /\ Raw(v) \in Token
  BY DEF Token, Num, Str, Raw
<1>2. Flag \in Token
  BY DEF Token, Flag
<1>3. Flag[1] # "str"
  BY DEF Flag
<1>4. \A v : Str(v)[1] = "str" /\ Str(v)[2] = v /\ Num(v)[2] = v /\ Raw(v)[2] = v
  BY DEF Num, Str, Raw
<1> QED
  BY <1>1, <1>2, <1>3, <1>4

\* Keys and values from the second token on.
MapLayout(bl, ks, vs, n) ==
  /\ bl[1][2] = n /\ Len(bl) >= 2 * n + 1
  /\ \A i \in 1..n : bl[2 * i] = Str(ks[i]) /\ bl[2 * i + 1] = Str(vs[i])

\* After the count come keys at even and values at odd places.
LEMMA EvenOdd ==
  ASSUME NEW n \in Nat, NEW j \in 2..(2 * n + 1)
  PROVE  \E i \in 1..n : j = 2 * i \/ j = 2 * i + 1
<1> DEFINE i == j \div 2
<1>1. i \in Int /\ 2 * i <= j /\ j < 2 * i + 2
  OBVIOUS
<1> HIDE DEF i
<1>2. i \in 1..n /\ (j = 2 * i \/ j = 2 * i + 1)
  BY <1>1
<1> QED
  BY <1>2

\* The decoder finds the strings it wants.
LEMMA MapStrings ==
  ASSUME NEW bl, NEW ks, NEW vs, NEW n \in Nat, Len(bl) \in Nat, MapLayout(bl, ks, vs, n)
  PROVE  HasStrings(bl, 2, 2 * n)
<1>1. ASSUME NEW j \in 2..(2 * n + 1) PROVE bl[j][1] = "str"
  <2>1. PICK i \in 1..n : j = 2 * i \/ j = 2 * i + 1
    BY EvenOdd
  <2>2. bl[2 * i] = Str(ks[i]) /\ bl[2 * i + 1] = Str(vs[i])
    BY DEF MapLayout
  <2>3. bl[j] = Str(ks[i]) \/ bl[j] = Str(vs[i])
    BY <2>1, <2>2
  <2> QED
    BY <2>3, TokenFacts
<1>2. 2 + 2 * n - 1 = 2 * n + 1
  OBVIOUS
<1>3. Len(bl) >= 2 * n + 1
  BY DEF MapLayout
<1> QED
  BY <1>1, <1>2, <1>3 DEF HasStrings

\* Keys in a row, with their values in the map.
Keyed(f, ks, n) ==
  /\ \A i \in 1..n : ks[i] \in Nat \ {0} /\ f[ks[i]] \in Nat
  /\ \A i, j \in 1..n : ks[i] = ks[j] => i = j

ValuesOf(f, ks, n) == [i \in 1..n |-> f[ks[i]]]

MapOf(f, ks, n) == [k \in {ks[i] : i \in 1..n} |-> f[k]]

\* The map that comes out.
LEMMA MapDecodes ==
  ASSUME NEW bl, NEW f, NEW ks, NEW n \in Nat, MapLayout(bl, ks, ValuesOf(f, ks, n), n), Keyed(f, ks, n)
  PROVE  MapAt(bl, n) = MapOf(f, ks, n)
<1> DEFINE vs == ValuesOf(f, ks, n)
<1>a. \A i \in 1..n : f[ks[i]] = vs[i]
  BY DEF ValuesOf
<1>b. \A i, j \in 1..n : ks[i] = ks[j] => i = j
  BY DEF Keyed
<1> HIDE DEF vs
<1>c. MapLayout(bl, ks, vs, n)
  BY DEF vs
<1>1. \A i \in 1..n : bl[2 * i][2] = ks[i] /\ bl[2 * i + 1][2] = vs[i]
  BY <1>c, TokenFacts DEF MapLayout
<1>2. {bl[2 * j][2] : j \in 1..n} = {ks[i] : i \in 1..n}
  <2> DEFINE A(j) == bl[2 * j][2]
  <2>1. \A j \in 1..n : A(j) = ks[j]
    BY <1>1
  <2> HIDE DEF A
  <2>2. {A(j) : j \in 1..n} = {ks[i] : i \in 1..n}
    BY <2>1
  <2> QED
    BY <2>2 DEF A
<1> DEFINE LastAt(k) == CHOOSE j \in 1..n : bl[2 * j][2] = k /\ \A i \in (j + 1)..n : bl[2 * i][2] # k
<1>3. ASSUME NEW k \in {ks[i] : i \in 1..n} PROVE bl[2 * LastAt(k) + 1][2] = f[k]
  <2>1. PICK p \in 1..n : ks[p] = k
    OBVIOUS
  <2>2. bl[2 * p][2] = k /\ \A i \in (p + 1)..n : bl[2 * i][2] # k
    <3>1. \A i \in (p + 1)..n : i \in 1..n /\ i # p
      OBVIOUS
    <3>2. \A i \in 1..n : i # p => ks[i] # k
      BY <1>b, <2>1
    <3> QED
      BY <1>1, <2>1, <3>1, <3>2
  <2>3. LastAt(k) \in 1..n /\ bl[2 * LastAt(k)][2] = k
    BY <2>2
  <2> HIDE DEF LastAt
  <2>4. ks[LastAt(k)] = k
    BY <1>1, <2>3
  <2> QED
    BY <1>1, <1>a, <2>3, <2>4
<1>4. MapAt(bl, n) = [k \in {bl[2 * j][2] : j \in 1..n} |-> bl[2 * LastAt(k) + 1][2]]
  BY DEF MapAt
<1> HIDE DEF LastAt
<1> QED
  BY <1>2, <1>3, <1>4 DEF MapOf

\* Pairs of tokens, one after the other.
TwoEach(seqs, ks, vs, n) ==
  \A i \in 1..n : Len(At(seqs, i)) = 2 /\ At(seqs, i)[1] = Str(ks[i]) /\ At(seqs, i)[2] = Str(vs[i])

LEMMA FlattenPairs ==
  ASSUME NEW seqs \in Seq(Seq(Token)), NEW ks, NEW vs, NEW n \in Nat, Len(seqs) = n, TwoEach(seqs, ks, vs, n)
  PROVE  /\ FlattenSeq(seqs) \in Seq(Token) /\ Len(FlattenSeq(seqs)) = 2 * n
         /\ \A i \in 1..n : FlattenSeq(seqs)[2 * i - 1] = Str(ks[i]) /\ FlattenSeq(seqs)[2 * i] = Str(vs[i])
<1> DEFINE all == FlattenSeq(seqs)
<1>1. all \in Seq(Token)
  BY FlattenIsSeq
<1>2. PICK start : Layout(start, seqs, all, n)
  BY FlattenLayout
<1> HIDE DEF all
<1>3. /\ start[1] = 0 /\ start[n + 1] = Len(all)
      /\ \A i \in 1..n : start[i + 1] = start[i] + Len(At(seqs, i))
      /\ \A i \in 1..n : \A q \in 1..Len(At(seqs, i)) : all[start[i] + q] = At(seqs, i)[q]
  BY <1>2 DEF Layout
<1>4. \A i \in 1..n : Len(At(seqs, i)) = 2 /\ At(seqs, i)[1] = Str(ks[i]) /\ At(seqs, i)[2] = Str(vs[i])
  BY DEF TwoEach
<1> DEFINE T == {i \in Nat : i <= n => start[i + 1] = 2 * i}
<1>5. 0 \in T /\ \A i \in T : i + 1 \in T
  <2>1. 0 \in T
    BY <1>3
  <2>2. ASSUME NEW i \in T, i + 1 <= n PROVE start[(i + 1) + 1] = 2 * (i + 1)
    <3>1. i \in Nat /\ i <= n /\ i + 1 \in 1..n
      BY <2>2
    <3>2. start[i + 1] = 2 * i
      BY <2>2, <3>1
    <3>3. start[(i + 1) + 1] = start[i + 1] + 2
      BY <1>3, <1>4, <3>1
    <3> QED
      BY <3>1, <3>2, <3>3
  <2>3. \A i \in T : i + 1 \in Nat
    OBVIOUS
  <2> QED
    BY <2>1, <2>2, <2>3
<1>6. \A i \in Nat : i <= n => start[i + 1] = 2 * i
  <2>1. T \in SUBSET Nat
    OBVIOUS
  <2>2. \A i \in Nat : i \in T
    <3> HIDE DEF T
    <3> QED
      BY <1>5, <2>1, SetInduction
  <2> QED
    BY <2>2
<1>7. Len(all) = 2 * n
  BY <1>3, <1>6
<1>8. ASSUME NEW i \in 1..n PROVE all[2 * i - 1] = Str(ks[i]) /\ all[2 * i] = Str(vs[i])
  <2>1. i - 1 \in Nat /\ i - 1 <= n /\ (i - 1) + 1 = i
    OBVIOUS
  <2>2. start[i] = 2 * (i - 1)
    BY <1>6, <2>1
  <2>3. all[start[i] + 1] = Str(ks[i]) /\ all[start[i] + 2] = Str(vs[i])
    <3> DEFINE x == At(seqs, i)
    <3>1. Len(x) = 2 /\ x[1] = Str(ks[i]) /\ x[2] = Str(vs[i]) /\ \A q \in 1..Len(x) : all[start[i] + q] = x[q]
      BY <1>3, <1>4
    <3> HIDE DEF x
    <3>2. 1 \in 1..Len(x) /\ 2 \in 1..Len(x)
      BY <3>1
    <3> QED
      BY <3>1, <3>2
  <2>4. 2 * (i - 1) + 1 = 2 * i - 1 /\ 2 * (i - 1) + 2 = 2 * i
    OBVIOUS
  <2> QED
    BY <2>2, <2>3, <2>4
<1> QED
  BY <1>1, <1>7, <1>8 DEF all

\* A count, the data, and what comes after it.
LEMMA Framed ==
  ASSUME NEW g \in Seq(Token), Len(g) = 1, NEW all \in Seq(Token), NEW tail \in Seq(Token)
  PROVE  /\ g \o all \o tail \in Seq(Token)
         /\ Len(g \o all \o tail) = 1 + Len(all) + Len(tail)
         /\ (g \o all \o tail)[1] = g[1]
         /\ \A i \in 1..Len(all) : (g \o all \o tail)[i + 1] = all[i]
         /\ \A i \in 1..Len(tail) : (g \o all \o tail)[Len(all) + 1 + i] = tail[i]
<1> DEFINE x == g \o all
<1>0. Len(all) \in Nat /\ Len(tail) \in Nat
  OBVIOUS
<1>1. /\ x \in Seq(Token) /\ Len(x) = 1 + Len(all) /\ x[1] = g[1]
      /\ \A i \in 1..Len(all) : x[i + 1] = all[i]
  <2>1. /\ g \o all \in Seq(Token) /\ Len(g \o all) = Len(g) + Len(all)
        /\ \A i \in 1..(Len(g) + Len(all)) : (g \o all)[i] = IF i <= Len(g) THEN g[i] ELSE all[i - Len(g)]
    BY ConcatProperties
  <2>2. \A i \in 1..Len(all) : i + 1 \in 1..(1 + Len(all)) /\ ~(i + 1 <= 1) /\ (i + 1) - 1 = i
    BY <1>0
  <2>3. 1 \in 1..(1 + Len(all))
    BY <1>0
  <2>4. (g \o all)[1] = g[1]
    BY <2>1, <2>3
  <2>5. \A i \in 1..Len(all) : (g \o all)[i + 1] = all[i]
    BY <2>1, <2>2
  <2> QED
    BY <2>1, <2>4, <2>5
<1> HIDE DEF x
<1>2. /\ x \o tail \in Seq(Token) /\ Len(x \o tail) = Len(x) + Len(tail)
      /\ \A i \in 1..(Len(x) + Len(tail)) : (x \o tail)[i] = IF i <= Len(x) THEN x[i] ELSE tail[i - Len(x)]
  <2>1. x \in Seq(Token)
    BY <1>1
  <2> QED
    BY <2>1, ConcatProperties
<1>3. (x \o tail)[1] = g[1]
  <2>1. 1 \in 1..(Len(x) + Len(tail)) /\ 1 <= Len(x)
    BY <1>0, <1>1
  <2> QED
    BY <1>1, <1>2, <2>1
<1>4. ASSUME NEW i \in 1..Len(all) PROVE (x \o tail)[i + 1] = all[i]
  <2>1. i + 1 \in 1..(Len(x) + Len(tail)) /\ i + 1 <= Len(x)
    BY <1>0, <1>1
  <2> QED
    BY <1>1, <1>2, <2>1
<1>5. ASSUME NEW i \in 1..Len(tail) PROVE (x \o tail)[Len(all) + 1 + i] = tail[i]
  <2> DEFINE j == Len(all) + 1 + i
  <2>1. j \in 1..(Len(x) + Len(tail)) /\ ~(j <= Len(x)) /\ j - Len(x) = i
    BY <1>0, <1>1
  <2> HIDE DEF j
  <2>2. (x \o tail)[j] = tail[j - Len(x)]
    BY <1>2, <2>1
  <2> QED
    BY <2>1, <2>2 DEF j
<1> QED
  BY <1>1, <1>2, <1>3, <1>4, <1>5 DEF x

\* The pairs of the first n keys.
LEMMA PairsOfFacts ==
  ASSUME NEW f, NEW ks, NEW n \in Nat
  PROVE  /\ Len(PairsOf(f, ks, n)) = n /\ DOMAIN PairsOf(f, ks, n) = 1..n
         /\ \A i \in 1..n : PairsOf(f, ks, n)[i][1] = ks[i] /\ PairsOf(f, ks, n)[i][2] = f[ks[i]]
<1>1. PairsOf(f, ks, n) = [i \in 1..n |-> <<ks[i], f[ks[i]]>>]
  BY DEF PairsOf
<1>2. DOMAIN PairsOf(f, ks, n) = 1..n
  BY <1>1
<1> DEFINE P(i) == <<ks[i], f[ks[i]]>>
<1>3. \A i \in 1..n : P(i)[1] = ks[i] /\ P(i)[2] = f[ks[i]]
  OBVIOUS
<1>4. \A i \in 1..n : PairsOf(f, ks, n)[i] = P(i)
  BY <1>1
<1>5. Len(PairsOf(f, ks, n)) = n
  <2> HIDE DEF P
  <2>1. [i \in 1..n |-> P(i)] \in Seq({P(i) : i \in 1..n}) /\ Len([i \in 1..n |-> P(i)]) = n
    OBVIOUS
  <2> QED
    BY <1>1, <2>1 DEF P
<1> HIDE DEF P
<1> QED
  BY <1>2, <1>3, <1>4, <1>5

LEMMA TwoJoined ==
  ASSUME NEW a \in Token, NEW b \in Token
  PROVE  <<a>> \o <<b>> = <<a, b>>
<1> DEFINE x == <<a>>
           y == <<b>>
           z == <<a, b>>
<1>1. /\ x \in Seq(Token) /\ Len(x) = 1 /\ x[1] = a /\ y \in Seq(Token) /\ Len(y) = 1 /\ y[1] = b
      /\ z \in Seq(Token) /\ Len(z) = 2 /\ z[1] = a /\ z[2] = b
  OBVIOUS
<1> HIDE DEF x, y, z
<1>2. /\ x \o y \in Seq(Token) /\ Len(x \o y) = Len(x) + Len(y)
      /\ \A i \in 1..(Len(x) + Len(y)) : (x \o y)[i] = IF i <= Len(x) THEN x[i] ELSE y[i - Len(x)]
  BY <1>1, ConcatProperties
<1> DEFINE u == x \o y
<1>3. u \in Seq(Token) /\ Len(u) = 2 /\ u[1] = a /\ u[2] = b
  BY <1>1, <1>2
<1> HIDE DEF u
<1>4. \A i \in 1..2 : u[i] = z[i]
  BY <1>1, <1>3
<1>5. u = z
  BY <1>1, <1>3, <1>4, SeqEqual
<1> QED
  BY <1>5 DEF u, x, y, z

\* Two tokens for each pair.
PairTokens(f, ks, n) == [i \in 1..n |-> <<Str(ks[i]), Str(f[ks[i]])>>]

LEMMA TwoTokens ==
  ASSUME NEW f, NEW ks, NEW n \in Nat, Keyed(f, ks, n), NEW seqs, seqs = PairTokens(f, ks, n)
  PROVE  seqs \in Seq(Seq(Token)) /\ Len(seqs) = n /\ TwoEach(seqs, ks, ValuesOf(f, ks, n), n)
<1> DEFINE P(i) == <<Str(ks[i]), Str(f[ks[i]])>>
           B == Seq(Token)
<1>1. \A i \in 1..n : P(i) \in B /\ Len(P(i)) = 2 /\ P(i)[1] = Str(ks[i]) /\ P(i)[2] = Str(f[ks[i]])
  <2> SUFFICES ASSUME NEW i \in 1..n PROVE P(i) \in B /\ Len(P(i)) = 2 /\ P(i)[1] = Str(ks[i]) /\ P(i)[2] = Str(f[ks[i]])
    OBVIOUS
  <2> DEFINE a == Str(ks[i])
             b == Str(f[ks[i]])
  <2>1. a \in Token /\ b \in Token
    BY TokenFacts DEF Keyed
  <2> HIDE DEF a, b
  <2>2. <<a, b>> \in Seq(Token) /\ Len(<<a, b>>) = 2 /\ <<a, b>>[1] = a /\ <<a, b>>[2] = b
    BY <2>1
  <2> QED
    BY <2>2 DEF a, b
<1>2. seqs = [i \in 1..n |-> P(i)]
  BY DEF PairTokens
<1>3. \A i \in 1..n : ValuesOf(f, ks, n)[i] = f[ks[i]]
  BY DEF ValuesOf
<1> HIDE DEF P, B
<1>4. seqs \in Seq(B) /\ Len(seqs) = n /\ \A i \in 1..n : At(seqs, i) = P(i)
  <2>1. \A i \in 1..n : P(i) \in B
    BY <1>1
  <2>2. [i \in 1..n |-> P(i)] \in Seq(B) /\ Len([i \in 1..n |-> P(i)]) = n
    BY <2>1
  <2>3. \A i \in 1..n : At(seqs, i) = P(i)
    BY <1>2 DEF At
  <2> QED
    BY <1>2, <2>2, <2>3
<1>5. TwoEach(seqs, ks, ValuesOf(f, ks, n), n)
  BY <1>1, <1>3, <1>4 DEF TwoEach
<1> QED
  BY <1>4, <1>5 DEF B

\* The tokens of a map, between its count and what comes after it.
MapTokens(bl, f, ks, n, tail) == bl = <<Num(n)>> \o FlattenSeq(PairTokens(f, ks, n)) \o tail

LEMMA MapFrame ==
  ASSUME NEW f, NEW ks, NEW n \in Nat, Keyed(f, ks, n), NEW tail \in Seq(Token), NEW bl,
         MapTokens(bl, f, ks, n, tail)
  PROVE  /\ bl \in Seq(Token) /\ Len(bl) = 2 * n + 1 + Len(tail) /\ MapLayout(bl, ks, ValuesOf(f, ks, n), n)
         /\ \A i \in 1..Len(tail) : bl[2 * n + 1 + i] = tail[i]
<1> DEFINE seqs == PairTokens(f, ks, n)
           vs == ValuesOf(f, ks, n)
<1>3. seqs \in Seq(Seq(Token)) /\ Len(seqs) = n /\ TwoEach(seqs, ks, vs, n)
  BY TwoTokens
<1> HIDE DEF seqs, vs
<1> DEFINE all == FlattenSeq(seqs)
<1>4. /\ all \in Seq(Token) /\ Len(all) = 2 * n
      /\ \A i \in 1..n : all[2 * i - 1] = Str(ks[i]) /\ all[2 * i] = Str(vs[i])
  BY <1>3, FlattenPairs
<1> DEFINE g == <<Num(n)>>
<1>5. bl = g \o all \o tail /\ g \in Seq(Token) /\ Len(g) = 1 /\ g[1] = Num(n)
  BY TokenFacts DEF seqs, MapTokens
<1> HIDE DEF all, g
<1>7. /\ bl \in Seq(Token) /\ Len(bl) = 1 + Len(all) + Len(tail) /\ bl[1] = g[1]
      /\ \A i \in 1..Len(all) : bl[i + 1] = all[i]
      /\ \A i \in 1..Len(tail) : bl[Len(all) + 1 + i] = tail[i]
  <2>1. g \in Seq(Token) /\ Len(g) = 1 /\ all \in Seq(Token) /\ bl = g \o all \o tail
    BY <1>4, <1>5
  <2>2. /\ g \o all \o tail \in Seq(Token)
        /\ Len(g \o all \o tail) = 1 + Len(all) + Len(tail)
        /\ (g \o all \o tail)[1] = g[1]
        /\ \A i \in 1..Len(all) : (g \o all \o tail)[i + 1] = all[i]
        /\ \A i \in 1..Len(tail) : (g \o all \o tail)[Len(all) + 1 + i] = tail[i]
    BY <2>1, Framed, Zenon
  <2> QED
    BY <2>1, <2>2, Zenon
<1>8. Len(bl) = 2 * n + 1 + Len(tail) /\ Len(tail) \in Nat /\ bl[1][2] = n
  BY <1>4, <1>5, <1>7, TokenFacts
<1>9. ASSUME NEW i \in 1..n PROVE bl[2 * i] = Str(ks[i]) /\ bl[2 * i + 1] = Str(vs[i])
  <2>1. 2 * i - 1 \in 1..Len(all) /\ 2 * i \in 1..Len(all) /\ (2 * i - 1) + 1 = 2 * i
    BY <1>4
  <2>2. bl[(2 * i - 1) + 1] = all[2 * i - 1] /\ bl[2 * i + 1] = all[2 * i]
    BY <1>7, <2>1
  <2> QED
    BY <1>4, <2>1, <2>2
<1>10. MapLayout(bl, ks, vs, n)
  <2>1. Len(bl) >= 2 * n + 1
    BY <1>8
  <2> QED
    BY <1>8, <1>9, <2>1 DEF MapLayout
<1>11. \A i \in 1..Len(tail) : bl[2 * n + 1 + i] = tail[i]
  BY <1>4, <1>7
<1> QED
  BY <1>7, <1>8, <1>10, <1>11 DEF vs

\* A map is decoded as it was encoded.
LEMMA MapRoundTrip ==
  ASSUME NEW f, NEW ks, NEW n \in Nat, Keyed(f, ks, n)
  PROVE  DecodeMap(<<>> \o EncodeMap(PairsOf(f, ks, n))) = Ok(MapOf(f, ks, n))
<1> DEFINE kvs == PairsOf(f, ks, n)
           seqs == PairTokens(f, ks, n)
<1>1. Len(kvs) = n /\ DOMAIN kvs = 1..n /\ \A i \in 1..n : kvs[i][1] = ks[i] /\ kvs[i][2] = f[ks[i]]
  BY PairsOfFacts
<1> HIDE DEF kvs
<1>2. [i \in DOMAIN kvs |-> <<Str(kvs[i][1]), Str(kvs[i][2])>>] = seqs
  BY <1>1 DEF PairTokens
<1>3. FlattenSeq(seqs) \in Seq(Token)
  BY TwoTokens, FlattenIsSeq
<1>4. EncodeMap(kvs) = <<Num(n)>> \o FlattenSeq(seqs)
  BY <1>1, <1>2 DEF EncodeMap
<1> HIDE DEF seqs
<1> DEFINE bl == <<>> \o EncodeMap(kvs)
           e == <<>>
<1>5. bl = <<Num(n)>> \o FlattenSeq(seqs) \o e /\ e \in Seq(Token)
  <2>1. <<Num(n)>> \o FlattenSeq(seqs) \in Seq(Token)
    <3>1. <<Num(n)>> \in Seq(Token)
      BY TokenFacts
    <3> QED
      BY <1>3, <3>1, ConcatProperties
  <2> DEFINE x == <<Num(n)>> \o FlattenSeq(seqs)
  <2> HIDE DEF x
  <2>2. <<>> \o x = x /\ x \o <<>> = x
    BY <2>1, ConcatEmptySeq DEF x
  <2> QED
    BY <1>4, <2>2 DEF x
<1> HIDE DEF bl, e
<1>6. bl \in Seq(Token) /\ MapLayout(bl, ks, ValuesOf(f, ks, n), n) /\ Len(bl) \in Nat
  <2>1. MapTokens(bl, f, ks, n, e)
    BY <1>5 DEF seqs, MapTokens
  <2>2. e \in Seq(Token)
    BY <1>5
  <2>3. bl \in Seq(Token) /\ MapLayout(bl, ks, ValuesOf(f, ks, n), n)
    BY <2>1, <2>2, MapFrame, Zenon
  <2>4. Len(bl) = 2 * n + 1 + Len(e)
    BY <2>1, <2>2, MapFrame
  <2>5. \A i \in 1..Len(e) : bl[2 * n + 1 + i] = e[i]
    BY <2>1, <2>2, MapFrame
  <2>6. Len(bl) \in Nat
    BY <2>3
  <2> QED
    BY <2>3, <2>4, <2>5, <2>6, Zenon
<1>7. HasStrings(bl, 2, 2 * n)
  BY <1>6, MapStrings
<1>8. MapAt(bl, n) = MapOf(f, ks, n)
  BY <1>6, MapDecodes
<1>9. bl[1][2] = n
  BY <1>6 DEF MapLayout
<1>10. DecodeMap(bl) = Ok(MapOf(f, ks, n))
  BY <1>7, <1>8, <1>9 DEF DecodeMap
<1> QED
  BY <1>10 DEF bl, kvs

\* So is a listing of values in which none is empty ...
LEMMA ValsRoundTrip ==
  ASSUME NEW f, NEW ks, NEW n \in Nat, Keyed(f, ks, n), \A i \in 1..n : f[ks[i]] # 0
  PROVE  DecodeVals(<<>> \o EncodeOmapGetvals(PairsOf(f, ks, n))) = Ok(MapOf(f, ks, n))
<1> DEFINE kvs == PairsOf(f, ks, n)
           seqs == PairTokens(f, ks, n)
<1>1. Len(kvs) = n /\ DOMAIN kvs = 1..n /\ \A i \in 1..n : kvs[i][1] = ks[i] /\ kvs[i][2] = f[ks[i]]
  BY PairsOfFacts
<1> HIDE DEF kvs
<1>2. [i \in DOMAIN kvs |-> StrIfAny(kvs[i][1]) \o StrIfAny(kvs[i][2])] = seqs
  <2>1. ASSUME NEW i \in 1..n PROVE StrIfAny(kvs[i][1]) \o StrIfAny(kvs[i][2]) = <<Str(ks[i]), Str(f[ks[i]])>>
    <3>1. StrIfAny(ks[i]) = <<Str(ks[i])>> /\ StrIfAny(f[ks[i]]) = <<Str(f[ks[i]])>>
      BY DEF StrIfAny, Keyed
    <3> DEFINE a == Str(ks[i])
               b == Str(f[ks[i]])
    <3>2. <<a>> \o <<b>> = <<a, b>>
      <4>1. a \in Token /\ b \in Token
        BY TokenFacts DEF Keyed
      <4> HIDE DEF a, b
      <4> QED
        BY <4>1, TwoJoined
    <3> QED
      BY <1>1, <3>1, <3>2
  <2> QED
    BY <1>1, <2>1 DEF PairTokens
<1>3. FlattenSeq(seqs) \in Seq(Token)
  BY TwoTokens, FlattenIsSeq
<1>4. EncodeOmapGetvals(kvs) = <<Num(n)>> \o FlattenSeq(seqs) \o <<Flag>>
  BY <1>1, <1>2 DEF EncodeOmapGetvals
<1> HIDE DEF seqs
<1> DEFINE bl == <<>> \o EncodeOmapGetvals(kvs)
           e == <<Flag>>
<1>5. bl = <<Num(n)>> \o FlattenSeq(seqs) \o e /\ e \in Seq(Token) /\ Len(e) = 1 /\ e[1] = Flag
  <2>1. <<Num(n)>> \in Seq(Token) /\ <<Flag>> \in Seq(Token)
    BY TokenFacts
  <2>2. <<Num(n)>> \o FlattenSeq(seqs) \in Seq(Token)
    BY <1>3, <2>1, ConcatProperties
  <2>3. <<Num(n)>> \o FlattenSeq(seqs) \o <<Flag>> \in Seq(Token)
    BY <2>1, <2>2, ConcatProperties
  <2> DEFINE x == <<Num(n)>> \o FlattenSeq(seqs) \o <<Flag>>
  <2> HIDE DEF x
  <2>4. <<>> \o x = x
    BY <2>3, ConcatEmptySeq DEF x
  <2> QED
    BY <1>4, <2>1, <2>4 DEF x
<1> HIDE DEF bl, e
<1>6. /\ bl \in Seq(Token) /\ MapLayout(bl, ks, ValuesOf(f, ks, n), n) /\ Len(bl) \in Nat
      /\ Len(bl) = 2 * n + 1 + Len(e) /\ \A i \in 1..Len(e) : bl[2 * n + 1 + i] = e[i]
  <2>1. MapTokens(bl, f, ks, n, e)
    BY <1>5 DEF seqs, MapTokens
  <2>2. e \in Seq(Token)
    BY <1>5
  <2>3. bl \in Seq(Token) /\ MapLayout(bl, ks, ValuesOf(f, ks, n), n)
    BY <2>1, <2>2, MapFrame, Zenon
  <2>4. Len(bl) = 2 * n + 1 + Len(e)
    BY <2>1, <2>2, MapFrame
  <2>5. \A i \in 1..Len(e) : bl[2 * n + 1 + i] = e[i]
    BY <2>1, <2>2, MapFrame
  <2>6. Len(bl) \in Nat
    BY <2>3
  <2> QED
    BY <2>3, <2>4, <2>5, <2>6, Zenon
<1>7. HasStrings(bl, 2, 2 * n)
  BY <1>6, MapStrings
<1>8. MapAt(bl, n) = MapOf(f, ks, n)
  BY <1>6, MapDecodes
<1>9. bl[1][2] = n
  BY <1>6 DEF MapLayout
<1>10. Len(bl) >= 2 * n + 2 /\ bl[2 * n + 2] = Flag
  <2>1. 1 \in 1..Len(e) /\ 2 * n + 1 + 1 = 2 * n + 2
    BY <1>5
  <2>2. bl[2 * n + 1 + 1] = Flag
    BY <1>5, <1>6, <2>1
  <2>3. Len(bl) = 2 * n + 1 + 1
    BY <1>5, <1>6
  <2> QED
    BY <2>1, <2>2, <2>3
<1>11. DecodeVals(bl) = Ok(MapOf(f, ks, n))
  BY <1>7, <1>8, <1>9, <1>10 DEF DecodeVals
<1> QED
  BY <1>11 DEF bl, kvs

\* One token or two for each pair, and one for the p-th.
OneOrTwo(seqs, n, p) ==
  /\ \A i \in 1..n : Len(At(seqs, i)) \in 1..2
  /\ Len(At(seqs, p)) = 1

LEMMA FlattenShort ==
  ASSUME NEW seqs \in Seq(Seq(Token)), NEW n \in Nat, Len(seqs) = n, NEW p \in 1..n, OneOrTwo(seqs, n, p)
  PROVE  FlattenSeq(seqs) \in Seq(Token) /\ Len(FlattenSeq(seqs)) < 2 * n
<1> DEFINE all == FlattenSeq(seqs)
<1>1. all \in Seq(Token)
  BY FlattenIsSeq
<1>2. PICK start : Layout(start, seqs, all, n)
  BY FlattenLayout
<1> HIDE DEF all
<1>3. /\ start[1] = 0 /\ start[n + 1] = Len(all) /\ \A i \in 1..(n + 1) : start[i] \in Nat
      /\ \A i \in 1..n : start[i + 1] = start[i] + Len(At(seqs, i))
  BY <1>2 DEF Layout
<1>4. (\A i \in 1..n : Len(At(seqs, i)) \in 1..2) /\ Len(At(seqs, p)) = 1
  BY DEF OneOrTwo
<1> DEFINE Bound(i) == IF i < p THEN 2 * i ELSE 2 * i - 1
           T == {i \in Nat : i <= n => start[i + 1] <= Bound(i)}
<1>5. 0 \in T
  <2>1. 0 \in Nat /\ 0 < p /\ start[0 + 1] <= 2 * 0
    BY <1>3
  <2> QED
    BY <2>1
<1>6. ASSUME NEW i \in T PROVE i + 1 \in T
  <2> SUFFICES ASSUME i + 1 <= n PROVE start[(i + 1) + 1] <= Bound(i + 1)
    OBVIOUS
  <2>1. i \in Nat /\ i + 1 \in 1..n /\ i + 1 \in 1..(n + 1)
    OBVIOUS
  <2>2. start[i + 1] \in Nat /\ start[i + 1] <= Bound(i)
    BY <1>3, <2>1
  <2> DEFINE l == Len(At(seqs, i + 1))
  <2>3. l \in 1..2 /\ (i + 1 = p => l = 1) /\ start[(i + 1) + 1] = start[i + 1] + l
    BY <1>3, <1>4, <2>1
  <2> DEFINE a == start[i + 1]
             b == start[(i + 1) + 1]
  <2>4. a \in Nat /\ a <= Bound(i) /\ b = a + l
    BY <2>2, <2>3
  <2> HIDE DEF l, a, b
  <2>5. b <= Bound(i + 1)
    <3>1. CASE i + 1 < p
      BY <2>1, <2>3, <2>4, <3>1
    <3>2. CASE i + 1 = p
      BY <2>1, <2>3, <2>4, <3>2
    <3>3. CASE i + 1 > p
      BY <2>1, <2>3, <2>4, <3>3
    <3> QED
      BY <2>1, <3>1, <3>2, <3>3
  <2> QED
    BY <2>5 DEF b
<1>7. n \in T
  <2>1. T \in SUBSET Nat
    OBVIOUS
  <2> HIDE DEF T
  <2> QED
    BY <1>5, <1>6, <2>1, SetInduction
<1>8. Len(all) <= Bound(n)
  BY <1>3, <1>7
<1>9. Len(all) < 2 * n
  <2>1. Len(all) \in Nat /\ ~(n < p)
    BY <1>1
  <2> QED
    BY <1>8, <2>1
<1> QED
  BY <1>1, <1>9 DEF all

\* ... and with an empty one the decoder runs into the flag or over the end.
LEMMA MissingValue ==
  ASSUME NEW f, NEW ks, NEW n \in Nat, Keyed(f, ks, n), NEW p \in 1..n, f[ks[p]] = 0
  PROVE  DecodeVals(<<>> \o EncodeOmapGetvals(PairsOf(f, ks, n))) = EIO
<1> DEFINE kvs == PairsOf(f, ks, n)
           P(i) == StrIfAny(ks[i]) \o StrIfAny(f[ks[i]])
           seqs == [i \in 1..n |-> P(i)]
           B == Seq(Token)
<1>1. Len(kvs) = n /\ DOMAIN kvs = 1..n /\ \A i \in 1..n : kvs[i][1] = ks[i] /\ kvs[i][2] = f[ks[i]]
  BY PairsOfFacts
<1> HIDE DEF kvs
<1>2. [i \in DOMAIN kvs |-> StrIfAny(kvs[i][1]) \o StrIfAny(kvs[i][2])] = seqs
  BY <1>1
<1>3. ASSUME NEW i \in 1..n
      PROVE  P(i) \in B /\ Len(P(i)) \in 1..2 /\ (f[ks[i]] = 0 => Len(P(i)) = 1)
  <2> DEFINE k == ks[i]
             v == f[ks[i]]
  <2>1. k \in Nat \ {0} /\ v \in Nat
    BY DEF Keyed
  <2> HIDE DEF k, v
  <2>2. StrIfAny(k) \in Seq(Token) /\ Len(StrIfAny(k)) = 1
    BY <2>1, TokenFacts DEF StrIfAny
  <2>3. /\ StrIfAny(v) \in Seq(Token) /\ Len(StrIfAny(v)) \in 0..1
        /\ v = 0 => Len(StrIfAny(v)) = 0
    BY <2>1, TokenFacts DEF StrIfAny
  <2>4. /\ StrIfAny(k) \o StrIfAny(v) \in Seq(Token)
        /\ Len(StrIfAny(k) \o StrIfAny(v)) = Len(StrIfAny(k)) + Len(StrIfAny(v))
    BY <2>2, <2>3, ConcatProperties
  <2>5. Len(StrIfAny(k) \o StrIfAny(v)) \in 1..2 /\ (v = 0 => Len(StrIfAny(k) \o StrIfAny(v)) = 1)
    BY <2>2, <2>3, <2>4
  <2> QED
    BY <2>4, <2>5 DEF k, v
<1> HIDE DEF P
<1>4. seqs \in Seq(Seq(Token)) /\ Len(seqs) = n /\ OneOrTwo(seqs, n, p)
  <2> HIDE DEF B
  <2>1. \A i \in 1..n : P(i) \in B
    BY <1>3
  <2>2. [i \in 1..n |-> P(i)] \in Seq(B) /\ Len([i \in 1..n |-> P(i)]) = n
    BY <2>1
  <2>3. \A i \in 1..n : At(seqs, i) = P(i)
    BY DEF At
  <2>4. OneOrTwo(seqs, n, p)
    BY <1>3, <2>3 DEF OneOrTwo
  <2> QED
    BY <2>2, <2>4 DEF B
<1> HIDE DEF seqs, B
<1> DEFINE all == FlattenSeq(seqs)
           g == <<Num(n)>>
           e == <<Flag>>
           bl == <<>> \o EncodeOmapGetvals(kvs)
<1>5. all \in Seq(Token) /\ Len(all) < 2 * n /\ Len(all) \in Nat
  BY <1>4, FlattenShort
<1>6. EncodeOmapGetvals(kvs) = g \o all \o e
  BY <1>1, <1>2 DEF EncodeOmapGetvals
<1>7. g \in Seq(Token) /\ Len(g) = 1 /\ g[1][2] = n /\ e \in Seq(Token) /\ Len(e) = 1 /\ e[1][1] # "str"
  BY TokenFacts
<1> HIDE DEF all, g, e
<1>8. /\ g \o all \o e \in Seq(Token)
      /\ Len(g \o all \o e) = 1 + Len(all) + Len(e)
      /\ (g \o all \o e)[1] = g[1]
      /\ \A i \in 1..Len(e) : (g \o all \o e)[Len(all) + 1 + i] = e[i]
  <2>1. g \in Seq(Token) /\ Len(g) = 1 /\ all \in Seq(Token) /\ e \in Seq(Token)
    BY <1>5, <1>7
  <2>2. /\ g \o all \o e \in Seq(Token)
        /\ Len(g \o all \o e) = 1 + Len(all) + Len(e)
        /\ (g \o all \o e)[1] = g[1]
        /\ \A i \in 1..Len(all) : (g \o all \o e)[i + 1] = all[i]
        /\ \A i \in 1..Len(e) : (g \o all \o e)[Len(all) + 1 + i] = e[i]
    BY <2>1, Framed, Zenon
  <2> QED
    BY <2>2, Zenon
<1> DEFINE x == g \o all \o e
<1>9. <<>> \o x = x
  BY <1>8, ConcatEmptySeq
<1>10. bl = x
  BY <1>6, <1>9
<1>11. Len(x) = Len(all) + 2 /\ x[1][2] = n /\ x[Len(all) + 2][1] # "str"
  <2> HIDE DEF x
  <2>1. 1 \in 1..Len(e) /\ Len(all) + 1 + 1 = Len(all) + 2
    BY <1>5, <1>7
  <2>2. x[Len(all) + 1 + 1] = e[1]
    BY <1>8, <2>1 DEF x
  <2>3. x[Len(all) + 2][1] # "str"
    BY <1>7, <2>1, <2>2
  <2>4. Len(x) = 1 + Len(all) + 1
    BY <1>7, <1>8 DEF x
  <2>5. x[1][2] = n
    BY <1>7, <1>8 DEF x
  <2> QED
    BY <1>5, <2>3, <2>4, <2>5
<1> HIDE DEF x
<1>12. ~HasStrings(x, 2, 2 * n)
  <2> SUFFICES ASSUME HasStrings(x, 2, 2 * n) PROVE FALSE
    OBVIOUS
  <2>1. Len(x) >= 2 + 2 * n - 1 /\ \A j \in 2..(2 + 2 * n - 1) : x[j][1] = "str"
    BY DEF HasStrings
  <2> DEFINE j == Len(all) + 2
  <2>2. j \in 2..(2 + 2 * n - 1)
    BY <1>5, <1>11, <2>1
  <2> HIDE DEF j
  <2>3. x[j][1] = "str"
    BY <2>1, <2>2
  <2> QED
    BY <1>11, <2>3 DEF j
<1>13. DecodeVals(x) = EIO
  BY <1>11, <1>12 DEF DecodeVals
<1> QED
  BY <1>10, <1>13 DEF kvs
-----------------------------------------------------------------------------
(* The other encodings.                                                    *)

KeyTokens(ks, n) == [i \in 1..n |-> Str(ks[i])]

\* Keys come out as they went in.
LEMMA KeysRoundTrip ==
  ASSUME NEW ks, NEW n \in Nat, \A i \in 1..n : ks[i] \in Nat,
         NEW keys, keys = [i \in 1..n |-> ks[i]]
  PROVE  DecodeKeys(<<>> \o EncodeOmapGetkeys(keys)) = Ok({ks[i] : i \in 1..n})
<1> DEFINE all == KeyTokens(ks, n)
           g == <<Num(n)>>
           e == <<Flag>>
<1>1. Len(keys) = n /\ DOMAIN keys = 1..n /\ \A i \in 1..n : keys[i] = ks[i]
  OBVIOUS
<1>2. [i \in DOMAIN keys |-> Str(keys[i])] = all
  BY <1>1 DEF KeyTokens
<1>3. all \in Seq(Token) /\ Len(all) = n /\ \A i \in 1..n : all[i] = Str(ks[i])
  <2>1. \A i \in 1..n : Str(ks[i]) \in Token
    BY TokenFacts
  <2> DEFINE P(i) == Str(ks[i])
  <2>2. all = [i \in 1..n |-> P(i)] /\ \A i \in 1..n : P(i) \in Token
    BY <2>1 DEF KeyTokens
  <2> HIDE DEF P, all
  <2>3. [i \in 1..n |-> P(i)] \in Seq(Token) /\ Len([i \in 1..n |-> P(i)]) = n
    BY <2>2
  <2>4. \A i \in 1..n : all[i] = P(i)
    BY <2>2
  <2> QED
    BY <2>2, <2>3, <2>4 DEF P
<1>4. EncodeOmapGetkeys(keys) = g \o all \o e
  BY <1>1, <1>2 DEF EncodeOmapGetkeys
<1>5. g \in Seq(Token) /\ Len(g) = 1 /\ g[1][2] = n /\ e \in Seq(Token) /\ Len(e) = 1 /\ e[1] = Flag
  BY TokenFacts
<1> HIDE DEF all, g, e
<1>6. /\ g \o all \o e \in Seq(Token)
      /\ Len(g \o all \o e) = 1 + Len(all) + Len(e)
      /\ (g \o all \o e)[1] = g[1]
      /\ \A i \in 1..Len(all) : (g \o all \o e)[i + 1] = all[i]
      /\ \A i \in 1..Len(e) : (g \o all \o e)[Len(all) + 1 + i] = e[i]
  <2>1. g \in Seq(Token) /\ Len(g) = 1 /\ all \in Seq(Token) /\ e \in Seq(Token)
    BY <1>3, <1>5
  <2> QED
    BY <2>1, Framed, Zenon
<1> DEFINE x == g \o all \o e
<1>7. <<>> \o x = x
  BY <1>6, ConcatEmptySeq
<1>8. x \in Seq(Token) /\ Len(x) = n + 2 /\ x[1][2] = n /\ x[n + 2] = Flag
      /\ \A i \in 1..n : x[i + 1] = Str(ks[i])
  <2>1. Len(x) = n + 2 /\ x \in Seq(Token)
    BY <1>3, <1>5, <1>6
  <2>2. x[1][2] = n
    BY <1>5, <1>6
  <2>3. 1 \in 1..Len(e) /\ Len(all) + 1 + 1 = n + 2
    BY <1>3, <1>5
  <2>4. x[Len(all) + 1 + 1] = e[1]
    BY <1>6, <2>3
  <2>5. x[n + 2] = Flag
    BY <1>5, <2>3, <2>4
  <2>6. \A i \in 1..n : x[i + 1] = Str(ks[i])
    BY <1>3, <1>6
  <2> QED
    BY <2>1, <2>2, <2>5, <2>6
<1> HIDE DEF x
<1>9. ASSUME NEW j \in 2..(n + 1) PROVE x[j] = Str(ks[j - 1]) /\ j - 1 \in 1..n
  <2>1. j - 1 \in 1..n /\ (j - 1) + 1 = j
    OBVIOUS
  <2> QED
    BY <1>8, <2>1
<1>10. HasStrings(x, 2, n)
  <2>1. 2 + n - 1 = n + 1 /\ Len(x) >= n + 1
    BY <1>8
  <2>2. \A j \in 2..(n + 1) : x[j][1] = "str"
    BY <1>9, TokenFacts
  <2> QED
    BY <2>1, <2>2 DEF HasStrings
<1>11. {x[j][2] : j \in 2..(n + 1)} = {ks[i] : i \in 1..n}
  <2>1. \A j \in 2..(n + 1) : x[j][2] = ks[j - 1] /\ j - 1 \in 1..n
    BY <1>9, TokenFacts
  <2>2. \A i \in 1..n : i + 1 \in 2..(n + 1) /\ x[i + 1][2] = ks[i]
    BY <1>8, TokenFacts
  <2> DEFINE A(j) == x[j][2]
  <2>3. \A j \in 2..(n + 1) : A(j) = ks[j - 1] /\ j - 1 \in 1..n
    BY <2>1
  <2>4. \A i \in 1..n : i + 1 \in 2..(n + 1) /\ A(i + 1) = ks[i]
    BY <2>2
  <2> HIDE DEF A
  <2>5. \A k : k \in {A(j) : j \in 2..(n + 1)} <=> k \in {ks[i] : i \in 1..n}
    BY <2>3, <2>4
  <2>6. {A(j) : j \in 2..(n + 1)} = {ks[i] : i \in 1..n}
    BY <2>5
  <2> QED
    BY <2>6 DEF A
<1>12. DecodeKeys(x) = Ok({x[j][2] : j \in 2..(n + 1)})
  <2>1. Len(x) >= n + 2
    BY <1>8
  <2> QED
    BY <1>8, <1>10, <2>1 DEF DecodeKeys
<1>13. DecodeKeys(x) = Ok({ks[i] : i \in 1..n})
  BY <1>11, <1>12, Zenon
<1>14. <<>> \o EncodeOmapGetkeys(keys) = x
  BY <1>4, <1>7 DEF x
<1> QED
  BY <1>13, <1>14, Zenon

\* So do the bytes of an answer that is not encoded.
LEMMA RawRoundTrip ==
  ASSUME NEW v \in Int
  PROVE  DecodeRaw(<<>> \o <<Raw(v)>>) = Ok(<<v>>)
<1> DEFINE bl == <<>> \o <<Raw(v)>>
           e == <<>>
           p == <<v>>
<1>1. bl = <<Raw(v)>>
  OBVIOUS
<1>2. [i \in DOMAIN bl |-> <<bl[i][2]>>] = <<p>>
  BY <1>1, TokenFacts
<1>3. e \in Seq(Seq(Int)) /\ p \in Seq(Int) /\ Append(e, p) = <<p>> /\ Len(e) = 0
  OBVIOUS
<1>4. FlattenSeq(<<p>>) = p
  <2> HIDE DEF p
  <2>1. FlattenSeq(Append(e, p)) = FlattenSeq(e) \o p
    BY <1>3, FlattenAppend
  <2>2. FlattenSeq(e) = <<>>
    <3>1. PICK f : Parts(f, e, Len(e)) /\ At(f, Len(e)) = FlattenSeq(e)
      BY <1>3, FlattenSplit, Zenon
    <3> QED
      BY <1>3, <3>1 DEF Parts
  <2> QED
    BY <1>3, <2>1, <2>2, ConcatEmptySeq
<1>5. DecodeRaw(bl) = Ok(FlattenSeq([i \in DOMAIN bl |-> <<bl[i][2]>>]))
  BY DEF DecodeRaw
<1> QED
  BY <1>2, <1>4, <1>5
-----------------------------------------------------------------------------
(* What a reading call decodes is what the object holds.                   *)

\* A map from keys of D to values.
Table(f, D) ==
  /\ DOMAIN f \subseteq D
  /\ \A k \in DOMAIN f : f[k] \in Nat
  /\ f = [k \in DOMAIN f |-> f[k]]

IsObject(o) ==
  \E d, h, m, a :
    /\ d \in Int /\ h \in Nat /\ Table(m, Keys) /\ Table(a, {1})
    /\ o = [data |-> d, omap |-> m, header |-> h, attrs |-> a]

\* What an object is made of.
LEMMA ObjectParts ==
  ASSUME NEW o, IsObject(o)
  PROVE  o.data \in Int /\ o.header \in Nat /\ Table(o.omap, Keys) /\ Table(o.attrs, {1})
<1>1. PICK d, h, m, a :
        d \in Int /\ h \in Nat /\ Table(m, Keys) /\ Table(a, {1}) /\ o = [data |-> d, omap |-> m, header |-> h, attrs |-> a]
  BY DEF IsObject
<1>2. o.data = d /\ o.header = h /\ o.omap = m /\ o.attrs = a
  BY <1>1
<1> QED
  BY <1>1, <1>2

\* The keys of a finite map in order have the values of the map.
LEMMA SortedKeyed ==
  ASSUME NEW f, NEW D, D \subseteq Nat \ {0}, Table(f, D), NEW S \in SUBSET DOMAIN f, IsFiniteSet(S),
         NEW n \in 0..Cardinality(S)
  PROVE  Keyed(f, InOrder(S), n)
<1> DEFINE s == InOrder(S)
<1>1. DOMAIN f \subseteq Nat \ {0} /\ \A k \in DOMAIN f : f[k] \in Nat
  BY DEF Table
<1>2. S \in SUBSET Nat
  BY <1>1
<1>3. Sorted(s, S) /\ Cardinality(S) \in Nat
  BY <1>2, InOrderSorted
<1> HIDE DEF s
<1>4. /\ \A i \in 1..Cardinality(S) : s[i] \in S
      /\ \A i, j \in 1..Cardinality(S) : i < j => s[i] < s[j]
  BY <1>3 DEF Sorted
<1>5. \A i \in 1..n : i \in 1..Cardinality(S)
  BY <1>3
<1>6. \A i \in 1..n : s[i] \in S /\ s[i] \in Nat /\ s[i] \in Nat \ {0} /\ f[s[i]] \in Nat
  BY <1>1, <1>4, <1>5
<1>7. \A i, j \in 1..n : s[i] = s[j] => i = j
  <2> SUFFICES ASSUME NEW i \in 1..n, NEW j \in 1..n, s[i] = s[j], i # j PROVE FALSE
    OBVIOUS
  <2>1. i < j \/ j < i
    OBVIOUS
  <2>2. s[i] < s[j] \/ s[j] < s[i]
    BY <1>4, <1>5, <2>1
  <2>3. s[i] \in Nat
    BY <1>6
  <2> QED
    BY <2>2, <2>3
<1> QED
  BY <1>6, <1>7 DEF Keyed, s

\* A whole map comes out as it went in.
LEMMA TableRoundTrip ==
  ASSUME NEW f, NEW D, D \subseteq Nat \ {0}, IsFiniteSet(D), Table(f, D)
  PROVE  DecodeMap(<<>> \o EncodeMap(Pairs(f))) = Ok(f)
<1> DEFINE S == DOMAIN f
           s == InOrder(S)
           n == Cardinality(S)
<1>1. S \in SUBSET DOMAIN f /\ IsFiniteSet(S) /\ S \in SUBSET Nat
  <2>1. DOMAIN f \subseteq D
    BY DEF Table
  <2>2. IsFiniteSet(DOMAIN f)
    BY <2>1, FS_Subset
  <2> QED
    BY <2>1, <2>2
<1>2. Sorted(s, S) /\ n \in Nat
  BY <1>1, InOrderSorted
<1>3. Keyed(f, s, n)
  <2>1. n \in 0..Cardinality(S)
    BY <1>2
  <2> QED
    BY <1>1, <2>1, SortedKeyed
<1>4. DecodeMap(<<>> \o EncodeMap(PairsOf(f, s, n))) = Ok(MapOf(f, s, n))
  BY <1>2, <1>3, MapRoundTrip
<1>5. {s[i] : i \in 1..n} = S
  <2>1. (\A i \in 1..n : s[i] \in S) /\ \A k \in S : \E i \in 1..n : s[i] = k
    BY <1>2 DEF Sorted
  <2> HIDE DEF s, S, n
  <2> QED
    BY <2>1
<1>6. MapOf(f, s, n) = f
  <2>1. MapOf(f, s, n) = [k \in S |-> f[k]]
    BY <1>5 DEF MapOf
  <2> QED
    BY <2>1 DEF Table
<1> QED
  BY <1>4, <1>6 DEF Pairs

\* What a listing should have: keys after the start, at most max of them.
Wanted(f, start, max) ==
  {k \in DOMAIN f : k > start /\ Cardinality({j \in DOMAIN f : start < j /\ j < k}) < max}

\* The cache lists the first n of the keys ks, and those are the wanted ones.
ListsWanted(o, arg, ks, n) ==
  /\ Listed(o, arg) = PairsOf(o.omap, ks, n)
  /\ Keyed(o.omap, ks, n)
  /\ {ks[i] : i \in 1..n} = Wanted(o.omap, arg.start, arg.max)

LEMMA ListedWanted ==
  ASSUME NEW o, Table(o.omap, Keys), NEW arg, arg.start \in Nat, arg.max \in Nat
  PROVE  \E n \in Nat : \E ks : ListsWanted(o, arg, ks, n)
<1> DEFINE f == o.omap
           start == arg.start
           max == arg.max
           S == {k \in DOMAIN f : k > start}
           s == InOrder(S)
           n == IF Cardinality(S) < max THEN Cardinality(S) ELSE max
<1>1. S \in SUBSET DOMAIN f /\ IsFiniteSet(S) /\ S \in SUBSET Nat /\ DOMAIN f \subseteq Nat
  <2>1. DOMAIN f \subseteq Keys /\ Keys \subseteq Nat \ {0} /\ IsFiniteSet(Keys)
    BY ApiAssumption DEF Table
  <2>2. S \subseteq Keys
    BY <2>1
  <2>3. IsFiniteSet(S)
    BY <2>1, <2>2, FS_Subset
  <2> QED
    BY <2>1, <2>2, <2>3
<1>2. Sorted(s, S) /\ Cardinality(S) \in Nat
  BY <1>1, InOrderSorted
<1>a. Listed(o, arg) = PairsOf(f, s, n)
  BY DEF Listed
<1>b. max \in Nat /\ start \in Nat
  OBVIOUS
<1> HIDE DEF f, max, start
<1>3. /\ n \in 0..Cardinality(S)
      /\ \A k : (\E i \in 1..n : s[i] = k) <=> k \in S /\ Before(S, k) < max
  <2> HIDE DEF S, s
  <2> DEFINE m == n
  <2>1. m = AtMost(Cardinality(S), max)
    BY DEF AtMost
  <2> HIDE DEF m
  <2>2. m \in 0..Cardinality(S) /\ Firsts(s, m, S, max)
    <3>1. S \in SUBSET Nat /\ IsFiniteSet(S) /\ Sorted(s, S) /\ max \in Nat
      BY <1>1, <1>2, <1>b
    <3> QED
      BY <2>1, <3>1, FirstKeys
  <2> QED
    BY <2>2 DEF m, Firsts
<1> HIDE DEF n
<1>4. n \in Nat
  BY <1>2, <1>3
<1>5. Keyed(f, s, n)
  <2>1. Table(f, Keys) /\ Keys \subseteq Nat \ {0}
    BY ApiAssumption DEF f
  <2> HIDE DEF S
  <2> QED
    BY <1>1, <1>3, <2>1, SortedKeyed
<1>6. \A k \in S : {j \in S : j < k} = {j \in DOMAIN f : start < j /\ j < k}
  BY <1>1, <1>b
<1>7. \A k : k \in {s[i] : i \in 1..n} <=> k \in Wanted(f, start, max)
  <2>1. \A k : k \in Wanted(f, start, max)
               <=> k \in S /\ Cardinality({j \in DOMAIN f : start < j /\ j < k}) < max
    BY DEF Wanted
  <2> HIDE DEF S
  <2> QED
    BY <1>3, <1>6, <2>1 DEF Before
<1>8. {s[i] : i \in 1..n} = Wanted(f, start, max)
  BY <1>7
<1>9. ListsWanted(o, arg, s, n)
  BY <1>a, <1>5, <1>8 DEF f, start, max, ListsWanted
<1> QED
  BY <1>4, <1>9

\* Decoding the answer for o gives what it should.
Exact(c, o) == Decoded(c, <<>> \o Answer(c, o)) = Reference(c, o)

\* cls_getxattr, cls_cxx_stat, cls_cxx_read2 and cls_cxx_map_read_header.
LEMMA OneValueExact ==
  ASSUME NEW c, NEW o, IsObject(o), CanAnswer(c, o),
         c.sub \in {"GETXATTR", "STAT", "SYNC_READ", "OMAPGETHEADER"}
  PROVE  Exact(c, o)
<1>0. o.data \in Int /\ o.header \in Nat /\ Table(o.attrs, {1})
  BY ObjectParts
<1>1. CASE c.sub = "GETXATTR"
  <2> DEFINE v == o.attrs[c.arg]
  <2>1. v \in Nat
    BY <1>0, <1>1 DEF CanAnswer, Table
  <2>2. Answer(c, o) = EncodeXattrGetXattr(<<<<c.arg, v>>>>)
    BY <1>1 DEF Answer
  <2> HIDE DEF v
  <2>3. EncodeXattrGetXattr(<<<<c.arg, v>>>>) = <<Raw(v)>>
    BY DEF EncodeXattrGetXattr
  <2>4. DecodeRaw(<<>> \o <<Raw(v)>>) = Ok(<<v>>)
    BY <2>1, RawRoundTrip
  <2>5. Decoded(c, <<>> \o Answer(c, o)) = DecodeRaw(<<>> \o Answer(c, o))
    BY <1>1 DEF Decoded
  <2>6. Reference(c, o) = Ok(<<v>>)
    BY <1>1 DEF Reference, v
  <2> QED
    BY <2>2, <2>3, <2>4, <2>5, <2>6 DEF Exact
<1>2. CASE c.sub = "STAT"
  <2>1. Answer(c, o) = EncodeGetOpstat(o.data)
    BY <1>2 DEF Answer
  <2>2. Decoded(c, <<>> \o EncodeGetOpstat(o.data)) = DecodeStat(<<>> \o EncodeGetOpstat(o.data))
    BY <1>2 DEF Decoded
  <2>3. DecodeStat(<<>> \o EncodeGetOpstat(o.data)) = Ok(o.data)
    BY DEF DecodeStat, EncodeGetOpstat, Num
  <2>4. Reference(c, o) = Ok(o.data)
    BY <1>2 DEF Reference
  <2> QED
    BY <2>1, <2>2, <2>3, <2>4 DEF Exact
<1>3. CASE c.sub = "SYNC_READ"
  <2> DEFINE v == o.data
  <2>1. Answer(c, o) = <<Raw(v)>>
    BY <1>3 DEF Answer, EncodeRead
  <2>2. Decoded(c, <<>> \o Answer(c, o)) = DecodeRaw(<<>> \o Answer(c, o))
    BY <1>3 DEF Decoded
  <2>3. Reference(c, o) = Ok(<<v>>)
    BY <1>3 DEF Reference
  <2>4. DecodeRaw(<<>> \o <<Raw(v)>>) = Ok(<<v>>)
    BY <1>0, RawRoundTrip
  <2> QED
    BY <2>1, <2>2, <2>3, <2>4 DEF Exact
<1>4. CASE c.sub = "OMAPGETHEADER"
  <2> DEFINE v == o.header
  <2>1. Answer(c, o) = <<Raw(v)>>
    BY <1>4 DEF Answer, EncodeRead
  <2>2. Decoded(c, <<>> \o Answer(c, o)) = DecodeRaw(<<>> \o Answer(c, o))
    BY <1>4 DEF Decoded
  <2>3. Reference(c, o) = Ok(<<v>>)
    BY <1>4 DEF Reference
  <2>4. DecodeRaw(<<>> \o <<Raw(v)>>) = Ok(<<v>>)
    BY <1>0, RawRoundTrip
  <2> QED
    BY <2>1, <2>2, <2>3, <2>4 DEF Exact
<1> QED
  BY <1>1, <1>2, <1>3, <1>4

\* cls_cxx_getxattrs.
LEMMA GetxattrsExact ==
  ASSUME NEW c, NEW o, IsObject(o), c.sub = "GETXATTRS"
  PROVE  Exact(c, o)
<1> DEFINE f == o.attrs
           D == {1}
<1>1. Table(f, D) /\ D \subseteq Nat \ {0} /\ IsFiniteSet(D)
  <2>1. Table(o.attrs, {1})
    BY ObjectParts
  <2>2. IsFiniteSet({1})
    BY FS_Singleton
  <2> QED
    BY <2>1, <2>2
<1>2. Answer(c, o) = EncodeMap(Pairs(f))
  BY DEF Answer, EncodeXattrGetXattrs
<1>3. Decoded(c, <<>> \o Answer(c, o)) = DecodeMap(<<>> \o Answer(c, o))
  BY DEF Decoded
<1>4. Reference(c, o) = Ok(f)
  BY DEF Reference
<1> HIDE DEF f, D
<1>5. DecodeMap(<<>> \o EncodeMap(Pairs(f))) = Ok(f)
  BY <1>1, TableRoundTrip
<1> QED
  BY <1>2, <1>3, <1>4, <1>5 DEF Exact

\* cls_cxx_map_get_val takes the first entry, and that is the one asked for.
LEMMA GetValExact ==
  ASSUME NEW c, NEW o, IsObject(o), c.sub = "OMAPGETVALSBYKEYS"
  PROVE  Exact(c, o)
<1> DEFINE m == o.omap
           a == c.arg
           f == [k \in DOMAIN m \cap {a} |-> m[k]]
           bl == <<>> \o EncodeMap(Pairs(f))
<1>1. Keys \subseteq Nat \ {0} /\ IsFiniteSet(Keys)
  BY ApiAssumption
<1>2. DOMAIN m \subseteq Keys /\ \A k \in DOMAIN m : m[k] \in Nat
  BY ObjectParts DEF Table
<1>3. Answer(c, o) = EncodeMap(Pairs(f))
  BY DEF Answer, EncodeOmapGetvalsbykeys
<1>4. Decoded(c, <<>> \o Answer(c, o)) = DecodeVal(<<>> \o Answer(c, o))
  BY DEF Decoded
<1>5. Reference(c, o) = IF a \in DOMAIN m THEN Ok(m[a]) ELSE ENOENT
  BY DEF Reference
<1> HIDE DEF m, a
<1>6. DOMAIN f = DOMAIN m \cap {a} /\ (\A k \in DOMAIN f : f[k] = m[k]) /\ f = [k \in DOMAIN f |-> f[k]]
  OBVIOUS
<1>7. Table(f, Keys)
  <2> HIDE DEF f
  <2>1. DOMAIN f \subseteq Keys /\ \A k \in DOMAIN f : f[k] \in Nat
    BY <1>2, <1>6
  <2> QED
    BY <1>6, <2>1 DEF Table
<1> HIDE DEF f
<1>8. DecodeMap(bl) = Ok(f)
  BY <1>1, <1>7, TableRoundTrip
<1> HIDE DEF bl
<1>9. Ok(f) # EIO /\ Ok(f).val = f
  BY DEF Ok, EIO
<1>10. CASE a \in DOMAIN m
  <2>1. DOMAIN f = {a} /\ f[a] = m[a] /\ a \in Nat
    BY <1>1, <1>2, <1>6, <1>10
  <2>2. DecodeVal(bl) = Ok(f[CHOOSE k \in DOMAIN f : \A j \in DOMAIN f : k <= j])
    BY <1>8, <1>9, <2>1 DEF DecodeVal
  <2>3. (CHOOSE k \in {a} : \A j \in {a} : k <= j) = a
    BY <2>1
  <2> QED
    BY <1>3, <1>4, <1>5, <1>10, <2>1, <2>2, <2>3 DEF Exact, bl
<1>11. CASE a \notin DOMAIN m
  <2>1. DOMAIN f = {}
    BY <1>6, <1>11
  <2>2. DecodeVal(bl) = ENOENT
    BY <1>8, <1>9, <2>1 DEF DecodeVal
  <2> QED
    BY <1>3, <1>4, <1>5, <1>11, <2>2 DEF Exact, bl
<1> QED
  BY <1>10, <1>11

\* cls_cxx_map_get_keys.
LEMMA GetKeysExact ==
  ASSUME NEW c, NEW o, IsObject(o), c.sub = "OMAPGETKEYS", c.arg.start \in Nat, c.arg.max \in Nat
  PROVE  Exact(c, o)
<1> DEFINE m == o.omap
           W == Wanted(m, c.arg.start, c.arg.max)
           list == Listed(o, c.arg)
           keys == [i \in DOMAIN list |-> list[i][1]]
<1>1. Table(m, Keys)
  BY ObjectParts
<1>2. PICK n \in Nat : \E ks : ListsWanted(o, c.arg, ks, n)
  BY <1>1, ListedWanted
<1>3. PICK ks : list = PairsOf(m, ks, n) /\ Keyed(m, ks, n) /\ {ks[i] : i \in 1..n} = W
  BY <1>2 DEF ListsWanted
<1>4. Answer(c, o) = EncodeOmapGetkeys(keys)
  BY DEF Answer
<1>5. Decoded(c, <<>> \o Answer(c, o)) = DecodeKeys(<<>> \o Answer(c, o))
  BY DEF Decoded
<1>6. Reference(c, o) = Ok(W)
  BY DEF Reference, Wanted
<1> HIDE DEF m, W, list
<1>7. keys = [i \in 1..n |-> ks[i]]
  <2>1. DOMAIN list = 1..n /\ \A i \in 1..n : list[i][1] = ks[i]
    BY <1>3, PairsOfFacts
  <2> QED
    BY <2>1
<1> HIDE DEF keys
<1>8. \A i \in 1..n : ks[i] \in Nat
  BY <1>3 DEF Keyed
<1>9. DecodeKeys(<<>> \o EncodeOmapGetkeys(keys)) = Ok({ks[i] : i \in 1..n})
  BY <1>7, <1>8, KeysRoundTrip
<1> QED
  BY <1>3, <1>4, <1>5, <1>6, <1>9 DEF Exact

\* cls_cxx_map_get_vals and cls_cxx_map_get_all_vals.
LEMMA GetValsExact ==
  ASSUME NEW c, NEW o, IsObject(o), c.sub = "OMAPGETVALS", c.arg.start \in Nat, c.arg.max \in Nat
  PROVE  Exact(c, o)
<1> DEFINE m == o.omap
           W == Wanted(m, c.arg.start, c.arg.max)
           list == Listed(o, c.arg)
<1>1. Table(m, Keys)
  BY ObjectParts
<1>2. PICK n \in Nat : \E ks : ListsWanted(o, c.arg, ks, n)
  BY <1>1, ListedWanted
<1>3. PICK ks : list = PairsOf(m, ks, n) /\ Keyed(m, ks, n) /\ {ks[i] : i \in 1..n} = W
  BY <1>2 DEF ListsWanted
<1>4. Answer(c, o) = EncodeOmapGetvals(list)
  BY DEF Answer
<1>5. Decoded(c, <<>> \o Answer(c, o)) = DecodeVals(<<>> \o Answer(c, o))
  BY DEF Decoded
<1>6. Reference(c, o) = IF \E k \in W : m[k] = 0 THEN EIO ELSE Ok([k \in W |-> m[k]])
  BY DEF Reference, Wanted
<1> HIDE DEF m, W, list
<1>7. CASE \E k \in W : m[k] = 0
  <2>1. PICK p \in 1..n : m[ks[p]] = 0
    BY <1>3, <1>7
  <2>2. DecodeVals(<<>> \o EncodeOmapGetvals(PairsOf(m, ks, n))) = EIO
    BY <1>3, <2>1, MissingValue
  <2> QED
    BY <1>3, <1>4, <1>5, <1>6, <1>7, <2>2 DEF Exact
<1>8. CASE ~\E k \in W : m[k] = 0
  <2>1. \A i \in 1..n : m[ks[i]] # 0
    BY <1>3, <1>8
  <2>2. DecodeVals(<<>> \o EncodeOmapGetvals(PairsOf(m, ks, n))) = Ok(MapOf(m, ks, n))
    BY <1>3, <2>1, ValsRoundTrip
  <2>3. MapOf(m, ks, n) = [k \in W |-> m[k]]
    BY <1>3 DEF MapOf
  <2> QED
    BY <1>3, <1>4, <1>5, <1>6, <1>8, <2>2, <2>3 DEF Exact
<1> QED
  BY <1>7, <1>8
-----------------------------------------------------------------------------
(* The object, and what the calls do to it.                                *)

PairsFine(kvs, D) == \A i \in DOMAIN kvs : kvs[i][1] \in D /\ kvs[i][2] \in Nat

\* What is needed of the reading and of the writing calls.
ReadShape(c) ==
  /\ c.swap = TRUE
  /\ \/ c.sub \in {"GETXATTR", "STAT", "SYNC_READ", "OMAPGETHEADER"}
     \/ c.sub = "GETXATTRS"
     \/ c.sub = "OMAPGETVALSBYKEYS"
     \/ c.sub \in {"OMAPGETKEYS", "OMAPGETVALS"} /\ c.arg.start \in Nat /\ c.arg.max \in Nat

WriteShape(c) ==
  /\ c.swap = FALSE
  /\ \/ c.sub \in {"CREATE", "DELETE", "OMAPCLEAR", "OMAPRMKEYS"}
     \/ c.sub \in {"WRITE", "WRITEFULL", "OMAPSETHEADER"} /\ c.arg \in Nat
     \/ c.sub = "SETXATTR" /\ PairsFine(c.arg, {1})
     \/ c.sub = "OMAPSETVALS" /\ PairsFine(c.arg, Keys)

\* The reading calls swap, ...
LEMMA ReadShapes == \A c \in ReadingCalls : ReadShape(c)
<1> SUFFICES ASSUME NEW c \in ReadingCalls PROVE ReadShape(c)
  OBVIOUS
<1> DEFINE S1 == {cls_getxattr(1), cls_cxx_stat, cls_cxx_stat2, cls_cxx_read2, cls_cxx_getxattr(1),
                  cls_cxx_getxattrs, cls_cxx_map_read_header}
           S0 == {cls_cxx_map_get_all_vals}
           S2 == {cls_cxx_map_get_keys(s, m) : s \in Keys \cup {0}, m \in {1, Cardinality(Keys)}}
           S3 == {cls_cxx_map_get_vals(s, m) : s \in Keys \cup {0}, m \in {1, Cardinality(Keys)}}
           S4 == {cls_cxx_map_get_val(k) : k \in Keys}
<1>0. c \in S0 \/ c \in S1 \/ c \in S2 \/ c \in S3 \/ c \in S4
  BY SMT DEF ReadingCalls
<1>a. Keys \cup {0} \subseteq Nat /\ {1, Cardinality(Keys)} \subseteq Nat /\ Cardinality(Keys) \in Nat /\ 0 \in Nat
  <2>1. Keys \subseteq Nat /\ IsFiniteSet(Keys)
    BY ApiAssumption
  <2>2. Cardinality(Keys) \in Nat
    BY <2>1, FS_CardinalityType
  <2> QED
    BY <2>1, <2>2
<1>b. ASSUME NEW s \in Nat, NEW m \in Nat
      PROVE  /\ ReadShape(Reading("OMAPGETKEYS", [start |-> s, max |-> m]))
             /\ ReadShape(Reading("OMAPGETVALS", [start |-> s, max |-> m]))
  <2> DEFINE a == [start |-> s, max |-> m]
  <2>1. a.start \in Nat /\ a.max \in Nat
    OBVIOUS
  <2> HIDE DEF a
  <2>2. ReadShape(Reading("OMAPGETKEYS", a)) /\ ReadShape(Reading("OMAPGETVALS", a))
    BY <2>1 DEF Reading, ReadShape
  <2> QED
    BY <2>2 DEF a
<1>1. ASSUME c \in S0 PROVE ReadShape(c)
  BY <1>1, <1>a, <1>b DEF cls_cxx_map_get_all_vals
<1>2. ASSUME c \in S1 PROVE ReadShape(c)
  <2>1. /\ c.sub \in {"GETXATTR", "STAT", "SYNC_READ", "OMAPGETHEADER"} \/ c.sub = "GETXATTRS"
        /\ c.swap = TRUE
    BY <1>2, SMT DEF cls_getxattr, cls_cxx_stat, cls_cxx_stat2, cls_cxx_read2, cls_cxx_getxattr,
       cls_cxx_getxattrs, cls_cxx_map_read_header, Reading
  <2> QED
    BY <2>1 DEF ReadShape
<1>3. ASSUME c \in S2 PROVE ReadShape(c)
  <2>1. PICK s \in Keys \cup {0}, m \in {1, Cardinality(Keys)} : c = cls_cxx_map_get_keys(s, m)
    BY <1>3, SMT
  <2>2. s \in Nat /\ m \in Nat
    BY <1>a
  <2> QED
    BY <1>b, <2>1, <2>2 DEF cls_cxx_map_get_keys
<1>4. ASSUME c \in S3 PROVE ReadShape(c)
  <2>1. PICK s \in Keys \cup {0}, m \in {1, Cardinality(Keys)} : c = cls_cxx_map_get_vals(s, m)
    BY <1>4, SMT
  <2>2. s \in Nat /\ m \in Nat
    BY <1>a
  <2> QED
    BY <1>b, <2>1, <2>2 DEF cls_cxx_map_get_vals
<1>5. ASSUME c \in S4 PROVE ReadShape(c)
  <2>1. PICK k : c = cls_cxx_map_get_val(k)
    BY <1>5, SMT
  <2> QED
    BY <2>1 DEF cls_cxx_map_get_val, Reading, ReadShape
<1> HIDE DEF S0, S1, S2, S3, S4
<1> QED
  BY <1>0, <1>1, <1>2, <1>3, <1>4, <1>5

\* The pairs of a map that the method gives.
LEMMA PairsOfMap ==
  ASSUME NEW m \in [Keys -> Values]
  PROVE  PairsFine(Pairs(m), Keys)
<1> DEFINE s == InOrder(Keys)
           n == Cardinality(Keys)
<1>1. Keys \in SUBSET Nat /\ IsFiniteSet(Keys) /\ Values \subseteq Nat
  BY ApiAssumption
<1>2. Sorted(s, Keys) /\ n \in Nat
  BY <1>1, InOrderSorted
<1>3. \A i \in 1..n : s[i] \in Keys
  BY <1>2 DEF Sorted
<1>4. Pairs(m) = PairsOf(m, s, n)
  BY DEF Pairs
<1> HIDE DEF s, n
<1>5. /\ DOMAIN PairsOf(m, s, n) = 1..n
      /\ \A i \in 1..n : PairsOf(m, s, n)[i][1] = s[i] /\ PairsOf(m, s, n)[i][2] = m[s[i]]
  BY <1>2, PairsOfFacts
<1>6. \A i \in 1..n : m[s[i]] \in Nat
  BY <1>1, <1>3
<1> QED
  BY <1>3, <1>4, <1>5, <1>6 DEF PairsFine

LEMMA OnePair ==
  ASSUME NEW D, NEW k \in D, NEW v \in Nat
  PROVE  PairsFine(<<<<k, v>>>>, D)
  BY DEF PairsFine

\* ... the writing calls do not, and have keys and values of the right kind.
LEMMA WriteShapes == \A c \in WritingCalls : WriteShape(c)
<1> SUFFICES ASSUME NEW c \in WritingCalls PROVE WriteShape(c)
  OBVIOUS
<1> DEFINE S1 == {cls_cxx_create, cls_cxx_remove, cls_cxx_map_clear}
           S2 == {cls_setxattr(1, v) : v \in Values}
           S3 == {cls_cxx_setxattr(1, v) : v \in Values}
           S4 == {cls_cxx_write2(v) : v \in Values}
           S5 == {cls_cxx_write_full(v) : v \in Values}
           S6 == {cls_cxx_map_write_header(v) : v \in Values}
           S7 == {cls_cxx_map_set_val(k, v) : k \in Keys, v \in Values}
           S8 == {cls_cxx_map_set_vals(m) : m \in [Keys -> Values]}
           S9 == {cls_cxx_map_remove_key(k) : k \in Keys}
<1>0. c \in S1 \/ c \in S2 \/ c \in S3 \/ c \in S4 \/ c \in S5 \/ c \in S6 \/ c \in S7 \/ c \in S8 \/ c \in S9
  BY SMT DEF WritingCalls
<1>a. Values \subseteq Nat
  BY ApiAssumption
<1>b. ASSUME NEW kvs
      PROVE  /\ PairsFine(kvs, {1}) => WriteShape(Writing("SETXATTR", kvs))
             /\ PairsFine(kvs, Keys) => WriteShape(Writing("OMAPSETVALS", kvs))
  BY DEF Writing, WriteShape
<1>c. ASSUME NEW v \in Nat
      PROVE  /\ WriteShape(Writing("WRITE", v)) /\ WriteShape(Writing("WRITEFULL", v))
             /\ WriteShape(Writing("OMAPSETHEADER", v))
  BY DEF Writing, WriteShape
<1>1. ASSUME c \in S1 PROVE WriteShape(c)
  BY <1>1 DEF cls_cxx_create, cls_cxx_remove, cls_cxx_map_clear, Writing, WriteShape
<1>2. ASSUME c \in S2 \/ c \in S3 PROVE WriteShape(c)
  <2>1. PICK v \in Values : c = cls_setxattr(1, v) \/ c = cls_cxx_setxattr(1, v)
    BY <1>2, SMT
  <2>2. c = Writing("SETXATTR", <<<<1, v>>>>)
    BY <2>1 DEF cls_setxattr, cls_cxx_setxattr
  <2>3. PairsFine(<<<<1, v>>>>, {1})
    BY <1>a, OnePair
  <2> QED
    BY <1>b, <2>2, <2>3
<1>3. ASSUME c \in S4 \/ c \in S5 \/ c \in S6 PROVE WriteShape(c)
  <2>1. PICK v \in Values : c = cls_cxx_write2(v) \/ c = cls_cxx_write_full(v) \/ c = cls_cxx_map_write_header(v)
    BY <1>3, SMT
  <2> QED
    BY <1>a, <1>c, <2>1 DEF cls_cxx_write2, cls_cxx_write_full, cls_cxx_map_write_header
<1>4. ASSUME c \in S7 PROVE WriteShape(c)
  <2>1. PICK k \in Keys, v \in Values : c = cls_cxx_map_set_val(k, v)
    BY <1>4, SMT
  <2>2. PairsFine(<<<<k, v>>>>, Keys)
    BY <1>a, OnePair
  <2> QED
    BY <1>b, <2>1, <2>2 DEF cls_cxx_map_set_val
<1>5. ASSUME c \in S8 PROVE WriteShape(c)
  <2>1. PICK m \in [Keys -> Values] : c = cls_cxx_map_set_vals(m)
    BY <1>5, SMT
  <2>2. PairsFine(Pairs(m), Keys)
    BY PairsOfMap
  <2> QED
    BY <1>b, <2>1, <2>2 DEF cls_cxx_map_set_vals
<1>6. ASSUME c \in S9 PROVE WriteShape(c)
  <2>1. PICK k : c = cls_cxx_map_remove_key(k)
    BY <1>6, SMT
  <2> QED
    BY <2>1 DEF cls_cxx_map_remove_key, Writing, WriteShape
<1> HIDE DEF S1, S2, S3, S4, S5, S6, S7, S8, S9
<1> QED
  BY <1>0, <1>1, <1>2, <1>3, <1>4, <1>5, <1>6

\* A reading call that the cache can answer is answered with what the object
\* holds, whatever it holds.
LEMMA ReadingCallExact ==
  ASSUME NEW c \in ReadingCalls, NEW o, IsObject(o), CanAnswer(c, o)
  PROVE  Decoded(c, <<>> \o Answer(c, o)) = Reference(c, o)
<1>1. ReadShape(c)
  BY ReadShapes
<1>2. Exact(c, o)
  <2>1. CASE c.sub \in {"GETXATTR", "STAT", "SYNC_READ", "OMAPGETHEADER"}
    BY <2>1, OneValueExact
  <2>2. CASE c.sub = "GETXATTRS"
    BY <2>2, GetxattrsExact
  <2>3. CASE c.sub = "OMAPGETVALSBYKEYS"
    BY <2>3, GetValExact
  <2>4. CASE c.sub = "OMAPGETKEYS" /\ c.arg.start \in Nat /\ c.arg.max \in Nat
    BY <2>4, GetKeysExact
  <2>5. CASE c.sub = "OMAPGETVALS" /\ c.arg.start \in Nat /\ c.arg.max \in Nat
    BY <2>5, GetValsExact
  <2> QED
    BY <1>1, <2>1, <2>2, <2>3, <2>4, <2>5 DEF ReadShape
<1> QED
  BY <1>2 DEF Exact

\* The maps of the object after a writing call.
LEMMA WithPairsTable ==
  ASSUME NEW f, NEW D, Table(f, D), NEW kvs, PairsFine(kvs, D)
  PROVE  Table(WithPairs(f, kvs), D)
<1> DEFINE dom == DOMAIN f \cup {kvs[i][1] : i \in DOMAIN kvs}
           At1(k) == kvs[CHOOSE i \in DOMAIN kvs : kvs[i][1] = k][2]
           E(k) == IF \E i \in DOMAIN kvs : kvs[i][1] = k THEN At1(k) ELSE f[k]
           w == [k \in dom |-> E(k)]
<1>1. /\ DOMAIN f \subseteq D /\ \A k \in DOMAIN f : f[k] \in Nat
      /\ \A i \in DOMAIN kvs : kvs[i][1] \in D /\ kvs[i][2] \in Nat
  BY DEF Table, PairsFine
<1>2. WithPairs(f, kvs) = w
  BY DEF WithPairs
<1>3. dom \subseteq D
  BY <1>1
<1>4. ASSUME NEW k \in dom PROVE E(k) \in Nat
  <2>1. CASE \E i \in DOMAIN kvs : kvs[i][1] = k
    <3>1. At1(k) \in Nat
      BY <1>1, <2>1
    <3> QED
      BY <2>1, <3>1
  <2>2. CASE ~\E i \in DOMAIN kvs : kvs[i][1] = k
    BY <1>1, <2>2
  <2> QED
    BY <2>1, <2>2
<1> HIDE DEF E, dom
<1>5. DOMAIN w = dom /\ (\A k \in dom : w[k] = E(k)) /\ w = [k \in DOMAIN w |-> w[k]]
  OBVIOUS
<1> HIDE DEF w
<1>6. Table(w, D)
  BY <1>3, <1>4, <1>5 DEF Table
<1> QED
  BY <1>2, <1>6

LEMMA WithoutKeyTable ==
  ASSUME NEW f, NEW D, Table(f, D), NEW a
  PROVE  Table([k \in DOMAIN f \ {a} |-> f[k]], D)
<1> DEFINE dom == DOMAIN f \ {a}
           w == [k \in dom |-> f[k]]
<1>1. DOMAIN f \subseteq D /\ \A k \in DOMAIN f : f[k] \in Nat
  BY DEF Table
<1>2. dom \subseteq D /\ \A k \in dom : f[k] \in Nat
  BY <1>1
<1>3. DOMAIN w = dom /\ (\A k \in dom : w[k] = f[k]) /\ w = [k \in DOMAIN w |-> w[k]]
  OBVIOUS
<1> HIDE DEF w, dom
<1>4. Table(w, D)
  BY <1>2, <1>3 DEF Table
<1> QED
  BY <1>4 DEF w, dom

LEMMA EmptyTable == \A D : Table(<<>>, D)
  BY DEF Table

LEMMA NoObjectIsObject == IsObject(NoObject)
<1>1. Table(<<>>, Keys) /\ Table(<<>>, {1})
  BY EmptyTable
<1> DEFINE d == -1
           h == 0
           m == <<>>
<1>2. d \in Int /\ h \in Nat /\ Table(m, Keys) /\ Table(m, {1})
  BY <1>1
<1>3. NoObject = [data |-> d, omap |-> m, header |-> h, attrs |-> m]
  BY DEF NoObject
<1> HIDE DEF d, h, m
<1> QED
  BY <1>2, <1>3 DEF IsObject

\* A writing call makes an object of an object.
LEMMA AppliedObject ==
  ASSUME NEW c \in WritingCalls, NEW o, IsObject(o)
  PROVE  IsObject(Applied(c, o))
<1> DEFINE Obj(d, m, h, a) == [data |-> d, omap |-> m, header |-> h, attrs |-> a]
<1>0. ASSUME NEW d \in Int, NEW h \in Nat, NEW m, NEW a, Table(m, Keys), Table(a, {1})
      PROVE  IsObject(Obj(d, m, h, a))
  BY <1>0 DEF IsObject
<1>1. PICK d0, h, m, a :
        d0 \in Int /\ h \in Nat /\ Table(m, Keys) /\ Table(a, {1}) /\ o = Obj(d0, m, h, a)
  BY DEF IsObject
<1> DEFINE d == IF d0 = -1 THEN 0 ELSE d0
           new == IF o.data = -1 THEN [o EXCEPT !.data = 0] ELSE o
<1>2. new = Obj(d, m, h, a) /\ d \in Int
  BY <1>1
<1>3. WriteShape(c)
  BY WriteShapes
<1> HIDE DEF d
<1>4. CASE c.sub = "CREATE"
  <2>1. Applied(c, o) = new
    BY <1>4 DEF Applied
  <2> QED
    BY <1>0, <1>1, <1>2, <2>1
<1>5. CASE c.sub = "DELETE"
  <2>1. Applied(c, o) = NoObject
    BY <1>5 DEF Applied
  <2> QED
    BY <2>1, NoObjectIsObject
<1>6. CASE c.sub \in {"WRITE", "WRITEFULL"} /\ c.arg \in Nat
  <2>1. Applied(c, o) = [new EXCEPT !.data = c.arg]
    BY <1>6 DEF Applied
  <2>2. Applied(c, o) = Obj(c.arg, m, h, a)
    BY <1>2, <2>1
  <2> QED
    BY <1>0, <1>1, <1>6, <2>2
<1>7. CASE c.sub = "OMAPSETHEADER" /\ c.arg \in Nat
  <2>1. Applied(c, o) = [new EXCEPT !.header = c.arg]
    BY <1>7 DEF Applied
  <2>2. Applied(c, o) = Obj(d, m, c.arg, a)
    BY <1>2, <2>1
  <2> QED
    BY <1>0, <1>1, <1>2, <1>7, <2>2
<1>8. CASE c.sub = "SETXATTR" /\ PairsFine(c.arg, {1})
  <2>1. Applied(c, o) = [new EXCEPT !.attrs = WithPairs(@, c.arg)]
    BY <1>8 DEF Applied
  <2>2. Applied(c, o) = Obj(d, m, h, WithPairs(a, c.arg))
    BY <1>2, <2>1
  <2>3. Table(WithPairs(a, c.arg), {1})
    BY <1>1, <1>8, WithPairsTable
  <2> QED
    BY <1>0, <1>1, <1>2, <2>2, <2>3
<1>9. CASE c.sub = "OMAPSETVALS" /\ PairsFine(c.arg, Keys)
  <2>1. Applied(c, o) = [new EXCEPT !.omap = WithPairs(@, c.arg)]
    BY <1>9 DEF Applied
  <2>2. Applied(c, o) = Obj(d, WithPairs(m, c.arg), h, a)
    BY <1>2, <2>1
  <2>3. Table(WithPairs(m, c.arg), Keys)
    BY <1>1, <1>9, WithPairsTable
  <2> QED
    BY <1>0, <1>1, <1>2, <2>2, <2>3
<1>10. CASE c.sub = "OMAPCLEAR"
  <2>1. Applied(c, o) = [new EXCEPT !.omap = <<>>]
    BY <1>10 DEF Applied
  <2>2. Applied(c, o) = Obj(d, <<>>, h, a)
    BY <1>2, <2>1
  <2> QED
    BY <1>0, <1>1, <1>2, <2>2, EmptyTable
<1>11. CASE c.sub = "OMAPRMKEYS"
  <2> DEFINE w == [k \in DOMAIN m \ {c.arg} |-> m[k]]
  <2>1. Applied(c, o) = [new EXCEPT !.omap = [k \in DOMAIN @ \ {c.arg} |-> @[k]]]
    BY <1>11 DEF Applied
  <2>2. Applied(c, o) = Obj(d, w, h, a)
    BY <1>2, <2>1
  <2>3. Table(w, Keys)
    BY <1>1, WithoutKeyTable
  <2> HIDE DEF w
  <2> QED
    BY <1>0, <1>1, <1>2, <2>2, <2>3
<1> QED
  BY <1>3, <1>4, <1>5, <1>6, <1>7, <1>8, <1>9, <1>10, <1>11 DEF WriteShape
-----------------------------------------------------------------------------
(* The swaps and rbd.copyup.                                              *)

InCall == phase \in {"cache", "back"}

\* What op 0 of the call's own vector holds once the cache has answered.
Encoded == <<>> \o Answer(call, seen)

\* The ops of the message before the current one have the output of their
\* methods, the others none yet.
OutputInv ==
  /\ opId \in 1..NumOps
  /\ DOMAIN output = 1..NumOps
  /\ \A i \in opId..NumOps : output[i] = <<>>

\* The client's ops are in place, or in local while a reading call is on its
\* way; then the message has the call's own vector of one op.
SwapInv ==
  /\ phase \in {"exec", "method", "cache", "back"} /\ call.swap \in BOOLEAN
  /\ phase = "exec" => ~call.swap
  /\ IF InCall /\ call.swap
     THEN /\ local = output
          /\ phase = "cache" => ops = <<<<>>>>
          /\ phase = "back" => answer \in {0, -1} /\ ops = <<IF answer = 0 THEN Encoded ELSE <<>>>>
     ELSE ops = output /\ local = <<>>

\* A reading call that has returned gave the method its own answer.
AnsweredInv ==
  phase = "method" /\ call.swap => got = IF answer < 0 THEN Failed ELSE Decoded(call, Encoded)

\* rbd.copyup is in its stat, or in the write after a stat that failed.
CopyupInv ==
  copyup # -1 =>
    /\ phase # "exec"
    /\ call = cls_cxx_stat2 \/ call = cls_cxx_write2(copyup)
    /\ InCall /\ ~call.swap => got = Failed
    /\ call = cls_cxx_stat2 /\ phase = "method" => got = Failed \/ got.r = "ok"

ApiInv == OutputInv /\ SwapInv /\ AnsweredInv /\ CopyupInv

LEMMA CallKinds ==
  /\ \A sub, arg : Reading(sub, arg).swap = TRUE /\ Writing(sub, arg).swap = FALSE
  /\ NoCall.swap = FALSE /\ cls_cxx_stat2.swap = TRUE
  /\ \A v : cls_cxx_write2(v).swap = FALSE
  BY DEF Reading, Writing, NoCall, cls_cxx_stat2, cls_cxx_write2

\* The answer to a stat is decoded as it was encoded.
LEMMA StatDecoded ==
  ASSUME NEW o
  PROVE  Decoded(cls_cxx_stat2, <<>> \o Answer(cls_cxx_stat2, o)) = Ok(o.data)
<1>1. cls_cxx_stat2.sub = "STAT"
  BY DEF cls_cxx_stat2, Reading
<1>2. Answer(cls_cxx_stat2, o) = EncodeGetOpstat(o.data)
  BY <1>1 DEF Answer
<1>3. Decoded(cls_cxx_stat2, <<>> \o EncodeGetOpstat(o.data)) = DecodeStat(<<>> \o EncodeGetOpstat(o.data))
  BY <1>1 DEF Decoded
<1>4. DecodeStat(<<>> \o EncodeGetOpstat(o.data)) = Ok(o.data)
  BY DEF DecodeStat, EncodeGetOpstat, Num
<1> QED
  BY <1>2, <1>3, <1>4
-----------------------------------------------------------------------------
(* The steps.                                                              *)

\* ops.swap(ptr->ops), and the call is on its way.
LEMMA RequestStep ==
  ASSUME ApiInv, ~InCall, NEW c, c.swap \in BOOLEAN, Request(c), UNCHANGED <<opId, output>>
  PROVE  OutputInv' /\ SwapInv' /\ AnsweredInv' /\ phase' = "cache" /\ call' = c
<1>1. phase' = "cache" /\ call' = c
  BY DEF Request
<1>2. ops = output /\ local = <<>>
  BY DEF ApiInv, SwapInv
<1>3. OutputInv'
  BY DEF ApiInv, OutputInv
<1>4. SwapInv'
  BY <1>1, <1>2 DEF Request, SwapOut, SwapInv, InCall
<1>5. AnsweredInv'
  BY <1>1 DEF AnsweredInv
<1> QED
  BY <1>1, <1>3, <1>4, <1>5

LEMMA ExecStep ==
  ASSUME ApiInv, ExecMethod
  PROVE  ApiInv'
<1>a. /\ phase = "exec" /\ phase' = "method"
      /\ UNCHANGED <<ops, local, opId, call, answer, got, copyup, seen, output>>
  BY DEF ExecMethod
<1>b. copyup = -1 /\ ~call.swap
  BY <1>a DEF ApiInv, CopyupInv, SwapInv
<1>1. OutputInv' /\ SwapInv'
  BY <1>a DEF ApiInv, OutputInv, SwapInv, InCall
<1> QED
  BY <1>a, <1>b, <1>1 DEF ApiInv, AnsweredInv, CopyupInv

LEMMA MethodCallsStep ==
  ASSUME ApiInv, NEW c \in ReadingCalls \cup WritingCalls, MethodCalls(c)
  PROVE  ApiInv'
<1>a. /\ phase = "method" /\ copyup = -1 /\ Request(c)
      /\ UNCHANGED <<opId, copyup, output>>
  BY DEF MethodCalls
<1>1. OutputInv' /\ SwapInv' /\ AnsweredInv'
  <2>1. c.swap \in BOOLEAN /\ ~InCall
    BY <1>a, ReadShapes, WriteShapes DEF InCall, ReadShape, WriteShape
  <2> QED
    BY <1>a, <2>1, RequestStep
<1>2. CopyupInv'
  BY <1>a DEF CopyupInv
<1> QED
  BY <1>1, <1>2 DEF ApiInv

LEMMA ReadRefusedStep ==
  ASSUME ApiInv, ReadRefused
  PROVE  ApiInv'
<1>a. /\ phase = "method" /\ copyup = -1 /\ call' = NoCall /\ call'.swap = FALSE
      /\ UNCHANGED <<ops, local, opId, phase, copyup, output>>
  BY CallKinds DEF ReadRefused
<1>1. OutputInv' /\ AnsweredInv' /\ CopyupInv'
  BY <1>a DEF ApiInv, OutputInv, AnsweredInv, CopyupInv
<1>2. SwapInv'
  BY <1>a DEF ApiInv, SwapInv, InCall
<1> QED
  BY <1>1, <1>2 DEF ApiInv

\* The answer goes into the vector of the call, and into no op of the client.
LEMMA CacheStep ==
  ASSUME ApiInv, NEW r \in {0, -1}, CacheAnswers(r)
  PROVE  ApiInv'
<1>a. /\ phase = "cache" /\ phase' = "back" /\ answer' = r /\ seen' = object
      /\ UNCHANGED <<local, opId, call, got, copyup, output>>
  BY DEF CacheAnswers
<1>1. OutputInv' /\ AnsweredInv'
  BY <1>a DEF ApiInv, OutputInv, AnsweredInv
<1>2. CopyupInv'
  BY <1>a DEF ApiInv, CopyupInv, InCall
<1>3. SwapInv'
  <2>1. CASE call.swap /\ r = 0
    <3>1. ops = <<<<>>>> /\ ops' = [ops EXCEPT ![1] = @ \o Answer(call, object)]
      BY <1>a, <2>1 DEF ApiInv, SwapInv, InCall, CacheAnswers
    <3>2. Encoded' = <<>> \o Answer(call, object)
      BY <1>a DEF Encoded
    <3>3. ops' = <<Encoded'>>
      BY <3>1, <3>2
    <3> QED
      BY <1>a, <2>1, <3>3 DEF ApiInv, SwapInv, InCall
  <2>2. CASE call.swap /\ r # 0
    BY <1>a, <2>2 DEF ApiInv, SwapInv, InCall, CacheAnswers
  <2>3. CASE ~call.swap
    BY <1>a, <2>3 DEF ApiInv, SwapInv, InCall, CacheAnswers
  <2> QED
    BY <2>1, <2>2, <2>3
<1> QED
  BY <1>1, <1>2, <1>3 DEF ApiInv

\* The second swap, on every path.
LEMMA ReturnStep ==
  ASSUME ApiInv, CallReturns
  PROVE  ApiInv'
<1>a. /\ phase = "back" /\ phase' = "method" /\ SwapBack
      /\ got' = IF answer < 0 THEN Failed ELSE Decoded(call, ops[1])
      /\ UNCHANGED <<opId, call, answer, copyup, seen, output>>
  BY DEF CallReturns
<1>1. OutputInv'
  BY <1>a DEF ApiInv, OutputInv
<1>2. SwapInv'
  BY <1>a DEF ApiInv, SwapInv, InCall, SwapBack
<1>b. ASSUME call.swap
      PROVE  answer \in {0, -1} /\ (answer = 0 => ops[1] = Encoded)
  BY <1>a, <1>b DEF ApiInv, SwapInv, InCall
<1>c. Encoded' = Encoded
  BY <1>a DEF Encoded
<1>3. AnsweredInv'
  BY <1>a, <1>b, <1>c DEF AnsweredInv
<1>4. CopyupInv'
  <2>1. ASSUME call = cls_cxx_stat2
        PROVE  got' = Failed \/ got'.r = "ok"
    <3>1. call.swap
      BY <2>1, CallKinds
    <3>2. CASE answer = 0
      <4>1. got' = Decoded(cls_cxx_stat2, <<>> \o Answer(cls_cxx_stat2, seen))
        BY <1>a, <1>b, <2>1, <3>1, <3>2 DEF Encoded
      <4> QED
        BY <4>1, StatDecoded DEF Ok
    <3> QED
      BY <1>a, <1>b, <3>1, <3>2
  <2> QED
    BY <1>a, <2>1 DEF ApiInv, CopyupInv, InCall
<1> QED
  BY <1>1, <1>2, <1>3, <1>4 DEF ApiInv

\* The method's output goes into its op, which has had none so far.
LEMMA NextOpStep ==
  ASSUME ApiInv, phase = "method", NEW out, out = <<>> \/ \E v : out = <<v>>, NextOp(out)
  PROVE  ApiInv'
<1>a. /\ phase' = "exec" /\ call' = NoCall /\ call'.swap = FALSE /\ copyup' = -1 /\ local' = local
      /\ ops = output /\ local = <<>>
      /\ NumOps \in Nat \ {0} /\ opId \in 1..NumOps /\ DOMAIN output = 1..NumOps
  BY CallKinds, ApiAssumption DEF NextOp, ApiInv, SwapInv, OutputInv, InCall
<1>1. OutputInv' /\ ops' = output'
  <2>1. CASE opId < NumOps
    <3>1. /\ opId' = opId + 1 /\ output' = [output EXCEPT ![opId] = out]
          /\ ops' = [ops EXCEPT ![opId] = @ \o out]
      BY <2>1 DEF NextOp
    <3>2. output[opId] \o out = out
      <4>1. output[opId] = <<>>
        BY <1>a DEF ApiInv, OutputInv
      <4> QED
        BY <4>1
    <3>3. ops' = output'
      BY <1>a, <3>1, <3>2
    <3>4. OutputInv'
      BY <1>a, <2>1, <3>1 DEF ApiInv, OutputInv
    <3> QED
      BY <3>3, <3>4
  <2>2. CASE opId = NumOps
    <3>1. /\ opId' = 1 /\ output' = [i \in 1..NumOps |-> <<>>]
          /\ ops' = [i \in 1..NumOps |-> <<>>]
      BY <1>a, <2>2 DEF NextOp
    <3> QED
      BY <1>a, <3>1 DEF OutputInv
  <2> QED
    BY <1>a, <2>1, <2>2
<1>2. SwapInv' /\ AnsweredInv' /\ CopyupInv'
  BY <1>a, <1>1 DEF SwapInv, InCall, AnsweredInv, CopyupInv
<1> QED
  BY <1>1, <1>2 DEF ApiInv

LEMMA MethodReturnsStep ==
  ASSUME ApiInv, NEW r, NEW v, MethodReturns(r, v)
  PROVE  ApiInv'
<1>1. PICK out : (out = <<>> \/ \E w : out = <<w>>) /\ NextOp(out)
  BY DEF MethodReturns
<1> QED
  BY <1>1, NextOpStep DEF MethodReturns

LEMMA CopyupStatStep ==
  ASSUME ApiInv, NEW v, CopyupStat(v)
  PROVE  ApiInv'
<1>a. phase = "exec" /\ ~InCall /\ Request(cls_cxx_stat2) /\ UNCHANGED <<opId, output>>
  BY DEF CopyupStat, InCall
<1>1. OutputInv' /\ SwapInv' /\ AnsweredInv' /\ phase' = "cache" /\ call' = cls_cxx_stat2
  <2>1. cls_cxx_stat2.swap \in BOOLEAN
    BY CallKinds
  <2> QED
    BY <1>a, <2>1, RequestStep
<1>2. CopyupInv'
  BY <1>1, CallKinds DEF CopyupInv
<1> QED
  BY <1>1, <1>2 DEF ApiInv

LEMMA CopyupWriteStep ==
  ASSUME ApiInv, CopyupWrite
  PROVE  ApiInv'
<1>a. /\ phase = "method" /\ ~InCall /\ copyup # -1 /\ call = cls_cxx_stat2 /\ got.r # "ok"
      /\ Request(cls_cxx_write2(copyup)) /\ UNCHANGED <<opId, output, got, copyup>>
  BY DEF CopyupWrite, StatSaysAbsent, InCall
<1>1. /\ OutputInv' /\ SwapInv' /\ AnsweredInv' /\ phase' = "cache"
      /\ call' = cls_cxx_write2(copyup)
  <2>1. cls_cxx_write2(copyup).swap \in BOOLEAN
    BY CallKinds
  <2> QED
    BY <1>a, <2>1, RequestStep
<1>2. got' = Failed
  BY <1>a DEF ApiInv, CopyupInv
<1>3. CopyupInv'
  BY <1>a, <1>1, <1>2 DEF CopyupInv
<1> QED
  BY <1>1, <1>3 DEF ApiInv

LEMMA CopyupReturnsStep ==
  ASSUME ApiInv, CopyupReturns
  PROVE  ApiInv'
  BY NextOpStep DEF CopyupReturns
-----------------------------------------------------------------------------
(* What the calls decode, in every state.                                  *)

\* The object is well formed, the call in progress is one of the calls, and a
\* reading call that was answered was answered from an object that has what
\* it asks for.
ObjectInv ==
  /\ IsObject(object)
  /\ copyup \in Values \cup {-1}
  /\ call.swap => call \in ReadingCalls
  /\ phase = "cache" => call \in ReadingCalls \cup WritingCalls
  /\ phase \in {"back", "method"} /\ call.swap /\ answer = 0 => IsObject(seen) /\ CanAnswer(call, seen)

LEMMA ObjectInit == Init => ObjectInv
<1> SUFFICES ASSUME Init PROVE ObjectInv
  OBVIOUS
<1>1. object = NoObject /\ copyup = -1 /\ call = NoCall /\ phase = "exec" /\ NoCall.swap = FALSE
  BY DEF Init, NoCall
<1> QED
  BY <1>1, NoObjectIsObject DEF ObjectInv

\* A request of one of the calls.
LEMMA ObjectRequest ==
  ASSUME ObjectInv, NEW c \in ReadingCalls \cup WritingCalls, Request(c), object' = object,
         copyup' \in Values \cup {-1}
  PROVE  ObjectInv'
<1>1. call' = c /\ phase' = "cache"
  BY DEF Request
<1>2. c.swap => c \in ReadingCalls
  BY WriteShapes DEF WriteShape
<1> QED
  BY <1>1, <1>2 DEF ObjectInv

LEMMA StatIsCall == cls_cxx_stat2 \in ReadingCalls
  BY DEF ReadingCalls

LEMMA WriteIsCall ==
  ASSUME NEW v \in Values
  PROVE  cls_cxx_write2(v) \in WritingCalls
<1>1. cls_cxx_write2(v) \in {cls_cxx_write2(x) : x \in Values}
  OBVIOUS
<1> QED
  BY <1>1 DEF WritingCalls

\* The cache answers, or applies the call to the object.
LEMMA ObjectCache ==
  ASSUME ApiInv, ObjectInv, NEW r \in {0, -1}, CacheAnswers(r)
  PROVE  ObjectInv'
<1>1. /\ phase = "cache" /\ phase' = "back" /\ answer' = r /\ seen' = object
      /\ (r = 0 => CanAnswer(call, object)) /\ call' = call /\ copyup' = copyup
  BY DEF CacheAnswers
<1>2. IsObject(object')
  <2>1. CASE r = 0 /\ ~call.swap
    <3>1. object' = Applied(call, object)
      BY <2>1 DEF CacheAnswers
    <3>2. call \in WritingCalls
      BY <1>1, <2>1, ReadShapes DEF ObjectInv, ReadShape
    <3> QED
      BY <3>1, <3>2, AppliedObject DEF ObjectInv
  <2>2. CASE ~(r = 0 /\ ~call.swap)
    <3>1. object' = object
      BY <2>2 DEF CacheAnswers
    <3> QED
      BY <3>1 DEF ObjectInv
  <2> QED
    BY <2>1, <2>2
<1> QED
  BY <1>1, <1>2 DEF ObjectInv

LEMMA ObjectNextOp ==
  ASSUME ObjectInv, NEW out, NextOp(out)
  PROVE  ObjectInv'
<1>1. object' = object /\ call' = NoCall /\ NoCall.swap = FALSE /\ copyup' = -1 /\ phase' = "exec"
  BY DEF NextOp, NoCall
<1> QED
  BY <1>1 DEF ObjectInv

\* Every step keeps it.
LEMMA ObjectKept == ApiInv /\ ObjectInv /\ [Next]_vars => ObjectInv'
<1> SUFFICES ASSUME ApiInv, ObjectInv, [Next]_vars PROVE ObjectInv'
  OBVIOUS
<1>1. CASE UNCHANGED vars
  BY <1>1 DEF vars, ObjectInv
<1>2. CASE ExecMethod
  <2>1. phase = "exec" /\ phase' = "method" /\ UNCHANGED <<object, call, answer, copyup, seen>>
    BY <1>2 DEF ExecMethod
  <2>2. ~call.swap
    BY <2>1 DEF ApiInv, SwapInv
  <2> QED
    BY <2>1, <2>2 DEF ObjectInv
<1>3. CASE CallReturns
  <2>1. phase = "back" /\ phase' = "method" /\ UNCHANGED <<object, call, answer, copyup, seen>>
    BY <1>3 DEF CallReturns
  <2> QED
    BY <2>1 DEF ObjectInv
<1>4. CASE ReadRefused
  <2>1. phase = "method" /\ call' = NoCall /\ NoCall.swap = FALSE /\ UNCHANGED <<object, phase, copyup>>
    BY <1>4 DEF ReadRefused, NoCall
  <2> QED
    BY <2>1 DEF ObjectInv
<1>5. CASE CopyupWrite
  <2>1. copyup # -1 /\ Request(cls_cxx_write2(copyup)) /\ UNCHANGED <<object, copyup>>
    BY <1>5 DEF CopyupWrite
  <2>2. copyup \in Values /\ copyup' \in Values \cup {-1}
    BY <2>1 DEF ObjectInv
  <2> QED
    BY <2>1, <2>2, WriteIsCall, ObjectRequest
<1>6. CASE CopyupReturns
  BY <1>6, ObjectNextOp DEF CopyupReturns
<1>7. ASSUME NEW c \in ReadingCalls \cup WritingCalls, MethodCalls(c) PROVE ObjectInv'
  <2>1. Request(c) /\ UNCHANGED <<object, copyup>>
    BY <1>7 DEF MethodCalls
  <2>2. copyup' \in Values \cup {-1}
    BY <2>1 DEF ObjectInv
  <2> QED
    BY <2>1, <2>2, ObjectRequest
<1>8. ASSUME NEW r \in {0, -1}, CacheAnswers(r) PROVE ObjectInv'
  BY <1>8, ObjectCache
<1>9. ASSUME NEW r \in {0, -1}, NEW v \in Values, MethodReturns(r, v) PROVE ObjectInv'
  <2>1. PICK out : NextOp(out)
    BY <1>9 DEF MethodReturns
  <2> QED
    BY <2>1, ObjectNextOp
<1>10. ASSUME NEW v \in Values, CopyupStat(v) PROVE ObjectInv'
  <2>1. Request(cls_cxx_stat2) /\ UNCHANGED object /\ copyup' = v
    BY <1>10 DEF CopyupStat
  <2>2. copyup' \in Values \cup {-1}
    BY <2>1
  <2> QED
    BY <2>1, <2>2, StatIsCall, ObjectRequest
<1> QED
  BY <1>1, <1>2, <1>3, <1>4, <1>5, <1>6, <1>7, <1>8, <1>9, <1>10 DEF Next
-----------------------------------------------------------------------------
(* The theorems.                                                           *)

LEMMA ApiInit == Init => ApiInv
<1> SUFFICES ASSUME Init PROVE ApiInv
  OBVIOUS
<1>1. OutputInv
  BY ApiAssumption DEF Init, OutputInv
<1>2. SwapInv /\ AnsweredInv /\ CopyupInv
  BY CallKinds DEF Init, SwapInv, InCall, AnsweredInv, CopyupInv
<1> QED
  BY <1>1, <1>2 DEF ApiInv

LEMMA ApiStep == ApiInv /\ [Next]_vars => ApiInv'
<1> SUFFICES ASSUME ApiInv, [Next]_vars
             PROVE  ApiInv'
  OBVIOUS
<1>1. CASE UNCHANGED vars
  BY <1>1 DEF vars, ApiInv, OutputInv, SwapInv, InCall, AnsweredInv, CopyupInv, Encoded
<1> QED
  BY <1>1, ExecStep, ReturnStep, ReadRefusedStep, CopyupWriteStep, CopyupReturnsStep,
     MethodCallsStep, CacheStep, MethodReturnsStep, CopyupStatStep DEF Next

\* The inductive invariant: the swaps, the answers and rbd.copyup.
THEOREM ApiInvariant == Spec => []ApiInv
  BY ApiInit, ApiStep, PTL DEF Spec

\* Whatever a method calls and whichever of its calls fail, the client's ops
\* are back in the message when the call is over, with the output of the
\* methods so far and nothing that an inner call has read (the two swaps of
\* the reading cls_* calls, and the output that OSA_ExecClass puts in).
THEOREM ClientOpsRestored == Spec => []OpsRestored
<1>1. ApiInv => OpsRestored
  BY DEF ApiInv, SwapInv, InCall, OpsRestored
<1> QED
  BY <1>1, ApiInvariant, PTL

\* Only the cache's answer to a writing call changes the object.
LEMMA ObjectStep ==
  ASSUME ApiInv, [Next]_vars, object' # object, copyup # -1
  PROVE  got = Failed
<1>1. PICK r \in {0, -1} : CacheAnswers(r)
  BY DEF Next, vars, ExecMethod, CallReturns, ReadRefused, CopyupWrite, CopyupReturns, MethodCalls,
     MethodReturns, CopyupStat, NextOp
<1>2. phase = "cache" /\ ~call.swap
  BY <1>1 DEF CacheAnswers, ApiInv, SwapInv
<1> QED
  BY <1>2 DEF ApiInv, CopyupInv, InCall

\* rbd.copyup writes to an object only after a failed stat of it: an object
\* that exists and whose stat was answered is never overwritten by the
\* parent's data.
THEOREM CopyupKeepsObject == Spec => CopyupKeepsData
<1>1. ApiInv /\ [Next]_vars =>
        [copyup # -1 /\ object.data # -1 /\ object' # object => got = Failed]_vars
  BY ObjectStep
<1> QED
  BY <1>1, ApiInvariant, PTL DEF Spec, CopyupKeepsData

\* The object stays well formed whatever the methods write, and a reading call
\* that was answered was answered from an object that has what it asks for.
THEOREM ObjectInvariant == Spec => []ObjectInv
  BY ObjectInit, ObjectKept, ApiInvariant, PTL DEF Spec

\* Through the encoders of network_module.cpp, op 0 of the call's own vector
\* and the decoders of class_api.cc, a reading call that was answered gives its
\* method exactly what the object held then, for every object: all listings,
\* all limits, empty values included, where a listing of values is refused and
\* never shown wrong or cut.
THEOREM CallsAreExact == Spec => []CallExact
<1>1. ApiInv /\ ObjectInv => CallExact
  <2> SUFFICES ASSUME ApiInv, ObjectInv, phase = "method", call.swap, answer = 0
               PROVE  got = Reference(call, seen)
    BY DEF CallExact
  <2>1. got = Decoded(call, <<>> \o Answer(call, seen))
    BY DEF ApiInv, AnsweredInv, Encoded
  <2>2. call \in ReadingCalls /\ IsObject(seen) /\ CanAnswer(call, seen)
    BY DEF ObjectInv
  <2> QED
    BY <2>1, <2>2, ReadingCallExact
<1> QED
  BY <1>1, ApiInvariant, ObjectInvariant, PTL
=============================================================================
