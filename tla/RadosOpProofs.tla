--------------------------- MODULE RadosOpProofs ---------------------------
(***************************************************************************)
(* Proofs about RadosOp, for any chains and lengths, any sizes of pages    *)
(* and SGLs and any number of builder calls: the life of the op between    *)
(* the user, the worker and librados, what the copying loops over SGLs     *)
(* read and write, the sub-ops and the bytes librados gets, and what       *)
(* ReadCallback leaves in the destinations.                                *)
(***************************************************************************)
EXTENDS RadosOp, SequenceTheorems, WellFoundedInduction, TLAPS

\* The user has not been called back while the op is on its way, and is called
\* by the worker or by librados, never by both.
FlightInv ==
  /\ ~dangling /\ told \in {0, 1}
  /\ kind \in {"none", "write", "read"}
  /\ worker \in {"idle", "queued", "release", "fail", "done"}
  /\ cb \in {"none", "flying", "fill", "call", "end", "done"}
  /\ worker \in {"idle", "queued", "fail"} => cb = "none" /\ told = 0
  /\ worker \in {"queued", "fail"} \/ cb \in {"flying", "fill", "call"} => alive /\ told = 0

\* The calls, the sub-ops and the destinations go together.
LengthInv == Len(subops) = Len(asked) /\ Len(memory) = Len(asked)

\* The sub-ops librados gets are those of the calls that were not ignored, with
\* their arguments, all but those of a writing omap_cmp.
SubOpsInOrder ==
  /\ Len(subops) = Len(asked)
  /\ \A k \in DOMAIN asked : Matches(kind, asked[k], subops[k])

\* A slot of reqCtx belongs to a call of its kind.
SlotInv ==
  /\ \A k \in Reads : asked[k].arg \in Nat
  /\ req \in [buffer : Nat, sgl : Nat, xattrs : Nat, sum : Nat]
  /\ req.buffer # 0 => req.buffer \in Reads /\ asked[req.buffer].chain = <<>>
  /\ req.sgl # 0 => req.sgl \in Reads
  /\ req.xattrs \notin Reads /\ req.sum \notin Reads
  /\ \A slot \in {"buffer", "sgl", "xattrs", "sum"} : req[slot] <= Len(asked)

\* The answer of librados is not longer than the last read.
ResultsInv ==
  cb = "fill" =>
    Len(results) \in Nat /\ \A n \in Reads : (\A j \in Reads : j <= n) => Len(results) <= asked[n].arg

Untouched(k) == \A cell \in DOMAIN memory[k] : memory[k][cell] = "old"
Served == IF req.buffer # 0 THEN req.buffer ELSE req.sgl

\* Before ReadCallback no destination has changed; after it only the one that
\* was served, and none if the op failed.
OthersUntouched ==
  /\ cb \in {"none", "flying", "fill"} => ~stray
  /\ \A k \in Reads : cb \in {"none", "flying", "fill"} \/ rv # 0 \/ k # Served => Untouched(k)

\* A plain buffer is overrun only by a longer read that was asked for later.
StrayFromLaterRead ==
  stray /\ req.buffer # 0 =>
    \E k, n \in Reads : k < n /\ asked[k].chain = <<>> /\ asked[n].arg > asked[k].arg

\* What a read has for a destination.
Destination(call, mem) ==
  IF call.chain = <<>> THEN DOMAIN mem = ToSet(EntryCells(0, 0, call.arg))
  ELSE /\ call.chain \in Chains /\ call.whole \in BOOLEAN /\ call.unused \in {"zero", "garbage"}
       /\ call.arg \in 0..Capacity(call.chain, call.whole)
       /\ DOMAIN mem = Cells(call.chain, call.whole)

IsSeq(s) == \E S : s \in Seq(S)
SeqInv == IsSeq(asked) /\ IsSeq(subops) /\ IsSeq(memory)

OpInv == FlightInv /\ SeqInv /\ LengthInv /\ SubOpsInOrder /\ SlotInv /\ ResultsInv
         /\ OthersUntouched /\ StrayFromLaterRead
-----------------------------------------------------------------------------
(* Sequences.                                                              *)

LEMMA SeqFacts ==
  ASSUME NEW s, IsSeq(s)
  PROVE  Len(s) \in Nat /\ DOMAIN s = 1..Len(s)
  BY DEF IsSeq

LEMMA AppendAny ==
  ASSUME NEW s, IsSeq(s), NEW x
  PROVE  /\ IsSeq(Append(s, x)) /\ Len(Append(s, x)) = Len(s) + 1
         /\ DOMAIN Append(s, x) = 1..(Len(s) + 1)
         /\ \A i \in 1..Len(s) : Append(s, x)[i] = s[i]
         /\ Append(s, x)[Len(s) + 1] = x
<1>1. PICK S : s \in Seq(S)
  BY DEF IsSeq
<1>2. s \in Seq(S \cup {x})
  BY <1>1
<1>3. /\ Append(s, x) \in Seq(S \cup {x}) /\ Len(Append(s, x)) = Len(s) + 1
      /\ \A i \in 1..Len(s) : Append(s, x)[i] = s[i]
      /\ Append(s, x)[Len(s) + 1] = x
  BY <1>2, AppendProperties
<1> QED
  BY <1>3 DEF IsSeq

LEMMA LastOfFacts ==
  ASSUME NEW S, NEW n \in S, \A j \in S : j <= n
  PROVE  LastOf(S) \in S /\ \A j \in S : j <= LastOf(S)
  BY DEF LastOf

\* The reads of an op have a last one.
LEMMA LastRead ==
  ASSUME SeqInv, Reads # {}
  PROVE  \E n \in Reads : \A j \in Reads : j <= n
<1> DEFINE Back == {m \in Nat : \E k \in Reads : m + k = Len(asked)}
<1>1. Len(asked) \in Nat /\ \A k \in Reads : k \in Nat /\ Len(asked) - k \in Nat
  BY SeqFacts DEF SeqInv, Reads
<1>2. \A k \in Reads : Len(asked) - k \in Back
  BY <1>1
<1>3. Back \in SUBSET Nat /\ Back # {}
  BY <1>2
<1> HIDE DEF Back
<1>4. PICK m \in Back : \A i \in Back : <<i, m>> \notin OpToRel(<, Nat)
  BY <1>3, WFMin, NatLessThanWellFounded, Zenon
<1>5. \A i \in Back : ~(i < m)
  BY <1>3, <1>4, Zenon DEF OpToRel
<1>6. \A j \in Reads : m <= Len(asked) - j
  BY <1>1, <1>2, <1>3, <1>5
<1>7. PICK n \in Reads : m + n = Len(asked)
  BY <1>4 DEF Back
<1>8. ASSUME NEW j \in Reads
      PROVE  j <= n
  <2>1. j \in Nat /\ n \in Nat /\ Len(asked) \in Nat /\ m \in Nat
    BY <1>1, <1>3
  <2>2. m <= Len(asked) - j
    BY <1>6
  <2> QED
    BY <1>7, <2>1, <2>2
<1> QED
  BY <1>8
-----------------------------------------------------------------------------
(* Induction, and the concatenation of sequences.                          *)

\* Induction with a set for the predicate.
LEMMA SetInduction ==
  ASSUME NEW S \in SUBSET Nat, 0 \in S, \A n \in S : n + 1 \in S
  PROVE  \A n \in Nat : n \in S
<1> SUFFICES ASSUME Nat \ S # {} PROVE FALSE
  OBVIOUS
<1>1. PICK m \in Nat \ S : \A i \in Nat \ S : <<i, m>> \notin OpToRel(<, Nat)
  <2>1. Nat \ S \in SUBSET Nat
    OBVIOUS
  <2> QED
    BY <2>1, WFMin, NatLessThanWellFounded, Zenon
<1>2. \A i \in Nat \ S : ~(i < m)
  BY <1>1, Zenon DEF OpToRel
<1>3. m # 0 /\ m - 1 \in Nat /\ m - 1 < m
  OBVIOUS
<1>4. m - 1 \in S
  BY <1>2, <1>3
<1>5. (m - 1) + 1 \in S
  BY <1>4
<1> QED
  BY <1>5

\* The recursive function of FlattenSeq exists.
LEMMA FlattenDefined ==
  ASSUME NEW seqs, NEW len \in Nat
  PROVE  \E f : f = [i \in 1..len |-> IF i = 1 THEN seqs[i] ELSE f[i - 1] \o seqs[i]]
<1> DEFINE Good(f, n) == /\ f = [i \in 1..n |-> f[i]]
                         /\ \A i \in 1..n : f[i] = IF i = 1 THEN seqs[i] ELSE f[i - 1] \o seqs[i]
           S == {n \in Nat : \E f : Good(f, n)}
<1>1. 0 \in S
  <2>1. Good(<<>>, 0)
    OBVIOUS
  <2> QED
    BY <2>1
<1>2. ASSUME NEW n \in S PROVE n + 1 \in S
  <2>1. PICK f : Good(f, n)
    BY <1>2
  <2> DEFINE g == [i \in 1..(n + 1) |-> IF i = n + 1
                     THEN IF i = 1 THEN seqs[i] ELSE f[i - 1] \o seqs[i] ELSE f[i]]
  <2>2. g = [i \in 1..(n + 1) |-> g[i]]
    OBVIOUS
  <2>3. ASSUME NEW i \in 1..(n + 1)
        PROVE  g[i] = IF i = 1 THEN seqs[i] ELSE g[i - 1] \o seqs[i]
    <3>1. CASE i = n + 1
      <4>1. i # 1 => g[i - 1] = f[i - 1]
        BY <3>1
      <4>2. g[i] = IF i = 1 THEN seqs[i] ELSE f[i - 1] \o seqs[i]
        BY <3>1
      <4> QED
        BY <4>1, <4>2
    <3>2. CASE i # n + 1
      <4>1. i \in 1..n /\ g[i] = f[i] /\ (i # 1 => g[i - 1] = f[i - 1])
        BY <3>2
      <4>2. f[i] = IF i = 1 THEN seqs[i] ELSE f[i - 1] \o seqs[i]
        BY <2>1, <4>1
      <4> QED
        BY <4>1, <4>2
    <3> QED
      BY <3>1, <3>2
  <2>4. Good(g, n + 1)
    BY <2>2, <2>3
  <2> HIDE DEF g, Good
  <2> QED
    BY <2>4
<1>3. len \in S
  <2>1. S \in SUBSET Nat
    OBVIOUS
  <2> HIDE DEF S
  <2> QED
    BY <1>1, <1>2, <2>1, SetInduction
<1>4. PICK f : Good(f, len)
  BY <1>3
<1>5. f = [i \in 1..len |-> IF i = 1 THEN seqs[i] ELSE f[i - 1] \o seqs[i]]
  BY <1>4
<1> QED
  BY <1>5, Zenon

\* The partial results of FlattenSeq.
LEMMA FlattenParts ==
  ASSUME NEW S, NEW seqs \in Seq(Seq(S))
  PROVE  \E f \in [0..Len(seqs) -> Seq(S)] :
           /\ f[0] = <<>>
           /\ \A i \in 1..Len(seqs) : f[i] = f[i - 1] \o seqs[i]
           /\ f[Len(seqs)] = FlattenSeq(seqs)
<1>0. Len(seqs) \in Nat /\ <<>> \in Seq(S) /\ \A i \in 1..Len(seqs) : seqs[i] \in Seq(S)
  OBVIOUS
<1>1. CASE Len(seqs) = 0
  <2>1. seqs = <<>>
    BY <1>1
  <2>2. FlattenSeq(seqs) = seqs
    BY <1>1 DEF FlattenSeq
  <2> DEFINE f == [i \in 0..Len(seqs) |-> <<>>]
  <2>3. f \in [0..Len(seqs) -> Seq(S)] /\ f[0] = <<>> /\ f[Len(seqs)] = <<>>
    BY <1>0, <1>1
  <2>4. 1..Len(seqs) = {}
    BY <1>1
  <2> HIDE DEF f
  <2> QED
    BY <2>1, <2>2, <2>3, <2>4
<1>2. CASE Len(seqs) # 0
  <2> DEFINE flatten[i \in 1..Len(seqs)] == IF i = 1 THEN seqs[i] ELSE flatten[i-1] \o seqs[i]
  <2>1. FlattenSeq(seqs) = flatten[Len(seqs)]
    BY <1>2 DEF FlattenSeq
  <2>2. flatten = [i \in 1..Len(seqs) |-> IF i = 1 THEN seqs[i] ELSE flatten[i - 1] \o seqs[i]]
    BY <1>0, FlattenDefined
  <2> HIDE DEF flatten
  <2>3. \A i \in 1..Len(seqs) : flatten[i] = IF i = 1 THEN seqs[i] ELSE flatten[i - 1] \o seqs[i]
    BY <2>2
  <2> DEFINE T == {n \in Nat : n + 1 <= Len(seqs) => flatten[n + 1] \in Seq(S)}
  <2>4. 0 \in T
    BY <1>0, <1>2, <2>3
  <2>5. ASSUME NEW n \in T PROVE n + 1 \in T
    <3>1. SUFFICES ASSUME n + 2 <= Len(seqs) PROVE flatten[n + 2] \in Seq(S)
      OBVIOUS
    <3>2. flatten[n + 1] \in Seq(S) /\ seqs[n + 2] \in Seq(S)
      BY <1>0, <3>1
    <3>3. n + 2 \in 1..Len(seqs) /\ (n + 2) - 1 = n + 1 /\ n + 2 # 1
      BY <1>0, <3>1
    <3>4. flatten[n + 2] = flatten[n + 1] \o seqs[n + 2]
      BY <2>3, <3>3
    <3> QED
      BY <3>2, <3>4, ConcatProperties
  <2>6. \A n \in Nat : n \in T
    <3>1. T \in SUBSET Nat
      OBVIOUS
    <3> HIDE DEF T
    <3> QED
      BY <2>4, <2>5, <3>1, SetInduction
  <2>7. ASSUME NEW i \in 1..Len(seqs) PROVE flatten[i] \in Seq(S)
    <3>1. i - 1 \in Nat /\ (i - 1) + 1 = i /\ i <= Len(seqs)
      BY <1>0
    <3>2. i - 1 \in T
      BY <2>6, <3>1
    <3> QED
      BY <3>1, <3>2
  <2> DEFINE f == [i \in 0..Len(seqs) |-> IF i = 0 THEN <<>> ELSE flatten[i]]
  <2>8. f \in [0..Len(seqs) -> Seq(S)] /\ f[0] = <<>> /\ f[Len(seqs)] = FlattenSeq(seqs)
    BY <1>0, <1>2, <2>1, <2>7
  <2>9. ASSUME NEW i \in 1..Len(seqs) PROVE f[i] = f[i - 1] \o seqs[i]
    <3>1. CASE i = 1
      <4>1. <<>> \o seqs[1] = seqs[1]
        BY <1>0, <1>2, ConcatEmptySeq
      <4>2. f[1] = seqs[1] /\ f[0] = <<>>
        BY <1>0, <1>2, <2>3
      <4> QED
        BY <3>1, <4>1, <4>2
    <3>2. CASE i # 1
      <4>1. f[i] = flatten[i] /\ f[i - 1] = flatten[i - 1]
        BY <3>2
      <4> QED
        BY <2>3, <3>2, <4>1
    <3> QED
      BY <3>1, <3>2
  <2> QED
    BY <2>8, <2>9
<1> QED
  BY <1>1, <1>2

\* The i-th of several sequences, kept folded for the provers.
At(seqs, i) == seqs[i]

\* f holds the concatenations of the first sequences of seqs.
Parts(f, seqs, n) == At(f, 0) = <<>> /\ \A i \in 1..n : At(f, i) = At(f, i - 1) \o At(seqs, i)

LEMMA FlattenSplit ==
  ASSUME NEW S, NEW seqs \in Seq(Seq(S))
  PROVE  /\ Len(seqs) \in Nat /\ \A i \in 1..Len(seqs) : At(seqs, i) \in Seq(S)
         /\ \E f : /\ \A i \in 0..Len(seqs) : At(f, i) \in Seq(S)
                   /\ Parts(f, seqs, Len(seqs)) /\ At(f, Len(seqs)) = FlattenSeq(seqs)
<1>1. Len(seqs) \in Nat /\ \A i \in 1..Len(seqs) : seqs[i] \in Seq(S)
  OBVIOUS
<1>2. PICK f \in [0..Len(seqs) -> Seq(S)] :
           /\ f[0] = <<>>
           /\ \A i \in 1..Len(seqs) : f[i] = f[i - 1] \o seqs[i]
           /\ f[Len(seqs)] = FlattenSeq(seqs)
  BY FlattenParts
<1>3. \A i \in 0..Len(seqs) : f[i] \in Seq(S)
  BY <1>2, Zenon
<1> QED
  BY <1>1, <1>2, <1>3, Zenon DEF At, Parts

\* They are determined by the sequences, ...
LEMMA PartsUnique ==
  ASSUME NEW seqs, NEW n \in Nat, NEW f, NEW g, Parts(f, seqs, n), Parts(g, seqs, n)
  PROVE  At(f, n) = At(g, n)
<1> DEFINE T == {m \in Nat : m <= n => At(f, m) = At(g, m)}
<1>1. 0 \in T
  BY DEF Parts
<1>2. ASSUME NEW m \in T PROVE m + 1 \in T
  <2> SUFFICES ASSUME m + 1 <= n PROVE At(f, m + 1) = At(g, m + 1)
    OBVIOUS
  <2>1. m + 1 \in 1..n /\ (m + 1) - 1 = m /\ At(f, m) = At(g, m)
    OBVIOUS
  <2>2. At(f, m + 1) = At(f, m) \o At(seqs, m + 1) /\ At(g, m + 1) = At(g, m) \o At(seqs, m + 1)
    BY <2>1 DEF Parts
  <2> QED
    BY <2>1, <2>2
<1>3. n \in T
  <2>1. T \in SUBSET Nat
    OBVIOUS
  <2> HIDE DEF T
  <2> QED
    BY <1>1, <1>2, <2>1, SetInduction
<1> QED
  BY <1>3

LEMMA FlattenIsSeq ==
  ASSUME NEW S, NEW seqs \in Seq(Seq(S))
  PROVE  FlattenSeq(seqs) \in Seq(S)
<1>1. PICK f : (\A i \in 0..Len(seqs) : At(f, i) \in Seq(S)) /\ At(f, Len(seqs)) = FlattenSeq(seqs)
  BY FlattenSplit, Zenon
<1>2. Len(seqs) \in 0..Len(seqs)
  OBVIOUS
<1> QED
  BY <1>1, <1>2, Zenon

\* ... so that one more sequence comes after the others.
LEMMA FlattenAppend ==
  ASSUME NEW S, NEW seqs \in Seq(Seq(S)), NEW x \in Seq(S)
  PROVE  FlattenSeq(Append(seqs, x)) = FlattenSeq(seqs) \o x
<1> DEFINE more == Append(seqs, x)
           n == Len(seqs)
<1>1. /\ more \in Seq(Seq(S)) /\ Len(more) = n + 1 /\ n \in Nat
      /\ At(more, n + 1) = x /\ \A i \in 1..n : At(more, i) = At(seqs, i)
  BY AppendProperties DEF At
<1> HIDE DEF more, n
<1>2. PICK f : Parts(f, seqs, n) /\ At(f, n) = FlattenSeq(seqs)
  BY FlattenSplit, Zenon DEF n
<1>3. PICK g : Parts(g, more, n + 1) /\ At(g, n + 1) = FlattenSeq(more)
  <2>1. \E g : Parts(g, more, Len(more)) /\ At(g, Len(more)) = FlattenSeq(more)
    BY <1>1, FlattenSplit, Zenon
  <2> QED
    BY <1>1, <2>1
<1>4. Parts(g, seqs, n)
  <2>1. ASSUME NEW i \in 1..n PROVE At(g, i) = At(g, i - 1) \o At(seqs, i)
    <3>1. i \in 1..(n + 1) /\ At(more, i) = At(seqs, i)
      BY <1>1
    <3>2. At(g, i) = At(g, i - 1) \o At(more, i)
      BY <1>3, <3>1 DEF Parts
    <3> QED
      BY <3>1, <3>2
  <2> QED
    BY <1>3, <2>1 DEF Parts
<1>5. At(f, n) = At(g, n)
  BY <1>1, <1>2, <1>4, PartsUnique
<1>6. n + 1 \in 1..(n + 1) /\ (n + 1) - 1 = n
  BY <1>1
<1>7. At(g, n + 1) = At(g, n) \o x
  BY <1>1, <1>3, <1>6 DEF Parts
<1> QED
  BY <1>2, <1>3, <1>5, <1>7 DEF more

\* Each of them starts the next, ...
LEMMA PartsGrow ==
  ASSUME NEW S, NEW n \in Nat, NEW seqs, NEW f, Parts(f, seqs, n), NEW i \in 1..n,
         At(f, i - 1) \in Seq(S), At(seqs, i) \in Seq(S)
  PROVE  /\ Len(At(f, i)) \in Nat /\ Len(At(f, i - 1)) \in Nat /\ Len(At(seqs, i)) \in Nat
         /\ Len(At(f, i)) = Len(At(f, i - 1)) + Len(At(seqs, i))
         /\ \A p \in 1..Len(At(f, i - 1)) : At(f, i)[p] = At(f, i - 1)[p]
         /\ \A p \in 1..Len(At(seqs, i)) : At(f, i)[Len(At(f, i - 1)) + p] = At(seqs, i)[p]
<1> DEFINE s == At(f, i - 1)
           t == At(seqs, i)
<1>1. At(f, i) = s \o t
  BY DEF Parts
<1>2. s \in Seq(S) /\ t \in Seq(S)
  OBVIOUS
<1> HIDE DEF s, t
<1>3. /\ Len(s \o t) = Len(s) + Len(t) /\ Len(s) \in Nat /\ Len(t) \in Nat
      /\ \A p \in 1..Len(s) : (s \o t)[p] = s[p]
      /\ \A p \in 1..Len(t) : (s \o t)[Len(s) + p] = t[p]
  BY <1>2
<1>4. Len(s \o t) \in Nat
  BY <1>3
<1> QED
  BY <1>1, <1>3, <1>4, Zenon DEF s, t

\* ... and so all that come after it.
LEMMA PartsStart ==
  ASSUME NEW S, NEW n \in Nat, NEW seqs, NEW f, Parts(f, seqs, n),
         \A i \in 0..n : At(f, i) \in Seq(S), \A i \in 1..n : At(seqs, i) \in Seq(S), NEW i \in 0..n
  PROVE  Len(At(f, i)) <= Len(At(f, n)) /\ \A p \in 1..Len(At(f, i)) : At(f, n)[p] = At(f, i)[p]
<1> DEFINE Starts(m) == Len(At(f, i)) <= Len(At(f, m)) /\ \A p \in 1..Len(At(f, i)) : At(f, m)[p] = At(f, i)[p]
           T == {d \in Nat : i + d <= n => Starts(i + d)}
<1>0. i \in Nat /\ Len(At(f, i)) \in Nat
  OBVIOUS
<1>1. Starts(i + 0)
  <2>1. i + 0 = i
    BY <1>0
  <2>2. Starts(i)
    BY <1>0
  <2> QED
    BY <2>1, <2>2
<1>2. ASSUME NEW d \in Nat, i + d <= n => Starts(i + d), i + (d + 1) <= n
      PROVE  Starts(i + (d + 1))
  <2> DEFINE m == i + (d + 1)
  <2>1. m \in 1..n /\ m - 1 = i + d /\ i + d <= n /\ m - 1 \in 0..n
    BY <1>0, <1>2
  <2> HIDE DEF m
  <2>2. Starts(m - 1)
    BY <1>2, <2>1
  <2>3. /\ Len(At(f, m)) \in Nat /\ Len(At(f, m - 1)) \in Nat /\ Len(At(seqs, m)) \in Nat
        /\ Len(At(f, m)) = Len(At(f, m - 1)) + Len(At(seqs, m))
        /\ \A p \in 1..Len(At(f, m - 1)) : At(f, m)[p] = At(f, m - 1)[p]
    <3>1. At(f, m - 1) \in Seq(S) /\ At(seqs, m) \in Seq(S)
      BY <2>1
    <3> QED
      BY <2>1, <3>1, PartsGrow
  <2>4. ASSUME NEW p \in 1..Len(At(f, i)) PROVE At(f, m)[p] = At(f, i)[p]
    <3>1. p \in 1..Len(At(f, m - 1))
      BY <1>0, <2>2, <2>3
    <3> QED
      BY <2>2, <2>3, <3>1
  <2>5. Len(At(f, i)) <= Len(At(f, m))
    BY <1>0, <2>2, <2>3
  <2>6. Starts(m)
    BY <2>4, <2>5
  <2> QED
    BY <2>6 DEF m
<1> HIDE DEF Starts
<1>3. 0 \in T /\ \A d \in T : d + 1 \in T
  <2>1. 0 \in Nat /\ \A d \in Nat : d + 1 \in Nat
    OBVIOUS
  <2> QED
    BY <1>1, <1>2, <2>1, Zenon
<1>4. n - i \in T
  <2>1. T \in SUBSET Nat /\ n - i \in Nat
    BY <1>0
  <2> HIDE DEF T
  <2> QED
    BY <1>3, <2>1, SetInduction
<1>5. i + (n - i) = n
  BY <1>0
<1>6. Starts(n)
  BY <1>0, <1>4, <1>5
<1> QED
  BY <1>6 DEF Starts

\* Where each of the sequences starts in their concatenation.
Layout(start, seqs, all, n) ==
  /\ start \in [1..(n + 1) -> Nat]
  /\ start[1] = 0 /\ start[n + 1] = Len(all)
  /\ \A i \in 1..n :
       /\ start[i + 1] = start[i] + Len(At(seqs, i)) /\ start[i + 1] <= Len(all)
       /\ \A p \in 1..Len(At(seqs, i)) : all[start[i] + p] = At(seqs, i)[p]

LEMMA FlattenLayout ==
  ASSUME NEW S, NEW seqs \in Seq(Seq(S))
  PROVE  \E start : Layout(start, seqs, FlattenSeq(seqs), Len(seqs))
<1> DEFINE n == Len(seqs)
           all == FlattenSeq(seqs)
<1>0. n \in Nat /\ \A i \in 1..n : At(seqs, i) \in Seq(S)
  BY FlattenSplit, Zenon
<1>1. PICK f : /\ \A i \in 0..n : At(f, i) \in Seq(S)
               /\ Parts(f, seqs, n) /\ At(f, n) = all
  BY FlattenSplit, Zenon
<1> HIDE DEF n, all
<1>2. At(f, 0) = <<>>
  BY <1>1 DEF Parts
<1> DEFINE start == [i \in 1..(n + 1) |-> Len(At(f, i - 1))]
<1>7. start \in [1..(n + 1) -> Nat]
  <2>1. ASSUME NEW i \in 1..(n + 1) PROVE Len(At(f, i - 1)) \in Nat
    <3>1. i - 1 \in 0..n
      BY <1>0
    <3>2. At(f, i - 1) \in Seq(S)
      BY <1>1, <3>1
    <3> QED
      BY <3>2
  <2> QED
    BY <2>1
<1>8. start[1] = 0 /\ start[n + 1] = Len(all)
  <2>1. start[1] = Len(At(f, 0)) /\ start[n + 1] = Len(At(f, n))
    BY <1>0
  <2> HIDE DEF start
  <2> QED
    BY <1>1, <1>2, <2>1
<1>9. ASSUME NEW i \in 1..n
      PROVE  /\ start[i + 1] = start[i] + Len(At(seqs, i)) /\ start[i + 1] <= Len(all)
             /\ \A p \in 1..Len(At(seqs, i)) : all[start[i] + p] = At(seqs, i)[p]
  <2>1. i \in 1..(n + 1) /\ i + 1 \in 1..(n + 1) /\ (i + 1) - 1 = i /\ i \in 0..n /\ i - 1 \in 0..n
    BY <1>0
  <2>2. start[i] = Len(At(f, i - 1)) /\ start[i + 1] = Len(At(f, i))
    BY <2>1
  <2> HIDE DEF start
  <2>3. /\ Len(At(f, i)) \in Nat /\ Len(At(f, i - 1)) \in Nat /\ Len(At(seqs, i)) \in Nat
        /\ Len(At(f, i)) = Len(At(f, i - 1)) + Len(At(seqs, i))
        /\ \A p \in 1..Len(At(seqs, i)) : At(f, i)[Len(At(f, i - 1)) + p] = At(seqs, i)[p]
    <3>1. At(f, i - 1) \in Seq(S) /\ At(seqs, i) \in Seq(S)
      BY <1>0, <1>1, <2>1
    <3> QED
      BY <1>0, <1>1, <3>1, PartsGrow
  <2>4. Len(At(f, i)) <= Len(all) /\ \A p \in 1..Len(At(f, i)) : all[p] = At(f, i)[p]
    BY <1>0, <1>1, <2>1, PartsStart
  <2>5. ASSUME NEW p \in 1..Len(At(seqs, i)) PROVE all[start[i] + p] = At(seqs, i)[p]
    <3>1. start[i] + p \in 1..Len(At(f, i))
      BY <2>2, <2>3
    <3>2. At(f, i)[start[i] + p] = At(seqs, i)[p]
      BY <2>2, <2>3
    <3> QED
      BY <2>4, <3>1, <3>2
  <2> QED
    BY <2>2, <2>3, <2>4, <2>5
<1> HIDE DEF start
<1>10. Layout(start, seqs, all, n)
  BY <1>7, <1>8, <1>9 DEF Layout
<1> QED
  BY <1>10 DEF n, all
-----------------------------------------------------------------------------
(* The cells of a chain.                                                   *)

Cell == Nat \X Nat \X Nat

\* What a chain is.
LEMMA ChainFacts ==
  ASSUME NEW chain \in Chains, NEW whole \in BOOLEAN
  PROVE  /\ Len(chain) \in Nat \ {0} /\ PerSgl \in Nat \ {0} /\ Page \in Nat \ {0}
         /\ \A i \in 1..Len(chain) : EntrySum(chain, i) \in 1..PerSgl
         /\ \A i \in 1..Len(chain) : \A j \in 1..EntrySum(chain, i) :
              EntrySize(chain, i, j, whole) \in 1..Page
         /\ \A i \in 1..Len(chain) : \A j \in 1..EntrySum(chain, i) :
              EntrySize(chain, i, j, whole) \in Nat \ {0}
<1>1. chain \in Seq(Seq(Nat)) /\ chain # <<>> /\ PerSgl \in Nat \ {0} /\ Page \in Nat \ {0}
  BY RadosOpAssumption
<1>2. Len(chain) \in Nat \ {0} /\ DOMAIN chain = 1..Len(chain)
  BY <1>1
<1>3. \A i \in 1..Len(chain) : Len(chain[i]) \in 1..PerSgl
  BY <1>2, RadosOpAssumption, Zenon
<1>4. ASSUME NEW i \in 1..Len(chain)
      PROVE  DOMAIN chain[i] = 1..Len(chain[i])
  BY <1>1, <1>2
<1>5. \A i \in 1..Len(chain) : \A j \in 1..Len(chain[i]) : chain[i][j] \in 1..Page
  BY <1>2, <1>4, RadosOpAssumption, Zenon
<1>6. Page \in 1..Page
  BY <1>1
<1>7. /\ \A i \in 1..Len(chain) : EntrySum(chain, i) \in 1..PerSgl
      /\ \A i \in 1..Len(chain) : \A j \in 1..EntrySum(chain, i) :
              EntrySize(chain, i, j, whole) \in 1..Page
  BY <1>3, <1>5, <1>6, Zenon DEF EntrySum, EntrySize
<1>8. \A s \in 1..Page : s \in Nat \ {0}
  BY <1>1
<1> QED
  BY <1>1, <1>2, <1>7, <1>8, Zenon

LEMMA EntryCellsFacts ==
  ASSUME NEW i \in Nat, NEW j \in Nat, NEW size \in Nat
  PROVE  /\ EntryCells(i, j, size) \in Seq(Cell) /\ Len(EntryCells(i, j, size)) = size
         /\ \A o \in 1..size : EntryCells(i, j, size)[o] = <<i, j, o>>
<1>1. \A o \in 1..size : <<i, j, o>> \in Cell
  BY DEF Cell
<1>2. EntryCells(i, j, size) = [o \in 1..size |-> <<i, j, o>>]
  BY DEF EntryCells
<1>3. EntryCells(i, j, size) \in Seq(Cell)
  BY <1>1, <1>2
<1> QED
  BY <1>2, <1>3

\* Where each entry of a chain starts among its cells; an entry that is not in
\* use starts where the next SGL does.
Pos(off, i, j) == off[i][j]

Offsets(off, chain, whole) ==
  /\ ChainCells(chain, whole) \in Seq(Cell) /\ Capacity(chain, whole) \in Nat
  /\ \A i \in 1..(Len(chain) + 1), j \in 1..(PerSgl + 1) : Pos(off, i, j) \in Nat
  /\ Pos(off, 1, 1) = 0 /\ Pos(off, Len(chain) + 1, 1) = Capacity(chain, whole)
  /\ \A i \in 1..Len(chain) :
       /\ \A j \in 1..EntrySum(chain, i) :
            /\ Pos(off, i, j + 1) = Pos(off, i, j) + EntrySize(chain, i, j, whole)
            /\ Pos(off, i, j + 1) <= Capacity(chain, whole)
            /\ \A o \in 1..EntrySize(chain, i, j, whole) :
                 ChainCells(chain, whole)[Pos(off, i, j) + o] = <<i, j, o>>
       /\ \A j \in (EntrySum(chain, i) + 1)..(PerSgl + 1) : Pos(off, i, j) = Pos(off, i + 1, 1)

LEMMA ChainOffsets ==
  ASSUME NEW chain \in Chains, NEW whole \in BOOLEAN
  PROVE  \E off : Offsets(off, chain, whole)
<1> DEFINE n == Len(chain)
           w(i) == EntrySum(chain, i)
           size(i, j) == EntrySize(chain, i, j, whole)
           sgl(i) == [j \in 1..w(i) |-> EntryCells(i, j, size(i, j))]
           all == [i \in 1..n |-> FlattenSeq(sgl(i))]
<1>0. /\ n \in Nat \ {0} /\ PerSgl \in Nat \ {0}
      /\ \A i \in 1..n : w(i) \in 1..PerSgl
      /\ \A i \in 1..n : \A j \in 1..w(i) : size(i, j) \in Nat \ {0}
  BY ChainFacts
<1>1. ChainCells(chain, whole) = FlattenSeq(all)
  BY DEF ChainCells
<1> HIDE DEF n, w, size, all
<1>2. ASSUME NEW i \in 1..n
      PROVE  /\ sgl(i) \in Seq(Seq(Cell)) /\ Len(sgl(i)) = w(i)
             /\ \A j \in 1..w(i) : At(sgl(i), j) = EntryCells(i, j, size(i, j))
  <2>1. w(i) \in Nat
    BY <1>0
  <2>2. ASSUME NEW j \in 1..w(i) PROVE EntryCells(i, j, size(i, j)) \in Seq(Cell)
    <3>1. i \in Nat /\ j \in Nat /\ size(i, j) \in Nat
      BY <1>0, <2>1
    <3> QED
      BY <3>1, EntryCellsFacts
  <2>3. sgl(i) \in [1..w(i) -> Seq(Cell)]
    BY <2>2
  <2>4. sgl(i) \in Seq(Seq(Cell))
    BY <2>1, <2>3
  <2>5. DOMAIN sgl(i) = 1..w(i)
    OBVIOUS
  <2>6. Len(sgl(i)) = w(i)
    BY <2>1, <2>4, <2>5
  <2>7. \A j \in 1..w(i) : At(sgl(i), j) = EntryCells(i, j, size(i, j))
    BY DEF At
  <2> QED
    BY <2>4, <2>6, <2>7
<1> HIDE DEF sgl
<1>3. ASSUME NEW i \in 1..n
      PROVE  At(all, i) \in Seq(Cell) /\ \E start : Layout(start, sgl(i), At(all, i), w(i))
  <2>1. At(all, i) = FlattenSeq(sgl(i))
    BY DEF At, all
  <2>2. FlattenSeq(sgl(i)) \in Seq(Cell)
    BY <1>2, FlattenIsSeq
  <2>3. \E start : Layout(start, sgl(i), FlattenSeq(sgl(i)), Len(sgl(i)))
    BY <1>2, FlattenLayout
  <2>4. Len(sgl(i)) = w(i)
    BY <1>2
  <2> QED
    BY <2>1, <2>2, <2>3, <2>4
<1>4. all \in Seq(Seq(Cell)) /\ Len(all) = n
  <2>1. \A i \in 1..n : FlattenSeq(sgl(i)) \in Seq(Cell)
    BY <1>2, FlattenIsSeq
  <2>2. all \in [1..n -> Seq(Cell)]
    BY <2>1 DEF all
  <2>3. n \in Nat
    BY <1>0
  <2>4. all \in Seq(Seq(Cell))
    BY <2>2, <2>3
  <2>5. DOMAIN all = 1..n
    BY DEF all
  <2> QED
    BY <2>3, <2>4, <2>5
<1> DEFINE flat == FlattenSeq(all)
<1>5. flat \in Seq(Cell) /\ Len(flat) \in Nat
  <2>1. flat \in Seq(Cell)
    BY <1>4, FlattenIsSeq
  <2> HIDE DEF flat
  <2> QED
    BY <2>1
<1>6. PICK outer : Layout(outer, all, flat, n)
  BY <1>4, FlattenLayout
<1> HIDE DEF flat
<1> DEFINE inner == [i \in 1..n |-> CHOOSE start : Layout(start, sgl(i), At(all, i), w(i))]
<1>7. ASSUME NEW i \in 1..n PROVE Layout(inner[i], sgl(i), At(all, i), w(i))
  BY <1>3
<1> HIDE DEF inner
<1>8. ASSUME NEW i \in 1..n
      PROVE  /\ outer[i] \in Nat /\ outer[i + 1] \in Nat /\ Len(At(all, i)) \in Nat
             /\ outer[i + 1] = outer[i] + Len(At(all, i)) /\ outer[i + 1] <= Len(flat)
             /\ \A p \in 1..Len(At(all, i)) : flat[outer[i] + p] = At(all, i)[p]
  <2>1. i \in 1..(n + 1) /\ i + 1 \in 1..(n + 1)
    BY <1>0
  <2>2. At(all, i) \in Seq(Cell)
    BY <1>3
  <2> QED
    BY <1>6, <2>1, <2>2 DEF Layout
<1>9. ASSUME NEW i \in 1..n, NEW j \in 1..w(i)
      PROVE  /\ inner[i][j] \in Nat /\ inner[i][j + 1] \in Nat
             /\ inner[i][j + 1] = inner[i][j] + size(i, j) /\ inner[i][j + 1] <= Len(At(all, i))
             /\ \A o \in 1..size(i, j) : At(all, i)[inner[i][j] + o] = <<i, j, o>>
  <2>1. j \in 1..(w(i) + 1) /\ j + 1 \in 1..(w(i) + 1) /\ i \in Nat /\ j \in Nat /\ size(i, j) \in Nat
    BY <1>0
  <2>2. inner[i] \in [1..(w(i) + 1) -> Nat]
    BY <1>7 DEF Layout
  <2>3. At(sgl(i), j) = EntryCells(i, j, size(i, j))
    BY <1>2
  <2>a. /\ inner[i][j + 1] = inner[i][j] + Len(At(sgl(i), j))
        /\ inner[i][j + 1] <= Len(At(all, i))
        /\ \A o \in 1..Len(At(sgl(i), j)) : At(all, i)[inner[i][j] + o] = At(sgl(i), j)[o]
    BY <1>7, Zenon DEF Layout
  <2>4. /\ inner[i][j + 1] = inner[i][j] + Len(EntryCells(i, j, size(i, j)))
        /\ inner[i][j + 1] <= Len(At(all, i))
        /\ \A o \in 1..Len(EntryCells(i, j, size(i, j))) :
             At(all, i)[inner[i][j] + o] = EntryCells(i, j, size(i, j))[o]
    BY <2>3, <2>a, Zenon
  <2>5. /\ Len(EntryCells(i, j, size(i, j))) = size(i, j)
        /\ \A o \in 1..size(i, j) : EntryCells(i, j, size(i, j))[o] = <<i, j, o>>
    BY <2>1, EntryCellsFacts
  <2>6. inner[i][j] \in Nat /\ inner[i][j + 1] \in Nat
    BY <2>1, <2>2
  <2> QED
    BY <2>4, <2>5, <2>6
<1>10. ASSUME NEW i \in 1..n
       PROVE  inner[i][1] = 0 /\ inner[i][w(i) + 1] = Len(At(all, i))
  BY <1>7 DEF Layout
<1> DEFINE off == [i \in 1..(n + 1) |-> [j \in 1..(PerSgl + 1) |->
                     IF i = n + 1 THEN Len(flat)
                     ELSE outer[i] + inner[i][IF j <= w(i) THEN j ELSE w(i) + 1]]]
<1>11. off \in [1..(n + 1) -> [1..(PerSgl + 1) -> Nat]]
  <2>1. ASSUME NEW i \in 1..(n + 1), NEW j \in 1..(PerSgl + 1), i # n + 1
        PROVE  outer[i] + inner[i][IF j <= w(i) THEN j ELSE w(i) + 1] \in Nat
    <3>1. i \in 1..n
      BY <1>0, <2>1
    <3>2. outer[i] \in Nat /\ inner[i] \in [1..(w(i) + 1) -> Nat] /\ w(i) \in Nat
      BY <1>0, <1>7, <1>8, <3>1 DEF Layout
    <3>3. (IF j <= w(i) THEN j ELSE w(i) + 1) \in 1..(w(i) + 1)
      BY <1>0, <3>2
    <3>4. inner[i][IF j <= w(i) THEN j ELSE w(i) + 1] \in Nat
      BY <3>2, <3>3
    <3> QED
      BY <3>2, <3>4
  <2> QED
    BY <1>5, <2>1
<1>12. ASSUME NEW i \in 1..n, NEW j \in 1..w(i)
       PROVE  /\ off[i][j] = outer[i] + inner[i][j]
              /\ off[i][j + 1] = outer[i] + inner[i][j + 1]
  <2>1. i \in 1..(n + 1) /\ i # n + 1 /\ j \in 1..(PerSgl + 1) /\ j + 1 \in 1..(PerSgl + 1)
        /\ j <= w(i) /\ (IF j + 1 <= w(i) THEN j + 1 ELSE w(i) + 1) = j + 1
    BY <1>0
  <2> QED
    BY <2>1
<1>13. ASSUME NEW i \in 1..n, NEW j \in (w(i) + 1)..(PerSgl + 1)
       PROVE  off[i][j] = outer[i + 1]
  <2>1. i \in 1..(n + 1) /\ i # n + 1 /\ j \in 1..(PerSgl + 1) /\ ~(j <= w(i))
    BY <1>0
  <2>2. off[i][j] = outer[i] + inner[i][w(i) + 1]
    BY <2>1
  <2> HIDE DEF off
  <2> QED
    BY <1>8, <1>10, <2>2
<1>14. ASSUME NEW i \in 1..n PROVE off[i][1] = outer[i]
  <2>1. 1 \in 1..w(i)
    BY <1>0
  <2>2. off[i][1] = outer[i] + inner[i][1]
    BY <1>12, <2>1
  <2> HIDE DEF off
  <2> QED
    BY <1>8, <1>10, <2>2
<1>15. off[n + 1][1] = Len(flat) /\ outer[n + 1] = Len(flat) /\ outer[1] = 0
  <2>1. n + 1 \in 1..(n + 1) /\ 1 \in 1..(PerSgl + 1)
    BY <1>0
  <2>2. off[n + 1][1] = Len(flat)
    BY <2>1
  <2> QED
    BY <1>6, <2>2 DEF Layout
<1> HIDE DEF off
<1>16. ASSUME NEW i \in 1..n, NEW j \in (w(i) + 1)..(PerSgl + 1)
       PROVE  off[i][j] = off[i + 1][1]
  <2>1. CASE i = n
    BY <1>13, <1>15, <2>1
  <2>2. CASE i # n
    <3>1. i + 1 \in 1..n
      BY <1>0, <2>2
    <3> QED
      BY <1>13, <1>14, <3>1
  <2> QED
    BY <2>1, <2>2
<1>17. ASSUME NEW i \in 1..n, NEW j \in 1..w(i)
       PROVE  /\ off[i][j + 1] = off[i][j] + size(i, j)
              /\ off[i][j + 1] <= Len(flat)
              /\ \A o \in 1..size(i, j) : flat[off[i][j] + o] = <<i, j, o>>
  <2>1. size(i, j) \in Nat /\ Len(flat) \in Nat
    BY <1>0, <1>5
  <2>a. /\ outer[i] \in Nat /\ outer[i + 1] \in Nat /\ Len(At(all, i)) \in Nat
        /\ outer[i + 1] = outer[i] + Len(At(all, i)) /\ outer[i + 1] <= Len(flat)
    BY <1>8
  <2>b. /\ inner[i][j] \in Nat /\ inner[i][j + 1] \in Nat
        /\ inner[i][j + 1] = inner[i][j] + size(i, j) /\ inner[i][j + 1] <= Len(At(all, i))
    BY <1>9
  <2>2. off[i][j] = outer[i] + inner[i][j] /\ off[i][j + 1] = outer[i] + inner[i][j + 1]
    BY <1>12
  <2> DEFINE a == inner[i][j]
             b == inner[i][j + 1]
             m == Len(At(all, i))
  <2> HIDE DEF a, b, m
  <2>c. /\ outer[i] \in Nat /\ m \in Nat /\ outer[i] + m <= Len(flat)
        /\ a \in Nat /\ b \in Nat /\ b = a + size(i, j) /\ b <= m
    BY <2>a, <2>b DEF a, b, m
  <2>d. off[i][j] = outer[i] + a /\ off[i][j + 1] = outer[i] + b
    BY <2>2 DEF a, b
  <2>3. off[i][j + 1] = off[i][j] + size(i, j) /\ off[i][j + 1] <= Len(flat)
    BY <2>1, <2>c, <2>d
  <2>4. ASSUME NEW o \in 1..size(i, j) PROVE flat[off[i][j] + o] = <<i, j, o>>
    <3>1. a + o \in 1..m
      BY <2>1, <2>c
    <3>2. flat[outer[i] + (inner[i][j] + o)] = At(all, i)[inner[i][j] + o]
      BY <1>8, <3>1 DEF a, m
    <3>3. outer[i] + (inner[i][j] + o) = off[i][j] + o
      <4>1. outer[i] + (a + o) = (outer[i] + a) + o
        BY <2>1, <2>c
      <4> QED
        BY <2>d, <4>1 DEF a
    <3>4. At(all, i)[inner[i][j] + o] = <<i, j, o>>
      BY <1>9
    <3> QED
      BY <3>2, <3>3, <3>4
  <2> QED
    BY <2>3, <2>4
<1>18. off[1][1] = 0
  <2>1. 1 \in 1..n
    BY <1>0
  <2> QED
    BY <1>14, <1>15, <2>1
<1>19. ChainCells(chain, whole) = flat /\ Capacity(chain, whole) = Len(flat)
  BY <1>1 DEF flat, Capacity
<1>20. Offsets(off, chain, whole)
  <2>1. \A i \in 1..(n + 1), j \in 1..(PerSgl + 1) : off[i][j] \in Nat
    BY <1>11, Zenon
  <2> QED
    BY <1>5, <1>15, <1>16, <1>17, <1>18, <1>19, <2>1, Zenon DEF Offsets, Pos, n, w, size
<1> QED
  BY <1>20

\* Where the next entry starts.
LEMMA NextEntry ==
  ASSUME NEW chain \in Chains, NEW whole \in BOOLEAN, NEW off, Offsets(off, chain, whole),
         NEW i \in 1..Len(chain), NEW j \in 1..PerSgl
  PROVE  /\ Pos(off, i, j) \in Nat /\ Pos(off, i, j + 1) \in Nat /\ Pos(off, i + 1, 1) \in Nat
         /\ EntrySum(chain, i) \in 1..PerSgl
         /\ j <= EntrySum(chain, i) =>
              /\ EntrySize(chain, i, j, whole) \in Nat \ {0}
              /\ Pos(off, i, j + 1) = Pos(off, i, j) + EntrySize(chain, i, j, whole)
              /\ Pos(off, i, j + 1) <= Capacity(chain, whole)
              /\ \A o \in 1..EntrySize(chain, i, j, whole) :
                   ChainCells(chain, whole)[Pos(off, i, j) + o] = <<i, j, o>>
         /\ j >= EntrySum(chain, i) => Pos(off, i, j + 1) = Pos(off, i + 1, 1)
         /\ j > EntrySum(chain, i) => Pos(off, i, j) = Pos(off, i + 1, 1)
         /\ i = Len(chain) => Pos(off, i + 1, 1) = Capacity(chain, whole)
<1>1. /\ i \in 1..(Len(chain) + 1) /\ i + 1 \in 1..(Len(chain) + 1) /\ 1 \in 1..(PerSgl + 1)
      /\ j \in 1..(PerSgl + 1) /\ j + 1 \in 1..(PerSgl + 1) /\ EntrySum(chain, i) \in 1..PerSgl
      /\ j <= EntrySum(chain, i) => j \in 1..EntrySum(chain, i)
      /\ j >= EntrySum(chain, i) => j + 1 \in (EntrySum(chain, i) + 1)..(PerSgl + 1)
      /\ j > EntrySum(chain, i) => j \in (EntrySum(chain, i) + 1)..(PerSgl + 1)
  BY ChainFacts
<1>2. j <= EntrySum(chain, i) => EntrySize(chain, i, j, whole) \in Nat \ {0}
  BY <1>1, ChainFacts
<1> QED
  BY <1>1, <1>2, Zenon DEF Offsets

\* Every place among the cells belongs to an entry.
LEMMA PlaceOfEntry ==
  ASSUME NEW chain \in Chains, NEW whole \in BOOLEAN, NEW off, Offsets(off, chain, whole),
         NEW p \in 1..Capacity(chain, whole)
  PROVE  \E i \in 1..Len(chain) : \E j \in 1..EntrySum(chain, i) : \E o \in 1..EntrySize(chain, i, j, whole) :
           p = Pos(off, i, j) + o
<1> DEFINE cap == Capacity(chain, whole)
           n == Len(chain)
           Found(q) == \E i \in 1..n : \E j \in 1..EntrySum(chain, i) : \E o \in 1..EntrySize(chain, i, j, whole) :
                         q = Pos(off, i, j) + o
           T == {q \in Nat : q + 1 <= cap => Found(q + 1)}
<1>0. cap \in Nat /\ n \in Nat \ {0} /\ PerSgl \in Nat \ {0}
  BY ChainFacts DEF Offsets
<1> HIDE DEF cap, n
<1>1. \A i \in 1..n, j \in Nat : j \in 1..EntrySum(chain, i) => j \in 1..PerSgl
  <2>1. ASSUME NEW i \in 1..n PROVE EntrySum(chain, i) \in 1..PerSgl
    BY ChainFacts DEF n
  <2> QED
    BY <1>0, <2>1
<1>2. ASSUME NEW i \in 1..n PROVE 1 \in 1..EntrySum(chain, i) /\ 1 \in 1..EntrySize(chain, i, 1, whole)
  <2>1. EntrySum(chain, i) \in 1..PerSgl
    BY ChainFacts DEF n
  <2>2. 1 \in 1..EntrySum(chain, i)
    BY <1>0, <2>1
  <2>3. EntrySize(chain, i, 1, whole) \in Nat \ {0}
    BY <2>2, ChainFacts DEF n
  <2> QED
    BY <2>2, <2>3
<1>3. Found(1)
  <2>1. 1 \in 1..n /\ Pos(off, 1, 1) = 0
    BY <1>0 DEF Offsets
  <2>2. 1 = Pos(off, 1, 1) + 1
    BY <2>1
  <2> QED
    BY <1>2, <2>1, <2>2
<1>4. ASSUME NEW q \in Nat, q + 1 <= cap => Found(q + 1), q + 2 <= cap
      PROVE  Found(q + 2)
  <2>1. PICK i \in 1..n : \E j \in 1..EntrySum(chain, i) : \E o \in 1..EntrySize(chain, i, j, whole) :
          q + 1 = Pos(off, i, j) + o
    BY <1>0, <1>4
  <2>2. PICK j \in 1..EntrySum(chain, i) : \E o \in 1..EntrySize(chain, i, j, whole) : q + 1 = Pos(off, i, j) + o
    BY <2>1
  <2>3. PICK o \in 1..EntrySize(chain, i, j, whole) : q + 1 = Pos(off, i, j) + o
    BY <2>2
  <2>a. EntrySum(chain, i) \in 1..PerSgl
    BY ChainFacts DEF n
  <2>b. j \in 1..PerSgl /\ i \in 1..Len(chain) /\ j <= EntrySum(chain, i)
    BY <1>0, <2>a DEF n
  <2>4. /\ Pos(off, i, j) \in Nat /\ Pos(off, i, j + 1) \in Nat
        /\ EntrySize(chain, i, j, whole) \in Nat \ {0}
        /\ Pos(off, i, j + 1) = Pos(off, i, j) + EntrySize(chain, i, j, whole)
        /\ j >= EntrySum(chain, i) => Pos(off, i, j + 1) = Pos(off, i + 1, 1)
        /\ i = n => Pos(off, i + 1, 1) = cap
    BY <2>b, NextEntry DEF cap, n
  <2>5. CASE o < EntrySize(chain, i, j, whole)
    <3>1. o + 1 \in 1..EntrySize(chain, i, j, whole) /\ q + 2 = Pos(off, i, j) + (o + 1)
      BY <2>3, <2>4, <2>5
    <3> QED
      BY <3>1
  <2>6. CASE o = EntrySize(chain, i, j, whole) /\ j < EntrySum(chain, i)
    <3>1. j + 1 \in 1..EntrySum(chain, i) /\ q + 2 = Pos(off, i, j + 1) + 1
      BY <2>3, <2>4, <2>6, <2>a
    <3>2. EntrySize(chain, i, j + 1, whole) \in Nat \ {0}
      BY <3>1, ChainFacts DEF n
    <3>3. 1 \in 1..EntrySize(chain, i, j + 1, whole)
      BY <3>2
    <3> QED
      BY <3>1, <3>3
  <2>7. CASE o = EntrySize(chain, i, j, whole) /\ j >= EntrySum(chain, i)
    <3>1. q + 2 = Pos(off, i + 1, 1) + 1
      BY <2>3, <2>4, <2>7
    <3>2. i # n
      BY <1>0, <1>4, <2>3, <2>4, <2>7
    <3>3. i + 1 \in 1..n
      BY <1>0, <3>2
    <3> QED
      BY <1>2, <3>1, <3>3
  <2> QED
    BY <2>3, <2>4, <2>5, <2>6, <2>7, <2>a
<1> HIDE DEF Found
<1>5. 0 \in T /\ \A q \in T : q + 1 \in T
  <2>1. 0 \in Nat /\ 0 + 1 = 1 /\ \A q \in Nat : q + 1 \in Nat /\ (q + 1) + 1 = q + 2
    OBVIOUS
  <2> QED
    BY <1>3, <1>4, <2>1, Zenon
<1>6. p - 1 \in T
  <2>1. T \in SUBSET Nat /\ p - 1 \in Nat
    BY <1>0 DEF cap
  <2> HIDE DEF T
  <2> QED
    BY <1>5, <2>1, SetInduction
<1>7. (p - 1) + 1 = p /\ p <= cap
  BY <1>0 DEF cap
<1>8. Found(p)
  BY <1>6, <1>7
<1> QED
  BY <1>8 DEF Found, n

\* The cells of a chain: each has one place, and none is outside.
LEMMA CellsOrdered ==
  ASSUME NEW chain \in Chains, NEW whole \in BOOLEAN
  PROVE  /\ ChainCells(chain, whole) \in Seq(Cell)
         /\ Capacity(chain, whole) \in Nat /\ Len(ChainCells(chain, whole)) = Capacity(chain, whole)
         /\ \A cell \in Cells(chain, whole) : \E p \in 1..Capacity(chain, whole) :
              ChainCells(chain, whole)[p] = cell
         /\ \A p, q \in 1..Capacity(chain, whole) :
              ChainCells(chain, whole)[p] = ChainCells(chain, whole)[q] => p = q
         /\ \A p \in 1..Capacity(chain, whole) : ChainCells(chain, whole)[p] # Outside
<1> DEFINE C == ChainCells(chain, whole)
           cap == Capacity(chain, whole)
<1>1. PICK off : Offsets(off, chain, whole)
  BY ChainOffsets
<1>2. C \in Seq(Cell) /\ cap \in Nat
  BY <1>1 DEF Offsets
<1>3. Len(C) = cap
  BY DEF Capacity
<1>4. ASSUME NEW p \in 1..cap
      PROVE  \E i \in 1..Len(chain), j \in Nat, o \in Nat : p = Pos(off, i, j) + o /\ C[p] = <<i, j, o>>
  <2>1. PICK i \in 1..Len(chain) : \E j \in 1..EntrySum(chain, i) : \E o \in 1..EntrySize(chain, i, j, whole) :
          p = Pos(off, i, j) + o
    BY <1>1, PlaceOfEntry
  <2>2. PICK j \in 1..EntrySum(chain, i) : \E o \in 1..EntrySize(chain, i, j, whole) : p = Pos(off, i, j) + o
    BY <2>1
  <2>3. PICK o \in 1..EntrySize(chain, i, j, whole) : p = Pos(off, i, j) + o
    BY <2>2
  <2>4. C[Pos(off, i, j) + o] = <<i, j, o>>
    BY <1>1, Zenon DEF Offsets
  <2>5. j \in Nat /\ o \in Nat
    BY ChainFacts
  <2> HIDE DEF C
  <2> QED
    BY <2>3, <2>4, <2>5
<1>5. ASSUME NEW cell \in Cells(chain, whole) PROVE \E p \in 1..cap : C[p] = cell
  <2>1. PICK i \in 1..Len(chain), j \in 1..PerSgl, o \in 1..Page :
          cell = <<i, j, o>> /\ j <= EntrySum(chain, i) /\ o <= EntrySize(chain, i, j, whole)
    BY DEF Cells
  <2>2. /\ Pos(off, i, j) \in Nat /\ Pos(off, i, j + 1) \in Nat
        /\ EntrySize(chain, i, j, whole) \in Nat \ {0}
        /\ Pos(off, i, j + 1) = Pos(off, i, j) + EntrySize(chain, i, j, whole)
        /\ Pos(off, i, j + 1) <= Capacity(chain, whole)
        /\ \A x \in 1..EntrySize(chain, i, j, whole) :
             ChainCells(chain, whole)[Pos(off, i, j) + x] = <<i, j, x>>
    <3>1. /\ Pos(off, i, j) \in Nat /\ Pos(off, i, j + 1) \in Nat
          /\ j <= EntrySum(chain, i) =>
               /\ EntrySize(chain, i, j, whole) \in Nat \ {0}
               /\ Pos(off, i, j + 1) = Pos(off, i, j) + EntrySize(chain, i, j, whole)
               /\ Pos(off, i, j + 1) <= Capacity(chain, whole)
               /\ \A x \in 1..EntrySize(chain, i, j, whole) :
                    ChainCells(chain, whole)[Pos(off, i, j) + x] = <<i, j, x>>
      BY <1>1, NextEntry
    <3> QED
      BY <2>1, <3>1
  <2> HIDE DEF cap, C
  <2>3. o \in 1..EntrySize(chain, i, j, whole)
    BY <2>1, <2>2, ChainFacts
  <2>4. Pos(off, i, j) + o \in 1..cap
    BY <1>2, <2>2, <2>3 DEF cap
  <2>5. C[Pos(off, i, j) + o] = cell
    BY <2>1, <2>2, <2>3 DEF C
  <2> QED
    BY <2>4, <2>5
<1> HIDE DEF C, cap
<1>6. ASSUME NEW p \in 1..cap, NEW q \in 1..cap, C[p] = C[q] PROVE p = q
  <2>1. PICK i, j, o : p = Pos(off, i, j) + o /\ C[p] = <<i, j, o>>
    BY <1>4
  <2>2. PICK i2, j2, o2 : q = Pos(off, i2, j2) + o2 /\ C[q] = <<i2, j2, o2>>
    BY <1>4
  <2>3. i = i2 /\ j = j2 /\ o = o2
    BY <1>6, <2>1, <2>2
  <2> QED
    BY <2>1, <2>2, <2>3
<1>7. ASSUME NEW p \in 1..cap PROVE C[p] # Outside
  <2>1. PICK i \in 1..Len(chain), j \in Nat, o \in Nat : C[p] = <<i, j, o>>
    BY <1>4
  <2>2. i # 0
    BY ChainFacts
  <2> QED
    BY <2>1, <2>2 DEF Outside
<1> QED
  BY <1>2, <1>3, <1>5, <1>6, <1>7 DEF C, cap
-----------------------------------------------------------------------------
(* The copying loops.                                                      *)

\* A loop has copied the first cells of the chain.
Copying(loop, C, len) ==
  /\ loop.left \in Nat /\ loop.cells \in Seq(Cell) /\ Len(loop.cells) + loop.left = len
  /\ \A p \in 1..Len(loop.cells) : loop.cells[p] = C[p]

\* The next size cells are of the entry it stands at.
NextCells(loop, C, size) ==
  /\ loop.sgl \in Nat /\ loop.entry \in Nat /\ size \in Nat /\ size <= loop.left
  /\ \A o \in 1..size : C[Len(loop.cells) + o] = <<loop.sgl, loop.entry, o>>

LEMMA TurnFacts ==
  ASSUME NEW loop, NEW size \in Nat, NEW last \in BOOLEAN
  PROVE  /\ Turn(loop, size, last).left = loop.left - size
         /\ Turn(loop, size, last).cells = loop.cells \o EntryCells(loop.sgl, loop.entry, size)
         /\ Turn(loop, size, last).sgl = IF last THEN loop.sgl + 1 ELSE loop.sgl
         /\ Turn(loop, size, last).entry = IF last THEN 1 ELSE loop.entry + 1
  BY DEF Turn

\* A turn at an entry in use copies the next cells.
LEMMA CopyTurn ==
  ASSUME NEW C, NEW len \in Nat, NEW loop, Copying(loop, C, len), NEW last \in BOOLEAN,
         NEW size, NextCells(loop, C, size)
  PROVE  /\ Copying(Turn(loop, size, last), C, len)
         /\ Len(Turn(loop, size, last).cells) = Len(loop.cells) + size
<1>0. loop.sgl \in Nat /\ loop.entry \in Nat /\ size \in Nat /\ size <= loop.left
  BY DEF NextCells
<1> DEFINE s == loop.cells
           e == EntryCells(loop.sgl, loop.entry, size)
           t == Turn(loop, size, last)
<1>1. t.left = loop.left - size /\ t.cells = s \o e
  BY <1>0, TurnFacts
<1>2. e \in Seq(Cell) /\ Len(e) = size /\ \A o \in 1..size : e[o] = <<loop.sgl, loop.entry, o>>
  BY <1>0, EntryCellsFacts
<1>3. /\ loop.left \in Nat /\ s \in Seq(Cell) /\ Len(s) \in Nat /\ Len(s) + loop.left = len
      /\ \A p \in 1..Len(s) : s[p] = C[p]
  BY DEF Copying
<1>4. \A o \in 1..size : C[Len(s) + o] = <<loop.sgl, loop.entry, o>>
  BY DEF NextCells
<1> HIDE DEF s, e, t
<1>5. /\ s \o e \in Seq(Cell) /\ Len(s \o e) = Len(s) + size
      /\ \A p \in 1..Len(s) : (s \o e)[p] = s[p]
      /\ \A o \in 1..size : (s \o e)[Len(s) + o] = e[o]
  <2>1. s \in Seq(Cell) /\ e \in Seq(Cell)
    BY <1>2, <1>3
  <2>2. /\ s \o e \in Seq(Cell) /\ Len(s \o e) = Len(s) + Len(e)
        /\ \A p \in 1..Len(s) : (s \o e)[p] = s[p]
        /\ \A o \in 1..Len(e) : (s \o e)[Len(s) + o] = e[o]
    BY <2>1
  <2> QED
    BY <1>2, <2>2, Zenon
<1>6. ASSUME NEW p \in 1..Len(s \o e) PROVE (s \o e)[p] = C[p]
  <2>1. CASE p <= Len(s)
    <3>1. p \in 1..Len(s)
      BY <1>3, <1>5, <2>1
    <3> QED
      BY <1>3, <1>5, <3>1
  <2>2. CASE p > Len(s)
    <3>1. p - Len(s) \in 1..size /\ Len(s) + (p - Len(s)) = p
      BY <1>0, <1>3, <1>5, <2>2
    <3>2. (s \o e)[Len(s) + (p - Len(s))] = C[Len(s) + (p - Len(s))]
      BY <1>2, <1>4, <1>5, <3>1
    <3> QED
      BY <3>1, <3>2
  <2> QED
    BY <1>0, <1>3, <1>5, <2>1, <2>2
<1>7. t.left \in Nat /\ Len(s \o e) + t.left = len
  BY <1>0, <1>1, <1>3, <1>5 DEF s
<1>8. Copying(t, C, len)
  BY <1>1, <1>5, <1>6, <1>7 DEF Copying
<1> QED
  BY <1>1, <1>5, <1>8 DEF s, t

LEMMA StartFacts ==
  ASSUME NEW C, NEW len \in Nat
  PROVE  /\ Copying(LoopStart(len), C, len) /\ LoopStart(len).left = len
         /\ LoopStart(len).sgl = 1 /\ LoopStart(len).entry = 1 /\ Len(LoopStart(len).cells) = 0
<1>1. /\ LoopStart(len).left = len /\ LoopStart(len).cells = <<>>
      /\ LoopStart(len).sgl = 1 /\ LoopStart(len).entry = 1
  BY DEF LoopStart
<1>2. <<>> \in Seq(Cell) /\ Len(<<>>) = 0
  OBVIOUS
<1> QED
  BY <1>1, <1>2 DEF Copying

\* The turns of Gather exist.
LEMMA GatherDefined ==
  ASSUME NEW chain, NEW whole, NEW len \in Nat
  PROVE  \E f : f = [n \in 0..len |-> IF n = 0 THEN LoopStart(len) ELSE GatherTurn(chain, whole, f[n - 1])]
<1> DEFINE Good(f, m) == /\ f = [n \in 0..m |-> f[n]]
                         /\ \A n \in 0..m : f[n] = IF n = 0 THEN LoopStart(len) ELSE GatherTurn(chain, whole, f[n - 1])
           S == {m \in Nat : \E f : Good(f, m)}
<1>1. 0 \in S
  <2> DEFINE g == [n \in 0..0 |-> LoopStart(len)]
  <2>1. g = [n \in 0..0 |-> g[n]]
    OBVIOUS
  <2>2. \A n \in 0..0 : n = 0 /\ g[n] = LoopStart(len)
    OBVIOUS
  <2> HIDE DEF g
  <2>3. Good(g, 0)
    BY <2>1, <2>2
  <2> HIDE DEF Good
  <2> QED
    BY <2>3
<1>2. ASSUME NEW m \in S PROVE m + 1 \in S
  <2>1. PICK f : Good(f, m)
    BY <1>2
  <2> DEFINE g == [n \in 0..(m + 1) |-> IF n = m + 1 THEN GatherTurn(chain, whole, f[m]) ELSE f[n]]
  <2>2. g = [n \in 0..(m + 1) |-> g[n]]
    OBVIOUS
  <2>3. ASSUME NEW n \in 0..(m + 1)
        PROVE  g[n] = IF n = 0 THEN LoopStart(len) ELSE GatherTurn(chain, whole, g[n - 1])
    <3>1. CASE n = m + 1
      <4>1. n # 0 /\ n - 1 = m /\ g[n] = GatherTurn(chain, whole, f[m]) /\ g[m] = f[m]
        BY <3>1
      <4> QED
        BY <4>1
    <3>2. CASE n # m + 1
      <4>1. n \in 0..m /\ g[n] = f[n] /\ (n # 0 => g[n - 1] = f[n - 1])
        BY <3>2
      <4>2. f[n] = IF n = 0 THEN LoopStart(len) ELSE GatherTurn(chain, whole, f[n - 1])
        BY <2>1, <4>1
      <4> QED
        BY <4>1, <4>2
    <3> QED
      BY <3>1, <3>2
  <2>4. Good(g, m + 1)
    BY <2>2, <2>3
  <2> HIDE DEF g, Good
  <2> QED
    BY <2>4
<1>3. len \in S
  <2>1. S \in SUBSET Nat
    OBVIOUS
  <2> HIDE DEF S
  <2> QED
    BY <1>1, <1>2, <2>1, SetInduction
<1>4. PICK f : Good(f, len)
  BY <1>3
<1>5. f = [n \in 0..len |-> IF n = 0 THEN LoopStart(len) ELSE GatherTurn(chain, whole, f[n - 1])]
  BY <1>4
<1> QED
  BY <1>5, Zenon

\* One turn of it: the loop stands at the entry that the next cells are of.
Gathering(loop, chain, whole, off, len) ==
  /\ Copying(loop, ChainCells(chain, whole), len)
  /\ loop.left > 0 =>
       /\ loop.sgl \in 1..Len(chain) /\ loop.entry \in 1..EntrySum(chain, loop.sgl)
       /\ Len(loop.cells) = Pos(off, loop.sgl, loop.entry)

LEMMA LesserFacts ==
  ASSUME NEW m \in Nat, NEW n \in Nat
  PROVE  Lesser(m, n) \in Nat /\ Lesser(m, n) <= m /\ Lesser(m, n) <= n /\ Lesser(m, n) \in {m, n}
  BY DEF Lesser

LEMMA GatherTurnStep ==
  ASSUME NEW chain \in Chains, NEW whole \in BOOLEAN, NEW off, Offsets(off, chain, whole),
         NEW len \in 0..Capacity(chain, whole), NEW loop, Gathering(loop, chain, whole, off, len)
  PROVE  /\ Gathering(GatherTurn(chain, whole, loop), chain, whole, off, len)
         /\ loop.left = 0 => GatherTurn(chain, whole, loop).left = 0
         /\ loop.left > 0 => GatherTurn(chain, whole, loop).left < loop.left
<1> DEFINE i == loop.sgl
           j == loop.entry
           cap == Capacity(chain, whole)
           size == Lesser(EntrySize(chain, i, j, whole), loop.left)
           last == j >= EntrySum(chain, i)
           t == GatherTurn(chain, whole, loop)
<1>0. cap \in Nat /\ len \in Nat /\ len <= cap /\ Len(chain) \in Nat /\ PerSgl \in Nat
  BY ChainFacts DEF Offsets
<1>1. CASE loop.left = 0
  BY <1>1 DEF GatherTurn
<1>2. CASE loop.left # 0
  <2>1. /\ loop.left \in Nat /\ loop.left > 0 /\ loop.cells \in Seq(Cell) /\ Len(loop.cells) \in Nat
        /\ Len(loop.cells) + loop.left = len
    BY <1>2 DEF Gathering, Copying
  <2>2. i \in 1..Len(chain) /\ j \in 1..EntrySum(chain, i) /\ Len(loop.cells) = Pos(off, i, j)
    BY <2>1 DEF Gathering
  <2>3. t = Turn(loop, size, last)
    BY <1>2 DEF GatherTurn
  <2> HIDE DEF i, j, size, last, t
  <2>4. EntrySum(chain, i) \in 1..PerSgl
    BY <2>2, ChainFacts
  <2>5. i \in Nat /\ j \in Nat /\ j \in 1..PerSgl /\ j <= EntrySum(chain, i)
    BY <1>0, <2>2, <2>4
  <2>6. /\ Pos(off, i, j) \in Nat /\ Pos(off, i, j + 1) \in Nat /\ Pos(off, i + 1, 1) \in Nat
        /\ EntrySize(chain, i, j, whole) \in Nat \ {0}
        /\ Pos(off, i, j + 1) = Pos(off, i, j) + EntrySize(chain, i, j, whole)
        /\ \A o \in 1..EntrySize(chain, i, j, whole) :
             ChainCells(chain, whole)[Pos(off, i, j) + o] = <<i, j, o>>
        /\ j >= EntrySum(chain, i) => Pos(off, i, j + 1) = Pos(off, i + 1, 1)
        /\ i = Len(chain) => Pos(off, i + 1, 1) = cap
    BY <2>2, <2>5, NextEntry
  <2>7. /\ size \in Nat \ {0} /\ size <= loop.left /\ size <= EntrySize(chain, i, j, whole)
        /\ size \in {EntrySize(chain, i, j, whole), loop.left}
    <3> DEFINE e == EntrySize(chain, i, j, whole)
               l == loop.left
    <3>1. e \in Nat \ {0} /\ l \in Nat \ {0}
      BY <2>1, <2>6
    <3> HIDE DEF e, l
    <3>2. Lesser(e, l) \in Nat \ {0} /\ Lesser(e, l) <= l /\ Lesser(e, l) <= e /\ Lesser(e, l) \in {e, l}
      BY <3>1, LesserFacts
    <3> QED
      BY <3>2 DEF size, e, l
  <2>8. last \in BOOLEAN
    BY DEF last
  <2>9. \A o \in 1..size : ChainCells(chain, whole)[Len(loop.cells) + o] = <<i, j, o>>
    <3>1. \A o \in 1..size : o \in 1..EntrySize(chain, i, j, whole)
      BY <2>6, <2>7
    <3> QED
      BY <2>2, <2>6, <3>1, Zenon
  <2>10. t.left = loop.left - size /\ t.sgl = (IF last THEN i + 1 ELSE i) /\ t.entry = (IF last THEN 1 ELSE j + 1)
    BY <2>3, <2>7, <2>8, TurnFacts DEF i, j
  <2>11. Copying(loop, ChainCells(chain, whole), len) /\ NextCells(loop, ChainCells(chain, whole), size)
    BY <2>5, <2>7, <2>9 DEF Gathering, NextCells, i, j
  <2>12. Copying(t, ChainCells(chain, whole), len) /\ Len(t.cells) = Len(loop.cells) + size
    <3>1. /\ Copying(Turn(loop, size, last), ChainCells(chain, whole), len)
          /\ Len(Turn(loop, size, last).cells) = Len(loop.cells) + size
      BY <1>0, <2>8, <2>11, CopyTurn
    <3> QED
      BY <2>3, <3>1
  <2>13. t.left < loop.left /\ t.left \in Nat
    BY <2>1, <2>7, <2>10
  <2>14. ASSUME t.left > 0
         PROVE  /\ t.sgl \in 1..Len(chain) /\ t.entry \in 1..EntrySum(chain, t.sgl)
                /\ Len(t.cells) = Pos(off, t.sgl, t.entry)
    <3>1. size = EntrySize(chain, i, j, whole) /\ Len(t.cells) = Pos(off, i, j + 1)
      BY <2>1, <2>2, <2>6, <2>7, <2>10, <2>12, <2>14
    <3>2. Len(t.cells) < cap
      BY <1>0, <2>1, <2>7, <2>10, <2>12, <2>14
    <3>3. CASE last
      <4>1. j >= EntrySum(chain, i)
        BY <3>3 DEF last
      <4>2. i # Len(chain)
        BY <1>0, <2>6, <3>1, <3>2, <4>1
      <4>3. i + 1 \in 1..Len(chain)
        BY <1>0, <2>2, <4>2
      <4>4. EntrySum(chain, i + 1) \in 1..PerSgl
        BY <4>3, ChainFacts
      <4>5. 1 \in 1..EntrySum(chain, i + 1)
        BY <1>0, <4>4
      <4> QED
        BY <2>6, <2>10, <3>1, <3>3, <4>1, <4>3, <4>5
    <3>4. CASE ~last
      <4>1. j + 1 \in 1..EntrySum(chain, i)
        BY <1>0, <2>2, <2>4, <3>4 DEF last
      <4> QED
        BY <2>2, <2>10, <3>1, <3>4, <4>1
    <3> QED
      BY <3>3, <3>4
  <2>15. Gathering(t, chain, whole, off, len)
    BY <2>12, <2>14 DEF Gathering
  <2> QED
    BY <1>2, <2>13, <2>15 DEF t
<1> QED
  BY <1>1, <1>2

\* The SGL builders gather the first bytes of the chain, in order.
LEMMA GatherResult ==
  ASSUME NEW chain \in Chains, NEW whole \in BOOLEAN, NEW len \in 0..Capacity(chain, whole)
  PROVE  /\ Gather(chain, len, whole) \in Seq(Cell) /\ Len(Gather(chain, len, whole)) = len
         /\ \A p \in 1..len : Gather(chain, len, whole)[p] = ChainCells(chain, whole)[p]
<1>1. PICK off : Offsets(off, chain, whole)
  BY ChainOffsets
<1>2. len \in Nat /\ Capacity(chain, whole) \in Nat /\ len <= Capacity(chain, whole)
  BY <1>1 DEF Offsets
<1> DEFINE turn[n \in 0..len] == IF n = 0 THEN LoopStart(len) ELSE GatherTurn(chain, whole, turn[n - 1])
<1>3. Gather(chain, len, whole) = turn[len].cells
  BY DEF Gather
<1>4. turn = [n \in 0..len |-> IF n = 0 THEN LoopStart(len) ELSE GatherTurn(chain, whole, turn[n - 1])]
  BY <1>2, GatherDefined
<1> HIDE DEF turn
<1> DEFINE Fine(n) == Gathering(At(turn, n), chain, whole, off, len) /\ At(turn, n).left <= len - n
           T == {n \in Nat : n <= len => Fine(n)}
<1>5. Fine(0)
  <2>1. At(turn, 0) = LoopStart(len)
    <3>1. 0 \in 0..len
      BY <1>2
    <3> QED
      BY <1>4, <3>1 DEF At
  <2> DEFINE s == LoopStart(len)
  <2>2. /\ Copying(s, ChainCells(chain, whole), len) /\ s.left = len
        /\ s.sgl = 1 /\ s.entry = 1 /\ Len(s.cells) = 0
    BY <1>2, StartFacts
  <2>3. 1 \in 1..Len(chain) /\ Pos(off, 1, 1) = 0
    BY <1>1, ChainFacts DEF Offsets
  <2>4. EntrySum(chain, 1) \in 1..PerSgl /\ PerSgl \in Nat
    BY <2>3, ChainFacts
  <2>5. 1 \in 1..EntrySum(chain, 1)
    BY <2>4
  <2> HIDE DEF s
  <2>6. Gathering(s, chain, whole, off, len)
    BY <2>2, <2>3, <2>5 DEF Gathering
  <2>7. s.left <= len - 0
    BY <1>2, <2>2
  <2> QED
    BY <2>1, <2>6, <2>7 DEF s
<1>6. ASSUME NEW n \in Nat, n <= len => Fine(n), n + 1 <= len PROVE Fine(n + 1)
  <2>1. n + 1 \in 0..len /\ (n + 1) - 1 = n /\ n + 1 # 0 /\ n <= len
    BY <1>2, <1>6
  <2>2. At(turn, n + 1) = GatherTurn(chain, whole, At(turn, n))
    BY <1>4, <2>1 DEF At
  <2> DEFINE s == At(turn, n)
             t == GatherTurn(chain, whole, s)
  <2>3. Gathering(s, chain, whole, off, len) /\ s.left <= len - n
    BY <1>6, <2>1
  <2> HIDE DEF s
  <2>4. Gathering(t, chain, whole, off, len) /\ (s.left = 0 => t.left = 0) /\ (s.left > 0 => t.left < s.left)
    BY <1>1, <2>3, GatherTurnStep
  <2> HIDE DEF t
  <2>5. s.left \in Nat /\ t.left \in Nat
    BY <2>3, <2>4 DEF Gathering, Copying
  <2>6. t.left <= len - (n + 1)
    BY <1>2, <1>6, <2>3, <2>4, <2>5
  <2> QED
    BY <2>2, <2>4, <2>6 DEF s, t
<1> HIDE DEF Fine
<1>7. 0 \in T /\ \A n \in T : n + 1 \in T
  <2>1. 0 \in Nat /\ \A n \in Nat : n + 1 \in Nat
    OBVIOUS
  <2> QED
    BY <1>5, <1>6, <2>1, Zenon
<1>8. len \in T
  <2>1. T \in SUBSET Nat
    OBVIOUS
  <2> HIDE DEF T
  <2> QED
    BY <1>2, <1>7, <2>1, SetInduction
<1> DEFINE s == At(turn, len)
<1>9. Gathering(s, chain, whole, off, len) /\ s.left <= len - len
  BY <1>2, <1>8 DEF Fine
<1>10. Gather(chain, len, whole) = s.cells
  BY <1>3 DEF At
<1> HIDE DEF s
<1>11. /\ s.left \in Nat /\ s.cells \in Seq(Cell) /\ Len(s.cells) + s.left = len
       /\ \A p \in 1..Len(s.cells) : s.cells[p] = ChainCells(chain, whole)[p]
  BY <1>9 DEF Gathering, Copying
<1>12. Len(s.cells) = len
  BY <1>2, <1>9, <1>11
<1> QED
  BY <1>10, <1>11, <1>12

\* The turns of Scatter exist.
LEMMA ScatterDefined ==
  ASSUME NEW chain, NEW unused, NEW whole, NEW len, NEW max \in Nat
  PROVE  \E f : f = [n \in 0..max |-> IF n = 0 THEN LoopStart(len) ELSE ScatterTurn(chain, unused, whole, f[n - 1])]
<1> DEFINE Good(f, m) == /\ f = [n \in 0..m |-> f[n]]
                         /\ \A n \in 0..m :
                              f[n] = IF n = 0 THEN LoopStart(len) ELSE ScatterTurn(chain, unused, whole, f[n - 1])
           S == {m \in Nat : \E f : Good(f, m)}
<1>1. 0 \in S
  <2> DEFINE g == [n \in 0..0 |-> LoopStart(len)]
  <2>1. g = [n \in 0..0 |-> g[n]]
    OBVIOUS
  <2>2. \A n \in 0..0 : n = 0 /\ g[n] = LoopStart(len)
    OBVIOUS
  <2> HIDE DEF g
  <2>3. Good(g, 0)
    BY <2>1, <2>2
  <2> HIDE DEF Good
  <2> QED
    BY <2>3
<1>2. ASSUME NEW m \in S PROVE m + 1 \in S
  <2>1. PICK f : Good(f, m)
    BY <1>2
  <2> DEFINE g == [n \in 0..(m + 1) |-> IF n = m + 1 THEN ScatterTurn(chain, unused, whole, f[m]) ELSE f[n]]
  <2>2. g = [n \in 0..(m + 1) |-> g[n]]
    OBVIOUS
  <2>3. ASSUME NEW n \in 0..(m + 1)
        PROVE  g[n] = IF n = 0 THEN LoopStart(len) ELSE ScatterTurn(chain, unused, whole, g[n - 1])
    <3>1. CASE n = m + 1
      <4>1. n # 0 /\ n - 1 = m /\ g[n] = ScatterTurn(chain, unused, whole, f[m]) /\ g[m] = f[m]
        BY <3>1
      <4> QED
        BY <4>1
    <3>2. CASE n # m + 1
      <4>1. n \in 0..m /\ g[n] = f[n] /\ (n # 0 => g[n - 1] = f[n - 1])
        BY <3>2
      <4>2. f[n] = IF n = 0 THEN LoopStart(len) ELSE ScatterTurn(chain, unused, whole, f[n - 1])
        BY <2>1, <4>1
      <4> QED
        BY <4>1, <4>2
    <3> QED
      BY <3>1, <3>2
  <2>4. Good(g, m + 1)
    BY <2>2, <2>3
  <2> HIDE DEF g, Good
  <2> QED
    BY <2>4
<1>3. max \in S
  <2>1. S \in SUBSET Nat
    OBVIOUS
  <2> HIDE DEF S
  <2> QED
    BY <1>1, <1>2, <2>1, SetInduction
<1>4. PICK f : Good(f, max)
  BY <1>3
<1>5. f = [n \in 0..max |-> IF n = 0 THEN LoopStart(len) ELSE ScatterTurn(chain, unused, whole, f[n - 1])]
  BY <1>4
<1> QED
  BY <1>5, Zenon

\* An SGL before the last that is not full, and entries not in use that count.
Gap(chain, unused, whole) ==
  /\ whole \/ unused # "zero"
  /\ \E i \in 1..(Len(chain) - 1) : EntrySum(chain, i) < PerSgl

\* The turns it takes to come to an entry.
TurnsTo(i, j) == (i - 1) * PerSgl + (j - 1)

LEMMA CountTurns ==
  ASSUME NEW i \in Nat \ {0}, NEW j \in 1..PerSgl, PerSgl \in Nat \ {0}, NEW n \in Nat, i <= n
  PROVE  /\ TurnsTo(i, j) \in Nat /\ TurnsTo(i, j) < n * PerSgl /\ n * PerSgl \in Nat
         /\ TurnsTo(i, j + 1) = TurnsTo(i, j) + 1
         /\ j = PerSgl => TurnsTo(i + 1, 1) = TurnsTo(i, j) + 1
<1>1. PICK d \in Nat : n = i + d
  <2>1. n - i \in Nat /\ n = i + (n - i)
    OBVIOUS
  <2> QED
    BY <2>1
<1>2. /\ n * PerSgl = (i - 1) * PerSgl + PerSgl + d * PerSgl
      /\ ((i + 1) - 1) * PerSgl = (i - 1) * PerSgl + PerSgl
  BY <1>1
<1>3. d * PerSgl \in Nat /\ (i - 1) * PerSgl \in Nat /\ n * PerSgl \in Nat
  <2>1. i - 1 \in Nat
    OBVIOUS
  <2>2. \A a, b \in Nat : a * b \in Nat
    OBVIOUS
  <2> QED
    BY <2>1, <2>2
<1> QED
  BY <1>2, <1>3 DEF TurnsTo

\* After n turns the loop has gone astray at a gap, or stands at the entry
\* that the next cells are of, in use or not.
Scattering(loop, chain, unused, whole, off, len, n) ==
  \/ loop.left = 0 /\ Outside \in ToSet(loop.cells) /\ Gap(chain, unused, whole)
  \/ /\ Copying(loop, ChainCells(chain, whole), len)
     /\ loop.left > 0 =>
          /\ loop.sgl \in 1..Len(chain) /\ loop.entry \in 1..PerSgl
          /\ Len(loop.cells) = Pos(off, loop.sgl, loop.entry)
          /\ n = TurnsTo(loop.sgl, loop.entry)

\* A turn that copies the next cells and has something left moves to the next
\* entry.
LEMMA ScatterMoves ==
  ASSUME NEW chain \in Chains, NEW unused, NEW whole \in BOOLEAN, NEW off, Offsets(off, chain, whole),
         NEW len \in 0..Capacity(chain, whole), NEW n \in Nat, NEW loop, NEW size,
         Copying(loop, ChainCells(chain, whole), len), loop.left > 0,
         loop.sgl \in 1..Len(chain), loop.entry \in 1..PerSgl,
         NextCells(loop, ChainCells(chain, whole), size),
         loop.left - size > 0 => Len(loop.cells) + size = Pos(off, loop.sgl, loop.entry + 1),
         n = TurnsTo(loop.sgl, loop.entry)
  PROVE  Scattering(Turn(loop, size, EndOfSgl(loop.entry)), chain, unused, whole, off, len, n + 1)
<1> DEFINE i == loop.sgl
           j == loop.entry
           cap == Capacity(chain, whole)
           last == EndOfSgl(j)
           t == Turn(loop, size, last)
<1>0. cap \in Nat /\ len \in Nat /\ len <= cap /\ Len(chain) \in Nat /\ PerSgl \in Nat \ {0}
  BY ChainFacts DEF Offsets
<1>1. size \in Nat /\ last \in BOOLEAN
  BY DEF NextCells, EndOfSgl
<1>a. last \in BOOLEAN /\ (last <=> j >= PerSgl)
  BY DEF EndOfSgl
<1> HIDE DEF last
<1>2. Copying(t, ChainCells(chain, whole), len) /\ Len(t.cells) = Len(loop.cells) + size
  <2>1. len \in Nat /\ last \in BOOLEAN
    BY <1>0, <1>a
  <2> DEFINE C == ChainCells(chain, whole)
  <2>2. Copying(loop, C, len) /\ NextCells(loop, C, size)
    OBVIOUS
  <2> HIDE DEF C
  <2>3. Copying(Turn(loop, size, last), C, len) /\ Len(Turn(loop, size, last).cells) = Len(loop.cells) + size
    BY <2>1, <2>2, CopyTurn
  <2> QED
    BY <2>3 DEF C
<1>3. t.left = loop.left - size /\ t.sgl = (IF last THEN i + 1 ELSE i) /\ t.entry = (IF last THEN 1 ELSE j + 1)
  BY <1>1, TurnFacts
<1>4. last <=> j >= PerSgl
  BY <1>a
<1>5. i \in 1..Len(chain) /\ j \in 1..PerSgl /\ n = TurnsTo(i, j)
  OBVIOUS
<1>6. t.left > 0 => Len(t.cells) = Pos(off, i, j + 1)
  BY <1>2, <1>3
<1> HIDE DEF i, j, last, t
<1>7. ASSUME t.left > 0
      PROVE  /\ t.sgl \in 1..Len(chain) /\ t.entry \in 1..PerSgl
             /\ Len(t.cells) = Pos(off, t.sgl, t.entry)
             /\ n + 1 = TurnsTo(t.sgl, t.entry)
  <2>1. Len(t.cells) \in Nat /\ t.left \in Nat /\ Len(t.cells) + t.left = len
    BY <1>2 DEF Copying
  <2>2. Len(t.cells) < cap
    BY <1>0, <1>7, <2>1
  <2>3. CASE last
    <3>1. j = PerSgl /\ EntrySum(chain, i) \in 1..PerSgl /\ j >= EntrySum(chain, i)
      <4>1. EntrySum(chain, i) \in 1..PerSgl
        BY <1>5, ChainFacts
      <4> QED
        BY <1>0, <1>4, <1>5, <2>3, <4>1
    <3>2. /\ Pos(off, i, j + 1) = Pos(off, i + 1, 1)
          /\ i = Len(chain) => Pos(off, i + 1, 1) = cap
      BY <1>5, <3>1, NextEntry
    <3>3. i # Len(chain)
      BY <1>0, <1>6, <1>7, <2>1, <2>2, <3>2
    <3>4. i + 1 \in 1..Len(chain) /\ 1 \in 1..PerSgl
      BY <1>0, <1>5, <3>3
    <3>5. n + 1 = TurnsTo(i + 1, 1)
      <4>1. i \in Nat \ {0} /\ i <= Len(chain)
        BY <1>0, <1>5
      <4> QED
        BY <1>0, <1>5, <3>1, <4>1, CountTurns
    <3> QED
      BY <1>3, <1>6, <1>7, <2>3, <3>2, <3>4, <3>5
  <2>4. CASE ~last
    <3>1. j + 1 \in 1..PerSgl
      BY <1>0, <1>4, <1>5, <2>4
    <3>2. n + 1 = TurnsTo(i, j + 1)
      <4>1. i \in Nat \ {0} /\ i <= Len(chain)
        BY <1>0, <1>5
      <4> QED
        BY <1>0, <1>5, <4>1, CountTurns
    <3> QED
      BY <1>3, <1>5, <1>6, <1>7, <2>4, <3>1, <3>2
  <2> QED
    BY <2>3, <2>4
<1>8. Scattering(t, chain, unused, whole, off, len, n + 1)
  BY <1>2, <1>7 DEF Scattering
<1> QED
  BY <1>8 DEF t, last, j

LEMMA AppendOutside ==
  ASSUME NEW s \in Seq(Cell)
  PROVE  Outside \in ToSet(Append(s, Outside))
<1>1. Outside \in Cell
  BY DEF Outside, Cell
<1>2. /\ Append(s, Outside) \in Seq(Cell) /\ Len(s) \in Nat /\ Len(Append(s, Outside)) = Len(s) + 1
      /\ Append(s, Outside)[Len(s) + 1] = Outside
  BY <1>1, AppendProperties
<1>3. Len(s) + 1 \in DOMAIN Append(s, Outside)
  BY <1>2
<1> QED
  BY <1>2, <1>3 DEF ToSet

LEMMA ScatterTurnStep ==
  ASSUME NEW chain \in Chains, NEW unused, NEW whole \in BOOLEAN, NEW off, Offsets(off, chain, whole),
         NEW len \in 0..Capacity(chain, whole), NEW n \in Nat, NEW loop,
         Scattering(loop, chain, unused, whole, off, len, n)
  PROVE  Scattering(ScatterTurn(chain, unused, whole, loop), chain, unused, whole, off, len, n + 1)
<1> DEFINE i == loop.sgl
           j == loop.entry
           cap == Capacity(chain, whole)
<1>0. cap \in Nat /\ len \in Nat /\ len <= cap /\ Len(chain) \in Nat /\ PerSgl \in Nat \ {0}
  BY ChainFacts DEF Offsets
<1>1. CASE loop.left = 0
  <2>1. ScatterTurn(chain, unused, whole, loop) = loop
    BY <1>1 DEF ScatterTurn
  <2> QED
    BY <1>1, <2>1 DEF Scattering
<1>2. CASE loop.left # 0
  <2>1. Copying(loop, ChainCells(chain, whole), len)
    BY <1>2 DEF Scattering
  <2>2. /\ loop.left \in Nat /\ loop.left > 0 /\ loop.cells \in Seq(Cell) /\ Len(loop.cells) \in Nat
        /\ Len(loop.cells) + loop.left = len
    BY <1>2, <2>1 DEF Copying
  <2>3. /\ loop.sgl \in 1..Len(chain) /\ loop.entry \in 1..PerSgl
        /\ Len(loop.cells) = Pos(off, loop.sgl, loop.entry)
        /\ n = TurnsTo(loop.sgl, loop.entry)
    BY <1>2, <2>2 DEF Scattering
  <2>4. Len(loop.cells) < cap
    BY <1>0, <2>2
  <2>5. /\ Pos(off, i, j) \in Nat /\ Pos(off, i, j + 1) \in Nat /\ Pos(off, i + 1, 1) \in Nat
        /\ EntrySum(chain, i) \in 1..PerSgl
        /\ j <= EntrySum(chain, i) =>
             /\ EntrySize(chain, i, j, whole) \in Nat \ {0}
             /\ Pos(off, i, j + 1) = Pos(off, i, j) + EntrySize(chain, i, j, whole)
             /\ \A o \in 1..EntrySize(chain, i, j, whole) :
                  ChainCells(chain, whole)[Pos(off, i, j) + o] = <<i, j, o>>
        /\ j >= EntrySum(chain, i) => Pos(off, i, j + 1) = Pos(off, i + 1, 1)
        /\ j > EntrySum(chain, i) => Pos(off, i, j) = Pos(off, i + 1, 1)
        /\ i = Len(chain) => Pos(off, i + 1, 1) = cap
    <3> HIDE DEF i, j
    <3>1. i \in 1..Len(chain) /\ j \in 1..PerSgl
      BY <2>3 DEF i, j
    <3> QED
      BY <3>1, NextEntry
  <2>6. loop.sgl <= Len(chain) /\ loop.sgl \in Nat /\ loop.entry \in Nat
    BY <1>0, <2>3
  <2>7. CASE j <= EntrySum(chain, i)
    <3> DEFINE size == Lesser(EntrySize(chain, i, j, whole), loop.left)
    <3>1. ScatterTurn(chain, unused, whole, loop) = Turn(loop, size, EndOfSgl(loop.entry))
      BY <1>2, <2>6, <2>7 DEF ScatterTurn
    <3>2. /\ size \in Nat \ {0} /\ size <= loop.left /\ size <= EntrySize(chain, i, j, whole)
          /\ size \in {EntrySize(chain, i, j, whole), loop.left}
      <4> DEFINE e == EntrySize(chain, i, j, whole)
                 l == loop.left
      <4>1. e \in Nat \ {0} /\ l \in Nat \ {0}
        BY <2>2, <2>5, <2>7
      <4> HIDE DEF e, l
      <4>2. Lesser(e, l) \in Nat \ {0} /\ Lesser(e, l) <= l /\ Lesser(e, l) <= e /\ Lesser(e, l) \in {e, l}
        BY <4>1, LesserFacts
      <4> QED
        BY <4>2 DEF e, l
    <3> HIDE DEF size
    <3>3. NextCells(loop, ChainCells(chain, whole), size)
      <4>1. \A o \in 1..size : o \in 1..EntrySize(chain, i, j, whole)
        BY <2>5, <2>7, <3>2
      <4>2. \A o \in 1..size : ChainCells(chain, whole)[Len(loop.cells) + o] = <<loop.sgl, loop.entry, o>>
        BY <2>3, <2>5, <2>7, <4>1, Zenon
      <4>3. size \in Nat
        BY <3>2
      <4> QED
        BY <2>6, <3>2, <4>2, <4>3 DEF NextCells
    <3>4. loop.left - size > 0 => Len(loop.cells) + size = Pos(off, loop.sgl, loop.entry + 1)
      <4>1. loop.left - size > 0 => size = EntrySize(chain, i, j, whole)
        BY <2>2, <3>2
      <4> QED
        BY <2>3, <2>5, <2>7, <4>1
    <3>5. Scattering(Turn(loop, size, EndOfSgl(loop.entry)), chain, unused, whole, off, len, n + 1)
      BY <2>1, <2>2, <2>3, <3>3, <3>4, ScatterMoves
    <3> QED
      BY <3>1, <3>5
  <2>8. CASE ~(j <= EntrySum(chain, i))
    <3>1. j > EntrySum(chain, i) /\ j >= EntrySum(chain, i)
      BY <2>3, <2>5, <2>6, <2>8
    <3>2. i # Len(chain)
      BY <1>0, <2>3, <2>4, <2>5, <3>1
    <3>3. i \in 1..(Len(chain) - 1) /\ EntrySum(chain, i) < PerSgl
      BY <1>0, <2>3, <2>5, <3>1, <3>2
    <3>4. CASE unused = "zero" /\ ~whole
      <4>1. ScatterTurn(chain, unused, whole, loop) = Turn(loop, 0, EndOfSgl(loop.entry))
        BY <1>2, <2>6, <2>8, <3>4 DEF ScatterTurn
      <4>2. NextCells(loop, ChainCells(chain, whole), 0)
        BY <2>2, <2>6 DEF NextCells
      <4>3. loop.left - 0 > 0 => Len(loop.cells) + 0 = Pos(off, loop.sgl, loop.entry + 1)
        BY <2>2, <2>3, <2>5, <3>1
      <4>4. Scattering(Turn(loop, 0, EndOfSgl(loop.entry)), chain, unused, whole, off, len, n + 1)
        BY <2>1, <2>2, <2>3, <4>2, <4>3, ScatterMoves
      <4> QED
        BY <4>1, <4>4
    <3>5. CASE ~(unused = "zero" /\ ~whole)
      <4> DEFINE t == ScatterTurn(chain, unused, whole, loop)
      <4>1. t = [sgl |-> loop.sgl, entry |-> loop.entry, left |-> 0, cells |-> Append(loop.cells, Outside)]
        BY <1>2, <2>6, <2>8, <3>5 DEF ScatterTurn
      <4>2. t.left = 0 /\ t.cells = Append(loop.cells, Outside)
        BY <4>1
      <4>3. Outside \in ToSet(Append(loop.cells, Outside))
        BY <2>2, AppendOutside
      <4>4. Gap(chain, unused, whole)
        BY <3>3, <3>5 DEF Gap
      <4> QED
        BY <4>2, <4>3, <4>4 DEF Scattering
    <3> QED
      BY <3>4, <3>5
  <2> QED
    BY <2>7, <2>8
<1> QED
  BY <1>1, <1>2

\* ReadCallback writes to the first cells of the chain, in order, or goes
\* astray at a gap.
LEMMA ScatterResult ==
  ASSUME NEW chain \in Chains, NEW unused, NEW whole \in BOOLEAN, NEW len \in 0..Capacity(chain, whole)
  PROVE  \/ /\ Scatter(chain, unused, len, whole) \in Seq(Cell) /\ Len(Scatter(chain, unused, len, whole)) = len
            /\ \A p \in 1..len : Scatter(chain, unused, len, whole)[p] = ChainCells(chain, whole)[p]
         \/ Outside \in ToSet(Scatter(chain, unused, len, whole)) /\ Gap(chain, unused, whole)
<1>1. PICK off : Offsets(off, chain, whole)
  BY ChainOffsets
<1>2. /\ len \in Nat /\ Capacity(chain, whole) \in Nat /\ len <= Capacity(chain, whole)
      /\ Len(chain) \in Nat \ {0} /\ PerSgl \in Nat \ {0}
  BY <1>1, ChainFacts DEF Offsets
<1> DEFINE max == Len(chain) * PerSgl + 1
<1>3. max \in Nat
  <2>1. Len(chain) * PerSgl \in Nat
    BY <1>2
  <2> QED
    BY <2>1
<1> DEFINE turn[n \in 0..(Len(chain) * PerSgl + 1)] ==
             IF n = 0 THEN LoopStart(len) ELSE ScatterTurn(chain, unused, whole, turn[n - 1])
<1>4. Scatter(chain, unused, len, whole) = turn[max].cells
  BY DEF Scatter
<1>5. turn = [n \in 0..max |-> IF n = 0 THEN LoopStart(len) ELSE ScatterTurn(chain, unused, whole, turn[n - 1])]
  BY <1>3, ScatterDefined
<1> HIDE DEF turn, max
<1> DEFINE Fine(n) == Scattering(At(turn, n), chain, unused, whole, off, len, n)
           T == {n \in Nat : n <= max => Fine(n)}
<1>6. Fine(0)
  <2>1. At(turn, 0) = LoopStart(len)
    <3>1. 0 \in 0..max
      BY <1>3
    <3> QED
      BY <1>5, <3>1 DEF At
  <2> DEFINE s == LoopStart(len)
  <2>2. /\ Copying(s, ChainCells(chain, whole), len) /\ s.left = len
        /\ s.sgl = 1 /\ s.entry = 1 /\ Len(s.cells) = 0
    BY <1>2, StartFacts
  <2>3. 1 \in 1..Len(chain) /\ Pos(off, 1, 1) = 0 /\ 1 \in 1..PerSgl
    BY <1>1, <1>2 DEF Offsets
  <2>4. TurnsTo(1, 1) = 0
    BY <1>2 DEF TurnsTo
  <2> HIDE DEF s
  <2>5. Scattering(s, chain, unused, whole, off, len, 0)
    BY <2>2, <2>3, <2>4 DEF Scattering
  <2> QED
    BY <2>1, <2>5 DEF s
<1>7. ASSUME NEW n \in Nat, n <= max => Fine(n), n + 1 <= max PROVE Fine(n + 1)
  <2>1. n + 1 \in 0..max /\ (n + 1) - 1 = n /\ n + 1 # 0 /\ n <= max
    BY <1>3, <1>7
  <2>2. At(turn, n + 1) = ScatterTurn(chain, unused, whole, At(turn, n))
    BY <1>5, <2>1 DEF At
  <2> DEFINE s == At(turn, n)
  <2>3. Scattering(s, chain, unused, whole, off, len, n)
    BY <1>7, <2>1
  <2> HIDE DEF s
  <2>4. Scattering(ScatterTurn(chain, unused, whole, s), chain, unused, whole, off, len, n + 1)
    BY <1>1, <2>3, ScatterTurnStep
  <2> QED
    BY <2>2, <2>4 DEF s
<1> HIDE DEF Fine
<1>8. 0 \in T /\ \A n \in T : n + 1 \in T
  <2>1. 0 \in Nat /\ \A n \in Nat : n + 1 \in Nat
    OBVIOUS
  <2> QED
    BY <1>6, <1>7, <2>1, Zenon
<1>9. max \in T
  <2>1. T \in SUBSET Nat
    OBVIOUS
  <2> HIDE DEF T
  <2> QED
    BY <1>3, <1>8, <2>1, SetInduction
<1> DEFINE s == At(turn, max)
<1>10. Scattering(s, chain, unused, whole, off, len, max)
  BY <1>3, <1>9 DEF Fine
<1>11. Scatter(chain, unused, len, whole) = s.cells
  BY <1>4 DEF At
<1> HIDE DEF s
<1>12. CASE Copying(s, ChainCells(chain, whole), len) /\ ~(Outside \in ToSet(s.cells) /\ Gap(chain, unused, whole))
  <2>1. /\ s.left \in Nat /\ s.cells \in Seq(Cell) /\ Len(s.cells) + s.left = len /\ Len(s.cells) \in Nat
        /\ \A p \in 1..Len(s.cells) : s.cells[p] = ChainCells(chain, whole)[p]
    BY <1>12 DEF Copying
  <2>2. s.left = 0
    <3> SUFFICES ASSUME s.left > 0 PROVE FALSE
      BY <2>1
    <3>1. s.sgl \in 1..Len(chain) /\ s.entry \in 1..PerSgl /\ max = TurnsTo(s.sgl, s.entry)
      BY <1>10, <1>12 DEF Scattering
    <3>2. s.sgl \in Nat \ {0} /\ s.sgl <= Len(chain)
      BY <1>2, <3>1
    <3> DEFINE i == s.sgl
               j == s.entry
    <3> HIDE DEF i, j
    <3>3. i \in Nat \ {0} /\ i <= Len(chain) /\ j \in 1..PerSgl /\ max = TurnsTo(i, j)
      BY <3>1, <3>2 DEF i, j
    <3>4. TurnsTo(i, j) \in Nat /\ TurnsTo(i, j) < Len(chain) * PerSgl /\ Len(chain) * PerSgl \in Nat
      BY <1>2, <3>3, CountTurns
    <3> QED
      BY <3>3, <3>4 DEF max
  <2>3. Len(s.cells) = len
    BY <1>2, <2>1, <2>2
  <2> QED
    BY <1>11, <2>1, <2>3
<1>13. CASE Outside \in ToSet(s.cells) /\ Gap(chain, unused, whole)
  BY <1>11, <1>13
<1> QED
  BY <1>10, <1>12, <1>13 DEF Scattering
-----------------------------------------------------------------------------
(* Bytes.                                                                  *)

Byte == Nat \X Cell

LEMMA BytesFacts ==
  ASSUME NEW k \in Nat, NEW cells \in Seq(Cell)
  PROVE  Bytes(k, cells) \in Seq(Byte) /\ Len(Bytes(k, cells)) = Len(cells)
<1>1. Len(cells) \in Nat /\ DOMAIN cells = 1..Len(cells) /\ \A n \in 1..Len(cells) : cells[n] \in Cell
  OBVIOUS
<1>2. Bytes(k, cells) = [n \in 1..Len(cells) |-> <<k, cells[n]>>]
  BY <1>1 DEF Bytes
<1>3. \A n \in 1..Len(cells) : <<k, cells[n]>> \in Byte
  BY <1>1 DEF Byte
<1>4. Bytes(k, cells) \in Seq(Byte)
  BY <1>1, <1>2, <1>3
<1> QED
  BY <1>1, <1>2, <1>4

LEMMA BufferFacts ==
  ASSUME NEW k \in Nat, NEW j \in Nat, NEW n \in Nat
  PROVE  /\ Buffer(k, j, n) \in Seq(Byte) /\ Len(Buffer(k, j, n)) = n
         /\ n = 0 => Buffer(k, j, n) = <<>>
<1>1. EntryCells(0, j, n) \in Seq(Cell) /\ Len(EntryCells(0, j, n)) = n
  BY EntryCellsFacts
<1>2. Buffer(k, j, n) \in Seq(Byte) /\ Len(Buffer(k, j, n)) = n
  BY <1>1, BytesFacts DEF Buffer
<1> QED
  BY <1>2, EmptySeq

\* The SGL builders gather the bytes asked for.
LEMMA GatherIsPrefix ==
  ASSUME NEW chain \in Chains, NEW whole \in BOOLEAN, NEW len \in 0..Capacity(chain, whole)
  PROVE  Gather(chain, len, whole) = SubSeq(ChainCells(chain, whole), 1, len)
         /\ Gather(chain, len, whole) \in Seq(Cell)
<1> DEFINE G == Gather(chain, len, whole)
           C == ChainCells(chain, whole)
<1>1. G \in Seq(Cell) /\ Len(G) = len /\ \A p \in 1..len : G[p] = C[p]
  BY GatherResult
<1>2. C \in Seq(Cell) /\ Len(C) \in Nat /\ len \in 0..Len(C)
  BY CellsOrdered
<1> HIDE DEF G, C
<1> DEFINE P == SubSeq(C, 1, len)
<1>3. P \in Seq(Cell) /\ Len(P) = len /\ \A p \in 1..len : P[p] = C[p]
  BY <1>2
<1> HIDE DEF P
<1>4. G = P
  BY <1>1, <1>3, SeqEqual
<1> QED
  BY <1>1, <1>4 DEF G, C, P

-----------------------------------------------------------------------------
(* The builder calls.                                                      *)

\* A data call adds its bytes to bl and hands it to librados.
BytesBuilt(call, payload) ==
  IF "prev" \in DOMAIN call
  THEN /\ Intended(Len(asked) + 1, call) \in Seq(Byte)
       /\ bl' = bl \o Intended(Len(asked) + 1, call) /\ payload = bl'
  ELSE bl' = bl

\* What every one of them does to the op.
Built(call, sub, mem) ==
  /\ alive /\ worker = "idle" /\ kind \in {"write", "read"}
  /\ asked' = Append(asked, call) /\ subops' = Append(subops, sub) /\ memory' = Append(memory, mem)
  /\ UNCHANGED <<kind, alive, results, stray, worker, cb, rv, told, dangling>>
  /\ Matches(kind, call, sub)
  /\ BytesBuilt(call, sub.payload)

\* A call that is no read may take the slot of the attributes or the checksum.
BuiltOther(call) ==
  /\ call.code # "read"
  /\ \/ req' = req
     \/ req' = [req EXCEPT !.xattrs = Len(asked')]
     \/ req' = [req EXCEPT !.sum = Len(asked')]

BuiltRead(call, mem) ==
  /\ call.code = "read" /\ call.arg \in Nat /\ Destination(call, mem)
  /\ \A cell \in DOMAIN mem : mem[cell] = "old"
  /\ \/ call.chain = <<>> /\ req' = [req EXCEPT !.buffer = Len(asked')]
     \/ call.chain # <<>> /\ req' = [req EXCEPT !.sgl = Len(asked')]

LEMMA AddBuilt ==
  ASSUME NEW k \in {"write", "read"}, Building(k), NEW call, NEW payload, NEW mem,
         Add(call, payload, mem), k = "write" => call.code # "omap_cmp", call.code \notin NullCalls,
         BytesBuilt(call, payload)
  PROVE  \E sub : Built(call, sub, mem)
<1> DEFINE sub == [code |-> call.code, arg |-> call.arg, payload |-> payload]
<1>1. sub.code = call.code /\ sub.arg = call.arg /\ sub.payload = payload
  OBVIOUS
<1>2. /\ kind = k /\ alive /\ worker = "idle"
      /\ asked' = Append(asked, call) /\ subops' = Append(subops, sub) /\ memory' = Append(memory, mem)
      /\ UNCHANGED <<kind, alive, results, stray, worker, cb, rv, told, dangling>>
  BY DEF Building, Add, flight
<1> HIDE DEF sub
<1>3. Matches(kind, call, sub)
  BY <1>1, <1>2 DEF Matches
<1>4. Built(call, sub, mem)
  BY <1>1, <1>2, <1>3 DEF Built
<1> QED
  BY <1>4

LEMMA DataBuilt ==
  ASSUME NEW call, NEW data, AddData(call, data),
         call.code \in {"write", "write_full", "writesame", "append"}, "prev" \in DOMAIN call,
         data \in Seq(Byte), data = Intended(Len(asked) + 1, call)
  PROVE  \E sub, mem : Built(call, sub, mem) /\ BuiltOther(call)
<1>1. Building("write") /\ Add(call, bl', <<>>) /\ req' = req /\ bl' = bl \o data
  BY DEF AddData
<1>2. BytesBuilt(call, bl')
  BY <1>1 DEF BytesBuilt
<1>3. \E sub : Built(call, sub, <<>>)
  BY <1>1, <1>2, AddBuilt DEF NullCalls
<1>4. BuiltOther(call)
  BY <1>1 DEF BuiltOther
<1> QED
  BY <1>3, <1>4

\* Without align buffers there is only the data.
LEMMA NotAligned ==
  ASSUME NEW k \in Nat, NEW data \in Seq(Byte)
  PROVE  Buffer(k, 1, 0) \o data \o Buffer(k, 2, 0) = data
<1>1. Buffer(k, 1, 0) = <<>> /\ Buffer(k, 2, 0) = <<>>
  BY BufferFacts
<1>2. <<>> \o data = data /\ data \o <<>> = data
  BY ConcatEmptySeq
<1> QED
  BY <1>1, <1>2

LEMMA BufferBuilt ==
  ASSUME NEW code \in {"write", "write_full", "writesame", "append"}, NEW len \in Nat, WriteBuffer(code, len),
         Len(asked) \in Nat
  PROVE  \E call, sub, mem : Built(call, sub, mem) /\ BuiltOther(call)
<1> DEFINE k == Len(asked) + 1
           call == DataCall(code, <<>>, len, FALSE, 0, 0)
           data == Buffer(k, 0, len)
<1>1. AddData(call, data)
  BY DEF WriteBuffer
<1>2. call.code = code /\ call.chain = <<>> /\ call.len = len /\ call.prev = 0 /\ call.back = 0 /\ "prev" \in DOMAIN call
  BY DEF DataCall
<1>3. k \in Nat
  OBVIOUS
<1> HIDE DEF call, k
<1>4. data \in Seq(Byte)
  BY <1>3, BufferFacts
<1>5. Intended(k, call) = Buffer(k, 1, 0) \o data \o Buffer(k, 2, 0)
  BY <1>2 DEF Intended
<1>6. data = Intended(k, call)
  BY <1>3, <1>4, <1>5, NotAligned
<1> HIDE DEF data
<1> QED
  BY <1>1, <1>2, <1>4, <1>6, DataBuilt DEF k

\* The bytes of a chain.
LEMMA ChainIntended ==
  ASSUME NEW k \in Nat, NEW call, call.chain \in Chains, call.whole \in BOOLEAN,
         call.len \in 0..Capacity(call.chain, call.whole), call.prev \in Nat, call.back \in Nat, "prev" \in DOMAIN call
  PROVE  /\ Intended(k, call) = Buffer(k, 1, call.prev) \o Bytes(k, Gather(call.chain, call.len, call.whole))
                                  \o Buffer(k, 2, call.back)
         /\ Bytes(k, Gather(call.chain, call.len, call.whole)) \in Seq(Byte)
         /\ Intended(k, call) \in Seq(Byte)
<1> DEFINE chain == call.chain
           len == call.len
           whole == call.whole
           prev == call.prev
           back == call.back
           data == Bytes(k, Gather(chain, len, whole))
<1>1. chain # <<>>
  BY RadosOpAssumption
<1>2. Intended(k, call) = Buffer(k, 1, prev) \o Bytes(k, SubSeq(ChainCells(chain, whole), 1, len)) \o Buffer(k, 2, back)
  BY <1>1 DEF Intended
<1>3. chain \in Chains /\ whole \in BOOLEAN /\ len \in 0..Capacity(chain, whole) /\ prev \in Nat /\ back \in Nat
  OBVIOUS
<1> HIDE DEF chain, len, whole, prev, back
<1>4. Gather(chain, len, whole) = SubSeq(ChainCells(chain, whole), 1, len) /\ Gather(chain, len, whole) \in Seq(Cell)
  BY <1>3, GatherIsPrefix
<1>5. data \in Seq(Byte) /\ data = Bytes(k, SubSeq(ChainCells(chain, whole), 1, len))
  BY <1>4, BytesFacts
<1> DEFINE b1 == Buffer(k, 1, prev)
           b2 == Buffer(k, 2, back)
<1>6. b1 \in Seq(Byte) /\ b2 \in Seq(Byte)
  BY <1>3, BufferFacts
<1> HIDE DEF b1, b2, data
<1>7. b1 \o data \in Seq(Byte)
  BY <1>5, <1>6, ConcatProperties
<1>8. b1 \o data \o b2 \in Seq(Byte)
  BY <1>6, <1>7, ConcatProperties
<1>9. Intended(k, call) = b1 \o data \o b2
  BY <1>2, <1>5 DEF b1, b2
<1> QED
  BY <1>5, <1>8, <1>9 DEF data, b1, b2, chain, len, whole, prev, back

LEMMA SGLBuilt ==
  ASSUME NEW code \in {"write", "write_full", "writesame", "append"}, NEW chain \in Chains,
         NEW whole \in BOOLEAN, NEW len \in 0..Capacity(chain, whole), WriteSGL(code, chain, len, whole),
         Len(asked) \in Nat
  PROVE  \E call, sub, mem : Built(call, sub, mem) /\ BuiltOther(call)
<1> DEFINE k == Len(asked) + 1
           call == DataCall(code, chain, len, whole, 0, 0)
           data == Bytes(k, Gather(chain, len, whole))
<1>1. AddData(call, data)
  BY DEF WriteSGL
<1>2. /\ call.code = code /\ call.chain = chain /\ call.len = len /\ call.whole = whole
      /\ call.prev = 0 /\ call.back = 0 /\ "prev" \in DOMAIN call
  BY DEF DataCall
<1>3. k \in Nat
  OBVIOUS
<1> HIDE DEF call, k
<1>4. /\ call.chain \in Chains /\ call.whole \in BOOLEAN /\ call.len \in 0..Capacity(call.chain, call.whole)
      /\ call.prev \in Nat /\ call.back \in Nat
  BY <1>2
<1>5. Intended(k, call) = Buffer(k, 1, 0) \o data \o Buffer(k, 2, 0) /\ data \in Seq(Byte)
  <2>1. /\ Intended(k, call) = Buffer(k, 1, call.prev) \o Bytes(k, Gather(call.chain, call.len, call.whole))
                                 \o Buffer(k, 2, call.back)
        /\ Bytes(k, Gather(call.chain, call.len, call.whole)) \in Seq(Byte)
    BY <1>2, <1>3, <1>4, ChainIntended
  <2> QED
    BY <1>2, <2>1
<1> HIDE DEF data
<1>6. data = Intended(k, call)
  BY <1>3, <1>5, NotAligned
<1> QED
  BY <1>1, <1>2, <1>5, <1>6, DataBuilt DEF k

LEMMA AlignedBuilt ==
  ASSUME NEW chain \in Chains, NEW whole \in BOOLEAN, NEW len \in 0..Capacity(chain, whole),
         NEW prev \in 0..1, NEW back \in 0..1, WriteOpWriteSGL(chain, len, prev, back, whole), Len(asked) \in Nat
  PROVE  \E call, sub, mem : Built(call, sub, mem) /\ BuiltOther(call)
<1> DEFINE k == Len(asked) + 1
           call == DataCall("write", chain, len, whole, prev, back)
           data == Aligned(k, Bytes(k, Gather(chain, len, whole)), prev, back)
<1>1. AddData(call, data)
  BY DEF WriteOpWriteSGL
<1>2. /\ call.code = "write" /\ call.chain = chain /\ call.len = len /\ call.whole = whole
      /\ call.prev = prev /\ call.back = back /\ "prev" \in DOMAIN call
  BY DEF DataCall
<1>3. k \in Nat
  OBVIOUS
<1> HIDE DEF call, k
<1>4. /\ call.chain \in Chains /\ call.whole \in BOOLEAN /\ call.len \in 0..Capacity(call.chain, call.whole)
      /\ call.prev \in Nat /\ call.back \in Nat
  BY <1>2
<1>5. data = Intended(k, call) /\ data \in Seq(Byte)
  <2>1. /\ Intended(k, call) = Buffer(k, 1, call.prev) \o Bytes(k, Gather(call.chain, call.len, call.whole))
                                 \o Buffer(k, 2, call.back)
        /\ Intended(k, call) \in Seq(Byte)
    BY <1>2, <1>3, <1>4, ChainIntended
  <2>2. data = Buffer(k, 1, prev) \o Bytes(k, Gather(chain, len, whole)) \o Buffer(k, 2, back)
    BY DEF Aligned
  <2> QED
    BY <1>2, <2>1, <2>2
<1> HIDE DEF data
<1> QED
  BY <1>1, <1>2, <1>5, DataBuilt DEF k

LEMMA PlainFacts ==
  /\ \A code : PlainCall(code).code = code /\ PlainCall(code).arg = 1 /\ "prev" \notin DOMAIN PlainCall(code)
  /\ "read" \notin PlainWrites /\ "omap_cmp" \notin PlainWrites /\ "read" \notin PlainReads
  /\ NullCalls \cap (PlainWrites \cup PlainReads) = {}
  BY DEF PlainCall, PlainWrites, PlainReads, NullCalls

LEMMA PlainBuilt ==
  ASSUME NEW k \in {"write", "read"}, Building(k), NEW code, code # "read", code \notin NullCalls,
         k = "write" => code # "omap_cmp", NEW mem, Add(PlainCall(code), <<>>, mem), bl' = bl,
         \/ req' = req
         \/ req' = [req EXCEPT !.xattrs = Len(asked')]
         \/ req' = [req EXCEPT !.sum = Len(asked')]
  PROVE  \E call, sub, m : Built(call, sub, m) /\ BuiltOther(call)
<1>1. PlainCall(code).code = code /\ BytesBuilt(PlainCall(code), <<>>)
  BY PlainFacts DEF BytesBuilt
<1>2. \E sub : Built(PlainCall(code), sub, mem)
  BY <1>1, AddBuilt
<1>3. BuiltOther(PlainCall(code))
  BY <1>1 DEF BuiltOther
<1> QED
  BY <1>2, <1>3

LEMMA OmapCmpBuilt ==
  ASSUME WriteOpOmapCmp
  PROVE  \E call, sub, mem : Built(call, sub, mem) /\ BuiltOther(call)
<1> DEFINE call == PlainCall("omap_cmp")
           sub == [code |-> "omap_cmp", arg |-> 0, payload |-> <<>>]
<1>1. call.code = "omap_cmp" /\ sub.code = "omap_cmp" /\ sub.arg = 0 /\ "prev" \notin DOMAIN call
  BY PlainFacts
<1>2. /\ kind = "write" /\ alive /\ worker = "idle" /\ req' = req /\ bl' = bl
      /\ asked' = Append(asked, call) /\ subops' = Append(subops, sub) /\ memory' = Append(memory, <<>>)
      /\ UNCHANGED <<kind, alive, results, stray, worker, cb, rv, told, dangling>>
  BY DEF WriteOpOmapCmp, Building, flight
<1> HIDE DEF call, sub
<1>3. Matches(kind, call, sub)
  BY <1>1, <1>2 DEF Matches, NullCalls
<1>4. Built(call, sub, <<>>) /\ BuiltOther(call)
  BY <1>1, <1>2, <1>3 DEF Built, BuiltOther, BytesBuilt
<1> QED
  BY <1>4

\* A call that is ignored.
LEMMA IgnoreBuilt ==
  ASSUME NEW k \in {"write", "read"}, NEW code \in NullCalls, Ignore(k, code)
  PROVE  \E call, sub, mem : Built(call, sub, mem) /\ BuiltOther(call)
<1> DEFINE call == PlainCall(code)
<1>1. call.code = code /\ code # "read" /\ "prev" \notin DOMAIN call
  BY PlainFacts DEF NullCalls
<1>2. /\ kind = k /\ alive /\ worker = "idle" /\ req' = req /\ bl' = bl
      /\ asked' = Append(asked, call) /\ subops' = Append(subops, NoSubOp) /\ memory' = Append(memory, <<>>)
      /\ UNCHANGED <<kind, alive, results, stray, worker, cb, rv, told, dangling>>
  BY DEF Ignore, Building, flight
<1> HIDE DEF call
<1>3. Matches(kind, call, NoSubOp)
  BY <1>1 DEF Matches
<1>4. Built(call, NoSubOp, <<>>) /\ BuiltOther(call)
  BY <1>1, <1>2, <1>3 DEF Built, BuiltOther, BytesBuilt
<1> QED
  BY <1>4

LEMMA WriteBuilt ==
  ASSUME WriteCalls, Len(asked) \in Nat
  PROVE  \E call, sub, mem : Built(call, sub, mem) /\ BuiltOther(call)
<1>0. ASSUME NEW len \in Lens, NEW given \in BOOLEAN, WriteOpWrite(len, given)
      PROVE  \E call, sub, mem : Built(call, sub, mem) /\ BuiltOther(call)
  <2>1. len \in Nat /\ "write_null" \in NullCalls
    BY <1>0, RadosOpAssumption DEF NullCalls
  <2> QED
    BY <1>0, <2>1, BufferBuilt, IgnoreBuilt DEF WriteOpWrite
<1>1. ASSUME NEW len \in Lens,
             WriteOpWriteFull(len) \/ WriteOpWriteSame(len) \/ WriteOpAppend(len)
      PROVE  \E call, sub, mem : Built(call, sub, mem) /\ BuiltOther(call)
  <2>1. len \in Nat
    BY <1>1, RadosOpAssumption
  <2> QED
    BY <1>1, <2>1, BufferBuilt DEF WriteOpWriteFull, WriteOpWriteSame, WriteOpAppend
<1>2. ASSUME NEW chain \in Chains, NEW whole \in BOOLEAN, NEW len \in Lens \cap 0..Capacity(chain, whole),
             \/ WriteOpWriteFullSGL(chain, len, whole)
             \/ WriteOpWriteSameSGL(chain, len, whole)
             \/ WriteOpAppendSGL(chain, len, whole)
      PROVE  \E call, sub, mem : Built(call, sub, mem) /\ BuiltOther(call)
  BY <1>2, SGLBuilt DEF WriteOpWriteFullSGL, WriteOpWriteSameSGL, WriteOpAppendSGL
<1>3. ASSUME NEW code \in PlainWrites, WriteOpPlain(code)
      PROVE  \E call, sub, mem : Built(call, sub, mem) /\ BuiltOther(call)
  <2>1. /\ Building("write") /\ Add(PlainCall(code), <<>>, <<>>) /\ req' = req /\ bl' = bl
        /\ code # "read" /\ code # "omap_cmp" /\ code \notin NullCalls
    BY <1>3, PlainFacts DEF WriteOpPlain
  <2> QED
    BY <2>1, PlainBuilt
<1>4. ASSUME NEW chain \in Chains, NEW whole \in BOOLEAN, NEW len \in Lens \cap 0..Capacity(chain, whole),
             NEW prev \in 0..1, NEW back \in 0..1, WriteOpWriteSGL(chain, len, prev, back, whole)
      PROVE  \E call, sub, mem : Built(call, sub, mem) /\ BuiltOther(call)
  BY <1>4, AlignedBuilt
<1> QED
  BY <1>0, <1>1, <1>2, <1>3, <1>4, OmapCmpBuilt, Zenon DEF WriteCalls

LEMMA ReadBuilt ==
  ASSUME ReadCalls
  PROVE  \E call, sub, mem : Built(call, sub, mem) /\ (BuiltOther(call) \/ BuiltRead(call, mem))
<1>0. ASSUME NEW len \in Lens, Ignore("read", "read_null")
      PROVE  \E call, sub, mem : Built(call, sub, mem) /\ BuiltOther(call)
  BY <1>0, IgnoreBuilt DEF NullCalls
<1>1. ASSUME NEW len \in Lens, ReadBuffer(len)
      PROVE  \E call, sub, mem : Built(call, sub, mem) /\ BuiltRead(call, mem)
  <2> DEFINE call == [code |-> "read", arg |-> len, chain |-> <<>>]
             mem == [cell \in ToSet(EntryCells(0, 0, len)) |-> "old"]
  <2>1. call.code = "read" /\ call.arg \in Nat /\ call.chain = <<>> /\ call.arg = len /\ "prev" \notin DOMAIN call
    BY <1>1, RadosOpAssumption
  <2>2. DOMAIN mem = ToSet(EntryCells(0, 0, len)) /\ \A cell \in DOMAIN mem : mem[cell] = "old"
    OBVIOUS
  <2>3. /\ Building("read") /\ Add(call, <<>>, mem) /\ bl' = bl
        /\ req' = [req EXCEPT !.buffer = Len(asked')]
    BY <1>1 DEF ReadBuffer
  <2> HIDE DEF call, mem
  <2>a. BytesBuilt(call, <<>>)
    BY <2>1, <2>3 DEF BytesBuilt
  <2>4. \E sub : Built(call, sub, mem)
    BY <2>1, <2>3, <2>a, AddBuilt DEF NullCalls
  <2>5. BuiltRead(call, mem)
    BY <2>1, <2>2, <2>3 DEF BuiltRead, Destination
  <2> QED
    BY <2>4, <2>5
<1>2. ASSUME NEW chain \in Chains, NEW whole \in BOOLEAN, NEW len \in Lens \cap 0..Capacity(chain, whole),
             NEW unused \in {"zero", "garbage"}, ReadOpReadSGL(chain, unused, len, whole)
      PROVE  \E call, sub, mem : Built(call, sub, mem) /\ BuiltRead(call, mem)
  <2> DEFINE call == [code |-> "read", arg |-> len, chain |-> chain, unused |-> unused, whole |-> whole]
             mem == [cell \in Cells(chain, whole) |-> "old"]
  <2>1. /\ call.code = "read" /\ call.arg \in Nat /\ call.arg = len /\ "prev" \notin DOMAIN call
        /\ call.chain = chain /\ call.unused = unused /\ call.whole = whole /\ chain # <<>>
    BY <1>2, RadosOpAssumption
  <2>2. DOMAIN mem = Cells(chain, whole) /\ \A cell \in DOMAIN mem : mem[cell] = "old"
    OBVIOUS
  <2>3. /\ Building("read") /\ Add(call, <<>>, mem) /\ bl' = bl
        /\ req' = [req EXCEPT !.sgl = Len(asked')]
    BY <1>2 DEF ReadOpReadSGL
  <2> HIDE DEF call, mem
  <2>a. BytesBuilt(call, <<>>)
    BY <2>1, <2>3 DEF BytesBuilt
  <2>4. \E sub : Built(call, sub, mem)
    BY <2>1, <2>3, <2>a, AddBuilt DEF NullCalls
  <2>5. BuiltRead(call, mem)
    BY <2>1, <2>2, <2>3 DEF BuiltRead, Destination
  <2> QED
    BY <2>4, <2>5
<1>3. ASSUME NEW code \in PlainReads, ReadOpPlain(code)
      PROVE  \E call, sub, mem : Built(call, sub, mem) /\ BuiltOther(call)
  <2>1. Building("read") /\ Add(PlainCall(code), <<>>, <<>>) /\ req' = req /\ bl' = bl /\ code # "read"
        /\ code \notin NullCalls
    BY <1>3, PlainFacts DEF ReadOpPlain
  <2> QED
    BY <2>1, PlainBuilt
<1>4. ASSUME ReadOpGetXattrs
      PROVE  \E call, sub, mem : Built(call, sub, mem) /\ BuiltOther(call)
  <2>1. Building("read") /\ Add(PlainCall("getxattrs"), <<>>, "end") /\ bl' = bl
        /\ req' = [req EXCEPT !.xattrs = Len(asked')]
    BY <1>4 DEF ReadOpGetXattrs
  <2> QED
    BY <2>1, PlainBuilt DEF NullCalls
<1>5. ASSUME ReadOpCheckSum
      PROVE  \E call, sub, mem : Built(call, sub, mem) /\ BuiltOther(call)
  <2>1. Building("read") /\ Add(PlainCall("checksum"), <<>>, "old") /\ bl' = bl
        /\ req' = [req EXCEPT !.sum = Len(asked')]
    BY <1>5 DEF ReadOpCheckSum
  <2> QED
    BY <2>1, PlainBuilt DEF NullCalls
<1>6. ASSUME NEW len \in Lens, NEW given \in BOOLEAN, ReadOpRead(len, given)
      PROVE  \E call, sub, mem : Built(call, sub, mem) /\ (BuiltOther(call) \/ BuiltRead(call, mem))
  BY <1>0, <1>1, <1>6, Zenon DEF ReadOpRead
<1> QED
  BY <1>2, <1>3, <1>4, <1>5, <1>6, Zenon DEF ReadCalls
-----------------------------------------------------------------------------
(* The steps.                                                              *)

\* A new call leaves the ones before it and their destinations alone.
LEMMA BuiltFacts ==
  ASSUME OpInv, NEW call, NEW sub, NEW mem, Built(call, sub, mem)
  PROVE  /\ SeqInv' /\ LengthInv' /\ Len(asked) \in Nat
         /\ Len(asked') = Len(asked) + 1 /\ DOMAIN asked = 1..Len(asked)
         /\ DOMAIN asked' = 1..(Len(asked) + 1)
         /\ \A k \in 1..Len(asked) :
              asked'[k] = asked[k] /\ subops'[k] = subops[k] /\ memory'[k] = memory[k]
         /\ asked'[Len(asked) + 1] = call /\ subops'[Len(asked) + 1] = sub
         /\ memory'[Len(asked) + 1] = mem
         /\ Reads' = IF call.code = "read" THEN Reads \cup {Len(asked) + 1} ELSE Reads
         /\ Reads \subseteq 1..Len(asked)
<1> USE DEF OpInv, SeqInv, Built
<1>1. /\ IsSeq(asked') /\ Len(asked') = Len(asked) + 1 /\ DOMAIN asked' = 1..(Len(asked) + 1)
      /\ \A i \in 1..Len(asked) : asked'[i] = asked[i]
      /\ asked'[Len(asked) + 1] = call /\ Len(asked) \in Nat /\ DOMAIN asked = 1..Len(asked)
  BY AppendAny, SeqFacts
<1>2. /\ IsSeq(subops') /\ Len(subops') = Len(subops) + 1
      /\ \A i \in 1..Len(subops) : subops'[i] = subops[i]
      /\ subops'[Len(subops) + 1] = sub
  BY AppendAny, SeqFacts
<1>3. /\ IsSeq(memory') /\ Len(memory') = Len(memory) + 1
      /\ \A i \in 1..Len(memory) : memory'[i] = memory[i]
      /\ memory'[Len(memory) + 1] = mem
  BY AppendAny, SeqFacts
<1>4. SeqInv'
  BY <1>1, <1>2, <1>3
<1>5. LengthInv'
  BY <1>1, <1>2, <1>3 DEF LengthInv
<1>6. Reads' = IF call.code = "read" THEN Reads \cup {Len(asked) + 1} ELSE Reads
  <2>1. Reads' = {k \in 1..(Len(asked) + 1) : asked'[k].code = "read"}
        /\ Reads = {k \in 1..Len(asked) : asked[k].code = "read"}
    BY <1>1 DEF Reads
  <2>2. 1..(Len(asked) + 1) = 1..Len(asked) \cup {Len(asked) + 1} /\ Len(asked) + 1 \notin 1..Len(asked)
    BY <1>1
  <2> QED
    BY <1>1, <2>1, <2>2
<1>7. Reads \subseteq 1..Len(asked)
  BY <1>1 DEF Reads
<1> QED
  BY <1>1, <1>2, <1>3, <1>4, <1>5, <1>6, <1>7 DEF LengthInv

LEMMA BuildStep ==
  ASSUME OpInv, NEW call, NEW sub, NEW mem, Built(call, sub, mem), BuiltOther(call) \/ BuiltRead(call, mem)
  PROVE  OpInv'
<1> DEFINE n == Len(asked) + 1
<1>a. /\ alive /\ worker = "idle" /\ cb = "none" /\ ~stray /\ kind' = kind
      /\ UNCHANGED <<kind, alive, results, stray, worker, cb, rv, told, dangling>>
  BY DEF OpInv, Built, FlightInv, OthersUntouched
<1>b. /\ n \in Nat /\ n # 0 /\ Len(asked') = n /\ DOMAIN asked = 1..Len(asked) /\ DOMAIN asked' = 1..n
      /\ Len(asked) \in Nat /\ n \notin 1..Len(asked) /\ 1..n = 1..Len(asked) \cup {n}
      /\ 0 \notin 1..n
  BY BuiltFacts
<1>c. /\ \A k \in 1..Len(asked) :
           asked'[k] = asked[k] /\ subops'[k] = subops[k] /\ memory'[k] = memory[k]
      /\ asked'[n] = call /\ subops'[n] = sub /\ memory'[n] = mem
      /\ Reads' = IF call.code = "read" THEN Reads \cup {n} ELSE Reads
      /\ Reads \subseteq 1..Len(asked)
  BY BuiltFacts
<1> HIDE DEF n
<1>1. FlightInv'
  BY <1>a DEF OpInv, FlightInv
<1>2. SeqInv' /\ LengthInv'
  BY BuiltFacts
<1>3. SubOpsInOrder'
  <2>1. Matches(kind, call, sub)
    BY DEF Built
  <2>2. \A k \in 1..Len(asked) : Matches(kind, asked[k], subops[k])
    BY <1>b DEF OpInv, SubOpsInOrder
  <2>3. Len(subops)' = Len(asked)'
    BY <1>2 DEF LengthInv
  <2> QED
    BY <1>a, <1>b, <1>c, <2>1, <2>2, <2>3 DEF SubOpsInOrder
<1>4. SlotInv'
  <2>1. \A k \in Reads' : asked'[k].arg \in Nat
    BY <1>b, <1>c DEF OpInv, SlotInv, BuiltOther, BuiltRead
  <2>2. req \in [buffer : Nat, sgl : Nat, xattrs : Nat, sum : Nat]
        /\ \A slot \in {"buffer", "sgl", "xattrs", "sum"} : req[slot] <= Len(asked)
    BY DEF OpInv, SlotInv
  <2>3. req' = req \/ \E slot \in {"buffer", "sgl", "xattrs", "sum"} : req' = [req EXCEPT ![slot] = n]
    BY <1>b DEF BuiltOther, BuiltRead
  <2>4. req' \in [buffer : Nat, sgl : Nat, xattrs : Nat, sum : Nat]
    BY <1>b, <2>2, <2>3
  <2>5. \A slot \in {"buffer", "sgl", "xattrs", "sum"} : req'[slot] <= Len(asked')
    BY <1>b, <2>2, <2>3
  <2>6. ASSUME req'.buffer # 0
        PROVE  req'.buffer \in Reads' /\ asked'[req'.buffer].chain = <<>>
    <3>1. CASE req'.buffer = req.buffer
      BY <1>b, <1>c, <2>6, <3>1 DEF OpInv, SlotInv
    <3>2. CASE req'.buffer # req.buffer
      BY <1>b, <1>c, <2>2, <3>2 DEF BuiltOther, BuiltRead
    <3> QED
      BY <3>1, <3>2
  <2>7. ASSUME req'.sgl # 0
        PROVE  req'.sgl \in Reads'
    <3>1. CASE req'.sgl = req.sgl
      BY <1>b, <1>c, <2>7, <3>1 DEF OpInv, SlotInv
    <3>2. CASE req'.sgl # req.sgl
      BY <1>b, <1>c, <2>2, <3>2 DEF BuiltOther, BuiltRead
    <3> QED
      BY <3>1, <3>2
  <2>8. req'.xattrs \notin Reads'
    <3>1. CASE req'.xattrs = req.xattrs
      <4>1. req.xattrs # n
        BY <1>b, <2>2
      <4> QED
        BY <1>c, <3>1, <4>1 DEF OpInv, SlotInv
    <3>2. CASE req'.xattrs # req.xattrs
      BY <1>b, <1>c, <2>2, <3>2 DEF BuiltOther, BuiltRead
    <3> QED
      BY <3>1, <3>2
  <2>9. req'.sum \notin Reads'
    <3>1. CASE req'.sum = req.sum
      <4>1. req.sum # n
        BY <1>b, <2>2
      <4> QED
        BY <1>c, <3>1, <4>1 DEF OpInv, SlotInv
    <3>2. CASE req'.sum # req.sum
      BY <1>b, <1>c, <2>2, <3>2 DEF BuiltOther, BuiltRead
    <3> QED
      BY <3>1, <3>2
  <2> QED
    BY <2>1, <2>4, <2>5, <2>6, <2>7, <2>8, <2>9 DEF SlotInv
<1>5. ResultsInv' /\ StrayFromLaterRead'
  BY <1>a DEF ResultsInv, StrayFromLaterRead
<1>6. OthersUntouched'
  <2>1. ASSUME NEW k \in Reads
        PROVE  k # n /\ \A cell \in DOMAIN memory'[k] : memory'[k][cell] = "old"
    BY <1>a, <1>b, <1>c DEF OpInv, OthersUntouched, Untouched
  <2>2. ASSUME n \in Reads'
        PROVE  \A cell \in DOMAIN memory'[n] : memory'[n][cell] = "old"
    <3>1. BuiltRead(call, mem)
      BY <1>b, <1>c, <2>1, <2>2 DEF BuiltOther
    <3> QED
      BY <1>c, <3>1 DEF BuiltRead
  <2>3. ASSUME NEW k \in Reads' PROVE \A cell \in DOMAIN memory'[k] : memory'[k][cell] = "old"
    BY <1>c, <2>1, <2>2, <2>3
  <2> QED
    BY <1>a, <2>3 DEF OthersUntouched, Untouched
<1> QED
  BY <1>1, <1>2, <1>3, <1>4, <1>5, <1>6 DEF OpInv

\* The state of an op that has just been created, or is not there.
LEMMA FreshInv ==
  ASSUME NEW k \in {"none", "write", "read"}, Fresh(k)
  PROVE  OpInv'
<1>a. /\ kind' = k /\ asked' = <<>> /\ subops' = <<>> /\ memory' = <<>> /\ stray' = FALSE
      /\ req' = NoRequest /\ worker' = "idle" /\ cb' = "none" /\ told' = 0 /\ dangling' = FALSE
  BY DEF Fresh
<1>b. Len(<<>>) = 0 /\ IsSeq(<<>>) /\ DOMAIN <<>> = {}
  <2>1. <<>> \in Seq({})
    OBVIOUS
  <2> QED
    BY <2>1 DEF IsSeq
<1>c. Reads' = {}
  BY <1>a, <1>b DEF Reads
<1>1. FlightInv'
  BY <1>a DEF FlightInv
<1>2. SeqInv' /\ LengthInv'
  BY <1>a, <1>b DEF SeqInv, LengthInv
<1>3. SubOpsInOrder'
  BY <1>a, <1>b DEF SubOpsInOrder
<1>4. SlotInv'
  BY <1>a, <1>b, <1>c DEF SlotInv, NoRequest
<1>5. ResultsInv' /\ OthersUntouched' /\ StrayFromLaterRead'
  BY <1>a, <1>c DEF ResultsInv, OthersUntouched, StrayFromLaterRead
<1> QED
  BY <1>1, <1>2, <1>3, <1>4, <1>5 DEF OpInv

\* A step that leaves the op's content alone.
LEMMA ContentKept ==
  ASSUME OpInv, UNCHANGED <<content, rv>>, FlightInv',
         cb' = "fill" => cb = "fill",
         cb' \in {"none", "flying"} => cb \in {"none", "flying"}
  PROVE  OpInv'
<1>a. UNCHANGED <<kind, asked, subops, req, results, memory, stray, rv>>
  BY DEF content
<1>b. Reads' = Reads /\ Served' = Served
  BY <1>a DEF Reads, Served
<1>1. SeqInv' /\ LengthInv'
  BY <1>a DEF OpInv, SeqInv, LengthInv
<1>2. SubOpsInOrder'
  BY <1>a DEF OpInv, SubOpsInOrder
<1>3. SlotInv'
  BY <1>a, <1>b DEF OpInv, SlotInv
<1>4. ResultsInv' /\ StrayFromLaterRead'
  BY <1>a, <1>b DEF OpInv, ResultsInv, StrayFromLaterRead
<1>5. OthersUntouched'
  BY <1>a, <1>b DEF OpInv, OthersUntouched, Untouched
<1> QED
  BY <1>1, <1>2, <1>3, <1>4, <1>5 DEF OpInv

LEMMA QueueStep ==
  ASSUME OpInv, QueueOp
  PROVE  OpInv'
<1>1. FlightInv'
  BY DEF OpInv, FlightInv, QueueOp, content
<1> QED
  BY <1>1, ContentKept DEF QueueOp

LEMMA WorkerStep ==
  ASSUME OpInv, NoIoCtx \/ AioReturns \/ WorkerCallsBack \/ \E taken \in BOOLEAN : AioOperate(taken)
  PROVE  OpInv'
<1>1. CASE NoIoCtx
  <2>1. FlightInv'
    BY <1>1 DEF OpInv, FlightInv, NoIoCtx, UsesOp, content
  <2> QED
    BY <1>1, <2>1, ContentKept DEF NoIoCtx
<1>2. CASE AioReturns
  <2>1. FlightInv'
    BY <1>2 DEF OpInv, FlightInv, AioReturns, content
  <2> QED
    BY <1>2, <2>1, ContentKept DEF AioReturns
<1>3. CASE WorkerCallsBack
  <2>1. FlightInv'
    <3>1. alive /\ told = 0 /\ cb = "none" /\ ~dangling /\ worker = "fail"
      BY <1>3 DEF OpInv, FlightInv, WorkerCallsBack
    <3>2. told' = 1 /\ ~dangling' /\ worker' = "done" /\ UNCHANGED <<kind, alive, cb>>
      <4>1. told' = told + 1 /\ dangling' = (dangling \/ ~alive) /\ worker' = "done"
            /\ UNCHANGED <<kind, alive, cb>>
        BY <1>3 DEF WorkerCallsBack, UsesOp, content
      <4>2. told' = 1
        BY <3>1, <4>1
      <4> QED
        BY <3>1, <4>1, <4>2
    <3> QED
      BY <3>1, <3>2 DEF OpInv, FlightInv
  <2> QED
    BY <1>3, <2>1, ContentKept DEF WorkerCallsBack
<1>4. CASE \E taken \in BOOLEAN : AioOperate(taken)
  <2>1. PICK taken \in BOOLEAN : AioOperate(taken)
    BY <1>4
  <2>2. FlightInv'
    BY <2>1 DEF OpInv, FlightInv, AioOperate, UsesOp, content
  <2>3. cb = "none" /\ cb' \in {"none", "flying"} /\ UNCHANGED <<content, rv>>
    BY <2>1 DEF OpInv, FlightInv, AioOperate
  <2> QED
    BY <2>2, <2>3, ContentKept
<1> QED
  BY <1>1, <1>2, <1>3, <1>4

\* librados answers with at most the length of the last read.
LEMMA CompletesStep ==
  ASSUME OpInv, NEW r \in {0, 1}, NEW got \in Nat, Completes(r, got)
  PROVE  OpInv'
<1>a. /\ cb = "flying" /\ cb' = "fill" /\ rv' = r /\ dangling' = (dangling \/ ~alive)
      /\ UNCHANGED <<kind, alive, asked, subops, bl, req, memory, stray, worker, told>>
  BY DEF Completes, UsesOp
<1>b. Reads' = Reads
  BY <1>a DEF Reads
<1>1. FlightInv'
  BY <1>a DEF OpInv, FlightInv
<1>2. SeqInv' /\ LengthInv'
  BY <1>a DEF OpInv, SeqInv, LengthInv
<1>3. SubOpsInOrder'
  BY <1>a DEF OpInv, SubOpsInOrder
<1>4. SlotInv'
  BY <1>a, <1>b DEF OpInv, SlotInv
<1>5. ResultsInv'
  <2>1. Len(results') = got
    <3>1. (IF Reads = {} THEN 0 ELSE LastOf(Reads)) \in Nat
      <4>1. Reads \subseteq Nat
        BY SeqFacts DEF OpInv, SeqInv, Reads
      <4>2. Reads # {} => LastOf(Reads) \in Reads
        BY LastRead, LastOfFacts DEF OpInv
      <4> QED
        BY <4>1, <4>2
    <3> QED
      BY <3>1, BufferFacts DEF Completes
  <2>2. ASSUME NEW n \in Reads, \A j \in Reads : j <= n
        PROVE  got <= asked[n].arg
    <3>1. Reads \subseteq Nat
      BY SeqFacts DEF OpInv, SeqInv, Reads
    <3>2. LastOf(Reads) = n
      <4>1. LastOf(Reads) \in Reads /\ \A j \in Reads : j <= LastOf(Reads)
        BY <2>2, LastOfFacts
      <4>2. LastOf(Reads) <= n /\ n <= LastOf(Reads)
        BY <2>2, <4>1
      <4>3. LastOf(Reads) \in Nat /\ n \in Nat
        BY <2>2, <3>1, <4>1
      <4> QED
        BY <4>2, <4>3
    <3>3. asked[n].arg \in Nat
      BY <2>2 DEF OpInv, SlotInv
    <3> QED
      BY <2>2, <3>2, <3>3 DEF Completes
  <2> QED
    BY <1>a, <1>b, <2>1, <2>2 DEF ResultsInv
<1>6. OthersUntouched'
  BY <1>a, <1>b DEF OpInv, OthersUntouched, Untouched
<1>7. StrayFromLaterRead'
  BY <1>a, <1>6 DEF OthersUntouched, StrayFromLaterRead
<1> QED
  BY <1>1, <1>2, <1>3, <1>4, <1>5, <1>6, <1>7 DEF OpInv

\* ReadCallback writes to the destination of the served call and the two that
\* have slots of their own.
LEMMA FilledElsewhere ==
  ASSUME OpInv, NEW k \in Reads, k # Served
  PROVE  Filled[k] = memory[k]
<1>1. k \in DOMAIN memory
  BY SeqFacts DEF OpInv, SeqInv, LengthInv, Reads
<1>2. CASE req.buffer # 0
  <2>1. k # req.buffer
    BY <1>2 DEF Served
  <2> QED
    BY <1>1, <1>2, <2>1 DEF Filled
<1>3. CASE req.buffer = 0 /\ req.sgl # 0
  <2>1. k # req.sgl
    BY <1>3 DEF Served
  <2> QED
    BY <1>1, <1>3, <2>1 DEF Filled
<1>4. CASE req.buffer = 0 /\ req.sgl = 0
  BY <1>4 DEF Filled
<1> QED
  BY <1>2, <1>3, <1>4

LEMMA ReadFillStep ==
  ASSUME OpInv, ReadFill
  PROVE  OpInv'
<1>a. /\ cb = "fill" /\ cb' = "call" /\ dangling' = (dangling \/ ~alive)
      /\ stray' = (rv = 0 /\ GoesAstray)
      /\ UNCHANGED <<kind, alive, asked, subops, bl, req, results, worker, rv, told>>
  BY DEF ReadFill, UsesOp
<1>b. Reads' = Reads /\ Served' = Served
  BY <1>a DEF Reads, Served
<1>c. /\ memory' = IF rv # 0 THEN memory
                   ELSE [k \in DOMAIN memory |-> IF k \in {req.xattrs, req.sum} THEN "set" ELSE Filled[k]]
  BY DEF ReadFill
<1>d. Len(memory) \in Nat /\ DOMAIN memory = 1..Len(memory)
  BY SeqFacts DEF OpInv, SeqInv
<1>1. FlightInv'
  BY <1>a DEF OpInv, FlightInv
<1>2. SeqInv' /\ LengthInv'
  <2>1. CASE rv # 0
    BY <1>a, <1>c, <2>1 DEF OpInv, SeqInv, LengthInv
  <2>2. CASE rv = 0
    <3> DEFINE F(k) == IF k \in {req.xattrs, req.sum} THEN "set" ELSE Filled[k]
    <3>1. memory' = [k \in 1..Len(memory) |-> F(k)]
      BY <1>c, <1>d, <2>2
    <3> HIDE DEF F
    <3>2. memory' \in Seq({F(k) : k \in 1..Len(memory)}) /\ Len(memory') = Len(memory)
      BY <1>d, <3>1
    <3>3. IsSeq(memory')
      BY <3>2 DEF IsSeq
    <3> QED
      BY <1>a, <3>2, <3>3 DEF OpInv, SeqInv, LengthInv
  <2> QED
    BY <2>1, <2>2
<1>3. SubOpsInOrder'
  BY <1>a DEF OpInv, SubOpsInOrder
<1>4. SlotInv'
  BY <1>a, <1>b DEF OpInv, SlotInv
<1>5. ResultsInv'
  BY <1>a DEF ResultsInv
<1>6. OthersUntouched'
  <2>1. ASSUME NEW k \in Reads, rv # 0 \/ k # Served
        PROVE  memory'[k] = memory[k]
    <3>1. CASE rv # 0
      BY <1>c, <3>1
    <3>2. CASE rv = 0
      <4>1. k \in DOMAIN memory /\ k # req.xattrs /\ k # req.sum
        BY SeqFacts DEF OpInv, SeqInv, LengthInv, SlotInv, Reads
      <4>2. Filled[k] = memory[k]
        BY <2>1, <3>2, FilledElsewhere
      <4>3. memory'[k] = IF k \in {req.xattrs, req.sum} THEN "set" ELSE Filled[k]
        BY <1>c, <3>2, <4>1
      <4> QED
        BY <4>1, <4>2, <4>3
    <3> QED
      BY <3>1, <3>2
  <2>2. \A k \in Reads : Untouched(k)
    BY <1>a DEF OpInv, OthersUntouched
  <2> QED
    BY <1>a, <1>b, <2>1, <2>2 DEF OthersUntouched, Untouched
<1>7. StrayFromLaterRead'
  <2> SUFFICES ASSUME stray', req.buffer # 0
               PROVE  \E k, n \in Reads : k < n /\ asked[k].chain = <<>> /\ asked[n].arg > asked[k].arg
    BY <1>a, <1>b DEF StrayFromLaterRead
  <2>1. Len(results) > asked[req.buffer].arg
    BY <1>a DEF GoesAstray
  <2>2. req.buffer \in Reads /\ asked[req.buffer].chain = <<>>
    BY DEF OpInv, SlotInv
  <2>3. PICK n \in Reads : \A j \in Reads : j <= n
    BY <2>2, LastRead DEF OpInv
  <2>4. Len(results) \in Nat /\ Len(results) <= asked[n].arg
    BY <1>a, <2>3 DEF OpInv, ResultsInv
  <2>5. asked[n].arg \in Nat /\ asked[req.buffer].arg \in Nat
    BY <2>2 DEF OpInv, SlotInv
  <2>6. asked[n].arg > asked[req.buffer].arg
    BY <2>1, <2>4, <2>5
  <2>7. n \in Nat /\ req.buffer \in Nat /\ req.buffer <= n /\ req.buffer # n
    <3>1. Reads \subseteq Nat
      BY SeqFacts DEF OpInv, SeqInv, Reads
    <3>2. req.buffer # n
      BY <2>5, <2>6
    <3> QED
      BY <2>2, <2>3, <3>1, <3>2
  <2> QED
    BY <2>2, <2>6, <2>7
<1> QED
  BY <1>1, <1>2, <1>3, <1>4, <1>5, <1>6, <1>7 DEF OpInv

LEMMA CallbackStep ==
  ASSUME OpInv, WriteStart \/ CallbackCalls \/ CallbackEnds \/ OpRelease
  PROVE  OpInv'
<1>1. CASE WriteStart
  <2>1. FlightInv'
    BY <1>1 DEF OpInv, FlightInv, WriteStart, UsesOp, content
  <2> QED
    BY <1>1, <2>1, ContentKept DEF WriteStart
<1>2. CASE CallbackCalls
  <2>1. FlightInv'
    <3>1. alive /\ told = 0 /\ cb = "call" /\ ~dangling /\ worker \notin {"idle", "queued", "fail"}
      BY <1>2 DEF OpInv, FlightInv, CallbackCalls
    <3>2. told' = 1 /\ ~dangling' /\ cb' = "end" /\ UNCHANGED <<kind, alive, worker>>
      <4>1. told' = told + 1 /\ dangling' = (dangling \/ ~alive) /\ cb' = "end"
            /\ UNCHANGED <<kind, alive, worker>>
        BY <1>2 DEF CallbackCalls, UsesOp, content
      <4>2. told' = 1
        BY <3>1, <4>1
      <4> QED
        BY <3>1, <4>1, <4>2
    <3> QED
      BY <3>1, <3>2 DEF OpInv, FlightInv
  <2> QED
    BY <1>2, <2>1, ContentKept DEF CallbackCalls
<1>3. CASE CallbackEnds
  <2>1. FlightInv'
    BY <1>3 DEF OpInv, FlightInv, CallbackEnds, TraceFromCopies, content
  <2> QED
    BY <1>3, <2>1, ContentKept DEF CallbackEnds
<1>4. CASE OpRelease
  <2>1. FlightInv'
    BY <1>4 DEF OpInv, FlightInv, OpRelease, content, flight
  <2> QED
    BY <1>4, <2>1, ContentKept DEF OpRelease, flight
<1> QED
  BY <1>1, <1>2, <1>3, <1>4
-----------------------------------------------------------------------------
(* The bytes.                                                              *)

\* What the first n calls ask for.
Intents(calls, n) == [k \in 1..n |-> Intended(k, calls[k])]

\* bl is what the data calls have asked for so far, and every data sub-op has
\* what it was when the call was made.
BytesInv ==
  /\ \A k \in DOMAIN asked : Intended(k, asked[k]) \in Seq(Byte)
  /\ bl = FlattenSeq(Intents(asked, Len(asked)))
  /\ \A k \in DOMAIN asked :
       "prev" \in DOMAIN asked[k] => subops[k].payload = FlattenSeq(Intents(asked, k))

\* The destinations; without a plain buffer the SGL slot has the last read.
DestInv ==
  /\ \A k \in Reads : Destination(asked[k], memory[k])
  /\ req.sgl # 0 => asked[req.sgl].chain # <<>>
  /\ req.buffer = 0 => \A k \in Reads : k <= req.sgl

\* What went astray from an SGL did so at a gap.
GapInv ==
  stray /\ req.buffer = 0 =>
    req.sgl # 0 /\ Gap(asked[req.sgl].chain, asked[req.sgl].unused, asked[req.sgl].whole)

\* An only read has been delivered once ReadCallback has filled it in.
DeliveredInv ==
  kind = "read" /\ cb \in {"call", "end", "done"} /\ rv = 0 /\ ~stray =>
    \A k \in Reads : k = Served /\ Reads = {k} => memory[k] = Delivered(k)

DataInv == BytesInv /\ DestInv /\ GapInv /\ DeliveredInv

LEMMA IntentsFacts ==
  ASSUME NEW calls, NEW n \in Nat, \A k \in 1..n : Intended(k, calls[k]) \in Seq(Byte)
  PROVE  Intents(calls, n) \in Seq(Seq(Byte)) /\ Len(Intents(calls, n)) = n
<1> DEFINE P(k) == Intended(k, calls[k])
<1>1. \A k \in 1..n : P(k) \in Seq(Byte)
  OBVIOUS
<1>2. Intents(calls, n) = [k \in 1..n |-> P(k)]
  BY DEF Intents
<1> HIDE DEF P
<1> DEFINE B == Seq(Byte)
<1>3. \A k \in 1..n : P(k) \in B
  BY <1>1
<1> HIDE DEF B
<1>4. [k \in 1..n |-> P(k)] \in Seq(B) /\ Len([k \in 1..n |-> P(k)]) = n
  BY <1>3
<1> QED
  BY <1>2, <1>4 DEF B

\* One more call adds its bytes.
LEMMA IntentsGrow ==
  ASSUME NEW calls, NEW more, NEW n \in Nat, \A k \in 1..(n + 1) : Intended(k, more[k]) \in Seq(Byte),
         \A k \in 1..n : more[k] = calls[k]
  PROVE  FlattenSeq(Intents(more, n + 1)) = FlattenSeq(Intents(calls, n)) \o Intended(n + 1, more[n + 1])
<1>1. \A k \in 1..n : Intended(k, calls[k]) \in Seq(Byte)
  <2>1. \A k \in 1..n : k \in 1..(n + 1)
    OBVIOUS
  <2> QED
    BY <2>1
<1>2. Intents(calls, n) \in Seq(Seq(Byte)) /\ Len(Intents(calls, n)) = n
  BY <1>1, IntentsFacts
<1>3. n + 1 \in Nat /\ n + 1 \in 1..(n + 1)
  OBVIOUS
<1>4. Intents(more, n + 1) \in Seq(Seq(Byte)) /\ Len(Intents(more, n + 1)) = n + 1
  BY <1>3, IntentsFacts
<1> DEFINE x == Intended(n + 1, more[n + 1])
<1>5. x \in Seq(Byte)
  BY <1>3
<1>6. Intents(more, n + 1) = Append(Intents(calls, n), x)
  <2> DEFINE s == Intents(calls, n)
             t == Intents(more, n + 1)
             B == Seq(Byte)
  <2>1. \A k \in 1..n : t[k] = s[k]
    <3>1. \A k \in 1..n : k \in 1..(n + 1)
      OBVIOUS
    <3> QED
      BY <3>1 DEF Intents
  <2>2. t[n + 1] = x
    BY <1>3 DEF Intents
  <2> HIDE DEF s, t, x, B
  <2>3. s \in Seq(B) /\ Len(s) = n /\ t \in Seq(B) /\ Len(t) = n + 1 /\ x \in B
    BY <1>2, <1>4, <1>5 DEF s, t, B
  <2> DEFINE u == Append(s, x)
  <2>4. u \in Seq(B) /\ Len(u) = n + 1 /\ u[n + 1] = x /\ \A k \in 1..n : u[k] = s[k]
    BY <2>3, AppendProperties
  <2> HIDE DEF u
  <2>5. \A k \in 1..(n + 1) : t[k] = u[k]
    <3>1. \A k \in 1..(n + 1) : k \in 1..n \/ k = n + 1
      OBVIOUS
    <3> QED
      BY <2>1, <2>2, <2>4, <3>1
  <2>6. t = u
    BY <2>3, <2>4, <2>5, SeqEqual
  <2> QED
    BY <2>6 DEF s, t, u
<1> HIDE DEF x
<1> QED
  BY <1>2, <1>5, <1>6, FlattenAppend DEF x

LEMMA IntentsKept ==
  ASSUME NEW calls, NEW more, NEW n \in Nat, \A k \in 1..n : more[k] = calls[k]
  PROVE  Intents(more, n) = Intents(calls, n)
  BY DEF Intents

LEMMA BytesBuildStep ==
  ASSUME OpInv, BytesInv, NEW call, NEW sub, NEW mem, Built(call, sub, mem)
  PROVE  BytesInv'
<1> DEFINE n == Len(asked)
<1>1. /\ n \in Nat /\ DOMAIN asked = 1..n /\ DOMAIN asked' = 1..(n + 1) /\ Len(asked') = n + 1
      /\ \A k \in 1..n : asked'[k] = asked[k] /\ subops'[k] = subops[k]
      /\ asked'[n + 1] = call /\ subops'[n + 1] = sub
  BY BuiltFacts
<1>2. BytesBuilt(call, sub.payload)
  BY DEF Built
<1>3. Intended(n + 1, call) \in Seq(Byte) /\ bl' = bl \o Intended(n + 1, call)
  <2>1. CASE "prev" \in DOMAIN call
    BY <1>2, <2>1 DEF BytesBuilt
  <2>2. CASE "prev" \notin DOMAIN call
    <3>1. bl' = bl /\ Intended(n + 1, call) = <<>>
      BY <1>2, <2>2 DEF BytesBuilt, Intended
    <3>2. bl \in Seq(Byte)
      <4>1. Intents(asked, n) \in Seq(Seq(Byte))
        BY <1>1, IntentsFacts DEF BytesInv
      <4> QED
        BY <4>1, FlattenIsSeq DEF BytesInv
    <3>3. bl \o <<>> = bl /\ <<>> \in Seq(Byte)
      BY <3>2, ConcatEmptySeq
    <3> QED
      BY <3>1, <3>3
  <2> QED
    BY <2>1, <2>2
<1> HIDE DEF n
<1>4. \A k \in 1..(n + 1) : k \in 1..n \/ k = n + 1
  BY <1>1
<1>5. \A k \in 1..(n + 1) : Intended(k, asked'[k]) \in Seq(Byte)
  BY <1>1, <1>3, <1>4 DEF BytesInv
<1>6. FlattenSeq(Intents(asked', n + 1)) = FlattenSeq(Intents(asked, n)) \o Intended(n + 1, call)
  BY <1>1, <1>5, IntentsGrow
<1>7. bl' = FlattenSeq(Intents(asked', n + 1))
  BY <1>3, <1>6 DEF BytesInv, n
<1>8. ASSUME NEW k \in 1..(n + 1), "prev" \in DOMAIN asked'[k]
      PROVE  subops'[k].payload = FlattenSeq(Intents(asked', k))
  <2>1. CASE k = n + 1
    <3>1. sub.payload = bl'
      BY <1>1, <1>2, <1>8, <2>1 DEF BytesBuilt
    <3> QED
      BY <1>1, <1>7, <2>1, <3>1
  <2>2. CASE k \in 1..n
    <3>1. k \in Nat /\ \A j \in 1..k : j \in 1..n
      BY <1>1, <2>2
    <3>2. Intents(asked', k) = Intents(asked, k)
      BY <1>1, <3>1, IntentsKept
    <3>3. subops[k].payload = FlattenSeq(Intents(asked, k))
      BY <1>1, <1>8, <2>2 DEF BytesInv
    <3> QED
      BY <1>1, <2>2, <3>2, <3>3
  <2> QED
    BY <1>4, <2>1, <2>2
<1> QED
  BY <1>1, <1>5, <1>7, <1>8 DEF BytesInv

LEMMA DestBuildStep ==
  ASSUME OpInv, DestInv, NEW call, NEW sub, NEW mem, Built(call, sub, mem), BuiltOther(call) \/ BuiltRead(call, mem)
  PROVE  DestInv'
<1> DEFINE n == Len(asked) + 1
<1>1. /\ n \in Nat /\ n \notin 1..Len(asked) /\ Len(asked) \in Nat /\ Len(asked') = n
      /\ \A k \in 1..Len(asked) : asked'[k] = asked[k] /\ memory'[k] = memory[k]
      /\ asked'[n] = call /\ memory'[n] = mem
      /\ Reads' = IF call.code = "read" THEN Reads \cup {n} ELSE Reads
      /\ Reads \subseteq 1..Len(asked)
  BY BuiltFacts
<1>2. /\ req \in [buffer : Nat, sgl : Nat, xattrs : Nat, sum : Nat]
      /\ req.sgl <= Len(asked) /\ req.buffer <= Len(asked) /\ req.sgl # 0 => req.sgl \in Reads
  BY DEF OpInv, SlotInv
<1> HIDE DEF n
<1>3. ASSUME NEW k \in Reads'
      PROVE  Destination(asked'[k], memory'[k])
  <2>1. CASE k \in Reads
    BY <1>1, <2>1 DEF DestInv
  <2>2. CASE k = n /\ call.code = "read"
    BY <1>1, <2>2 DEF BuiltOther, BuiltRead
  <2> QED
    BY <1>1, <1>3, <2>1, <2>2
<1>4. CASE BuiltOther(call)
  <2>1. Reads' = Reads
    BY <1>1, <1>4 DEF BuiltOther
  <2>2. req'.sgl = req.sgl /\ req'.buffer = req.buffer
    BY <1>2, <1>4 DEF BuiltOther
  <2>3. req'.sgl # 0 => asked'[req'.sgl].chain # <<>>
    <3> SUFFICES ASSUME req.sgl # 0 PROVE asked'[req.sgl].chain # <<>>
      BY <2>2
    <3>1. req.sgl \in Reads /\ asked[req.sgl].chain # <<>>
      BY DEF DestInv, OpInv, SlotInv
    <3> QED
      BY <1>1, <3>1
  <2> QED
    BY <1>3, <2>1, <2>2, <2>3 DEF DestInv
<1>5. CASE BuiltRead(call, mem) /\ call.chain = <<>> /\ req' = [req EXCEPT !.buffer = Len(asked')]
  <2>1. req'.sgl = req.sgl /\ req'.buffer = n
    BY <1>1, <1>2, <1>5
  <2>2. req'.sgl # 0 => asked'[req'.sgl].chain # <<>>
    <3> SUFFICES ASSUME req.sgl # 0 PROVE asked'[req.sgl].chain # <<>>
      BY <2>1
    <3>1. req.sgl \in Reads /\ asked[req.sgl].chain # <<>>
      BY DEF DestInv, OpInv, SlotInv
    <3> QED
      BY <1>1, <3>1
  <2>3. n # 0
    BY <1>1 DEF n
  <2> QED
    BY <1>3, <2>1, <2>2, <2>3 DEF DestInv
<1>6. CASE BuiltRead(call, mem) /\ call.chain # <<>> /\ req' = [req EXCEPT !.sgl = Len(asked')]
  <2>1. req'.sgl = n /\ req'.buffer = req.buffer
    BY <1>1, <1>2, <1>6
  <2>2. asked'[req'.sgl].chain # <<>>
    BY <1>1, <1>6, <2>1
  <2>3. \A k \in Reads' : k <= n
    BY <1>1 DEF n
  <2> QED
    BY <1>3, <2>1, <2>2, <2>3 DEF DestInv
<1> QED
  BY <1>4, <1>5, <1>6 DEF BuiltRead

LEMMA DataBuildStep ==
  ASSUME OpInv, DataInv, NEW call, NEW sub, NEW mem, Built(call, sub, mem), BuiltOther(call) \/ BuiltRead(call, mem)
  PROVE  DataInv'
<1>1. BytesInv' /\ DestInv'
  BY BytesBuildStep, DestBuildStep DEF DataInv
<1>2. cb' \notin {"call", "end", "done"} /\ ~stray'
  BY DEF OpInv, Built, FlightInv, OthersUntouched
<1>3. GapInv' /\ DeliveredInv'
  BY <1>2 DEF GapInv, DeliveredInv
<1> QED
  BY <1>1, <1>3 DEF DataInv

\* An op without calls.
Empty == asked = <<>> /\ bl = <<>> /\ req = NoRequest /\ cb = "none" /\ ~stray

LEMMA EmptyData == Empty => DataInv
<1> SUFFICES ASSUME Empty PROVE DataInv
  OBVIOUS
<1> USE DEF Empty
<1>1. DOMAIN asked = {} /\ Len(asked) = 0 /\ Reads = {}
  BY DEF Reads
<1>2. BytesInv
  <2>1. Intents(asked, 0) = <<>>
    <3>1. Intents(asked, 0) \in Seq(Seq(Byte)) /\ Len(Intents(asked, 0)) = 0
      BY IntentsFacts
    <3> QED
      BY <3>1, EmptySeq
  <2>2. FlattenSeq(<<>>) = <<>>
    <3>1. <<>> \in Seq(Seq(Byte)) /\ Len(<<>>) = 0
      OBVIOUS
    <3>2. PICK f : At(f, 0) = FlattenSeq(<<>>) /\ Parts(f, <<>>, 0)
      BY <3>1, FlattenSplit
    <3> QED
      BY <3>2 DEF Parts
  <2> QED
    BY <1>1, <2>1, <2>2 DEF BytesInv
<1>3. DestInv
  BY <1>1 DEF DestInv, NoRequest
<1>4. GapInv /\ DeliveredInv
  BY DEF GapInv, DeliveredInv
<1> QED
  BY <1>2, <1>3, <1>4 DEF DataInv

LEMMA FreshData ==
  ASSUME NEW k, Fresh(k)
  PROVE  DataInv'
<1>1. Empty'
  BY DEF Fresh, Empty
<1> QED
  BY <1>1, EmptyData, PTL

\* A step that leaves the op's content alone, and so does what it has shown.
LEMMA DataKept ==
  ASSUME DataInv, UNCHANGED <<content, rv>>,
         kind = "read" /\ cb' \in {"call", "end", "done"} => cb \in {"call", "end", "done"}
  PROVE  DataInv'
<1>1. UNCHANGED <<kind, asked, subops, bl, req, results, memory, stray, rv>>
  BY DEF content
<1>2. Reads' = Reads /\ Served' = Served /\ \A k : Delivered(k)' = Delivered(k)
  BY <1>1 DEF Reads, Served, Delivered
<1>3. BytesInv'
  BY <1>1 DEF DataInv, BytesInv
<1>4. DestInv'
  BY <1>1, <1>2 DEF DataInv, DestInv
<1>5. GapInv'
  BY <1>1 DEF DataInv, GapInv
<1>6. DeliveredInv'
  BY <1>1, <1>2 DEF DataInv, DeliveredInv
<1> QED
  BY <1>3, <1>4, <1>5, <1>6 DEF DataInv

LEMMA DataCompletes ==
  ASSUME OpInv, DataInv, NEW r, NEW got, Completes(r, got)
  PROVE  DataInv'
<1>1. cb' = "fill" /\ ~stray /\ UNCHANGED <<kind, asked, subops, bl, req, memory, stray>>
  BY DEF Completes, OpInv, OthersUntouched
<1>2. Reads' = Reads
  BY <1>1 DEF Reads
<1>3. BytesInv'
  BY <1>1 DEF DataInv, BytesInv
<1>4. DestInv'
  BY <1>1, <1>2 DEF DataInv, DestInv
<1>5. GapInv' /\ DeliveredInv'
  BY <1>1 DEF GapInv, DeliveredInv
<1> QED
  BY <1>3, <1>4, <1>5 DEF DataInv

\* Where a cell is in a sequence of them.
Place(order, cell) == CHOOSE n \in DOMAIN order : order[n] = cell

\* Cells in order: all of them, each in one place.
Ordered(order, S) ==
  /\ order \in Seq(Cell)
  /\ \A cell \in S : \E p \in 1..Len(order) : order[p] = cell
  /\ \A p, q \in 1..Len(order) : order[p] = order[q] => p = q

\* Copying to the first cells of the order puts each byte in its place.
LEMMA CopiedPrefix ==
  ASSUME NEW mem, NEW order, Ordered(order, DOMAIN mem), NEW to \in Seq(Cell), Len(to) <= Len(order),
         \A p \in 1..Len(to) : to[p] = order[p], NEW cell \in DOMAIN mem
  PROVE  Copied(mem, to)[cell] = IF Place(order, cell) <= Len(to) THEN results[Place(order, cell)] ELSE mem[cell]
<1>1. /\ Len(order) \in Nat /\ DOMAIN order = 1..Len(order) /\ Len(to) \in Nat /\ DOMAIN to = 1..Len(to)
      /\ Len(to) <= Len(order)
  BY DEF Ordered
<1>2. PICK p \in 1..Len(order) : order[p] = cell
  BY DEF Ordered
<1>3. \A q \in 1..Len(order) : order[q] = cell => q = p
  BY <1>2 DEF Ordered
<1>4. Place(order, cell) = p
  BY <1>1, <1>2, <1>3 DEF Place
<1>5. Copied(mem, to)[cell] = IF \E n \in DOMAIN to : to[n] = cell THEN results[CHOOSE n \in DOMAIN to : to[n] = cell] ELSE mem[cell]
  BY DEF Copied
<1>6. CASE p <= Len(to)
  <2>1. p \in DOMAIN to /\ to[p] = cell
    BY <1>1, <1>2, <1>6
  <2>2. \A q \in DOMAIN to : to[q] = cell => q = p
    <3>1. \A q \in DOMAIN to : q \in 1..Len(order) /\ to[q] = order[q]
      BY <1>1
    <3> QED
      BY <1>3, <3>1
  <2>3. (CHOOSE n \in DOMAIN to : to[n] = cell) = p
    BY <2>1, <2>2
  <2> QED
    BY <1>4, <1>5, <1>6, <2>1, <2>3
<1>7. CASE ~(p <= Len(to))
  <2>1. \A q \in DOMAIN to : to[q] # cell
    <3>1. \A q \in DOMAIN to : q \in 1..Len(order) /\ to[q] = order[q] /\ q <= Len(to)
      BY <1>1
    <3> QED
      BY <1>3, <1>7, <3>1
  <2> QED
    BY <1>4, <1>5, <1>7, <2>1
<1> QED
  BY <1>6, <1>7

\* A plain buffer takes the bytes.
LEMMA BufferDelivered ==
  ASSUME NEW mem, NEW len \in Nat, DOMAIN mem = ToSet(EntryCells(0, 0, len)),
         Len(results) \in Nat, Len(results) <= len, NEW cell \in DOMAIN mem
  PROVE  Copied(mem, BufferCells)[cell]
           = IF Place(EntryCells(0, 0, len), cell) <= Len(results)
             THEN results[Place(EntryCells(0, 0, len), cell)] ELSE mem[cell]
<1> DEFINE order == EntryCells(0, 0, len)
           to == BufferCells
<1>1. /\ order \in Seq(Cell) /\ Len(order) = len /\ \A p \in 1..len : order[p] = <<0, 0, p>>
      /\ to \in Seq(Cell) /\ Len(to) = Len(results) /\ \A p \in 1..Len(results) : to[p] = <<0, 0, p>>
  BY EntryCellsFacts DEF BufferCells
<1>2. DOMAIN mem = ToSet(order)
  OBVIOUS
<1> HIDE DEF order, to
<1>3. \A c \in DOMAIN mem : \E p \in 1..Len(order) : order[p] = c
  <2>1. DOMAIN order = 1..Len(order)
    BY <1>1
  <2>2. DOMAIN mem = {order[p] : p \in 1..Len(order)}
    BY <1>2, <2>1 DEF ToSet
  <2> QED
    BY <2>2
<1>4. \A p, q \in 1..Len(order) : order[p] = order[q] => p = q
  BY <1>1
<1>5. Ordered(order, DOMAIN mem)
  BY <1>1, <1>3, <1>4 DEF Ordered
<1>6. \A p \in 1..Len(to) : to[p] = order[p]
  <2>1. \A p \in 1..Len(results) : p \in 1..len
    OBVIOUS
  <2> QED
    BY <1>1, <2>1
<1>7. Copied(mem, to)[cell] = IF Place(order, cell) <= Len(to) THEN results[Place(order, cell)] ELSE mem[cell]
  BY <1>1, <1>5, <1>6, CopiedPrefix
<1> QED
  BY <1>1, <1>7 DEF order, to

\* ReadCallback delivers to the chain, or goes astray at a gap.
LEMMA ChainDelivered ==
  ASSUME NEW mem, NEW chain \in Chains, NEW whole \in BOOLEAN, NEW unused, DOMAIN mem = Cells(chain, whole),
         Len(results) \in 0..Capacity(chain, whole)
  PROVE  LET to == Scatter(chain, unused, Len(results), whole)
             order == ChainCells(chain, whole)
         IN IF Outside \in ToSet(to) THEN Gap(chain, unused, whole)
            ELSE \A cell \in DOMAIN mem :
                   Copied(mem, to)[cell] = IF Place(order, cell) <= Len(results)
                                           THEN results[Place(order, cell)] ELSE mem[cell]
<1> DEFINE to == Scatter(chain, unused, Len(results), whole)
           order == ChainCells(chain, whole)
<1>1. /\ order \in Seq(Cell) /\ Len(order) = Capacity(chain, whole) /\ Len(order) \in Nat
      /\ \A cell \in Cells(chain, whole) : \E p \in 1..Len(order) : order[p] = cell
      /\ \A p, q \in 1..Len(order) : order[p] = order[q] => p = q
      /\ \A p \in 1..Len(order) : order[p] # Outside
  BY CellsOrdered
<1>2. Ordered(order, DOMAIN mem)
  BY <1>1 DEF Ordered
<1>3. \/ to \in Seq(Cell) /\ Len(to) = Len(results) /\ \A p \in 1..Len(results) : to[p] = order[p]
      \/ Outside \in ToSet(to) /\ Gap(chain, unused, whole)
  BY ScatterResult
<1> HIDE DEF to, order
<1>4. CASE to \in Seq(Cell) /\ Len(to) = Len(results) /\ \A p \in 1..Len(results) : to[p] = order[p]
  <2>1. \A p \in 1..Len(to) : to[p] = order[p] /\ to[p] # Outside
    BY <1>1, <1>4
  <2>2. Outside \notin ToSet(to)
    BY <1>4, <2>1 DEF ToSet
  <2>3. Len(to) <= Len(order)
    BY <1>1, <1>4
  <2>4. \A cell \in DOMAIN mem :
          Copied(mem, to)[cell] = IF Place(order, cell) <= Len(to) THEN results[Place(order, cell)] ELSE mem[cell]
    BY <1>2, <1>4, <2>1, <2>3, CopiedPrefix
  <2> QED
    BY <1>4, <2>2, <2>4 DEF to, order
<1>5. CASE Outside \in ToSet(to) /\ Gap(chain, unused, whole)
  BY <1>5 DEF to, order
<1> QED
  BY <1>3, <1>4, <1>5

\* What Delivered says, cell by cell.
Rest(call, cell) ==
  IF Len(results) # call.arg /\ call.chain # <<>> /\ cell[3] <= EntrySize(call.chain, cell[1], cell[2], FALSE)
  THEN "zero" ELSE "old"
Order(call) == IF call.chain = <<>> THEN EntryCells(0, 0, call.arg) ELSE ChainCells(call.chain, call.whole)
DeliveredTo(call, mem, cell) ==
  mem[cell] = IF Place(Order(call), cell) <= Len(results) THEN results[Place(Order(call), cell)] ELSE Rest(call, cell)

LEMMA DeliveredCells ==
  ASSUME NEW k, UNCHANGED <<asked, results>>, NEW mem, memory'[k] = mem,
         mem = [cell \in DOMAIN mem |-> mem[cell]], \A cell \in DOMAIN mem : DeliveredTo(asked[k], mem, cell)
  PROVE  memory'[k] = Delivered(k)'
<1> DEFINE call == asked[k]
<1>1. Delivered(k)' = [cell \in DOMAIN mem |->
          IF Place(Order(call), cell) <= Len(results) THEN results[Place(Order(call), cell)] ELSE Rest(call, cell)]
  BY DEF Delivered, Place, Order, Rest
<1> QED
  BY <1>1 DEF DeliveredTo

\* What ReadCallback leaves in the destination it serves.
LEMMA ServedFill ==
  ASSUME OpInv, DataInv, ReadFill, rv = 0, NEW k \in Reads, k = Served
  PROVE  /\ req.buffer # 0 => memory'[k] = Copied(memory[k], BufferCells)
         /\ req.buffer = 0 => memory'[k] = Copied(ZeroFilled(memory[k], asked[k]), SglCells) /\ req.sgl # 0
<1>1. memory' = [n \in DOMAIN memory |-> IF n \in {req.xattrs, req.sum} THEN "set" ELSE Filled[n]]
  BY DEF ReadFill
<1>2. k \in DOMAIN memory /\ k # req.xattrs /\ k # req.sum /\ k # 0
  BY SeqFacts DEF OpInv, SeqInv, LengthInv, SlotInv, Reads
<1>3. memory'[k] = Filled[k]
  BY <1>1, <1>2
<1>4. CASE req.buffer # 0
  BY <1>2, <1>3, <1>4 DEF Filled, Served
<1>5. CASE req.buffer = 0
  BY <1>2, <1>3, <1>5 DEF Filled, Served
<1> QED
  BY <1>4, <1>5

\* The SGL slot is served with the last read of the op.
LEMMA ServedSgl ==
  ASSUME OpInv, DataInv, cb = "fill", req.buffer = 0, req.sgl # 0
  PROVE  /\ req.sgl \in Reads /\ asked[req.sgl].chain \in Chains /\ asked[req.sgl].whole \in BOOLEAN
         /\ asked[req.sgl].unused \in {"zero", "garbage"}
         /\ asked[req.sgl].chain # <<>> /\ DOMAIN memory[req.sgl] = Cells(asked[req.sgl].chain, asked[req.sgl].whole)
         /\ Len(results) \in 0..Capacity(asked[req.sgl].chain, asked[req.sgl].whole)
<1>1. req.sgl \in Reads /\ asked[req.sgl].chain # <<>> /\ \A k \in Reads : k <= req.sgl
  BY DEF OpInv, SlotInv, DataInv, DestInv
<1>2. Destination(asked[req.sgl], memory[req.sgl])
  BY <1>1 DEF DataInv, DestInv
<1>3. Len(results) \in Nat /\ Len(results) <= asked[req.sgl].arg
  BY <1>1 DEF OpInv, ResultsInv
<1> DEFINE call == asked[req.sgl]
<1>4. /\ call.chain \in Chains /\ call.whole \in BOOLEAN /\ call.unused \in {"zero", "garbage"}
      /\ call.arg \in 0..Capacity(call.chain, call.whole) /\ DOMAIN memory[req.sgl] = Cells(call.chain, call.whole)
  BY <1>1, <1>2 DEF Destination
<1>5. Len(results) \in Nat /\ Len(results) <= call.arg
  BY <1>3
<1> DEFINE chain == call.chain
           whole == call.whole
           arg == call.arg
<1> HIDE DEF call
<1>6. chain \in Chains /\ whole \in BOOLEAN /\ arg \in 0..Capacity(chain, whole) /\ Len(results) <= arg
  BY <1>4, <1>5
<1> HIDE DEF chain, whole, arg
<1>7. Capacity(chain, whole) \in Nat
  BY <1>6, CellsOrdered
<1>8. Len(results) \in 0..Capacity(chain, whole)
  BY <1>5, <1>6, <1>7
<1> QED
  BY <1>1, <1>4, <1>8 DEF chain, whole, call

LEMMA FillDelivers ==
  ASSUME OpInv, DataInv, ReadFill, rv = 0, ~GoesAstray, NEW k \in Reads, k = Served, Reads = {k}
  PROVE  memory'[k] = Delivered(k)'
<1> DEFINE call == asked[k]
           mem == memory'[k]
<1>1. cb = "fill" /\ UNCHANGED <<asked, results>>
  BY DEF ReadFill
<1>2. \A cell \in DOMAIN memory[k] : memory[k][cell] = "old"
  BY <1>1 DEF OpInv, OthersUntouched, Untouched
<1>3. Len(results) \in Nat /\ Len(results) <= call.arg /\ call.arg \in Nat
  <2>1. k \in Nat
    BY SeqFacts DEF OpInv, SeqInv, Reads
  <2>2. \A j \in Reads : j <= k
    BY <2>1
  <2> QED
    BY <1>1, <2>2 DEF OpInv, ResultsInv, SlotInv
<1>4. CASE req.buffer # 0
  <2>1. mem = Copied(memory[k], BufferCells)
    BY <1>4, ServedFill
  <2>2. call.chain = <<>> /\ DOMAIN memory[k] = ToSet(EntryCells(0, 0, call.arg))
    BY <1>4 DEF OpInv, SlotInv, DataInv, DestInv, Destination, Served
  <2>3. mem = [cell \in DOMAIN mem |-> mem[cell]] /\ DOMAIN mem = DOMAIN memory[k]
    BY <2>1 DEF Copied
  <2>4. Order(call) = EntryCells(0, 0, call.arg) /\ \A cell : Rest(call, cell) = "old"
    BY <2>2 DEF Order, Rest
  <2>5. ASSUME NEW cell \in DOMAIN mem
        PROVE  DeliveredTo(call, mem, cell)
    <3>1. mem[cell] = IF Place(Order(call), cell) <= Len(results)
                      THEN results[Place(Order(call), cell)] ELSE memory[k][cell]
      <4> DEFINE len == call.arg
      <4> HIDE DEF mem, len
      <4>1. len \in Nat /\ Len(results) <= len /\ DOMAIN memory[k] = ToSet(EntryCells(0, 0, len)) /\ cell \in DOMAIN memory[k]
        BY <1>3, <2>2, <2>3, <2>5 DEF len
      <4> DEFINE old == memory[k]
      <4> HIDE DEF old
      <4>2. DOMAIN old = ToSet(EntryCells(0, 0, len)) /\ cell \in DOMAIN old
        BY <4>1 DEF old
      <4>3. Copied(old, BufferCells)[cell]
              = IF Place(EntryCells(0, 0, len), cell) <= Len(results)
                THEN results[Place(EntryCells(0, 0, len), cell)] ELSE old[cell]
        BY <1>3, <4>1, <4>2, BufferDelivered
      <4> QED
        BY <2>1, <2>4, <4>3 DEF old, len
    <3>2. memory[k][cell] = Rest(call, cell)
      BY <1>2, <2>3, <2>4, <2>5
    <3> QED
      BY <3>1, <3>2 DEF DeliveredTo
  <2> HIDE DEF mem
  <2> QED
    BY <1>1, <2>3, <2>5, DeliveredCells DEF mem
<1>5. CASE req.buffer = 0
  <2> DEFINE old == ZeroFilled(memory[k], call)
             chain == call.chain
             whole == call.whole
             to == Scatter(call.chain, call.unused, Len(results), call.whole)
             order == ChainCells(call.chain, call.whole)
  <2>1. mem = Copied(old, to) /\ req.sgl # 0 /\ req.sgl = k
    BY <1>5, ServedFill DEF Served, SglCells
  <2>2. /\ chain \in Chains /\ whole \in BOOLEAN /\ chain # <<>> /\ DOMAIN memory[k] = Cells(chain, whole)
        /\ Len(results) \in 0..Capacity(chain, whole)
    BY <1>1, <1>5, <2>1, ServedSgl
  <2>3. Outside \notin ToSet(to)
    BY <1>5, <2>1 DEF GoesAstray, SglCells
  <2>4. /\ DOMAIN old = DOMAIN memory[k]
        /\ \A cell \in DOMAIN old :
             old[cell] = IF Len(results) # call.arg /\ cell[3] <= EntrySize(chain, cell[1], cell[2], FALSE)
                         THEN "zero" ELSE memory[k][cell]
    BY DEF ZeroFilled
  <2>5. \A cell \in DOMAIN old : old[cell] = Rest(call, cell)
    BY <1>2, <2>2, <2>4 DEF Rest
  <2>6. mem = [cell \in DOMAIN mem |-> mem[cell]] /\ DOMAIN mem = DOMAIN old
    BY <2>1 DEF Copied
  <2>7. Order(call) = order
    BY <2>2 DEF Order
  <2> HIDE DEF old
  <2>8. \A cell \in DOMAIN old :
          Copied(old, to)[cell] = IF Place(order, cell) <= Len(results) THEN results[Place(order, cell)] ELSE old[cell]
    BY <2>2, <2>3, <2>4, ChainDelivered
  <2> HIDE DEF mem, to, order, chain, whole
  <2>9. \A cell \in DOMAIN mem : DeliveredTo(call, mem, cell)
    BY <2>1, <2>5, <2>6, <2>7, <2>8 DEF DeliveredTo
  <2> QED
    BY <1>1, <2>6, <2>9, DeliveredCells DEF mem
<1> QED
  BY <1>4, <1>5

LEMMA DataFill ==
  ASSUME OpInv, DataInv, ReadFill
  PROVE  DataInv'
<1>1. /\ cb = "fill" /\ kind = "read" /\ UNCHANGED <<kind, asked, subops, bl, req, results, rv>>
      /\ stray' = (rv = 0 /\ GoesAstray)
  BY DEF ReadFill
<1>2. Reads' = Reads /\ Served' = Served
  BY <1>1 DEF Reads, Served
<1>3. BytesInv'
  BY <1>1 DEF DataInv, BytesInv
<1>4. DestInv'
  <2>1. \A k \in Reads : Destination(asked[k], memory[k])
    BY DEF DataInv, DestInv
  <2>2. ASSUME NEW k \in Reads PROVE Destination(asked[k], memory'[k])
    <3>1. DOMAIN memory'[k] = DOMAIN memory[k]
      <4>1. CASE rv # 0
        BY <4>1 DEF ReadFill
      <4>2. CASE rv = 0 /\ k # Served
        <5>1. memory' = [n \in DOMAIN memory |-> IF n \in {req.xattrs, req.sum} THEN "set" ELSE Filled[n]]
          BY <4>2 DEF ReadFill
        <5>2. k \in DOMAIN memory /\ k # req.xattrs /\ k # req.sum
          BY SeqFacts DEF OpInv, SeqInv, LengthInv, SlotInv, Reads
        <5>3. Filled[k] = memory[k]
          BY <4>2, FilledElsewhere
        <5> QED
          BY <5>1, <5>2, <5>3
      <4>3. CASE rv = 0 /\ k = Served
        BY <4>3, ServedFill DEF Copied, ZeroFilled
      <4> QED
        BY <4>1, <4>2, <4>3
    <3> QED
      BY <2>1, <3>1 DEF Destination
  <2> QED
    BY <1>1, <1>2, <2>2 DEF DataInv, DestInv
<1>5. GapInv'
  <2> SUFFICES ASSUME stray', req.buffer = 0
               PROVE  req.sgl # 0 /\ Gap(asked[req.sgl].chain, asked[req.sgl].unused, asked[req.sgl].whole)
    BY <1>1 DEF GapInv
  <2> DEFINE call == asked[req.sgl]
             mem == memory[req.sgl]
  <2>1. req.sgl # 0 /\ Outside \in ToSet(Scatter(call.chain, call.unused, Len(results), call.whole))
    BY <1>1 DEF GoesAstray, SglCells
  <2>2. /\ call.chain \in Chains /\ call.whole \in BOOLEAN /\ DOMAIN mem = Cells(call.chain, call.whole)
        /\ Len(results) \in 0..Capacity(call.chain, call.whole)
    BY <1>1, <2>1, ServedSgl
  <2> HIDE DEF call, mem
  <2>3. Gap(call.chain, call.unused, call.whole)
    BY <2>1, <2>2, ChainDelivered
  <2> QED
    BY <2>1, <2>3 DEF call
<1>6. DeliveredInv'
  <2> SUFFICES ASSUME rv = 0, ~stray', NEW k \in Reads, k = Served, Reads = {k}
               PROVE  memory'[k] = Delivered(k)'
    BY <1>1, <1>2 DEF DeliveredInv
  <2> QED
    BY <1>1, FillDelivers
<1> QED
  BY <1>3, <1>4, <1>5, <1>6 DEF DataInv
-----------------------------------------------------------------------------
(* The theorems.                                                           *)

LEMMA OpInitially == Init => OpInv
<1> SUFFICES ASSUME Init PROVE OpInv
  OBVIOUS
<1>b. Len(<<>>) = 0 /\ IsSeq(<<>>) /\ DOMAIN <<>> = {}
  <2>1. <<>> \in Seq({})
    OBVIOUS
  <2> QED
    BY <2>1 DEF IsSeq
<1>c. Reads = {}
  BY <1>b DEF Init, Reads
<1>1. FlightInv
  BY DEF Init, FlightInv
<1>2. SeqInv /\ LengthInv /\ SubOpsInOrder
  BY <1>b DEF Init, SeqInv, LengthInv, SubOpsInOrder
<1>3. SlotInv
  BY <1>b, <1>c DEF Init, SlotInv, NoRequest
<1>4. ResultsInv /\ OthersUntouched /\ StrayFromLaterRead
  BY <1>c DEF Init, ResultsInv, OthersUntouched, StrayFromLaterRead
<1> QED
  BY <1>1, <1>2, <1>3, <1>4 DEF OpInv

LEMMA OpStep == OpInv /\ [Next]_vars => OpInv'
<1> SUFFICES ASSUME OpInv, [Next]_vars
             PROVE  OpInv'
  OBVIOUS
<1>1. ASSUME NEW k \in {"write", "read"}, OpInit(k)
      PROVE  OpInv'
  BY <1>1, FreshInv DEF OpInit
<1>2. CASE WriteCalls \/ ReadCalls
  <2>1. Len(asked) \in Nat
    BY SeqFacts DEF OpInv, SeqInv
  <2> QED
    BY <1>2, <2>1, WriteBuilt, ReadBuilt, BuildStep
<1>3. ASSUME NEW r \in {0, 1}, NEW got \in UNION {0..len : len \in Lens}, Completes(r, got)
      PROVE  OpInv'
  <2>1. got \in Nat
    BY <1>3, RadosOpAssumption
  <2> QED
    BY <1>3, <2>1, CompletesStep
<1>4. CASE Forget
  BY <1>4, FreshInv DEF Forget
<1>5. CASE UNCHANGED vars
  <2>1. UNCHANGED <<content, rv, flight, alive>>
    BY <1>5 DEF vars, content, flight
  <2>2. FlightInv'
    BY <2>1 DEF OpInv, FlightInv, content, flight
  <2> QED
    BY <2>1, <2>2, ContentKept DEF flight
<1> QED
  BY <1>1, <1>2, <1>3, <1>4, <1>5, QueueStep, WorkerStep, ReadFillStep, CallbackStep, Zenon DEF Next

\* The op's life, its sub-ops and the slots of reqCtx, in every state.
THEOREM RadosOpInvariant == Spec => []OpInv
  BY OpInitially, OpStep, PTL DEF Spec

\* Neither the worker nor the callbacks use the op or its completion after
\* the user's callback, from which on the user may release them, though the
\* worker may still be in RadosOperationAioOperate when librados calls back.
THEOREM OpUsedWhileAlive == Spec => []NoUseAfterRelease
<1>1. OpInv => NoUseAfterRelease
  BY DEF OpInv, FlightInv, NoUseAfterRelease
<1> QED
  BY <1>1, RadosOpInvariant, PTL

\* The user is called back at most once for an op: by the worker if the op did
\* not get into librados, by librados' callback if it did.
ToldOnce == told <= 1

THEOREM UserToldOnce == Spec => []ToldOnce
<1>1. OpInv => ToldOnce
  BY DEF OpInv, FlightInv, ToldOnce
<1> QED
  BY <1>1, RadosOpInvariant, PTL

LEMMA DataStep == OpInv /\ DataInv /\ [Next]_vars => DataInv'
<1> SUFFICES ASSUME OpInv, DataInv, [Next]_vars
             PROVE  DataInv'
  OBVIOUS
<1>1. ASSUME NEW k \in {"write", "read"}, OpInit(k)
      PROVE  DataInv'
  BY <1>1, FreshData DEF OpInit
<1>2. CASE WriteCalls \/ ReadCalls
  <2>1. Len(asked) \in Nat
    BY SeqFacts DEF OpInv, SeqInv
  <2> QED
    BY <1>2, <2>1, WriteBuilt, ReadBuilt, DataBuildStep
<1>3. ASSUME NEW r, NEW got, Completes(r, got)
      PROVE  DataInv'
  BY <1>3, DataCompletes
<1>4. CASE ReadFill
  BY <1>4, DataFill
<1>5. CASE Forget
  BY <1>5, FreshData DEF Forget
<1>6. CASE QueueOp \/ NoIoCtx \/ AioReturns \/ WorkerCallsBack \/ OpRelease \/ UNCHANGED vars
  <2>1. UNCHANGED <<content, rv>> /\ cb' = cb
    BY <1>6 DEF QueueOp, NoIoCtx, AioReturns, WorkerCallsBack, OpRelease, vars, content, flight
  <2> QED
    BY <2>1, DataKept
<1>7. ASSUME NEW taken \in BOOLEAN, AioOperate(taken)
      PROVE  DataInv'
  <2>1. UNCHANGED <<content, rv>> /\ cb' \in {cb, "flying"}
    BY <1>7 DEF AioOperate
  <2> QED
    BY <2>1, DataKept
<1>8. CASE WriteStart \/ CallbackCalls \/ CallbackEnds
  <2>1. UNCHANGED <<content, rv>> /\ (kind = "read" => cb \in {"call", "end", "done"})
    BY <1>8 DEF WriteStart, CallbackCalls, CallbackEnds
  <2> QED
    BY <2>1, DataKept
<1> QED
  BY <1>1, <1>2, <1>3, <1>4, <1>5, <1>6, <1>7, <1>8, Zenon DEF Next

\* bl and the payloads, the destinations and what went astray, in every state.
THEOREM RadosDataInvariant == Spec => []DataInv
<1>1. Init => DataInv
  BY EmptyData DEF Init, Empty
<1> QED
  BY <1>1, RadosOpInvariant, DataStep, PTL DEF Spec

\* librados gets the sub-ops of the builder calls that were not ignored for a
\* null argument, in their order and with their arguments, all but the
\* comparison of a writing omap_cmp; a data sub-op has the bytes of all the
\* data calls up to it, one after the other, each call's align buffers around
\* the first bytes of its chain, for any chain of entries of 1 to Page bytes
\* and any length it has room for.
THEOREM SubOpsAreFaithful == Spec => []SubOpsFaithful
<1>1. OpInv /\ DataInv => SubOpsFaithful
  <2> SUFFICES ASSUME OpInv, DataInv PROVE SubOpsFaithful
    OBVIOUS
  <2>1. \A k \in DOMAIN asked :
          "prev" \in DOMAIN asked[k] => subops[k].payload = FlattenSeq([n \in 1..k |-> Intended(n, asked[n])])
    BY DEF DataInv, BytesInv, Intents
  <2> QED
    BY <2>1 DEF OpInv, SubOpsInOrder, SubOpsFaithful
<1> QED
  BY <1>1, RadosOpInvariant, RadosDataInvariant, PTL

\* ReadCallback scatters the bytes of a read that is the op's only one to the
\* cells of its destination in order, and zeros the rest of a short read,
\* unless it went astray; a failed op leaves every destination as it was, and
\* a successful one every destination but the one it serves.
THEOREM ReadsAreExact == Spec => []ReadExact
<1>1. OpInv /\ DataInv => ReadExact
  <2> SUFFICES ASSUME OpInv, DataInv, kind = "read", cb \in {"call", "end", "done"}, NEW k \in Reads
               PROVE  IF rv # 0 \/ k # Served THEN Untouched(k)
                      ELSE Reads = {k} /\ ~stray => memory[k] = Delivered(k)
    BY DEF ReadExact, Served, Untouched
  <2>1. CASE rv # 0 \/ k # Served
    BY <2>1 DEF OpInv, OthersUntouched
  <2>2. CASE rv = 0 /\ k = Served
    BY <2>2 DEF DataInv, DeliveredInv
  <2> QED
    BY <2>1, <2>2
<1> QED
  BY <1>1, RadosOpInvariant, RadosDataInvariant, PTL

\* ReadCallback writes outside the user's memory only in two cases: a plain
\* buffer takes a longer read that was asked for after it, or an SGL before
\* the last of the chain is not full and its unused entries count.
THEOREM StraysAreExplained == Spec => []StrayExplained
<1>1. OpInv /\ DataInv => StrayExplained
  <2> SUFFICES ASSUME OpInv, DataInv, stray PROVE StrayExplained
    BY DEF StrayExplained
  <2>1. CASE req.buffer # 0
    BY <2>1 DEF OpInv, StrayFromLaterRead, StrayExplained
  <2>2. CASE req.buffer = 0
    <3> DEFINE call == asked[req.sgl]
    <3>1. req.sgl # 0 /\ Gap(call.chain, call.unused, call.whole)
      BY <2>2 DEF DataInv, GapInv
    <3>2. call.whole \/ call.unused = "garbage"
      <4>1. req.sgl \in Reads /\ call.chain # <<>>
        BY <3>1 DEF OpInv, SlotInv, DataInv, DestInv
      <4>2. call.unused \in {"zero", "garbage"}
        BY <4>1 DEF DataInv, DestInv, Destination
      <4> QED
        BY <3>1, <4>2 DEF Gap
    <3> QED
      BY <3>1, <3>2 DEF Gap, StrayExplained
  <2> QED
    BY <2>1, <2>2
<1> QED
  BY <1>1, RadosOpInvariant, RadosDataInvariant, PTL
=============================================================================
