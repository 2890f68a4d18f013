--------------------------- MODULE SequenceLemmas ---------------------------
(* What the proofs about RegisterGuard and TransferStore need to know of      *)
(* induction, of the least element of a set and of FlattenSeq.               *)
EXTENDS Integers, Sequences, SequencesExt, SequenceTheorems,
        WellFoundedInduction, TLAPS

------------------------------------------------------------------------------
\* Induction, over a set: a set of naturals that is not all of them has a
\* least natural outside it.
LEMMA SetInduction ==
    ASSUME NEW S, 0 \in S, \A n \in Nat : n \in S => n + 1 \in S
    PROVE  Nat \subseteq S
<1> DEFINE Less == {p \in Nat \X Nat : p[1] < p[2]}
           T    == Nat \ S
<1>1. IsWellFoundedOn(Less, Nat)
  BY NatLessThanWellFounded DEF OpToRel
<1>2. SUFFICES ASSUME T # {} PROVE FALSE
  OBVIOUS
<1>3. PICK m \in T : \A n \in T : ~(<<n, m>> \in Less)
  <2> HIDE DEF Less
  <2> QED BY <1>1, <1>2, WFMin
<1>4. \A n \in T : ~(n < m)
  <2> TAKE n \in T
  <2>1. <<n, m>> \in Nat \X Nat /\ ~(<<n, m>> \in Less)
    BY <1>3
  <2> QED BY <2>1
<1>5. m # 0 /\ m - 1 \in Nat /\ m - 1 \notin T
  BY <1>4
<1> QED BY <1>5

\* A set of naturals with an element has a least one, and Min is it.
LEMMA LeastIsMin ==
    ASSUME NEW S, S \subseteq Nat, S # {}
    PROVE  Min(S) \in S /\ \A n \in S : Min(S) <= n
<1> DEFINE Less == {p \in Nat \X Nat : p[1] < p[2]}
<1>1. IsWellFoundedOn(Less, Nat)
  BY NatLessThanWellFounded DEF OpToRel
<1>2. PICK m \in S : \A n \in S : ~(<<n, m>> \in Less)
  <2> HIDE DEF Less
  <2> QED BY <1>1, WFMin
<1>3. \A n \in S : m <= n
  <2> TAKE n \in S
  <2>1. <<n, m>> \in Nat \X Nat /\ ~(<<n, m>> \in Less)
    BY <1>2
  <2> QED BY <2>1
<1> QED BY <1>2, <1>3 DEF Min

LEMMA MaxOfTwo ==
    ASSUME NEW m \in Int, NEW n \in Int
    PROVE  Max({m, n}) = IF n > m THEN n ELSE m
<1> DEFINE top == IF n > m THEN n ELSE m
<1>1. top \in {m, n} /\ \A k \in {m, n} : top >= k
  OBVIOUS
<1>2. \A t \in {m, n} : (\A k \in {m, n} : t >= k) => t = top
  OBVIOUS
<1> HIDE DEF top
<1>3. Max({m, n}) = top
  BY <1>1, <1>2 DEF Max
<1> QED BY <1>3 DEF top

------------------------------------------------------------------------------
LEMMA SeqElements ==
    ASSUME NEW S, NEW q \in Seq(S)
    PROVE  /\ q \in [1..Len(q) -> S] /\ Len(q) \in Nat
           /\ \A i \in 1..Len(q) : q[i] \in S
OBVIOUS

------------------------------------------------------------------------------
(* Flattening a sequence of sequences.                                       *)

\* The function FlattenSeq recurs by.
Flattening(seqs, n) ==
    CHOOSE f : f = [i \in 1..n |-> IF i = 1 THEN seqs[i] ELSE f[i - 1] \o seqs[i]]

LEMMA FlatteningExists ==
    ASSUME NEW seqs, NEW n \in Nat
    PROVE  Flattening(seqs, n) = [i \in 1..n |->
               IF i = 1 THEN seqs[i] ELSE Flattening(seqs, n)[i - 1] \o seqs[i]]
<1> DEFINE Is(f, k) == f = [i \in 1..k |-> IF i = 1 THEN seqs[i]
                                           ELSE f[i - 1] \o seqs[i]]
           S == {k \in Nat : \E f : Is(f, k)}
<1>1. 0 \in S
  <2>1. Is(<<>>, 0)
    OBVIOUS
  <2> QED BY <2>1
<1>2. ASSUME NEW k \in Nat, k \in S PROVE k + 1 \in S
  <2>0. PICK f : Is(f, k)
    BY <1>2
  <2>1. \A i \in 1..k : f[i] = IF i = 1 THEN seqs[i] ELSE f[i - 1] \o seqs[i]
    BY <2>0
  <2> DEFINE g == [i \in 1..(k + 1) |->
                      IF i <= k THEN f[i]
                      ELSE IF i = 1 THEN seqs[i] ELSE f[i - 1] \o seqs[i]]
  <2>2. ASSUME NEW i \in 1..(k + 1)
        PROVE  g[i] = IF i = 1 THEN seqs[i] ELSE g[i - 1] \o seqs[i]
    <3>1. \A j \in 1..k : g[j] = f[j]
      OBVIOUS
    <3>2. CASE i <= k
      <4>1. f[i] = IF i = 1 THEN seqs[i] ELSE f[i - 1] \o seqs[i]
        BY <2>1, <3>2
      <4>2. i # 1 => i - 1 \in 1..k
        BY <3>2
      <4> HIDE DEF g
      <4> QED BY <3>1, <3>2, <4>1, <4>2
    <3>3. CASE i = k + 1
      <4>1. g[i] = IF i = 1 THEN seqs[i] ELSE f[i - 1] \o seqs[i]
        BY <3>3
      <4>2. i # 1 => i - 1 \in 1..k
        BY <3>3
      <4> HIDE DEF g
      <4> QED BY <3>1, <4>1, <4>2
    <3> QED BY <3>2, <3>3
  <2>3. g = [i \in 1..(k + 1) |-> g[i]]
    OBVIOUS
  <2>4. Is(g, k + 1)
    <3> HIDE DEF g
    <3> QED BY <2>2, <2>3
  <2>5. \E h : Is(h, k + 1)
    <3> HIDE DEF g, Is
    <3> QED BY <2>4
  <2> HIDE DEF Is
  <2> QED BY <2>5
<1>3. n \in S
  <2> HIDE DEF S
  <2> QED BY <1>1, <1>2, SetInduction
<1>4. \E f : Is(f, n)
  BY <1>3
<1> QED BY <1>4 DEF Flattening

\* Sequences of at most one element flatten to no more than their number.
LEMMA FlattenLength ==
    ASSUME NEW S, NEW seqs, NEW n \in Nat, seqs \in [1..n -> Seq(S)],
           \A i \in 1..n : Len(seqs[i]) <= 1
    PROVE  FlattenSeq(seqs) \in Seq(S) /\ Len(FlattenSeq(seqs)) <= n
<1>1. Len(seqs) = n
  OBVIOUS
<1>2. CASE n = 0
  BY <1>1, <1>2 DEF FlattenSeq
<1>3. CASE n # 0
  <2> DEFINE f == Flattening(seqs, n)
             D == {k \in Nat : k + 1 <= n => /\ f[k + 1] \in Seq(S)
                                            /\ Len(f[k + 1]) <= k + 1}
  <2>1. \A i \in 1..n : f[i] = IF i = 1 THEN seqs[i] ELSE f[i - 1] \o seqs[i]
    <3>1. f = [i \in 1..n |-> IF i = 1 THEN seqs[i] ELSE f[i - 1] \o seqs[i]]
      BY FlatteningExists
    <3> HIDE DEF f
    <3> QED BY <3>1
  <2> HIDE DEF f
  <2>2. 0 \in D
    BY <1>3, <2>1
  <2>3. ASSUME NEW k \in Nat, k \in D PROVE k + 1 \in D
    <3> SUFFICES ASSUME k + 2 <= n
                 PROVE  f[k + 2] \in Seq(S) /\ Len(f[k + 2]) <= k + 2
      OBVIOUS
    <3>1. f[k + 1] \in Seq(S) /\ Len(f[k + 1]) <= k + 1
      BY <2>3
    <3>2. k + 2 \in 1..n /\ k + 2 # 1 /\ (k + 2) - 1 = k + 1
      OBVIOUS
    <3>3. f[k + 2] = f[k + 1] \o seqs[k + 2]
      BY <2>1, <3>2
    <3>4. seqs[k + 2] \in Seq(S) /\ Len(seqs[k + 2]) <= 1
      BY <3>2
    <3>5. /\ f[k + 1] \o seqs[k + 2] \in Seq(S)
          /\ Len(f[k + 1] \o seqs[k + 2]) = Len(f[k + 1]) + Len(seqs[k + 2])
      BY <3>1, <3>4, ConcatProperties
    <3>6. Len(f[k + 1]) \in Nat /\ Len(seqs[k + 2]) \in Nat
      BY <3>1, <3>4
    <3>7. Len(f[k + 2]) = Len(f[k + 1]) + Len(seqs[k + 2])
      BY <3>3, <3>5
    <3>8. Len(f[k + 2]) <= k + 2
      <4>1. \A a, b \in Nat : a <= k + 1 /\ b <= 1 => a + b <= k + 2
        OBVIOUS
      <4>2. Len(f[k + 1]) + Len(seqs[k + 2]) <= k + 2
        <5>1. Len(f[k + 1]) <= k + 1 /\ Len(seqs[k + 2]) <= 1
          BY <3>1, <3>4
        <5> HIDE DEF D
        <5> QED BY <3>6, <4>1, <5>1, Zenon
      <4> QED BY <3>7, <4>2
    <3> QED BY <3>3, <3>5, <3>8
  <2>4. n - 1 \in D
    <3>1. n - 1 \in Nat
      BY <1>3
    <3> HIDE DEF D
    <3> QED BY <2>2, <2>3, <3>1, SetInduction
  <2>5. f[n] \in Seq(S) /\ Len(f[n]) <= n
    BY <2>4
  <2>6. FlattenSeq(seqs) = f[n]
    BY <1>1, <1>3 DEF FlattenSeq, Flattening, f
  <2> QED BY <2>5, <2>6
<1> QED BY <1>2, <1>3
\* g is made of elements of q, in their order, taken from its first k.
Selects(g, q, k) ==
    /\ \A i \in 1..Len(g) : \E a \in 1..k : g[i] = q[a]
    /\ \A i, j \in 1..Len(g) :
         i < j => \E a, b \in 1..k : a < b /\ g[i] = q[a] /\ g[j] = q[b]

LEMMA SelectsNext ==
    ASSUME NEW S, NEW q, NEW k \in Nat, NEW g \in Seq(S), Selects(g, q, k),
           q[k + 1] \in S
    PROVE  Selects(g, q, k + 1) /\ Selects(Append(g, q[k + 1]), q, k + 1)
<1>1. Selects(g, q, k + 1)
  <2>1. 1..k \subseteq 1..(k + 1)
    OBVIOUS
  <2> QED BY <2>1 DEF Selects
<1>2. Selects(Append(g, q[k + 1]), q, k + 1)
  <2> DEFINE h == Append(g, q[k + 1])
  <2>1. /\ Len(g) \in Nat /\ Len(h) = Len(g) + 1 /\ h[Len(g) + 1] = q[k + 1]
        /\ \A i \in 1..Len(g) : h[i] = g[i]
    OBVIOUS
  <2> HIDE DEF h
  <2>2. k + 1 \in 1..(k + 1) /\ \A a \in 1..k : a \in 1..(k + 1) /\ a < k + 1
    OBVIOUS
  <2>3. ASSUME NEW i \in 1..Len(h) PROVE \E a \in 1..(k + 1) : h[i] = q[a]
    <3>1. CASE i = Len(g) + 1
      BY <2>1, <2>2, <3>1
    <3>2. CASE i # Len(g) + 1
      <4>1. i \in 1..Len(g)
        BY <2>1, <3>2
      <4> QED BY <1>1, <2>1, <4>1 DEF Selects
    <3> QED BY <3>1, <3>2
  <2>4. ASSUME NEW i \in 1..Len(h), NEW j \in 1..Len(h), i < j
        PROVE  \E a, b \in 1..(k + 1) : a < b /\ h[i] = q[a] /\ h[j] = q[b]
    <3>1. i \in 1..Len(g)
      BY <2>1, <2>4
    <3>2. CASE j = Len(g) + 1
      <4>1. PICK a \in 1..k : g[i] = q[a]
        BY <3>1 DEF Selects
      <4> QED BY <2>1, <2>2, <3>1, <3>2, <4>1
    <3>3. CASE j # Len(g) + 1
      <4>1. j \in 1..Len(g)
        BY <2>1, <3>3
      <4>2. \E a, b \in 1..(k + 1) : a < b /\ g[i] = q[a] /\ g[j] = q[b]
        BY <1>1, <2>4, <3>1, <4>1 DEF Selects
      <4>3. h[i] = g[i] /\ h[j] = g[j]
        BY <2>1, <3>1, <4>1
      <4> QED BY <4>2, <4>3
    <3> QED BY <3>2, <3>3
  <2> QED BY <2>3, <2>4 DEF Selects, h
<1> QED BY <1>1, <1>2

\* Flattening none or one copy of each element of q selects from q.
LEMMA FlattenSelects ==
    ASSUME NEW S, NEW n \in Nat, NEW q \in [1..n -> S],
           NEW seqs \in [1..n -> Seq(S)],
           \A i \in 1..n : seqs[i] \in {<<>>, <<q[i]>>}
    PROVE  Selects(FlattenSeq(seqs), q, n)
<1>1. Len(seqs) = n
  OBVIOUS
<1>2. CASE n = 0
  BY <1>1, <1>2 DEF FlattenSeq, Selects
<1>3. CASE n # 0
  <2> DEFINE f == Flattening(seqs, n)
             D == {k \in Nat : k + 1 <= n => /\ f[k + 1] \in Seq(S)
                                            /\ Selects(f[k + 1], q, k + 1)}
  <2>1. \A i \in 1..n : f[i] = IF i = 1 THEN seqs[i] ELSE f[i - 1] \o seqs[i]
    <3>1. f = [i \in 1..n |-> IF i = 1 THEN seqs[i] ELSE f[i - 1] \o seqs[i]]
      BY FlatteningExists
    <3> HIDE DEF f
    <3> QED BY <3>1
  <2> HIDE DEF f
  <2>2. 0 \in D
    <3>1. f[1] = seqs[1] /\ 1 \in 1..n /\ q[1] \in S
      BY <1>3, <2>1
    <3>2. f[1] = <<>> \/ f[1] = <<q[1]>>
      BY <3>1
    <3>3. Selects(f[1], q, 1)
      <4>1. CASE f[1] = <<>>
        BY <4>1 DEF Selects
      <4>2. CASE f[1] = <<q[1]>>
        <5>1. Len(f[1]) = 1 /\ f[1][1] = q[1]
          BY <4>2
        <5>2. 1..1 = {1} /\ ~(1 < 1)
          OBVIOUS
        <5> QED BY <5>1, <5>2 DEF Selects
      <4> QED BY <3>2, <4>1, <4>2
    <3>4. f[1] \in Seq(S)
      BY <3>1
    <3> QED BY <3>3, <3>4
  <2>3. ASSUME NEW k \in Nat, k \in D PROVE k + 1 \in D
    <3> SUFFICES ASSUME k + 2 <= n
                 PROVE  f[k + 2] \in Seq(S) /\ Selects(f[k + 2], q, k + 2)
      OBVIOUS
    <3>1. f[k + 1] \in Seq(S) /\ Selects(f[k + 1], q, k + 1)
      BY <2>3
    <3>2. k + 2 \in 1..n /\ k + 2 # 1 /\ (k + 2) - 1 = k + 1 /\ k + 1 \in Nat
          /\ (k + 1) + 1 = k + 2
      OBVIOUS
    <3>3. f[k + 2] = f[k + 1] \o seqs[k + 2]
      BY <2>1, <3>2
    <3>4. q[k + 2] \in S /\ (seqs[k + 2] = <<>> \/ seqs[k + 2] = <<q[k + 2]>>)
      BY <3>2
    <3> HIDE DEF D
    <3>5. /\ f[k + 1] \o <<>> = f[k + 1]
          /\ f[k + 1] \o <<q[k + 2]>> = Append(f[k + 1], q[k + 2])
      <4> DEFINE g == f[k + 1]
                 e == q[k + 2]
      <4>1. g \in Seq(S) /\ e \in S
        BY <3>1, <3>4
      <4> HIDE DEF g, e
      <4>2. g \o <<>> = g
        BY <4>1
      <4>3. g \o <<e>> = Append(g, e)
        BY <4>1
      <4> QED BY <4>2, <4>3 DEF g, e
    <3>6. /\ Selects(f[k + 1], q, k + 2)
          /\ Selects(Append(f[k + 1], q[k + 2]), q, k + 2)
      <4> DEFINE m == k + 1
      <4>1. m \in Nat /\ f[m] \in Seq(S) /\ Selects(f[m], q, m) /\ q[m + 1] \in S
            /\ m + 1 = k + 2
        BY <3>1, <3>2, <3>4
      <4> HIDE DEF m
      <4>2. Selects(f[m], q, m + 1) /\ Selects(Append(f[m], q[m + 1]), q, m + 1)
        BY <4>1, SelectsNext
      <4> QED BY <4>1, <4>2 DEF m
    <3>7. Append(f[k + 1], q[k + 2]) \in Seq(S)
      BY <3>1, <3>4
    <3> QED BY <3>1, <3>3, <3>4, <3>5, <3>6, <3>7
  <2>4. n - 1 \in D
    <3>1. n - 1 \in Nat
      BY <1>3
    <3> HIDE DEF D
    <3> QED BY <2>2, <2>3, <3>1, SetInduction
  <2>5. Selects(f[n], q, n)
    BY <1>3, <2>4
  <2>6. FlattenSeq(seqs) = f[n]
    BY <1>1, <1>3 DEF FlattenSeq, Flattening, f
  <2> QED BY <2>5, <2>6
<1> QED BY <1>2, <1>3
=============================================================================
