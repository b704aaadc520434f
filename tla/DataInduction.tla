--------------------------- MODULE DataInduction ---------------------------
(***************************************************************************)
(* Induction and recursion over the naturals for proofs about functions    *)
(* that run along a sequence.  The theorems of NaturalsInduction take the  *)
(* induction hypothesis as an operator; here it is a set of numbers, and   *)
(* the step of a recursion is a function, so that both can be instantiated.*)
(***************************************************************************)
EXTENDS WellFoundedInduction, SequencesExt, TLAPS

LessThan == OpToRel(<, Nat)

LEMMA LessThanDef == \A i, j \in Nat : <<i, j>> \in LessThan <=> i < j
  BY DEF LessThan, OpToRel

LEMMA Least ==
    ASSUME NEW T \in SUBSET Nat, T # {}
    PROVE  \E n \in T : \A m \in T : n <= m
  <1>1. IsWellFoundedOn(LessThan, Nat)
    BY NatLessThanWellFounded DEF LessThan
  <1>2. PICK x \in T : \A y \in T : ~ (<<y, x>> \in LessThan)
    BY <1>1, WFMin
  <1>3. \A y \in T : ~ (y < x)
    BY <1>2, LessThanDef
  <1> QED BY <1>3

LEMMA IntervalInduction ==
    ASSUME NEW n \in Nat, NEW P, 0 \in P, \A i \in 1..n : i - 1 \in P => i \in P
    PROVE  \A i \in 0..n : i \in P
  <1> SUFFICES ASSUME NEW j \in 0..n, j \notin P PROVE FALSE
    OBVIOUS
  <1> DEFINE T == {i \in 0..n : i \notin P}
  <1>1. T \in SUBSET Nat /\ T # {}
    OBVIOUS
  <1>2. PICK m \in T : \A i \in T : m <= i
    BY <1>1, Least
  <1>3. m \in 1..n /\ m - 1 \in 0..n /\ m \notin P
    OBVIOUS
  <1>4. m - 1 \in P
    BY <1>2, <1>3
  <1> QED BY <1>3, <1>4

\* Kept folded where the lemma is used, so that it is easily instantiated.
Steps(n, S) == [1..n -> [S -> S]]

Runs(n, S, s, F) == \E f \in [0..n -> S] : f[0] = s /\ \A i \in 1..n : f[i] = F[i][f[i - 1]]

LEMMA Recursion ==
    ASSUME NEW n \in Nat, NEW S, NEW s \in S, NEW F \in Steps(n, S)
    PROVE  Runs(n, S, s, F)
  <1>0. F \in [1..n -> [S -> S]]
    BY DEF Steps
  <1> DEFINE Upto(m) == \E f \in [0..m -> S] : f[0] = s /\ \A i \in 1..m : f[i] = F[i][f[i - 1]]
             P == {m \in 0..n : Upto(m)}
  <1>1. Upto(0)
    <2> WITNESS [i \in 0..0 |-> s] \in [0..0 -> S]
    <2> QED OBVIOUS
  <1>2. ASSUME NEW m \in 1..n, Upto(m - 1) PROVE Upto(m)
    <2>1. PICK f \in [0..m-1 -> S] : f[0] = s /\ \A i \in 1..m-1 : f[i] = F[i][f[i - 1]]
      BY <1>2
    <2> DEFINE h == [i \in 0..m |-> IF i = m THEN F[m][f[m - 1]] ELSE f[i]]
    <2>2. f[m - 1] \in S /\ F[m] \in [S -> S]
      BY <1>0, <2>1
    <2>3. h \in [0..m -> S]
      BY <2>1, <2>2
    <2>4. h[0] = s
      BY <2>1
    <2>5. ASSUME NEW i \in 1..m PROVE h[i] = F[i][h[i - 1]]
      <3>1. i - 1 \in 0..m-1 /\ h[i - 1] = f[i - 1]
        OBVIOUS
      <3>2. CASE i = m
        <4>1. h[m] = F[m][f[m - 1]]
          OBVIOUS
        <4>2. h[m - 1] = f[m - 1]
          BY <3>1, <3>2
        <4> HIDE DEF h
        <4> QED BY <3>2, <4>1, <4>2
      <3>3. CASE i # m
        BY <2>1, <3>1, <3>3
      <3> QED BY <3>2, <3>3
    <2> HIDE DEF h
    <2> QED BY <2>3, <2>4, <2>5
  <1> HIDE DEF Upto
  <1>3. \A i \in 0..n : i \in P
    <2>1. 0 \in P
      BY <1>1
    <2>2. \A i \in 1..n : i - 1 \in P => i \in P
      BY <1>2
    <2> HIDE DEF P
    <2> QED BY <2>1, <2>2, IntervalInduction
  <1>4. Upto(n)
    BY <1>3
  <1> QED BY <1>4 DEF Upto, Runs

LEMMA SameRun ==
    ASSUME NEW n \in Nat, NEW f, NEW g, f[0] = g[0], \A i \in 1..n : f[i - 1] = g[i - 1] => f[i] = g[i]
    PROVE  f[n] = g[n]
  <1> DEFINE P == {i \in 0..n : f[i] = g[i]}
  <1>1. 0 \in P
    OBVIOUS
  <1>2. \A i \in 1..n : i - 1 \in P => i \in P
    OBVIOUS
  <1>3. \A i \in 0..n : i \in P
    <2> HIDE DEF P
    <2> QED BY <1>1, <1>2, IntervalInduction
  <1> QED BY <1>3

\* FlattenSeq, one sequence at a time.
LEMMA FlattenSteps ==
    ASSUME NEW S, NEW seqs \in Seq(Seq(S))
    PROVE  \E out \in [0..Len(seqs) -> Seq(S)] :
              /\ out[0] = <<>> /\ FlattenSeq(seqs) = out[Len(seqs)]
              /\ \A i \in 1..Len(seqs) : out[i] = out[i - 1] \o seqs[i]
  <1> DEFINE n == Len(seqs)
             F == [i \in 1..n |-> [was \in Seq(S) |-> was \o seqs[i]]]
  <1>0. n \in Nat /\ <<>> \in Seq(S) /\ \A i \in 1..n : seqs[i] \in Seq(S)
    OBVIOUS
  <1>1. F \in Steps(n, Seq(S))
    <2>1. \A i \in 1..n, was \in Seq(S) : was \o seqs[i] \in Seq(S)
      BY <1>0
    <2> HIDE DEF n
    <2> QED BY <2>1 DEF Steps
  <1>2. \A was \in Seq(S), i \in 1..n : F[i][was] = was \o seqs[i]
    OBVIOUS
  <1> HIDE DEF n, F
  <1>3. PICK f \in [0..n -> Seq(S)] : f[0] = <<>> /\ \A i \in 1..n : f[i] = F[i][f[i - 1]]
    <2>1. Runs(n, Seq(S), <<>>, F)
      BY <1>0, <1>1, Recursion
    <2> QED BY <2>1 DEF Runs
  <1>4. \A i \in 1..n : f[i] = f[i - 1] \o seqs[i]
    <2>1. \A i \in 1..n : f[i - 1] \in Seq(S)
      BY <1>0, <1>3
    <2> QED BY <1>2, <1>3, <2>1
  <1>b. n # 0 => f[1] = seqs[1]
    <2> SUFFICES ASSUME n # 0 PROVE f[1] = seqs[1]
      OBVIOUS
    <2>1. 1 \in 1..n /\ 1 - 1 = 0
      BY <1>0
    <2>2. f[1] = f[0] \o seqs[1]
      BY <1>4, <2>1
    <2>3. seqs[1] \in Seq(S)
      BY <1>0, <2>1
    <2> QED BY <1>3, <2>2, <2>3
  <1>5. CASE n = 0
    <2>1. FlattenSeq(seqs) = <<>>
      BY <1>5 DEF FlattenSeq, n
    <2> QED BY <1>3, <1>4, <1>5, <2>1 DEF n
  <1>6. CASE n # 0
    <2> DEFINE Is(out) == out = [i \in 1..Len(seqs) |-> IF i = 1 THEN seqs[i] ELSE out[i - 1] \o seqs[i]]
               g == CHOOSE out : Is(out)
               h == [i \in 1..n |-> f[i]]
    <2>1. FlattenSeq(seqs) = g[Len(seqs)]
      BY <1>6 DEF FlattenSeq, n
    <2>2. \A i \in 1..n : h[i] = IF i = 1 THEN seqs[i] ELSE h[i - 1] \o seqs[i]
      <3> SUFFICES ASSUME NEW i \in 1..n PROVE h[i] = IF i = 1 THEN seqs[i] ELSE h[i - 1] \o seqs[i]
        OBVIOUS
      <3>1. CASE i = 1
        BY <1>6, <1>b, <3>1
      <3>2. CASE i # 1
        <4>1. i - 1 \in 1..n
          BY <1>0, <3>2
        <4>2. h[i] = f[i] /\ h[i - 1] = f[i - 1]
          BY <4>1
        <4> HIDE DEF h
        <4> QED BY <1>4, <3>2, <4>2
      <3> QED BY <3>1, <3>2
    <2>3. Is(h)
      BY <2>2 DEF n
    <2>4. Is(g)
      BY <2>3
    <2>5. g = [i \in 1..n |-> IF i = 1 THEN seqs[i] ELSE g[i - 1] \o seqs[i]]
      BY <2>4 DEF n
    <2> HIDE DEF g, h, Is
    <2>6. \A i \in 1..n : g[i] = IF i = 1 THEN seqs[i] ELSE g[i - 1] \o seqs[i]
      BY <2>5
    <2> DEFINE P == {i \in 0..n : i = 0 \/ g[i] = f[i]}
    <2>7. \A i \in 1..n : i - 1 \in P => i \in P
      <3> SUFFICES ASSUME NEW i \in 1..n, i - 1 \in P PROVE i \in P
        OBVIOUS
      <3>1. CASE i = 1
        <4>1. g[i] = seqs[i]
          BY <2>6, <3>1
        <4> QED BY <1>6, <1>b, <3>1, <4>1
      <3>2. CASE i # 1
        <4>1. g[i] = g[i - 1] \o seqs[i] /\ f[i] = f[i - 1] \o seqs[i]
          BY <1>4, <2>6, <3>2
        <4>2. g[i - 1] = f[i - 1]
          BY <1>0, <3>2
        <4>3. g[i] = f[i]
          BY <4>1, <4>2
        <4> QED BY <1>0, <4>3
      <3> QED BY <3>1, <3>2
    <2>8. \A i \in 0..n : i \in P
      <3>1. 0 \in P
        BY <1>0
      <3> HIDE DEF P
      <3> QED BY <1>0, <2>7, <3>1, IntervalInduction
    <2>9. g[n] = f[n]
      BY <1>0, <1>6, <2>8
    <2> QED BY <1>3, <1>4, <2>1, <2>9 DEF n
  <1> QED BY <1>5, <1>6

=============================================================================
