-------------------------- MODULE IndexFilesProofs --------------------------
(***************************************************************************)
(* What the index files promise, for any documents, bytes, hash function,  *)
(* block size and number of reading threads.                               *)
(***************************************************************************)
EXTENDS BoolQuery, SequenceTheorems, FiniteSetTheorems, WellFoundedInduction, TLAPS

------------------------------
(* Natural numbers, and functions defined by recursion over them *)

\* A set of natural numbers has a least element.
LEMMA LeastNatural ==
    ASSUME NEW T \in SUBSET Nat, T # {}
    PROVE  \E x \in T : \A y \in T : x <= y
<1>1. PICK x \in T : \A y \in T : ~(<<y, x>> \in OpToRel(<, Nat))
  BY NatLessThanWellFounded, WFMin
<1>2. \A y \in T : ~(y < x)
  BY <1>1 DEF OpToRel
<1> QED BY <1>2

\* Induction over 0..n, for a set in the place of a predicate.
LEMMA Induction ==
    ASSUME NEW n \in Nat, NEW G, 0 \in G,
           \A i \in 1..n : i - 1 \in G => i \in G
    PROVE  0..n \subseteq G
<1> DEFINE Bad == {i \in 0..n : i \notin G}
<1> SUFFICES ASSUME Bad # {} PROVE FALSE
  OBVIOUS
<1>1. PICK m \in Bad : \A k \in Bad : m <= k
  <2>1. Bad \in SUBSET Nat
    OBVIOUS
  <2> HIDE DEF Bad
  <2> QED BY <2>1, LeastNatural
<1>2. m \in 0..n /\ m \notin G /\ m # 0
  OBVIOUS
<1>3. m - 1 \in 0..n /\ m \in 1..n
  BY <1>2
<1>4. m - 1 \notin Bad
  BY <1>1, <1>2
<1> QED BY <1>2, <1>3, <1>4

\* g is the run of n steps of F from x0 in X.
Run(g, n, X, x0, F) ==
    g \in [0..n -> X] /\ g[0] = x0 /\ \A i \in 1..n : g[i] = F[i][g[i - 1]]

\* A recursive definition over 0..n has a solution.
LEMMA Recursion ==
    ASSUME NEW n \in Nat, NEW X, NEW x0 \in X, NEW F \in [1..n -> [X -> X]]
    PROVE  \E g : Run(g, n, X, x0, F)
<1> DEFINE Good(m) == \E g \in [0..m -> X] : g[0] = x0 /\ \A i \in 1..m : g[i] = F[i][g[i - 1]]
           G == {m \in 0..n : Good(m)}
<1>1. 0 \in G
  <2> DEFINE f == [i \in 0..0 |-> x0]
  <2>1. f \in [0..0 -> X] /\ f[0] = x0
    OBVIOUS
  <2>2. \A i \in 1..0 : f[i] = F[i][f[i - 1]]
    OBVIOUS
  <2> HIDE DEF f
  <2>3. Good(0)
    BY <2>1, <2>2
  <2> QED BY <2>3
<1>2. ASSUME NEW m \in 1..n, m - 1 \in G PROVE m \in G
  <2>1. PICK g \in [0..(m - 1) -> X] : g[0] = x0 /\ \A i \in 1..(m - 1) : g[i] = F[i][g[i - 1]]
    BY <1>2
  <2> DEFINE f == [i \in 0..m |-> IF i = m THEN F[m][g[m - 1]] ELSE g[i]]
  <2>2. F[m][g[m - 1]] \in X
    <3>1. m - 1 \in 0..(m - 1)
      OBVIOUS
    <3> QED BY <3>1
  <2>3. f \in [0..m -> X]
    <3>1. \A i \in 0..m : i # m => i \in 0..(m - 1)
      OBVIOUS
    <3> QED BY <2>2, <3>1
  <2>4. f[0] = x0
    BY <2>1
  <2>5. ASSUME NEW i \in 1..m PROVE f[i] = F[i][f[i - 1]]
    <3>1. i - 1 \in 0..m /\ i - 1 # m /\ i \in 0..m
      OBVIOUS
    <3>2. f[i - 1] = g[i - 1]
      BY <3>1
    <3>3. CASE i = m
      BY <3>1, <3>2, <3>3
    <3>4. CASE i # m
      <4>1. i \in 1..(m - 1)
        BY <3>4
      <4> QED BY <3>1, <3>2, <3>4, <4>1, <2>1
    <3> QED BY <3>3, <3>4
  <2>6. Good(m)
    <3> HIDE DEF f
    <3> QED BY <2>3, <2>4, <2>5
  <2>7. m \in 0..n
    OBVIOUS
  <2> HIDE DEF Good
  <2> QED BY <2>6, <2>7
<1> HIDE DEF G
<1>3. 0..n \subseteq G
  BY <1>1, <1>2, Induction
<1>4. n \in 0..n
  OBVIOUS
<1>5. n \in G
  BY <1>3, <1>4
<1>6. Good(n)
  BY <1>5 DEF G
<1> QED BY <1>6 DEF Run

------------------------------
(* Sequences *)

\* A function over 1..n is a sequence of length n.
LEMMA SeqOver ==
    ASSUME NEW n \in Nat, NEW S, NEW s \in [1..n -> S]
    PROVE  s \in Seq(S) /\ Len(s) = n /\ DOMAIN s = 1..n
<1>1. s \in Seq(S)
  BY SeqDef
<1> QED BY <1>1, LenProperties

\* What a concatenation and a slice hold, cell by cell.
IsConcat(r, s, t) ==
    /\ Len(r) = Len(s) + Len(t)
    /\ Len(s) \in Nat /\ Len(t) \in Nat
    /\ \A i \in 1..Len(s) : r[i] = s[i]
    /\ \A i \in 1..Len(t) : r[Len(s) + i] = t[i]

IsSlice(r, s, at, n) == Len(r) = n /\ \A i \in 1..n : r[i] = s[at + i]

\* The cells of a concatenation, over two sets of cells.
LEMMA Concat ==
    ASSUME NEW A, NEW B, NEW s \in Seq(A), NEW t \in Seq(B)
    PROVE  s \o t \in Seq(A \cup B) /\ IsConcat(s \o t, s, t)
<1>1. s \in Seq(A \cup B) /\ t \in Seq(A \cup B)
  BY SeqMonotonic
<1>2. Len(s) \in Nat /\ Len(t) \in Nat
  BY LenProperties
<1>3. /\ s \o t \in Seq(A \cup B)
      /\ Len(s \o t) = Len(s) + Len(t)
      /\ \A i \in 1 .. Len(s) + Len(t) : (s \o t)[i] =
                     IF i <= Len(s) THEN s[i] ELSE t[i - Len(s)]
  BY <1>1, ConcatProperties
<1>4. \A i \in 1..Len(s) : i \in 1..(Len(s) + Len(t)) /\ i <= Len(s)
  BY <1>2
<1>5. \A i \in 1..Len(t) :
          Len(s) + i \in 1..(Len(s) + Len(t)) /\ ~(Len(s) + i <= Len(s)) /\ Len(s) + i - Len(s) = i
  BY <1>2
<1>6. \A i \in 1..Len(s) : (s \o t)[i] = s[i]
  BY <1>3, <1>4
<1>7. \A i \in 1..Len(t) : (s \o t)[Len(s) + i] = t[i]
  BY <1>3, <1>5
<1> QED BY <1>2, <1>3, <1>6, <1>7 DEF IsConcat

\* A slice inside a sequence.
LEMMA SliceCells ==
    ASSUME NEW S, NEW s \in Seq(S), NEW at \in Nat, NEW n \in Nat, at + n <= Len(s)
    PROVE  Slice(s, at, n) \in Seq(S) /\ IsSlice(Slice(s, at, n), s, at, n)
<1>1. Len(s) \in Nat
  BY LenProperties
<1>2. \A i \in (at + 1)..(at + n) : s[i] \in S
  <2> TAKE i \in (at + 1)..(at + n)
  <2>1. i \in 1..Len(s)
    BY <1>1
  <2> QED BY <2>1, ElementOfSeq
<1> DEFINE t == SubSeq(s, at + 1, at + n)
<1>3. /\ t \in Seq(S)
      /\ Len(t) = IF at + 1 <= at + n THEN (at + n) - (at + 1) + 1 ELSE 0
      /\ \A i \in 1..((at + n) - (at + 1) + 1) : t[i] = s[(at + 1) + i - 1]
  BY <1>1, <1>2, SubSeqProperties
<1>4. (at + n) - (at + 1) + 1 = n /\ \A i \in 1..n : (at + 1) + i - 1 = at + i
  OBVIOUS
<1>5. Len(t) = n
  BY <1>3, <1>4
<1>6. \A i \in 1..n : t[i] = s[at + i]
  BY <1>3, <1>4
<1> QED BY <1>3, <1>5, <1>6 DEF Slice, IsSlice

\* The parts of flat are those of seqs, and st is where they begin.
IsFlat(flat, seqs, st) ==
    /\ st \in [0..Len(seqs) -> Nat]
    /\ st[0] = 0 /\ st[Len(seqs)] = Len(flat)
    /\ \A i \in 1..Len(seqs) : st[i] = st[i - 1] + Len(seqs[i]) /\ st[i] <= Len(flat)
    /\ \A i \in 1..Len(seqs) : \A j \in 1..Len(seqs[i]) : flat[st[i - 1] + j] = seqs[i][j]

\* Where the parts of a flattened sequence begin, and what is there.
LEMMA Flattened ==
    ASSUME NEW S, NEW seqs \in Seq(Seq(S))
    PROVE  FlattenSeq(seqs) \in Seq(S) /\ \E st : IsFlat(FlattenSeq(seqs), seqs, st)
<1> DEFINE n == Len(seqs)
           F == [i \in 1..n |-> [s \in Seq(S) |-> s \o seqs[i]]]
<1>1. n \in Nat /\ \A i \in 1..n : seqs[i] \in Seq(S)
  BY LenProperties, ElementOfSeq
<1> HIDE DEF n
<1>2. F \in [1..n -> [Seq(S) -> Seq(S)]]
  <2>1. \A i \in 1..n, s \in Seq(S) : s \o seqs[i] \in Seq(S)
    BY <1>1, ConcatProperties
  <2> QED BY <2>1
<1>3. \A i \in 1..n, s \in Seq(S) : F[i][s] = s \o seqs[i]
  OBVIOUS
<1> HIDE DEF F
<1>4. <<>> \in Seq(S) /\ Len(<<>>) = 0
  BY EmptySeq
<1>5. PICK g \in [0..n -> Seq(S)] : g[0] = <<>> /\ \A i \in 1..n : g[i] = F[i][g[i - 1]]
  <2>1. \E g : Run(g, n, Seq(S), <<>>, F)
    BY <1>1, <1>2, <1>4, Recursion
  <2> QED BY <2>1 DEF Run
<1>6. \A i \in 1..n : i - 1 \in 0..n /\ i \in 0..n
  BY <1>1
<1>7. \A i \in 0..n : g[i] \in Seq(S) /\ Len(g[i]) \in Nat
  BY LenProperties
<1>8. ASSUME NEW i \in 1..n PROVE g[i] = g[i - 1] \o seqs[i]
  BY <1>3, <1>5, <1>6, <1>7
<1> DEFINE st == [i \in 0..n |-> Len(g[i])]
<1>9. /\ st \in [0..n -> Nat] /\ st[0] = 0
      /\ \A i \in 0..n : st[i] = Len(g[i]) /\ st[i] \in Nat
  BY <1>1, <1>4, <1>5, <1>7
<1> HIDE DEF st
<1>10. ASSUME NEW i \in 1..n
       PROVE  /\ Len(seqs[i]) \in Nat /\ st[i - 1] \in Nat
              /\ st[i] = st[i - 1] + Len(seqs[i])
              /\ \A j \in 1..st[i - 1] : g[i][j] = g[i - 1][j]
              /\ \A j \in 1..Len(seqs[i]) : g[i][st[i - 1] + j] = seqs[i][j]
  <2> DEFINE s == g[i - 1]  t == seqs[i]
  <2>1. s \in Seq(S) /\ t \in Seq(S) /\ g[i] = s \o t /\ st[i] = Len(g[i]) /\ st[i - 1] = Len(s)
    BY <1>1, <1>6, <1>7, <1>8, <1>9
  <2> HIDE DEF s, t
  <2>2. /\ Len(s \o t) = Len(s) + Len(t) /\ Len(s) \in Nat /\ Len(t) \in Nat
        /\ \A j \in 1..Len(s) : (s \o t)[j] = s[j]
        /\ \A j \in 1..Len(t) : (s \o t)[Len(s) + j] = t[j]
    BY <2>1, Concat DEF IsConcat
  <2>3. /\ Len(t) \in Nat /\ st[i - 1] \in Nat
        /\ st[i] = st[i - 1] + Len(t)
        /\ \A j \in 1..st[i - 1] : g[i][j] = s[j]
        /\ \A j \in 1..Len(t) : g[i][st[i - 1] + j] = t[j]
    BY <2>1, <2>2
  <2> QED BY <2>3 DEF s, t
<1> DEFINE Good(k) == \A i \in 1..k :
                        /\ st[i] <= st[k]
                        /\ \A j \in 1..Len(seqs[i]) : g[k][st[i - 1] + j] = seqs[i][j]
           G == {k \in 0..n : Good(k)}
<1>11. 0 \in G
  BY <1>1
<1>12. ASSUME NEW k \in 1..n, k - 1 \in G PROVE k \in G
  <2>1. Good(k - 1)
    BY <1>12
  <2>2. ASSUME NEW i \in 1..k
        PROVE  /\ st[i] <= st[k]
               /\ \A j \in 1..Len(seqs[i]) : g[k][st[i - 1] + j] = seqs[i][j]
    <3>1. CASE i = k
      BY <3>1, <1>10, <1>6, <1>9
    <3>2. CASE i # k
      <4>1. i \in 1..(k - 1) /\ i \in 1..n /\ i \in 0..n /\ k \in 0..n /\ k - 1 \in 0..n
        BY <3>2, <1>1
      <4>2. st[i] <= st[k - 1] /\ st[k - 1] <= st[k]
        <5>1. st[k] = st[k - 1] + Len(seqs[k]) /\ Len(seqs[k]) \in Nat /\ st[k - 1] \in Nat
          BY <1>10
        <5>2. st[i] <= st[k - 1]
          BY <2>1, <4>1
        <5> QED BY <5>1, <5>2
      <4>3. ASSUME NEW j \in 1..Len(seqs[i]) PROVE g[k][st[i - 1] + j] = seqs[i][j]
        <5>1. st[i - 1] + j \in 1..st[k - 1]
          <6>1. st[i] = st[i - 1] + Len(seqs[i]) /\ st[i - 1] \in Nat /\ Len(seqs[i]) \in Nat /\ st[k - 1] \in Nat
            BY <4>1, <1>9, <1>10
          <6> QED BY <4>2, <6>1, SMTT(60)
        <5>2. g[k][st[i - 1] + j] = g[k - 1][st[i - 1] + j]
          BY <5>1, <1>10
        <5>3. g[k - 1][st[i - 1] + j] = seqs[i][j]
          BY <2>1, <4>1
        <5> QED BY <5>2, <5>3
      <4>4. st[i] <= st[k]
        BY <4>1, <4>2, <1>9
      <4> QED BY <4>3, <4>4
    <3> QED BY <3>1, <3>2
  <2> QED BY <2>2, <1>6
<1> HIDE DEF G
<1>13. n \in G
  <2>1. 0..n \subseteq G
    BY <1>1, <1>11, <1>12, Induction
  <2> QED BY <1>1, <2>1
<1>14. Good(n)
  BY <1>13 DEF G
<1>15. FlattenSeq(seqs) = g[n]
  <2>1. CASE n = 0
    <3>1. seqs = <<>>
      BY <2>1, EmptySeq DEF n
    <3> QED BY <2>1, <3>1, <1>5 DEF FlattenSeq, n
  <2>2. CASE n # 0
    <3> DEFINE E(f) == [i \in 1..Len(seqs) |-> IF i = 1 THEN seqs[i] ELSE f[i - 1] \o seqs[i]]
               c == CHOOSE f : f = E(f)
               w == [i \in 1..n |-> g[i]]
    <3>1. FlattenSeq(seqs) = c[n]
      BY <2>2 DEF FlattenSeq, n
    <3>2. ASSUME NEW i \in 1..n PROVE w[i] = IF i = 1 THEN seqs[i] ELSE w[i - 1] \o seqs[i]
      <4>1. CASE i = 1
        <5>1. g[1] = g[0] \o seqs[1]
          <6>1. g[i] = g[i - 1] \o seqs[i]
            BY <1>8
          <6> QED BY <4>1, <6>1
        <5>2. g[1] = seqs[1]
          <6>1. seqs[1] \in Seq(S)
            BY <4>1, <1>1
          <6>2. <<>> \o seqs[1] = seqs[1]
            BY <6>1, ConcatEmptySeq
          <6> QED BY <5>1, <6>2, <1>5
        <5> QED BY <4>1, <5>2
      <4>2. CASE i # 1
        <5>1. i - 1 \in 1..n
          BY <4>2, <1>1
        <5> QED BY <4>2, <5>1, <1>8
      <4> QED BY <4>1, <4>2
    <3>3. w = E(w)
      BY <3>2, SMTT(60) DEF n
    <3>4. c = E(c)
      <4> HIDE DEF w
      <4> QED BY <3>3
    <3>5. \A i \in 1..n : c[i] = IF i = 1 THEN seqs[i] ELSE c[i - 1] \o seqs[i]
      <4> HIDE DEF c
      <4> QED BY <3>4 DEF n
    <3> DEFINE H == {i \in 0..n : i # 0 => c[i] = g[i]}
    <3> HIDE DEF c
    <3>6. 0 \in H
      BY <1>1
    <3>7. ASSUME NEW i \in 1..n, i - 1 \in H PROVE i \in H
      <4>1. CASE i = 1
        <5>1. c[1] = seqs[1] /\ w[1] = seqs[1] /\ w[1] = g[1]
          BY <4>1, <3>2, <3>5
        <5> QED BY <4>1, <5>1, <1>6
      <4>2. CASE i # 1
        <5>1. c[i - 1] = g[i - 1]
          BY <4>2, <3>7
        <5>2. c[i] = c[i - 1] \o seqs[i]
          BY <4>2, <3>5
        <5> QED BY <5>1, <5>2, <1>6, <1>8
      <4> QED BY <4>1, <4>2
    <3> HIDE DEF H
    <3>8. 0..n \subseteq H
      BY <1>1, <3>6, <3>7, Induction
    <3>9. n \in H
      BY <1>1, <3>8
    <3> QED BY <2>2, <3>1, <3>9 DEF H
  <2> QED BY <2>1, <2>2
<1>16. n \in 0..n
  BY <1>1
<1>17. /\ st[n] = Len(FlattenSeq(seqs))
       /\ \A i \in 1..n : st[i] <= Len(FlattenSeq(seqs))
       /\ \A i \in 1..n : \A j \in 1..Len(seqs[i]) : FlattenSeq(seqs)[st[i - 1] + j] = seqs[i][j]
  BY <1>9, <1>14, <1>15, <1>16, SMTT(60)
<1>18. FlattenSeq(seqs) \in Seq(S)
  BY <1>7, <1>15, <1>16
<1>19. \A i \in 1..n : st[i] = st[i - 1] + Len(seqs[i])
  BY <1>10
<1>20. IsFlat(FlattenSeq(seqs), seqs, st)
  BY <1>9, <1>17, <1>19 DEF n, IsFlat
<1> QED BY <1>18, <1>20

------------------------------
(* Length-prefixed paths *)

\* Text is made of numbers.
LEMMA TextIsNat == \A p \in Text : p \in Seq(Nat) /\ Len(p) \in Nat
<1>1. Byte \subseteq Nat
  BY RecordAssumption
<1> QED BY <1>1, SeqMonotonic, LenProperties DEF Text

\* Where each path of a block begins: its length, its bytes, then the next one.
IsPaths(block, ps, st) ==
    /\ st \in [0..Len(ps) -> Nat] /\ st[0] = 0
    /\ \A i \in 1..Len(ps) :
          /\ st[i] = st[i - 1] + 1 + Len(ps[i])
          /\ st[i] <= Len(block)
          /\ block[st[i - 1] + 1] = Len(ps[i])
          /\ \A j \in 1..Len(ps[i]) : block[st[i - 1] + 1 + j] = ps[i][j]

\* A block of paths has this layout.
LEMMA PathLayout ==
    ASSUME NEW ps \in Seq(Text)
    PROVE  PrefixedPaths(ps) \in Seq(Nat) /\ \E st : IsPaths(PrefixedPaths(ps), ps, st)
<1> DEFINE n == Len(ps)
           seqs == [i \in DOMAIN ps |-> <<Len(ps[i])>> \o ps[i]]
<1>1. n \in Nat /\ DOMAIN ps = 1..n /\ \A i \in 1..n : ps[i] \in Text /\ Len(ps[i]) \in Nat /\ ps[i] \in Seq(Nat)
  BY LenProperties, ElementOfSeq, TextIsNat
<1>2. ASSUME NEW i \in 1..n
      PROVE  /\ <<Len(ps[i])>> \o ps[i] \in Seq(Nat)
             /\ Len(<<Len(ps[i])>> \o ps[i]) = 1 + Len(ps[i])
             /\ (<<Len(ps[i])>> \o ps[i])[1] = Len(ps[i])
             /\ \A j \in 1..Len(ps[i]) : (<<Len(ps[i])>> \o ps[i])[1 + j] = ps[i][j]
  <2> DEFINE s == <<Len(ps[i])>>  t == ps[i]
  <2>1. s \in Seq(Nat) /\ Len(s) = 1 /\ s[1] = Len(t) /\ t \in Seq(Nat)
    BY <1>1
  <2> HIDE DEF s
  <2>2. s \o t \in Seq(Nat \cup Nat) /\ IsConcat(s \o t, s, t)
    BY <2>1, Concat
  <2>3. Nat \cup Nat = Nat
    OBVIOUS
  <2> DEFINE r == s \o t
  <2>4. r \in Seq(Nat) /\ IsConcat(r, s, t)
    BY <2>2, <2>3
  <2> HIDE DEF r
  <2>5. Len(r) = 1 + Len(t) /\ r[1] = Len(t) /\ \A j \in 1..Len(t) : r[1 + j] = t[j]
    BY <2>1, <2>4, SMTT(60) DEF IsConcat
  <2> QED BY <2>4, <2>5 DEF s, r
<1> HIDE DEF n
<1>3. seqs \in [1..n -> Seq(Nat)]
  BY <1>1, <1>2
<1>4. \A i \in 1..n : seqs[i] = <<Len(ps[i])>> \o ps[i]
  BY <1>1
<1>5. PrefixedPaths(ps) = FlattenSeq(seqs)
  BY DEF PrefixedPaths
<1> HIDE DEF seqs
<1>6. seqs \in Seq(Seq(Nat)) /\ Len(seqs) = n
  BY <1>1, <1>3, SeqOver
<1>7. \A i \in 1..n :
         /\ Len(seqs[i]) = 1 + Len(ps[i])
         /\ seqs[i][1] = Len(ps[i])
         /\ \A j \in 1..Len(ps[i]) : seqs[i][1 + j] = ps[i][j]
  BY <1>2, <1>4
<1> DEFINE block == FlattenSeq(seqs)
<1>8. block \in Seq(Nat)
  BY <1>6, Flattened
<1>9a. PICK st : IsFlat(block, seqs, st)
  BY <1>6, Flattened
<1>9. /\ st \in [0..n -> Nat] /\ st[0] = 0
      /\ \A i \in 1..n : st[i] = st[i - 1] + Len(seqs[i]) /\ st[i] <= Len(block)
      /\ \A i \in 1..n : \A j \in 1..Len(seqs[i]) : block[st[i - 1] + j] = seqs[i][j]
  <2> HIDE DEF block
  <2> QED BY <1>6, <1>9a DEF IsFlat
<1> HIDE DEF block
<1>10. ASSUME NEW i \in 1..n
       PROVE  /\ st[i] = st[i - 1] + 1 + Len(ps[i])
              /\ st[i] <= Len(block)
              /\ block[st[i - 1] + 1] = Len(ps[i])
              /\ \A j \in 1..Len(ps[i]) : block[st[i - 1] + 1 + j] = ps[i][j]
  <2>1. i - 1 \in 0..n /\ Len(ps[i]) \in Nat /\ Len(seqs[i]) = 1 + Len(ps[i]) /\ st[i - 1] \in Nat
    BY <1>1, <1>7, <1>9, SMTT(60)
  <2>2. st[i] = st[i - 1] + 1 + Len(ps[i]) /\ st[i] <= Len(block)
    <3>1. st[i] = st[i - 1] + Len(seqs[i]) /\ st[i] <= Len(block)
      BY <1>9
    <3>2. st[i] = st[i - 1] + (1 + Len(ps[i]))
      BY <2>1, <3>1
    <3>3. st[i] = st[i - 1] + 1 + Len(ps[i])
      BY <2>1, <3>2, SMTT(60)
    <3> QED BY <3>1, <3>3
  <2>3. 1 \in 1..Len(seqs[i]) /\ \A j \in 1..Len(ps[i]) : 1 + j \in 1..Len(seqs[i])
    BY <2>1, SMTT(60)
  <2>4. block[st[i - 1] + 1] = Len(ps[i])
    BY <2>3, <1>7, <1>9
  <2>5. ASSUME NEW j \in 1..Len(ps[i]) PROVE block[st[i - 1] + 1 + j] = ps[i][j]
    <3>1. block[st[i - 1] + (1 + j)] = seqs[i][1 + j]
      BY <2>3, <1>9
    <3>2. st[i - 1] + (1 + j) = st[i - 1] + 1 + j
      BY <2>1, SMTT(60)
    <3> QED BY <3>1, <3>2, <1>7
  <2> QED BY <2>2, <2>4, <2>5
<1>11. PrefixedPaths(ps) = block
  BY <1>5 DEF block
<1>12. IsPaths(block, ps, st)
  BY <1>9, <1>10 DEF IsPaths, n
<1>13. block \in Seq(Nat)
  BY <1>8
<1> QED BY <1>11, <1>12, <1>13

\* extract_path finds the path it is asked for.
LEMMA ExtractPath ==
    ASSUME NEW ps \in Seq(Text), NEW k \in Nat, k < Len(ps)
    PROVE  extract_path(PrefixedPaths(ps), k) = ps[k + 1]
<1> DEFINE n == Len(ps)
           block == PrefixedPaths(ps)
<1>1. n \in Nat /\ \A i \in 1..n : ps[i] \in Text /\ Len(ps[i]) \in Nat /\ ps[i] \in Seq(Nat)
  BY LenProperties, ElementOfSeq, TextIsNat
<1>2. block \in Seq(Nat) /\ Len(block) \in Nat
  BY PathLayout, LenProperties
<1>3a. PICK st : IsPaths(block, ps, st)
  BY PathLayout
<1>3. /\ st \in [0..n -> Nat] /\ st[0] = 0
      /\ \A i \in 1..n :
            /\ st[i] = st[i - 1] + 1 + Len(ps[i])
            /\ st[i] <= Len(block)
            /\ block[st[i - 1] + 1] = Len(ps[i])
            /\ \A j \in 1..Len(ps[i]) : block[st[i - 1] + 1 + j] = ps[i][j]
  <2> HIDE DEF block
  <2> QED BY <1>3a DEF IsPaths
<1> HIDE DEF n, block
<1>4. \A i \in 1..n :
         /\ st[i - 1] \in Nat /\ st[i] \in Nat
         /\ st[i] = st[i - 1] + 1 + Len(ps[i])
         /\ st[i] <= Len(block)
         /\ block[st[i - 1] + 1] = Len(ps[i])
         /\ \A j \in 1..Len(ps[i]) : block[st[i - 1] + 1 + j] = ps[i][j]
  BY <1>1, <1>3, SMTT(60)
<1>5. \A i \in 1..n : PathAt(block, st[i - 1]) /\ PathAfter(block, st[i - 1]) = st[i]
  <2> TAKE i \in 1..n
  <2>1. st[i - 1] \in Nat /\ st[i] = st[i - 1] + 1 + block[st[i - 1] + 1] /\ st[i] <= Len(block)
        /\ block[st[i - 1] + 1] \in Nat
    BY <1>1, <1>4
  <2>2. PathAt(block, st[i - 1])
    BY <2>1, <1>2, SMTT(60) DEF PathAt
  <2> QED BY <2>1, <2>2 DEF PathAfter
<1> DEFINE E(f) == [j \in 0..k |-> IF j = 0 THEN 0 ELSE PathAfter(block, f[j - 1])]
           c == CHOOSE f : f = E(f)
           w == [j \in 0..k |-> st[j]]
<1>6. k < n
  BY DEF n
<1>7. \A j \in 0..k : j \in 0..n /\ (j # 0 => j \in 1..n /\ j - 1 \in 0..k)
  BY <1>1, <1>6
<1>8. ASSUME NEW j \in 0..k PROVE w[j] = IF j = 0 THEN 0 ELSE PathAfter(block, w[j - 1])
  BY <1>3, <1>5, <1>7
<1>9. w = E(w)
  BY <1>8
<1>10. c = E(c)
  <2> HIDE DEF w
  <2> QED BY <1>9
<1>11. extract_path(block, k) =
          IF PathAt(block, c[k]) THEN Slice(block, c[k] + 1, block[c[k] + 1]) ELSE NoValue
  BY DEF extract_path
<1>12. \A j \in 0..k : c[j] = IF j = 0 THEN 0 ELSE PathAfter(block, c[j - 1])
  <2> HIDE DEF c
  <2> QED BY <1>10
<1> HIDE DEF c
<1> DEFINE G == {j \in 0..k : c[j] = st[j]}
<1>13. 0 \in G
  BY <1>3, <1>12
<1>14. ASSUME NEW j \in 1..k, j - 1 \in G PROVE j \in G
  <2>1. c[j - 1] = st[j - 1] /\ j \in 0..k /\ j # 0 /\ j \in 1..n
    BY <1>14, <1>7
  <2> QED BY <2>1, <1>5, <1>12
<1> HIDE DEF G
<1>15. c[k] = st[k]
  <2>1. 0..k \subseteq G
    BY <1>13, <1>14, Induction
  <2>2. k \in G
    BY <2>1
  <2> QED BY <2>2 DEF G
<1> DEFINE i == k + 1
<1>16. i \in 1..n /\ i - 1 = k
  BY <1>1, <1>6
<1> HIDE DEF i
<1>17. extract_path(block, k) = Slice(block, st[k] + 1, Len(ps[i]))
  BY <1>4, <1>5, <1>11, <1>15, <1>16
<1>18. st[k] \in Nat /\ Len(ps[i]) \in Nat /\ st[k] + 1 + Len(ps[i]) <= Len(block) /\ ps[i] \in Seq(Nat)
  BY <1>1, <1>4, <1>16
<1> DEFINE r == Slice(block, st[k] + 1, Len(ps[i]))
<1>19. r \in Seq(Nat) /\ IsSlice(r, block, st[k] + 1, Len(ps[i]))
  <2>1. st[k] + 1 \in Nat
    BY <1>18
  <2> QED BY <1>2, <1>18, <2>1, SliceCells
<1> HIDE DEF r
<1>20. Len(r) = Len(ps[i]) /\ \A j \in 1..Len(r) : r[j] = ps[i][j]
  BY <1>4, <1>16, <1>19 DEF IsSlice
<1>21. r = ps[i]
  BY <1>18, <1>19, <1>20, SeqEqual
<1> QED BY <1>17, <1>21 DEF i, block, r

------------------------------
(* Chunks: a sequence cut into parts of B, the last one possibly shorter *)

\* The greatest lower bound of two numbers.
LEMMA MinOfTwo ==
    ASSUME NEW a \in Int, NEW b \in Int
    PROVE  Min({a, b}) = IF a <= b THEN a ELSE b
<1> DEFINE m == IF a <= b THEN a ELSE b
<1>1. m \in {a, b} /\ \A y \in {a, b} : m <= y
  OBVIOUS
<1>2. \A x \in {a, b} : (\A y \in {a, b} : x <= y) => x = m
  OBVIOUS
<1> HIDE DEF m
<1>3. (CHOOSE x \in {a, b} : \A y \in {a, b} : x =< y) = m
  BY <1>1, <1>2
<1> QED BY <1>3 DEF Min, m

\* How many chunks there are, and that each begins inside the sequence.
LEMMA CeilDivision ==
    ASSUME NEW a \in Nat, NEW b \in Nat \ {0}
    PROVE  /\ CeilDiv(a, b) \in Nat
           /\ a <= b * CeilDiv(a, b) /\ b * CeilDiv(a, b) < a + b
           /\ \A k \in 1..CeilDiv(a, b) : b * (k - 1) \in Nat /\ b * (k - 1) < a
           /\ \A k \in 1..(CeilDiv(a, b) - 1) : b * k <= a
<1> DEFINE q == (a + b - 1) \div b
           r == (a + b - 1) % b
<1>1. q \in Nat /\ r \in 0..(b - 1) /\ a + b - 1 = b * q + r
  OBVIOUS
<1> HIDE DEF q, r
<1>2. b * q \in Nat /\ a <= b * q /\ b * q < a + b
  BY <1>1
<1>3. ASSUME NEW k \in 1..q PROVE b * (k - 1) \in Nat /\ b * (k - 1) < a
  <2>1. PICK d \in Nat : q = (k - 1) + 1 + d
    <3>1. q - k \in Nat
      BY <1>1
    <3>2. q = (k - 1) + 1 + (q - k)
      BY <1>1
    <3> QED BY <3>1, <3>2
  <2>2. b * q = b * (k - 1) + b + b * d /\ b * d \in Nat /\ b * (k - 1) \in Nat
    BY <2>1, <1>1
  <2> QED BY <2>2, <1>2
<1>4. ASSUME NEW k \in 1..(q - 1) PROVE b * k <= a
  <2>1. PICK d \in Nat : q = k + 1 + d
    <3>1. q - 1 - k \in Nat
      BY <1>1
    <3>2. q = k + 1 + (q - 1 - k)
      BY <1>1
    <3> QED BY <3>1, <3>2
  <2>2. b * q = b * k + b + b * d /\ b * d \in Nat /\ b * k \in Nat
    BY <2>1, <1>1
  <2> QED BY <2>2, <1>2
<1> QED BY <1>1, <1>2, <1>3, <1>4 DEF CeilDiv, q

\* Chunk k of s in parts of b.
IsChunk(r, s, b, k) ==
    /\ Len(r) \in 1..b
    /\ Len(r) = IF b * k <= Len(s) THEN b ELSE Len(s) - b * (k - 1)
    /\ b * (k - 1) + Len(r) <= Len(s)
    /\ \A i \in 1..Len(r) : r[i] = s[b * (k - 1) + i]

\* The k-th chunk of a sequence.
LEMMA Chunk ==
    ASSUME NEW S, NEW s \in Seq(S), NEW b \in Nat \ {0}, NEW k \in 1..CeilDiv(Len(s), b)
    PROVE  LET r == SubSeq(s, b * (k - 1) + 1, Min({b * k, Len(s)}))
           IN  r \in Seq(S) /\ IsChunk(r, s, b, k)
<1> DEFINE at == b * (k - 1)
           end == Min({b * k, Len(s)})
           r == SubSeq(s, at + 1, end)
<1>1. Len(s) \in Nat
  BY LenProperties
<1>2. at \in Nat /\ at < Len(s) /\ k \in Nat
  <2>1. CeilDiv(Len(s), b) \in Nat
    BY <1>1, CeilDivision
  <2>2. \A j \in 1..CeilDiv(Len(s), b) : b * (j - 1) \in Nat /\ b * (j - 1) < Len(s)
    BY <1>1, CeilDivision
  <2>3. k \in Nat
    BY <2>1
  <2> QED BY <2>2, <2>3
<1>3. b * k = at + b /\ b * k \in Int
  BY <1>2
<1>4. end = IF b * k <= Len(s) THEN b * k ELSE Len(s)
  BY <1>1, <1>3, MinOfTwo
<1> HIDE DEF at, end
<1>5. end \in Nat /\ at < end /\ end <= Len(s) /\ end <= at + b
      /\ end - at = IF b * k <= Len(s) THEN b ELSE Len(s) - at
  BY <1>1, <1>2, <1>3, <1>4
<1>6. \A i \in (at + 1)..end : s[i] \in S
  <2> TAKE i \in (at + 1)..end
  <2>1. i \in 1..Len(s)
    BY <1>1, <1>2, <1>5
  <2> QED BY <2>1, ElementOfSeq
<1>7. /\ r \in Seq(S)
      /\ Len(r) = IF at + 1 <= end THEN end - (at + 1) + 1 ELSE 0
      /\ \A i \in 1..(end - (at + 1) + 1) : r[i] = s[(at + 1) + i - 1]
  BY <1>2, <1>5, <1>6, SubSeqProperties
<1>8. Len(r) = end - at /\ end - (at + 1) + 1 = end - at
  BY <1>2, <1>5, <1>7
<1> HIDE DEF r
<1>9. \A i \in 1..Len(r) : (at + 1) + i - 1 = at + i
  BY <1>2, <1>5, <1>8
<1>10. \A i \in 1..Len(r) : r[i] = s[at + i]
  BY <1>7, <1>8, <1>9
<1>11. Len(r) \in 1..b /\ at + Len(r) <= Len(s)
  BY <1>1, <1>2, <1>5, <1>8
<1>12. IsChunk(r, s, b, k)
  BY <1>5, <1>8, <1>10, <1>11 DEF IsChunk, at
<1>13. r = SubSeq(s, b * (k - 1) + 1, Min({b * k, Len(s)}))
  BY DEF r, at, end
<1> QED BY <1>7, <1>12, <1>13

------------------------------
(* The size of the hash table *)

\* Doubling, as a function of the exponent.
LEMMA Doubling ==
    ASSUME NEW n \in Nat
    PROVE  \E g : /\ g \in [0..n -> Nat] /\ g[0] = 1
                  /\ \A i \in 1..n : g[i] = 2 * g[i - 1]
                  /\ \A j \in 0..n : PowerOfTwo(j) = g[j]
<1> DEFINE F == [i \in 1..n |-> [x \in Nat |-> 2 * x]]
<1>1. F \in [1..n -> [Nat -> Nat]] /\ \A i \in 1..n, x \in Nat : F[i][x] = 2 * x
  OBVIOUS
<1> HIDE DEF F
<1>2. PICK g : Run(g, n, Nat, 1, F)
  <2>1. 1 \in Nat
    OBVIOUS
  <2> QED BY <1>1, <2>1, Recursion
<1>3. g \in [0..n -> Nat] /\ g[0] = 1 /\ \A i \in 1..n : g[i] = F[i][g[i - 1]]
  BY <1>2 DEF Run
<1>4. \A i \in 1..n : g[i - 1] \in Nat /\ g[i] = 2 * g[i - 1]
  <2>1. \A i \in 1..n : i - 1 \in 0..n
    OBVIOUS
  <2> QED BY <2>1, <1>1, <1>3
<1>5. ASSUME NEW j \in 0..n PROVE PowerOfTwo(j) = g[j]
  <2> DEFINE E(f) == [i \in 0..j |-> IF i = 0 THEN 1 ELSE 2 * f[i - 1]]
             c == CHOOSE f : f = E(f)
             w == [i \in 0..j |-> g[i]]
  <2>1. PowerOfTwo(j) = c[j]
    BY DEF PowerOfTwo
  <2>2. \A i \in 0..j : i \in 0..n /\ (i # 0 => i \in 1..n /\ i - 1 \in 0..j)
    OBVIOUS
  <2>3. w = E(w)
    BY <1>3, <1>4, <2>2
  <2>4. c = E(c)
    <3> HIDE DEF w
    <3> QED BY <2>3
  <2>5. \A i \in 0..j : c[i] = IF i = 0 THEN 1 ELSE 2 * c[i - 1]
    <3> HIDE DEF c
    <3> QED BY <2>4
  <2> HIDE DEF c
  <2> DEFINE G == {i \in 0..j : c[i] = g[i]}
  <2>6. 0 \in G
    BY <1>3, <2>5
  <2>7. ASSUME NEW i \in 1..j, i - 1 \in G PROVE i \in G
    <3>1. i \in 0..j /\ i # 0 /\ i \in 1..n /\ c[i - 1] = g[i - 1]
      BY <2>7, <2>2
    <3> QED BY <3>1, <2>5, <1>4
  <2> HIDE DEF G
  <2>8. j \in G
    <3>1. j \in Nat
      OBVIOUS
    <3>2. 0..j \subseteq G
      BY <3>1, <2>6, <2>7, Induction
    <3> QED BY <3>1, <3>2
  <2> QED BY <2>1, <2>8 DEF G
<1> QED BY <1>3, <1>4, <1>5

\* The powers of two double, and exceed their exponent.
LEMMA Powers ==
    /\ PowerOfTwo(0) = 1
    /\ \A j \in Nat : /\ PowerOfTwo(j) \in Nat
                      /\ PowerOfTwo(j + 1) = 2 * PowerOfTwo(j)
                      /\ j < PowerOfTwo(j)
<1>1. ASSUME NEW j \in Nat
      PROVE  /\ PowerOfTwo(0) = 1 /\ PowerOfTwo(j) \in Nat
             /\ PowerOfTwo(j + 1) = 2 * PowerOfTwo(j) /\ j < PowerOfTwo(j)
  <2> DEFINE n == j + 1
  <2>1. PICK g : /\ g \in [0..n -> Nat] /\ g[0] = 1
                 /\ \A i \in 1..n : g[i] = 2 * g[i - 1]
                 /\ \A i \in 0..n : PowerOfTwo(i) = g[i]
    <3>1. n \in Nat
      OBVIOUS
    <3> HIDE DEF n
    <3> QED BY <3>1, Doubling
  <2>2. 0 \in 0..n /\ j \in 0..n /\ n \in 0..n /\ n \in 1..n /\ n - 1 = j
    OBVIOUS
  <2>3. PowerOfTwo(0) = 1 /\ PowerOfTwo(j) \in Nat /\ PowerOfTwo(n) = 2 * PowerOfTwo(j)
    BY <2>1, <2>2
  <2> DEFINE G == {i \in 0..j : i < g[i]}
  <2>4. 0 \in G
    BY <2>1
  <2>5. ASSUME NEW i \in 1..j, i - 1 \in G PROVE i \in G
    <3>1. i - 1 < g[i - 1] /\ i \in 1..n /\ i - 1 \in 0..n
      BY <2>5
    <3>2. g[i] = 2 * g[i - 1] /\ g[i - 1] \in Nat
      BY <3>1, <2>1
    <3>3. i < g[i]
      BY <3>1, <3>2
    <3> QED BY <3>3
  <2> HIDE DEF G
  <2>6. j \in G
    <3>1. 0..j \subseteq G
      BY <2>4, <2>5, Induction
    <3> QED BY <3>1
  <2>7. j < g[j]
    BY <2>6 DEF G
  <2> QED BY <2>1, <2>2, <2>3, <2>7
<1>2. 0 \in Nat
  OBVIOUS
<1> QED BY <1>1, <1>2

\* The table has room for twice the keys, and its size survives the header.
LEMMA TableSize ==
    ASSUME NEW n \in Nat
    PROVE  /\ Slots(n) \in Nat /\ 2 * n <= Slots(n) /\ (n = 0 => Slots(n) = 0)
           /\ SlotsOf(slots_log2(Slots(n))) = Slots(n)
<1>1. CASE n = 0
  BY <1>1 DEF Slots, SlotsOf, slots_log2
<1>2. CASE n # 0
  <2> DEFINE T == {j \in Nat : 2 * n <= PowerOfTwo(j)}
  <2>1. 2 * n \in T
    <3>1. 2 * n \in Nat
      OBVIOUS
    <3> QED BY <3>1, Powers
  <2>2. PICK j \in T : \A i \in T : j <= i
    <3>1. T \in SUBSET Nat /\ T # {}
      BY <2>1
    <3> HIDE DEF T
    <3> QED BY <3>1, LeastNatural
  <2>3. j \in Nat /\ 2 * n <= PowerOfTwo(j) /\ j <= 2 * n
    BY <2>1, <2>2
  <2>4. j # 0
    BY <2>3, <1>2, Powers
  <2>5. PowerOfTwo(j) < 4 * n
    <3>1. j - 1 \in Nat /\ j - 1 \notin T /\ (j - 1) + 1 = j
      BY <2>2, <2>3, <2>4
    <3>2. PowerOfTwo(j - 1) \in Nat /\ PowerOfTwo((j - 1) + 1) = 2 * PowerOfTwo(j - 1)
      BY <3>1, Powers
    <3>3. PowerOfTwo(j - 1) < 2 * n
      BY <3>1, <3>2
    <3> QED BY <3>1, <3>2, <3>3
  <2> DEFINE c == CHOOSE k \in 1..(2 * n) : 2 * n <= PowerOfTwo(k) /\ PowerOfTwo(k) < 4 * n
  <2>6. c \in 1..(2 * n) /\ 2 * n <= PowerOfTwo(c)
    <3>1. j \in 1..(2 * n)
      BY <2>3, <2>4
    <3> QED BY <3>1, <2>3, <2>5
  <2>7. Slots(n) = PowerOfTwo(c)
    BY <1>2 DEF Slots
  <2> HIDE DEF c
  <2>8. c \in Nat /\ c # 0 /\ PowerOfTwo(c) \in Nat /\ c < PowerOfTwo(c)
    BY <2>6, Powers
  <2> DEFINE s == PowerOfTwo(c)
             d == CHOOSE k \in 1..s : PowerOfTwo(k) = s
  <2>9. d \in 1..s /\ PowerOfTwo(d) = s
    <3>1. c \in 1..s
      BY <2>8
    <3> QED BY <3>1
  <2>10. slots_log2(s) = d /\ d # 0
    BY <2>8, <2>9 DEF slots_log2
  <2>11. SlotsOf(d) = s
    BY <2>9, <2>10 DEF SlotsOf
  <2> QED BY <1>2, <2>6, <2>7, <2>8, <2>10, <2>11
<1> QED BY <1>1, <1>2

------------------------------
(* The members of a finite set in order *)

StrictOrder(R, D) ==
    /\ \A x \in D : <<x, x>> \notin R
    /\ \A x, y, z \in D : <<x, y>> \in R /\ <<y, z>> \in R => <<x, z>> \in R
    /\ \A x, y \in D : x # y => <<x, y>> \in R \/ <<y, x>> \in R

Below(R, D, x) == {u \in D : <<u, x>> \in R}

\* Counting the smaller members numbers a finite ordered set from 0.
IsRanked(R, D) ==
    /\ \A x \in D : Cardinality(Below(R, D, x)) \in 0..(Cardinality(D) - 1)
    /\ \A x, y \in D : <<x, y>> \in R => Cardinality(Below(R, D, x)) < Cardinality(Below(R, D, y))
    /\ \A x, y \in D : Cardinality(Below(R, D, x)) = Cardinality(Below(R, D, y)) => x = y
    /\ \A k \in 1..Cardinality(D) : \E x \in D : Cardinality(Below(R, D, x)) = k - 1

\* A strict order on a finite set ranks its members from 0 up, without gaps.
LEMMA Ranks ==
    ASSUME NEW D, IsFiniteSet(D), NEW R, StrictOrder(R, D)
    PROVE  IsRanked(R, D)
<1> DEFINE n == Cardinality(D)
           r(x) == Cardinality(Below(R, D, x))
<1>1. n \in Nat
  BY FS_CardinalityType
<1>2. ASSUME NEW x \in D PROVE IsFiniteSet(Below(R, D, x)) /\ r(x) \in Nat /\ r(x) < n
  <2>1. Below(R, D, x) \in SUBSET D /\ x \notin Below(R, D, x)
    BY DEF Below, StrictOrder
  <2>2. IsFiniteSet(Below(R, D, x)) /\ r(x) <= n /\ r(x) # n
    BY <2>1, FS_Subset
  <2>3. r(x) \in Nat
    BY <2>2, FS_CardinalityType
  <2> QED BY <2>2, <2>3, <1>1
<1>3. ASSUME NEW x \in D, NEW y \in D, <<x, y>> \in R PROVE r(x) < r(y)
  <2>1. Below(R, D, x) \cup {x} \in SUBSET Below(R, D, y) /\ x \notin Below(R, D, x)
    BY <1>3 DEF Below, StrictOrder
  <2>2. IsFiniteSet(Below(R, D, x) \cup {x}) /\ Cardinality(Below(R, D, x) \cup {x}) = r(x) + 1
    BY <1>2, <2>1, FS_AddElement
  <2>3. Cardinality(Below(R, D, x) \cup {x}) <= r(y)
    BY <1>2, <2>1, FS_Subset
  <2> QED BY <1>2, <2>2, <2>3
<1> HIDE DEF r, n
<1>4. ASSUME NEW x \in D, NEW y \in D, x # y PROVE r(x) # r(y)
  <2>1. <<x, y>> \in R \/ <<y, x>> \in R
    BY <1>4 DEF StrictOrder
  <2> QED BY <2>1, <1>2, <1>3
<1> DEFINE f == [x \in D |-> r(x)]
           T == 0..(n - 1)
<1>5. f \in Injection(D, T)
  BY <1>1, <1>2, <1>4 DEF Injection, IsInjective
<1>6. IsFiniteSet(T) /\ Cardinality(T) = n
  <2>1. 0 \in Int /\ n - 1 \in Int
    BY <1>1
  <2>2. IsFiniteSet(0..(n - 1)) /\ Cardinality(0..(n - 1)) = IF 0 > n - 1 THEN 0 ELSE n - 1 - 0 + 1
    BY <2>1, FS_Interval
  <2> QED BY <1>1, <2>2
<1> HIDE DEF T
<1>7. f \in Surjection(D, T)
  BY <1>5, <1>6, FS_Injection DEF n
<1>8. \A t \in T : \E x \in D : r(x) = t
  BY <1>7 DEF Surjection
<1>9. \A k \in 1..n : \E x \in D : r(x) = k - 1
  <2>1. \A k \in 1..n : k - 1 \in T
    BY <1>1 DEF T
  <2> QED BY <2>1, <1>8
<1>10. \A x \in D : r(x) \in 0..(n - 1)
  BY <1>1, <1>2
<1> QED BY <1>3, <1>4, <1>9, <1>10 DEF IsRanked, r, n

KeyOrder == {p \in Trigram \X Trigram : KeyLess(p[1], p[2])}

\* The BTreeMap's order is one.
LEMMA KeyOrderStrict == StrictOrder(KeyOrder, Trigram)
<1>0. Byte \subseteq Nat
  BY RecordAssumption
<1>1. \A x \in Trigram : x[1] \in Nat /\ x[2] \in Nat /\ x[3] \in Nat /\ x = <<x[1], x[2], x[3]>>
  <2> TAKE x \in Trigram
  <2>1. PICK a \in Byte, b \in Byte, c \in Byte : x = <<a, b, c>>
    BY DEF Trigram
  <2> QED BY <1>0, <2>1
<1>2. \A x \in Trigram, y \in Trigram : <<x, y>> \in KeyOrder <=> KeyLess(x, y)
  BY DEF KeyOrder
<1>3. \A x \in Trigram : ~KeyLess(x, x)
  BY <1>1 DEF KeyLess
<1>4. ASSUME NEW x \in Trigram, NEW y \in Trigram, NEW z \in Trigram, KeyLess(x, y), KeyLess(y, z)
      PROVE  KeyLess(x, z)
  <2>1. x[1] \in Nat /\ x[2] \in Nat /\ x[3] \in Nat /\ y[1] \in Nat /\ y[2] \in Nat /\ y[3] \in Nat
        /\ z[1] \in Nat /\ z[2] \in Nat /\ z[3] \in Nat
    BY <1>1
  <2> HIDE DEF Trigram
  <2> QED BY <1>4, <2>1 DEF KeyLess
<1>5. ASSUME NEW x \in Trigram, NEW y \in Trigram, x # y PROVE KeyLess(x, y) \/ KeyLess(y, x)
  <2>1. x[1] # y[1] \/ x[2] # y[2] \/ x[3] # y[3]
    BY <1>1, <1>5
  <2> QED BY <1>1, <2>1 DEF KeyLess
<1> QED BY <1>2, <1>3, <1>4, <1>5 DEF StrictOrder

\* SortedKeys lists every key once.
LEMMA KeysOnce ==
    ASSUME NEW D \in SUBSET Trigram, IsFiniteSet(D)
    PROVE  /\ SortedKeys(D) \in [1..Cardinality(D) -> D]
           /\ \A i, j \in 1..Cardinality(D) : SortedKeys(D)[i] = SortedKeys(D)[j] => i = j
           /\ \A t \in D : \E i \in 1..Cardinality(D) : SortedKeys(D)[i] = t
<1> DEFINE n == Cardinality(D)
           r(x) == Cardinality(Below(KeyOrder, D, x))
           c(k) == CHOOSE t \in D : r(t) = k - 1
<1>1. StrictOrder(KeyOrder, D)
  BY KeyOrderStrict DEF StrictOrder
<1>2. n \in Nat
  BY FS_CardinalityType
<1>3. /\ \A x \in D : r(x) \in 0..(n - 1)
      /\ \A x, y \in D : r(x) = r(y) => x = y
      /\ \A k \in 1..n : \E x \in D : r(x) = k - 1
  <2>1. IsRanked(KeyOrder, D)
    BY <1>1, Ranks
  <2> QED BY <2>1 DEF IsRanked
<1>4. ASSUME NEW t \in D PROVE {u \in D : KeyLess(u, t)} = Below(KeyOrder, D, t)
  BY DEF KeyOrder, Below
<1> HIDE DEF r, n
<1>5. ASSUME NEW k \in 1..n PROVE c(k) \in D /\ r(c(k)) = k - 1
  BY <1>3
<1>6. SortedKeys(D) = [k \in 1..n |-> c(k)]
  <2> DEFINE e(k) == CHOOSE t \in D : Cardinality({u \in D : KeyLess(u, t)}) = k - 1
  <2>1. ASSUME NEW k \in 1..n PROVE e(k) = c(k)
    <3>1. \A t \in D : Cardinality({u \in D : KeyLess(u, t)}) = r(t)
      BY <1>4 DEF r
    <3> QED BY <3>1
  <2>2. SortedKeys(D) = [k \in 1..n |-> e(k)]
    BY DEF SortedKeys, n
  <2> HIDE DEF e, c
  <2> QED BY <2>1, <2>2
<1> HIDE DEF c
<1>7. \A i, j \in 1..n : c(i) = c(j) => i = j
  <2> TAKE i, j \in 1..n
  <2>1. i - 1 = j - 1 => i = j
    BY <1>2
  <2> QED BY <2>1, <1>5
<1>8. \A t \in D : \E i \in 1..n : c(i) = t
  <2> TAKE t \in D
  <2>1. r(t) \in 0..(n - 1)
    BY <1>3
  <2> DEFINE k == r(t) + 1
  <2>2. k \in 1..n /\ k - 1 = r(t)
    BY <1>2, <2>1
  <2> HIDE DEF k
  <2>3. r(c(k)) = r(t) /\ c(k) \in D
    BY <1>5, <2>2
  <2> QED BY <1>3, <2>2, <2>3
<1> DEFINE s == [k \in 1..n |-> c(k)]
<1>9. s \in [1..n -> D] /\ (\A i, j \in 1..n : s[i] = s[j] => i = j) /\ \A t \in D : \E i \in 1..n : s[i] = t
  BY <1>5, <1>7, <1>8
<1> QED BY <1>6, <1>9 DEF n

------------------------------
(* Numbers and their digits *)

\* Shifting digit by digit.
IsShift(g, v, b, n) ==
    /\ g \in [0..n -> Nat] /\ g[0] = v
    /\ \A i \in 1..n : g[i] = g[i - 1] \div b
    /\ \A j \in 0..n : Shift(v, b, j) = g[j]

\* The shifts of a number as the values of one function.
LEMMA Shifting ==
    ASSUME NEW v \in Nat, NEW b \in Nat \ {0}, NEW n \in Nat
    PROVE  \E g : IsShift(g, v, b, n)
<1> DEFINE F == [i \in 1..n |-> [x \in Nat |-> x \div b]]
<1>1. F \in [1..n -> [Nat -> Nat]] /\ \A i \in 1..n, x \in Nat : F[i][x] = x \div b
  <2>1. \A x \in Nat : x \div b \in Nat
    OBVIOUS
  <2> QED BY <2>1
<1> HIDE DEF F
<1>2. PICK g : Run(g, n, Nat, v, F)
  BY <1>1, Recursion
<1>3. g \in [0..n -> Nat] /\ g[0] = v /\ \A i \in 1..n : g[i] = F[i][g[i - 1]]
  BY <1>2 DEF Run
<1>4. \A i \in 1..n : g[i - 1] \in Nat /\ g[i] = g[i - 1] \div b
  <2>1. \A i \in 1..n : i - 1 \in 0..n
    OBVIOUS
  <2> QED BY <2>1, <1>1, <1>3
<1>5. ASSUME NEW j \in 0..n PROVE Shift(v, b, j) = g[j]
  <2> DEFINE E(f) == [i \in 0..j |-> IF i = 0 THEN v ELSE f[i - 1] \div b]
             c == CHOOSE f : f = E(f)
             w == [i \in 0..j |-> g[i]]
  <2>1. Shift(v, b, j) = c[j]
    BY DEF Shift
  <2>2. \A i \in 0..j : i \in 0..n /\ (i # 0 => i \in 1..n /\ i - 1 \in 0..j)
    OBVIOUS
  <2>3. w = E(w)
    <3>1. \A i \in 0..j : w[i] = IF i = 0 THEN v ELSE w[i - 1] \div b
      BY <1>3, <1>4, <2>2
    <3> QED BY <3>1
  <2>4. c = E(c)
    <3> HIDE DEF w
    <3> QED BY <2>3
  <2>5. \A i \in 0..j : c[i] = IF i = 0 THEN v ELSE c[i - 1] \div b
    <3> HIDE DEF c
    <3> QED BY <2>4
  <2> HIDE DEF c
  <2> DEFINE G == {i \in 0..j : c[i] = g[i]}
  <2>6. 0 \in G
    BY <1>3, <2>5
  <2>7. ASSUME NEW i \in 1..j, i - 1 \in G PROVE i \in G
    <3>1. i \in 0..j /\ i # 0 /\ i \in 1..n /\ c[i - 1] = g[i - 1]
      BY <2>7, <2>2
    <3> QED BY <3>1, <2>5, <1>4
  <2> HIDE DEF G
  <2>8. j \in G
    <3>1. j \in Nat
      OBVIOUS
    <3>2. 0..j \subseteq G
      BY <3>1, <2>6, <2>7, Induction
    <3> QED BY <3>1, <3>2
  <2> QED BY <2>1, <2>8 DEF G
<1> QED BY <1>3, <1>4, <1>5 DEF IsShift

\* Shifting by no digit, and by one more.
LEMMA Shifts ==
    ASSUME NEW v \in Nat, NEW b \in Nat \ {0}
    PROVE  /\ Shift(v, b, 0) = v
           /\ \A j \in Nat : /\ Shift(v, b, j) \in Nat
                             /\ Shift(v, b, j + 1) = Shift(v, b, j) \div b
<1>1. ASSUME NEW j \in Nat
      PROVE  /\ Shift(v, b, 0) = v /\ Shift(v, b, j) \in Nat
             /\ Shift(v, b, j + 1) = Shift(v, b, j) \div b
  <2> DEFINE n == j + 1
  <2>1. PICK g : /\ g \in [0..n -> Nat] /\ g[0] = v
                 /\ \A i \in 1..n : g[i] = g[i - 1] \div b
                 /\ \A i \in 0..n : Shift(v, b, i) = g[i]
    <3>1. n \in Nat
      OBVIOUS
    <3> HIDE DEF n
    <3>2. \E g : IsShift(g, v, b, n)
      BY <3>1, Shifting
    <3> QED BY <3>2 DEF IsShift
  <2>2. 0 \in 0..n /\ j \in 0..n /\ n \in 0..n /\ n \in 1..n /\ n - 1 = j
    OBVIOUS
  <2> QED BY <2>1, <2>2
<1>2. 0 \in Nat
  OBVIOUS
<1> QED BY <1>1, <1>2

\* The digits of a number.
LEMMA DigitsType ==
    ASSUME NEW v \in Nat, NEW b \in Nat \ {0}, NEW n \in Nat
    PROVE  /\ Digits(v, b, n) \in [1..n -> 0..(b - 1)]
           /\ \A i \in 1..n : Digits(v, b, n)[i] = Shift(v, b, i - 1) % b
<1>1. ASSUME NEW i \in 1..n PROVE Shift(v, b, i - 1) % b \in 0..(b - 1)
  <2>1. i - 1 \in Nat
    OBVIOUS
  <2>2. Shift(v, b, i - 1) \in Nat
    BY <2>1, Shifts
  <2> QED BY <2>2
<1> QED BY <1>1 DEF Digits

\* The partial sums of Number, from the highest digit down.
IsHorner(top, d, n, b) ==
    /\ top \in [0..n -> Nat] /\ top[0] = 0
    /\ \A i \in 1..n : top[i] = d[n + 1 - i] + b * top[i - 1]

\* The number of a digit sequence is computed from its top digit down.
LEMMA Horner ==
    ASSUME NEW n \in Nat, NEW b \in Nat, NEW d \in [1..n -> Nat]
    PROVE  \E top : IsHorner(top, d, n, b) /\ Number(d, b) = top[n]
<1> DEFINE F == [i \in 1..n |-> [x \in Nat |-> d[n + 1 - i] + b * x]]
<1>1. \A i \in 1..n : n + 1 - i \in 1..n
  OBVIOUS
<1>2. \A i \in 1..n, x \in Nat : d[n + 1 - i] \in Nat /\ d[n + 1 - i] + b * x \in Nat
  BY <1>1, SMTT(60)
<1>3. F \in [1..n -> [Nat -> Nat]] /\ \A i \in 1..n, x \in Nat : F[i][x] = d[n + 1 - i] + b * x
  BY <1>2
<1> HIDE DEF F
<1>4. PICK g : Run(g, n, Nat, 0, F)
  <2>1. 0 \in Nat
    OBVIOUS
  <2> QED BY <1>3, <2>1, Recursion
<1>5. g \in [0..n -> Nat] /\ g[0] = 0 /\ \A i \in 1..n : g[i] = F[i][g[i - 1]]
  BY <1>4 DEF Run
<1>6. \A i \in 1..n : g[i - 1] \in Nat /\ g[i] = d[n + 1 - i] + b * g[i - 1]
  <2>1. \A i \in 1..n : i - 1 \in 0..n
    OBVIOUS
  <2> QED BY <2>1, <1>3, <1>5
<1>7. Len(d) = n
  <2>1. d \in [1..n -> Nat]
    OBVIOUS
  <2> QED BY <2>1, SeqOver
<1> DEFINE E(f) == [i \in 0..Len(d) |-> IF i = 0 THEN 0 ELSE d[Len(d) + 1 - i] + b * f[i - 1]]
           c == CHOOSE f : f = E(f)
<1>8. Number(d, b) = c[n]
  BY <1>7 DEF Number
<1>9. \A i \in 0..n : i # 0 => i \in 1..n /\ i - 1 \in 0..n
  OBVIOUS
<1>10. g = E(g)
  <2>1. \A i \in 0..n : g[i] = IF i = 0 THEN 0 ELSE d[n + 1 - i] + b * g[i - 1]
    BY <1>5, <1>6, <1>9
  <2> QED BY <2>1, <1>5, <1>7
<1>11. c = E(c)
  BY <1>10
<1>12. \A i \in 0..n : c[i] = IF i = 0 THEN 0 ELSE d[n + 1 - i] + b * c[i - 1]
  <2> HIDE DEF c
  <2> QED BY <1>7, <1>11
<1> HIDE DEF c
<1> DEFINE G == {i \in 0..n : c[i] = g[i]}
<1>13. 0 \in G
  BY <1>5, <1>12
<1>14. ASSUME NEW i \in 1..n, i - 1 \in G PROVE i \in G
  <2>1. i \in 0..n /\ i # 0 /\ c[i - 1] = g[i - 1]
    BY <1>14
  <2> QED BY <2>1, <1>12, <1>6
<1> HIDE DEF G
<1>15. n \in G
  <2>1. 0..n \subseteq G
    BY <1>13, <1>14, Induction
  <2> QED BY <2>1
<1>16. Number(d, b) = g[n]
  BY <1>8, <1>15 DEF G
<1>17. IsHorner(g, d, n, b)
  BY <1>5, <1>6 DEF IsHorner
<1> QED BY <1>16, <1>17

\* A digit sequence stands for a natural number.
LEMMA NumberType ==
    ASSUME NEW n \in Nat, NEW b \in Nat, NEW d \in [1..n -> Nat]
    PROVE  Number(d, b) \in Nat
<1>1. PICK top : IsHorner(top, d, n, b) /\ Number(d, b) = top[n]
  BY Horner
<1>2. n \in 0..n /\ top \in [0..n -> Nat]
  BY <1>1 DEF IsHorner
<1> QED BY <1>1, <1>2

\* A number is its digits, when it has no more of them.
LEMMA NumberOfDigits ==
    ASSUME NEW v \in Nat, NEW b \in Nat \ {0}, NEW n \in Nat, Shift(v, b, n) = 0
    PROVE  Number(Digits(v, b, n), b) = v
<1> DEFINE d == Digits(v, b, n)
<1>1. d \in [1..n -> Nat] /\ \A i \in 1..n : d[i] = Shift(v, b, i - 1) % b
  <2>1. d \in [1..n -> 0..(b - 1)] /\ \A i \in 1..n : d[i] = Shift(v, b, i - 1) % b
    BY DigitsType, ZenonT(60)
  <2> HIDE DEF d
  <2> QED BY <2>1
<1> HIDE DEF d
<1>2. PICK top : IsHorner(top, d, n, b) /\ Number(d, b) = top[n]
  BY <1>1, Horner
<1>3. /\ top \in [0..n -> Nat] /\ top[0] = 0
      /\ \A i \in 1..n : top[i] = d[n + 1 - i] + b * top[i - 1]
  BY <1>2 DEF IsHorner
<1> DEFINE G == {i \in 0..n : top[i] = Shift(v, b, n - i)}
<1>4. 0 \in G
  BY <1>3
<1>5. ASSUME NEW i \in 1..n, i - 1 \in G PROVE i \in G
  <2> DEFINE j == n - i
  <2>1. j \in Nat /\ n - (i - 1) = j + 1 /\ n + 1 - i = j + 1 /\ j + 1 \in 1..n /\ j + 1 - 1 = j
    OBVIOUS
  <2>2. top[i - 1] = Shift(v, b, j + 1)
    BY <1>5, <2>1
  <2>3. d[n + 1 - i] = Shift(v, b, j) % b
    BY <1>1, <2>1
  <2>4. Shift(v, b, j) \in Nat /\ Shift(v, b, j + 1) = Shift(v, b, j) \div b
    BY <2>1, Shifts, ZenonT(60)
  <2> HIDE DEF j
  <2> DEFINE x == Shift(v, b, j)
  <2>5. top[i] = (x % b) + b * (x \div b)
    BY <1>3, <2>2, <2>3, <2>4
  <2>6. x \in Nat
    BY <2>4
  <2> HIDE DEF x
  <2>7. (x % b) + b * (x \div b) = x
    BY <2>6
  <2>8. top[i] = Shift(v, b, n - i)
    BY <2>5, <2>7 DEF x, j
  <2> QED BY <2>8
<1> HIDE DEF G
<1>6. n \in G
  <2>1. 0..n \subseteq G
    BY <1>4, <1>5, Induction
  <2> QED BY <2>1
<1>7. top[n] = Shift(v, b, 0)
  <2>1. n - n = 0
    OBVIOUS
  <2> QED BY <2>1, <1>6 DEF G
<1> QED BY <1>2, <1>7, Shifts DEF d

\* A digit of a number made of digits.
LEMMA DigitOfNumber ==
    ASSUME NEW b \in Nat \ {0}, NEW n \in Nat, NEW d \in [1..n -> 0..(b - 1)], NEW k \in 0..(n - 1)
    PROVE  Shift(Number(d, b), b, k) % b = d[k + 1]
<1>1. d \in [1..n -> Nat]
  OBVIOUS
<1>2. PICK top : IsHorner(top, d, n, b) /\ Number(d, b) = top[n]
  BY <1>1, Horner
<1>3. /\ top \in [0..n -> Nat] /\ top[0] = 0
      /\ \A i \in 1..n : top[i] = d[n + 1 - i] + b * top[i - 1]
  BY <1>2 DEF IsHorner
<1> DEFINE v == Number(d, b)
<1>4. v \in Nat
  BY <1>1, NumberType
<1> HIDE DEF v
<1>5. ASSUME NEW i \in 1..n
      PROVE  /\ top[i - 1] \in Nat /\ top[i] \in Nat /\ d[n + 1 - i] \in 0..(b - 1)
             /\ top[i] \div b = top[i - 1] /\ top[i] % b = d[n + 1 - i]
  <2>1. i - 1 \in 0..n /\ i \in 0..n /\ n + 1 - i \in 1..n
    OBVIOUS
  <2>2. top[i - 1] \in Nat /\ top[i] \in Nat /\ d[n + 1 - i] \in 0..(b - 1)
    BY <1>3, <2>1
  <2> DEFINE x == top[i]  y == top[i - 1]  r == d[n + 1 - i]
  <2>3. x = r + b * y /\ x \in Nat /\ y \in Nat /\ r \in 0..(b - 1)
    BY <1>3, <2>2
  <2> HIDE DEF x, y, r
  <2> DEFINE q == x \div b  s == x % b
  <2>4. q \in Nat /\ s \in 0..(b - 1) /\ x = b * q + s
    BY <2>3, SMTT(60)
  <2> HIDE DEF q, s
  <2>5. q = y
    <3>1. ASSUME q < y PROVE FALSE
      <4>1. PICK z \in Nat : y = q + 1 + z
        <5>1. y - q - 1 \in Nat /\ y = q + 1 + (y - q - 1)
          BY <3>1, <2>3, <2>4
        <5> QED BY <5>1
      <4>2. b * y = b * q + b + b * z /\ b * z \in Nat /\ b * q \in Nat
        BY <4>1, <2>4
      <4> QED BY <4>2, <2>3, <2>4
    <3>2. ASSUME y < q PROVE FALSE
      <4>1. PICK z \in Nat : q = y + 1 + z
        <5>1. q - y - 1 \in Nat /\ q = y + 1 + (q - y - 1)
          BY <3>2, <2>3, <2>4
        <5> QED BY <5>1
      <4>2. b * q = b * y + b + b * z /\ b * z \in Nat /\ b * y \in Nat
        BY <4>1, <2>3
      <4> QED BY <4>2, <2>3, <2>4
    <3> QED BY <3>1, <3>2, <2>3, <2>4
  <2>6. s = r
    <3>1. b * y \in Nat
      BY <2>3
    <3> QED BY <3>1, <2>3, <2>4, <2>5
  <2> QED BY <2>2, <2>5, <2>6 DEF x, y, r, q, s
<1> DEFINE G == {i \in 0..n : Shift(v, b, i) = top[n - i]}
<1>6. 0 \in G
  <2>1. Shift(v, b, 0) = v
    BY <1>4, Shifts
  <2>2. v = top[n] /\ n - 0 = n
    BY <1>2 DEF v
  <2> QED BY <2>1, <2>2
<1>7. ASSUME NEW i \in 1..n, i - 1 \in G PROVE i \in G
  <2> DEFINE j == n - (i - 1)
  <2>1. j \in 1..n /\ j - 1 = n - i /\ i - 1 \in Nat /\ (i - 1) + 1 = i
    OBVIOUS
  <2>2. Shift(v, b, i - 1) = top[j]
    BY <1>7
  <2>3. Shift(v, b, (i - 1) + 1) = Shift(v, b, i - 1) \div b
    BY <1>4, <2>1, Shifts
  <2> HIDE DEF j
  <2>4. Shift(v, b, i) = top[n - i]
    BY <1>5, <2>1, <2>2, <2>3
  <2> QED BY <2>4
<1> HIDE DEF G
<1>8. k \in G
  <2>1. 0..n \subseteq G
    BY <1>6, <1>7, Induction
  <2> QED BY <2>1
<1>9. Shift(v, b, k) = top[n - k]
  BY <1>8 DEF G
<1> DEFINE i == n - k
<1>10. i \in 1..n /\ n + 1 - i = k + 1
  OBVIOUS
<1> HIDE DEF i
<1>11. top[i] % b = d[k + 1]
  BY <1>5, <1>10
<1> QED BY <1>9, <1>11 DEF i, v

------------------------------
(* One block of the posting codec *)

NatOrder == {p \in Nat \X Nat : p[1] < p[2]}

\* Ascending lists every member once.
LEMMA AscendingOnce ==
    ASSUME NEW D \in SUBSET Nat, IsFiniteSet(D)
    PROVE  /\ Ascending(D) \in [1..Cardinality(D) -> D]
           /\ \A i, j \in 1..Cardinality(D) : Ascending(D)[i] = Ascending(D)[j] => i = j
           /\ \A t \in D : \E i \in 1..Cardinality(D) : Ascending(D)[i] = t
<1> DEFINE n == Cardinality(D)
           r(x) == Cardinality(Below(NatOrder, D, x))
           c(k) == CHOOSE t \in D : r(t) = k - 1
<1>1. StrictOrder(NatOrder, D)
  BY DEF StrictOrder, NatOrder
<1>2. n \in Nat
  BY FS_CardinalityType
<1>3. /\ \A x \in D : r(x) \in 0..(n - 1)
      /\ \A x, y \in D : r(x) = r(y) => x = y
      /\ \A k \in 1..n : \E x \in D : r(x) = k - 1
  <2>1. IsRanked(NatOrder, D)
    BY <1>1, Ranks
  <2> QED BY <2>1 DEF IsRanked
<1>4. ASSUME NEW t \in D PROVE {u \in D : u < t} = Below(NatOrder, D, t)
  BY DEF NatOrder, Below
<1> HIDE DEF r, n
<1>5. ASSUME NEW k \in 1..n PROVE c(k) \in D /\ r(c(k)) = k - 1
  BY <1>3
<1>6. Ascending(D) = [k \in 1..n |-> c(k)]
  <2> DEFINE e(k) == CHOOSE t \in D : Cardinality({u \in D : u < t}) = k - 1
  <2>1. ASSUME NEW k \in 1..n PROVE e(k) = c(k)
    <3>1. \A t \in D : Cardinality({u \in D : u < t}) = r(t)
      BY <1>4 DEF r
    <3> QED BY <3>1
  <2>2. Ascending(D) = [k \in 1..n |-> e(k)]
    BY DEF Ascending, n
  <2> HIDE DEF e, c
  <2> QED BY <2>1, <2>2
<1> HIDE DEF c
<1>7. \A i, j \in 1..n : c(i) = c(j) => i = j
  <2> TAKE i, j \in 1..n
  <2>1. i - 1 = j - 1 => i = j
    BY <1>2
  <2> QED BY <2>1, <1>5
<1>8. \A t \in D : \E i \in 1..n : c(i) = t
  <2> TAKE t \in D
  <2>1. r(t) \in 0..(n - 1)
    BY <1>3
  <2> DEFINE k == r(t) + 1
  <2>2. k \in 1..n /\ k - 1 = r(t)
    BY <1>2, <2>1
  <2> HIDE DEF k
  <2>3. r(c(k)) = r(t) /\ c(k) \in D
    BY <1>5, <2>2
  <2> QED BY <1>3, <2>2, <2>3
<1> DEFINE s == [k \in 1..n |-> c(k)]
<1>9. s \in [1..n -> D] /\ (\A i, j \in 1..n : s[i] = s[j] => i = j) /\ \A t \in D : \E i \in 1..n : s[i] = t
  BY <1>5, <1>7, <1>8
<1> QED BY <1>6, <1>9 DEF n

\* The exceptions are positions of the block.
LEMMA ExceptionsType ==
    ASSUME NEW n \in Nat, NEW vals \in [1..n -> Nat], NEW b
    PROVE  /\ Exceptions(vals, b) \in SUBSET Nat /\ Exceptions(vals, b) \subseteq 1..n
           /\ IsFiniteSet(Exceptions(vals, b)) /\ Cardinality(Exceptions(vals, b)) \in 0..n
<1>1. Len(vals) = n
  <2>1. vals \in [1..n -> Nat]
    OBVIOUS
  <2> QED BY <2>1, SeqOver
<1> DEFINE E == Exceptions(vals, b)
<1>2. E \subseteq 1..n
  BY <1>1 DEF Exceptions
<1> HIDE DEF E
<1>3. E \in SUBSET Nat /\ E \in SUBSET (1..n)
  BY <1>2
<1>4. IsFiniteSet(1..n) /\ Cardinality(1..n) = IF 1 > n THEN 0 ELSE n - 1 + 1
  <2>1. 1 \in Int /\ n \in Int
    OBVIOUS
  <2> QED BY <2>1, FS_Interval
<1>5. IsFiniteSet(E) /\ Cardinality(E) <= Cardinality(1..n)
  BY <1>3, <1>4, FS_Subset
<1>6. Cardinality(E) \in Nat
  BY <1>5, FS_CardinalityType
<1>7. Cardinality(E) \in 0..n
  BY <1>4, <1>5, <1>6
<1> QED BY <1>2, <1>3, <1>5, <1>7 DEF E

\* The chosen width is one of the candidates.
LEMMA WidthExists ==
    ASSUME NEW n \in Nat, NEW vals \in [1..n -> Nat]
    PROVE  BestWidth(vals) \in 1..32
<1> DEFINE W == Widths(vals)
           cost(b) == Cost(vals, b)
           C == {x \in Nat : \E b \in W : cost(b) = x}
<1>1. W \subseteq 1..32 /\ 1 \in W
  BY DEF Widths
<1>2. ASSUME NEW b \in 1..32 PROVE cost(b) \in Nat
  <2>1. Len(vals) = n
    <3>1. vals \in [1..n -> Nat]
      OBVIOUS
    <3> QED BY <3>1, SeqOver
  <2>2. Cardinality(Exceptions(vals, b)) \in Nat
    BY ExceptionsType
  <2>3. cost(b) = n * b + Cardinality(Exceptions(vals, b)) * 32
    BY <2>1 DEF Cost
  <2> HIDE DEF cost
  <2>4. n * b \in Nat
    OBVIOUS
  <2> QED BY <2>2, <2>3, <2>4, SMTT(60)
<1>3. BestWidth(vals) = CHOOSE b \in W : \A c \in W : cost(b) < cost(c) \/ (cost(b) = cost(c) /\ b <= c)
  BY DEF BestWidth
<1> HIDE DEF W, cost
<1>4. PICK x \in C : \A y \in C : x <= y
  <2>1. C \in SUBSET Nat /\ C # {}
    BY <1>1, <1>2
  <2> HIDE DEF C
  <2> QED BY <2>1, LeastNatural
<1>5. \A c \in W : x <= cost(c) /\ cost(c) \in Nat
  <2> TAKE c \in W
  <2>1. cost(c) \in Nat
    BY <1>1, <1>2
  <2> QED BY <2>1, <1>4
<1> DEFINE T == {b \in W : cost(b) = x}
<1>6. PICK b \in T : \A c \in T : b <= c
  <2>1. T \in SUBSET Nat
    <3>1. \A a \in W : a \in Nat
      BY <1>1
    <3>2. \A a \in T : a \in Nat
      BY <3>1
    <3> HIDE DEF T
    <3> QED BY <3>2
  <2>2. PICK a \in W : cost(a) = x
    BY <1>4
  <2>3. T # {}
    BY <2>2
  <2> HIDE DEF T
  <2> QED BY <2>1, <2>3, LeastNatural
<1>7. b \in W /\ \A c \in W : cost(b) < cost(c) \/ (cost(b) = cost(c) /\ b <= c)
  <2>1. b \in W /\ cost(b) = x /\ x \in Nat
    BY <1>6, <1>4
  <2>2. ASSUME NEW c \in W PROVE cost(b) < cost(c) \/ (cost(b) = cost(c) /\ b <= c)
    <3>1. CASE cost(c) = x
      BY <1>6, <2>1, <3>1
    <3>2. CASE cost(c) # x
      BY <1>5, <2>1, <3>2
    <3> QED BY <3>1, <3>2
  <2> QED BY <2>1, <2>2
<1> QED BY <1>1, <1>3, <1>7

\* Quotient and remainder of a position in a frame.
LEMMA Division ==
    ASSUME NEW k \in Nat, NEW n \in Nat \ {0}
    PROVE  k \div n \in Nat /\ k % n \in 0..(n - 1) /\ k = n * (k \div n) + (k % n)
OBVIOUS

\* Every bit of the frame is the bit it stands for.
IsFrame(f, vals, n, b) ==
    /\ f \in [1..CeilDiv(n * b, 8) -> Nat]
    /\ CeilDiv(n * b, 8) \in Nat
    /\ \A k \in 0..(n * b - 1) :
          /\ (k \div 8) + 1 \in 1..CeilDiv(n * b, 8)
          /\ Bit(f[(k \div 8) + 1], k % 8) = Bit(vals[(k % n) + 1], k \div n)

\* The packed frame of a block has that form.
LEMMA Frame ==
    ASSUME NEW n \in Nat \ {0}, NEW vals \in [1..n -> Nat], NEW b \in 1..32
    PROVE  IsFrame(PackedFrame(vals, b), vals, n, b)
<1> DEFINE N == n * b
           M == CeilDiv(N, 8)
           B(k) == IF k < N THEN Bit(vals[(k % n) + 1], k \div n) ELSE 0
           bits(j) == [t \in 1..8 |-> B(8 * (j - 1) + t - 1)]
<1>1. N \in Nat
  OBVIOUS
<1>2. Len(vals) = n
  <2>1. vals \in [1..n -> Nat]
    OBVIOUS
  <2> QED BY <2>1, SeqOver
<1>3. PackedFrame(vals, b) = [j \in 1..M |-> Number(bits(j), 2)]
  BY <1>2 DEF PackedFrame
<1> HIDE DEF N
<1>4. ASSUME NEW k \in Nat PROVE B(k) \in 0..1
  <2>1. CASE ~(k < N)
    BY <2>1
  <2>2. CASE k < N
    <3>1. k \div n \in Nat /\ (k % n) + 1 \in 1..n
      <4>1. k \div n \in Nat /\ k % n \in 0..(n - 1)
        BY Division
      <4> QED BY <4>1
    <3>2. vals[(k % n) + 1] \in Nat
      BY <3>1
    <3> DEFINE v == vals[(k % n) + 1]  q == k \div n
    <3>3. Shift(v, 2, q) \in Nat
      <4>1. v \in Nat /\ q \in Nat /\ 2 \in Nat \ {0}
        BY <3>1, <3>2
      <4> HIDE DEF v, q
      <4> QED BY <4>1, Shifts
    <3>4. Bit(v, q) \in 0..1
      <4> DEFINE s == Shift(v, 2, q)
      <4>1. s \in Nat
        BY <3>3
      <4> HIDE DEF s
      <4>2. s % 2 \in 0..1
        BY <4>1
      <4> QED BY <4>2 DEF Bit, s
    <3> QED BY <2>2, <3>4
  <2> QED BY <2>1, <2>2
<1> HIDE DEF B
<1>5. M \in Nat /\ N <= 8 * M /\ 8 * M < N + 8
  <2>1. 8 \in Nat \ {0}
    OBVIOUS
  <2> QED BY <1>1, <2>1, CeilDivision
<1> HIDE DEF M
<1>6. ASSUME NEW j \in 1..M
      PROVE bits(j) \in [1..8 -> 0..1] /\ \A t \in 1..8 : bits(j)[t] = B(8 * (j - 1) + t - 1)
  <2>1. \A t \in 1..8 : 8 * (j - 1) + t - 1 \in Nat
    BY <1>5
  <2> QED BY <2>1, <1>4
<1> HIDE DEF bits
<1>7. ASSUME NEW j \in 1..M PROVE Number(bits(j), 2) \in Nat
  <2>1. bits(j) \in [1..8 -> 0..1]
    BY <1>6
  <2>2. bits(j) \in [1..8 -> Nat] /\ 8 \in Nat /\ 2 \in Nat
    BY <2>1, SMTT(60)
  <2> QED BY <2>2, NumberType
<1> DEFINE f == [j \in 1..M |-> Number(bits(j), 2)]
<1>8. f \in [1..M -> Nat] /\ \A j \in 1..M : f[j] = Number(bits(j), 2)
  BY <1>7
<1> HIDE DEF f
<1>9. ASSUME NEW k \in 0..(N - 1)
      PROVE  /\ (k \div 8) + 1 \in 1..M
             /\ Bit(f[(k \div 8) + 1], k % 8) = Bit(vals[(k % n) + 1], k \div n)
  <2> DEFINE q == k \div 8  r == k % 8  j == q + 1
  <2>1. q \in Nat /\ r \in 0..7 /\ k = 8 * q + r /\ k \in Nat
    BY <1>1
  <2> HIDE DEF q, r
  <2>2. j \in 1..M /\ 8 * (j - 1) + (r + 1) - 1 = k /\ r + 1 \in 1..8
    BY <1>1, <1>5, <2>1
  <2> HIDE DEF j
  <2>3. bits(j)[r + 1] = B(k)
    BY <1>6, <2>2
  <2>4. Shift(Number(bits(j), 2), 2, r) % 2 = bits(j)[r + 1]
    <3> DEFINE d == bits(j)
    <3>1. d \in [1..8 -> 0..(2 - 1)] /\ r \in 0..(8 - 1) /\ 2 \in Nat \ {0} /\ 8 \in Nat
      BY <1>6, <2>1, <2>2
    <3> HIDE DEF d
    <3>2. Shift(Number(d, 2), 2, r) % 2 = d[r + 1]
      BY <3>1, DigitOfNumber, ZenonT(60)
    <3> QED BY <3>2 DEF d
  <2>5. Bit(f[j], r) = B(k)
    BY <1>8, <2>2, <2>3, <2>4 DEF Bit
  <2>6. B(k) = Bit(vals[(k % n) + 1], k \div n)
    <3>1. k < N
      BY <1>1
    <3> QED BY <3>1 DEF B
  <2> QED BY <2>2, <2>5, <2>6 DEF j, q, r
<1>10. PackedFrame(vals, b) = f
  BY <1>3 DEF f
<1>11. IsFrame(f, vals, n, b)
  BY <1>5, <1>8, <1>9 DEF IsFrame, M, N
<1> QED BY <1>10, <1>11

\* Where the parts begin when all have the same length.
IsEven(flat, seqs, L, n) ==
    /\ Len(flat) = L * n
    /\ \A i \in 1..n : \A j \in 1..L : flat[L * (i - 1) + j] = seqs[i][j]

\* Parts of the same length lie at multiples of it.
LEMMA FlatEven ==
    ASSUME NEW L \in Nat, NEW n \in Nat, NEW seqs, Len(seqs) = n, \A i \in 1..n : Len(seqs[i]) = L,
           NEW flat, NEW st, IsFlat(flat, seqs, st)
    PROVE  IsEven(flat, seqs, L, n)
<1>1. /\ st \in [0..n -> Nat] /\ st[0] = 0 /\ st[n] = Len(flat)
      /\ \A i \in 1..n : st[i] = st[i - 1] + L
      /\ \A i \in 1..n : \A j \in 1..L : flat[st[i - 1] + j] = seqs[i][j]
  BY DEF IsFlat
<1> DEFINE G == {i \in 0..n : st[i] = L * i}
<1>2. 0 \in G
  BY <1>1
<1>3. ASSUME NEW i \in 1..n, i - 1 \in G PROVE i \in G
  <2>1. st[i] = L * (i - 1) + L
    BY <1>1, <1>3
  <2>2. L * (i - 1) + L = L * i
    OBVIOUS
  <2> QED BY <2>1, <2>2
<1> HIDE DEF G
<1>4. 0..n \subseteq G
  BY <1>2, <1>3, Induction
<1>5. \A i \in 0..n : st[i] = L * i
  BY <1>4 DEF G
<1>6. \A i \in 1..n : i - 1 \in 0..n
  OBVIOUS
<1>7. n \in 0..n
  OBVIOUS
<1> QED BY <1>1, <1>5, <1>6, <1>7, ZenonT(60) DEF IsEven

\* n bytes of a number.
LEMMA LeBytesSeq ==
    ASSUME NEW v \in Nat, NEW n \in Nat
    PROVE  LeBytes(v, n) \in Seq(Nat) /\ Len(LeBytes(v, n)) = n /\ LeBytes(v, n) \in [1..n -> Nat]
<1>1. 256 \in Nat \ {0}
  OBVIOUS
<1> DEFINE d == Digits(v, 256, n)
<1>2. d \in [1..n -> 0..(256 - 1)]
  BY <1>1, DigitsType, ZenonT(60)
<1> HIDE DEF d
<1>3. d \in [1..n -> Nat]
  <2>1. 0..(256 - 1) \subseteq Nat
    OBVIOUS
  <2> QED BY <1>2, <2>1, ZenonT(60)
<1>4. d \in Seq(Nat) /\ Len(d) = n
  BY <1>3, SeqOver
<1> QED BY <1>3, <1>4 DEF LeBytes, d

\* What encode_block writes, field by field.
IsBlock(out, vals, n, b) ==
    LET E == Exceptions(vals, b)
        m == Cardinality(E)
        F == CeilDiv(n * b, 8)
    IN  /\ Len(out) = 3 + F + 6 * m
        /\ out[1] = b
        /\ \A i \in 1..2 : out[1 + i] = LeBytes(m, 2)[i]
        /\ \A j \in 1..F : out[3 + j] = PackedFrame(vals, b)[j]
        /\ \A k \in 1..m :
              /\ \A i \in 1..2 : out[3 + F + 6 * (k - 1) + i] = LeBytes(Ascending(E)[k] - 1, 2)[i]
              /\ \A i \in 1..4 : out[3 + F + 6 * (k - 1) + 2 + i] = LeBytes(vals[Ascending(E)[k]], 4)[i]

\* encode_block writes that layout.
LEMMA BlockLayout ==
    ASSUME NEW n \in Nat \ {0}, NEW vals \in [1..n -> Nat]
    PROVE  encode_block(vals) \in Seq(Nat) /\ IsBlock(encode_block(vals), vals, n, BestWidth(vals))
<1> DEFINE b == BestWidth(vals)
           E == Exceptions(vals, b)
           m == Cardinality(E)
           F == CeilDiv(n * b, 8)
           e == Ascending(E)
<1>1. b \in 1..32
  BY WidthExists
<1> HIDE DEF b
<1>2. E \in SUBSET Nat /\ E \subseteq 1..n /\ IsFiniteSet(E) /\ m \in Nat
  BY ExceptionsType
<1> HIDE DEF E
<1>3. e \in [1..m -> E]
  BY <1>2, AscendingOnce
<1> HIDE DEF m, e
<1>4. e \in Seq(E) /\ Len(e) = m
  BY <1>2, <1>3, SeqOver
<1> DEFINE fr == PackedFrame(vals, b)
<1>5. fr \in [1..F -> Nat] /\ F \in Nat
  <2>1. IsFrame(fr, vals, n, b)
    BY <1>1, Frame
  <2> QED BY <2>1 DEF IsFrame
<1> HIDE DEF fr, F
<1>6. fr \in Seq(Nat) /\ Len(fr) = F
  BY <1>5, SeqOver
<1> DEFINE p(k) == LeBytes(e[k] - 1, 2)
           q(k) == LeBytes(vals[e[k]], 4)
           seqs == [k \in 1..Len(e) |-> p(k) \o q(k)]
           flat == FlattenSeq(seqs)
<1>7. ASSUME NEW k \in 1..m
      PROVE  /\ p(k) \o q(k) \in Seq(Nat) /\ Len(p(k) \o q(k)) = 6
             /\ \A i \in 1..2 : (p(k) \o q(k))[i] = p(k)[i]
             /\ \A i \in 1..4 : (p(k) \o q(k))[2 + i] = q(k)[i]
  <2>1. e[k] \in 1..n
    BY <1>2, <1>3
  <2>2. e[k] - 1 \in Nat /\ vals[e[k]] \in Nat /\ 2 \in Nat /\ 4 \in Nat
    BY <2>1
  <2>3. p(k) \in Seq(Nat) /\ Len(p(k)) = 2
    <3> DEFINE x == e[k] - 1
    <3>1. x \in Nat
      BY <2>2
    <3> HIDE DEF x
    <3>2. LeBytes(x, 2) \in Seq(Nat) /\ Len(LeBytes(x, 2)) = 2
      BY <2>2, <3>1, LeBytesSeq
    <3> QED BY <3>2 DEF x
  <2>4. q(k) \in Seq(Nat) /\ Len(q(k)) = 4
    BY <2>2, LeBytesSeq
  <2> HIDE DEF p, q
  <2>5. p(k) \o q(k) \in Seq(Nat \cup Nat) /\ IsConcat(p(k) \o q(k), p(k), q(k))
    BY <2>3, <2>4, Concat
  <2>6. Nat \cup Nat = Nat
    OBVIOUS
  <2> DEFINE r == p(k) \o q(k)
  <2>7. r \in Seq(Nat) /\ IsConcat(r, p(k), q(k))
    BY <2>5, <2>6
  <2> HIDE DEF r
  <2>8. Len(r) = 6 /\ (\A i \in 1..2 : r[i] = p(k)[i]) /\ \A i \in 1..4 : r[2 + i] = q(k)[i]
    BY <2>3, <2>4, <2>7 DEF IsConcat
  <2> QED BY <2>7, <2>8 DEF r
<1> HIDE DEF p, q
<1>8. seqs \in [1..m -> Seq(Nat)] /\ \A k \in 1..m : seqs[k] = p(k) \o q(k)
  BY <1>4, <1>7
<1> HIDE DEF seqs
<1>9. seqs \in Seq(Seq(Nat)) /\ Len(seqs) = m
  BY <1>2, <1>8, SeqOver
<1>10. \A k \in 1..m : /\ Len(seqs[k]) = 6
                       /\ \A i \in 1..2 : seqs[k][i] = p(k)[i]
                       /\ \A i \in 1..4 : seqs[k][2 + i] = q(k)[i]
  <2> TAKE k \in 1..m
  <2> DEFINE r == p(k) \o q(k)
  <2>1. Len(r) = 6 /\ (\A i \in 1..2 : r[i] = p(k)[i]) /\ \A i \in 1..4 : r[2 + i] = q(k)[i]
    BY <1>7
  <2>2. seqs[k] = r
    BY <1>8
  <2> HIDE DEF r
  <2> QED BY <2>1, <2>2
<1>11. flat \in Seq(Nat)
  BY <1>9, Flattened
<1>12. Len(flat) = 6 * m /\ \A k \in 1..m : \A j \in 1..6 : flat[6 * (k - 1) + j] = seqs[k][j]
  <2>1. PICK st : IsFlat(flat, seqs, st)
    BY <1>9, Flattened
  <2> HIDE DEF flat
  <2>2. 6 \in Nat /\ \A k \in 1..m : Len(seqs[k]) = 6
    BY <1>10
  <2>3. IsEven(flat, seqs, 6, m)
    BY <1>2, <1>9, <2>1, <2>2, FlatEven
  <2> QED BY <2>3 DEF IsEven
<1> HIDE DEF flat
<1>13. ASSUME NEW k \in 1..m
       PROVE  /\ \A i \in 1..2 : flat[6 * (k - 1) + i] = p(k)[i]
              /\ \A i \in 1..4 : flat[6 * (k - 1) + 2 + i] = q(k)[i]
  <2>1. \A i \in 1..2 : i \in 1..6
    OBVIOUS
  <2>2. \A i \in 1..4 : 2 + i \in 1..6 /\ 6 * (k - 1) + (2 + i) = 6 * (k - 1) + 2 + i
    BY <1>2
  <2>3. \A i \in 1..2 : flat[6 * (k - 1) + i] = p(k)[i]
    BY <1>10, <1>12, <2>1, SMTT(60)
  <2>4. \A i \in 1..4 : flat[6 * (k - 1) + (2 + i)] = q(k)[i]
    <3> TAKE i \in 1..4
    <3>1. flat[6 * (k - 1) + (2 + i)] = seqs[k][2 + i]
      BY <1>12, <2>2
    <3> QED BY <1>10, <3>1
  <2> QED BY <2>2, <2>3, <2>4
<1> DEFINE h == <<b>>
           l == LeBytes(m, 2)
           a1 == h \o l
           a2 == a1 \o fr
           out == a2 \o flat
<1>14. encode_block(vals) = out
  <2>1. Len(e) = m
    BY <1>4
  <2> QED BY <2>1 DEF encode_block, b, e, E, fr, flat, seqs, p, q
<1>15. Nat \cup Nat = Nat
  OBVIOUS
<1>16. h \in Seq(Nat) /\ Len(h) = 1 /\ h[1] = b
  BY <1>1
<1>17. l \in Seq(Nat) /\ Len(l) = 2
  <2>1. 2 \in Nat
    OBVIOUS
  <2> QED BY <1>2, <2>1, LeBytesSeq
<1> HIDE DEF h, l
<1>18. a1 \in Seq(Nat) /\ IsConcat(a1, h, l)
  <2>1. a1 \in Seq(Nat \cup Nat) /\ IsConcat(a1, h, l)
    BY <1>16, <1>17, Concat
  <2> HIDE DEF a1
  <2> QED BY <1>15, <2>1
<1> HIDE DEF a1
<1>19. a2 \in Seq(Nat) /\ IsConcat(a2, a1, fr)
  <2>1. a2 \in Seq(Nat \cup Nat) /\ IsConcat(a2, a1, fr)
    BY <1>6, <1>18, Concat
  <2> HIDE DEF a2
  <2> QED BY <1>15, <2>1
<1> HIDE DEF a2
<1>20. out \in Seq(Nat) /\ IsConcat(out, a2, flat)
  <2>1. out \in Seq(Nat \cup Nat) /\ IsConcat(out, a2, flat)
    BY <1>11, <1>19, Concat
  <2> HIDE DEF out
  <2> QED BY <1>15, <2>1
<1> HIDE DEF out
<1>21. Len(a1) = 3 /\ a1[1] = b /\ \A i \in 1..2 : a1[1 + i] = l[i]
  BY <1>16, <1>17, <1>18 DEF IsConcat
<1>22. /\ Len(a2) = 3 + F
       /\ \A j \in 1..3 : a2[j] = a1[j]
       /\ \A j \in 1..F : a2[3 + j] = fr[j]
  BY <1>6, <1>19, <1>21 DEF IsConcat
<1>23. /\ Len(out) = 3 + F + 6 * m
       /\ \A j \in 1..(3 + F) : out[j] = a2[j]
       /\ \A j \in 1..(6 * m) : out[(3 + F) + j] = flat[j]
  BY <1>12, <1>20, <1>22 DEF IsConcat
<1>24. /\ out[1] = b
       /\ \A i \in 1..2 : out[1 + i] = l[i]
       /\ \A j \in 1..F : out[3 + j] = fr[j]
  <2>1. \A j \in 1..3 : j \in 1..(3 + F)
    BY <1>5
  <2>2. \A j \in 1..3 : out[j] = a1[j]
    BY <1>22, <1>23, <2>1
  <2>3. 1 \in 1..3 /\ \A i \in 1..2 : 1 + i \in 1..3
    OBVIOUS
  <2>4. \A j \in 1..F : 3 + j \in 1..(3 + F)
    BY <1>5
  <2>5. \A j \in 1..F : out[3 + j] = fr[j]
    BY <1>22, <1>23, <2>4, SMTT(60)
  <2> QED BY <1>21, <2>2, <2>3, <2>5
<1>25. ASSUME NEW k \in 1..m
       PROVE  /\ \A i \in 1..2 : out[3 + F + 6 * (k - 1) + i] = p(k)[i]
              /\ \A i \in 1..4 : out[3 + F + 6 * (k - 1) + 2 + i] = q(k)[i]
  <2> DEFINE s == 6 * (k - 1)
  <2>1. s \in Nat /\ s + 6 <= 6 * m
    BY <1>2
  <2> HIDE DEF s
  <2>2. \A i \in 1..2 : s + i \in 1..(6 * m) /\ 3 + F + s + i = (3 + F) + (s + i)
    BY <1>2, <1>5, <2>1
  <2>3. \A i \in 1..4 : s + 2 + i \in 1..(6 * m) /\ 3 + F + s + 2 + i = (3 + F) + (s + 2 + i)
    BY <1>2, <1>5, <2>1
  <2>4. (\A i \in 1..2 : flat[s + i] = p(k)[i]) /\ \A i \in 1..4 : flat[s + 2 + i] = q(k)[i]
    BY <1>13 DEF s
  <2>5. (\A i \in 1..2 : out[3 + F + s + i] = p(k)[i]) /\ \A i \in 1..4 : out[3 + F + s + 2 + i] = q(k)[i]
    BY <1>23, <2>2, <2>3, <2>4, ZenonT(60)
  <2> QED BY <2>5 DEF s
<1>26. IsBlock(out, vals, n, b)
  BY <1>23, <1>24, <1>25 DEF IsBlock, p, q, l, fr, F, m, e, E
<1> QED BY <1>14, <1>20, <1>26 DEF b

\* A number below 2^n has n binary digits, and one below 2^(8n) has n bytes.
LEMMA FitsBits ==
    ASSUME NEW n \in Nat, NEW v \in Nat, v < PowerOfTwo(n)
    PROVE  Shift(v, 2, n) = 0
<1>0. 2 \in Nat \ {0}
  OBVIOUS
<1> DEFINE G == {i \in 0..n : Shift(v, 2, i) < PowerOfTwo(n - i)}
<1>1. 0 \in G
  <2>1. n - 0 = n /\ Shift(v, 2, 0) = v
    BY <1>0, Shifts
  <2> QED BY <2>1
<1>2. ASSUME NEW i \in 1..n, i - 1 \in G PROVE i \in G
  <2> DEFINE j == n - i
             x == Shift(v, 2, i - 1)
  <2>1. j \in Nat /\ n - (i - 1) = j + 1 /\ i - 1 \in Nat /\ (i - 1) + 1 = i
    OBVIOUS
  <2>2. x < PowerOfTwo(j + 1)
    BY <1>2, <2>1
  <2> HIDE DEF j
  <2>3. PowerOfTwo(j) \in Nat /\ PowerOfTwo(j + 1) = 2 * PowerOfTwo(j)
    BY <2>1, Powers
  <2>4. x \in Nat /\ Shift(v, 2, (i - 1) + 1) = x \div 2
    BY <1>0, <2>1, Shifts
  <2> HIDE DEF x
  <2>5. x \div 2 < PowerOfTwo(j)
    BY <2>2, <2>3, <2>4
  <2>6. Shift(v, 2, i) < PowerOfTwo(n - i)
    BY <2>1, <2>4, <2>5 DEF j
  <2> QED BY <2>6
<1> HIDE DEF G
<1>3. n \in G
  <2>1. 0..n \subseteq G
    BY <1>1, <1>2, Induction
  <2> QED BY <2>1
<1>4. Shift(v, 2, n) < PowerOfTwo(0)
  <2>1. n - n = 0
    OBVIOUS
  <2> QED BY <2>1, <1>3 DEF G
<1>5. Shift(v, 2, n) \in Nat
  BY <1>0, Shifts
<1> QED BY <1>4, <1>5, Powers

\* The powers of two at byte boundaries.
LEMMA PowersOfBytes ==
    /\ PowerOfTwo(8) = 256 /\ PowerOfTwo(16) = 256 * PowerOfTwo(8)
    /\ PowerOfTwo(24) = 256 * PowerOfTwo(16) /\ PowerOfTwo(32) = 256 * PowerOfTwo(24)
    /\ PowerOfTwo(16) \in Nat /\ PowerOfTwo(24) \in Nat /\ PowerOfTwo(32) \in Nat
<1>1. ASSUME NEW j \in Nat PROVE PowerOfTwo(j) \in Nat /\ PowerOfTwo(j + 4) = 16 * PowerOfTwo(j)
  <2>1. j + 1 \in Nat /\ j + 2 \in Nat /\ j + 3 \in Nat
        /\ (j + 1) + 1 = j + 2 /\ (j + 2) + 1 = j + 3 /\ (j + 3) + 1 = j + 4
    OBVIOUS
  <2>2. PowerOfTwo(j) \in Nat /\ PowerOfTwo(j + 1) = 2 * PowerOfTwo(j)
    BY Powers
  <2>3. PowerOfTwo(j + 2) = 2 * PowerOfTwo(j + 1)
    BY <2>1, Powers
  <2>4. PowerOfTwo(j + 3) = 2 * PowerOfTwo(j + 2)
    BY <2>1, Powers
  <2>5. PowerOfTwo(j + 4) = 2 * PowerOfTwo(j + 3)
    BY <2>1, Powers
  <2> QED BY <2>2, <2>3, <2>4, <2>5
<1>2. ASSUME NEW j \in Nat PROVE PowerOfTwo(j) \in Nat /\ PowerOfTwo(j + 8) = 256 * PowerOfTwo(j)
  <2>1. j + 4 \in Nat /\ (j + 4) + 4 = j + 8
    OBVIOUS
  <2>2. PowerOfTwo((j + 4) + 4) = 16 * PowerOfTwo(j + 4)
    BY <1>1, <2>1
  <2> QED BY <1>1, <2>1, <2>2
<1>3. PowerOfTwo(8) = 256
  <2>1. PowerOfTwo(0 + 8) = 256 * PowerOfTwo(0)
    BY <1>2
  <2> QED BY <2>1, Powers
<1>4. 8 + 8 = 16 /\ 16 + 8 = 24 /\ 24 + 8 = 32
  OBVIOUS
<1>5. /\ PowerOfTwo(8 + 8) = 256 * PowerOfTwo(8) /\ PowerOfTwo(16 + 8) = 256 * PowerOfTwo(16)
      /\ PowerOfTwo(24 + 8) = 256 * PowerOfTwo(24)
  BY <1>2
<1>6. PowerOfTwo(16) \in Nat /\ PowerOfTwo(24) \in Nat /\ PowerOfTwo(32) \in Nat
  BY <1>2
<1> QED BY <1>3, <1>4, <1>5, <1>6

\* A number of 16 or 32 bits fits 2 or 4 bytes.
LEMMA FitsBytes ==
    ASSUME NEW v \in Nat
    PROVE  /\ v < PowerOfTwo(16) => Shift(v, 256, 2) = 0
           /\ v < PowerOfTwo(32) => Shift(v, 256, 4) = 0
<1> DEFINE s(i) == Shift(v, 256, i)
<1>0. 256 \in Nat \ {0}
  OBVIOUS
<1>1. s(0) = v /\ \A j \in Nat : s(j) \in Nat /\ s(j + 1) = s(j) \div 256
  <2>1. s(0) = v
    BY <1>0, Shifts
  <2>2. ASSUME NEW j \in Nat PROVE s(j) \in Nat /\ s(j + 1) = s(j) \div 256
    BY <1>0, Shifts
  <2> HIDE DEF s
  <2> QED BY <2>1, <2>2
<1> HIDE DEF s
<1>2. s(0 + 1) = s(0) \div 256 /\ s(1 + 1) = s(1) \div 256 /\ s(2 + 1) = s(2) \div 256
      /\ s(3 + 1) = s(3) \div 256
  BY <1>1
<1>3. s(1) = v \div 256 /\ s(2) = s(1) \div 256 /\ s(3) = s(2) \div 256 /\ s(4) = s(3) \div 256
  BY <1>1, <1>2
<1>4. s(1) \in Nat /\ s(2) \in Nat /\ s(3) \in Nat /\ s(4) \in Nat
  BY <1>1
<1>5. ASSUME NEW x \in Nat, NEW m \in Nat, x < 256 * m PROVE x \div 256 < m
  BY <1>5
<1> DEFINE p == PowerOfTwo(8)
           q == PowerOfTwo(16)
           r == PowerOfTwo(24)
           w == PowerOfTwo(32)
<1>6. p = 256 * 1 /\ q = 256 * p /\ r = 256 * q /\ w = 256 * r /\ 1 \in Nat /\ p \in Nat /\ q \in Nat /\ r \in Nat
  BY PowersOfBytes
<1> HIDE DEF p, q, r, w
<1>7. v < q => s(2) = 0
  <2> HAVE v < q
  <2>1. s(1) < p
    BY <1>3, <1>5, <1>6
  <2>2. s(2) < 1
    BY <2>1, <1>3, <1>4, <1>5, <1>6
  <2> QED BY <2>2, <1>4
<1>8. v < w => s(4) = 0
  <2> HAVE v < w
  <2>1. s(1) < r
    BY <1>3, <1>5, <1>6
  <2>2. s(2) < q
    BY <2>1, <1>3, <1>4, <1>5, <1>6
  <2>3. s(3) < p
    BY <2>2, <1>3, <1>4, <1>5, <1>6
  <2>4. s(4) < 1
    BY <2>3, <1>3, <1>4, <1>5, <1>6
  <2> QED BY <2>4, <1>4
<1> QED BY <1>7, <1>8 DEF s, q, w

\* A number whose quotient by w is below w is below the square of w.
LEMMA BelowSquare ==
    ASSUME NEW w \in Nat \ {0}, NEW a \in Nat, a \div w < w
    PROVE  a < w * w
<1> DEFINE q == a \div w
<1>1. q \in Nat /\ a % w \in 0..(w - 1) /\ a = w * q + (a % w)
  BY Division
<1>2. PICK z \in Nat : w = q + 1 + z
  <2>1. w - q - 1 \in Nat /\ w = q + 1 + (w - q - 1)
    BY <1>1
  <2> QED BY <2>1
<1>3. w * w = w * q + w + w * z /\ w * z \in Nat /\ w * q \in Nat
  BY <1>1, <1>2
<1> HIDE DEF q
<1> QED BY <1>1, <1>3

\* The bytes of out are in buf at pos.
Holds(buf, pos, out) ==
    pos + Len(out) <= Len(buf) /\ \A j \in 1..Len(out) : buf[pos + j] = out[j]

\* Reading back n little-endian bytes.
LEMMA ReadLe ==
    ASSUME NEW buf \in Seq(Nat), NEW at \in Nat, NEW n \in Nat,
           NEW v \in Nat, Shift(v, 256, n) = 0, Holds(buf, at, LeBytes(v, n))
    PROVE  FromLe(buf, at, n) = v
<1> DEFINE r == Slice(buf, at, n)
<1>2. LeBytes(v, n) \in Seq(Nat) /\ Len(LeBytes(v, n)) = n
  BY LeBytesSeq
<1>2a. at + n <= Len(buf) /\ \A i \in 1..n : buf[at + i] = LeBytes(v, n)[i]
  BY <1>2 DEF Holds
<1>1. r \in Seq(Nat) /\ IsSlice(r, buf, at, n)
  BY <1>2a, SliceCells
<1> HIDE DEF r
<1>3. Len(r) = n /\ \A i \in 1..n : r[i] = LeBytes(v, n)[i]
  BY <1>1, <1>2a DEF IsSlice
<1>4. r = LeBytes(v, n)
  BY <1>1, <1>2, <1>3, SeqEqual
<1>5. Number(Digits(v, 256, n), 256) = v
  <2>1. 256 \in Nat \ {0}
    OBVIOUS
  <2> QED BY <2>1, NumberOfDigits
<1> QED BY <1>4, <1>5 DEF FromLe, r, LeBytes

\* The position of bit p of value i in a frame of n values.
IsBitAt(k, n, b, p, i) == k \in 0..(n * b - 1) /\ k % n = i - 1 /\ k \div n = p - 1

\* Bit k of a frame belongs to one plane and one value.
LEMMA BitPosition ==
    ASSUME NEW n \in Nat \ {0}, NEW b \in Nat, NEW p \in 1..b, NEW i \in 1..n,
           NEW k, k = (p - 1) * n + i - 1
    PROVE  IsBitAt(k, n, b, p, i)
<1> DEFINE x == p - 1
           q == k \div n
           r == k % n
<1>1. x \in Nat /\ x * n \in Nat
  OBVIOUS
<1>2. k \in Nat /\ k = n * x + (i - 1)
  BY <1>1
<1> HIDE DEF x
<1>3. k <= n * b - 1
  <2>1. PICK z \in Nat : b = x + 1 + z
    <3>1. b - p \in Nat /\ b = x + 1 + (b - p)
      BY DEF x
    <3> QED BY <3>1
  <2>2. n * b = n * x + n + n * z /\ n * z \in Nat
    BY <1>1, <2>1
  <2> QED BY <1>1, <1>2, <2>2
<1>4. q \in Nat /\ r \in 0..(n - 1) /\ k = n * q + r
  BY <1>2, Division
<1> HIDE DEF q, r
<1>5. q = x
  <2>1. ASSUME q < x PROVE FALSE
    <3>1. PICK z \in Nat : x = q + 1 + z
      <4>1. x - q - 1 \in Nat /\ x = q + 1 + (x - q - 1)
        BY <2>1, <1>1, <1>4
      <4> QED BY <4>1
    <3>2. n * x = n * q + n + n * z /\ n * z \in Nat /\ n * q \in Nat
      BY <3>1, <1>4
    <3> QED BY <3>2, <1>2, <1>4
  <2>2. ASSUME x < q PROVE FALSE
    <3>1. PICK z \in Nat : q = x + 1 + z
      <4>1. q - x - 1 \in Nat /\ q = x + 1 + (q - x - 1)
        BY <2>2, <1>1, <1>4
      <4> QED BY <4>1
    <3>2. n * q = n * x + n + n * z /\ n * z \in Nat /\ n * x \in Nat
      BY <3>1, <1>1
    <3> QED BY <3>2, <1>2, <1>4
  <2> QED BY <2>1, <2>2, <1>1, <1>4
<1>6. r = i - 1
  <2>1. n * x \in Nat
    BY <1>1
  <2> QED BY <2>1, <1>2, <1>4, <1>5
<1>7. k \in 0..(n * b - 1)
  BY <1>2, <1>3
<1> QED BY <1>5, <1>6, <1>7 DEF q, r, x, IsBitAt

\* A block decodes to the values it was made of, wherever it is in a buffer.
LEMMA DecodeBlock ==
    ASSUME NEW n \in Nat \ {0}, n < PowerOfTwo(16), NEW vals \in [1..n -> Nat], \A i \in 1..n : vals[i] < PowerOfTwo(32),
           NEW buf \in Seq(Nat), NEW pos \in Nat, Holds(buf, pos, encode_block(vals))
    PROVE  decode_block(buf, pos, n) = [vals |-> vals, pos |-> pos + Len(encode_block(vals))]
<1> DEFINE out == encode_block(vals)
           b == BestWidth(vals)
           E == Exceptions(vals, b)
           m == Cardinality(E)
           F == CeilDiv(n * b, 8)
           e == Ascending(E)
           fr == PackedFrame(vals, b)
<1>0. n \in Nat /\ 256 \in Nat \ {0} /\ 2 \in Nat \ {0} /\ PowerOfTwo(16) \in Nat
  BY Powers
<1>1. b \in 1..32
  BY <1>0, WidthExists, ZenonT(60)
<1>2. out \in Seq(Nat) /\ IsBlock(out, vals, n, b)
  BY <1>0, BlockLayout
<1> HIDE DEF b
<1>3. E \in SUBSET Nat /\ E \subseteq 1..n /\ IsFiniteSet(E) /\ m \in 0..n
  BY <1>0, ExceptionsType, SMTT(60)
<1>4. \A i \in 1..n : i \notin E => Shift(vals[i], 2, b) = 0
  <2> TAKE i \in 1..n
  <2>1. Len(vals) = n
    <3>1. vals \in [1..n -> Nat]
      OBVIOUS
    <3> QED BY <1>0, <3>1, SeqOver
  <2>2. CASE b < 32
    BY <2>1, <2>2 DEF Exceptions
  <2>3. CASE ~(b < 32)
    <3>1. b = 32 /\ vals[i] \in Nat /\ vals[i] < PowerOfTwo(32) /\ 32 \in Nat
      BY <1>1, <2>3
    <3> QED BY <3>1, FitsBits
  <2> QED BY <2>2, <2>3
<1>5. /\ Len(out) = 3 + F + 6 * m
      /\ out[1] = b
      /\ \A i \in 1..2 : out[1 + i] = LeBytes(m, 2)[i]
      /\ \A j \in 1..F : out[3 + j] = fr[j]
      /\ \A k \in 1..m :
            /\ \A i \in 1..2 : out[3 + F + 6 * (k - 1) + i] = LeBytes(e[k] - 1, 2)[i]
            /\ \A i \in 1..4 : out[3 + F + 6 * (k - 1) + 2 + i] = LeBytes(vals[e[k]], 4)[i]
  <2> HIDE DEF out
  <2> QED BY <1>2 DEF IsBlock
<1>6. e \in [1..m -> E] /\ (\A i, j \in 1..m : e[i] = e[j] => i = j) /\ \A t \in E : \E i \in 1..m : e[i] = t
  <2> HIDE DEF E
  <2> QED BY <1>3, AscendingOnce
<1>7. IsFrame(fr, vals, n, b)
  BY <1>0, <1>1, Frame
<1>8. Holds(buf, pos, out)
  OBVIOUS
<1> HIDE DEF out, E, m, e, fr, F
<1>9. /\ fr \in [1..F -> Nat] /\ F \in Nat
      /\ \A k \in 0..(n * b - 1) :
          /\ (k \div 8) + 1 \in 1..F
          /\ Bit(fr[(k \div 8) + 1], k % 8) = Bit(vals[(k % n) + 1], k \div n)
  BY <1>7 DEF IsFrame, F
<1>10. Len(buf) \in Nat /\ m \in Nat /\ F \in Nat
  BY <1>3, <1>9, LenProperties
<1>11a. pos + 3 + F + 6 * m <= Len(buf)
  <2> DEFINE lo == Len(out)
             lb == Len(buf)
  <2>1. pos + lo <= lb
    BY <1>8 DEF Holds
  <2>2. lo = 3 + F + 6 * m /\ lb \in Nat
    BY <1>5, <1>10
  <2> HIDE DEF lo, lb
  <2>3. pos + 3 + F + 6 * m <= lb
    BY <1>10, <2>1, <2>2
  <2> QED BY <2>3 DEF lb
<1>11. pos + 3 + F + 6 * m <= Len(buf) /\ \A j \in 1..(3 + F + 6 * m) : buf[pos + j] = out[j]
  <2>1. pos + (3 + F + 6 * m) <= Len(buf)
    BY <1>5, <1>8 DEF Holds
  <2> QED BY <1>5, <1>8, <1>9, <1>10, <2>1 DEF Holds
\* the width, the number of exceptions and the frame
<1>12. buf[pos + 1] = b
  <2>1. 1 \in 1..(3 + F + 6 * m)
    BY <1>10
  <2> QED BY <1>5, <1>11, <2>1
<1>13. FromLe(buf, pos + 1, 2) = m
  <2>1. Shift(m, 256, 2) = 0
    <3>1. m < PowerOfTwo(16)
      BY <1>0, <1>3
    <3> QED BY <1>10, <3>1, FitsBytes
  <2> DEFINE at == pos + 1
  <2>2. at \in Nat /\ 2 \in Nat /\ at + 2 <= Len(buf)
    BY <1>10, <1>11a
  <2>3. \A i \in 1..2 : buf[at + i] = LeBytes(m, 2)[i]
    <3> TAKE i \in 1..2
    <3>1. 1 + i \in 1..(3 + F + 6 * m) /\ pos + (1 + i) = at + i
      BY <1>10
    <3>2. buf[pos + (1 + i)] = out[1 + i]
      BY <1>11, <3>1
    <3> QED BY <1>5, <3>1, <3>2
  <2> HIDE DEF at
  <2>4a. Holds(buf, at, LeBytes(m, 2))
    <3>1. Len(LeBytes(m, 2)) = 2
      BY <1>10, <2>2, LeBytesSeq
    <3> QED BY <2>2, <2>3, <3>1 DEF Holds
  <2>4. FromLe(buf, at, 2) = m
    BY <1>10, <2>1, <2>2, <2>4a, ReadLe, SMTT(60)
  <2> QED BY <2>4 DEF at
<1>14. \A j \in 1..F : buf[pos + 3 + j] = fr[j]
  <2> TAKE j \in 1..F
  <2>1. 3 + j \in 1..(3 + F + 6 * m) /\ pos + (3 + j) = pos + 3 + j
    BY <1>10
  <2>2. buf[pos + (3 + j)] = out[3 + j]
    BY <1>11, <2>1
  <2> QED BY <1>5, <2>1, <2>2
\* the exceptions
<1> DEFINE excs == pos + 3 + F
           at(k) == excs + 6 * (k - 1)
<1>15. ASSUME NEW k \in 1..m
       PROVE  /\ e[k] \in 1..n /\ e[k] \in E
              /\ FromLe(buf, at(k), 2) = e[k] - 1 /\ FromLe(buf, at(k) + 2, 4) = vals[e[k]]
  <2> DEFINE s == 6 * (k - 1)
             A == at(k)
  <2>1. e[k] \in E /\ e[k] \in 1..n
    BY <1>3, <1>6
  <2>2. s \in Nat /\ s + 6 <= 6 * m
    BY <1>10
  <2>3. A = pos + 3 + F + s
    OBVIOUS
  <2> HIDE DEF s, A
  <2>4. A \in Nat /\ A + 2 \in Nat /\ A + 2 <= Len(buf) /\ (A + 2) + 4 <= Len(buf) /\ 2 \in Nat /\ 4 \in Nat
    BY <1>10, <1>11a, <2>2, <2>3, SMTT(60)
  <2>5. /\ \A i \in 1..2 : out[3 + F + s + i] = LeBytes(e[k] - 1, 2)[i]
        /\ \A i \in 1..4 : out[3 + F + s + 2 + i] = LeBytes(vals[e[k]], 4)[i]
    BY <1>5 DEF s
  <2>6. \A i \in 1..2 : buf[A + i] = LeBytes(e[k] - 1, 2)[i]
    <3> TAKE i \in 1..2
    <3>1. 3 + F + s + i \in 1..(3 + F + 6 * m) /\ pos + (3 + F + s + i) = A + i
      BY <1>10, <2>2, <2>3
    <3>2. buf[pos + (3 + F + s + i)] = out[3 + F + s + i]
      BY <1>11, <3>1
    <3> QED BY <2>5, <3>1, <3>2
  <2>7. \A i \in 1..4 : buf[(A + 2) + i] = LeBytes(vals[e[k]], 4)[i]
    <3> TAKE i \in 1..4
    <3>1. 3 + F + s + 2 + i \in 1..(3 + F + 6 * m) /\ pos + (3 + F + s + 2 + i) = (A + 2) + i
      BY <1>10, <2>2, <2>3
    <3>2. buf[pos + (3 + F + s + 2 + i)] = out[3 + F + s + 2 + i]
      BY <1>11, <3>1
    <3> QED BY <2>5, <3>1, <3>2
  <2> DEFINE x == e[k] - 1  y == vals[e[k]]  A2 == A + 2
  <2>8. x \in Nat /\ x < PowerOfTwo(16) /\ y \in Nat /\ y < PowerOfTwo(32)
    BY <1>0, <2>1, SMTT(60)
  <2>9. FromLe(buf, A, 2) = x
    <3>1. \A i \in 1..2 : buf[A + i] = LeBytes(x, 2)[i]
      BY <2>6
    <3> HIDE DEF x, y, A2
    <3>2. Shift(x, 256, 2) = 0
      BY <2>8, FitsBytes
    <3>3. Len(LeBytes(x, 2)) = 2
      BY <2>4, <2>8, LeBytesSeq
    <3>4. Holds(buf, A, LeBytes(x, 2))
      BY <2>4, <3>1, <3>3 DEF Holds
    <3> QED BY <2>4, <2>8, <3>2, <3>4, ReadLe
  <2>10. FromLe(buf, A2, 4) = y
    <3>1. (\A i \in 1..4 : buf[A2 + i] = LeBytes(y, 4)[i]) /\ A2 \in Nat /\ A2 + 4 <= Len(buf)
      BY <2>4, <2>7
    <3> HIDE DEF x, y, A2
    <3>2. Shift(y, 256, 4) = 0
      BY <2>8, FitsBytes
    <3>3. Len(LeBytes(y, 4)) = 4
      BY <2>4, <2>8, LeBytesSeq
    <3>4. Holds(buf, A2, LeBytes(y, 4))
      BY <3>1, <3>3 DEF Holds
    <3> QED BY <2>4, <2>8, <3>1, <3>2, <3>4, ReadLe
  <2> QED BY <2>1, <2>9, <2>10 DEF A
\* the low bits
<1> DEFINE bit(k) == Bit(buf[pos + 3 + (k \div 8) + 1], k % 8)
           low(i) == Number([p \in 1..b |-> bit((p - 1) * n + i - 1)], 2)
<1>16. ASSUME NEW i \in 1..n, i \notin E PROVE low(i) = vals[i]
  <2>1. ASSUME NEW p \in 1..b PROVE bit((p - 1) * n + i - 1) = Bit(vals[i], p - 1)
    <3> DEFINE k == (p - 1) * n + i - 1
    <3>0. k = (p - 1) * n + i - 1
      OBVIOUS
    <3> HIDE DEF k
    <3>1. k \in 0..(n * b - 1) /\ k % n = i - 1 /\ k \div n = p - 1
      <4>1. b \in Nat
        BY <1>1
      <4>2. IsBitAt(k, n, b, p, i)
        BY <1>0, <3>0, <4>1, BitPosition
      <4> QED BY <4>2 DEF IsBitAt
    <3> DEFINE j == (k \div 8) + 1
    <3>2. j \in 1..F /\ Bit(fr[j], k % 8) = Bit(vals[(k % n) + 1], k \div n)
      BY <1>9, <3>1
    <3>3. pos + 3 + (k \div 8) + 1 = pos + 3 + j
      <4>1. k \div 8 \in Nat
        <5>1. k \in Nat /\ 8 \in Nat \ {0}
          BY <3>1
        <5> QED BY <5>1, Division
      <4> QED BY <4>1
    <3>4. bit(k) = Bit(fr[j], k % 8)
      <4>1. buf[pos + 3 + j] = fr[j]
        <5> HIDE DEF j
        <5> QED BY <1>14, <3>2
      <4> QED BY <3>3, <4>1
    <3>5. (k % n) + 1 = i
      BY <3>1
    <3>6. bit(k) = Bit(vals[i], p - 1)
      BY <3>1, <3>2, <3>4, <3>5
    <3> QED BY <3>6 DEF k
  <2> HIDE DEF bit
  <2>2. [p \in 1..b |-> bit((p - 1) * n + i - 1)] = Digits(vals[i], 2, b)
    BY <2>1 DEF Digits, Bit
  <2>3. vals[i] \in Nat /\ b \in Nat /\ Shift(vals[i], 2, b) = 0
    BY <1>1, <1>4, <1>16
  <2>4. Number(Digits(vals[i], 2, b), 2) = vals[i]
    BY <1>0, <2>3, NumberOfDigits, SMTT(60)
  <2> QED BY <2>2, <2>4
<1> HIDE DEF bit
<1> DEFINE patch(i) == {k \in 1..m : FromLe(buf, at(k), 2) = i - 1}
           val(i) == IF patch(i) = {} THEN low(i) ELSE FromLe(buf, at(Max(patch(i))) + 2, 4)
<1>17. ASSUME NEW i \in 1..n PROVE val(i) = vals[i]
  <2>1. \A k \in 1..m : FromLe(buf, at(k), 2) = i - 1 <=> e[k] = i
    <3> TAKE k \in 1..m
    <3>1. FromLe(buf, at(k), 2) = e[k] - 1 /\ e[k] \in 1..n
      BY <1>15
    <3> DEFINE y == FromLe(buf, at(k), 2)  x == e[k]
    <3>2. y = x - 1 /\ x \in 1..n
      BY <3>1
    <3> HIDE DEF x, y
    <3>3. y = i - 1 <=> x = i
      BY <1>0, <3>2
    <3> QED BY <3>3 DEF x, y
  <2>2. CASE i \notin E
    <3>1. \A k \in 1..m : e[k] # i
      BY <1>15, <2>2
    <3>2. patch(i) = {}
      BY <2>1, <3>1
    <3> QED BY <1>16, <2>2, <3>2
  <2>3. CASE i \in E
    <3>1. PICK k \in 1..m : e[k] = i
      BY <1>6, <2>3
    <3>2. patch(i) = {k}
      <4>1. \A l \in 1..m : e[l] = i => l = k
        BY <1>6, <3>1
      <4> HIDE DEF at
      <4> QED BY <2>1, <3>1, <4>1
    <3>3. Max({k}) = k
      <4>1. k \in Int
        BY <1>10
      <4> QED BY <4>1 DEF Max
    <3>4. val(i) = FromLe(buf, at(k) + 2, 4)
      BY <3>2, <3>3
    <3> QED BY <1>15, <3>1, <3>4
  <2> QED BY <2>2, <2>3
<1>18. decode_block(buf, pos, n) = [vals |-> [i \in 1..n |-> val(i)], pos |-> excs + 6 * m]
  <2>1. CeilDiv(n * b, 8) = F
    BY DEF F
  <2> QED BY <1>12, <1>13, <2>1 DEF decode_block, bit
<1> HIDE DEF val
<1>19. [i \in 1..n |-> val(i)] = vals
  BY <1>17
<1>20. excs + 6 * m = pos + Len(out)
  BY <1>5, <1>9, <1>10
<1> HIDE DEF excs
<1> QED BY <1>18, <1>19, <1>20 DEF out

------------------------------
(* A posting list through the codec *)

\* A block has room for at most 2^16 - 1 positions.
LEMMA BlockFits == Block \in Nat \ {0} /\ Block < PowerOfTwo(16)
<1> DEFINE b == 256
           p == PowerOfTwo(8)
           w == PowerOfTwo(16)
<1>1. Block \in Nat \ {0} /\ Block \div b < b
  BY BlockAssumption
<1>2. p = b /\ w = b * p
  BY PowersOfBytes
<1>3. b \in Nat \ {0}
  OBVIOUS
<1> HIDE DEF b, p, w
<1>4. w = b * b
  BY <1>2
<1>5. Block < b * b
  BY <1>1, <1>3, BelowSquare
<1> QED BY <1>1, <1>4, <1>5 DEF w

\* The chunks of deltas, and the blocks they become.
DeltaChunk(d, k) == SubSeq(d, Block * (k - 1) + 1, Min({Block * k, Len(d)}))
DeltaBlocks(d)   == [k \in 1..CeilDiv(Len(d), Block) |-> encode_block(DeltaChunk(d, k))]

IsU32(d) == \A i \in 1..Len(d) : d[i] < PowerOfTwo(32)

\* A chunk is what decode_block can read back.
LEMMA ChunkFits ==
    ASSUME NEW d \in Seq(Nat), NEW k \in 1..CeilDiv(Len(d), Block)
    PROVE  LET c == DeltaChunk(d, k)
               n == Len(c)
           IN  /\ n \in Nat \ {0} /\ n < PowerOfTwo(16) /\ c \in [1..n -> Nat] /\ c \in Seq(Nat)
               /\ IsChunk(c, d, Block, k)
               /\ IsU32(d) => IsU32(c)
<1> DEFINE c == DeltaChunk(d, k)
           n == Len(c)
<1>1. c \in Seq(Nat) /\ IsChunk(c, d, Block, k)
  BY BlockFits, Chunk DEF DeltaChunk
<1> HIDE DEF c
<1>2. n \in 1..Block /\ n \in Nat /\ c \in [1..n -> Nat]
  BY <1>1, LenProperties DEF IsChunk
<1>3. PowerOfTwo(16) \in Nat
  BY Powers
<1>4. n \in Nat \ {0} /\ n < PowerOfTwo(16)
  BY <1>2, <1>3, BlockFits
<1>5. IsU32(d) => IsU32(c)
  <2> HAVE IsU32(d)
  <2>1. Block * (k - 1) \in Nat /\ Len(d) \in Nat
    <3>1. Len(d) \in Nat
      BY LenProperties
    <3>2. CeilDiv(Len(d), Block) \in Nat
      BY <3>1, BlockFits, CeilDivision
    <3>3. k - 1 \in Nat
      BY <3>2
    <3> QED BY <3>1, <3>3, BlockFits
  <2>2. \A i \in 1..n : c[i] = d[Block * (k - 1) + i] /\ Block * (k - 1) + i \in 1..Len(d)
    <3>1. Block * (k - 1) + n <= Len(d)
      BY <1>1 DEF IsChunk
    <3>2. \A i \in 1..n : Block * (k - 1) + i \in 1..Len(d)
      <4> DEFINE a == Block * (k - 1)
      <4>1. a \in Nat /\ a + n <= Len(d)
        BY <2>1, <3>1
      <4> HIDE DEF a
      <4>2. \A i \in 1..n : a + i \in 1..Len(d)
        BY <1>2, <2>1, <4>1
      <4> QED BY <4>2 DEF a
    <3> QED BY <1>1, <3>2 DEF IsChunk
  <2> QED BY <2>2 DEF IsU32
<1> QED BY <1>1, <1>2, <1>4, <1>5 DEF c

\* What encode writes: version, count, then the blocks.
IsEncoding(out, d, st) ==
    LET blocks == DeltaBlocks(d)
        K == CeilDiv(Len(d), Block)
    IN  /\ st \in [0..K -> Nat] /\ st[0] = 0
        /\ \A k \in 1..K : /\ st[k] = st[k - 1] + Len(blocks[k])
                           /\ Holds(out, 5 + st[k - 1], blocks[k])

\* encode writes the blocks one after the other.
LEMMA EncodeLayout ==
    ASSUME NEW d \in Seq(Nat)
    PROVE  encode(d) \in Seq(Nat) /\ \E st : IsEncoding(encode(d), d, st)
<1> DEFINE K == CeilDiv(Len(d), Block)
           blocks == DeltaBlocks(d)
           flat == FlattenSeq(blocks)
           h == <<1>>
           l == LeBytes(Len(d), 4)
           a == h \o l
           out == a \o flat
<1>1. Len(d) \in Nat
  BY LenProperties
<1>2. K \in Nat
  BY <1>1, BlockFits, CeilDivision
<1>3. encode(d) = out
  BY DEF encode, DeltaBlocks, DeltaChunk
<1>4. ASSUME NEW k \in 1..K PROVE encode_block(DeltaChunk(d, k)) \in Seq(Nat)
  <2> DEFINE c == DeltaChunk(d, k)  n == Len(c)
  <2>1. n \in Nat \ {0} /\ c \in [1..n -> Nat]
    BY ChunkFits
  <2> HIDE DEF c, n
  <2>2. encode_block(c) \in Seq(Nat)
    BY <2>1, BlockLayout
  <2> QED BY <2>2 DEF c
<1> HIDE DEF K
<1>5. blocks \in [1..K -> Seq(Nat)]
  BY <1>4 DEF DeltaBlocks, K
<1> HIDE DEF blocks
<1>6. blocks \in Seq(Seq(Nat)) /\ Len(blocks) = K
  BY <1>2, <1>5, SeqOver
<1>7. flat \in Seq(Nat)
  BY <1>6, Flattened
<1>8. PICK st : IsFlat(flat, blocks, st)
  BY <1>6, Flattened
<1> HIDE DEF flat
<1>9. /\ st \in [0..K -> Nat] /\ st[0] = 0
      /\ \A i \in 1..K : st[i] = st[i - 1] + Len(blocks[i]) /\ st[i] <= Len(flat)
      /\ \A i \in 1..K : \A j \in 1..Len(blocks[i]) : flat[st[i - 1] + j] = blocks[i][j]
  BY <1>6, <1>8 DEF IsFlat
<1>10. h \in Seq(Nat) /\ Len(h) = 1
  OBVIOUS
<1>11. l \in Seq(Nat) /\ Len(l) = 4
  <2>1. 4 \in Nat
    OBVIOUS
  <2> QED BY <1>1, <2>1, LeBytesSeq
<1> HIDE DEF h, l
<1>12. Nat \cup Nat = Nat
  OBVIOUS
<1>13. a \in Seq(Nat) /\ IsConcat(a, h, l)
  <2>1. a \in Seq(Nat \cup Nat) /\ IsConcat(a, h, l)
    BY <1>10, <1>11, Concat
  <2> HIDE DEF a
  <2> QED BY <1>12, <2>1
<1> HIDE DEF a
<1>14. Len(a) = 5
  BY <1>10, <1>11, <1>13 DEF IsConcat
<1>15. out \in Seq(Nat) /\ IsConcat(out, a, flat)
  <2>1. out \in Seq(Nat \cup Nat) /\ IsConcat(out, a, flat)
    BY <1>7, <1>13, Concat
  <2> HIDE DEF out
  <2> QED BY <1>12, <2>1
<1> HIDE DEF out
<1>16. Len(out) = 5 + Len(flat) /\ Len(flat) \in Nat /\ \A j \in 1..Len(flat) : out[5 + j] = flat[j]
  BY <1>14, <1>15 DEF IsConcat
<1>17. ASSUME NEW k \in 1..K
       PROVE  st[k] = st[k - 1] + Len(blocks[k]) /\ Holds(out, 5 + st[k - 1], blocks[k])
  <2> DEFINE s == st[k - 1]  B == blocks[k]
  <2>1. k - 1 \in 0..K
    BY <1>2
  <2>2. s \in Nat /\ B \in Seq(Nat) /\ s + Len(B) <= Len(flat) /\ \A j \in 1..Len(B) : flat[s + j] = B[j]
    <3>1. s \in Nat
      BY <1>9, <2>1
    <3>2. B \in Seq(Nat)
      BY <1>5
    <3>3. s + Len(B) <= Len(flat) /\ \A j \in 1..Len(B) : flat[s + j] = B[j]
      BY <1>9
    <3> QED BY <3>1, <3>2, <3>3
  <2> HIDE DEF s, B
  <2>3. Len(B) \in Nat
    BY <2>2, LenProperties
  <2>4. \A j \in 1..Len(B) : s + j \in 1..Len(flat) /\ 5 + s + j = 5 + (s + j)
    BY <1>16, <2>2, <2>3
  <2>5. \A j \in 1..Len(B) : out[5 + s + j] = B[j]
    BY <1>16, <2>2, <2>4
  <2>6. 5 + s + Len(B) <= Len(out)
    BY <1>16, <2>2, <2>3
  <2>7. Holds(out, 5 + s, B)
    BY <2>5, <2>6 DEF Holds
  <2> QED BY <1>9, <2>7 DEF s, B
<1>18. IsEncoding(out, d, st)
  BY <1>9, <1>17 DEF IsEncoding, blocks, K
<1> QED BY <1>3, <1>15, <1>18

\* decode(encode(d)) is d: no value is lost at a frame boundary, to the chosen
\* width or to the exceptions.
THEOREM PostingRoundTrip ==
    ASSUME NEW d \in Seq(Nat), IsU32(d)
    PROVE  decode(encode(d), Len(d)) = d
<1> DEFINE N == Len(d)
           K == CeilDiv(N, Block)
           buf == encode(d)
           blocks == DeltaBlocks(d)
           L(k) == IF Block * k <= N THEN Block * k ELSE N
           pre(k) == [i \in 1..L(k) |-> d[i]]
           chunk(k) == DeltaChunk(d, k)
<1>0. Block \in Nat \ {0}
  BY BlockFits
<1>1. N \in Nat /\ \A i \in 1..N : d[i] \in Nat
  BY LenProperties, ElementOfSeq
<1> HIDE DEF N
<1>2. /\ K \in Nat /\ N <= Block * K
      /\ \A k \in 1..K : Block * (k - 1) \in Nat /\ Block * (k - 1) < N
  BY <1>0, <1>1, CeilDivision
<1> HIDE DEF K
<1>3. buf \in Seq(Nat)
  BY EncodeLayout
<1>4. PICK st : IsEncoding(buf, d, st)
  BY EncodeLayout
<1> HIDE DEF buf
<1>5. /\ st \in [0..K -> Nat] /\ st[0] = 0
      /\ \A k \in 1..K : /\ st[k] = st[k - 1] + Len(blocks[k])
                         /\ Holds(buf, 5 + st[k - 1], blocks[k])
  BY <1>4 DEF IsEncoding, K, N
<1>6. \A k \in 1..K : blocks[k] = encode_block(chunk(k))
  BY DEF DeltaBlocks, K, N
<1> HIDE DEF blocks
<1>7. ASSUME NEW k \in 0..K PROVE L(k) \in Nat /\ L(k) <= N /\ pre(k) \in Seq(Nat) /\ Len(pre(k)) = L(k)
                                 /\ \A i \in 1..L(k) : pre(k)[i] = d[i]
  <2>1. L(k) \in Nat /\ L(k) <= N
    <3>1. Block * k \in Nat
      BY <1>0, <1>2
    <3> QED BY <1>1, <3>1
  <2> DEFINE l == L(k)
  <2>2. l \in Nat /\ l <= N
    BY <2>1
  <2> HIDE DEF l
  <2> DEFINE f == [i \in 1..l |-> d[i]]
  <2>3. f \in [1..l -> Nat]
    BY <1>1, <2>2
  <2> HIDE DEF f
  <2>4. f \in Seq(Nat) /\ Len(f) = l
    BY <2>2, <2>3, SeqOver
  <2>5. \A i \in 1..l : f[i] = d[i]
    BY DEF f
  <2> QED BY <2>2, <2>4, <2>5 DEF f, l
\* one block
<1>8. ASSUME NEW k \in 1..K
      PROVE  DecodeNext(buf, N, [pos |-> 5 + st[k - 1], out |-> pre(k - 1)])
               = [pos |-> 5 + st[k], out |-> pre(k)]
  <2> DEFINE c == chunk(k)
             n == Len(c)
             at == 5 + st[k - 1]
             a == Block * (k - 1)
  <2>1. /\ n \in Nat \ {0} /\ n < PowerOfTwo(16) /\ c \in [1..n -> Nat] /\ c \in Seq(Nat)
        /\ IsChunk(c, d, Block, k) /\ IsU32(c)
    BY ChunkFits DEF K, N
  <2>2. k - 1 \in 0..K /\ k \in 0..K /\ k \in Nat
    BY <1>2
  <2>3. at \in Nat
    BY <1>5, <2>2, SMTT(60)
  <2>4. Holds(buf, at, encode_block(c))
    BY <1>5, <1>6
  <2>5. a \in Nat /\ a < N /\ Block * k = a + Block
    <3>1. a \in Nat /\ a < N
      BY <1>2
    <3>2. Block * k = Block * (k - 1) + Block
      BY <1>0, <2>2
    <3> QED BY <3>1, <3>2
  <2> HIDE DEF c, at, a
  <2>6. /\ n = IF Block * k <= N THEN Block ELSE N - a
        /\ a + n <= N
        /\ \A i \in 1..n : c[i] = d[a + i]
    BY <2>1 DEF IsChunk, N, a
  <2> HIDE DEF n
  <2>7. \A i \in 1..n : c[i] < PowerOfTwo(32)
    BY <2>1 DEF IsU32, n
  <2>8. decode_block(buf, at, n) = [vals |-> c, pos |-> at + Len(encode_block(c))]
    BY <1>3, <2>1, <2>3, <2>4, <2>7, DecodeBlock
  <2>9. L(k - 1) = a /\ L(k) = a + n
    BY <1>0, <1>1, <2>1, <2>5, <2>6, SMTT(60) DEF a
  <2> HIDE DEF L
  <2>10. Len(pre(k - 1)) = a
    BY <1>7, <2>2, <2>9
  <2>11. Min({Block, N - a}) = n
    <3>1. N - a \in Int /\ Block \in Int
      BY <1>0, <1>1, <2>5
    <3>2. Min({Block, N - a}) = IF Block <= N - a THEN Block ELSE N - a
      BY <3>1, MinOfTwo
    <3> QED BY <1>0, <1>1, <2>5, <2>6, <3>2
  <2>12. pre(k - 1) \o c = pre(k)
    <3> DEFINE u == pre(k - 1)
               w == pre(k)
               r == u \o c
    <3>1. u \in Seq(Nat) /\ Len(u) = a /\ \A i \in 1..a : u[i] = d[i]
      BY <1>7, <2>2, <2>9
    <3>2. w \in Seq(Nat) /\ Len(w) = a + n /\ \A i \in 1..(a + n) : w[i] = d[i]
      BY <1>7, <2>2, <2>9
    <3> HIDE DEF u, w
    <3>3. r \in Seq(Nat) /\ IsConcat(r, u, c)
      <4>1. r \in Seq(Nat \cup Nat) /\ IsConcat(r, u, c)
        BY <2>1, <3>1, Concat
      <4>2. Nat \cup Nat = Nat
        OBVIOUS
      <4> HIDE DEF r
      <4> QED BY <4>1, <4>2
    <3> HIDE DEF r
    <3>4. Len(r) = a + n /\ (\A i \in 1..a : r[i] = d[i]) /\ \A i \in 1..n : r[a + i] = d[a + i]
      BY <2>6, <3>1, <3>3 DEF IsConcat, n
    <3>5. \A i \in 1..(a + n) : r[i] = d[i]
      <4> TAKE i \in 1..(a + n)
      <4>1. CASE i <= a
        <5>1. i \in 1..a
          BY <2>1, <2>5, <4>1
        <5> QED BY <3>4, <5>1
      <4>2. CASE ~(i <= a)
        <5>1. i - a \in 1..n /\ a + (i - a) = i
          BY <2>1, <2>5, <4>2
        <5>2. r[a + (i - a)] = d[a + (i - a)]
          BY <3>4, <5>1
        <5> QED BY <5>1, <5>2
      <4> QED BY <4>1, <4>2
    <3>6. r = w
      BY <3>2, <3>3, <3>4, <3>5, SeqEqual
    <3> QED BY <3>6 DEF r, u, w
  <2>13. at + Len(encode_block(c)) = 5 + st[k]
    <3>1. encode_block(c) = blocks[k] /\ st[k] = st[k - 1] + Len(blocks[k])
      BY <1>5, <1>6 DEF c
    <3>2. st[k - 1] \in Nat /\ st[k] \in Nat
      BY <1>5, <2>2
    <3>3. Len(blocks[k]) \in Nat
      <4>1. encode_block(c) \in Seq(Nat)
        BY <2>1, BlockLayout
      <4> QED BY <3>1, <4>1, LenProperties
    <3> QED BY <3>1, <3>2, <3>3, SMTT(60) DEF at
  <2> DEFINE acc == [pos |-> 5 + st[k - 1], out |-> pre(k - 1)]
  <2>14. acc.pos = at /\ acc.out = pre(k - 1)
    BY DEF at
  <2> HIDE DEF acc, pre
  <2>15. DecodeNext(buf, N, acc)
           = [pos |-> at + Len(encode_block(c)), out |-> pre(k - 1) \o c]
    <3> DEFINE blk == decode_block(buf, acc.pos, Min({Block, N - Len(acc.out)}))
    <3>1. Min({Block, N - Len(acc.out)}) = n
      BY <2>10, <2>11, <2>14
    <3>2. blk = [vals |-> c, pos |-> at + Len(encode_block(c))]
      BY <2>8, <2>14, <3>1
    <3>3. DecodeNext(buf, N, acc) = [pos |-> blk.pos, out |-> acc.out \o blk.vals]
      BY DEF DecodeNext
    <3> HIDE DEF blk
    <3>4. blk.pos = at + Len(encode_block(c)) /\ blk.vals = c
      BY <3>2
    <3> QED BY <2>14, <3>3, <3>4
  <2> QED BY <2>12, <2>13, <2>15 DEF acc
\* all of them
<1> DEFINE v(k) == [pos |-> 5 + st[k], out |-> pre(k)]
           E(f) == [k \in 0..K |->
                      IF k = 0 THEN [pos |-> 5, out |-> <<>>] ELSE DecodeNext(buf, N, f[k - 1])]
           c == CHOOSE f : f = E(f)
           w == [k \in 0..K |-> v(k)]
<1>9. decode(buf, N) = c[K].out
  BY DEF decode, K
<1>10. v(0) = [pos |-> 5, out |-> <<>>]
  <2>1. 0 \in 0..K
    BY <1>2
  <2>2. Len(pre(0)) = 0 /\ pre(0) \in Seq(Nat)
    <3>1. L(0) = 0
      BY <1>0, <1>1
    <3> QED BY <1>7, <2>1, <3>1
  <2> HIDE DEF pre
  <2>3. pre(0) = <<>>
    BY <2>2, EmptySeq
  <2>4. 5 + st[0] = 5
    BY <1>5
  <2> QED BY <2>3, <2>4
<1>11. \A k \in 1..K : DecodeNext(buf, N, v(k - 1)) = v(k)
  BY <1>8
<1> HIDE DEF v, pre, L
<1>12. \A k \in 0..K : k # 0 => k \in 1..K /\ k - 1 \in 0..K
  BY <1>2
<1>13. w = E(w)
  <2>1. \A k \in 0..K : w[k] = IF k = 0 THEN [pos |-> 5, out |-> <<>>] ELSE DecodeNext(buf, N, w[k - 1])
    BY <1>10, <1>11, <1>12
  <2> QED BY <2>1
<1>14. c = E(c)
  <2> HIDE DEF w
  <2> QED BY <1>13
<1>15. \A k \in 0..K : c[k] = IF k = 0 THEN [pos |-> 5, out |-> <<>>] ELSE DecodeNext(buf, N, c[k - 1])
  <2> HIDE DEF c
  <2> QED BY <1>14
<1> HIDE DEF c
<1> DEFINE G == {k \in 0..K : c[k] = v(k)}
<1>16. 0 \in G
  <2>1. 0 \in 0..K
    BY <1>2
  <2> QED BY <1>10, <1>15, <2>1
<1>17. ASSUME NEW k \in 1..K, k - 1 \in G PROVE k \in G
  <2>1. c[k - 1] = v(k - 1) /\ k \in 0..K /\ k # 0
    BY <1>2, <1>17
  <2>2. c[k] = DecodeNext(buf, N, c[k - 1])
    BY <1>15, <2>1
  <2> QED BY <1>11, <2>1, <2>2
<1> HIDE DEF G
<1>18. c[K] = v(K)
  <2>1. 0..K \subseteq G
    BY <1>2, <1>16, <1>17, Induction
  <2>2. K \in G
    BY <1>2, <2>1
  <2> QED BY <2>2 DEF G
<1>19. c[K].out = pre(K)
  BY <1>18 DEF v
<1>20. pre(K) = d
  <2>1. K \in 0..K
    BY <1>2
  <2>2. L(K) = N
    <3>1. Block * K \in Nat
      BY <1>0, <1>2
    <3> QED BY <1>1, <1>2, <3>1 DEF L
  <2>3. pre(K) \in Seq(Nat) /\ Len(pre(K)) = N /\ \A i \in 1..N : pre(K)[i] = d[i]
    BY <1>7, <2>1, <2>2
  <2> QED BY <2>3, SeqEqual DEF N
<1> QED BY <1>9, <1>19, <1>20 DEF N, buf

------------------------------
(* The Robin Hood table *)

\* Wrapping around once.
LEMMA WrapOnce ==
    ASSUME NEW s \in Nat \ {0}, NEW x \in 0..(2 * s - 1)
    PROVE  x % s = IF x < s THEN x ELSE x - s
<1> DEFINE q == x \div s  r == x % s
<1>1. q \in Nat /\ r \in 0..(s - 1) /\ x = s * q + r
  <2>1. x \in Nat
    OBVIOUS
  <2> QED BY <2>1, Division
<1> HIDE DEF q, r
<1>2. q = 0 \/ q = 1
  <2>1. ASSUME q >= 2 PROVE FALSE
    <3>1. PICK z \in Nat : q = 2 + z
      <4>1. q - 2 \in Nat /\ q = 2 + (q - 2)
        BY <1>1, <2>1
      <4> QED BY <4>1
    <3>2. s * q = 2 * s + s * z /\ s * z \in Nat
      BY <3>1
    <3> QED BY <1>1, <3>2
  <2> QED BY <1>1, <2>1
<1>3. CASE q = 0
  BY <1>1, <1>3 DEF r
<1>4. CASE q = 1
  BY <1>1, <1>4 DEF r
<1> QED BY <1>2, <1>3, <1>4

\* The home slot of a key in a table of s slots.
Home(h, key, s) == h[key] % s

\* Probe slots and probe lengths, as sums that wrap around at most once.
IsProbing(h, key, s) ==
    /\ Home(h, key, s) \in 0..(s - 1)
    /\ \A p \in 0..s : ProbeSlot(h, key, p, s) =
           IF Home(h, key, s) + p < s THEN Home(h, key, s) + p ELSE Home(h, key, s) + p - s
    /\ \A i \in 0..(s - 1) : ProbeLength(h, key, i, s) =
           IF i < Home(h, key, s) THEN i + s - Home(h, key, s) ELSE i - Home(h, key, s)

\* The code's modular arithmetic is that of a circle of slots.
LEMMA Probing ==
    ASSUME NEW h, NEW key, h[key] \in Nat, NEW s \in Nat \ {0}
    PROVE  IsProbing(h, key, s)
<1> DEFINE a == h[key] % s
<1>1. a \in 0..(s - 1)
  OBVIOUS
<1>2. ASSUME NEW p \in 0..s PROVE ProbeSlot(h, key, p, s) = IF a + p < s THEN a + p ELSE a + p - s
  <2> DEFINE x == a + p
  <2>1. x \in 0..(2 * s - 1)
    BY <1>1
  <2>2. ProbeSlot(h, key, p, s) = x % s
    BY DEF ProbeSlot
  <2> HIDE DEF x
  <2>3. x % s = IF x < s THEN x ELSE x - s
    BY <2>1, WrapOnce
  <2> QED BY <2>2, <2>3 DEF x
<1>3. ASSUME NEW i \in 0..(s - 1)
      PROVE  ProbeLength(h, key, i, s) = IF i < a THEN i + s - a ELSE i - a
  <2> DEFINE x == i + s - a
  <2>1. x \in 0..(2 * s - 1)
    BY <1>1
  <2>2. ProbeLength(h, key, i, s) = x % s
    BY DEF ProbeLength
  <2>3. (x < s <=> i < a) /\ x - s = i - a
    BY <1>1
  <2> HIDE DEF x
  <2>4. x % s = IF x < s THEN x ELSE x - s
    BY <2>1, WrapOnce
  <2>5. ProbeLength(h, key, i, s) = IF i < a THEN x ELSE i - a
    BY <2>2, <2>3, <2>4
  <2> QED BY <2>5 DEF x
<1> QED BY <1>1, <1>2, <1>3 DEF IsProbing, Home

\* Probe slots and probe lengths are inverse to each other.
LEMMA ProbeInverse ==
    ASSUME NEW h, NEW key, NEW s \in Nat \ {0}, IsProbing(h, key, s)
    PROVE  /\ \A i \in 0..(s - 1) : /\ ProbeLength(h, key, i, s) \in 0..(s - 1)
                                    /\ ProbeSlot(h, key, ProbeLength(h, key, i, s), s) = i
           /\ \A p \in 0..(s - 1) : /\ ProbeSlot(h, key, p, s) \in 0..(s - 1)
                                    /\ ProbeLength(h, key, ProbeSlot(h, key, p, s), s) = p
<1> DEFINE a == Home(h, key, s)
<1>1. /\ a \in 0..(s - 1)
      /\ \A p \in 0..s : ProbeSlot(h, key, p, s) = IF a + p < s THEN a + p ELSE a + p - s
      /\ \A i \in 0..(s - 1) : ProbeLength(h, key, i, s) = IF i < a THEN i + s - a ELSE i - a
  BY DEF IsProbing
<1> HIDE DEF a
<1>2. ASSUME NEW i \in 0..(s - 1)
      PROVE  ProbeLength(h, key, i, s) \in 0..(s - 1) /\ ProbeSlot(h, key, ProbeLength(h, key, i, s), s) = i
  <2> DEFINE d == ProbeLength(h, key, i, s)
  <2>1. d = IF i < a THEN i + s - a ELSE i - a
    BY <1>1
  <2> HIDE DEF d
  <2>2. d \in 0..(s - 1) /\ d \in 0..s
    BY <1>1, <2>1
  <2>3. ProbeSlot(h, key, d, s) = IF a + d < s THEN a + d ELSE a + d - s
    BY <1>1, <2>2
  <2>4. ProbeSlot(h, key, d, s) = i
    BY <1>1, <2>1, <2>3
  <2> QED BY <2>2, <2>4 DEF d
<1>3. ASSUME NEW p \in 0..(s - 1)
      PROVE  ProbeSlot(h, key, p, s) \in 0..(s - 1) /\ ProbeLength(h, key, ProbeSlot(h, key, p, s), s) = p
  <2> DEFINE i == ProbeSlot(h, key, p, s)
  <2>0. p \in 0..s
    OBVIOUS
  <2>1. i = IF a + p < s THEN a + p ELSE a + p - s
    BY <1>1, <2>0
  <2> HIDE DEF i
  <2>2. i \in 0..(s - 1)
    BY <1>1, <2>1
  <2>3. ProbeLength(h, key, i, s) = IF i < a THEN i + s - a ELSE i - a
    BY <1>1, <2>2
  <2>4. ProbeLength(h, key, i, s) = p
    BY <1>1, <2>1, <2>3
  <2> QED BY <2>2, <2>4 DEF i
<1> QED BY <1>2, <1>3

\* One slot further the probe is one longer.
LEMMA ProbeStep ==
    ASSUME NEW h, NEW key, NEW s \in Nat \ {0}, IsProbing(h, key, s), NEW i \in 0..(s - 1),
           ProbeLength(h, key, i, s) + 1 < s
    PROVE  ProbeLength(h, key, (i + 1) % s, s) = ProbeLength(h, key, i, s) + 1
<1> DEFINE a == Home(h, key, s)
           j == (i + 1) % s
<1>1. /\ a \in 0..(s - 1)
      /\ \A x \in 0..(s - 1) : ProbeLength(h, key, x, s) = IF x < a THEN x + s - a ELSE x - a
  BY DEF IsProbing
<1> HIDE DEF a
<1>2. j = IF i + 1 < s THEN i + 1 ELSE i + 1 - s
  <2> DEFINE x == i + 1
  <2>1. x \in 0..(2 * s - 1)
    OBVIOUS
  <2> HIDE DEF x
  <2>2. x % s = IF x < s THEN x ELSE x - s
    BY <2>1, WrapOnce
  <2> QED BY <2>2 DEF x
<1> HIDE DEF j
<1>3. j \in 0..(s - 1)
  BY <1>2
<1> DEFINE d == ProbeLength(h, key, i, s)
<1>4. d = (IF i < a THEN i + s - a ELSE i - a) /\ d + 1 < s
  BY <1>1
<1>5. ProbeLength(h, key, j, s) = IF j < a THEN j + s - a ELSE j - a
  BY <1>1, <1>3
<1> HIDE DEF d
<1>6. ProbeLength(h, key, j, s) = d + 1
  BY <1>1, <1>2, <1>4, <1>5
<1> QED BY <1>6 DEF j, d

\* The same table with e in slot x.
With(table, n, x, e) == [i \in 1..n |-> IF i = x + 1 THEN e ELSE table[i]]

\* Writing a slot changes that slot.
LEMMA WriteSlot ==
    ASSUME NEW C, NEW n \in Nat, NEW table \in [1..n -> C], NEW idx \in 0..(n - 1), NEW e \in C
    PROVE  write_slot(table, idx, e) = With(table, n, idx, e)
<1> DEFINE u == SubSeq(table, 1, idx)
           w == SubSeq(table, idx + 2, n)
           m == <<e>>
           a == u \o m
           r == a \o w
<1>1. table \in Seq(C) /\ Len(table) = n
  BY SeqOver
<1>2. write_slot(table, idx, e) = r
  BY <1>1 DEF write_slot
<1>3. u \in Seq(C) /\ Len(u) = idx /\ \A i \in 1..idx : u[i] = table[i]
  <2>1. \A i \in 1..idx : table[i] \in C
    OBVIOUS
  <2>2. 1 \in 1..(Len(table) + 1) /\ idx \in 0..Len(table) /\ idx \in Int /\ 1 \in Int
    BY <1>1
  <2>3. /\ u \in Seq(C)
        /\ Len(u) = IF 1 <= idx THEN idx - 1 + 1 ELSE 0
        /\ \A i \in 1..(idx - 1 + 1) : u[i] = table[1 + i - 1]
    BY <1>1, <2>1, <2>2, SubSeqProperties, SMTT(60)
  <2>4. idx - 1 + 1 = idx /\ \A i \in 1..idx : 1 + i - 1 = i
    OBVIOUS
  <2> HIDE DEF u
  <2> QED BY <2>2, <2>3, <2>4
<1>4. w \in Seq(C) /\ Len(w) = n - idx - 1 /\ \A i \in 1..(n - idx - 1) : w[i] = table[idx + 1 + i]
  <2>1. \A i \in (idx + 2)..n : table[i] \in C
    OBVIOUS
  <2>2. idx + 2 \in Int /\ n \in Int
    OBVIOUS
  <2>3. /\ w \in Seq(C)
        /\ Len(w) = IF idx + 2 <= n THEN n - (idx + 2) + 1 ELSE 0
        /\ \A i \in 1..(n - (idx + 2) + 1) : w[i] = table[(idx + 2) + i - 1]
    BY <1>1, <2>1, <2>2, SubSeqProperties
  <2>4. n - (idx + 2) + 1 = n - idx - 1 /\ \A i \in 1..(n - idx - 1) : (idx + 2) + i - 1 = idx + 1 + i
    OBVIOUS
  <2> HIDE DEF w
  <2>5. Len(w) = n - idx - 1
    BY <2>3
  <2> QED BY <2>3, <2>4, <2>5
<1>5. m \in Seq(C) /\ Len(m) = 1 /\ m[1] = e
  OBVIOUS
<1>6. C \cup C = C
  OBVIOUS
<1> HIDE DEF u, w, m
<1>7. a \in Seq(C) /\ IsConcat(a, u, m)
  <2>1. a \in Seq(C \cup C) /\ IsConcat(a, u, m)
    BY <1>3, <1>5, Concat
  <2> HIDE DEF a
  <2> QED BY <1>6, <2>1
<1> HIDE DEF a
<1>8. r \in Seq(C) /\ IsConcat(r, a, w)
  <2>1. r \in Seq(C \cup C) /\ IsConcat(r, a, w)
    BY <1>4, <1>7, Concat
  <2> HIDE DEF r
  <2> QED BY <1>6, <2>1
<1> HIDE DEF r
<1>9. Len(a) = idx + 1 /\ (\A i \in 1..idx : a[i] = table[i]) /\ a[idx + 1] = e
  BY <1>3, <1>5, <1>7 DEF IsConcat
<1>10. /\ Len(r) = n
       /\ \A i \in 1..(idx + 1) : r[i] = a[i]
       /\ \A i \in 1..(n - idx - 1) : r[(idx + 1) + i] = table[idx + 1 + i]
  <2>1. Len(r) = (idx + 1) + (n - idx - 1)
    BY <1>4, <1>8, <1>9 DEF IsConcat
  <2>2. \A i \in 1..(n - idx - 1) : r[(idx + 1) + i] = w[i]
    BY <1>4, <1>8, <1>9 DEF IsConcat
  <2>3. \A i \in 1..(idx + 1) : r[i] = a[i]
    BY <1>8, <1>9 DEF IsConcat
  <2>4. Len(r) = n
    BY <2>1
  <2>5. \A i \in 1..(n - idx - 1) : r[(idx + 1) + i] = table[idx + 1 + i]
    BY <1>4, <2>2
  <2> QED BY <2>3, <2>4, <2>5
<1> DEFINE z == [i \in 1..n |-> IF i = idx + 1 THEN e ELSE table[i]]
<1>11. ASSUME NEW i \in 1..n PROVE r[i] = IF i = idx + 1 THEN e ELSE table[i]
  <2>1. CASE i <= idx + 1
    <3>1. i \in 1..(idx + 1) /\ (i # idx + 1 => i \in 1..idx)
      BY <2>1
    <3> QED BY <1>9, <1>10, <3>1
  <2>2. CASE ~(i <= idx + 1)
    <3> DEFINE k == i - idx - 1
    <3>1. k \in 1..(n - idx - 1) /\ (idx + 1) + k = i /\ idx + 1 + k = i /\ i # idx + 1
      BY <2>2
    <3> HIDE DEF k
    <3>2. r[(idx + 1) + k] = table[idx + 1 + k]
      BY <1>10, <3>1
    <3> QED BY <3>1, <3>2
  <2> QED BY <2>1, <2>2
<1>12. r \in [1..n -> C]
  BY <1>8, <1>10, LenProperties
<1>13. r = z
  BY <1>11, <1>12
<1> QED BY <1>2, <1>13 DEF With

\* No slot that the first d probes for key look at would end a lookup.
SafeAt(h, table, n, key, p) ==
    LET j == ProbeSlot(h, key, p, n)
    IN  table[j + 1] # EmptySlot /\ p <= ProbeLength(h, table[j + 1].key, j, n)

Safe(h, table, n, key, d) == \A p \in 0..(d - 1) : SafeAt(h, table, n, key, p)

\* Every key in the table is found by probing, and is there once.
Sound(h, table, n) ==
    /\ \A i \in 0..(n - 1) : table[i + 1] # EmptySlot =>
           Safe(h, table, n, table[i + 1].key, ProbeLength(h, table[i + 1].key, i, n))
    /\ \A i, j \in 1..n : /\ table[i] # EmptySlot /\ table[j] # EmptySlot
                          /\ table[i].key = table[j].key
                          => i = j

\* The entries the table is filled with.
EntriesOk(h, Ent) == \A t \in Ent : t # EmptySlot /\ h[t.key] \in Nat

Cells(Ent) == Ent \cup {EmptySlot}
Has(table, n, t) == \E i \in 1..n : table[i] = t
SameEmpty(table, t0, n) == \A i \in 1..n : table[i] = EmptySlot <=> t0[i] = EmptySlot

\* e may take slot x: it is empty, or its entry is no further from home.
MayTake(h, table, n, x, e) ==
    table[x + 1] # EmptySlot =>
        ProbeLength(h, table[x + 1].key, x, n) <= ProbeLength(h, e.key, x, n)

\* A table in which e took slot x is as safe as it was.
LEMMA StaysSafe ==
    ASSUME NEW h, NEW Ent, EntriesOk(h, Ent), NEW n \in Nat \ {0}, NEW table \in [1..n -> Cells(Ent)],
           NEW x \in 0..(n - 1), NEW e \in Ent, MayTake(h, table, n, x, e),
           NEW key, h[key] \in Nat, NEW d \in 0..n, Safe(h, table, n, key, d)
    PROVE  Safe(h, With(table, n, x, e), n, key, d)
<1> DEFINE t2 == With(table, n, x, e)
<1>1. \A i \in 1..n : t2[i] = IF i = x + 1 THEN e ELSE table[i]
  BY DEF With
<1> HIDE DEF t2
<1>2. e # EmptySlot /\ h[e.key] \in Nat
  BY DEF EntriesOk
<1>3. IsProbing(h, key, n) /\ IsProbing(h, e.key, n)
  <2>1. IsProbing(h, key, n)
    BY Probing
  <2> DEFINE k == e.key
  <2>2. h[k] \in Nat
    BY <1>2
  <2> HIDE DEF k
  <2>3. IsProbing(h, k, n)
    BY <2>2, Probing
  <2> QED BY <2>1, <2>3 DEF k
<1>4. ASSUME NEW p \in 0..(d - 1)
      PROVE  SafeAt(h, t2, n, key, p)
  <2> DEFINE j == ProbeSlot(h, key, p, n)
  <2>1. j \in 0..(n - 1)
    <3>1. p \in 0..(n - 1)
      OBVIOUS
    <3> QED BY <1>3, <3>1, ProbeInverse
  <2>2. table[j + 1] # EmptySlot /\ p <= ProbeLength(h, table[j + 1].key, j, n)
    BY DEF Safe, SafeAt
  <2> HIDE DEF j
  <2>3. j + 1 \in 1..n
    BY <2>1
  <2>4. CASE j = x
    <3>1. t2[j + 1] = e
      BY <1>1, <2>3, <2>4
    <3> DEFINE pl == ProbeLength(h, table[j + 1].key, j, n)
               pe == ProbeLength(h, e.key, j, n)
    <3>2. p <= pl /\ pl <= pe
      BY <2>2, <2>4 DEF MayTake
    <3>3. pe \in Nat
      <4>1. pe \in 0..(n - 1)
        BY <1>3, <2>1, ProbeInverse
      <4> QED BY <4>1
    <3>4. pl \in Nat
      <4> DEFINE k == table[j + 1].key
      <4>1. table[j + 1] \in Ent
        BY <2>2, <2>3 DEF Cells
      <4>2. h[k] \in Nat
        BY <4>1 DEF EntriesOk
      <4> HIDE DEF k
      <4>3. IsProbing(h, k, n)
        BY <4>2, Probing
      <4>4. ProbeLength(h, k, j, n) \in 0..(n - 1)
        BY <2>1, <4>3, ProbeInverse
      <4> QED BY <4>4 DEF k
    <3> HIDE DEF pl, pe
    <3>5. p <= pe
      BY <3>2, <3>3, <3>4
    <3> QED BY <1>2, <3>1, <3>5 DEF pe, j, SafeAt
  <2>5. CASE j # x
    <3>1. t2[j + 1] = table[j + 1]
      <4>1. j + 1 # x + 1
        BY <2>1, <2>5
      <4> QED BY <1>1, <2>3, <4>1
    <3> QED BY <2>2, <3>1 DEF j, SafeAt
  <2> QED BY <2>4, <2>5
<1>5. Safe(h, t2, n, key, d)
  BY <1>4 DEF Safe
<1> QED BY <1>5 DEF t2

\* A probe path without an end passes every slot.
LEMMA SafeAllTheWay ==
    ASSUME NEW h, NEW n \in Nat \ {0}, NEW table, NEW key, h[key] \in Nat, Safe(h, table, n, key, n)
    PROVE  \A i \in 1..n : table[i] # EmptySlot
<1> TAKE i \in 1..n
<1> DEFINE j == i - 1
           p == ProbeLength(h, key, j, n)
<1>1. IsProbing(h, key, n)
  BY Probing
<1>2. j \in 0..(n - 1) /\ j + 1 = i
  OBVIOUS
<1> HIDE DEF j
<1>3. p \in 0..(n - 1) /\ ProbeSlot(h, key, p, n) = j
  BY <1>1, <1>2, ProbeInverse
<1> HIDE DEF p
<1> QED BY <1>2, <1>3 DEF Safe, SafeAt

\* Probe lengths of entries in their slots.
LEMMA LengthInTable ==
    ASSUME NEW h, NEW Ent, EntriesOk(h, Ent), NEW n \in Nat \ {0}, NEW e \in Ent, NEW i \in 0..(n - 1)
    PROVE  /\ IsProbing(h, e.key, n)
           /\ ProbeLength(h, e.key, i, n) \in 0..(n - 1)
           /\ ProbeSlot(h, e.key, ProbeLength(h, e.key, i, n), n) = i
<1> DEFINE k == e.key
<1>1. h[k] \in Nat
  BY DEF EntriesOk
<1> HIDE DEF k
<1>2. IsProbing(h, k, n)
  BY <1>1, Probing
<1>3. ProbeLength(h, k, i, n) \in 0..(n - 1) /\ ProbeSlot(h, k, ProbeLength(h, k, i, n), n) = i
  BY <1>2, ProbeInverse
<1> QED BY <1>2, <1>3 DEF k

\* A table in which e took slot x, its own keys apart from e's, is sound.
LEMMA StaysSound ==
    ASSUME NEW h, NEW Ent, EntriesOk(h, Ent), NEW n \in Nat \ {0}, NEW table \in [1..n -> Cells(Ent)],
           Sound(h, table, n),
           NEW x \in 0..(n - 1), NEW e \in Ent, MayTake(h, table, n, x, e),
           Safe(h, table, n, e.key, ProbeLength(h, e.key, x, n)),
           \A i \in 1..n : table[i] # EmptySlot => table[i].key # e.key
    PROVE  With(table, n, x, e) \in [1..n -> Cells(Ent)] /\ Sound(h, With(table, n, x, e), n)
<1> DEFINE t2 == With(table, n, x, e)
<1>1. t2 \in [1..n -> Cells(Ent)] /\ \A i \in 1..n : t2[i] = IF i = x + 1 THEN e ELSE table[i]
  BY DEF With, Cells
<1>2. ASSUME NEW i \in 0..(n - 1), t2[i + 1] # EmptySlot
      PROVE  Safe(h, t2, n, t2[i + 1].key, ProbeLength(h, t2[i + 1].key, i, n))
  <2> DEFINE a == t2[i + 1]  k == a.key  d == ProbeLength(h, k, i, n)
  <2>1. i + 1 \in 1..n
    OBVIOUS
  <2>2. a \in Ent
    BY <1>1, <1>2, <2>1 DEF Cells
  <2>3. d \in 0..(n - 1) /\ h[k] \in Nat
    BY <2>2, LengthInTable DEF EntriesOk
  <2>4. Safe(h, table, n, k, d)
    <3>1. CASE i = x
      <4>1. a = e
        BY <1>1, <2>1, <3>1
      <4> QED BY <3>1, <4>1
    <3>2. CASE i # x
      <4>1. i + 1 # x + 1
        BY <3>2
      <4>2. a = table[i + 1]
        BY <1>1, <2>1, <4>1
      <4> QED BY <1>2, <4>2 DEF Sound
    <3> QED BY <3>1, <3>2
  <2>5. d \in 0..n
    BY <2>3
  <2> HIDE DEF a, k, d, t2
  <2>6. Safe(h, t2, n, k, d)
    BY <2>3, <2>4, <2>5, StaysSafe DEF t2
  <2> QED BY <2>6 DEF a, k, d
<1>3. ASSUME NEW i \in 1..n, NEW j \in 1..n, t2[i] # EmptySlot, t2[j] # EmptySlot, t2[i].key = t2[j].key
      PROVE  i = j
  <2> HIDE DEF t2
  <2>1. CASE i = x + 1 /\ j # x + 1
    BY <1>1, <1>3, <2>1
  <2>2. CASE i # x + 1 /\ j = x + 1
    BY <1>1, <1>3, <2>2
  <2>3. CASE i # x + 1 /\ j # x + 1
    <3>1. t2[i] = table[i] /\ t2[j] = table[j]
      BY <1>1, <2>3
    <3> QED BY <1>3, <3>1 DEF Sound
  <2> QED BY <2>1, <2>2, <2>3
<1> HIDE DEF t2
<1>4. Sound(h, t2, n)
  BY <1>2, <1>3 DEF Sound
<1> QED BY <1>1, <1>4 DEF t2

\* The state of the insertion loop after p turns, for entry e0 and table t0.
PlaceState(Ent, n) ==
    [table : [1..n -> Cells(Ent)], idx : 0..(n - 1), e : Cells(Ent), probe : Nat]

Carries(h, table, n, e, idx, probe) ==
    /\ probe = ProbeLength(h, e.key, idx, n)
    /\ Safe(h, table, n, e.key, probe)
    /\ \A i \in 1..n : table[i] # EmptySlot => table[i].key # e.key

Filled(table, t0, n) ==
    \E x \in 1..n : t0[x] = EmptySlot /\ \A i \in 1..n : table[i] = EmptySlot <=> (t0[i] = EmptySlot /\ i # x)

Content(table, n, e, t0, e0, Ent) ==
    \A t \in Ent : (Has(table, n, t) \/ e = t) <=> (Has(t0, n, t) \/ t = e0)

Placing(h, Ent, n, t0, e0, p, st) ==
    /\ st \in PlaceState(Ent, n)
    /\ Sound(h, st.table, n)
    /\ Content(st.table, n, st.e, t0, e0, Ent)
    /\ st.e = EmptySlot => Filled(st.table, t0, n)
    /\ st.e # EmptySlot =>
          /\ Carries(h, st.table, n, st.e, st.idx, st.probe)
          /\ SameEmpty(st.table, t0, n)
          /\ st.idx = ProbeSlot(h, e0.key, p, n)
          /\ \A q \in 0..(p - 1) : t0[ProbeSlot(h, e0.key, q, n) + 1] # EmptySlot

\* The slot after the one of probe p - 1 is that of probe p.
LEMMA NextSlot ==
    ASSUME NEW h, NEW key, h[key] \in Nat, NEW n \in Nat \ {0}, NEW p \in 1..n
    PROVE  (ProbeSlot(h, key, p - 1, n) + 1) % n = ProbeSlot(h, key, p, n)
<1> DEFINE a == Home(h, key, n)
           i == ProbeSlot(h, key, p - 1, n)
<1>1. /\ a \in 0..(n - 1)
      /\ \A q \in 0..n : ProbeSlot(h, key, q, n) = IF a + q < n THEN a + q ELSE a + q - n
  BY Probing DEF IsProbing
<1> HIDE DEF a
<1>2. p - 1 \in 0..n /\ p \in 0..n
  OBVIOUS
<1>3. i = IF a + (p - 1) < n THEN a + (p - 1) ELSE a + (p - 1) - n
  BY <1>1, <1>2
<1>4. ProbeSlot(h, key, p, n) = IF a + p < n THEN a + p ELSE a + p - n
  BY <1>1, <1>2
<1> HIDE DEF i
<1> DEFINE x == i + 1
<1>5. x \in 0..(2 * n - 1)
  BY <1>1, <1>3
<1>6. x = IF a + (p - 1) < n THEN a + p ELSE a + p - n
  BY <1>1, <1>3
<1> HIDE DEF x
<1>7. x % n = IF x < n THEN x ELSE x - n
  BY <1>5, WrapOnce
<1>8. x % n = ProbeSlot(h, key, p, n)
  BY <1>1, <1>4, <1>6, <1>7
<1> QED BY <1>8 DEF x, i

\* e takes slot x, and what was there is carried on.
LEMMA TakesContent ==
    ASSUME NEW Ent, NEW n \in Nat \ {0}, NEW table \in [1..n -> Cells(Ent)], NEW t0, NEW e0,
           NEW x \in 0..(n - 1), NEW e \in Ent, EmptySlot \notin Ent,
           Content(table, n, e, t0, e0, Ent)
    PROVE  Content(With(table, n, x, e), n, table[x + 1], t0, e0, Ent)
<1> DEFINE t2 == With(table, n, x, e)
<1>1. \A i \in 1..n : t2[i] = IF i = x + 1 THEN e ELSE table[i]
  BY DEF With
<1> HIDE DEF t2
<1>2. x + 1 \in 1..n
  OBVIOUS
<1>3. ASSUME NEW t \in Ent PROVE (Has(t2, n, t) \/ table[x + 1] = t) <=> (Has(table, n, t) \/ e = t)
  BY <1>1, <1>2 DEF Has
<1>4. Content(t2, n, table[x + 1], t0, e0, Ent)
  BY <1>3 DEF Content
<1> QED BY <1>4 DEF t2

\* One turn of the loop.
LEMMA PlaceTurn ==
    ASSUME NEW h, NEW Ent, EntriesOk(h, Ent), NEW n \in Nat \ {0},
           NEW t0 \in [1..n -> Cells(Ent)], NEW e0 \in Ent, NEW p \in 1..n,
           NEW z \in 1..n, t0[z] = EmptySlot,
           NEW st, Placing(h, Ent, n, t0, e0, p - 1, st)
    PROVE  Placing(h, Ent, n, t0, e0, p, PlaceStep(h, st))
<1> DEFINE table == st.table  idx == st.idx  e == st.e  probe == st.probe
           r == PlaceStep(h, st)
<1>1. /\ st = [table |-> table, idx |-> idx, e |-> e, probe |-> probe]
      /\ table \in [1..n -> Cells(Ent)] /\ idx \in 0..(n - 1) /\ e \in Cells(Ent) /\ probe \in Nat
      /\ Sound(h, table, n) /\ Content(table, n, e, t0, e0, Ent)
  BY DEF Placing, PlaceState
<1>2. Len(table) = n
  BY <1>1, SeqOver
<1>3. CASE e = EmptySlot
  <2>1. r = st
    BY <1>3 DEF PlaceStep
  <2> QED BY <1>3, <2>1 DEF Placing
<1>4. CASE e # EmptySlot
  <2> DEFINE there == table[idx + 1]
             their == ProbeLength(h, there.key, idx, n)
             next == (idx + 1) % n
             t2 == With(table, n, idx, e)
  <2>1. /\ Carries(h, table, n, e, idx, probe) /\ SameEmpty(table, t0, n)
        /\ idx = ProbeSlot(h, e0.key, p - 1, n)
        /\ \A q \in 0..(p - 1 - 1) : t0[ProbeSlot(h, e0.key, q, n) + 1] # EmptySlot
    BY <1>4 DEF Placing
  <2>2. e \in Ent /\ h[e.key] \in Nat /\ h[e0.key] \in Nat /\ EmptySlot \notin Ent
    BY <1>1, <1>4 DEF Cells, EntriesOk
  <2>3. idx + 1 \in 1..n /\ there \in Cells(Ent)
    BY <1>1
  <2>4. r = IF there = EmptySlot
            THEN [table |-> write_slot(table, idx, e), idx |-> idx, e |-> EmptySlot, probe |-> probe]
            ELSE IF probe > their
            THEN [table |-> write_slot(table, idx, e), idx |-> next, e |-> there, probe |-> their + 1]
            ELSE [table |-> table, idx |-> next, e |-> e, probe |-> probe + 1]
    BY <1>2, <1>4 DEF PlaceStep
  <2>5. write_slot(table, idx, e) = t2
    <3>1. n \in Nat /\ e \in Cells(Ent)
      BY <1>1
    <3> HIDE DEF table, idx, e
    <3> QED BY <1>1, <3>1, WriteSlot
  <2>6. /\ probe = ProbeLength(h, e.key, idx, n)
        /\ Safe(h, table, n, e.key, probe)
        /\ \A i \in 1..n : table[i] # EmptySlot => table[i].key # e.key
    BY <2>1 DEF Carries
  <2>7. ASSUME MayTake(h, table, n, idx, e)
        PROVE  t2 \in [1..n -> Cells(Ent)] /\ Sound(h, t2, n)
    <3> HIDE DEF table, idx, e, probe
    <3> QED BY <1>1, <2>2, <2>6, <2>7, StaysSound
  <2>8. \A i \in 1..n : t2[i] = IF i = idx + 1 THEN e ELSE table[i]
    BY DEF With
  <2>9. Content(t2, n, there, t0, e0, Ent)
    <3> HIDE DEF table, idx, e, probe
    <3> QED BY <1>1, <2>2, TakesContent
  <2>10. next = ProbeSlot(h, e0.key, p, n) /\ next \in 0..(n - 1)
    <3> DEFINE k == e0.key
    <3>1. h[k] \in Nat
      BY <2>2
    <3> HIDE DEF k
    <3>2. (ProbeSlot(h, k, p - 1, n) + 1) % n = ProbeSlot(h, k, p, n)
      BY <3>1, NextSlot
    <3>3. next = ProbeSlot(h, k, p, n)
      BY <2>1, <3>2 DEF k
    <3>4. next \in 0..(n - 1)
      <4>1. idx + 1 \in Nat
        BY <1>1
      <4> HIDE DEF idx
      <4> QED BY <4>1
    <3> QED BY <3>3, <3>4 DEF k
  <2>11. table[z] = EmptySlot
    BY <2>1 DEF SameEmpty
  <2>12. CASE there = EmptySlot
    <3>1. r = [table |-> t2, idx |-> idx, e |-> EmptySlot, probe |-> probe]
      BY <2>4, <2>5, <2>12
    <3>2. t2 \in [1..n -> Cells(Ent)] /\ Sound(h, t2, n)
      BY <2>7, <2>12 DEF MayTake
    <3>3. Filled(t2, t0, n)
      <4>1. t0[idx + 1] = EmptySlot
        BY <2>1, <2>3, <2>12 DEF SameEmpty
      <4>2. \A i \in 1..n : t2[i] = EmptySlot <=> (t0[i] = EmptySlot /\ i # idx + 1)
        BY <1>4, <2>1, <2>8 DEF SameEmpty
      <4> QED BY <2>3, <4>1, <4>2 DEF Filled
    <3>4. r \in PlaceState(Ent, n)
      BY <1>1, <3>1, <3>2 DEF PlaceState, Cells
    <3>5. r.table = t2 /\ r.e = EmptySlot /\ Content(t2, n, EmptySlot, t0, e0, Ent)
      BY <2>9, <2>12, <3>1
    <3> HIDE DEF r, t2, table, idx, e, probe
    <3>6. Placing(h, Ent, n, t0, e0, p, r)
      BY <3>2, <3>3, <3>4, <3>5 DEF Placing
    <3> QED BY <3>6 DEF r
  <2>13. CASE there # EmptySlot
    <3>1. there \in Ent /\ their \in 0..(n - 1) /\ IsProbing(h, there.key, n) /\ h[there.key] \in Nat
      <4>1. there \in Ent
        BY <2>3, <2>13 DEF Cells
      <4> DEFINE u == there
      <4>2. u \in Ent
        BY <4>1
      <4> HIDE DEF u
      <4>3. IsProbing(h, u.key, n) /\ ProbeLength(h, u.key, idx, n) \in 0..(n - 1) /\ h[u.key] \in Nat
        <5> HIDE DEF idx
        <5> QED BY <1>1, <4>2, LengthInTable DEF EntriesOk
      <4> QED BY <4>1, <4>3 DEF u
    <3>2. \A q \in 0..(p - 1) : t0[ProbeSlot(h, e0.key, q, n) + 1] # EmptySlot
      <4> TAKE q \in 0..(p - 1)
      <4>1. CASE q = p - 1
        BY <2>1, <2>3, <2>13, <4>1 DEF SameEmpty
      <4>2. CASE q # p - 1
        <5>1. q \in 0..(p - 1 - 1)
          BY <4>2
        <5> QED BY <2>1, <5>1
      <4> QED BY <4>1, <4>2
    <3>3. probe \in 0..(n - 1) /\ IsProbing(h, e.key, n)
      <4> HIDE DEF idx, e, probe
      <4> QED BY <1>1, <2>2, <2>6, LengthInTable
    <3>4. CASE probe > their
      <4>1. MayTake(h, table, n, idx, e)
        <5>1. their <= probe
          BY <1>1, <3>1, <3>4
        <5> QED BY <2>6, <5>1 DEF MayTake
      <4>2. t2 \in [1..n -> Cells(Ent)] /\ Sound(h, t2, n)
        BY <2>7, <4>1
      <4>3. r = [table |-> t2, idx |-> next, e |-> there, probe |-> their + 1]
        BY <2>4, <2>5, <2>13, <3>4
      <4>4. SameEmpty(t2, t0, n)
        BY <1>4, <2>1, <2>3, <2>8, <2>13 DEF SameEmpty
      <4>5. Safe(h, t2, n, there.key, their + 1)
        <5>1. Safe(h, t2, n, there.key, their)
          <6> DEFINE k == there.key
          <6>1. Safe(h, table, n, k, their)
            BY <1>1, <2>13 DEF Sound
          <6>2. h[k] \in Nat /\ their \in 0..n
            BY <3>1
          <6> HIDE DEF k, their, table, idx, e, probe
          <6>3. Safe(h, t2, n, k, their)
            BY <1>1, <2>2, <4>1, <6>1, <6>2, StaysSafe
          <6> QED BY <6>3 DEF k
        <5>2. ProbeSlot(h, there.key, their, n) = idx
          <6> DEFINE u == there
          <6>1. u \in Ent
            BY <3>1
          <6> HIDE DEF u, idx
          <6>2. ProbeSlot(h, u.key, ProbeLength(h, u.key, idx, n), n) = idx
            BY <1>1, <6>1, LengthInTable
          <6> QED BY <6>2 DEF u
        <5>3. t2[idx + 1] = e
          BY <2>3, <2>8, SMTT(60)
        <5> DEFINE k == there.key  d == their
        <5>4. /\ d \in Nat /\ Safe(h, t2, n, k, d) /\ ProbeSlot(h, k, d, n) = idx
              /\ d <= ProbeLength(h, e.key, idx, n)
          BY <1>1, <2>6, <3>1, <3>4, <5>1, <5>2
        <5> HIDE DEF k, d, t2, e, idx
        <5>5. \A q \in 0..d : SafeAt(h, t2, n, k, q)
          <6> TAKE q \in 0..d
          <6>1. CASE q = d
            BY <1>4, <5>3, <5>4, <6>1 DEF SafeAt
          <6>2. CASE q # d
            <7>1. q \in 0..(d - 1)
              BY <5>4, <6>2
            <7> QED BY <5>4, <7>1 DEF Safe
          <6> QED BY <6>1, <6>2
        <5>6. Safe(h, t2, n, k, d + 1)
          <6>1. 0..((d + 1) - 1) = 0..d
            BY <5>4
          <6>2. \A q \in 0..((d + 1) - 1) : SafeAt(h, t2, n, k, q)
            BY <5>5, <6>1
          <6> QED BY <6>2 DEF Safe
        <5> QED BY <5>6 DEF k, d
      <4>6. their + 1 < n
        <5>1. ASSUME their + 1 = n PROVE FALSE
          <6> DEFINE k == there.key
          <6>1. Safe(h, t2, n, k, n) /\ h[k] \in Nat
            BY <3>1, <4>5, <5>1
          <6> HIDE DEF k, t2, table, idx, e, probe
          <6>2. \A i \in 1..n : t2[i] # EmptySlot
            BY <6>1, SafeAllTheWay
          <6> QED BY <4>4, <6>2 DEF SameEmpty
        <5> QED BY <3>1, <5>1
      <4>7. their + 1 = ProbeLength(h, there.key, next, n)
        <5> DEFINE k == there.key
        <5>1. IsProbing(h, k, n) /\ ProbeLength(h, k, idx, n) + 1 < n
          BY <3>1, <4>6
        <5> HIDE DEF k, idx
        <5>2. ProbeLength(h, k, (idx + 1) % n, n) = ProbeLength(h, k, idx, n) + 1
          BY <1>1, <5>1, ProbeStep
        <5> QED BY <5>2 DEF k
      <4>8. \A i \in 1..n : t2[i] # EmptySlot => t2[i].key # there.key
        <5> TAKE i \in 1..n
        <5>1. CASE i = idx + 1
          <6>1. t2[i] = e
            BY <2>8, <5>1
          <6>2. there.key # e.key
            BY <2>3, <2>6, <2>13
          <6> QED BY <6>1, <6>2
        <5>2. CASE i # idx + 1
          <6>1. t2[i] = table[i]
            BY <2>8, <5>2
          <6>2. table[i] # EmptySlot /\ table[i].key = there.key => i = idx + 1
            BY <1>1, <2>3, <2>13 DEF Sound
          <6> HIDE DEF t2, table, idx
          <6> QED BY <5>2, <6>1, <6>2
        <5> QED BY <5>1, <5>2
      <4>9. Carries(h, t2, n, there, next, their + 1)
        BY <4>5, <4>7, <4>8 DEF Carries
      <4>10. r \in PlaceState(Ent, n)
        <5>1. their + 1 \in Nat
          BY <3>1
        <5> HIDE DEF t2, next, table, idx, e, probe, r, their
        <5> QED BY <2>3, <2>10, <4>2, <4>3, <5>1 DEF PlaceState
      <4>11. r.table = t2 /\ r.idx = next /\ r.e = there /\ r.probe = their + 1
        <5> HIDE DEF t2, next, table, idx, e, probe, their
        <5> QED BY <4>3
      <4> HIDE DEF r, t2, next, table, idx, e, probe, their
      <4>12. Placing(h, Ent, n, t0, e0, p, r)
        BY <2>9, <2>10, <2>13, <3>2, <4>2, <4>4, <4>9, <4>10, <4>11 DEF Placing
      <4> QED BY <4>12 DEF r
    <3>5. CASE ~(probe > their)
      <4>1. r = [table |-> table, idx |-> next, e |-> e, probe |-> probe + 1]
        BY <2>4, <2>13, <3>5
      <4>2. Safe(h, table, n, e.key, probe + 1)
        <5>1. ProbeSlot(h, e.key, probe, n) = idx
          <6> HIDE DEF e, idx, probe
          <6> QED BY <1>1, <2>2, <2>6, LengthInTable
        <5> DEFINE k == e.key
        <5>2. /\ Safe(h, table, n, k, probe) /\ ProbeSlot(h, k, probe, n) = idx
              /\ probe <= ProbeLength(h, table[idx + 1].key, idx, n)
          BY <1>1, <2>6, <3>1, <3>5, <5>1
        <5>3. table[idx + 1] # EmptySlot /\ probe \in Nat
          BY <1>1, <2>13
        <5> HIDE DEF k, table, idx, probe
        <5>4. \A q \in 0..probe : SafeAt(h, table, n, k, q)
          <6> TAKE q \in 0..probe
          <6>1. CASE q = probe
            BY <5>2, <5>3, <6>1 DEF SafeAt
          <6>2. CASE q # probe
            <7>1. q \in 0..(probe - 1)
              BY <5>3, <6>2
            <7> QED BY <5>2, <7>1 DEF Safe
          <6> QED BY <6>1, <6>2
        <5>5. Safe(h, table, n, k, probe + 1)
          <6>1. 0..((probe + 1) - 1) = 0..probe
            BY <5>3
          <6>2. \A q \in 0..((probe + 1) - 1) : SafeAt(h, table, n, k, q)
            BY <5>4, <6>1
          <6> QED BY <6>2 DEF Safe
        <5> QED BY <5>5 DEF k
      <4>3. probe + 1 < n
        <5>1. ASSUME probe + 1 = n PROVE FALSE
          <6> DEFINE k == e.key
          <6>1. Safe(h, table, n, k, n) /\ h[k] \in Nat
            BY <2>2, <4>2, <5>1
          <6> HIDE DEF k, table, probe
          <6>2. \A i \in 1..n : table[i] # EmptySlot
            BY <6>1, SafeAllTheWay
          <6> QED BY <2>11, <6>2
        <5> QED BY <3>3, <5>1
      <4>4. probe + 1 = ProbeLength(h, e.key, next, n)
        <5> DEFINE k == e.key
        <5>1. IsProbing(h, k, n) /\ ProbeLength(h, k, idx, n) = probe
          BY <2>6, <3>3
        <5> HIDE DEF k, idx, probe
        <5>2. ProbeLength(h, k, (idx + 1) % n, n) = ProbeLength(h, k, idx, n) + 1
          BY <1>1, <4>3, <5>1, ProbeStep
        <5> QED BY <5>1, <5>2 DEF k
      <4>5. Carries(h, table, n, e, next, probe + 1)
        BY <2>6, <4>2, <4>4 DEF Carries
      <4>6. r \in PlaceState(Ent, n)
        <5>1. probe + 1 \in Nat
          BY <1>1
        <5> HIDE DEF next, table, idx, e, probe, r
        <5> QED BY <1>1, <2>10, <4>1, <5>1 DEF PlaceState
      <4>7. r.table = table /\ r.idx = next /\ r.e = e /\ r.probe = probe + 1
        <5> HIDE DEF next, table, idx, e, probe
        <5> QED BY <4>1
      <4> HIDE DEF r, next, table, idx, e, probe
      <4>8. Placing(h, Ent, n, t0, e0, p, r)
        BY <1>1, <1>4, <2>1, <2>10, <3>2, <4>5, <4>6, <4>7 DEF Placing
      <4> QED BY <4>8 DEF r
    <3> QED BY <3>4, <3>5
  <2> QED BY <2>12, <2>13
<1> QED BY <1>3, <1>4

\* A function that starts like g and follows its steps is g.
LEMMA FollowsRun ==
    ASSUME NEW n \in Nat, NEW g, NEW c, c[0] = g[0], \A i \in 1..n : c[i - 1] = g[i - 1] => c[i] = g[i]
    PROVE  c[n] = g[n]
<1> DEFINE G == {i \in 0..n : c[i] = g[i]}
<1>1. 0 \in G
  OBVIOUS
<1>2. ASSUME NEW i \in 1..n, i - 1 \in G PROVE i \in G
  BY <1>2
<1> HIDE DEF G
<1>3. 0..n \subseteq G
  BY <1>1, <1>2, Induction
<1>4. n \in G
  BY <1>3
<1> QED BY <1>4 DEF G

\* What inserting e0 into t0 gives.
Placed(h, Ent, n, t0, e0, t) ==
    /\ t \in [1..n -> Cells(Ent)] /\ Sound(h, t, n) /\ Filled(t, t0, n)
    /\ \A u \in Ent : Has(t, n, u) <=> (Has(t0, n, u) \/ u = e0)

\* Inserting one entry keeps the table sound and adds exactly that entry.
LEMMA PlaceEntry ==
    ASSUME NEW h, NEW Ent, EntriesOk(h, Ent), NEW n \in Nat \ {0},
           NEW t0 \in [1..n -> Cells(Ent)], Sound(h, t0, n), NEW e0 \in Ent,
           NEW z \in 1..n, t0[z] = EmptySlot,
           \A i \in 1..n : t0[i] # EmptySlot => t0[i].key # e0.key
    PROVE  Placed(h, Ent, n, t0, e0, Place(h, t0, e0))
<1> DEFINE X == PlaceState(Ent, n)
           F == [p \in 1..n |-> [s \in X |-> IF PlaceStep(h, s) \in X THEN PlaceStep(h, s) ELSE s]]
           s0 == [table |-> t0, idx |-> h[e0.key] % n, e |-> e0, probe |-> 0]
           P(p, s) == Placing(h, Ent, n, t0, e0, p, s)
<1>1. n \in Nat /\ Len(t0) = n
  <2>1. n \in Nat /\ t0 \in [1..n -> Cells(Ent)]
    OBVIOUS
  <2> QED BY <2>1, SeqOver
<1>2. h[e0.key] \in Nat /\ e0 # EmptySlot /\ EmptySlot \notin Ent
  BY DEF EntriesOk
<1>3. IsProbing(h, e0.key, n)
  <2> DEFINE k == e0.key
  <2>1. h[k] \in Nat
    BY <1>2
  <2> HIDE DEF k
  <2>2. IsProbing(h, k, n)
    BY <2>1, Probing
  <2> QED BY <2>2 DEF k
<1>4. P(0, s0)
  <2> DEFINE a == h[e0.key] % n
  <2>1. a = Home(h, e0.key, n) /\ a \in 0..(n - 1)
    BY <1>3 DEF Home, IsProbing
  <2>2. ProbeSlot(h, e0.key, 0, n) = a /\ ProbeLength(h, e0.key, a, n) = 0
    <3>1. 0 \in 0..n
      OBVIOUS
    <3>2. ProbeSlot(h, e0.key, 0, n) = IF a + 0 < n THEN a + 0 ELSE a + 0 - n
      BY <1>3, <2>1, <3>1 DEF IsProbing
    <3>3. ProbeLength(h, e0.key, a, n) = IF a < a THEN a + n - a ELSE a - a
      BY <1>3, <2>1 DEF IsProbing
    <3> HIDE DEF a
    <3> QED BY <2>1, <3>2, <3>3
  <2> HIDE DEF a
  <2>3. s0 = [table |-> t0, idx |-> a, e |-> e0, probe |-> 0]
    BY DEF a
  <2> HIDE DEF s0
  <2>4. s0.table = t0 /\ s0.idx = a /\ s0.e = e0 /\ s0.probe = 0
    BY <2>3
  <2>5. s0 \in PlaceState(Ent, n)
    BY <2>1, <2>3 DEF PlaceState, Cells
  <2>6. Safe(h, t0, n, e0.key, 0)
    BY DEF Safe
  <2>7. Carries(h, t0, n, e0, a, 0)
    BY <2>2, <2>6 DEF Carries
  <2>8. Content(t0, n, e0, t0, e0, Ent) /\ SameEmpty(t0, t0, n)
    BY DEF Content, SameEmpty
  <2>9. \A q \in 0..(0 - 1) : t0[ProbeSlot(h, e0.key, q, n) + 1] # EmptySlot
    OBVIOUS
  <2> QED BY <1>2, <2>2, <2>4, <2>5, <2>7, <2>8, <2>9 DEF Placing
<1> HIDE DEF s0
<1>5. ASSUME NEW p \in 1..n, NEW s, P(p - 1, s) PROVE P(p, PlaceStep(h, s))
  BY <1>5, PlaceTurn
<1>6. \A p, s : P(p, s) => s \in X
  BY DEF Placing
<1> HIDE DEF P
<1>7. F \in [1..n -> [X -> X]]
  OBVIOUS
<1>8. \A p \in 1..n, s \in X : F[p][s] = IF PlaceStep(h, s) \in X THEN PlaceStep(h, s) ELSE s
  OBVIOUS
<1> HIDE DEF F, X
<1>9. PICK g : Run(g, n, X, s0, F)
  BY <1>1, <1>4, <1>6, <1>7, Recursion
<1>10. g \in [0..n -> X] /\ g[0] = s0 /\ \A p \in 1..n : g[p] = F[p][g[p - 1]]
  BY <1>9 DEF Run
<1> DEFINE G == {p \in 0..n : P(p, g[p]) /\ (p # 0 => g[p] = PlaceStep(h, g[p - 1]))}
<1>11. 0 \in G
  BY <1>4, <1>10
<1>12. ASSUME NEW p \in 1..n, p - 1 \in G PROVE p \in G
  <2>1. P(p - 1, g[p - 1])
    BY <1>12
  <2>2. P(p, PlaceStep(h, g[p - 1]))
    BY <1>5, <2>1
  <2>3. g[p - 1] \in X /\ PlaceStep(h, g[p - 1]) \in X
    BY <1>6, <2>1, <2>2
  <2>4. g[p] = PlaceStep(h, g[p - 1])
    BY <1>8, <1>10, <2>3
  <2> QED BY <2>2, <2>4
<1> HIDE DEF G
<1>13. 0..n \subseteq G
  BY <1>1, <1>11, <1>12, Induction
<1>14. \A p \in 0..n : P(p, g[p]) /\ (p # 0 => g[p] = PlaceStep(h, g[p - 1]))
  BY <1>13 DEF G
<1> DEFINE E(f) == [p \in 0..n |-> IF p = 0 THEN s0 ELSE PlaceStep(h, f[p - 1])]
           c == CHOOSE f : f = E(f)
<1>15. Place(h, t0, e0) = c[n].table
  BY <1>1 DEF Place, s0
<1>16. g = E(g)
  <2>1. \A p \in 0..n : g[p] = IF p = 0 THEN s0 ELSE PlaceStep(h, g[p - 1])
    BY <1>10, <1>14
  <2> QED BY <1>10, <2>1
<1>17. c = E(c)
  BY <1>16
<1>18. \A p \in 0..n : c[p] = IF p = 0 THEN s0 ELSE PlaceStep(h, c[p - 1])
  <2> HIDE DEF c
  <2> QED BY <1>17
<1> HIDE DEF c
<1>19. c[n] = g[n]
  <2>1. c[0] = g[0]
    <3>1. 0 \in 0..n
      OBVIOUS
    <3> QED BY <1>10, <1>18, <3>1
  <2>2. ASSUME NEW i \in 1..n, c[i - 1] = g[i - 1] PROVE c[i] = g[i]
    <3>1. i \in 0..n /\ i # 0
      OBVIOUS
    <3> QED BY <1>14, <1>18, <2>2, <3>1
  <2> QED BY <1>1, <2>1, <2>2, FollowsRun, ZenonT(60)
<1>20. P(n, g[n])
  <2>1. n \in 0..n
    OBVIOUS
  <2> QED BY <1>14, <2>1
<1> DEFINE r == g[n]
<1> HIDE DEF r
<1>21. /\ r \in PlaceState(Ent, n) /\ Sound(h, r.table, n) /\ Content(r.table, n, r.e, t0, e0, Ent)
       /\ r.e = EmptySlot => Filled(r.table, t0, n)
       /\ r.e # EmptySlot => \A q \in 0..(n - 1) : t0[ProbeSlot(h, e0.key, q, n) + 1] # EmptySlot
  BY <1>20 DEF P, Placing, r
<1>22. r.e = EmptySlot
  <2> DEFINE j == z - 1
             q == ProbeLength(h, e0.key, j, n)
  <2>1. j \in 0..(n - 1) /\ j + 1 = z
    OBVIOUS
  <2> HIDE DEF j
  <2>2. q \in 0..(n - 1) /\ ProbeSlot(h, e0.key, q, n) = j
    <3> DEFINE k == e0.key
    <3>1. IsProbing(h, k, n)
      BY <1>3
    <3> HIDE DEF k
    <3>2. ProbeLength(h, k, j, n) \in 0..(n - 1) /\ ProbeSlot(h, k, ProbeLength(h, k, j, n), n) = j
      BY <2>1, <3>1, ProbeInverse
    <3> QED BY <3>2 DEF k
  <2> HIDE DEF q
  <2> QED BY <1>21, <2>1, <2>2
<1>23. r.table \in [1..n -> Cells(Ent)]
  BY <1>21 DEF PlaceState
<1>24. \A u \in Ent : Has(r.table, n, u) <=> (Has(t0, n, u) \/ u = e0)
  BY <1>2, <1>21, <1>22 DEF Content
<1>25. Placed(h, Ent, n, t0, e0, r.table)
  BY <1>21, <1>22, <1>23, <1>24 DEF Placed
<1> QED BY <1>15, <1>19, <1>25 DEF r

\* A table of n slots that holds the first j entries.
Occupied(t, n) == {i \in 1..n : t[i] # EmptySlot}

Built(h, Ent, n, es, j, t) ==
    /\ t \in [1..n -> Cells(Ent)] /\ Sound(h, t, n)
    /\ IsFiniteSet(Occupied(t, n)) /\ Cardinality(Occupied(t, n)) <= j
    /\ \A u \in Ent : Has(t, n, u) <=> \E i \in 1..j : es[i] = u

\* The entries have a key each.
KeysDiffer(es, N) == \A i, j \in 1..N : es[i].key = es[j].key => i = j

\* A table with fewer entries than slots has an empty slot.
LEMMA HasRoom ==
    ASSUME NEW n \in Nat, NEW t, NEW j \in Nat, j < n, IsFiniteSet(Occupied(t, n)),
           Cardinality(Occupied(t, n)) <= j
    PROVE  \E z \in 1..n : t[z] = EmptySlot
<1> SUFFICES ASSUME \A z \in 1..n : t[z] # EmptySlot PROVE FALSE
  OBVIOUS
<1>1. Occupied(t, n) = 1..n
  BY DEF Occupied
<1>2. Cardinality(1..n) = n
  BY FS_Interval
<1> QED BY <1>1, <1>2

\* One entry more.
LEMMA BuildStep ==
    ASSUME NEW h, NEW Ent, EntriesOk(h, Ent), NEW N \in Nat, NEW n \in Nat, N < n,
           NEW es \in [1..N -> Ent], KeysDiffer(es, N),
           NEW j \in 1..N, NEW t, Built(h, Ent, n, es, j - 1, t)
    PROVE  Built(h, Ent, n, es, j, Place(h, t, es[j]))
<1> DEFINE e == es[j]
           t2 == Place(h, t, e)
<1>1. /\ t \in [1..n -> Cells(Ent)] /\ Sound(h, t, n)
      /\ IsFiniteSet(Occupied(t, n)) /\ Cardinality(Occupied(t, n)) <= j - 1
      /\ \A u \in Ent : Has(t, n, u) <=> \E i \in 1..(j - 1) : es[i] = u
  BY DEF Built
<1>2. PICK z \in 1..n : t[z] = EmptySlot
  <2> DEFINE k == j - 1
  <2>1. k \in Nat /\ k < n
    OBVIOUS
  <2>2. Cardinality(Occupied(t, n)) <= k
    BY <1>1
  <2> HIDE DEF k
  <2> QED BY <1>1, <2>1, <2>2, HasRoom
<1>3. e \in Ent /\ n \in Nat \ {0}
  OBVIOUS
<1>4. ASSUME NEW i \in 1..n, t[i] # EmptySlot PROVE t[i].key # e.key
  <2>1. t[i] \in Ent
    BY <1>1, <1>4 DEF Cells
  <2>2. Has(t, n, t[i])
    BY DEF Has
  <2>3. PICK k \in 1..(j - 1) : es[k] = t[i]
    BY <1>1, <2>1, <2>2
  <2>4. k \in 1..N /\ k # j
    OBVIOUS
  <2>5. es[k].key # es[j].key
    BY <2>4 DEF KeysDiffer
  <2> QED BY <2>3, <2>5
<1> HIDE DEF e
<1>5. Placed(h, Ent, n, t, e, t2)
  BY <1>1, <1>2, <1>3, <1>4, PlaceEntry
<1> HIDE DEF t2
<1>6. /\ t2 \in [1..n -> Cells(Ent)] /\ Sound(h, t2, n) /\ Filled(t2, t, n)
      /\ \A u \in Ent : Has(t2, n, u) <=> (Has(t, n, u) \/ u = e)
  BY <1>5 DEF Placed
<1>7. IsFiniteSet(Occupied(t2, n)) /\ Cardinality(Occupied(t2, n)) <= j
  <2>1. PICK x \in 1..n : t[x] = EmptySlot /\ \A i \in 1..n : t2[i] = EmptySlot <=> (t[i] = EmptySlot /\ i # x)
    BY <1>6 DEF Filled
  <2>2. Occupied(t2, n) = Occupied(t, n) \cup {x}
    BY <2>1 DEF Occupied
  <2>3. x \notin Occupied(t, n)
    BY <2>1 DEF Occupied
  <2> DEFINE S == Occupied(t, n)
  <2>4. IsFiniteSet(S) /\ x \notin S /\ Cardinality(S) <= j - 1
    BY <1>1, <2>3
  <2> HIDE DEF S
  <2>5. IsFiniteSet(S \cup {x}) /\ Cardinality(S \cup {x}) = Cardinality(S) + 1
    BY <2>4, FS_AddElement
  <2>6. Cardinality(S) \in Nat
    BY <2>4, FS_CardinalityType
  <2>7. Cardinality(S) + 1 <= j
    BY <2>4, <2>6
  <2> QED BY <2>2, <2>5, <2>7 DEF S
<1>8. ASSUME NEW u \in Ent PROVE Has(t2, n, u) <=> \E i \in 1..j : es[i] = u
  <2>1. (\E i \in 1..j : es[i] = u) <=> ((\E i \in 1..(j - 1) : es[i] = u) \/ es[j] = u)
    <3>1. \A i : i \in 1..j <=> (i \in 1..(j - 1) \/ i = j)
      OBVIOUS
    <3> QED BY <3>1
  <2> QED BY <1>1, <1>6, <2>1 DEF e
<1>9. Built(h, Ent, n, es, j, t2)
  BY <1>6, <1>7, <1>8 DEF Built
<1> QED BY <1>9 DEF t2, e

\* build_robin_hood puts all entries into the table.
LEMMA BuildTable ==
    ASSUME NEW h, NEW Ent, EntriesOk(h, Ent), NEW N \in Nat, NEW n \in Nat, N < n,
           NEW es \in [1..N -> Ent], KeysDiffer(es, N)
    PROVE  Built(h, Ent, n, es, N, build_robin_hood(h, es, n))
<1> DEFINE X == [1..n -> Cells(Ent)]
           P(j, t) == Built(h, Ent, n, es, j, t)
           S(j, t) == Place(h, t, es[j])
           F == [j \in 1..N |-> [t \in X |-> IF S(j, t) \in X THEN S(j, t) ELSE t]]
           t0 == [i \in 1..n |-> EmptySlot]
<1>1. Len(es) = N
  BY SeqOver
<1>2. P(0, t0)
  <2>1. t0 \in X /\ \A i \in 1..n : t0[i] = EmptySlot
    BY DEF Cells
  <2> HIDE DEF t0
  <2>2. Occupied(t0, n) = {}
    BY <2>1 DEF Occupied
  <2>3. IsFiniteSet(Occupied(t0, n)) /\ Cardinality(Occupied(t0, n)) <= 0
    BY <2>2, FS_EmptySet
  <2>4. Sound(h, t0, n)
    <3>1. \A i \in 0..(n - 1) : i + 1 \in 1..n
      OBVIOUS
    <3> QED BY <2>1, <3>1 DEF Sound
  <2>5. EmptySlot \notin Ent
    BY DEF EntriesOk
  <2>6. \A u \in Ent : ~Has(t0, n, u)
    BY <2>1, <2>5 DEF Has
  <2>7. \A i \in 1..0 : FALSE
    OBVIOUS
  <2> QED BY <2>1, <2>3, <2>4, <2>6, <2>7 DEF Built
<1>3. ASSUME NEW j \in 1..N, NEW t, P(j - 1, t) PROVE P(j, S(j, t))
  BY <1>3, BuildStep
<1>4. \A j, t : P(j, t) => t \in X
  BY DEF Built
<1> HIDE DEF P
<1>5. F \in [1..N -> [X -> X]]
  OBVIOUS
<1>6. \A j \in 1..N, t \in X : F[j][t] = IF S(j, t) \in X THEN S(j, t) ELSE t
  OBVIOUS
<1> HIDE DEF F, X, t0
<1>7. PICK g : Run(g, N, X, t0, F)
  BY <1>2, <1>4, <1>5, Recursion
<1>8. g \in [0..N -> X] /\ g[0] = t0 /\ \A j \in 1..N : g[j] = F[j][g[j - 1]]
  BY <1>7 DEF Run
<1> DEFINE G == {j \in 0..N : P(j, g[j]) /\ (j # 0 => g[j] = S(j, g[j - 1]))}
<1>9. 0 \in G
  BY <1>2, <1>8
<1> HIDE DEF S
<1>10. ASSUME NEW j \in 1..N, j - 1 \in G PROVE j \in G
  <2>1. P(j - 1, g[j - 1])
    BY <1>10
  <2>2. P(j, S(j, g[j - 1]))
    BY <1>3, <2>1
  <2>3. g[j - 1] \in X /\ S(j, g[j - 1]) \in X
    BY <1>4, <2>1, <2>2
  <2>4. g[j] = S(j, g[j - 1])
    BY <1>6, <1>8, <2>3
  <2> QED BY <2>2, <2>4
<1> HIDE DEF G
<1>11. 0..N \subseteq G
  BY <1>9, <1>10, Induction
<1>12. \A j \in 0..N : P(j, g[j]) /\ (j # 0 => g[j] = S(j, g[j - 1]))
  BY <1>11 DEF G
<1> DEFINE E(f) == [j \in 0..N |-> IF j = 0 THEN t0 ELSE Place(h, f[j - 1], es[j])]
           c == CHOOSE f : f = E(f)
<1>13. build_robin_hood(h, es, n) = c[N]
  BY <1>1 DEF build_robin_hood, t0
<1>14. g = E(g)
  <2>1. \A j \in 0..N : g[j] = IF j = 0 THEN t0 ELSE Place(h, g[j - 1], es[j])
    BY <1>8, <1>12 DEF S
  <2> QED BY <1>8, <2>1
<1>15. c = E(c)
  BY <1>14
<1>16. \A j \in 0..N : c[j] = IF j = 0 THEN t0 ELSE Place(h, c[j - 1], es[j])
  <2> HIDE DEF c
  <2> QED BY <1>15
<1> HIDE DEF c
<1>17. c[N] = g[N]
  <2>1. c[0] = g[0]
    <3>1. 0 \in 0..N
      OBVIOUS
    <3> QED BY <1>8, <1>16, <3>1
  <2>2. ASSUME NEW i \in 1..N, c[i - 1] = g[i - 1] PROVE c[i] = g[i]
    <3>1. i \in 0..N /\ i # 0
      OBVIOUS
    <3> QED BY <1>12, <1>16, <2>2, <3>1 DEF S
  <2> QED BY <2>1, <2>2, FollowsRun
<1>18. P(N, g[N])
  <2>1. N \in 0..N
    OBVIOUS
  <2> QED BY <1>12, <2>1
<1>19. P(N, build_robin_hood(h, es, n))
  BY <1>13, <1>17, <1>18
<1> QED BY <1>19 DEF P

\* The least element of a set of natural numbers.
LEMMA LeastIsMin ==
    ASSUME NEW T \in SUBSET Nat, NEW x \in T, \A y \in T : x <= y
    PROVE  Min(T) = x
<1>1. Min(T) \in T /\ \A y \in T : Min(T) <= y
  BY DEF Min
<1> DEFINE y == Min(T)
<1>2. y \in Nat /\ x \in Nat /\ y <= x /\ x <= y
  BY <1>1
<1> HIDE DEF y
<1>3. y = x
  BY <1>2
<1> QED BY <1>3 DEF y

\* A nonempty set of naturals has its Min as least member.
LEMMA MinIsLeast ==
    ASSUME NEW T \in SUBSET Nat, T # {}
    PROVE  Min(T) \in T /\ \A y \in T : Min(T) <= y
<1>1. \E x \in T : \A y \in T : x <= y
  BY LeastNatural
<1> QED BY <1>1 DEF Min

\* A lookup ends at probe d, when no probe before it does and d ends it.
Ends(h, t, n, trig, p) ==
    LET s == ProbeSlot(h, trig, p, n)
    IN  t[s + 1] = EmptySlot \/ p > ProbeLength(h, t[s + 1].key, s, n)

Stops(h, t, n, trig, p) ==
    Ends(h, t, n, trig, p) \/ t[ProbeSlot(h, trig, p, n) + 1].key = trig

StopSet(h, t, n, trig) == {p \in 0..n : Stops(h, t, n, trig, p)}

\* The lookup's loop ends at its first stopping probe.
LEMMA LookupStops ==
    ASSUME NEW h, NEW Ent, NEW n \in Nat, NEW t \in [1..n -> Cells(Ent)], NEW trig
    PROVE  Lookup(h, t, trig) =
             IF Ends(h, t, n, trig, Min(StopSet(h, t, n, trig))) THEN NoValue
             ELSE t[ProbeSlot(h, trig, Min(StopSet(h, t, n, trig)), n) + 1]
<1>1. Len(t) = n
  BY SeqOver
<1> QED BY <1>1 DEF Lookup, Ends, Stops, StopSet

\* A key that is in the table is found.
LEMMA LookupFinds ==
    ASSUME NEW h, NEW Ent, EntriesOk(h, Ent), NEW n \in Nat \ {0},
           NEW t \in [1..n -> Cells(Ent)], Sound(h, t, n), NEW e \in Ent, Has(t, n, e)
    PROVE  Lookup(h, t, e.key) = e
<1> DEFINE k == e.key
           T == StopSet(h, t, n, k)
<1>1. PICK i \in 0..(n - 1) : t[i + 1] = e
  <2>1. PICK z \in 1..n : t[z] = e
    BY DEF Has
  <2>2. z - 1 \in 0..(n - 1) /\ (z - 1) + 1 = z
    OBVIOUS
  <2> QED BY <2>1, <2>2
<1>2. e # EmptySlot /\ h[k] \in Nat
  BY DEF EntriesOk
<1> DEFINE d == ProbeLength(h, k, i, n)
<1>3. Safe(h, t, n, k, d)
  BY <1>1, <1>2 DEF Sound
<1> HIDE DEF k
<1>4. IsProbing(h, k, n)
  BY <1>2, Probing
<1>5. d \in 0..(n - 1) /\ ProbeSlot(h, k, d, n) = i
  BY <1>4, ProbeInverse
<1>6. \A p \in 0..(n - 1) : ProbeSlot(h, k, p, n) \in 0..(n - 1)
                            /\ ProbeLength(h, k, ProbeSlot(h, k, p, n), n) = p
  BY <1>4, ProbeInverse
<1>7. ~Ends(h, t, n, k, d)
  <2>2. t[i + 1] # EmptySlot /\ t[i + 1].key = k
    BY <1>1, <1>2 DEF k
  <2> HIDE DEF d
  <2>3. ProbeLength(h, k, i, n) = d
    BY DEF d
  <2>4. d \in Nat
    BY <1>5
  <2>5. ~(d > d)
    BY <2>4
  <2> QED BY <1>5, <2>2, <2>3, <2>5 DEF Ends
<1> HIDE DEF d
<1>8. d \in T
  <2>1. d \in 0..n
    BY <1>5
  <2>2. t[ProbeSlot(h, k, d, n) + 1].key = k
    BY <1>1, <1>5 DEF k
  <2> QED BY <2>1, <2>2 DEF StopSet, Stops
<1>9. ASSUME NEW p \in 0..(d - 1) PROVE ~Stops(h, t, n, k, p)
  <2> DEFINE j == ProbeSlot(h, k, p, n)
  <2>0. p \in 0..(n - 1) /\ p # d /\ p \in Nat
    BY <1>5
  <2>1. j \in 0..(n - 1) /\ ProbeLength(h, k, j, n) = p
    BY <1>6, <2>0
  <2>2. t[j + 1] # EmptySlot /\ p <= ProbeLength(h, t[j + 1].key, j, n)
    BY <1>3 DEF Safe, SafeAt
  <2> HIDE DEF j
  <2>3. j + 1 \in 1..n /\ i + 1 \in 1..n
    BY <2>1
  <2>4. j # i
    BY <2>0, <2>1 DEF d
  <2>5. t[j + 1].key # k
    <3>1. t[i + 1].key = k /\ t[i + 1] # EmptySlot
      BY <1>1, <1>2 DEF k
    <3>2. j + 1 # i + 1
      BY <2>1, <2>4
    <3> QED BY <2>2, <2>3, <3>1, <3>2 DEF Sound
  <2> DEFINE l == ProbeLength(h, t[j + 1].key, j, n)
  <2>6. l \in Nat
    <3> DEFINE k2 == t[j + 1].key
    <3>1. t[j + 1] \in Ent
      BY <2>2, <2>3 DEF Cells
    <3>2. h[k2] \in Nat
      BY <3>1 DEF EntriesOk
    <3> HIDE DEF k2
    <3>3. IsProbing(h, k2, n)
      BY <3>2, Probing
    <3>4. ProbeLength(h, k2, j, n) \in 0..(n - 1)
      BY <2>1, <3>3, ProbeInverse
    <3> QED BY <3>4 DEF k2
  <2>7. ~(p > l)
    <3> HIDE DEF l
    <3>1. p <= l
      BY <2>2 DEF l
    <3> QED BY <2>0, <2>6, <3>1
  <2> QED BY <2>2, <2>5, <2>7 DEF Stops, Ends, j
<1>10. T \in SUBSET Nat /\ \A p \in T : d <= p
  <2>1. ASSUME NEW p \in T PROVE p \in Nat /\ d <= p
    <3>1. p \in 0..n /\ Stops(h, t, n, k, p)
      BY DEF StopSet
    <3>2. p \notin 0..(d - 1)
      BY <1>9, <3>1
    <3> QED BY <1>5, <3>1, <3>2
  <2> QED BY <2>1
<1> HIDE DEF T
<1>11. Min(T) = d
  BY <1>8, <1>10, LeastIsMin
<1>12. n \in Nat
  OBVIOUS
<1>13. Lookup(h, t, k) = IF Ends(h, t, n, k, Min(T)) THEN NoValue
                         ELSE t[ProbeSlot(h, k, Min(T), n) + 1]
  BY <1>12, LookupStops DEF T
<1>14. Lookup(h, t, k) = e
  BY <1>1, <1>5, <1>7, <1>11, <1>13
<1> QED BY <1>14 DEF k

\* A key that is not in the table is not found.
LEMMA LookupMisses ==
    ASSUME NEW h, NEW Ent, EntriesOk(h, Ent), NEW n \in Nat \ {0},
           NEW t \in [1..n -> Cells(Ent)], NEW k, h[k] \in Nat,
           \A i \in 1..n : t[i] # EmptySlot => t[i].key # k
    PROVE  Lookup(h, t, k) = NoValue
<1> DEFINE T == StopSet(h, t, n, k)
           m == Min(T)
<1>1. IsProbing(h, k, n)
  BY Probing
<1>2. \A p \in 0..n : ProbeSlot(h, k, p, n) \in 0..(n - 1)
  <2>1. /\ Home(h, k, n) \in 0..(n - 1)
        /\ \A p \in 0..n : ProbeSlot(h, k, p, n) =
               IF Home(h, k, n) + p < n THEN Home(h, k, n) + p ELSE Home(h, k, n) + p - n
    BY <1>1 DEF IsProbing
  <2> DEFINE a == Home(h, k, n)
  <2> HIDE DEF a
  <2>2. ASSUME NEW p \in 0..n PROVE ProbeSlot(h, k, p, n) \in 0..(n - 1)
    <3>1. a \in 0..(n - 1) /\ ProbeSlot(h, k, p, n) = IF a + p < n THEN a + p ELSE a + p - n
      BY <2>1 DEF a
    <3> QED BY <3>1
  <2> QED BY <2>2
<1>3. Stops(h, t, n, k, n)
  <2> DEFINE s == ProbeSlot(h, k, n, n)
             l == ProbeLength(h, t[s + 1].key, s, n)
  <2>1. s \in 0..(n - 1)
    <3>1. n \in 0..n
      OBVIOUS
    <3> QED BY <1>2, <3>1
  <2> HIDE DEF s
  <2>2. ASSUME t[s + 1] # EmptySlot PROVE n > l
    <3> DEFINE k2 == t[s + 1].key
    <3>1. t[s + 1] \in Ent
      BY <2>1, <2>2 DEF Cells
    <3>2. h[k2] \in Nat
      BY <3>1 DEF EntriesOk
    <3> HIDE DEF k2
    <3>3. IsProbing(h, k2, n)
      BY <3>2, Probing
    <3>4. ProbeLength(h, k2, s, n) \in 0..(n - 1)
      BY <2>1, <3>3, ProbeInverse
    <3>5. l \in 0..(n - 1)
      BY <3>4 DEF k2
    <3> HIDE DEF l
    <3> QED BY <3>5
  <2> QED BY <2>2 DEF Stops, Ends, s
<1>4. T \in SUBSET Nat /\ n \in T
  BY <1>3 DEF StopSet
<1>5. m \in T
  <2> HIDE DEF T
  <2> QED BY <1>4, MinIsLeast
<1> HIDE DEF m
<1>6. m \in 0..n /\ Stops(h, t, n, k, m)
  BY <1>5 DEF StopSet
<1>7. Ends(h, t, n, k, m)
  <2> DEFINE s == ProbeSlot(h, k, m, n)
  <2>1. s + 1 \in 1..n
    <3>1. s \in 0..(n - 1)
      BY <1>2, <1>6
    <3> HIDE DEF s
    <3> QED BY <3>1
  <2>2. t[s + 1] # EmptySlot => t[s + 1].key # k
    BY <2>1
  <2> QED BY <1>6, <2>2 DEF Stops, Ends
<1>8. n \in Nat
  OBVIOUS
<1>9. Lookup(h, t, k) = IF Ends(h, t, n, k, Min(T)) THEN NoValue
                        ELSE t[ProbeSlot(h, k, Min(T), n) + 1]
  BY <1>8, LookupStops
<1> QED BY <1>7, <1>9 DEF m

------------------------------
(* The layout of the filename database *)

\* Two sections back to back.
LEMMA Joined ==
    ASSUME NEW A, NEW B, NEW s \in Seq(A), NEW t \in Seq(B)
    PROVE  /\ s \o t \in Seq(A \cup B)
           /\ Len(s \o t) = Len(s) + Len(t) /\ Len(s) \in Nat /\ Len(t) \in Nat
           /\ Holds(s \o t, 0, s) /\ Holds(s \o t, Len(s), t)
<1> DEFINE r == s \o t
<1>1. r \in Seq(A \cup B) /\ IsConcat(r, s, t)
  BY Concat
<1> HIDE DEF r
<1>2. Len(r) = Len(s) + Len(t) /\ Len(s) \in Nat /\ Len(t) \in Nat
  BY <1>1 DEF IsConcat
<1>3. Holds(r, 0, s)
  <2>1. \A i \in 1..Len(s) : 0 + i = i
    OBVIOUS
  <2>2. 0 + Len(s) <= Len(r)
    BY <1>2
  <2> QED BY <1>1, <2>1, <2>2 DEF IsConcat, Holds
<1>4. Holds(r, Len(s), t)
  <2>1. Len(s) + Len(t) <= Len(r)
    BY <1>2
  <2> QED BY <1>1, <2>1 DEF IsConcat, Holds
<1> QED BY <1>1, <1>2, <1>3, <1>4 DEF r

\* What a section holds is held by the file that holds the section.
LEMMA HeldWithin ==
    ASSUME NEW f, NEW at \in Nat, NEW s, NEW pos \in Nat, NEW out,
           Len(f) \in Nat, Len(s) \in Nat, Len(out) \in Nat, Holds(f, at, s), Holds(s, pos, out)
    PROVE  Holds(f, at + pos, out)
<1>1. at + Len(s) <= Len(f) /\ pos + Len(out) <= Len(s)
  BY DEF Holds
<1>2. (at + pos) + Len(out) <= Len(f)
  BY <1>1
<1>3. ASSUME NEW j \in 1..Len(out) PROVE f[(at + pos) + j] = out[j]
  <2>1. pos + j \in 1..Len(s) /\ at + (pos + j) = (at + pos) + j
    BY <1>1
  <2>2. s[pos + j] = out[j]
    BY DEF Holds
  <2>3. f[at + (pos + j)] = s[pos + j]
    BY <2>1 DEF Holds
  <2> QED BY <2>1, <2>2, <2>3
<1> QED BY <1>2, <1>3 DEF Holds

\* A section is read back as it was written.
LEMMA SliceHeld ==
    ASSUME NEW X, NEW Y, NEW f \in Seq(X), NEW pos \in Nat, NEW out \in Seq(Y), Holds(f, pos, out)
    PROVE  Slice(f, pos, Len(out)) = out
<1> DEFINE n == Len(out)
           r == Slice(f, pos, n)
<1>1. n \in Nat /\ pos + n <= Len(f)
  BY DEF Holds
<1>2. r \in Seq(X) /\ IsSlice(r, f, pos, n)
  <2> HIDE DEF n
  <2> QED BY <1>1, SliceCells
<1> HIDE DEF r
<1>3. Len(r) = n /\ \A i \in 1..n : r[i] = f[pos + i]
  BY <1>2 DEF IsSlice
<1>4. \A i \in 1..n : f[pos + i] = out[i]
  BY DEF Holds
<1>5. r \in [1..n -> X] /\ out \in [1..n -> Y]
  BY <1>2, <1>3, LenProperties
<1> HIDE DEF n
<1>6. r = out
  BY <1>3, <1>4, <1>5, SMTT(60)
<1> QED BY <1>6 DEF r, n

\* The offsets of sections that are one cell each.
LEMMA FlatOnes ==
    ASSUME NEW S, NEW n \in Nat, NEW seqs \in [1..n -> Seq(S)], \A i \in 1..n : Len(seqs[i]) = 1
    PROVE  /\ FlattenSeq(seqs) \in Seq(S) /\ Len(FlattenSeq(seqs)) = n
           /\ \A i \in 1..n : FlattenSeq(seqs)[i] = seqs[i][1]
<1>1. seqs \in Seq(Seq(S)) /\ Len(seqs) = n
  BY SeqOver
<1> DEFINE flat == FlattenSeq(seqs)
<1>2. flat \in Seq(S) /\ \E st : IsFlat(flat, seqs, st)
  BY <1>1, Flattened
<1> HIDE DEF flat
<1>3. PICK st : IsFlat(flat, seqs, st)
  BY <1>2
<1>4. IsEven(flat, seqs, 1, n)
  BY <1>1, <1>3, FlatEven
<1>5. Len(flat) = 1 * n /\ \A i \in 1..n : \A j \in 1..1 : flat[1 * (i - 1) + j] = seqs[i][j]
  BY <1>4 DEF IsEven
<1>6. Len(flat) = n
  BY <1>5
<1>7. ASSUME NEW i \in 1..n PROVE flat[i] = seqs[i][1]
  <2>1. 1 \in 1..1 /\ 1 * (i - 1) + 1 = i
    OBVIOUS
  <2>2. flat[1 * (i - 1) + 1] = seqs[i][1]
    BY <1>5, <2>1
  <2> QED BY <2>1, <2>2
<1> QED BY <1>2, <1>6, <1>7 DEF flat

\* The first sequences of some.
LEMMA FirstOf ==
    ASSUME NEW C, NEW n \in Nat, NEW s \in [1..n -> C], NEW k \in 0..n
    PROVE  SubSeq(s, 1, k) \in [1..k -> C] /\ \A i \in 1..k : SubSeq(s, 1, k)[i] = s[i]
<1> DEFINE u == SubSeq(s, 1, k)
<1>1. s \in Seq(C) /\ Len(s) = n
  BY SeqOver
<1>2. \A i \in 1..k : s[i] \in C
  OBVIOUS
<1>3. k \in Int /\ 1 \in Int
  OBVIOUS
<1>4. /\ u \in Seq(C)
      /\ Len(u) = IF 1 <= k THEN k - 1 + 1 ELSE 0
      /\ \A i \in 1..(k - 1 + 1) : u[i] = s[1 + i - 1]
  BY <1>1, <1>2, <1>3, SubSeqProperties
<1>5. k - 1 + 1 = k /\ \A i \in 1..k : 1 + i - 1 = i
  OBVIOUS
<1> HIDE DEF u
<1>6. Len(u) = k
  BY <1>4
<1>7. u \in [1..k -> C]
  BY <1>4, <1>6, LenProperties
<1>8. \A i \in 1..k : u[i] = s[i]
  BY <1>4, <1>5
<1> QED BY <1>7, <1>8 DEF u

\* What a dictionary is made of.
DictCell == {"dictionary"}

\* A section of the file: a sequence of cells of whatever kind.
IsCells(s) == \E X : s \in Seq(X)

\* The blocks of paths.
NumBlocks(paths) == CeilDiv(Len(paths), BLOCK_PATHS)

IsBlocks(paths, K) ==
    /\ K \in Nat /\ Chunks(paths) \in [1..K -> Seq(Text)] /\ Len(Chunks(paths)) = K
    /\ \A k \in 1..K : IsChunk(Chunks(paths)[k], paths, BLOCK_PATHS, k)

\* The blocks of paths one after the other.
LEMMA BlocksOfPaths ==
    ASSUME NEW paths \in Seq(Text)
    PROVE  IsBlocks(paths, NumBlocks(paths))
<1> DEFINE K == NumBlocks(paths)
           b == BLOCK_PATHS
<1>1. b \in Nat \ {0} /\ Len(paths) \in Nat
  BY BlockPathsAssumption
<1> HIDE DEF b
<1>2. K \in Nat
  BY <1>1, CeilDivision DEF NumBlocks, b
<1>3. Chunks(paths) = [k \in 1..K |-> SubSeq(paths, b * (k - 1) + 1, Min({b * k, Len(paths)}))]
  BY DEF Chunks, NumBlocks, b
<1>4. ASSUME NEW k \in 1..K
      PROVE  /\ SubSeq(paths, b * (k - 1) + 1, Min({b * k, Len(paths)})) \in Seq(Text)
             /\ IsChunk(SubSeq(paths, b * (k - 1) + 1, Min({b * k, Len(paths)})), paths, b, k)
  <2>1. k \in 1..CeilDiv(Len(paths), b)
    BY DEF NumBlocks, b
  <2> QED BY <1>1, <2>1, Chunk
<1> HIDE DEF K
<1>5. Chunks(paths) \in [1..K -> Seq(Text)]
  BY <1>3, <1>4
<1>6. Len(Chunks(paths)) = K
  BY <1>2, <1>5, SeqOver
<1>7. \A k \in 1..K : IsChunk(Chunks(paths)[k], paths, b, k)
  BY <1>3, <1>4
<1> QED BY <1>2, <1>5, <1>6, <1>7 DEF IsBlocks, K, b

BlockEntry(paths, dict, docs_off, k) ==
    [off   |-> docs_off + 1 + Len(dict) + 1 + NumBlocks(paths) + (k - 1),
     clen  |-> 1,
     count |-> Len(Chunks(paths)[k])]
BlockIndex(paths, dict, docs_off) ==
    [k \in 1..NumBlocks(paths) |-> BlockEntry(paths, dict, docs_off, k)]
BlockFrames(paths, dict) ==
    [k \in 1..NumBlocks(paths) |-> [data |-> PrefixedPaths(Chunks(paths)[k]), dict |-> dict]]

\* Every frame is one cell.
LEMMA DocsSections ==
    ASSUME NEW paths \in Seq(Text), NEW dict \in Seq(DictCell), NEW docs_off \in Nat
    PROVE  /\ DocsSection(paths, dict, docs_off) =
                <<Len(dict)>> \o dict \o <<NumBlocks(paths)>>
                \o BlockIndex(paths, dict, docs_off) \o BlockFrames(paths, dict)
           /\ NumBlocks(paths) \in Nat
<1> DEFINE K == NumBlocks(paths)
           ch == Chunks(paths)
           frames == [k \in DOMAIN ch |-> zstd_encode(PrefixedPaths(ch[k]), dict)]
           base == docs_off + 1 + Len(dict) + 1 + Len(ch)
           off(k) == base + Len(FlattenSeq(SubSeq(frames, 1, k - 1)))
           S == {[data |-> PrefixedPaths(ch[k]), dict |-> dict] : k \in 1..K}
<1>1. K \in Nat /\ ch \in [1..K -> Seq(Text)] /\ Len(ch) = K
  BY BlocksOfPaths DEF IsBlocks
<1>2. DocsSection(paths, dict, docs_off) =
        <<Len(dict)>> \o dict \o <<Len(ch)>>
        \o [k \in DOMAIN ch |-> [off |-> off(k), clen |-> Len(frames[k]), count |-> Len(ch[k])]]
        \o FlattenSeq(frames)
  BY DEF DocsSection
<1>3. DOMAIN ch = 1..K
  BY <1>1
<1> HIDE DEF ch, K
<1>4. \A k \in 1..K : frames[k] = <<[data |-> PrefixedPaths(ch[k]), dict |-> dict]>>
  BY <1>3 DEF zstd_encode
<1>5. \A k \in 1..K : frames[k] \in Seq(S) /\ Len(frames[k]) = 1
                      /\ frames[k][1] = [data |-> PrefixedPaths(ch[k]), dict |-> dict]
  <2>1. ASSUME NEW k \in 1..K
        PROVE  frames[k] \in Seq(S) /\ Len(frames[k]) = 1
               /\ frames[k][1] = [data |-> PrefixedPaths(ch[k]), dict |-> dict]
    <3> DEFINE x == [data |-> PrefixedPaths(ch[k]), dict |-> dict]
    <3>1. x \in S
      OBVIOUS
    <3>2. frames[k] = <<x>>
      BY <1>4
    <3> HIDE DEF S, frames, x
    <3>3. frames[k] \in Seq(S) /\ Len(frames[k]) = 1 /\ frames[k][1] = x
      BY <3>1, <3>2
    <3> QED BY <3>3 DEF x
  <2> QED BY <2>1
<1>6. frames \in [1..K -> Seq(S)]
  <2>1. frames = [k \in 1..K |-> zstd_encode(PrefixedPaths(ch[k]), dict)]
    BY <1>3
  <2>2. frames = [k \in 1..K |-> frames[k]]
    BY <2>1
  <2> HIDE DEF frames, S
  <2> QED BY <1>5, <2>2
<1> HIDE DEF frames, S
<1>7. FlattenSeq(frames) = BlockFrames(paths, dict)
  <2> DEFINE flat == FlattenSeq(frames)
  <2>0. K \in Nat /\ \A i \in 1..K : Len(frames[i]) = 1
    BY <1>1, <1>5
  <2>1. flat \in Seq(S) /\ Len(flat) = K /\ \A i \in 1..K : flat[i] = frames[i][1]
    BY <2>0, <1>6, FlatOnes
  <2> HIDE DEF flat
  <2>2. flat \in [1..K -> S]
    BY <2>1, LenProperties
  <2>3. flat = [k \in 1..K |-> [data |-> PrefixedPaths(ch[k]), dict |-> dict]]
    BY <1>5, <2>1, <2>2
  <2> QED BY <2>3 DEF flat, BlockFrames, ch, K
<1>8. ASSUME NEW k \in 1..K PROVE off(k) = docs_off + 1 + Len(dict) + 1 + K + (k - 1)
  <2> DEFINE j == k - 1
             u == SubSeq(frames, 1, j)
  <2>1. j \in 0..K /\ j \in Nat
    BY <1>1
  <2> HIDE DEF j
  <2>2. u \in [1..j -> Seq(S)] /\ \A i \in 1..j : u[i] = frames[i]
    BY <1>1, <1>6, <2>1, FirstOf
  <2> HIDE DEF u
  <2>3. \A i \in 1..j : Len(u[i]) = 1
    <3>1. \A i \in 1..j : i \in 1..K
      BY <1>1, <2>1
    <3> QED BY <1>5, <2>2, <3>1
  <2>4. Len(FlattenSeq(u)) = j
    BY <2>1, <2>2, <2>3, FlatOnes
  <2> QED BY <1>1, <2>4 DEF j, u
<1>9. [k \in DOMAIN ch |-> [off |-> off(k), clen |-> Len(frames[k]), count |-> Len(ch[k])]]
        = BlockIndex(paths, dict, docs_off)
  <2> HIDE DEF off
  <2>1. ASSUME NEW k \in 1..K
        PROVE  [off |-> off(k), clen |-> Len(frames[k]), count |-> Len(ch[k])]
                 = BlockEntry(paths, dict, docs_off, k)
    BY <1>5, <1>8 DEF BlockEntry, ch, K
  <2> DEFINE f(k) == [off |-> off(k), clen |-> Len(frames[k]), count |-> Len(ch[k])]
             g(k) == BlockEntry(paths, dict, docs_off, k)
  <2>2. \A k \in 1..K : f(k) = g(k)
    BY <2>1
  <2>3. BlockIndex(paths, dict, docs_off) = [k \in 1..K |-> g(k)]
    BY DEF BlockIndex, K
  <2>4. [k \in DOMAIN ch |-> f(k)] = [k \in 1..K |-> f(k)]
    BY <1>3
  <2> HIDE DEF f, g
  <2>5. [k \in 1..K |-> f(k)] = [k \in 1..K |-> g(k)]
    BY <2>2
  <2>6. [k \in DOMAIN ch |-> f(k)] = BlockIndex(paths, dict, docs_off)
    BY <2>3, <2>4, <2>5
  <2> QED BY <2>6 DEF f
<1> QED BY <1>1, <1>2, <1>7, <1>9 DEF K

\* Five sections back to back, and where each begins.
IsFive(f, a, b, c, d, e) ==
    /\ IsCells(f)
    /\ Len(a) \in Nat /\ Len(b) \in Nat /\ Len(c) \in Nat /\ Len(d) \in Nat /\ Len(e) \in Nat
    /\ Len(f) = Len(a) + Len(b) + Len(c) + Len(d) + Len(e)
    /\ Holds(f, 0, a)
    /\ Holds(f, Len(a), b)
    /\ Holds(f, Len(a) + Len(b), c)
    /\ Holds(f, Len(a) + Len(b) + Len(c), d)
    /\ Holds(f, Len(a) + Len(b) + Len(c) + Len(d), e)

\* One section more.
LEMMA OneMore ==
    ASSUME NEW s, IsCells(s), NEW t, IsCells(t)
    PROVE  /\ IsCells(s \o t)
           /\ Len(s \o t) = Len(s) + Len(t) /\ Len(s) \in Nat /\ Len(t) \in Nat
           /\ Holds(s \o t, Len(s), t)
           /\ \A pos, out : pos \in Nat /\ Len(out) \in Nat /\ Holds(s, pos, out) => Holds(s \o t, pos, out)
<1>1. PICK A : s \in Seq(A)
  BY DEF IsCells
<1>2. PICK B : t \in Seq(B)
  BY DEF IsCells
<1> DEFINE r == s \o t
<1>3. /\ r \in Seq(A \cup B)
      /\ Len(r) = Len(s) + Len(t) /\ Len(s) \in Nat /\ Len(t) \in Nat
      /\ Holds(r, 0, s) /\ Holds(r, Len(s), t)
  BY <1>1, <1>2, Joined
<1> HIDE DEF r
<1>4. IsCells(r)
  BY <1>3 DEF IsCells
<1>5. ASSUME NEW pos \in Nat, NEW out, Len(out) \in Nat, Holds(s, pos, out) PROVE Holds(r, pos, out)
  <2>1. Len(r) \in Nat /\ 0 \in Nat /\ 0 + pos = pos
    BY <1>3
  <2>2. Holds(r, 0 + pos, out)
    BY <1>3, <1>5, <2>1, HeldWithin
  <2> QED BY <2>1, <2>2
<1> QED BY <1>3, <1>4, <1>5 DEF r

\* Five sections one after the other.
LEMMA FiveSections ==
    ASSUME NEW a, IsCells(a), NEW b, IsCells(b), NEW c, IsCells(c), NEW d, IsCells(d), NEW e, IsCells(e)
    PROVE  IsFive(a \o b \o c \o d \o e, a, b, c, d, e)
<1> DEFINE ab == a \o b
           abc == ab \o c
           abcd == abc \o d
           r == abcd \o e
<1>0. Holds(a, 0, a) /\ Len(a) \in Nat
  <2>1. PICK A : a \in Seq(A)
    BY DEF IsCells
  <2>2. Len(a) \in Nat /\ \A j \in 1..Len(a) : 0 + j = j
    BY <2>1
  <2>3. 0 + Len(a) <= Len(a)
    BY <2>2
  <2> QED BY <2>2, <2>3 DEF Holds
<1>1. /\ IsCells(ab) /\ Len(ab) = Len(a) + Len(b) /\ Len(b) \in Nat
      /\ Holds(ab, Len(a), b)
      /\ \A pos, out : pos \in Nat /\ Len(out) \in Nat /\ Holds(a, pos, out) => Holds(ab, pos, out)
  BY OneMore
<1> HIDE DEF ab
<1>2. /\ IsCells(abc) /\ Len(abc) = Len(ab) + Len(c) /\ Len(c) \in Nat
      /\ Holds(abc, Len(ab), c)
      /\ \A pos, out : pos \in Nat /\ Len(out) \in Nat /\ Holds(ab, pos, out) => Holds(abc, pos, out)
  BY <1>1, OneMore
<1> HIDE DEF abc
<1>3. /\ IsCells(abcd) /\ Len(abcd) = Len(abc) + Len(d) /\ Len(d) \in Nat
      /\ Holds(abcd, Len(abc), d)
      /\ \A pos, out : pos \in Nat /\ Len(out) \in Nat /\ Holds(abc, pos, out) => Holds(abcd, pos, out)
  BY <1>2, OneMore
<1> HIDE DEF abcd
<1>4. /\ IsCells(r) /\ Len(r) = Len(abcd) + Len(e) /\ Len(e) \in Nat
      /\ Holds(r, Len(abcd), e)
      /\ \A pos, out : pos \in Nat /\ Len(out) \in Nat /\ Holds(abcd, pos, out) => Holds(r, pos, out)
  BY <1>3, OneMore
<1> HIDE DEF r
<1> DEFINE i == Len(a)
           j == Len(a) + Len(b)
           k == Len(a) + Len(b) + Len(c)
           l == Len(a) + Len(b) + Len(c) + Len(d)
<1>5. /\ Len(ab) = j /\ Len(abc) = k /\ Len(abcd) = l
      /\ 0 \in Nat /\ i \in Nat /\ j \in Nat /\ k \in Nat
      /\ Len(r) = Len(a) + Len(b) + Len(c) + Len(d) + Len(e)
  BY <1>0, <1>1, <1>2, <1>3, <1>4
<1> HIDE DEF i, j, k, l
<1>6. Holds(ab, 0, a) /\ Holds(ab, i, b)
  <2>1. Holds(ab, i, b)
    BY <1>1 DEF i
  <2>2. Holds(ab, 0, a)
    BY <1>0, <1>1, <1>5
  <2> QED BY <2>1, <2>2
<1>7. Holds(abc, 0, a) /\ Holds(abc, i, b) /\ Holds(abc, j, c)
  BY <1>0, <1>1, <1>2, <1>5, <1>6
<1>8. Holds(abcd, 0, a) /\ Holds(abcd, i, b) /\ Holds(abcd, j, c) /\ Holds(abcd, k, d)
  BY <1>0, <1>1, <1>2, <1>3, <1>5, <1>7
<1>9. Holds(r, 0, a) /\ Holds(r, i, b) /\ Holds(r, j, c) /\ Holds(r, k, d) /\ Holds(r, l, e)
  BY <1>0, <1>1, <1>2, <1>3, <1>4, <1>5, <1>8
<1>10. IsFive(r, a, b, c, d, e)
  BY <1>0, <1>1, <1>2, <1>3, <1>4, <1>5, <1>9 DEF IsFive, i, j, k, l
<1> QED BY <1>10 DEF r, abcd, abc, ab

\* A function over 1..n is a section of n cells.
LEMMA CellsOver ==
    ASSUME NEW C, NEW n \in Nat, NEW s \in [1..n -> C]
    PROVE  IsCells(s) /\ Len(s) = n
<1>1. s \in Seq(C) /\ Len(s) = n
  BY SeqOver
<1> QED BY <1>1 DEF IsCells

\* A cell of any kind is a section of its own.
LEMMA OneCell ==
    ASSUME NEW x
    PROVE  IsCells(<<x>>) /\ Len(<<x>>) = 1 /\ <<x>>[1] = x
<1>1. <<x>> \in Seq({x}) /\ Len(<<x>>) = 1 /\ <<x>>[1] = x
  OBVIOUS
<1> QED BY <1>1 DEF IsCells

\* The documents section, with the block index at docs_off + 2 + Len(dict).
IsDocs(D, paths, dict, docs_off) ==
    LET K == NumBlocks(paths)
        L == Len(dict)
    IN  /\ IsCells(D) /\ Len(D) = 2 + L + 2 * K
        /\ L \in Nat /\ K \in Nat
        /\ D[1] = L /\ Holds(D, 1, dict) /\ D[2 + L] = K
        /\ Holds(D, 2 + L, BlockIndex(paths, dict, docs_off)) /\ Len(BlockIndex(paths, dict, docs_off)) = K
        /\ Holds(D, 2 + L + K, BlockFrames(paths, dict)) /\ Len(BlockFrames(paths, dict)) = K
        /\ IsCells(BlockIndex(paths, dict, docs_off)) /\ IsCells(BlockFrames(paths, dict))

\* The docs section of finish.
LEMMA DocsLayout ==
    ASSUME NEW paths \in Seq(Text), NEW dict \in Seq(DictCell), NEW docs_off \in Nat
    PROVE  IsDocs(DocsSection(paths, dict, docs_off), paths, dict, docs_off)
<1> DEFINE K == NumBlocks(paths)
           L == Len(dict)
           a == <<L>>
           c == <<K>>
           d == BlockIndex(paths, dict, docs_off)
           e == BlockFrames(paths, dict)
           D == DocsSection(paths, dict, docs_off)
<1>1. D = a \o dict \o c \o d \o e /\ K \in Nat /\ L \in Nat
  <2>1. D = <<Len(dict)>> \o dict \o <<NumBlocks(paths)>>
            \o BlockIndex(paths, dict, docs_off) \o BlockFrames(paths, dict)
        /\ NumBlocks(paths) \in Nat
    BY DocsSections
  <2>2. Len(dict) \in Nat
    OBVIOUS
  <2> QED BY <2>1, <2>2
<1>2. IsCells(a) /\ Len(a) = 1 /\ a[1] = L
  <2> HIDE DEF L
  <2> QED BY OneCell
<1>3. IsCells(c) /\ Len(c) = 1 /\ c[1] = K
  <2> HIDE DEF K
  <2> QED BY OneCell
<1>4. IsCells(dict)
  BY DEF IsCells
<1>5. IsCells(d) /\ Len(d) = K
  <2> DEFINE C == {BlockEntry(paths, dict, docs_off, k) : k \in 1..K}
  <2>1. d \in [1..K -> C]
    BY DEF BlockIndex
  <2> HIDE DEF C, d, K
  <2> QED BY <1>1, <2>1, CellsOver
<1>6. IsCells(e) /\ Len(e) = K
  <2> DEFINE C == {[data |-> PrefixedPaths(Chunks(paths)[k]), dict |-> dict] : k \in 1..K}
  <2>1. e \in [1..K -> C]
    BY DEF BlockFrames
  <2> HIDE DEF C, e, K
  <2> QED BY <1>1, <2>1, CellsOver
<1> HIDE DEF K, L, a, c, d, e, D
<1>7. IsFive(D, a, dict, c, d, e)
  BY <1>1, <1>2, <1>3, <1>4, <1>5, <1>6, FiveSections
<1>8. /\ IsCells(D) /\ Len(D) = 1 + L + 1 + K + K
      /\ Holds(D, 0, a) /\ Holds(D, 1, dict) /\ Holds(D, 1 + L, c)
      /\ Holds(D, 1 + L + 1, d) /\ Holds(D, 1 + L + 1 + K, e)
  BY <1>2, <1>3, <1>5, <1>6, <1>7 DEF IsFive, L
<1>9. /\ 1 + L + 1 + K + K = 2 + L + 2 * K /\ 1 + L + 1 = 2 + L /\ 1 + L + 1 + K = 2 + L + K
      /\ 0 + 1 = 1 /\ (1 + L) + 1 = 2 + L
  BY <1>1
<1>10. D[1] = L
  <2>1. 1 \in 1..Len(a)
    BY <1>2
  <2>2. D[0 + 1] = a[1]
    BY <1>8, <2>1 DEF Holds
  <2> QED BY <1>2, <1>9, <2>2
<1>11. D[2 + L] = K
  <2>1. 1 \in 1..Len(c)
    BY <1>3
  <2>2. D[(1 + L) + 1] = c[1]
    BY <1>8, <2>1 DEF Holds
  <2> QED BY <1>3, <1>9, <2>2
<1>12. IsDocs(D, paths, dict, docs_off)
  BY <1>1, <1>5, <1>6, <1>8, <1>9, <1>10, <1>11 DEF IsDocs, K, L, d, e
<1> QED BY <1>12 DEF D

\* A sequence of sequences, flattened: each is behind the ones before it.
LEMMA FlatHolds ==
    ASSUME NEW S, NEW n \in Nat, NEW seqs \in [1..n -> Seq(S)], NEW k \in 1..n
    PROVE  /\ Len(FlattenSeq(SubSeq(seqs, 1, k - 1))) \in Nat
           /\ Holds(FlattenSeq(seqs), Len(FlattenSeq(SubSeq(seqs, 1, k - 1))), seqs[k])
<1> DEFINE m == k - 1
           u == SubSeq(seqs, 1, m)
           fu == FlattenSeq(u)
           fs == FlattenSeq(seqs)
<1>1. m \in 0..n /\ m \in Nat
  OBVIOUS
<1>2. seqs \in Seq(Seq(S)) /\ Len(seqs) = n
  BY SeqOver
<1> HIDE DEF m
<1>3. u \in [1..m -> Seq(S)] /\ \A i \in 1..m : u[i] = seqs[i]
  BY <1>1, FirstOf
<1> HIDE DEF u
<1>4. u \in Seq(Seq(S)) /\ Len(u) = m
  BY <1>1, <1>3, SeqOver
<1>5. PICK st : IsFlat(fs, seqs, st)
  BY <1>2, Flattened
<1>6. fu \in Seq(S) /\ \E s2 : IsFlat(fu, u, s2)
  BY <1>4, Flattened
<1> HIDE DEF fu, fs
<1>7. PICK s2 : IsFlat(fu, u, s2)
  BY <1>6
<1>8. /\ st \in [0..n -> Nat] /\ st[0] = 0
      /\ \A i \in 1..n : st[i] = st[i - 1] + Len(seqs[i]) /\ st[i] <= Len(fs)
      /\ \A i \in 1..n : \A j \in 1..Len(seqs[i]) : fs[st[i - 1] + j] = seqs[i][j]
  BY <1>2, <1>5 DEF IsFlat
<1>9. /\ s2 \in [0..m -> Nat] /\ s2[0] = 0 /\ s2[m] = Len(fu)
      /\ \A i \in 1..m : s2[i] = s2[i - 1] + Len(u[i])
  BY <1>4, <1>7 DEF IsFlat
<1>10. s2[m] = st[m]
  <2>1. s2[0] = st[0]
    BY <1>8, <1>9
  <2>2. ASSUME NEW i \in 1..m, s2[i - 1] = st[i - 1] PROVE s2[i] = st[i]
    <3>1. i \in 1..n
      BY <1>1
    <3>2. u[i] = seqs[i]
      BY <1>3
    <3> QED BY <1>8, <1>9, <2>2, <3>1, <3>2, ZenonT(60)
  <2> QED BY <1>1, <2>1, <2>2, FollowsRun
<1>11. Len(fu) = st[k - 1] /\ Len(fu) \in Nat
  <2>1. m \in 0..m
    BY <1>1
  <2>2. s2[m] \in Nat
    BY <1>9, <2>1
  <2> QED BY <1>9, <1>10, <2>2 DEF m
<1>12. Holds(fs, Len(fu), seqs[k])
  <2>1. st[k] = st[k - 1] + Len(seqs[k]) /\ st[k] <= Len(fs)
    BY <1>8
  <2>2. Len(fu) + Len(seqs[k]) <= Len(fs)
    BY <1>11, <2>1
  <2> QED BY <1>8, <1>11, <2>2 DEF Holds
<1> QED BY <1>11, <1>12 DEF fu, fs, u, m

\* A posting list: docids below n in ascending order.
IsPosting(p, n) ==
    /\ p \in Seq(Nat)
    /\ \A i \in 1..Len(p) : p[i] < n
    /\ \A i, j \in 1..Len(p) : i < j => p[i] < p[j]

\* The deltas of a posting list.
LEMMA DeltasOf ==
    ASSUME NEW n \in Nat, NEW p, IsPosting(p, n)
    PROVE  /\ Deltas(p) \in Seq(Nat) /\ Len(Deltas(p)) = Len(p) /\ Len(p) \in Nat
           /\ \A i \in 1..Len(p) : Deltas(p)[i] = IF i = 1 THEN p[1] ELSE p[i] - p[i - 1]
           /\ \A i \in 1..Len(p) : Deltas(p)[i] < n
<1> DEFINE l == Len(p)
           d == Deltas(p)
<1>1. p \in Seq(Nat) /\ l \in Nat /\ p \in [1..l -> Nat]
  BY LenProperties DEF IsPosting
<1>2. d = [i \in 1..l |-> IF i = 1 THEN p[1] ELSE p[i] - p[i - 1]]
  BY DEF Deltas
<1>3. \A i \in 1..l : p[i] < n
  BY DEF IsPosting
<1>4. \A i, j \in 1..l : i < j => p[i] < p[j]
  BY DEF IsPosting
<1> HIDE DEF l
<1>5. ASSUME NEW i \in 1..l
      PROVE  /\ (IF i = 1 THEN p[1] ELSE p[i] - p[i - 1]) \in Nat
             /\ (IF i = 1 THEN p[1] ELSE p[i] - p[i - 1]) < n
  <2>1. CASE i = 1
    BY <1>1, <1>3, <2>1
  <2>2. CASE i # 1
    <3>1. i - 1 \in 1..l /\ i - 1 < i
      BY <1>1, <2>2
    <3>2. p[i - 1] < p[i] /\ p[i] < n /\ p[i - 1] \in Nat /\ p[i] \in Nat
      BY <1>1, <1>3, <1>4, <3>1
    <3> QED BY <2>2, <3>2
  <2> QED BY <2>1, <2>2
<1> HIDE DEF d
<1>6. d \in [1..l -> Nat]
  BY <1>2, <1>5
<1>7. d \in Seq(Nat) /\ Len(d) = l
  BY <1>1, <1>6, SeqOver
<1>8. \A i \in 1..l : d[i] = IF i = 1 THEN p[1] ELSE p[i] - p[i - 1]
  BY <1>2
<1>9. \A i \in 1..l : d[i] < n
  BY <1>5, <1>8
<1> QED BY <1>1, <1>7, <1>8, <1>9 DEF l, d

\* Summing the deltas up gives the posting list back.
LEMMA UndeltaOf ==
    ASSUME NEW n \in Nat, NEW p, IsPosting(p, n)
    PROVE  Undelta(Deltas(p)) = p
<1> DEFINE l == Len(p)
           d == Deltas(p)
<1>1. /\ d \in Seq(Nat) /\ Len(d) = l /\ l \in Nat
      /\ \A i \in 1..l : d[i] = IF i = 1 THEN p[1] ELSE p[i] - p[i - 1]
  BY DeltasOf
<1>2. p \in [1..l -> Nat]
  BY LenProperties DEF IsPosting
<1> HIDE DEF l, d
<1> DEFINE E(f) == [i \in 0..l |-> IF i = 0 THEN 0 ELSE f[i - 1] + d[i]]
           c == CHOOSE f : f = E(f)
           g == [i \in 0..l |-> IF i = 0 THEN 0 ELSE p[i]]
<1>3. Undelta(d) = [i \in 1..l |-> c[i]]
  BY <1>1 DEF Undelta
<1>4. \A i \in 0..l : g[i] = IF i = 0 THEN 0 ELSE p[i]
  OBVIOUS
<1>5. ASSUME NEW i \in 1..l PROVE g[i] = g[i - 1] + d[i]
  <2>1. CASE i = 1
    <3>1. 0 \in 0..l /\ 1 \in 0..l /\ 1 \in 1..l
      BY <1>1, <2>1
    <3>2. g[0] = 0 /\ g[1] = p[1] /\ d[1] = p[1] /\ p[1] \in Nat
      BY <1>1, <1>2, <3>1
    <3> HIDE DEF g
    <3> QED BY <2>1, <3>2
  <2>2. CASE i # 1
    <3>1. i - 1 \in 1..l /\ i - 1 \in 0..l /\ i \in 0..l
      BY <1>1, <2>2
    <3>2. g[i - 1] = p[i - 1] /\ g[i] = p[i] /\ p[i] \in Nat /\ p[i - 1] \in Nat
      BY <1>2, <3>1
    <3>3. d[i] = p[i] - p[i - 1]
      BY <1>1, <2>2
    <3> HIDE DEF g
    <3> QED BY <3>2, <3>3
  <2> QED BY <2>1, <2>2
<1>6. g = E(g)
  <2>1. g = [i \in 0..l |-> g[i]] /\ g[0] = 0
    BY <1>1
  <2> HIDE DEF g
  <2>2. ASSUME NEW i \in 0..l PROVE g[i] = IF i = 0 THEN 0 ELSE g[i - 1] + d[i]
    <3>1. CASE i = 0
      BY <2>1, <3>1
    <3>2. CASE i # 0
      <4>1. i \in 1..l
        BY <3>2
      <4> QED BY <1>5, <3>2, <4>1
    <3> QED BY <3>1, <3>2
  <2> QED BY <2>1, <2>2
<1>7. c = E(c)
  <2> HIDE DEF g
  <2> QED BY <1>6
<1>8. \A i \in 0..l : c[i] = IF i = 0 THEN 0 ELSE c[i - 1] + d[i]
  <2> HIDE DEF c
  <2> QED BY <1>7
<1> HIDE DEF c
<1> DEFINE G == {i \in 0..l : c[i] = g[i]}
<1>9. 0 \in G
  BY <1>1, <1>8
<1>10. ASSUME NEW i \in 1..l, i - 1 \in G PROVE i \in G
  <2>1. i \in 0..l /\ i # 0 /\ c[i - 1] = g[i - 1]
    BY <1>10
  <2>2. c[i] = c[i - 1] + d[i]
    BY <1>8, <2>1
  <2>3. c[i] = g[i]
    BY <1>5, <2>1, <2>2
  <2> HIDE DEF g
  <2> QED BY <2>1, <2>3
<1> HIDE DEF G
<1>11. 0..l \subseteq G
  BY <1>1, <1>9, <1>10, Induction
<1>12. \A i \in 1..l : c[i] = p[i]
  <2>1. ASSUME NEW i \in 1..l PROVE c[i] = p[i]
    <3>1. i \in 0..l /\ i # 0
      OBVIOUS
    <3>2. i \in G
      BY <1>11, <3>1
    <3>3. c[i] = g[i]
      BY <3>2 DEF G
    <3> QED BY <1>4, <3>1, <3>3
  <2> QED BY <2>1
<1>13. [i \in 1..l |-> c[i]] = p
  BY <1>2, <1>12
<1> QED BY <1>3, <1>13 DEF d

------------------------------
(* The posting lists behind the table *)

\* The posting lists of a builder with n documents, under hash h.
IsPostings(m, h, n) ==
    /\ DOMAIN m \in SUBSET Trigram /\ IsFiniteSet(DOMAIN m)
    /\ \A t \in DOMAIN m : h[t] \in Nat /\ IsPosting(m[t], n)

NumKeys(m) == Cardinality(DOMAIN m)
EntrySet(m, base) == {Entries(m, base)[k] : k \in 1..NumKeys(m)}
SlotRecord == [key : Trigram, count : Nat, off : Nat, len : Nat]

\* The keys in order, the encoded lists and the entries that point to them.
IsEntries(m, base) ==
    LET N    == NumKeys(m)
        keys == SortedKeys(DOMAIN m)
        encs == PostingSection(m)
        flat == FlattenSeq(encs)
        ents == Entries(m, base)
    IN  /\ N \in Nat /\ keys \in [1..N -> DOMAIN m]
        /\ encs \in [1..N -> Seq(Nat)] /\ flat \in Seq(Nat)
        /\ ents \in [1..N -> EntrySet(m, base)] /\ EntrySet(m, base) \subseteq SlotRecord
        /\ \A k \in 1..N :
              /\ encs[k] = encode(Deltas(m[keys[k]]))
              /\ ents[k].key = keys[k] /\ ents[k].count = Len(m[keys[k]]) /\ ents[k].len = Len(encs[k])
              /\ ents[k].off - base \in Nat /\ Holds(flat, ents[k].off - base, encs[k])

\* The entries of finish and the posting lists they point to.
LEMMA EntriesLayout ==
    ASSUME NEW m, NEW h, NEW n \in Nat, IsPostings(m, h, n), NEW base \in Nat
    PROVE  IsEntries(m, base)
<1> DEFINE N == NumKeys(m)
           keys == SortedKeys(DOMAIN m)
           encs == PostingSection(m)
           flat == FlattenSeq(encs)
           ents == Entries(m, base)
           off(k) == base + Len(FlattenSeq(SubSeq(encs, 1, k - 1)))
<1>1. DOMAIN m \in SUBSET Trigram /\ IsFiniteSet(DOMAIN m)
  BY DEF IsPostings
<1>2. N \in Nat
  BY <1>1, FS_CardinalityType DEF NumKeys
<1>3. keys \in [1..N -> DOMAIN m]
  BY <1>1, KeysOnce DEF NumKeys
<1>4. Len(keys) = N
  <2> HIDE DEF N, keys
  <2> QED BY <1>2, <1>3, SeqOver
<1>5. encs = [k \in 1..N |-> encode(Deltas(m[keys[k]]))]
  BY <1>4 DEF PostingSection
<1>6. ents = [k \in 1..N |-> [key |-> keys[k], count |-> Len(m[keys[k]]), off |-> off(k), len |-> Len(encs[k])]]
  BY <1>4 DEF Entries
<1> HIDE DEF N, keys, encs, ents
<1>7. ASSUME NEW k \in 1..N
      PROVE  encode(Deltas(m[keys[k]])) \in Seq(Nat) /\ Len(m[keys[k]]) \in Nat /\ keys[k] \in Trigram
  <2> DEFINE p == m[keys[k]]
             d == Deltas(p)
  <2>1. keys[k] \in DOMAIN m
    BY <1>3
  <2>2. IsPosting(p, n)
    BY <2>1 DEF IsPostings
  <2>3. keys[k] \in Trigram
    BY <1>1, <2>1
  <2> HIDE DEF p
  <2>4. d \in Seq(Nat) /\ Len(p) \in Nat
    BY <2>2, DeltasOf
  <2> HIDE DEF d
  <2>5. encode(d) \in Seq(Nat)
    BY <2>4, EncodeLayout
  <2> QED BY <2>3, <2>4, <2>5 DEF p, d
<1>8. encs \in [1..N -> Seq(Nat)]
  BY <1>5, <1>7
<1>9. flat \in Seq(Nat)
  <2>1. encs \in Seq(Seq(Nat))
    BY <1>2, <1>8, SeqOver
  <2> QED BY <2>1, Flattened
<1>10. ASSUME NEW k \in 1..N
       PROVE  off(k) \in Nat /\ off(k) - base \in Nat /\ Holds(flat, off(k) - base, encs[k])
  <2> DEFINE l == Len(FlattenSeq(SubSeq(encs, 1, k - 1)))
  <2>1. l \in Nat /\ Holds(flat, l, encs[k])
    BY <1>2, <1>8, FlatHolds
  <2> HIDE DEF l, flat
  <2>2. off(k) = base + l
    BY DEF l
  <2> HIDE DEF off
  <2>3. off(k) \in Nat /\ off(k) - base = l
    BY <2>1, <2>2
  <2> QED BY <2>1, <2>3
<1> HIDE DEF flat, off
<1>11. \A k \in 1..N : Len(encs[k]) \in Nat
  BY <1>8, LenProperties
<1>12. ASSUME NEW k \in 1..N
       PROVE  /\ ents[k] = [key |-> keys[k], count |-> Len(m[keys[k]]), off |-> off(k), len |-> Len(encs[k])]
              /\ ents[k] \in SlotRecord
  <2>1. ents[k] = [key |-> keys[k], count |-> Len(m[keys[k]]), off |-> off(k), len |-> Len(encs[k])]
    BY <1>6
  <2>2. keys[k] \in Trigram /\ Len(m[keys[k]]) \in Nat /\ off(k) \in Nat /\ Len(encs[k]) \in Nat
    BY <1>7, <1>10, <1>11
  <2> QED BY <2>1, <2>2 DEF SlotRecord
<1>13. EntrySet(m, base) = {ents[k] : k \in 1..N}
  BY DEF EntrySet, ents, N
<1>14. ents \in [1..N -> EntrySet(m, base)]
  <2>1. ents = [k \in 1..N |-> ents[k]]
    BY <1>6
  <2> QED BY <1>13, <2>1
<1>15. EntrySet(m, base) \subseteq SlotRecord
  BY <1>12, <1>13
<1>16. ASSUME NEW k \in 1..N
       PROVE  /\ encs[k] = encode(Deltas(m[keys[k]]))
              /\ ents[k].key = keys[k] /\ ents[k].count = Len(m[keys[k]]) /\ ents[k].len = Len(encs[k])
              /\ ents[k].off - base \in Nat /\ Holds(flat, ents[k].off - base, encs[k])
  <2>1. encs[k] = encode(Deltas(m[keys[k]]))
    BY <1>5
  <2> DEFINE x == Len(m[keys[k]])
             y == Len(encs[k])
             z == off(k)
             e == ents[k]
  <2>2. e = [key |-> keys[k], count |-> x, off |-> z, len |-> y]
    BY <1>12
  <2> HIDE DEF x, y, z, e
  <2>3. e.key = keys[k] /\ e.count = x /\ e.len = y /\ e.off = z
    BY <2>2
  <2> QED BY <1>10, <2>1, <2>3 DEF x, y, z, e
<1> QED BY <1>2, <1>3, <1>8, <1>9, <1>14, <1>15, <1>16 DEF IsEntries, N, keys, encs, flat, ents

\* The entries are what the table can be filled with.
LEMMA EntriesFit ==
    ASSUME NEW m, NEW h, NEW n \in Nat, IsPostings(m, h, n), NEW base \in Nat
    PROVE  EntriesOk(h, EntrySet(m, base)) /\ KeysDiffer(Entries(m, base), NumKeys(m))
<1> DEFINE N == NumKeys(m)
           keys == SortedKeys(DOMAIN m)
           ents == Entries(m, base)
<1>1. /\ keys \in [1..N -> DOMAIN m] /\ EntrySet(m, base) \subseteq SlotRecord
      /\ \A k \in 1..N : ents[k].key = keys[k]
  BY EntriesLayout, ZenonT(60) DEF IsEntries
<1>2. \A i, j \in 1..N : keys[i] = keys[j] => i = j
  BY KeysOnce DEF IsPostings, NumKeys
<1>3. EntrySet(m, base) = {ents[k] : k \in 1..N}
  BY DEF EntrySet
<1> HIDE DEF N, keys, ents
<1>4. ASSUME NEW e \in EntrySet(m, base) PROVE e # EmptySlot /\ h[e.key] \in Nat
  <2>1. e \in SlotRecord
    BY <1>1
  <2>2. e # EmptySlot
    BY <2>1 DEF SlotRecord, EmptySlot
  <2>3. PICK k \in 1..N : e = ents[k]
    BY <1>3
  <2>4. e.key \in DOMAIN m
    BY <1>1, <2>3
  <2> QED BY <2>2, <2>4 DEF IsPostings
<1>5. KeysDiffer(ents, N)
  BY <1>1, <1>2 DEF KeysDiffer
<1> QED BY <1>4, <1>5 DEF EntriesOk, ents, N

\* The table of a builder whose posting lists begin at base.
TableOf(m, h, base) == build_robin_hood(h, Entries(m, base), Slots(NumKeys(m)))

\* The table of no keys is empty.
LEMMA NoTable ==
    ASSUME NEW h, NEW es, Len(es) = 0
    PROVE  build_robin_hood(h, es, 0) = [i \in 1..0 |-> EmptySlot]
<1> DEFINE t0 == [i \in 1..0 |-> EmptySlot]
           E(f) == [j \in 0..0 |-> IF j = 0 THEN t0 ELSE Place(h, f[j - 1], es[j])]
           c == CHOOSE f : f = E(f)
           g == [j \in 0..0 |-> t0]
<1>1. build_robin_hood(h, es, 0) = c[0]
  BY DEF build_robin_hood
<1> HIDE DEF t0
<1>2. g = E(g)
  <2>1. \A j \in 0..0 : j = 0
    OBVIOUS
  <2>2. \A j \in 0..0 : (IF j = 0 THEN t0 ELSE Place(h, g[j - 1], es[j])) = t0
    BY <2>1
  <2> QED BY <2>2
<1>3. c = E(c)
  <2> HIDE DEF g
  <2> QED BY <1>2
<1>4. c[0] = t0
  <2> HIDE DEF c
  <2>1. 0 \in 0..0
    OBVIOUS
  <2> QED BY <1>3, <2>1
<1> QED BY <1>1, <1>4 DEF t0

\* The table section of finish.
LEMMA TableLayout ==
    ASSUME NEW m, NEW h, NEW n \in Nat, IsPostings(m, h, n), NEW base \in Nat
    PROVE  LET s == Slots(NumKeys(m))
           IN  /\ s \in Nat /\ IsCells(TableOf(m, h, base)) /\ Len(TableOf(m, h, base)) = s
               /\ s = 0 => DOMAIN m = {}
               /\ s # 0 => Built(h, EntrySet(m, base), s, Entries(m, base), NumKeys(m), TableOf(m, h, base))
<1> DEFINE N == NumKeys(m)
           s == Slots(N)
           ents == Entries(m, base)
           Ent == EntrySet(m, base)
           t == TableOf(m, h, base)
<1>1. N \in Nat /\ ents \in [1..N -> Ent]
  BY EntriesLayout DEF IsEntries
<1>2. EntriesOk(h, Ent) /\ KeysDiffer(ents, N)
  BY EntriesFit
<1>3. t = build_robin_hood(h, ents, s)
  BY DEF TableOf
<1>4. s \in Nat /\ 2 * N <= s /\ (N = 0 => s = 0)
  <2> HIDE DEF N
  <2> QED BY <1>1, TableSize
<1>5. N = 0 => DOMAIN m = {}
  BY FS_EmptySet DEF NumKeys, IsPostings
<1> HIDE DEF N, s, ents, Ent, t
<1>6. CASE N = 0
  <2>1. s = 0 /\ Len(ents) = 0
    BY <1>1, <1>4, <1>6, SeqOver
  <2>2. t = [i \in 1..0 |-> EmptySlot]
    BY <1>3, <2>1, NoTable
  <2>3. t \in [1..0 -> {EmptySlot}]
    BY <2>2
  <2>4. IsCells(t) /\ Len(t) = 0
    BY <2>3, CellsOver
  <2> QED BY <1>4, <1>5, <1>6, <2>1, <2>4 DEF N, s, t
<1>7. CASE N # 0
  <2>1. N < s /\ s # 0
    BY <1>1, <1>4, <1>7
  <2>2. Built(h, Ent, s, ents, N, t)
    BY <1>1, <1>2, <1>3, <1>4, <2>1, BuildTable
  <2>3. t \in [1..s -> Cells(Ent)]
    BY <2>2 DEF Built
  <2>4. IsCells(t) /\ Len(t) = s
    BY <1>4, <2>3, CellsOver
  <2> QED BY <1>4, <2>1, <2>2, <2>4 DEF N, s, t, ents, Ent
<1> QED BY <1>6, <1>7

\* A trigram's posting list is read back from the file as the builder made
\* it, and a trigram that no document has is not found: whatever the hash
\* makes collide, and wherever a probe wraps around.
THEOREM PostingFound ==
    ASSUME NEW m, NEW h, NEW n \in Nat, n <= PowerOfTwo(32), IsPostings(m, h, n), NEW base \in Nat,
           NEW X, NEW src \in Seq(X), Holds(src, base, FlattenSeq(PostingSection(m))),
           NEW trig, h[trig] \in Nat
    PROVE  posting(h, TableOf(m, h, base), src, trig) = IF trig \in DOMAIN m THEN m[trig] ELSE NoValue
<1> DEFINE N == NumKeys(m)
           s == Slots(N)
           keys == SortedKeys(DOMAIN m)
           encs == PostingSection(m)
           flat == FlattenSeq(encs)
           ents == Entries(m, base)
           Ent == EntrySet(m, base)
           t == TableOf(m, h, base)
<1>1. IsEntries(m, base)
  BY EntriesLayout
<1>2. /\ N \in Nat /\ keys \in [1..N -> DOMAIN m]
      /\ encs \in [1..N -> Seq(Nat)] /\ flat \in Seq(Nat)
      /\ ents \in [1..N -> Ent] /\ Ent \subseteq SlotRecord
  BY <1>1 DEF IsEntries
<1>3. \A k \in 1..N :
        /\ encs[k] = encode(Deltas(m[keys[k]]))
        /\ ents[k].key = keys[k] /\ ents[k].count = Len(m[keys[k]]) /\ ents[k].len = Len(encs[k])
        /\ ents[k].off - base \in Nat /\ Holds(flat, ents[k].off - base, encs[k])
  BY <1>1 DEF IsEntries
<1>4. EntriesOk(h, Ent)
  BY EntriesFit
<1>5. /\ s \in Nat /\ Len(t) = s /\ (s = 0 => DOMAIN m = {})
      /\ s # 0 => Built(h, Ent, s, ents, N, t)
  BY TableLayout
<1>6. \A x \in DOMAIN m : \E k \in 1..N : keys[k] = x
  BY KeysOnce DEF IsPostings, NumKeys
<1>7. \A x \in DOMAIN m : IsPosting(m[x], n)
  BY DEF IsPostings
<1>8. Ent = {ents[k] : k \in 1..N}
  BY DEF EntrySet
<1>9. Holds(src, base, flat)
  OBVIOUS
<1>10. posting(h, t, src, trig) =
         IF Len(t) = 0 THEN NoValue
         ELSE IF Lookup(h, t, trig) = NoValue THEN NoValue
         ELSE Undelta(decode(Slice(src, Lookup(h, t, trig).off, Lookup(h, t, trig).len), Lookup(h, t, trig).count))
  BY DEF posting
<1> HIDE DEF N, s, keys, encs, flat, ents, Ent, t
<1>11. CASE s = 0
  BY <1>5, <1>10, <1>11 DEF t
<1>12. CASE s # 0 /\ trig \notin DOMAIN m
  <2>1. /\ t \in [1..s -> Cells(Ent)]
        /\ \A u \in Ent : Has(t, s, u) <=> \E i \in 1..N : ents[i] = u
    BY <1>5, <1>12 DEF Built
  <2>2. ASSUME NEW i \in 1..s, t[i] # EmptySlot PROVE t[i].key # trig
    <3>1. t[i] \in Ent
      BY <2>1, <2>2 DEF Cells
    <3>2. PICK k \in 1..N : t[i] = ents[k]
      BY <1>8, <3>1
    <3>3. ents[k].key = keys[k] /\ keys[k] \in DOMAIN m
      BY <1>2, <1>3
    <3> QED BY <1>12, <3>2, <3>3
  <2>3. s \in Nat \ {0}
    BY <1>5, <1>12
  <2>4. Lookup(h, t, trig) = NoValue
    BY <1>4, <2>1, <2>2, <2>3, LookupMisses, SMTT(60)
  <2> QED BY <1>10, <1>12, <2>4 DEF t
<1>13. CASE s # 0 /\ trig \in DOMAIN m
  <2>1. /\ t \in [1..s -> Cells(Ent)] /\ Sound(h, t, s)
        /\ \A u \in Ent : Has(t, s, u) <=> \E i \in 1..N : ents[i] = u
    BY <1>5, <1>13 DEF Built
  <2>2. PICK k \in 1..N : keys[k] = trig
    BY <1>6, <1>13
  <2> DEFINE e == ents[k]
             p == m[trig]
             d == Deltas(p)
             c == encs[k]
  <2>3. e \in Ent /\ e.key = trig /\ e.count = Len(p) /\ e.len = Len(c)
        /\ e.off - base \in Nat /\ Holds(flat, e.off - base, c) /\ c = encode(d)
    BY <1>2, <1>3, <2>2
  <2>4. c \in Seq(Nat)
    BY <1>2
  <2>5. Has(t, s, e)
    BY <2>1, <2>3
  <2>6. e \in SlotRecord /\ e # NoValue
    BY <1>2, <2>3, NoneAssumption DEF SlotRecord
  <2>7. e.off \in Nat
    BY <2>6 DEF SlotRecord
  <2>8. IsPosting(p, n)
    BY <1>7, <1>13
  <2> HIDE DEF e, p, c
  <2>9. Lookup(h, t, trig) = e
    <3>1. s \in Nat \ {0}
      BY <1>5, <1>13
    <3>2. Lookup(h, t, e.key) = e
      BY <1>4, <2>1, <2>3, <2>5, <3>1, LookupFinds
    <3> QED BY <2>3, <3>2
  <2>10. Holds(src, e.off, c)
    <3> DEFINE q == e.off - base
    <3>1. q \in Nat /\ base + q = e.off /\ Holds(flat, q, c)
      BY <2>3, <2>7
    <3> HIDE DEF q
    <3>2. Len(src) \in Nat /\ Len(flat) \in Nat /\ Len(c) \in Nat
      BY <1>2, <2>4, LenProperties
    <3>3. Holds(src, base + q, c)
      BY <1>9, <3>1, <3>2, HeldWithin
    <3> QED BY <3>1, <3>3
  <2>11. Slice(src, e.off, e.len) = c
    <3>1. Slice(src, e.off, Len(c)) = c
      BY <2>4, <2>7, <2>10, SliceHeld
    <3> QED BY <2>3, <3>1
  <2>12. d \in Seq(Nat) /\ Len(d) = Len(p) /\ Len(p) \in Nat /\ \A i \in 1..Len(p) : d[i] < n
    BY <2>8, DeltasOf
  <2>13. Undelta(d) = p
    BY <2>8, UndeltaOf
  <2> HIDE DEF d
  <2>14. IsU32(d)
    <3>1. PowerOfTwo(32) \in Nat
      BY Powers
    <3> DEFINE w == PowerOfTwo(32)
    <3> HIDE DEF w
    <3>2. w \in Nat /\ n <= w
      BY <3>1 DEF w
    <3>3. ASSUME NEW i \in 1..Len(d) PROVE d[i] < w
      <4>1. d[i] \in Nat /\ d[i] < n
        BY <2>12, ElementOfSeq
      <4> QED BY <3>2, <4>1
    <3> QED BY <3>3 DEF IsU32, w
  <2>15. decode(c, Len(p)) = d
    <3>1. decode(encode(d), Len(d)) = d
      BY <2>12, <2>14, PostingRoundTrip
    <3> QED BY <2>3, <2>12, <3>1
  <2>16. posting(h, t, src, trig) = Undelta(decode(Slice(src, e.off, e.len), e.count))
    BY <1>5, <1>10, <1>13, <2>6, <2>9
  <2>17. posting(h, t, src, trig) = p
    BY <2>3, <2>11, <2>13, <2>15, <2>16
  <2> QED BY <1>13, <2>17 DEF p, t
<1> QED BY <1>11, <1>12, <1>13

------------------------------
(* The file that finish() writes *)

\* A builder under hash h.
IsBuilder(b, h) ==
    /\ b.paths \in Seq(Text) /\ IsCells(b.meta) /\ Len(b.meta) = Len(b.paths)
    /\ IsPostings(b.try_map, h, Len(b.paths))

MetaOff(b, dict) == 3 + Len(dict) + 2 * NumBlocks(b.paths)
TryOff(b, dict)  == MetaOff(b, dict) + Len(b.meta)
PostOff(b, dict) == TryOff(b, dict) + Slots(NumKeys(b.try_map))
Header(b, dict, build_time) ==
    [num_docs |-> Len(b.paths), build_time |-> build_time, docs_off |-> 1,
     meta_off |-> MetaOff(b, dict), try_off |-> TryOff(b, dict),
     slots_log2 |-> slots_log2(Slots(NumKeys(b.try_map)))]

\* Where every section of the file is.
IsFile(f, h, b, dict, build_time) ==
    LET K == NumBlocks(b.paths)
        L == Len(dict)
    IN  /\ IsCells(f) /\ L \in Nat /\ K \in Nat
        /\ f[1] = Header(b, dict, build_time)
        /\ f[2] = L /\ Holds(f, 2, dict) /\ f[3 + L] = K
        /\ Holds(f, 3 + L, BlockIndex(b.paths, dict, 1)) /\ Len(BlockIndex(b.paths, dict, 1)) = K
        /\ Holds(f, 3 + L + K, BlockFrames(b.paths, dict)) /\ Len(BlockFrames(b.paths, dict)) = K
        /\ IsCells(BlockIndex(b.paths, dict, 1)) /\ IsCells(BlockFrames(b.paths, dict))
        /\ MetaOff(b, dict) \in Nat /\ Holds(f, MetaOff(b, dict), b.meta)
        /\ TryOff(b, dict) \in Nat /\ PostOff(b, dict) \in Nat
        /\ Holds(f, TryOff(b, dict), TableOf(b.try_map, h, PostOff(b, dict)))
        /\ Holds(f, PostOff(b, dict), FlattenSeq(PostingSection(b.try_map)))

\* finish writes a file of that layout.
LEMMA FileLayout ==
    ASSUME NEW h, NEW b, IsBuilder(b, h), NEW dict \in Seq(DictCell), NEW build_time
    PROVE  IsFile(finish(h, b, dict, build_time), h, b, dict, build_time)
<1> DEFINE K == NumBlocks(b.paths)
           L == Len(dict)
           hdr == Header(b, dict, build_time)
           a == <<hdr>>
           D == DocsSection(b.paths, dict, 1)
           s == Slots(NumKeys(b.try_map))
           mo == MetaOff(b, dict)
           to == TryOff(b, dict)
           po == PostOff(b, dict)
           T == TableOf(b.try_map, h, po)
           P == FlattenSeq(PostingSection(b.try_map))
           F == finish(h, b, dict, build_time)
           n == Len(b.paths)
           bi == BlockIndex(b.paths, dict, 1)
           bf == BlockFrames(b.paths, dict)
<1>1. /\ b.paths \in Seq(Text) /\ IsCells(b.meta) /\ Len(b.meta) = n /\ n \in Nat
      /\ IsPostings(b.try_map, h, n)
  BY LenProperties DEF IsBuilder
<1>2. IsDocs(D, b.paths, dict, 1)
  BY <1>1, DocsLayout
<1>3. /\ IsCells(D) /\ Len(D) = 2 + L + 2 * K
      /\ L \in Nat /\ K \in Nat
      /\ D[1] = L /\ Holds(D, 1, dict) /\ D[2 + L] = K
      /\ Holds(D, 2 + L, bi) /\ Len(bi) = K
      /\ Holds(D, 2 + L + K, bf) /\ Len(bf) = K
      /\ IsCells(bi) /\ IsCells(bf)
  BY <1>2 DEF IsDocs
<1> HIDE DEF n
<1>4. s \in Nat
  <2>1. NumKeys(b.try_map) \in Nat
    BY <1>1, FS_CardinalityType DEF IsPostings, NumKeys
  <2> QED BY <2>1, TableSize
<1>5. /\ mo = 1 + Len(D) /\ to = mo + Len(b.meta) /\ po = to + s
      /\ mo \in Nat /\ to \in Nat /\ po \in Nat
  <2>1. mo = 3 + L + 2 * K /\ to = mo + Len(b.meta) /\ po = to + s
    BY DEF MetaOff, TryOff, PostOff
  <2> DEFINE x == Len(b.meta)
             y == Len(D)
  <2>2. x \in Nat /\ L \in Nat /\ K \in Nat /\ s \in Nat /\ y = 2 + L + 2 * K
    BY <1>1, <1>3, <1>4
  <2> HIDE DEF mo, to, po, L, K, s, x, y
  <2>3. mo = 3 + L + 2 * K /\ to = mo + x /\ po = to + s
    BY <2>1 DEF x
  <2>4. mo \in Nat /\ mo = 1 + y
    BY <2>2, <2>3
  <2>5. to \in Nat
    BY <2>2, <2>3, <2>4
  <2>6. po \in Nat
    BY <2>2, <2>3, <2>5
  <2> QED BY <2>3, <2>4, <2>5, <2>6 DEF x, y
<1>6. IsCells(T) /\ Len(T) = s
  <2> HIDE DEF po
  <2> QED BY <1>1, <1>5, TableLayout
<1>7. IsCells(P)
  <2>1. IsEntries(b.try_map, 0)
    BY <1>1, EntriesLayout
  <2>2. P \in Seq(Nat)
    BY <2>1 DEF IsEntries
  <2> HIDE DEF P
  <2> QED BY <2>2 DEF IsCells
<1>8. IsCells(a) /\ Len(a) = 1 /\ a[1] = hdr
  <2> HIDE DEF hdr
  <2> QED BY OneCell
<1>9. F = a \o D \o b.meta \o T \o P
  <2> DEFINE ml == 1 + Len(D)
             tl == ml + Len(b.meta)
             pl == tl + s
  <2>1. F = <<[num_docs |-> Len(b.paths), build_time |-> build_time, docs_off |-> 1,
               meta_off |-> ml, try_off |-> tl, slots_log2 |-> slots_log2(s)]>>
            \o D \o b.meta \o build_robin_hood(h, Entries(b.try_map, pl), s) \o P
    BY DEF finish, HEADER_LEN, NumKeys
  <2>2. ml = mo /\ tl = to /\ pl = po
    BY <1>5
  <2> HIDE DEF ml, tl, pl, mo, to, po, D, P, F
  <2>3. hdr = [num_docs |-> Len(b.paths), build_time |-> build_time, docs_off |-> 1,
               meta_off |-> ml, try_off |-> tl, slots_log2 |-> slots_log2(s)]
    BY <2>2 DEF Header, mo, to
  <2>4. T = build_robin_hood(h, Entries(b.try_map, pl), s)
    BY <2>2 DEF TableOf
  <2> HIDE DEF hdr, T
  <2> QED BY <2>1, <2>3, <2>4
<1> HIDE DEF a, D, T, P, F, s, mo, to, po, L, K, hdr, bi, bf
<1>10. IsFive(F, a, D, b.meta, T, P)
  BY <1>1, <1>3, <1>6, <1>7, <1>8, <1>9, FiveSections
<1>11. /\ IsCells(F) /\ Len(F) \in Nat
       /\ Holds(F, 0, a) /\ Holds(F, 1, D) /\ Holds(F, 1 + Len(D), b.meta)
       /\ Holds(F, 1 + Len(D) + Len(b.meta), T)
       /\ Holds(F, 1 + Len(D) + Len(b.meta) + s, P)
  <2>1. /\ IsCells(F) /\ Len(D) \in Nat /\ Len(b.meta) \in Nat /\ Len(P) \in Nat
        /\ Len(F) = 1 + Len(D) + Len(b.meta) + s + Len(P)
        /\ Holds(F, 0, a) /\ Holds(F, 1, D) /\ Holds(F, 1 + Len(D), b.meta)
        /\ Holds(F, 1 + Len(D) + Len(b.meta), T)
        /\ Holds(F, 1 + Len(D) + Len(b.meta) + s, P)
    BY <1>6, <1>8, <1>10 DEF IsFive
  <2>2. Len(F) \in Nat
    <3> DEFINE x == Len(D)
               y == Len(b.meta)
               z == Len(P)
    <3>1. x \in Nat /\ y \in Nat /\ z \in Nat /\ s \in Nat /\ Len(F) = 1 + x + y + s + z
      BY <1>4, <2>1
    <3> HIDE DEF x, y, z
    <3> QED BY <3>1
  <2> QED BY <2>1, <2>2
<1>12. Holds(F, mo, b.meta) /\ Holds(F, to, T) /\ Holds(F, po, P)
  BY <1>5, <1>11
<1>13. F[1] = hdr
  <2>1. 1 \in 1..Len(a) /\ 0 + 1 = 1
    BY <1>8
  <2>2. F[0 + 1] = a[1]
    BY <1>11, <2>1 DEF Holds
  <2> QED BY <1>8, <2>1, <2>2
<1>14. ASSUME NEW j \in 1..Len(D) PROVE F[1 + j] = D[j]
  BY <1>11 DEF Holds
<1>15. F[2] = L /\ F[3 + L] = K
  <2>1. 1 \in 1..Len(D) /\ 2 + L \in 1..Len(D) /\ 1 + 1 = 2 /\ 1 + (2 + L) = 3 + L
    BY <1>3
  <2>2. F[1 + 1] = D[1] /\ F[1 + (2 + L)] = D[2 + L]
    BY <1>14, <2>1
  <2> QED BY <1>3, <2>1, <2>2
<1>16. Len(D) \in Nat /\ Len(dict) \in Nat
  BY <1>3, LenProperties
<1>17. Holds(F, 2, dict)
  <2>1. 1 \in Nat /\ 1 + 1 = 2
    OBVIOUS
  <2>2. Holds(F, 1 + 1, dict)
    BY <1>3, <1>11, <1>16, <2>1, HeldWithin
  <2> QED BY <2>1, <2>2
<1>18. Holds(F, 3 + L, bi)
  <2>1. 1 \in Nat /\ 2 + L \in Nat /\ 1 + (2 + L) = 3 + L
    BY <1>3
  <2>2. Holds(F, 1 + (2 + L), bi)
    BY <1>3, <1>11, <1>16, <2>1, HeldWithin
  <2> QED BY <2>1, <2>2
<1>19. Holds(F, 3 + L + K, bf)
  <2>1. 1 \in Nat /\ 2 + L + K \in Nat /\ 1 + (2 + L + K) = 3 + L + K
    BY <1>3
  <2>2. Holds(F, 1 + (2 + L + K), bf)
    BY <1>3, <1>11, <1>16, <2>1, HeldWithin
  <2> QED BY <2>1, <2>2
<1>20. IsFile(F, h, b, dict, build_time)
  BY <1>3, <1>5, <1>11, <1>12, <1>13, <1>15, <1>17, <1>18, <1>19
     DEF IsFile, K, L, mo, to, po, T, P, hdr, bi, bf
<1> QED BY <1>20 DEF F

\* What open() makes of the file.
IsReader(r, b, dict) ==
    LET K == NumBlocks(b.paths)
    IN  /\ r.num_docs = Len(b.paths)
        /\ r.meta_off = MetaOff(b, dict) /\ r.try_off = TryOff(b, dict)
        /\ r.slots = Slots(NumKeys(b.try_map)) /\ r.dict = dict
        /\ r.blocks = BlockIndex(b.paths, dict, 1)
        /\ r.block_start \in [1..K -> Nat]
        /\ \A i \in 1..K : r.block_start[i] = BLOCK_PATHS * (i - 1)

\* The documents before each block.
LEMMA BlockStarts ==
    ASSUME NEW paths \in Seq(Text), NEW blocks, NEW K, K = NumBlocks(paths),
           \A k \in 1..K : blocks[k].count = Len(Chunks(paths)[k])
    PROVE  LET E(f) == [i \in 0..K |-> IF i = 0 THEN 0 ELSE f[i - 1] + blocks[i].count]
               c == CHOOSE f : f = E(f)
           IN  \A i \in 1..K : c[i - 1] = BLOCK_PATHS * (i - 1)
<1> DEFINE B == BLOCK_PATHS
           n == Len(paths)
<1>1. B \in Nat \ {0} /\ n \in Nat
  BY BlockPathsAssumption, LenProperties
<1>2. K \in Nat /\ \A k \in 1..K : IsChunk(Chunks(paths)[k], paths, B, k)
  BY BlocksOfPaths DEF IsBlocks
<1>3. K = CeilDiv(n, B)
  BY DEF NumBlocks
<1> HIDE DEF B, n
<1>4. \A k \in 1..K : B * (k - 1) \in Nat /\ B * (k - 1) < n
  BY <1>1, <1>3, CeilDivision
<1>5. ASSUME NEW k \in 1..K PROVE blocks[k].count = IF B * k <= n THEN B ELSE n - B * (k - 1)
  BY <1>2 DEF IsChunk, n
<1> DEFINE g == [i \in 0..K |-> IF B * i <= n THEN B * i ELSE n]
           E(f) == [i \in 0..K |-> IF i = 0 THEN 0 ELSE f[i - 1] + blocks[i].count]
           c == CHOOSE f : f = E(f)
<1>6. g = [i \in 0..K |-> g[i]] /\ \A i \in 0..K : g[i] = IF B * i <= n THEN B * i ELSE n
  OBVIOUS
<1> HIDE DEF g
<1>7. g[0] = 0
  <2>1. 0 \in 0..K /\ B * 0 = 0
    BY <1>1, <1>2
  <2>2. g[0] = IF B * 0 <= n THEN B * 0 ELSE n
    BY <1>6, <2>1
  <2> QED BY <1>1, <2>1, <2>2
<1>8. ASSUME NEW i \in 1..K PROVE g[i - 1] = B * (i - 1)
  <2>1. i - 1 \in 0..K
    BY <1>2
  <2>2. g[i - 1] = IF B * (i - 1) <= n THEN B * (i - 1) ELSE n
    BY <1>6, <2>1
  <2>3. B * (i - 1) \in Nat /\ B * (i - 1) < n
    BY <1>4
  <2> DEFINE x == B * (i - 1)
  <2> HIDE DEF x
  <2>4. x \in Nat /\ x < n /\ g[i - 1] = IF x <= n THEN x ELSE n
    BY <2>2, <2>3 DEF x
  <2>5. g[i - 1] = x
    BY <1>1, <2>4
  <2> QED BY <2>5 DEF x
<1>9. ASSUME NEW i \in 1..K PROVE g[i] = g[i - 1] + blocks[i].count
  <2> DEFINE x == B * (i - 1)
             y == B * i
  <2>1. y = x + B
    <3>1. i \in Int /\ B \in Int
      BY <1>1
    <3>2. B * (i - 1) = B * i - B
      BY <3>1
    <3>3. B * i \in Int
      BY <3>1
    <3> QED BY <3>1, <3>2, <3>3
  <2>2. x \in Nat /\ x < n
    BY <1>4
  <2>3. i \in 0..K
    OBVIOUS
  <2>4. g[i] = IF y <= n THEN y ELSE n
    BY <1>6, <2>3
  <2>5. blocks[i].count = IF y <= n THEN B ELSE n - x
    BY <1>5
  <2>6. g[i - 1] = x
    BY <1>8
  <2> HIDE DEF x, y
  <2> QED BY <1>1, <2>1, <2>2, <2>4, <2>5, <2>6
<1>10. g = E(g)
  <2>1. ASSUME NEW i \in 0..K PROVE g[i] = IF i = 0 THEN 0 ELSE g[i - 1] + blocks[i].count
    <3>1. CASE i = 0
      BY <1>7, <3>1
    <3>2. CASE i # 0
      <4>1. i \in 1..K
        BY <3>2
      <4> QED BY <1>9, <3>2, <4>1
    <3> QED BY <3>1, <3>2
  <2> QED BY <1>6, <2>1
<1>11. c = E(c)
  BY <1>10
<1>12. \A i \in 0..K : c[i] = IF i = 0 THEN 0 ELSE c[i - 1] + blocks[i].count
  <2> HIDE DEF c
  <2> QED BY <1>11
<1> HIDE DEF c
<1> DEFINE G == {i \in 0..K : c[i] = g[i]}
<1>13. 0 \in G
  <2>1. 0 \in 0..K
    BY <1>2
  <2> QED BY <1>7, <1>12, <2>1
<1>14. ASSUME NEW i \in 1..K, i - 1 \in G PROVE i \in G
  <2>1. i \in 0..K /\ i # 0 /\ c[i - 1] = g[i - 1]
    BY <1>14
  <2> QED BY <1>9, <1>12, <2>1
<1> HIDE DEF G
<1>15. 0..K \subseteq G
  BY <1>2, <1>13, <1>14, Induction
<1>16. ASSUME NEW i \in 1..K PROVE c[i - 1] = B * (i - 1)
  <2>1. i - 1 \in 0..K
    BY <1>2
  <2>2. i - 1 \in G
    BY <1>15, <2>1
  <2>3. c[i - 1] = g[i - 1]
    BY <2>2 DEF G
  <2> QED BY <1>8, <2>3
<1> QED BY <1>16 DEF c, B

\* Opening such a file yields such a reader.
LEMMA OpenFile ==
    ASSUME NEW h, NEW b, IsBuilder(b, h), NEW dict \in Seq(DictCell), NEW build_time,
           NEW src, IsFile(src, h, b, dict, build_time)
    PROVE  IsReader(open(src), b, dict)
<1> DEFINE K == NumBlocks(b.paths)
           L == Len(dict)
           bi == BlockIndex(b.paths, dict, 1)
           s == Slots(NumKeys(b.try_map))
           r == open(src)
<1>1. /\ IsCells(src) /\ L \in Nat /\ K \in Nat
      /\ src[1] = Header(b, dict, build_time)
      /\ src[2] = L /\ Holds(src, 2, dict) /\ src[3 + L] = K
      /\ Holds(src, 3 + L, bi) /\ Len(bi) = K /\ IsCells(bi)
  BY DEF IsFile
<1>2. PICK X : src \in Seq(X)
  BY <1>1 DEF IsCells
<1>3. PICK Y : bi \in Seq(Y)
  BY <1>1 DEF IsCells
<1>4. Slice(src, 3 + L, K) = bi
  <2>1. 3 + L \in Nat
    BY <1>1
  <2> HIDE DEF bi, L
  <2>2. Slice(src, 3 + L, Len(bi)) = bi
    BY <1>1, <1>2, <1>3, <2>1, SliceHeld
  <2> QED BY <1>1, <2>2
<1>5. Slice(src, 2, L) = dict
  BY <1>1, <1>2, SliceHeld
<1> DEFINE hdr == src[1]
<1>6. /\ hdr.num_docs = Len(b.paths) /\ hdr.docs_off = 1 /\ hdr.meta_off = MetaOff(b, dict)
      /\ hdr.try_off = TryOff(b, dict) /\ hdr.slots_log2 = slots_log2(s)
  BY <1>1 DEF Header
<1>7. SlotsOf(slots_log2(s)) = s
  <2>1. NumKeys(b.try_map) \in Nat
    BY FS_CardinalityType DEF IsBuilder, IsPostings, NumKeys
  <2> QED BY <2>1, TableSize
<1> DEFINE dl == src[hdr.docs_off + 1]
           ib == hdr.docs_off + 1 + dl
           blocks == Slice(src, ib + 1, src[ib + 1])
           E(f) == [i \in 0..Len(blocks) |-> IF i = 0 THEN 0 ELSE f[i - 1] + blocks[i].count]
           c == CHOOSE f : f = E(f)
<1>8. r = [num_docs |-> hdr.num_docs, build_time |-> hdr.build_time,
           meta_off |-> hdr.meta_off, try_off |-> hdr.try_off,
           slots    |-> SlotsOf(hdr.slots_log2),
           dict     |-> Slice(src, hdr.docs_off + 1, dl),
           blocks   |-> blocks,
           block_start |-> [i \in 1..Len(blocks) |-> c[i - 1]]]
  BY DEF open
<1> HIDE DEF hdr, L, K, s, bi
<1>9. dl = L
  <2>1. hdr.docs_off + 1 = 2
    BY <1>6
  <2> QED BY <1>1, <2>1
<1> HIDE DEF dl
<1>10. ib = 2 + L /\ ib + 1 = 3 + L
  BY <1>1, <1>6, <1>9
<1> HIDE DEF ib
<1>11. blocks = bi
  BY <1>1, <1>4, <1>10
<1> HIDE DEF blocks
<1>12. \A k \in 1..K : bi[k].count = Len(Chunks(b.paths)[k])
  BY DEF bi, K, BlockIndex, BlockEntry
<1>13. \A i \in 1..K : c[i - 1] = BLOCK_PATHS * (i - 1)
  <2> DEFINE E2(f) == [i \in 0..K |-> IF i = 0 THEN 0 ELSE f[i - 1] + bi[i].count]
             c2 == CHOOSE f : f = E2(f)
  <2>1. b.paths \in Seq(Text)
    BY DEF IsBuilder
  <2>2. \A i \in 1..K : c2[i - 1] = BLOCK_PATHS * (i - 1)
    BY <1>12, <2>1, BlockStarts, SMTT(60) DEF K
  <2>3. c = c2
    BY <1>1, <1>11
  <2> HIDE DEF c, c2
  <2> QED BY <2>2, <2>3
<1> HIDE DEF c, r
<1>14. /\ r.num_docs = hdr.num_docs /\ r.meta_off = hdr.meta_off /\ r.try_off = hdr.try_off
       /\ r.slots = SlotsOf(hdr.slots_log2) /\ r.dict = Slice(src, hdr.docs_off + 1, dl)
       /\ r.blocks = blocks /\ r.block_start = [i \in 1..Len(blocks) |-> c[i - 1]]
  BY <1>8
<1>15. r.dict = dict
  <2>1. hdr.docs_off + 1 = 2
    BY <1>6
  <2> QED BY <1>5, <1>9, <1>14, <2>1
<1>16. r.block_start = [i \in 1..K |-> c[i - 1]]
  BY <1>1, <1>11, <1>14
<1>17. /\ r.block_start \in [1..K -> Nat]
       /\ \A i \in 1..K : r.block_start[i] = BLOCK_PATHS * (i - 1)
  <2>1. \A i \in 1..K : BLOCK_PATHS * (i - 1) \in Nat
    <3>1. \A i \in 1..K : i - 1 \in Nat
      BY <1>1
    <3> QED BY <3>1, BlockPathsAssumption
  <2>2. \A i \in 1..K : r.block_start[i] = c[i - 1]
    BY <1>16
  <2>3. \A i \in 1..K : r.block_start[i] = BLOCK_PATHS * (i - 1)
    BY <1>13, <2>2
  <2>4. r.block_start = [i \in 1..K |-> r.block_start[i]]
    BY <1>16
  <2>5. \A i \in 1..K : r.block_start[i] \in Nat
    BY <2>1, <2>3
  <2> QED BY <2>3, <2>4, <2>5
<1>18. IsReader(r, b, dict)
  BY <1>6, <1>7, <1>11, <1>14, <1>15, <1>17 DEF IsReader, K, s, bi
<1> QED BY <1>18 DEF r

\* The greatest element of a set of numbers up to n.
LEMMA MaxIsGreatest ==
    ASSUME NEW n \in Nat, NEW T \in SUBSET (1..n), T # {}
    PROVE  Max(T) \in T /\ \A y \in T : Max(T) >= y
<1> DEFINE U == {n - x : x \in T}
<1>1. U \in SUBSET Nat /\ U # {}
  <2>1. \A x \in T : n - x \in Nat
    OBVIOUS
  <2>2. PICK x \in T : TRUE
    OBVIOUS
  <2>3. n - x \in U
    OBVIOUS
  <2> QED BY <2>1, <2>3
<1> HIDE DEF U
<1>2. PICK u \in U : \A v \in U : u <= v
  BY <1>1, LeastNatural
<1>3. PICK x \in T : u = n - x
  BY DEF U
<1>4. ASSUME NEW y \in T PROVE x >= y
  <2>1. n - y \in U
    BY DEF U
  <2>2. u <= n - y
    BY <1>2, <2>1
  <2>3. x \in 1..n /\ y \in 1..n
    OBVIOUS
  <2> QED BY <1>3, <2>2, <2>3
<1> QED BY <1>4 DEF Max

\* The block of a docid, whether the docid is in range, and its place there.
IsBlockOf(r, paths, docid, j) ==
    LET c == Chunks(paths)[j]
        k == docid - r.block_start[j]
    IN  /\ j \in 1..NumBlocks(paths)
        /\ r.block_start[j] = BLOCK_PATHS * (j - 1) /\ k \in Nat
        /\ InRange(r, docid) <=> docid < Len(paths)
        /\ c \in Seq(Text)
        /\ docid < Len(paths) => k < Len(c) /\ c[k + 1] = paths[docid + 1]

\* The block a docid falls in, found by its first docids.
LEMMA BlockOfDoc ==
    ASSUME NEW b, b.paths \in Seq(Text), NEW dict, NEW r, IsReader(r, b, dict), NEW docid \in Nat,
           NumBlocks(b.paths) # 0
    PROVE  IsBlockOf(r, b.paths, docid, BlockOf(r, docid))
<1> DEFINE K == NumBlocks(b.paths)
           B == BLOCK_PATHS
           n == Len(b.paths)
           T == {1} \cup {i \in DOMAIN r.block_start : r.block_start[i] <= docid}
           j == BlockOf(r, docid)
           c == Chunks(b.paths)[j]
           ps == b.paths
<1>1. /\ r.blocks = BlockIndex(b.paths, dict, 1)
      /\ r.block_start \in [1..K -> Nat]
      /\ \A i \in 1..K : r.block_start[i] = B * (i - 1)
  BY DEF IsReader
<1>2. IsBlocks(ps, K)
  BY BlocksOfPaths
<1>3. /\ K \in Nat /\ Chunks(ps) \in [1..K -> Seq(Text)]
      /\ \A k \in 1..K : IsChunk(Chunks(ps)[k], ps, B, k)
  BY <1>2 DEF IsBlocks
<1>4. B \in Nat \ {0} /\ n \in Nat
  BY BlockPathsAssumption, LenProperties
<1>5. K = CeilDiv(n, B)
  BY DEF NumBlocks
<1>6. \A i \in 1..K : r.blocks[i].count = Len(Chunks(ps)[i])
  BY <1>1 DEF BlockIndex, BlockEntry
<1>7. r.blocks # <<>>
  <2>1. 1 \in DOMAIN r.blocks
    BY <1>1, <1>3 DEF BlockIndex
  <2>2. 1 \notin DOMAIN <<>>
    OBVIOUS
  <2> QED BY <2>1, <2>2
<1>8. j = Max(T)
  BY DEF BlockOf
<1>9. InRange(r, docid) <=> docid - r.block_start[j] < r.blocks[j].count
  BY <1>7 DEF InRange
<1>10. K # 0
  OBVIOUS
<1>11. DOMAIN r.block_start = 1..K
  BY <1>1
<1> HIDE DEF K, B, n, j
<1>12. T \in SUBSET (1..K) /\ T # {}
  BY <1>3, <1>10, <1>11
<1>13. j \in T /\ \A y \in T : j >= y
  <2> HIDE DEF T
  <2> QED BY <1>3, <1>8, <1>12, MaxIsGreatest
<1>14. j \in 1..K
  BY <1>12, <1>13
<1> DEFINE x == B * (j - 1)
           y == B * j
<1>15. y = x + B /\ x \in Nat /\ y \in Nat
  <2>1. j \in Int /\ B \in Int /\ j - 1 \in Nat
    BY <1>3, <1>4, <1>14
  <2>2. B * (j - 1) = B * j - B /\ B * j \in Int /\ B * (j - 1) \in Nat
    BY <1>4, <2>1
  <2> QED BY <1>4, <2>2
<1>16. r.block_start[j] = x
  BY <1>1, <1>14
<1>17. x <= docid
  <2>1. CASE j = 1
    <3>1. x = 0
      BY <1>4, <2>1
    <3> HIDE DEF x
    <3> QED BY <3>1
  <2>2. CASE j # 1
    <3>1. r.block_start[j] <= docid
      BY <1>13, <2>2
    <3> QED BY <1>16, <3>1
  <2> QED BY <2>1, <2>2
<1>18. ASSUME j < K PROVE docid < y /\ y <= n
  <2>1. j + 1 \in 1..K /\ (j + 1) - 1 = j
    BY <1>3, <1>14, <1>18
  <2>2. r.block_start[j + 1] = y
    <3>1. r.block_start[j + 1] = B * ((j + 1) - 1)
      BY <1>1, <2>1
    <3> QED BY <2>1, <3>1
  <2>3. j + 1 \notin T
    BY <1>3, <1>13, <1>14
  <2>4. ~(y <= docid)
    BY <1>11, <2>1, <2>2, <2>3
  <2>5. y <= n
    <3>1. j \in 1..(K - 1)
      BY <1>3, <1>14, <1>18
    <3>2. \A k \in 1..(CeilDiv(n, B) - 1) : B * k <= n
      BY <1>4, CeilDivision
    <3> QED BY <1>5, <3>1, <3>2
  <2> HIDE DEF y
  <2> QED BY <1>15, <2>4, <2>5
<1>19. ASSUME j = K PROVE n <= y
  <2>1. n <= B * CeilDiv(n, B)
    BY <1>4, CeilDivision
  <2> QED BY <1>5, <1>19, <2>1
<1>20. IsChunk(c, ps, B, j) /\ c \in Seq(Text)
  BY <1>3, <1>14
<1> DEFINE l == Len(c)
<1>21. /\ l = IF y <= n THEN B ELSE n - x
       /\ \A i \in 1..l : c[i] = ps[x + i]
  BY <1>20 DEF IsChunk, n
<1>22. r.blocks[j].count = l
  BY <1>6, <1>14
<1> HIDE DEF x, y, l, c
<1> DEFINE k == docid - x
<1>23. k \in Nat
  BY <1>15, <1>17
<1>24. k < l <=> docid < n
  <2>1. CASE j < K
    BY <1>4, <1>15, <1>17, <1>18, <1>21, <2>1
  <2>2. CASE j = K
    BY <1>4, <1>15, <1>17, <1>19, <1>21, <2>2
  <2> QED BY <1>3, <1>14, <2>1, <2>2
<1>25. ASSUME k < l PROVE c[k + 1] = ps[docid + 1]
  <2>1. l \in Nat
    BY <1>20, LenProperties DEF l
  <2>2. k + 1 \in 1..l /\ x + (k + 1) = docid + 1
    BY <1>15, <1>23, <1>25, <2>1
  <2>3. c[k + 1] = ps[x + (k + 1)]
    BY <1>21, <2>2
  <2> QED BY <2>2, <2>3
<1>26. InRange(r, docid) <=> docid < n
  BY <1>9, <1>16, <1>22, <1>24
<1>27. docid - r.block_start[j] = k
  BY <1>16
<1> HIDE DEF k
<1>28. IsBlockOf(r, ps, docid, j)
  BY <1>14, <1>16, <1>20, <1>23, <1>24, <1>25, <1>26, <1>27 DEF IsBlockOf, K, n, x, c, l, B
<1> QED BY <1>28 DEF j

\* A block is read back as the paths it was made from.
LEMMA ReadBlockOf ==
    ASSUME NEW h, NEW b, b.paths \in Seq(Text), NEW dict, NEW build_time,
           NEW src, IsFile(src, h, b, dict, build_time), NEW r, IsReader(r, b, dict),
           NEW i \in 1..NumBlocks(b.paths)
    PROVE  ReadBlock(src, r, i) = PrefixedPaths(Chunks(b.paths)[i])
<1> DEFINE K == NumBlocks(b.paths)
           L == Len(dict)
           bf == BlockFrames(b.paths, dict)
           x == [data |-> PrefixedPaths(Chunks(b.paths)[i]), dict |-> dict]
           o == 1 + 1 + L + 1 + K + (i - 1)
           e == r.blocks[i]
           q == 3 + L + K + (i - 1)
<1>1. /\ IsCells(src) /\ L \in Nat /\ K \in Nat
      /\ Holds(src, 3 + L + K, bf) /\ Len(bf) = K
  BY DEF IsFile
<1>2. r.blocks = BlockIndex(b.paths, dict, 1) /\ r.dict = dict
  BY DEF IsReader
<1>3. e.off = o /\ e.clen = 1
  BY <1>2 DEF BlockIndex, BlockEntry
<1>4. bf[i] = x
  BY DEF BlockFrames
<1> HIDE DEF L, K, bf, x, e
<1>5. o = q /\ q \in Nat
  BY <1>1 DEF K
<1>6. i \in 1..K
  BY DEF K
<1>7. src[(3 + L + K) + i] = x /\ (3 + L + K) + i <= Len(src)
  <2>1. (3 + L + K) + K <= Len(src) /\ src[(3 + L + K) + i] = bf[i]
    BY <1>1, <1>6 DEF Holds
  <2>2. Len(src) \in Nat
    BY <1>1, LenProperties DEF IsCells
  <2> QED BY <1>1, <1>4, <1>6, <2>1, <2>2
<1>8. Holds(src, q, <<x>>)
  <2>1. q + 1 = (3 + L + K) + i
    BY <1>1
  <2>2. Len(<<x>>) = 1 /\ <<x>>[1] = x /\ \A j \in 1..1 : j = 1
    OBVIOUS
  <2>3. q + Len(<<x>>) <= Len(src)
    BY <1>7, <2>1, <2>2
  <2>4. \A j \in 1..Len(<<x>>) : src[q + j] = <<x>>[j]
    BY <1>7, <2>1, <2>2
  <2> HIDE DEF q
  <2> QED BY <2>3, <2>4 DEF Holds
<1> HIDE DEF o, q
<1>9. Slice(src, e.off, e.clen) = <<x>>
  <2>1. PICK X : src \in Seq(X)
    BY <1>1 DEF IsCells
  <2>2. <<x>> \in Seq({x}) /\ Len(<<x>>) = 1
    OBVIOUS
  <2> DEFINE w == <<x>>
  <2> HIDE DEF w
  <2>3. Slice(src, q, Len(w)) = w
    BY <1>5, <1>8, <2>1, <2>2, SliceHeld DEF w
  <2> QED BY <1>3, <1>5, <2>2, <2>3 DEF w
<1>10. ReadBlock(src, r, i) = zstd_decode(<<x>>, dict)
  BY <1>2, <1>9 DEF ReadBlock, e
<1>11. zstd_decode(<<x>>, dict) = IF x.dict = dict THEN x.data ELSE NoValue
  BY DEF zstd_decode
<1>12. x.dict = dict /\ x.data = PrefixedPaths(Chunks(b.paths)[i])
  BY DEF x
<1> QED BY <1>10, <1>11, <1>12

\* What a reader of the file gets for a docid, with the block it is in.
IsRead(src, r, b, docid) ==
    LET j == BlockOf(r, docid)
        n == Len(b.paths)
    IN  /\ InRange(r, docid) <=> docid < n
        /\ docid < n =>
              /\ j \in 1..NumBlocks(b.paths)
              /\ ReadBlock(src, r, j) = PrefixedPaths(Chunks(b.paths)[j])
              /\ extract_path(PrefixedPaths(Chunks(b.paths)[j]), docid - r.block_start[j]) = b.paths[docid + 1]
        /\ doc_path(src, r, docid) = IF docid < n THEN b.paths[docid + 1] ELSE NoValue
        /\ doc_meta(src, r, docid) = IF docid < n THEN b.meta[docid + 1] ELSE NoValue

\* A docid in range is resolved to its path and metadata.
LEMMA ReadDoc ==
    ASSUME NEW h, NEW b, IsBuilder(b, h), NEW dict, NEW build_time,
           NEW src, IsFile(src, h, b, dict, build_time), NEW r, IsReader(r, b, dict),
           NEW docid \in Nat
    PROVE  IsRead(src, r, b, docid)
<1> DEFINE j == BlockOf(r, docid)
           n == Len(b.paths)
           K == NumBlocks(b.paths)
           c == Chunks(b.paths)[j]
           k == docid - r.block_start[j]
<1>1. /\ b.paths \in Seq(Text) /\ Len(b.meta) = n /\ n \in Nat
  BY LenProperties DEF IsBuilder
<1>2. doc_meta(src, r, docid) = IF docid < n THEN b.meta[docid + 1] ELSE NoValue
  <2> DEFINE m == MetaOff(b, dict)
  <2>1. r.num_docs = n /\ r.meta_off = m
    BY DEF IsReader
  <2>2. m \in Nat /\ Holds(src, m, b.meta)
    BY DEF IsFile
  <2> HIDE DEF m, n
  <2>3. doc_meta(src, r, docid) = IF docid >= n THEN NoValue ELSE src[m + docid + 1]
    BY <2>1 DEF doc_meta
  <2>4. CASE docid < n
    <3>1. docid + 1 \in 1..Len(b.meta) /\ m + (docid + 1) = m + docid + 1
      BY <1>1, <2>2, <2>4
    <3>2. src[m + (docid + 1)] = b.meta[docid + 1]
      BY <2>2, <3>1 DEF Holds
    <3>3. ~(docid >= n)
      BY <1>1, <2>4
    <3> QED BY <2>3, <2>4, <3>1, <3>2, <3>3
  <2>5. CASE ~(docid < n)
    <3>1. docid >= n
      BY <1>1, <2>5
    <3> QED BY <2>3, <2>5, <3>1
  <2> QED BY <2>4, <2>5
<1>3. CASE K = 0
  <2>1. n = 0
    <3>1. n <= BLOCK_PATHS * K
      BY <1>1, CeilDivision, BlockPathsAssumption DEF NumBlocks
    <3>2. BLOCK_PATHS * 0 = 0
      BY BlockPathsAssumption
    <3> QED BY <1>1, <1>3, <3>1, <3>2
  <2>2. ~(docid < n)
    BY <2>1
  <2>3. r.blocks = <<>>
    <3>1. r.blocks = BlockIndex(b.paths, dict, 1)
      BY DEF IsReader
    <3>2. BlockIndex(b.paths, dict, 1) = [i \in 1..K |-> BlockEntry(b.paths, dict, 1, i)]
      BY DEF BlockIndex
    <3>3. BlockIndex(b.paths, dict, 1) \in [1..0 -> {BlockEntry(b.paths, dict, 1, i) : i \in 1..0}]
      BY <1>3, <3>2
    <3> DEFINE S == {BlockEntry(b.paths, dict, 1, i) : i \in 1..0}
    <3> HIDE DEF S
    <3>4. BlockIndex(b.paths, dict, 1) \in Seq(S) /\ Len(BlockIndex(b.paths, dict, 1)) = 0
      BY <3>3, SeqOver DEF S
    <3> QED BY <3>1, <3>4, EmptySeq
  <2>4. ~InRange(r, docid)
    BY <2>3 DEF InRange
  <2>5. doc_path(src, r, docid) = NoValue
    BY <2>4 DEF doc_path
  <2> QED BY <1>2, <2>2, <2>4, <2>5 DEF IsRead
<1>4. CASE K # 0
  <2>1. IsBlockOf(r, b.paths, docid, j)
    BY <1>1, <1>4, BlockOfDoc
  <2>2. /\ j \in 1..K /\ k \in Nat
        /\ InRange(r, docid) <=> docid < n
        /\ c \in Seq(Text)
        /\ docid < n => k < Len(c) /\ c[k + 1] = b.paths[docid + 1]
    BY <2>1 DEF IsBlockOf
  <2>3. ReadBlock(src, r, j) = PrefixedPaths(c)
    <3> HIDE DEF j
    <3> QED BY <1>1, <2>2, ReadBlockOf
  <2>4. ASSUME docid < n PROVE extract_path(PrefixedPaths(c), k) = b.paths[docid + 1]
    <3>1. k < Len(c) /\ c[k + 1] = b.paths[docid + 1]
      BY <2>2, <2>4
    <3> HIDE DEF c, k
    <3>2. extract_path(PrefixedPaths(c), k) = c[k + 1]
      BY <2>2, <3>1, ExtractPath
    <3> QED BY <3>1, <3>2
  <2>5. doc_path(src, r, docid) =
          IF ~InRange(r, docid) THEN NoValue ELSE extract_path(ReadBlock(src, r, j), k)
    BY DEF doc_path
  <2>6. doc_path(src, r, docid) = IF docid < n THEN b.paths[docid + 1] ELSE NoValue
    <3> HIDE DEF c, k, j, n
    <3> QED BY <2>2, <2>3, <2>4, <2>5
  <2> QED BY <1>2, <2>2, <2>3, <2>4, <2>6 DEF IsRead
<1> QED BY <1>3, <1>4

------------------------------
(* The builder *)

\* One element more at the end.
LEMMA Appended ==
    ASSUME NEW S, NEW s \in Seq(S), NEW e \in S
    PROVE  /\ Append(s, e) \in Seq(S) /\ Len(Append(s, e)) = Len(s) + 1 /\ Len(s) \in Nat
           /\ \A i \in 1..(Len(s) + 1) : Append(s, e)[i] = IF i = Len(s) + 1 THEN e ELSE s[i]
<1>1. /\ Append(s, e) \in Seq(S) /\ Len(Append(s, e)) = Len(s) + 1 /\ Len(s) \in Nat
      /\ \A i \in 1..Len(s) : Append(s, e)[i] = s[i]
      /\ Append(s, e)[Len(s) + 1] = e
  BY AppendProperties, LenProperties
<1>2. ASSUME NEW i \in 1..(Len(s) + 1) PROVE Append(s, e)[i] = IF i = Len(s) + 1 THEN e ELSE s[i]
  <2>1. CASE i = Len(s) + 1
    BY <1>1, <2>1
  <2>2. CASE i # Len(s) + 1
    <3>1. i \in 1..Len(s)
      BY <1>1, <2>2
    <3> QED BY <1>1, <2>2, <3>1
  <2> QED BY <2>1, <2>2
<1> QED BY <1>1, <1>2

\* The docids a posting list has.
InPosting(p, d) == \E i \in 1..Len(p) : p[i] = d

\* A posting list takes the next docid.
LEMMA PostingGrows ==
    ASSUME NEW n \in Nat, NEW p, IsPosting(p, n)
    PROVE  /\ IsPosting(p, n + 1) /\ IsPosting(Append(p, n), n + 1)
           /\ \A d : InPosting(Append(p, n), d) <=> (InPosting(p, d) \/ d = n)
<1> DEFINE q == Append(p, n)
           l == Len(p)
<1>1. /\ p \in Seq(Nat) /\ (\A i \in 1..l : p[i] < n)
      /\ \A i, j \in 1..l : i < j => p[i] < p[j]
  BY DEF IsPosting
<1>2. /\ q \in Seq(Nat) /\ Len(q) = l + 1 /\ l \in Nat
      /\ \A i \in 1..(l + 1) : q[i] = IF i = l + 1 THEN n ELSE p[i]
  BY <1>1, Appended
<1>3. \A i \in 1..l : p[i] \in Nat
  BY <1>1, ElementOfSeq
<1> HIDE DEF q, l
<1>4. \A i \in 1..l : p[i] < n + 1
  BY <1>1, <1>3
<1>5. IsPosting(p, n + 1)
  BY <1>1, <1>4 DEF IsPosting, l
<1>6. ASSUME NEW i \in 1..(l + 1) PROVE q[i] < n + 1
  <2>1. CASE i = l + 1
    BY <1>2, <2>1
  <2>2. CASE i # l + 1
    <3>1. i \in 1..l
      BY <1>2, <2>2
    <3> QED BY <1>2, <1>4, <2>2, <3>1
  <2> QED BY <2>1, <2>2
<1>7. ASSUME NEW i \in 1..(l + 1), NEW j \in 1..(l + 1), i < j PROVE q[i] < q[j]
  <2>1. i \in 1..l
    BY <1>2, <1>7
  <2>2. q[i] = p[i]
    BY <1>2, <2>1
  <2>3. CASE j = l + 1
    <3>1. q[j] = n
      BY <1>2, <2>3
    <3> QED BY <1>1, <2>1, <2>2, <3>1
  <2>4. CASE j # l + 1
    <3>1. j \in 1..l
      BY <1>2, <2>4
    <3>2. q[j] = p[j]
      BY <1>2, <2>4
    <3> QED BY <1>1, <1>7, <2>1, <2>2, <3>1, <3>2
  <2> QED BY <2>3, <2>4
<1>8. IsPosting(q, n + 1)
  BY <1>2, <1>6, <1>7 DEF IsPosting
<1>9. ASSUME NEW d PROVE InPosting(q, d) <=> (InPosting(p, d) \/ d = n)
  <2>1. \A i : i \in 1..(l + 1) <=> (i \in 1..l \/ i = l + 1)
    BY <1>2
  <2>2. l + 1 \notin 1..l
    BY <1>2
  <2> QED BY <1>2, <2>1, <2>2 DEF InPosting, l
<1> QED BY <1>5, <1>8, <1>9 DEF q

\* Folding keeps the length, and trigrams of a text are trigrams.
LEMMA FoldType ==
    ASSUME NEW s \in Text
    PROVE  /\ fold(s) \in Text /\ Len(fold(s)) = Len(s) /\ Len(s) \in Nat
           /\ \A i \in 1..Len(s) : fold(s)[i] = AsciiFold[s[i]]
<1>1. Len(s) \in Nat /\ s \in [1..Len(s) -> Byte]
  BY LenProperties DEF Text
<1>2. fold(s) \in [1..Len(s) -> Byte]
  BY <1>1, FoldAssumption DEF fold
<1>3. fold(s) \in Seq(Byte) /\ Len(fold(s)) = Len(s)
  BY <1>1, <1>2, SeqOver
<1>4. \A i \in 1..Len(s) : fold(s)[i] = AsciiFold[s[i]]
  BY DEF fold
<1> QED BY <1>1, <1>3, <1>4 DEF Text

\* The trigrams of a text are finitely many.
LEMMA TrigramsType ==
    ASSUME NEW s \in Text
    PROVE  trigrams(s) \in SUBSET Trigram /\ IsFiniteSet(trigrams(s))
<1> DEFINE n == Len(s)
           I == 1..(n - 2)
           f == [i \in I |-> <<s[i], s[i + 1], s[i + 2]>>]
<1>1. n \in Nat /\ s \in [1..n -> Byte]
  BY LenProperties DEF Text
<1> HIDE DEF n
<1>2. ASSUME NEW i \in I PROVE <<s[i], s[i + 1], s[i + 2]>> \in Trigram
  <2>1. i \in 1..n /\ i + 1 \in 1..n /\ i + 2 \in 1..n
    BY <1>1
  <2> QED BY <1>1, <2>1 DEF Trigram
<1>3. trigrams(s) = {<<s[i], s[i + 1], s[i + 2]>> : i \in I}
  BY DEF trigrams, n
<1>4. trigrams(s) \in SUBSET Trigram
  BY <1>2, <1>3
<1>5. IsFiniteSet(I)
  <2>1. 1 \in Int /\ n - 2 \in Int
    BY <1>1
  <2> QED BY <2>1, FS_Interval
<1>6. f \in [I -> trigrams(s)]
  BY <1>3
<1>7. \A t \in trigrams(s) : \E i \in I : f[i] = t
  BY <1>3
<1>8. f \in Surjection(I, trigrams(s))
  <2> HIDE DEF f, I
  <2> QED BY <1>6, <1>7 DEF Surjection
<1>9. IsFiniteSet(trigrams(s))
  <2> HIDE DEF f, I
  <2> QED BY <1>5, <1>8, FS_Surjection
<1> QED BY <1>4, <1>9

\* The posting lists after document n with the trigrams tris.
IsGrown(m, m2, tris, n) ==
    /\ DOMAIN m2 = DOMAIN m \cup tris
    /\ \A t \in DOMAIN m2, d \in Nat :
          InPosting(m2[t], d) <=> (t \in DOMAIN m /\ InPosting(m[t], d)) \/ (t \in tris /\ d = n)

\* The posting map after a document is inserted.
LEMMA IndexedPostings ==
    ASSUME NEW m, NEW h, NEW n \in Nat, IsPostings(m, h, n), NEW path \in Text,
           \A t \in trigrams(fold(path)) : h[t] \in Nat
    PROVE  /\ IsPostings(Indexed(m, path, n), h, n + 1)
           /\ IsGrown(m, Indexed(m, path, n), trigrams(fold(path)), n)
<1> DEFINE tris == trigrams(fold(path))
           old(t) == IF t \in DOMAIN m THEN m[t] ELSE <<>>
           m2 == Indexed(m, path, n)
           D == DOMAIN m
<1>1. m2 = [t \in D \cup tris |-> IF t \in tris THEN Append(old(t), n) ELSE old(t)]
  BY DEF Indexed
<1>2. DOMAIN m2 = D \cup tris /\ \A t \in D \cup tris : m2[t] = IF t \in tris THEN Append(old(t), n) ELSE old(t)
  <2> HIDE DEF old, tris
  <2> QED BY <1>1
<1>3. tris \in SUBSET Trigram /\ IsFiniteSet(tris)
  BY FoldType, TrigramsType
<1>4. D \in SUBSET Trigram /\ IsFiniteSet(D) /\ \A t \in D : h[t] \in Nat /\ IsPosting(m[t], n)
  BY DEF IsPostings
<1>5. \A t \in tris : h[t] \in Nat
  OBVIOUS
<1>6. IsPosting(<<>>, n) /\ \A d : ~InPosting(<<>>, d)
  <2>1. <<>> \in Seq(Nat) /\ Len(<<>>) = 0 /\ \A i \in 1..0 : FALSE
    OBVIOUS
  <2> QED BY <2>1 DEF IsPosting, InPosting
<1>7. \A t : IsPosting(old(t), n) /\ \A d : InPosting(old(t), d) <=> (t \in D /\ InPosting(m[t], d))
  BY <1>4, <1>6
<1> HIDE DEF tris, m2, D, old
<1>8. ASSUME NEW t
      PROVE  /\ IsPosting(old(t), n + 1) /\ IsPosting(Append(old(t), n), n + 1)
             /\ \A d : InPosting(Append(old(t), n), d) <=> (InPosting(old(t), d) \/ d = n)
  <2> DEFINE p == old(t)
  <2>1. IsPosting(p, n)
    BY <1>7
  <2> HIDE DEF p
  <2>2. /\ IsPosting(p, n + 1) /\ IsPosting(Append(p, n), n + 1)
        /\ \A d : InPosting(Append(p, n), d) <=> (InPosting(p, d) \/ d = n)
    BY <2>1, PostingGrows
  <2> QED BY <2>2 DEF p
<1>9. \A t \in DOMAIN m2 : h[t] \in Nat /\ IsPosting(m2[t], n + 1)
  BY <1>2, <1>4, <1>5, <1>8
<1>10. DOMAIN m2 \in SUBSET Trigram /\ IsFiniteSet(DOMAIN m2)
  <2>1. IsFiniteSet(D \cup tris)
    BY <1>3, <1>4, FS_Union
  <2> QED BY <1>2, <1>3, <1>4, <2>1
<1>11. IsPostings(m2, h, n + 1)
  BY <1>9, <1>10 DEF IsPostings
<1>12. ASSUME NEW t \in DOMAIN m2, NEW d \in Nat
       PROVE  InPosting(m2[t], d) <=> (t \in D /\ InPosting(m[t], d)) \/ (t \in tris /\ d = n)
  <2>1. CASE t \in tris
    BY <1>2, <1>7, <1>8, <2>1
  <2>2. CASE t \notin tris
    BY <1>2, <1>7, <2>2
  <2> QED BY <2>1, <2>2
<1>13. IsGrown(m, m2, tris, n)
  BY <1>2, <1>12 DEF IsGrown, D
<1> QED BY <1>11, <1>13 DEF m2, tris

\* The posting lists hold exactly the documents that have the trigram.
IsIndex(m, paths) ==
    /\ \A d \in 0..(Len(paths) - 1) : trigrams(fold(paths[d + 1])) \subseteq DOMAIN m
    /\ \A t \in DOMAIN m, d \in Nat :
          InPosting(m[t], d) <=> (d < Len(paths) /\ t \in trigrams(fold(paths[d + 1])))

\* What insert_with makes of a builder.
IsInserted(b, b2, path, meta) ==
    LET n == Len(b.paths)
    IN  /\ n \in Nat /\ Len(b2.paths) = n + 1 /\ Len(b2.meta) = n + 1
        /\ \A i \in 1..(n + 1) : b2.paths[i] = IF i = n + 1 THEN path ELSE b.paths[i]
        /\ \A i \in 1..(n + 1) : b2.meta[i] = IF i = n + 1 THEN meta ELSE b.meta[i]

\* The builder after a record is inserted.
LEMMA Inserted ==
    ASSUME NEW b, NEW h, IsBuilder(b, h), IsIndex(b.try_map, b.paths), NEW path \in Text, NEW meta,
           \A t \in trigrams(fold(path)) : h[t] \in Nat
    PROVE  LET b2 == insert_with(b, path, meta)
           IN  IsBuilder(b2, h) /\ IsIndex(b2.try_map, b2.paths) /\ IsInserted(b, b2, path, meta)
<1> DEFINE b2 == insert_with(b, path, meta)
           n == Len(b.paths)
           tris == trigrams(fold(path))
           ps == b.paths
           p2 == b2.paths
           m == b.try_map
           m2 == b2.try_map
           e == b.meta
           e2 == b2.meta
<1>1. /\ p2 = Append(ps, path) /\ e2 = Append(e, meta) /\ m2 = Indexed(m, path, n)
  BY DEF insert_with
<1>2. ps \in Seq(Text) /\ IsCells(e) /\ Len(e) = n /\ IsPostings(m, h, n)
  BY DEF IsBuilder
<1> HIDE DEF b2, n
<1>3. /\ p2 \in Seq(Text) /\ Len(p2) = n + 1 /\ n \in Nat
      /\ \A i \in 1..(n + 1) : p2[i] = IF i = n + 1 THEN path ELSE ps[i]
  BY <1>1, <1>2, Appended DEF n
<1>4. /\ IsCells(e2) /\ Len(e2) = n + 1
      /\ \A i \in 1..(n + 1) : e2[i] = IF i = n + 1 THEN meta ELSE e[i]
  <2>1. PICK M : e \in Seq(M)
    BY <1>2 DEF IsCells
  <2> DEFINE S == M \cup {meta}
  <2>2. e \in Seq(S) /\ meta \in S
    <3>1. e \in [1..Len(e) -> S] /\ Len(e) \in Nat
      BY <2>1, LenProperties
    <3> HIDE DEF S
    <3>2. e \in Seq(S)
      BY <3>1, SeqOver
    <3> QED BY <3>2 DEF S
  <2> HIDE DEF S
  <2>3. /\ e2 \in Seq(S) /\ Len(e2) = Len(e) + 1
        /\ \A i \in 1..(Len(e) + 1) : e2[i] = IF i = Len(e) + 1 THEN meta ELSE e[i]
    BY <1>1, <2>2, Appended
  <2> QED BY <1>2, <2>3 DEF IsCells
<1>5. IsPostings(m2, h, n + 1) /\ IsGrown(m, m2, tris, n)
  BY <1>1, <1>2, <1>3, IndexedPostings
<1>6. IsBuilder(b2, h)
  BY <1>3, <1>4, <1>5 DEF IsBuilder
<1>7. IsInserted(b, b2, path, meta)
  BY <1>3, <1>4 DEF IsInserted, n
<1>8. /\ \A d \in 0..(n - 1) : trigrams(fold(ps[d + 1])) \subseteq DOMAIN m
      /\ \A t \in DOMAIN m, d \in Nat : InPosting(m[t], d) <=> (d < n /\ t \in trigrams(fold(ps[d + 1])))
  BY DEF IsIndex, n
<1>9. /\ DOMAIN m2 = DOMAIN m \cup tris
      /\ \A t \in DOMAIN m2, d \in Nat :
           InPosting(m2[t], d) <=> (t \in DOMAIN m /\ InPosting(m[t], d)) \/ (t \in tris /\ d = n)
  BY <1>5 DEF IsGrown
<1> DEFINE T(d) == trigrams(fold(ps[d + 1]))
           T2(d) == trigrams(fold(p2[d + 1]))
<1>10. \A d \in 0..(n - 1) : T2(d) = T(d)
  <2>1. ASSUME NEW d \in 0..(n - 1) PROVE p2[d + 1] = ps[d + 1]
    <3>1. d + 1 \in 1..(n + 1) /\ d + 1 # n + 1
      BY <1>3
    <3> QED BY <1>3, <3>1
  <2> QED BY <2>1
<1>11. T2(n) = tris
  <2>1. n + 1 \in 1..(n + 1)
    BY <1>3
  <2> QED BY <1>3, <2>1
<1>12. /\ \A d \in 0..(n - 1) : T(d) \subseteq DOMAIN m
       /\ \A t \in DOMAIN m, d \in Nat : InPosting(m[t], d) <=> (d < n /\ t \in T(d))
  BY <1>8
<1> HIDE DEF T, T2, tris, p2, m2, m
<1>13. ASSUME NEW d \in 0..n PROVE T2(d) \subseteq DOMAIN m2
  <2>1. CASE d = n
    BY <1>9, <1>11, <2>1
  <2>2. CASE d # n
    <3>1. d \in 0..(n - 1)
      BY <1>3, <2>2
    <3> QED BY <1>9, <1>10, <1>12, <3>1
  <2> QED BY <2>1, <2>2
<1>14. ASSUME NEW t \in DOMAIN m2, NEW d \in Nat
       PROVE  InPosting(m2[t], d) <=> (d < n + 1 /\ t \in T2(d))
  <2>1. CASE d = n
    <3>1. ~(d < n) /\ d < n + 1
      BY <1>3, <2>1
    <3>2. t \in DOMAIN m => ~InPosting(m[t], d)
      BY <1>12, <3>1
    <3>3. T2(d) = tris
      BY <1>11, <2>1
    <3> QED BY <1>9, <2>1, <3>1, <3>2, <3>3
  <2>2. CASE d < n
    <3>1. d \in 0..(n - 1) /\ d < n + 1 /\ d # n
      BY <1>3, <2>2
    <3>2. T2(d) = T(d) /\ T(d) \subseteq DOMAIN m
      BY <1>10, <1>12, <3>1
    <3>3. t \in DOMAIN m => (InPosting(m[t], d) <=> t \in T(d))
      BY <1>12, <2>2
    <3> QED BY <1>9, <3>1, <3>2, <3>3
  <2>3. CASE d > n
    <3>1. ~(d < n) /\ ~(d < n + 1) /\ d # n
      BY <1>3, <2>3
    <3>2. t \in DOMAIN m => ~InPosting(m[t], d)
      BY <1>12, <3>1
    <3> QED BY <1>9, <3>1, <3>2
  <2> QED BY <1>3, <2>1, <2>2, <2>3
<1>15. IsIndex(m2, p2)
  <2>1. (n + 1) - 1 = n
    BY <1>3
  <2>2. \A d \in 0..((n + 1) - 1) : T2(d) \subseteq DOMAIN m2
    BY <1>13, <2>1
  <2> QED BY <1>3, <1>14, <2>2 DEF IsIndex, T2
<1> QED BY <1>6, <1>7, <1>15 DEF b2, m2, p2

------------------------------
(* The invariant *)

Call == [docid : {NoValue} \cup Nat, path : {NoValue} \cup Text, done : BOOLEAN]

\* The builder holds what was received.
BuilderInv ==
    /\ recs \in Seq(Doc) /\ Len(recs) <= MaxDocs
    /\ hash \in [HashKey -> HashValue]
    /\ IsBuilder(db, hash) /\ IsIndex(db.try_map, db.paths)
    /\ Len(db.paths) = Len(recs)
    /\ \A i \in 1..Len(recs) : db.paths[i] = recs[i].path /\ db.meta[i] = recs[i].meta

\* The file is the one that finish() makes of the builder.
FileInv ==
    /\ file # NoFile => \E dict \in train_dict(db.paths) : file = finish(hash, db, dict, BuildTime)
    /\ file = NoFile => cached = NoValue /\ \A t \in Thread : call[t] = NoCall

\* The cached block is a block of the file.
CacheInv ==
    cached # NoValue => /\ cached.idx \in 1..NumBlocks(db.paths)
                        /\ cached.bytes = PrefixedPaths(Chunks(db.paths)[cached.idx])

\* A call that waits is for a record, and one that is done has its path.
CallOk(c, rs) ==
    \/ c = NoCall
    \/ /\ c.docid \in Nat
       /\ IF c.done THEN c.path = IF c.docid < Len(rs) THEN rs[c.docid + 1].path ELSE NoValue
                    ELSE c.docid < Len(rs)

CallInv == call \in [Thread -> Call] /\ \A t \in Thread : CallOk(call[t], recs)

IInv == BuilderInv /\ FileInv /\ CacheInv /\ CallInv

\* The dictionaries there are.
LEMMA Dictionaries ==
    ASSUME NEW paths, NEW dict \in train_dict(paths)
    PROVE  dict \in Seq(DictCell)
<1>1. dict = <<>> \/ dict = <<"dictionary">>
  BY DEF train_dict
<1>2. <<>> \in Seq(DictCell)
  BY EmptySeq
<1>3. <<"dictionary">> \in Seq(DictCell)
  <2> DEFINE w == "dictionary"
  <2>1. DictCell = {w}
    BY DEF DictCell
  <2> HIDE DEF w
  <2>2. <<w>> \in Seq({w})
    OBVIOUS
  <2> QED BY <2>1, <2>2 DEF w
<1> QED BY <1>1, <1>2, <1>3

\* A reader of the file gets the records.
ReadsRecords(src, r, docid) ==
    LET j == BlockOf(r, docid)
        n == Len(recs)
    IN  /\ InRange(r, docid) <=> docid < n
        /\ docid < n =>
              /\ j \in 1..NumBlocks(db.paths)
              /\ ReadBlock(src, r, j) = PrefixedPaths(Chunks(db.paths)[j])
              /\ extract_path(PrefixedPaths(Chunks(db.paths)[j]), docid - r.block_start[j]) = recs[docid + 1].path
        /\ doc_path(src, r, docid) = IF docid < n THEN recs[docid + 1].path ELSE NoValue
        /\ doc_meta(src, r, docid) = IF docid < n THEN recs[docid + 1].meta ELSE NoValue

\* The written file opens as a reader of what the builder held.
LEMMA FileOpens ==
    ASSUME BuilderInv, FileInv, file # NoFile
    PROVE  \E dict \in Seq(DictCell) : IsFile(file, hash, db, dict, BuildTime) /\ IsReader(Reader, db, dict)
<1>1. PICK dict \in train_dict(db.paths) : file = finish(hash, db, dict, BuildTime)
  BY DEF FileInv
<1>2. dict \in Seq(DictCell)
  BY Dictionaries
<1>3. IsBuilder(db, hash)
  BY DEF BuilderInv
<1>4. IsFile(file, hash, db, dict, BuildTime)
  BY <1>1, <1>2, <1>3, FileLayout
<1>5. IsReader(open(file), db, dict)
  BY <1>2, <1>3, <1>4, OpenFile
<1> QED BY <1>2, <1>4, <1>5 DEF Reader

\* Every docid of the written file resolves to its record.
LEMMA ReadRecord ==
    ASSUME BuilderInv, FileInv, file # NoFile, NEW docid \in Nat
    PROVE  ReadsRecords(file, Reader, docid)
<1>1. PICK dict \in Seq(DictCell) : IsFile(file, hash, db, dict, BuildTime) /\ IsReader(Reader, db, dict)
  BY FileOpens
<1>2. IsBuilder(db, hash)
  BY DEF BuilderInv
<1> DEFINE r == Reader
<1> HIDE DEF r
<1>3. IsRead(file, r, db, docid)
  BY <1>1, <1>2, ReadDoc DEF r
<1>4. Len(db.paths) = Len(recs) /\ Len(recs) \in Nat
  BY LenProperties DEF BuilderInv
<1>5. ASSUME docid < Len(recs)
      PROVE  db.paths[docid + 1] = recs[docid + 1].path /\ db.meta[docid + 1] = recs[docid + 1].meta
  <2>1. docid + 1 \in 1..Len(recs)
    BY <1>4, <1>5
  <2> QED BY <2>1 DEF BuilderInv
<1>6. ReadsRecords(file, r, docid)
  BY <1>3, <1>4, <1>5 DEF IsRead, ReadsRecords
<1> QED BY <1>6 DEF r

------------------------------
(* Every reachable state *)

\* An empty builder.
LEMMA NewIsBuilder ==
    ASSUME NEW h
    PROVE  /\ IsBuilder(NewBuilder, h) /\ IsIndex(NewBuilder.try_map, NewBuilder.paths)
           /\ Len(NewBuilder.paths) = 0
<1>1. NewBuilder.paths = <<>> /\ NewBuilder.meta = <<>> /\ NewBuilder.try_map = <<>>
  BY DEF NewBuilder
<1>2. <<>> \in Seq(Text) /\ <<>> \in Seq({}) /\ Len(<<>>) = 0 /\ DOMAIN <<>> = {}
  OBVIOUS
<1>3. IsCells(<<>>)
  BY <1>2 DEF IsCells
<1>4. IsPostings(<<>>, h, 0)
  BY <1>2, FS_EmptySet DEF IsPostings
<1>5. IsIndex(<<>>, <<>>)
  BY <1>2 DEF IsIndex
<1> QED BY <1>1, <1>2, <1>3, <1>4, <1>5 DEF IsBuilder

\* In the beginning nothing is received, written or asked for.
LEMMA InitIInv == Init => IInv
<1> SUFFICES ASSUME Init PROVE IInv
  OBVIOUS
<1>1. /\ hash \in [HashKey -> HashValue] /\ recs = <<>> /\ db = NewBuilder
      /\ file = NoFile /\ cached = NoValue /\ call = [t \in Thread |-> NoCall]
  BY DEF Init
<1>2. BuilderInv
  <2>1. recs \in Seq(Doc) /\ Len(recs) = 0
    BY <1>1
  <2>2. IsBuilder(db, hash) /\ IsIndex(db.try_map, db.paths) /\ Len(db.paths) = 0
    BY <1>1, NewIsBuilder
  <2>3. MaxDocs \in Nat
    BY DocidAssumption
  <2> QED BY <1>1, <2>1, <2>2, <2>3 DEF BuilderInv
<1>3. FileInv /\ CacheInv
  BY <1>1 DEF FileInv, CacheInv
<1>4. CallInv
  <2>1. NoCall \in Call
    BY DEF NoCall, Call
  <2> QED BY <1>1, <2>1 DEF CallInv, CallOk
<1> QED BY <1>2, <1>3, <1>4 DEF IInv

\* A record is received while there is no file: the builder grows by it.
LEMMA ReceiveKeeps ==
    ASSUME IInv, NEW d \in Doc, Receive(d)
    PROVE  IInv'
<1>1. /\ file = NoFile /\ Len(recs) < MaxDocs /\ recs' = Append(recs, d)
      /\ db' = insert_with(db, d.path, d.meta)
      /\ hash' = hash /\ file' = file /\ cached' = cached /\ call' = call
  BY DEF Receive
<1>2. /\ recs \in Seq(Doc) /\ hash \in [HashKey -> HashValue]
      /\ IsBuilder(db, hash) /\ IsIndex(db.try_map, db.paths) /\ Len(db.paths) = Len(recs)
      /\ \A i \in 1..Len(recs) : db.paths[i] = recs[i].path /\ db.meta[i] = recs[i].meta
  BY DEF IInv, BuilderInv
<1>3. d.path \in Text /\ \A t \in trigrams(fold(d.path)) : hash[t] \in Nat
  BY <1>2, RecordAssumption
<1> DEFINE b == db
           b2 == insert_with(db, d.path, d.meta)
           h == hash
           n == Len(recs)
           p == d.path
           e == d.meta
<1>4. IsBuilder(b, h) /\ IsIndex(b.try_map, b.paths) /\ p \in Text /\ (\A t \in trigrams(fold(p)) : h[t] \in Nat)
      /\ b2 = insert_with(b, p, e)
  BY <1>2, <1>3
<1> HIDE DEF b, b2, h, p, e
<1>5. IsBuilder(b2, h) /\ IsIndex(b2.try_map, b2.paths) /\ IsInserted(b, b2, p, e)
  BY <1>4, Inserted
<1>6. /\ recs' \in Seq(Doc) /\ Len(recs') = n + 1 /\ n \in Nat
      /\ \A i \in 1..(n + 1) : recs'[i] = IF i = n + 1 THEN d ELSE recs[i]
  BY <1>1, <1>2, Appended
<1>7. Len(b.paths) = n /\ \A i \in 1..n : b.paths[i] = recs[i].path /\ b.meta[i] = recs[i].meta
  BY <1>2 DEF b
<1>8. /\ Len(b2.paths) = n + 1
      /\ \A i \in 1..(n + 1) : b2.paths[i] = IF i = n + 1 THEN p ELSE b.paths[i]
      /\ \A i \in 1..(n + 1) : b2.meta[i] = IF i = n + 1 THEN e ELSE b.meta[i]
  BY <1>5, <1>7 DEF IsInserted
<1>9. ASSUME NEW i \in 1..(n + 1)
      PROVE  b2.paths[i] = recs'[i].path /\ b2.meta[i] = recs'[i].meta
  <2>1. CASE i = n + 1
    BY <1>6, <1>8, <2>1 DEF p, e
  <2>2. CASE i # n + 1
    <3>1. i \in 1..n
      BY <1>6, <2>2
    <3> QED BY <1>6, <1>7, <1>8, <2>2, <3>1
  <2> QED BY <2>1, <2>2
<1>10. n + 1 <= MaxDocs
  BY <1>1, <1>6, DocidAssumption
<1>11. BuilderInv'
  <2>1. db' = b2 /\ hash' = h /\ h \in [HashKey -> HashValue]
    BY <1>1, <1>2 DEF b2, h
  <2> QED BY <1>5, <1>6, <1>8, <1>9, <1>10, <2>1 DEF BuilderInv
<1>12. cached = NoValue /\ \A t \in Thread : call[t] = NoCall
  BY <1>1 DEF IInv, FileInv
<1>13. FileInv' /\ CacheInv'
  BY <1>1, <1>12 DEF FileInv, CacheInv
<1>14. CallInv'
  BY <1>1, <1>12 DEF IInv, CallInv, CallOk
<1> QED BY <1>11, <1>13, <1>14 DEF IInv

\* The file is written: nobody has read anything yet.
LEMMA FinishKeeps ==
    ASSUME IInv, Finish
    PROVE  IInv'
<1>1. /\ file = NoFile /\ (\E dict \in train_dict(db.paths) : file' = finish(hash, db, dict, BuildTime))
      /\ hash' = hash /\ recs' = recs /\ db' = db /\ cached' = cached /\ call' = call
  BY DEF Finish
<1>2. cached = NoValue /\ \A t \in Thread : call[t] = NoCall
  BY <1>1 DEF IInv, FileInv
<1>3. BuilderInv'
  BY <1>1 DEF IInv, BuilderInv
<1>4. FileInv'
  BY <1>1, <1>2 DEF FileInv
<1>5. CacheInv' /\ CallInv'
  BY <1>1, <1>2 DEF IInv, CacheInv, CallInv
<1> QED BY <1>3, <1>4, <1>5 DEF IInv

\* A reader's step answers or begins one call and leaves the files alone.
LEMMA ReaderKeeps ==
    ASSUME IInv, file # NoFile, UNCHANGED <<hash, recs, db, shard, shards, entries, file>>, CacheInv',
           NEW t \in Thread, NEW c \in Call, CallOk(c, recs), call' = [call EXCEPT ![t] = c]
    PROVE  IInv'
<1>1. hash' = hash /\ recs' = recs /\ db' = db /\ file' = file
  OBVIOUS
<1>2. BuilderInv' /\ FileInv'
  BY <1>1 DEF IInv, BuilderInv, FileInv
<1>3. call \in [Thread -> Call] /\ \A u \in Thread : CallOk(call[u], recs)
  BY DEF IInv, CallInv
<1>4. call' \in [Thread -> Call] /\ \A u \in Thread : call'[u] = IF u = t THEN c ELSE call[u]
  BY <1>3
<1>5. \A u \in Thread : CallOk(call'[u], recs')
  BY <1>1, <1>3, <1>4
<1>6. CallInv'
  BY <1>4, <1>5 DEF CallInv
<1> QED BY <1>2, <1>6 DEF IInv

\* A docid out of range is answered with an error.
LEMMA RangeKeeps ==
    ASSUME IInv, NEW t \in Thread, NEW docid \in Nat, DocPathRange(t, docid)
    PROVE  IInv'
<1>1. /\ file # NoFile /\ ~InRange(Reader, docid) /\ Answer(t, docid, NoValue)
      /\ UNCHANGED <<hash, recs, db, shard, shards, entries, file>> /\ cached' = cached
  BY DEF DocPathRange
<1>2. ReadsRecords(file, Reader, docid)
  BY <1>1, ReadRecord DEF IInv
<1>3. ~(docid < Len(recs))
  BY <1>1, <1>2 DEF ReadsRecords
<1> DEFINE c == [docid |-> docid, path |-> NoValue, done |-> TRUE]
<1>4. c \in Call /\ CallOk(c, recs)
  BY <1>3 DEF Call, CallOk
<1>5. call' = [call EXCEPT ![t] = c]
  BY <1>1 DEF Answer
<1>6. CacheInv'
  BY <1>1 DEF IInv, CacheInv
<1> HIDE DEF c
<1> QED BY <1>1, <1>4, <1>5, <1>6, ReaderKeeps

\* The cached block is the docid's: the path is taken from it.
LEMMA HitKeeps ==
    ASSUME IInv, NEW t \in Thread, NEW docid \in Nat, DocPathHit(t, docid)
    PROVE  IInv'
<1> DEFINE j == BlockOf(Reader, docid)
           p == extract_path(cached.bytes, docid - Reader.block_start[cached.idx])
<1>1. /\ file # NoFile /\ InRange(Reader, docid) /\ cached # NoValue /\ cached.idx = j
      /\ Answer(t, docid, p)
      /\ UNCHANGED <<hash, recs, db, shard, shards, entries, file>> /\ cached' = cached
  BY DEF DocPathHit
<1>2. ReadsRecords(file, Reader, docid)
  BY <1>1, ReadRecord DEF IInv
<1>3. docid < Len(recs)
  BY <1>1, <1>2 DEF ReadsRecords
<1>4. cached.bytes = PrefixedPaths(Chunks(db.paths)[j])
  BY <1>1 DEF IInv, CacheInv
<1>5. p = recs[docid + 1].path
  BY <1>1, <1>2, <1>3, <1>4 DEF ReadsRecords
<1> DEFINE c == [docid |-> docid, path |-> p, done |-> TRUE]
<1>6. p \in Text
  <2>1. docid + 1 \in 1..Len(recs) /\ recs \in Seq(Doc)
    BY <1>3, LenProperties DEF IInv, BuilderInv
  <2>2. recs[docid + 1] \in Doc
    BY <2>1, ElementOfSeq
  <2>3. recs[docid + 1].path \in Text
    BY <2>2, RecordAssumption
  <2> QED BY <1>5, <2>3
<1>7. call' = [call EXCEPT ![t] = c]
  BY <1>1 DEF Answer
<1> HIDE DEF p
<1>8. c \in Call /\ CallOk(c, recs)
  BY <1>3, <1>5, <1>6 DEF Call, CallOk
<1>9. CacheInv'
  BY <1>1 DEF IInv, CacheInv
<1> HIDE DEF c
<1> QED BY <1>1, <1>7, <1>8, <1>9, ReaderKeeps

\* Another block or none is cached: the thread goes to read.
LEMMA MissKeeps ==
    ASSUME IInv, NEW t \in Thread, NEW docid \in Nat, DocPathMiss(t, docid)
    PROVE  IInv'
<1> DEFINE c == [docid |-> docid, path |-> NoValue, done |-> FALSE]
<1>1. /\ file # NoFile /\ InRange(Reader, docid) /\ call' = [call EXCEPT ![t] = c]
      /\ UNCHANGED <<hash, recs, db, shard, shards, entries, file>> /\ cached' = cached
  BY DEF DocPathMiss
<1>2. ReadsRecords(file, Reader, docid)
  BY <1>1, ReadRecord DEF IInv
<1>3. docid < Len(recs)
  BY <1>1, <1>2 DEF ReadsRecords
<1>4. c \in Call /\ CallOk(c, recs)
  BY <1>3 DEF Call, CallOk
<1>5. CacheInv'
  BY <1>1 DEF IInv, CacheInv
<1> HIDE DEF c
<1> QED BY <1>1, <1>4, <1>5, ReaderKeeps

\* The block that was read replaces the cached one, whichever that is by now.
LEMMA StoreKeeps ==
    ASSUME IInv, NEW t \in Thread, DocPathStore(t)
    PROVE  IInv'
<1> DEFINE docid == call[t].docid
           j == BlockOf(Reader, docid)
           p == doc_path(file, Reader, docid)
<1>1. /\ ~Idle(t) /\ cached' = [idx |-> j, bytes |-> ReadBlock(file, Reader, j)]
      /\ Answer(t, docid, p)
      /\ UNCHANGED <<hash, recs, db, shard, shards, entries, file>>
  BY DEF DocPathStore
<1>2. CallOk(call[t], recs) /\ call[t] # NoCall /\ ~call[t].done
  BY <1>1 DEF IInv, CallInv, Idle, NoCall
<1>3. docid \in Nat /\ docid < Len(recs)
  BY <1>2 DEF CallOk
<1>4. file # NoFile
  BY <1>2 DEF IInv, FileInv
<1> HIDE DEF docid
<1>5. ReadsRecords(file, Reader, docid)
  BY <1>3, <1>4, ReadRecord DEF IInv
<1>6. /\ j \in 1..NumBlocks(db.paths) /\ p = recs[docid + 1].path
      /\ ReadBlock(file, Reader, j) = PrefixedPaths(Chunks(db.paths)[j])
  BY <1>3, <1>5 DEF ReadsRecords
<1> DEFINE c == [docid |-> docid, path |-> p, done |-> TRUE]
<1>7. p \in Text
  <2>1. docid + 1 \in 1..Len(recs) /\ recs \in Seq(Doc)
    BY <1>3, LenProperties DEF IInv, BuilderInv
  <2>2. recs[docid + 1] \in Doc
    BY <2>1, ElementOfSeq
  <2> QED BY <1>6, <2>2, RecordAssumption
<1>8. call' = [call EXCEPT ![t] = c]
  BY <1>1 DEF Answer
<1>9. CacheInv'
  <2> HIDE DEF j
  <2>1. db' = db
    BY <1>1
  <2> QED BY <1>1, <1>6, <2>1 DEF CacheInv
<1> HIDE DEF p
<1>10. c \in Call /\ CallOk(c, recs)
  BY <1>3, <1>6, <1>7 DEF Call, CallOk
<1> HIDE DEF c
<1> QED BY <1>1, <1>4, <1>8, <1>9, <1>10, ReaderKeeps

\* Every step keeps the invariant.
LEMMA NextIInv == IInv /\ [Next]_vars => IInv'
<1> SUFFICES ASSUME IInv, [Next]_vars PROVE IInv'
  OBVIOUS
<1>1. ASSUME NEW d \in Doc, Receive(d) PROVE IInv'
  BY <1>1, ReceiveKeeps
<1>2. CASE Finish
  BY <1>2, FinishKeeps
<1>3. \A docid \in 0..Len(recs) : docid \in Nat
  BY LenProperties DEF IInv, BuilderInv
<1>4. ASSUME NEW t \in Thread, NEW docid \in 0..Len(recs), DocPathRange(t, docid) PROVE IInv'
  BY <1>3, <1>4, RangeKeeps
<1>5. ASSUME NEW t \in Thread, NEW docid \in 0..Len(recs), DocPathHit(t, docid) PROVE IInv'
  BY <1>3, <1>5, HitKeeps
<1>6. ASSUME NEW t \in Thread, NEW docid \in 0..Len(recs), DocPathMiss(t, docid) PROVE IInv'
  BY <1>3, <1>6, MissKeeps
<1>7. ASSUME NEW t \in Thread, DocPathStore(t) PROVE IInv'
  BY <1>7, StoreKeeps
<1>8. CASE UNCHANGED vars
  BY <1>8 DEF vars, IInv, BuilderInv, FileInv, CacheInv, CallInv
<1> QED BY <1>1, <1>2, <1>4, <1>5, <1>6, <1>7, <1>8 DEF Next

\* The inductive invariant: the builder holds the received records, its
\* posting lists hold exactly the documents of each trigram, the file is
\* what finish() made of them, the cached block is a block of the file,
\* and no call is ahead of the records.
THEOREM FilesInvariant == Spec => []IInv
<1> QED BY InitIInv, NextIInv, PTL DEF Spec

\* A thread that resolves a docid through doc_path gets that record's path
\* and doc_meta its metadata, or an error beyond the last record, whatever
\* block the other threads put into the one cache slot in the meantime:
\* for any number of records, blocks and threads, with or without a zstd
\* dictionary.
THEOREM ReadersAreRight == Spec => []ReadersGetTheirDoc
<1>1. IInv => ReadersGetTheirDoc
  <2> SUFFICES ASSUME IInv, NEW t \in Thread, call[t].done
               PROVE  LET d == call[t].docid
                      IN  IF d < Len(recs)
                          THEN call[t].path = recs[d + 1].path /\ doc_meta(file, Reader, d) = recs[d + 1].meta
                          ELSE call[t].path = NoValue /\ doc_meta(file, Reader, d) = NoValue
    BY DEF ReadersGetTheirDoc
  <2>1. CallOk(call[t], recs) /\ call[t] # NoCall
    BY DEF IInv, CallInv, NoCall
  <2>2. /\ call[t].docid \in Nat
        /\ call[t].path = IF call[t].docid < Len(recs) THEN recs[call[t].docid + 1].path ELSE NoValue
    BY <2>1 DEF CallOk
  <2>3. file # NoFile
    BY <2>1 DEF IInv, FileInv
  <2> DEFINE d == call[t].docid
  <2> HIDE DEF d
  <2>4. ReadsRecords(file, Reader, d)
    BY <2>2, <2>3, ReadRecord DEF IInv, d
  <2>5. doc_meta(file, Reader, d) = IF d < Len(recs) THEN recs[d + 1].meta ELSE NoValue
    BY <2>4 DEF ReadsRecords
  <2> QED BY <2>2, <2>5 DEF d
<1> QED BY <1>1, FilesInvariant, PTL

------------------------------
(* The candidates that verify *)

\* The turns of the loop over the docids.
IsKept(c, ids, S) ==
    /\ c[0] = <<>> /\ Kept(ids, S) = c[Len(ids)]
    /\ \A i \in 1..Len(ids) : c[i] = IF ids[i] \in S THEN Append(c[i - 1], ids[i]) ELSE c[i - 1]

\* The loop behind Kept, as a run.
LEMMA KeptRun ==
    ASSUME NEW Y, NEW ids \in Seq(Y), NEW S
    PROVE  \E c \in [0..Len(ids) -> Seq(Y)] : IsKept(c, ids, S)
<1> DEFINE n == Len(ids)
           X == Seq(Y)
           E(f) == [i \in 0..n |-> IF i = 0 THEN <<>>
                                   ELSE IF ids[i] \in S THEN Append(f[i - 1], ids[i]) ELSE f[i - 1]]
           c == CHOOSE f : f = E(f)
           F == [i \in 1..n |-> [s \in X |-> IF ids[i] \in S THEN Append(s, ids[i]) ELSE s]]
<1>1. n \in Nat /\ ids \in [1..n -> Y]
  BY LenProperties
<1>2. Kept(ids, S) = c[n]
  BY DEF Kept
<1> HIDE DEF n
<1>3. <<>> \in X
  OBVIOUS
<1>4. ASSUME NEW i \in 1..n, NEW s \in X PROVE (IF ids[i] \in S THEN Append(s, ids[i]) ELSE s) \in X
  <2>1. ids[i] \in Y
    BY <1>1
  <2> QED BY <2>1, AppendProperties
<1>5. F \in [1..n -> [X -> X]]
  <2> HIDE DEF X
  <2> QED BY <1>4
<1>6. \A i \in 1..n, s \in X : F[i][s] = IF ids[i] \in S THEN Append(s, ids[i]) ELSE s
  <2> HIDE DEF X
  <2> QED OBVIOUS
<1> HIDE DEF F, X
<1>7. PICK g : Run(g, n, X, <<>>, F)
  BY <1>1, <1>3, <1>5, Recursion
<1>8. /\ g \in [0..n -> X] /\ g[0] = <<>>
      /\ \A i \in 1..n : g[i] = IF ids[i] \in S THEN Append(g[i - 1], ids[i]) ELSE g[i - 1]
  <2>1. g \in [0..n -> X] /\ g[0] = <<>> /\ \A i \in 1..n : g[i] = F[i][g[i - 1]]
    BY <1>7 DEF Run
  <2>2. \A i \in 1..n : g[i - 1] \in X
    <3>1. \A i \in 1..n : i - 1 \in 0..n
      BY <1>1
    <3> QED BY <2>1, <3>1
  <2> QED BY <1>6, <2>1, <2>2
<1>9. g = E(g)
  <2>1. ASSUME NEW i \in 0..n
        PROVE  g[i] = IF i = 0 THEN <<>>
                      ELSE IF ids[i] \in S THEN Append(g[i - 1], ids[i]) ELSE g[i - 1]
    <3>1. CASE i = 0
      BY <1>8, <3>1
    <3>2. CASE i # 0
      <4>1. i \in 1..n
        BY <1>1, <3>2
      <4> QED BY <1>8, <3>2, <4>1
    <3> QED BY <3>1, <3>2
  <2> QED BY <1>8, <2>1
<1>10. c = E(c)
  BY <1>9
<1>11. \A i \in 0..n : c[i] = IF i = 0 THEN <<>>
                              ELSE IF ids[i] \in S THEN Append(c[i - 1], ids[i]) ELSE c[i - 1]
  <2> HIDE DEF c
  <2> QED BY <1>10
<1> HIDE DEF c
<1>12. c[0] = <<>> /\ \A i \in 1..n : c[i] = IF ids[i] \in S THEN Append(c[i - 1], ids[i]) ELSE c[i - 1]
  <2>1. 0 \in 0..n /\ \A i \in 1..n : i \in 0..n /\ i # 0
    BY <1>1
  <2> QED BY <1>11, <2>1
<1>13. c[n] = g[n]
  <2>1. ASSUME NEW i \in 1..n, c[i - 1] = g[i - 1] PROVE c[i] = g[i]
    BY <1>8, <1>12, <2>1
  <2>2. c[0] = g[0]
    BY <1>8, <1>12
  <2> QED BY <1>1, <2>1, <2>2, FollowsRun
<1>14. IsKept(g, ids, S)
  BY <1>2, <1>8, <1>13 DEF IsKept, n
<1> QED BY <1>8, <1>14 DEF n, X

\* A posting list below n is one below any greater bound.
LEMMA PostingBelow ==
    ASSUME NEW n \in Nat, NEW k \in Nat, n <= k, NEW p, IsPosting(p, n)
    PROVE  IsPosting(p, k)
<1>1. /\ p \in Seq(Nat) /\ \A i \in 1..Len(p) : p[i] < n
      /\ \A i, j \in 1..Len(p) : i < j => p[i] < p[j]
  BY DEF IsPosting
<1>2. \A i \in 1..Len(p) : p[i] \in Nat
  BY <1>1, ElementOfSeq
<1>3. \A i \in 1..Len(p) : p[i] < k
  BY <1>1, <1>2
<1> QED BY <1>1, <1>3 DEF IsPosting

\* The list kept: the docids of S among ids, in ascending order.
LEMMA KeptPosting ==
    ASSUME NEW n \in Nat, NEW ids, IsPosting(ids, n), NEW S
    PROVE  /\ IsPosting(Kept(ids, S), n)
           /\ \A d : InPosting(Kept(ids, S), d) <=> (InPosting(ids, d) /\ d \in S)
<1> DEFINE l == Len(ids)
           Among(i, d) == \E k \in 1..i : ids[k] = d
           top(i) == IF i = 0 THEN 0 ELSE ids[i] + 1
           Good(p, i) == IsPosting(p, top(i)) /\ \A d : InPosting(p, d) <=> (Among(i, d) /\ d \in S)
<1>1. /\ ids \in Seq(Nat) /\ l \in Nat /\ \A i \in 1..l : ids[i] \in Nat /\ ids[i] < n
      /\ \A i, j \in 1..l : i < j => ids[i] < ids[j]
  BY ElementOfSeq, LenProperties DEF IsPosting
<1>2. PICK c \in [0..Len(ids) -> Seq(Nat)] : IsKept(c, ids, S)
  BY <1>1, KeptRun
<1>3. /\ c[0] = <<>> /\ Kept(ids, S) = c[l]
      /\ \A i \in 1..l : c[i] = IF ids[i] \in S THEN Append(c[i - 1], ids[i]) ELSE c[i - 1]
  BY <1>2 DEF IsKept
<1> HIDE DEF l
<1> DEFINE G == {i \in 0..l : Good(c[i], i)}
<1>4. 0 \in G
  <2>1. <<>> \in Seq(Nat) /\ Len(<<>>) = 0
    OBVIOUS
  <2>2. IsPosting(<<>>, 0) /\ \A d : ~InPosting(<<>>, d)
    BY <2>1 DEF IsPosting, InPosting
  <2>3. Good(c[0], 0)
    BY <1>3, <2>2
  <2> HIDE DEF Good
  <2> QED BY <1>1, <2>3
<1>5. ASSUME NEW i \in 1..l, i - 1 \in G PROVE i \in G
  <2> DEFINE p == c[i - 1]
             x == ids[i]
  <2>1. Good(p, i - 1) /\ i - 1 \in 0..l /\ i \in 0..l
    <3> HIDE DEF Good
    <3> QED BY <1>1, <1>5
  <2>2. x \in Nat /\ top(i) = x + 1 /\ top(i - 1) \in Nat /\ top(i - 1) <= x
    <3>1. x \in Nat /\ top(i) = x + 1
      BY <1>1
    <3>2. CASE i = 1
      BY <3>1, <3>2
    <3>3. CASE i # 1
      <4>1. i - 1 \in 1..l /\ i - 1 < i
        BY <1>1, <3>3
      <4>2. ids[i - 1] \in Nat /\ ids[i - 1] < x
        BY <1>1, <4>1
      <4> QED BY <3>1, <4>1, <4>2, SMTT(60)
    <3> QED BY <3>1, <3>2, <3>3
  <2>3. c[i] = IF x \in S THEN Append(p, x) ELSE p
    BY <1>3
  <2>4. \A d : Among(i, d) <=> (Among(i - 1, d) \/ d = x)
    <3>1. \A k \in 1..i : k = i \/ k \in 1..(i - 1)
      BY <1>1
    <3>2. i \in 1..i /\ \A k \in 1..(i - 1) : k \in 1..i
      BY <1>1
    <3> QED BY <3>1, <3>2
  <2>5. IsPosting(p, top(i - 1)) /\ \A d : InPosting(p, d) <=> (Among(i - 1, d) /\ d \in S)
    BY <2>1
  <2> HIDE DEF p, x, Among, top
  <2>6. IsPosting(p, x)
    BY <2>2, <2>5, PostingBelow
  <2>7. /\ IsPosting(p, x + 1) /\ IsPosting(Append(p, x), x + 1)
        /\ \A d : InPosting(Append(p, x), d) <=> (InPosting(p, d) \/ d = x)
    BY <2>2, <2>6, PostingGrows
  <2>8. CASE x \in S
    <3>1. IsPosting(c[i], top(i))
      BY <2>2, <2>3, <2>7, <2>8
    <3>2. \A d : InPosting(c[i], d) <=> (Among(i, d) /\ d \in S)
      BY <2>3, <2>4, <2>5, <2>7, <2>8
    <3>3. Good(c[i], i)
      BY <3>1, <3>2
    <3> HIDE DEF Good
    <3> QED BY <2>1, <3>3
  <2>9. CASE x \notin S
    <3>1. IsPosting(c[i], top(i))
      BY <2>2, <2>3, <2>7, <2>9
    <3>2. \A d : InPosting(c[i], d) <=> (Among(i, d) /\ d \in S)
      BY <2>3, <2>4, <2>5, <2>9
    <3>3. Good(c[i], i)
      BY <3>1, <3>2
    <3> HIDE DEF Good
    <3> QED BY <2>1, <3>3
  <2> QED BY <2>8, <2>9
<1>6. 0..l \subseteq G
  <2> HIDE DEF G
  <2> QED BY <1>1, <1>4, <1>5, Induction
<1>7. Good(c[l], l)
  <2>1. l \in 0..l
    BY <1>1
  <2> HIDE DEF Good
  <2> QED BY <1>6, <2>1
<1>8. top(l) \in Nat /\ top(l) <= n
  <2>1. CASE l = 0
    BY <2>1
  <2>2. CASE l # 0
    <3>1. l \in 1..l
      BY <1>1, <2>2
    <3>2. ids[l] \in Nat /\ ids[l] < n
      BY <1>1, <3>1
    <3> QED BY <2>2, <3>2
  <2> QED BY <2>1, <2>2
<1>9. IsPosting(c[l], n)
  <2>1. IsPosting(c[l], top(l))
    BY <1>7
  <2> HIDE DEF top
  <2> QED BY <1>8, <2>1, PostingBelow
<1>10. \A d : InPosting(c[l], d) <=> (InPosting(ids, d) /\ d \in S)
  BY <1>7 DEF InPosting, l
<1> QED BY <1>3, <1>9, <1>10

\* Of two posting lists with the same docids each begins with the other.
LEMMA PostingPrefix ==
    ASSUME NEW n \in Nat, NEW p, IsPosting(p, n), NEW q, IsPosting(q, n),
           \A d : InPosting(p, d) <=> InPosting(q, d)
    PROVE  \A i \in 1..Len(p) : i <= Len(q) /\ p[i] = q[i]
<1> DEFINE lp == Len(p)
           lq == Len(q)
           T == {i \in 1..lp : ~(i <= lq /\ p[i] = q[i])}
<1>1. /\ lp \in Nat /\ lq \in Nat
      /\ \A i \in 1..lp : p[i] \in Nat
      /\ \A i \in 1..lq : q[i] \in Nat
      /\ \A i, j \in 1..lp : i < j => p[i] < p[j]
      /\ \A i, j \in 1..lq : i < j => q[i] < q[j]
  BY ElementOfSeq, LenProperties DEF IsPosting
<1>2. /\ \A i \in 1..lp : \E k \in 1..lq : q[k] = p[i]
      /\ \A k \in 1..lq : \E i \in 1..lp : p[i] = q[k]
  BY DEF InPosting
<1> HIDE DEF lp, lq
<1>3. ASSUME T # {} PROVE FALSE
  <2>1. PICK i \in T : \A j \in T : i <= j
    <3>1. T \in SUBSET Nat
      OBVIOUS
    <3> HIDE DEF T
    <3> QED BY <1>3, <3>1, LeastNatural
  <2>2. i \in 1..lp /\ ~(i <= lq /\ p[i] = q[i])
    BY <2>1
  <2>3. \A j \in 1..lp : j < i => j <= lq /\ p[j] = q[j]
    BY <1>1, <2>1, <2>2
  <2>4. PICK k \in 1..lq : q[k] = p[i]
    BY <1>2, <2>2
  <2>5. ~(k < i)
    <3>1. ASSUME k < i PROVE FALSE
      <4>1. k \in 1..lp
        BY <1>1, <2>2, <3>1
      <4>2. p[k] = q[k] /\ p[k] < p[i]
        BY <1>1, <2>2, <2>3, <3>1, <4>1
      <4>3. p[k] \in Nat /\ p[i] \in Nat
        BY <1>1, <2>2, <4>1
      <4> QED BY <2>4, <4>2, <4>3
    <3> QED BY <3>1
  <2>6. i \in 1..lq
    BY <1>1, <2>2, <2>4, <2>5
  <2>7. PICK m \in 1..lp : p[m] = q[i]
    BY <1>2, <2>6
  <2>8. ~(m < i)
    <3>1. ASSUME m < i PROVE FALSE
      <4>1. m \in 1..lq /\ p[m] = q[m]
        BY <1>1, <2>3, <2>7, <3>1
      <4>2. q[m] < q[i]
        BY <1>1, <2>6, <3>1, <4>1
      <4>3. q[m] \in Nat /\ q[i] \in Nat
        BY <1>1, <2>6, <4>1
      <4> QED BY <2>7, <4>1, <4>2, <4>3
    <3> QED BY <3>1
  <2>9. q[i] \in Nat /\ p[i] \in Nat /\ q[i] <= p[i] /\ p[i] <= q[i]
    <3>1. q[i] \in Nat /\ p[i] \in Nat
      BY <1>1, <2>2, <2>6
    <3>2. k = i \/ q[i] < q[k]
      BY <1>1, <2>4, <2>5, <2>6
    <3>3. m = i \/ p[i] < p[m]
      BY <1>1, <2>2, <2>7, <2>8
    <3> QED BY <2>4, <2>7, <3>1, <3>2, <3>3
  <2> QED BY <2>2, <2>6, <2>9
<1>4. \A i \in 1..lp : i <= lq /\ p[i] = q[i]
  <2>1. T = {}
    BY <1>3
  <2> QED BY <2>1
<1> QED BY <1>4 DEF lp, lq

\* An ascending list is determined by its docids.
LEMMA PostingUnique ==
    ASSUME NEW n \in Nat, NEW p, IsPosting(p, n), NEW q, IsPosting(q, n),
           \A d : InPosting(p, d) <=> InPosting(q, d)
    PROVE  p = q
<1> DEFINE lp == Len(p)
           lq == Len(q)
<1>1. p \in [1..lp -> Nat] /\ q \in [1..lq -> Nat] /\ lp \in Nat /\ lq \in Nat
  BY LenProperties DEF IsPosting
<1>2. \A i \in 1..lp : i <= lq /\ p[i] = q[i]
  BY PostingPrefix
<1>3. \A i \in 1..lq : i <= lp
  BY PostingPrefix
<1> HIDE DEF lp, lq
<1>4. lp = lq
  <2>1. lp = 0 \/ lp \in 1..lp
    BY <1>1
  <2>2. lq = 0 \/ lq \in 1..lq
    BY <1>1
  <2> QED BY <1>1, <1>2, <1>3, <2>1, <2>2, SMTT(60)
<1> QED BY <1>1, <1>2, <1>4

------------------------------
(* The trigram prefilter *)

\* A text that contains another has its trigrams.
LEMMA ContainsTrigrams ==
    ASSUME NEW a \in Text, NEW b \in Text, contains(a, b)
    PROVE  trigrams(b) \subseteq trigrams(a)
<1> DEFINE n == Len(a)
           k == Len(b)
<1>1. n \in Nat /\ k \in Nat
  BY LenProperties DEF Text
<1>2. PICK o \in 0..(n - k) : \A j \in 1..k : a[o + j] = b[j]
  BY DEF contains
<1>3. trigrams(b) = {<<b[i], b[i + 1], b[i + 2]>> : i \in 1..(k - 2)}
  BY DEF trigrams
<1>4. trigrams(a) = {<<a[i], a[i + 1], a[i + 2]>> : i \in 1..(n - 2)}
  BY DEF trigrams
<1> HIDE DEF n, k
<1>5. ASSUME NEW i \in 1..(k - 2)
      PROVE  <<b[i], b[i + 1], b[i + 2]>> \in trigrams(a)
  <2> DEFINE m == o + i
  <2>1. i \in 1..k /\ i + 1 \in 1..k /\ i + 2 \in 1..k
    BY <1>1
  <2>2. m \in 1..(n - 2) /\ o + i = m /\ o + (i + 1) = m + 1 /\ o + (i + 2) = m + 2
    BY <1>1
  <2>3. a[m] = b[i] /\ a[m + 1] = b[i + 1] /\ a[m + 2] = b[i + 2]
    BY <1>2, <2>1, <2>2
  <2> HIDE DEF m
  <2> QED BY <1>4, <2>2, <2>3
<1> QED BY <1>3, <1>5

\* Folding both texts keeps the one in the other.
LEMMA ContainsFolded ==
    ASSUME NEW a \in Text, NEW b \in Text, contains(a, b)
    PROVE  contains(fold(a), fold(b))
<1> DEFINE n == Len(a)
           k == Len(b)
           A == fold(a)
           B == fold(b)
<1>1. /\ n \in Nat /\ k \in Nat /\ Len(A) = n /\ Len(B) = k
      /\ \A i \in 1..n : A[i] = AsciiFold[a[i]]
      /\ \A i \in 1..k : B[i] = AsciiFold[b[i]]
  BY FoldType
<1>2. PICK o \in 0..(n - k) : \A j \in 1..k : a[o + j] = b[j]
  BY DEF contains
<1> HIDE DEF n, k, A, B
<1>3. ASSUME NEW j \in 1..k PROVE A[o + j] = B[j]
  <2>1. o + j \in 1..n
    BY <1>1
  <2> QED BY <1>1, <1>2, <2>1
<1>4. o \in 0..(Len(A) - Len(B)) /\ \A j \in 1..Len(B) : A[o + j] = B[j]
  BY <1>1, <1>3
<1>5. contains(A, B)
  BY <1>4 DEF contains
<1> QED BY <1>5 DEF A, B

\* A path that matches contains the folded needle when it is folded too.
LEMMA PathFolds ==
    ASSUME NEW path \in Text, NEW q \in Query, PathMatches(path, q)
    PROVE  contains(fold(path), fold(q.original))
<1>1. q.original \in Text
  BY DEF Query
<1> QED BY <1>1, ContainsFolded DEF PathMatches

\* So does a text that verifies, if the index covers the query.
LEMMA TextFolds ==
    ASSUME NEW text \in Text, NEW q \in Query, IndexCovers(q), cs_verify(text, q)
    PROVE  contains(fold(text), q.folded)
<1>1. q.original \in Text
  BY DEF Query
<1> QED BY <1>1, ContainsFolded DEF cs_verify, IndexCovers

\* A needle of three bytes or more has a trigram.
LEMMA HasTrigram ==
    ASSUME NEW s \in Text, ~(Len(s) < 3)
    PROVE  trigrams(s) # {}
<1>1. Len(s) \in Nat
  BY LenProperties DEF Text
<1>2. 1 \in 1..(Len(s) - 2)
  BY <1>1
<1>3. <<s[1], s[1 + 1], s[1 + 2]>> \in trigrams(s)
  BY <1>2 DEF trigrams
<1> QED BY <1>3

\* All docids, as a list.
LEMMA AllDocidsPosting ==
    ASSUME NEW n \in Nat
    PROVE  IsPosting(AllDocids(n), n) /\ \A d \in 0..(n - 1) : InPosting(AllDocids(n), d)
<1> DEFINE a == AllDocids(n)
<1>1. a = [i \in 1..n |-> i - 1]
  BY DEF AllDocids
<1>2. a \in [1..n -> Nat] /\ \A i \in 1..n : a[i] = i - 1
  BY <1>1
<1> HIDE DEF a
<1>3. a \in Seq(Nat) /\ Len(a) = n
  BY <1>2, SeqOver
<1>4. IsPosting(a, n)
  BY <1>2, <1>3, SMTT(60) DEF IsPosting
<1>5. ASSUME NEW d \in 0..(n - 1) PROVE InPosting(a, d)
  <2>1. d + 1 \in 1..n /\ (d + 1) - 1 = d
    OBVIOUS
  <2>2. a[d + 1] = d
    BY <1>2, <2>1
  <2> QED BY <1>3, <2>1, <2>2 DEF InPosting
<1> QED BY <1>4, <1>5 DEF a

\* The posting lists of the needle's trigrams.
ListsOf(m, tris) == [t \in tris |-> IF t \in DOMAIN m THEN m[t] ELSE NoValue]

\* The candidates are a list of docids with every text that has the needle when folded.
LEMMA CandidatesComplete ==
    ASSUME NEW m, NEW h, NEW paths \in Seq(Text), IsPostings(m, h, Len(paths)), IsIndex(m, paths),
           NEW f \in Text
    PROVE  LET cand == CandidateDocids(ListsOf(m, trigrams(f)), Len(paths), f)
           IN  /\ IsPosting(cand, Len(paths))
               /\ \A d \in 0..(Len(paths) - 1) : contains(fold(paths[d + 1]), f) => InPosting(cand, d)
<1> DEFINE n == Len(paths)
           tris == trigrams(f)
           lists == ListsOf(m, tris)
           cand == CandidateDocids(lists, n, f)
           Hit(d) == contains(fold(paths[d + 1]), f)
           T(d) == trigrams(fold(paths[d + 1]))
<1>1. n \in Nat
  BY LenProperties
<1>2. ASSUME NEW d \in 0..(n - 1), Hit(d) PROVE tris \subseteq T(d)
  <2>1. d + 1 \in 1..n
    BY <1>1
  <2>2. paths[d + 1] \in Text
    BY <2>1, ElementOfSeq
  <2>3. fold(paths[d + 1]) \in Text
    BY <2>2, FoldType
  <2> QED BY <1>2, <2>3, ContainsTrigrams
<1>3. /\ \A d \in 0..(n - 1) : T(d) \subseteq DOMAIN m
      /\ \A t \in DOMAIN m, d \in Nat : InPosting(m[t], d) <=> (d < n /\ t \in T(d))
  BY DEF IsIndex
<1>4. \A t \in DOMAIN m : IsPosting(m[t], n)
  BY DEF IsPostings
<1>5. DOMAIN lists = tris /\ \A t \in tris : lists[t] = IF t \in DOMAIN m THEN m[t] ELSE NoValue
  BY DEF ListsOf
<1>6. cand = IF Len(f) < 3 THEN AllDocids(n)
             ELSE IF \E t \in DOMAIN lists : lists[t] = NoValue THEN <<>>
             ELSE lists[CHOOSE t \in DOMAIN lists : \A u \in DOMAIN lists : Len(lists[t]) <= Len(lists[u])]
  BY DEF CandidateDocids
<1>7. ~(Len(f) < 3) => tris # {}
  BY <1>1, HasTrigram
<1> HIDE DEF n, tris, lists, cand, Hit, T
<1>8. CASE Len(f) < 3
  <2>1. cand = AllDocids(n)
    BY <1>6, <1>8
  <2>2. IsPosting(cand, n) /\ \A d \in 0..(n - 1) : InPosting(cand, d)
    BY <1>1, <2>1, AllDocidsPosting
  <2> QED BY <2>2 DEF cand, lists, tris, n, Hit
<1>9. CASE ~(Len(f) < 3) /\ \E t \in DOMAIN lists : lists[t] = NoValue
  <2>1. PICK t \in tris : lists[t] = NoValue
    BY <1>5, <1>9
  <2>2. t \notin DOMAIN m
    <3>1. ASSUME t \in DOMAIN m PROVE FALSE
      <4>1. m[t] = NoValue
        BY <1>5, <2>1, <3>1
      <4>2. m[t] \in Seq(Nat)
        BY <1>4, <3>1 DEF IsPosting
      <4> QED BY <4>1, <4>2, NoneAssumption
    <3> QED BY <3>1
  <2>3. cand = <<>>
    BY <1>6, <1>9
  <2>4. IsPosting(cand, n)
    <3>1. <<>> \in Seq(Nat) /\ Len(<<>>) = 0
      OBVIOUS
    <3> QED BY <2>3, <3>1 DEF IsPosting
  <2>5. \A d \in 0..(n - 1) : ~Hit(d)
    BY <1>2, <1>3, <2>1, <2>2
  <2> QED BY <2>4, <2>5 DEF cand, lists, tris, n, Hit
<1>10. CASE ~(Len(f) < 3) /\ ~(\E t \in DOMAIN lists : lists[t] = NoValue)
  <2>1. \A t \in tris : t \in DOMAIN m /\ lists[t] = m[t]
    BY <1>5, <1>10
  <2>2. \A t \in tris : IsPosting(lists[t], n) /\ Len(lists[t]) \in Nat
    <3>1. ASSUME NEW t \in tris PROVE IsPosting(lists[t], n) /\ Len(lists[t]) \in Nat
      <4>1. IsPosting(lists[t], n)
        BY <1>4, <2>1
      <4>2. lists[t] \in Seq(Nat)
        BY <4>1 DEF IsPosting
      <4> QED BY <4>1, <4>2, LenProperties
    <3> QED BY <3>1
  <2> DEFINE Lens == {Len(lists[t]) : t \in tris}
             least == CHOOSE t \in DOMAIN lists : \A u \in DOMAIN lists : Len(lists[t]) <= Len(lists[u])
  <2>3. \E t \in tris : \A u \in tris : Len(lists[t]) <= Len(lists[u])
    <3>1. Lens \in SUBSET Nat /\ Lens # {}
      BY <1>7, <1>10, <2>2
    <3>2. PICK x \in Lens : \A y \in Lens : x <= y
      <4> HIDE DEF Lens
      <4> QED BY <3>1, LeastNatural
    <3>3. PICK t \in tris : x = Len(lists[t])
      BY <3>2
    <3>4. \A u \in tris : Len(lists[u]) \in Lens
      OBVIOUS
    <3> QED BY <3>2, <3>3, <3>4
  <2>4. least \in tris
    BY <1>5, <2>3
  <2>5. cand = lists[least]
    BY <1>6, <1>10
  <2> HIDE DEF least
  <2>6. IsPosting(cand, n) /\ cand = m[least] /\ least \in DOMAIN m
    BY <2>1, <2>2, <2>4, <2>5
  <2>7. ASSUME NEW d \in 0..(n - 1), Hit(d) PROVE InPosting(cand, d)
    <3>1. least \in T(d)
      BY <1>2, <2>4, <2>7
    <3>2. d \in Nat /\ d < n
      BY <1>1
    <3> QED BY <1>3, <2>6, <3>1, <3>2
  <2> QED BY <2>6, <2>7 DEF cand, lists, tris, n, Hit
<1> QED BY <1>8, <1>9, <1>10

------------------------------
(* Filename queries *)

\* Docids fit 32 bits.
LEMMA DocidsFit == MaxDocs \in Nat /\ MaxDocs <= PowerOfTwo(32)
<1> DEFINE b == 256
           p == PowerOfTwo(8)
           w == PowerOfTwo(16)
           r == PowerOfTwo(24)
           u == PowerOfTwo(32)
<1>1. MaxDocs \in Nat /\ MaxDocs \div w < w
  BY DocidAssumption
<1>2. p = b /\ w = b * p /\ r = b * w /\ u = b * r /\ w \in Nat /\ u \in Nat
  BY PowersOfBytes
<1>3. b \in Nat \ {0}
  OBVIOUS
<1> HIDE DEF b, p, w, r, u
<1>4. w = b * b /\ u = b * (b * w)
  BY <1>2
<1>5. w # 0 /\ u = w * w
  BY <1>2, <1>3, <1>4
<1>6. MaxDocs < w * w
  BY <1>1, <1>2, <1>5, BelowSquare
<1>7. MaxDocs <= u
  BY <1>1, <1>2, <1>5, <1>6
<1> QED BY <1>1, <1>7 DEF u

\* The file's table gives the builder's posting lists.
LEMMA FilePosting ==
    ASSUME BuilderInv, FileInv, file # NoFile, NEW trig, hash[trig] \in Nat
    PROVE  DbPosting(hash, file, Reader, trig)
               = IF trig \in DOMAIN db.try_map THEN db.try_map[trig] ELSE NoValue
<1>1. PICK dict \in Seq(DictCell) : IsFile(file, hash, db, dict, BuildTime) /\ IsReader(Reader, db, dict)
  BY FileOpens
<1> DEFINE m == db.try_map
           h == hash
           n == Len(db.paths)
           to == TryOff(db, dict)
           po == PostOff(db, dict)
           T == TableOf(m, h, po)
           s == Slots(NumKeys(m))
           P == FlattenSeq(PostingSection(m))
           f == file
           r == Reader
<1>2. /\ IsCells(f) /\ to \in Nat /\ po \in Nat /\ Holds(f, to, T) /\ Holds(f, po, P)
      /\ r.try_off = to /\ r.slots = s
  BY <1>1 DEF IsFile, IsReader
<1>3. IsPostings(m, h, n) /\ n \in Nat /\ n <= MaxDocs
  BY LenProperties DEF BuilderInv, IsBuilder
<1>4. DbPosting(h, f, r, trig) = posting(h, Slice(f, r.try_off, r.slots), f, trig)
  BY DEF DbPosting
<1> HIDE DEF m, h, n, to, po, f, r
<1>5. h[trig] \in Nat
  BY DEF h
<1>6. s \in Nat /\ IsCells(T) /\ Len(T) = s
  BY <1>2, <1>3, TableLayout
<1> HIDE DEF T, s
<1>7. PICK X : f \in Seq(X)
  BY <1>2 DEF IsCells
<1>8. Slice(f, r.try_off, r.slots) = T
  <2>1. PICK Y : T \in Seq(Y)
    BY <1>6 DEF IsCells
  <2>2. Slice(f, to, Len(T)) = T
    BY <1>2, <1>7, <2>1, SliceHeld
  <2> QED BY <1>2, <1>6, <2>2
<1>9. n <= PowerOfTwo(32)
  <2> DEFINE w == PowerOfTwo(32)
  <2>1. w \in Nat
    BY Powers
  <2>2. MaxDocs \in Nat /\ MaxDocs <= w
    BY DocidsFit
  <2> HIDE DEF w
  <2>3. n <= w
    BY <1>3, <2>1, <2>2
  <2> QED BY <2>3 DEF w
<1>10. posting(h, TableOf(m, h, po), f, trig) = IF trig \in DOMAIN m THEN m[trig] ELSE NoValue
  BY <1>2, <1>3, <1>5, <1>7, <1>9, PostingFound DEF P
<1>11. DbPosting(h, f, r, trig) = IF trig \in DOMAIN m THEN m[trig] ELSE NoValue
  BY <1>4, <1>8, <1>10 DEF T
<1> QED BY <1>11 DEF m, h, f, r

\* What verifies on the file is what matches among the records.
LEMMA VerifiedRecords ==
    ASSUME BuilderInv, FileInv, file # NoFile, NEW q
    PROVE  {d \in 0..(Reader.num_docs - 1) : PathMatches(doc_path(file, Reader, d), q)}
               = {d \in 0..(Len(recs) - 1) : PathMatches(recs[d + 1].path, q)}
<1>1. Reader.num_docs = Len(recs) /\ Len(recs) \in Nat
  BY FileOpens, LenProperties DEF IsReader, BuilderInv
<1>2. ASSUME NEW d \in 0..(Len(recs) - 1)
      PROVE  doc_path(file, Reader, d) = recs[d + 1].path
  <2>1. d \in Nat /\ d < Len(recs)
    BY <1>1
  <2>2. ReadsRecords(file, Reader, d)
    BY <2>1, ReadRecord
  <2> QED BY <2>1, <2>2 DEF ReadsRecords
<1> QED BY <1>1, <1>2

\* One query over a written file.
LEMMA QueryAnswers ==
    ASSUME IInv, file # NoFile, NEW q \in Queries, NEW limit
    PROVE  single_docids(hash, file, Reader, q, limit)
               = Truncated(Matching(recs, LAMBDA r : PathMatches(r.path, q)), limit)
<1> DEFINE n == Len(recs)
           S == {d \in 0..(n - 1) : PathMatches(recs[d + 1].path, q)}
           m == db.try_map
           f == fold(q.original)
           tris == trigrams(f)
           lists == [t \in tris |-> DbPosting(hash, file, Reader, t)]
           cand == CandidateDocids(ListsOf(m, tris), n, f)
           all == AllDocids(n)
<1>1. BuilderInv /\ FileInv
  BY DEF IInv
<1>2. q \in Query /\ f \in Text /\ tris \subseteq HashKey
  BY QueryAssumption, FoldType DEF Query
<1>3. /\ IsPostings(m, hash, n) /\ IsIndex(m, db.paths) /\ db.paths \in Seq(Text)
      /\ Len(db.paths) = n /\ n \in Nat /\ hash \in [HashKey -> HashValue]
      /\ \A i \in 1..n : db.paths[i] = recs[i].path
  BY <1>1, LenProperties DEF BuilderInv, IsBuilder
<1>4. ASSUME NEW t \in tris
      PROVE  DbPosting(hash, file, Reader, t) = IF t \in DOMAIN m THEN m[t] ELSE NoValue
  <2>1. hash[t] \in Nat
    BY <1>2, <1>3, RecordAssumption
  <2> QED BY <1>1, <2>1, FilePosting
<1>5. lists = ListsOf(m, tris)
  <2> HIDE DEF tris, m
  <2> QED BY <1>4 DEF ListsOf
<1>6. Reader.num_docs = n
  BY <1>1, FileOpens, <1>3 DEF IsReader
<1>7. {d \in 0..(Reader.num_docs - 1) : PathMatches(doc_path(file, Reader, d), q)} = S
  BY <1>1, VerifiedRecords
<1>8. single_docids(hash, file, Reader, q, limit)
          = Truncated(Kept(CandidateDocids(lists, Reader.num_docs, f),
                           {d \in 0..(Reader.num_docs - 1) : PathMatches(doc_path(file, Reader, d), q)}), limit)
  BY DEF single_docids, candidates
<1>9. single_docids(hash, file, Reader, q, limit) = Truncated(Kept(cand, S), limit)
  <2> HIDE DEF lists, S, f
  <2> QED BY <1>5, <1>6, <1>7, <1>8
<1>10. Matching(recs, LAMBDA r : PathMatches(r.path, q)) = Kept(all, S)
  BY DEF Matching
<1>11. IsPosting(cand, n) /\ \A d \in 0..(n - 1) : contains(fold(db.paths[d + 1]), f) => InPosting(cand, d)
  <2> DEFINE ps == db.paths
             h == hash
  <2>1. ps \in Seq(Text) /\ IsPostings(m, h, Len(ps)) /\ IsIndex(m, ps) /\ Len(ps) = n
    BY <1>3
  <2> HIDE DEF ps, h, m, f
  <2>2. LET cd == CandidateDocids(ListsOf(m, trigrams(f)), Len(ps), f)
        IN  IsPosting(cd, Len(ps)) /\ \A d \in 0..(Len(ps) - 1) : contains(fold(ps[d + 1]), f) => InPosting(cd, d)
    BY <1>2, <2>1, CandidatesComplete
  <2> QED BY <2>1, <2>2 DEF ps
<1>12. IsPosting(all, n) /\ \A d \in 0..(n - 1) : InPosting(all, d)
  BY <1>3, AllDocidsPosting
<1>13. \A d \in S : InPosting(cand, d) /\ InPosting(all, d)
  <2>1. ASSUME NEW d \in S PROVE InPosting(cand, d) /\ InPosting(all, d)
    <3>1. d \in 0..(n - 1) /\ d + 1 \in 1..n
      BY <1>3
    <3>2. db.paths[d + 1] \in Text /\ PathMatches(db.paths[d + 1], q)
      BY <1>3, <3>1, ElementOfSeq
    <3>3. contains(fold(db.paths[d + 1]), f)
      BY <1>2, <3>2, PathFolds
    <3> HIDE DEF cand, all, f
    <3> QED BY <1>11, <1>12, <3>1, <3>3
  <2> QED BY <2>1
<1> HIDE DEF cand, all, S
<1>14. /\ IsPosting(Kept(cand, S), n)
       /\ \A d : InPosting(Kept(cand, S), d) <=> (InPosting(cand, d) /\ d \in S)
  BY <1>3, <1>11, KeptPosting
<1>15. /\ IsPosting(Kept(all, S), n)
       /\ \A d : InPosting(Kept(all, S), d) <=> (InPosting(all, d) /\ d \in S)
  BY <1>3, <1>12, KeptPosting
<1> DEFINE kc == Kept(cand, S)
           ka == Kept(all, S)
<1>16. IsPosting(kc, n) /\ IsPosting(ka, n) /\ \A d : InPosting(kc, d) <=> InPosting(ka, d)
  BY <1>13, <1>14, <1>15
<1> HIDE DEF kc, ka, n
<1>17. kc = ka
  BY <1>3, <1>16, PostingUnique
<1> QED BY <1>9, <1>10, <1>17 DEF kc, ka

\* Every filename query over the written database answers as a scan of the
\* received records would: for every hash (however its keys collide and
\* wrap around), every set and number of records, every block size, with
\* or without a dictionary, single_docids returns exactly the documents
\* whose path contains the needle, in docid order, up to the limit.
THEOREM FilenameQueries == Spec => []FilenameQueryExact
<1>1. IInv => FilenameQueryExact
  <2> SUFFICES ASSUME IInv, JustBuilt, NEW q \in Queries, NEW limit \in Limits
               PROVE  single_docids(hash, file, Reader, q, limit)
                          = Truncated(Matching(recs, LAMBDA r : PathMatches(r.path, q)), limit)
    BY DEF FilenameQueryExact
  <2>1. file # NoFile
    BY DEF JustBuilt
  <2> QED BY <2>1, QueryAnswers
<1> QED BY <1>1, FilesInvariant, PTL

------------------------------
(* Lists kept from a list of documents *)

\* a is a list of docids, and b the documents of s with these docids.
IsPicked(a, b, s) ==
    /\ Len(a) \in Nat /\ Len(b) = Len(a)
    /\ \A j \in 1..Len(a) : a[j] \in 0..(Len(s) - 1) /\ b[j] = s[a[j] + 1]

\* One document more.
LEMMA PickedMore ==
    ASSUME NEW Y, NEW s, NEW a \in Seq(Nat), NEW b \in Seq(Y), IsPicked(a, b, s),
           NEW d \in 0..(Len(s) - 1), NEW y \in Y, y = s[d + 1], Len(s) \in Nat
    PROVE  IsPicked(Append(a, d), Append(b, y), s)
<1> DEFINE a2 == Append(a, d)
           b2 == Append(b, y)
           n == Len(a)
<1>1. Len(b) = n /\ \A j \in 1..n : a[j] \in 0..(Len(s) - 1) /\ b[j] = s[a[j] + 1]
  BY DEF IsPicked
<1>2. d \in Nat
  OBVIOUS
<1>3. n \in Nat /\ Len(a2) = n + 1 /\ \A j \in 1..(n + 1) : a2[j] = IF j = n + 1 THEN d ELSE a[j]
  BY <1>2, Appended
<1>4. Len(b2) = Len(b) + 1 /\ \A j \in 1..(Len(b) + 1) : b2[j] = IF j = Len(b) + 1 THEN y ELSE b[j]
  BY Appended
<1> HIDE DEF a2, b2, n
<1>5. ASSUME NEW j \in 1..(n + 1) PROVE a2[j] \in 0..(Len(s) - 1) /\ b2[j] = s[a2[j] + 1]
  <2>1. CASE j = n + 1
    BY <1>1, <1>3, <1>4, <2>1
  <2>2. CASE j # n + 1
    <3>1. j \in 1..n
      BY <1>3, <2>2
    <3> QED BY <1>1, <1>3, <1>4, <2>2, <3>1
  <2> QED BY <2>1, <2>2
<1>6. IsPicked(a2, b2, s)
  BY <1>1, <1>3, <1>4, <1>5 DEF IsPicked
<1> QED BY <1>6 DEF a2, b2

\* Keeping documents is keeping their docids.
LEMMA KeptDocs ==
    ASSUME NEW Y, NEW s \in Seq(Y), NEW S
    PROVE  IsPicked(Kept(AllDocids(Len(s)), {d \in 0..(Len(s) - 1) : s[d + 1] \in S}), Kept(s, S), s)
<1> DEFINE n == Len(s)
           ids == AllDocids(n)
           N == {d \in 0..(n - 1) : s[d + 1] \in S}
<1>1. n \in Nat /\ \A i \in 1..n : s[i] \in Y
  BY LenProperties, ElementOfSeq
<1>2. ids \in Seq(Nat) /\ Len(ids) = n
  <2>1. IsPosting(ids, n)
    BY <1>1, AllDocidsPosting
  <2>2. Len(ids) = n
    <3>1. ids = [i \in 1..n |-> i - 1]
      BY DEF AllDocids
    <3>2. ids \in [1..n -> Nat]
      <4> HIDE DEF ids
      <4> QED BY <1>1, <3>1
    <3> HIDE DEF ids
    <3> QED BY <1>1, <3>2, SeqOver
  <2> QED BY <2>1, <2>2 DEF IsPosting
<1>3. \A i \in 1..n : ids[i] = i - 1
  BY DEF AllDocids
<1>4. PICK c \in [0..Len(ids) -> Seq(Nat)] : IsKept(c, ids, N)
  <2> HIDE DEF N
  <2> QED BY <1>2, KeptRun
<1>5. PICK e \in [0..Len(s) -> Seq(Y)] : IsKept(e, s, S)
  BY KeptRun
<1>6. /\ c[0] = <<>> /\ Kept(ids, N) = c[n]
      /\ \A i \in 1..n : c[i] = IF ids[i] \in N THEN Append(c[i - 1], ids[i]) ELSE c[i - 1]
      /\ \A i \in 0..n : c[i] \in Seq(Nat)
  BY <1>2, <1>4 DEF IsKept
<1>7. /\ e[0] = <<>> /\ Kept(s, S) = e[n]
      /\ \A i \in 1..n : e[i] = IF s[i] \in S THEN Append(e[i - 1], s[i]) ELSE e[i - 1]
      /\ \A i \in 0..n : e[i] \in Seq(Y)
  BY <1>5 DEF IsKept
<1>8. \A d \in 0..(n - 1) : d \in N <=> s[d + 1] \in S
  OBVIOUS
<1> HIDE DEF ids, N
<1> DEFINE G == {i \in 0..n : IsPicked(c[i], e[i], s)}
<1>9. 0 \in G
  <2>1. Len(<<>>) = 0
    OBVIOUS
  <2>2. IsPicked(<<>>, <<>>, s)
    BY <2>1 DEF IsPicked
  <2> HIDE DEF n
  <2> QED BY <1>1, <1>6, <1>7, <2>2
<1>10. ASSUME NEW i \in 1..n, i - 1 \in G PROVE i \in G
  <2> DEFINE d == i - 1
  <2>1. IsPicked(c[d], e[d], s) /\ d \in 0..n /\ i \in 0..n
    BY <1>1, <1>10
  <2>2. d \in 0..(n - 1) /\ d + 1 = i /\ ids[i] = d
    BY <1>1, <1>3
  <2>3. c[d] \in Seq(Nat) /\ e[d] \in Seq(Y) /\ s[i] \in Y
    BY <1>1, <1>6, <1>7, <2>1
  <2>4. /\ c[i] = IF s[i] \in S THEN Append(c[d], d) ELSE c[d]
        /\ e[i] = IF s[i] \in S THEN Append(e[d], s[i]) ELSE e[d]
    <3>1. d \in N <=> s[i] \in S
      BY <1>8, <2>2
    <3> QED BY <1>6, <1>7, <2>2, <3>1
  <2> HIDE DEF d
  <2>5. IsPicked(Append(c[d], d), Append(e[d], s[i]), s)
    <3> DEFINE y == s[i]
    <3>1. y \in Y /\ y = s[d + 1]
      BY <2>2, <2>3
    <3> HIDE DEF y
    <3>2. IsPicked(Append(c[d], d), Append(e[d], y), s)
      BY <1>1, <2>1, <2>2, <2>3, <3>1, PickedMore DEF n
    <3> QED BY <3>2 DEF y
  <2>6. IsPicked(c[i], e[i], s)
    BY <2>1, <2>4, <2>5
  <2> QED BY <2>1, <2>6
<1>11. 0..n \subseteq G
  <2> HIDE DEF G, n
  <2> QED BY <1>1, <1>9, <1>10, Induction
<1>12. IsPicked(c[n], e[n], s)
  <2>1. n \in 0..n
    BY <1>1
  <2> HIDE DEF n
  <2> QED BY <1>11, <2>1
<1> QED BY <1>6, <1>7, <1>12 DEF ids, N

\* The first of them, up to a limit.
LEMMA PickedTruncated ==
    ASSUME NEW a, NEW b, NEW s, IsPicked(a, b, s), NEW limit \in Nat \cup {NoValue}
    PROVE  IsPicked(Truncated(a, limit), Truncated(b, limit), s)
<1>1. CASE limit = NoValue
  BY <1>1 DEF Truncated
<1>2. CASE limit # NoValue
  <2> DEFINE n == Len(a)
             m == Min({limit, n})
             a2 == SubSeq(a, 1, m)
             b2 == SubSeq(b, 1, m)
  <2>1. n \in Nat /\ Len(b) = n /\ \A j \in 1..n : a[j] \in 0..(Len(s) - 1) /\ b[j] = s[a[j] + 1]
    BY DEF IsPicked
  <2>2. m \in Nat /\ m <= n
    BY <1>2, <2>1, MinOfTwo, SMTT(60)
  <2>3. Truncated(a, limit) = a2 /\ Truncated(b, limit) = b2
    BY <1>2, <2>1 DEF Truncated
  <2> HIDE DEF m, n
  <2>4. /\ Len(a2) = m /\ \A j \in 1..m : a2[j] = a[j]
        /\ Len(b2) = m /\ \A j \in 1..m : b2[j] = b[j]
    <3>1. a2 = [j \in 1..m |-> a[j]] /\ b2 = [j \in 1..m |-> b[j]]
      BY <2>2
    <3> QED BY <2>2, <3>1
  <2> HIDE DEF a2, b2
  <2>5. \A j \in 1..m : j \in 1..n
    BY <2>1, <2>2
  <2>6. IsPicked(a2, b2, s)
    BY <2>1, <2>2, <2>4, <2>5 DEF IsPicked
  <2> QED BY <2>3, <2>6
<1> QED BY <1>1, <1>2

------------------------------
(* The shard builder *)

Contents(docs) == [i \in 1..Len(docs) |-> docs[i].content]
Loc == [off : Nat, len : Nat]

\* The builder of a shard of these documents.
IsShard(s, docs, h) ==
    LET n == Len(docs)
    IN  /\ docs \in Seq(TextDoc) /\ n \in Nat
        /\ s.paths \in Seq(Text) /\ Len(s.paths) = n
        /\ IsCells(s.meta) /\ Len(s.meta) = n
        /\ \A i \in 1..n : s.paths[i] = docs[i].path /\ s.meta[i] = docs[i].meta
        /\ s.corpus \in Text /\ s.offsets \in Seq(Loc) /\ Len(s.offsets) = n
        /\ \A i \in 1..n : /\ s.offsets[i].len = Len(docs[i].content)
                           /\ Holds(s.corpus, s.offsets[i].off, docs[i].content)
        /\ IsPostings(s.try_map, h, n) /\ IsIndex(s.try_map, Contents(docs))

\* The contents of a shard are texts.
LEMMA ContentsType ==
    ASSUME NEW docs \in Seq(TextDoc)
    PROVE  /\ Contents(docs) \in Seq(Text) /\ Len(Contents(docs)) = Len(docs) /\ Len(docs) \in Nat
           /\ \A i \in 1..Len(docs) : Contents(docs)[i] = docs[i].content
<1> DEFINE n == Len(docs)
           c == Contents(docs)
<1>1. n \in Nat /\ \A i \in 1..n : docs[i] \in TextDoc
  BY LenProperties, ElementOfSeq
<1>2. \A d \in TextDoc : d.content \in Text
  BY RecordAssumption DEF TextDoc
<1>3. c = [i \in 1..n |-> docs[i].content]
  BY DEF Contents
<1> HIDE DEF n, c
<1>4. c \in [1..n -> Text] /\ \A i \in 1..n : c[i] = docs[i].content
  BY <1>1, <1>2, <1>3
<1>5. c \in Seq(Text) /\ Len(c) = n
  BY <1>1, <1>4, SeqOver
<1> QED BY <1>1, <1>4, <1>5 DEF n, c

\* An empty shard.
LEMMA NewIsShard ==
    ASSUME NEW h, NEW id, NEW base
    PROVE  IsShard(NewShard(id, base), <<>>, h)
<1> DEFINE s == NewShard(id, base)
<1>1. s.paths = <<>> /\ s.meta = <<>> /\ s.corpus = <<>> /\ s.offsets = <<>> /\ s.try_map = <<>>
  BY DEF NewShard
<1>2. <<>> \in Seq(TextDoc) /\ <<>> \in Seq(Text) /\ <<>> \in Seq(Byte) /\ <<>> \in Seq(Loc) /\ Len(<<>>) = 0
  OBVIOUS
<1>3. IsCells(<<>>)
  BY <1>2 DEF IsCells
<1>4. IsPostings(<<>>, h, 0)
  <2>1. DOMAIN <<>> = {}
    OBVIOUS
  <2> QED BY <2>1, FS_EmptySet DEF IsPostings
<1>5. IsIndex(<<>>, Contents(<<>>))
  <2> DEFINE e == <<>>
  <2>0. e \in Seq(TextDoc) /\ Len(e) = 0 /\ DOMAIN e = {}
    BY <1>2
  <2> HIDE DEF s, e
  <2>1. Len(Contents(e)) = 0 /\ DOMAIN e = {}
    BY <2>0, ContentsType
  <2>2. IsIndex(e, Contents(e))
    BY <2>1 DEF IsIndex
  <2> USE DEF e
  <2> QED BY <2>2
<1> HIDE DEF s
<1>6. IsShard(s, <<>>, h)
  <2> DEFINE e == <<>>
  <2>1. /\ s.paths = e /\ s.meta = e /\ s.corpus = e /\ s.offsets = e /\ s.try_map = e
        /\ e \in Seq(TextDoc) /\ e \in Seq(Text) /\ e \in Seq(Byte) /\ e \in Seq(Loc) /\ Len(e) = 0
        /\ IsCells(e) /\ IsPostings(e, h, 0) /\ IsIndex(e, Contents(e))
    BY <1>1, <1>2, <1>3, <1>4, <1>5
  <2> HIDE DEF e
  <2>2. IsShard(s, e, h)
    BY <2>1 DEF IsShard, Text
  <2> QED BY <2>2 DEF e
<1> QED BY <1>6 DEF s

\* The posting lists of one text more.
LEMMA ContentIndexed ==
    ASSUME NEW m, NEW h, NEW docs \in Seq(TextDoc), IsPostings(m, h, Len(docs)), IsIndex(m, Contents(docs)),
           NEW d \in TextDoc, \A t \in trigrams(fold(d.content)) : h[t] \in Nat
    PROVE  LET m2 == Indexed(m, d.content, Len(docs))
           IN  IsPostings(m2, h, Len(docs) + 1) /\ IsIndex(m2, Contents(Append(docs, d)))
<1> DEFINE n == Len(docs)
           c == Contents(docs)
           x == d.content
           m2 == Indexed(m, x, n)
           b == [paths |-> c, meta |-> c, try_map |-> m]
           b2 == insert_with(b, x, x)
<1>1. x \in Text
  BY RecordAssumption DEF TextDoc
<1>2. c \in Seq(Text) /\ Len(c) = n /\ n \in Nat /\ \A i \in 1..n : c[i] = docs[i].content
  BY ContentsType
<1>3. b.paths = c /\ b.meta = c /\ b.try_map = m
  OBVIOUS
<1>4. b2.paths = Append(c, x) /\ b2.try_map = m2
  BY <1>2, <1>3 DEF insert_with
<1>5. \A t \in trigrams(fold(x)) : h[t] \in Nat
  OBVIOUS
<1>6. IsPostings(m, h, n) /\ IsIndex(m, c)
  OBVIOUS
<1>8. Contents(Append(docs, d)) = Append(c, x)
  <2> DEFINE e == Append(docs, d)
             c2 == Contents(e)
             a == Append(c, x)
  <2>1. /\ e \in Seq(TextDoc) /\ Len(e) = n + 1
        /\ \A i \in 1..(n + 1) : e[i] = IF i = n + 1 THEN d ELSE docs[i]
    BY Appended
  <2>2. a \in Seq(Text) /\ Len(a) = n + 1 /\ \A i \in 1..(n + 1) : a[i] = IF i = n + 1 THEN x ELSE c[i]
    <3> HIDE DEF c, x
    <3> QED BY <1>1, <1>2, Appended
  <2> HIDE DEF e
  <2>3. c2 \in Seq(Text) /\ Len(c2) = n + 1 /\ \A i \in 1..(n + 1) : c2[i] = e[i].content
    BY <2>1, ContentsType
  <2> HIDE DEF a, c2, c
  <2>4. a \in [1..(n + 1) -> Text] /\ c2 \in [1..(n + 1) -> Text]
    BY <2>2, <2>3, LenProperties
  <2>5. ASSUME NEW i \in 1..(n + 1) PROVE c2[i] = a[i]
    <3>1. CASE i = n + 1
      BY <2>1, <2>2, <2>3, <3>1
    <3>2. CASE i # n + 1
      <4>1. i \in 1..n
        BY <1>2, <3>2
      <4> QED BY <1>2, <2>1, <2>2, <2>3, <3>2, <4>1
    <3> QED BY <3>1, <3>2
  <2>6. c2 = a
    BY <2>4, <2>5
  <2> QED BY <2>6 DEF a, c2, e
<1> HIDE DEF n, c, x, m2, b
<1>9. IsBuilder(b, h) /\ IsIndex(b.try_map, b.paths)
  <2>1. IsCells(c)
    BY <1>2 DEF IsCells
  <2> QED BY <1>2, <1>3, <1>6, <2>1 DEF IsBuilder
<1>10. IsBuilder(b2, h) /\ IsIndex(b2.try_map, b2.paths)
  BY <1>1, <1>5, <1>9, Inserted
<1> HIDE DEF b2
<1>11. Len(Append(c, x)) = n + 1
  BY <1>1, <1>2, Appended
<1>12. IsPostings(m2, h, n + 1) /\ IsIndex(m2, Append(c, x))
  BY <1>4, <1>10, <1>11 DEF IsBuilder
<1> QED BY <1>8, <1>12 DEF n, m2, x

\* What is held stays held when more is written behind it.
LEMMA HeldBefore ==
    ASSUME NEW f \in Text, NEW g \in Text, NEW pos \in Nat, NEW out \in Text, Holds(f, pos, out)
    PROVE  Holds(f \o g, pos, out)
<1> DEFINE r == f \o g
<1>1. Holds(r, 0, f) /\ Len(r) = Len(f) + Len(g) /\ Len(f) \in Nat /\ Len(g) \in Nat
  BY Joined DEF Text
<1>2. Len(out) \in Nat
  BY LenProperties DEF Text
<1> HIDE DEF r
<1>3. Len(r) \in Nat /\ 0 \in Nat /\ 0 + pos = pos
  BY <1>1
<1>4. Holds(r, 0 + pos, out)
  BY <1>1, <1>2, <1>3, HeldWithin
<1> QED BY <1>3, <1>4 DEF r

\* One document more in the shard.
LEMMA AddFile ==
    ASSUME NEW s, NEW docs, NEW h, IsShard(s, docs, h), NEW d \in TextDoc,
           \A t \in trigrams(fold(d.content)) : h[t] \in Nat
    PROVE  IsShard(add_file(s, d.path, d.meta, d.content), Append(docs, d), h)
<1> DEFINE s2 == add_file(s, d.path, d.meta, d.content)
           n == Len(docs)
           x == d.content
           e == Append(docs, d)
           c == s.corpus
           lx == Len(x)
           lc == Len(c)
           loc == [off |-> lc, len |-> lx]
<1>1. /\ docs \in Seq(TextDoc) /\ n \in Nat
      /\ s.paths \in Seq(Text) /\ Len(s.paths) = n
      /\ IsCells(s.meta) /\ Len(s.meta) = n
      /\ \A i \in 1..n : s.paths[i] = docs[i].path /\ s.meta[i] = docs[i].meta
      /\ c \in Text /\ s.offsets \in Seq(Loc) /\ Len(s.offsets) = n
      /\ \A i \in 1..n : s.offsets[i].len = Len(docs[i].content) /\ Holds(c, s.offsets[i].off, docs[i].content)
      /\ IsPostings(s.try_map, h, n) /\ IsIndex(s.try_map, Contents(docs))
  BY DEF IsShard
<1>2. d.path \in Text /\ x \in Text
  BY RecordAssumption DEF TextDoc
<1>3. lx \in Nat /\ lc \in Nat /\ loc \in Loc /\ loc.off = lc /\ loc.len = lx
  BY <1>1, <1>2, LenProperties DEF Text, Loc
<1>4. /\ s2.paths = Append(s.paths, d.path) /\ s2.meta = Append(s.meta, d.meta)
      /\ s2.corpus = c \o x /\ s2.offsets = Append(s.offsets, loc)
      /\ s2.try_map = Indexed(s.try_map, x, n)
  BY <1>1 DEF add_file
<1>5. IsPostings(s2.try_map, h, n + 1) /\ IsIndex(s2.try_map, Contents(e))
  BY <1>1, <1>4, ContentIndexed
<1> HIDE DEF s2, loc
<1>6. /\ e \in Seq(TextDoc) /\ Len(e) = n + 1
      /\ \A i \in 1..(n + 1) : e[i] = IF i = n + 1 THEN d ELSE docs[i]
  BY <1>1, Appended
<1>7. /\ s2.paths \in Seq(Text) /\ Len(s2.paths) = n + 1
      /\ \A i \in 1..(n + 1) : s2.paths[i] = IF i = n + 1 THEN d.path ELSE s.paths[i]
  <2> DEFINE p == s.paths
             y == d.path
  <2>1. p \in Seq(Text) /\ Len(p) = n /\ y \in Text /\ s2.paths = Append(p, y)
    BY <1>1, <1>2, <1>4
  <2> HIDE DEF p, y
  <2>2. /\ Append(p, y) \in Seq(Text) /\ Len(Append(p, y)) = Len(p) + 1
        /\ \A i \in 1..(Len(p) + 1) : Append(p, y)[i] = IF i = Len(p) + 1 THEN y ELSE p[i]
    BY <2>1, Appended
  <2> QED BY <2>1, <2>2 DEF p, y
<1>8. /\ IsCells(s2.meta) /\ Len(s2.meta) = n + 1
      /\ \A i \in 1..(n + 1) : s2.meta[i] = IF i = n + 1 THEN d.meta ELSE s.meta[i]
  <2> DEFINE p == s.meta
             y == d.meta
  <2>1. IsCells(p) /\ Len(p) = n /\ s2.meta = Append(p, y)
    BY <1>1, <1>4
  <2> HIDE DEF p, y
  <2>2. PICK X : p \in Seq(X)
    BY <2>1 DEF IsCells
  <2> DEFINE Z == X \cup {y}
  <2>3. p \in Seq(Z) /\ y \in Z
    <3>1. p \in [1..n -> X]
      BY <2>1, <2>2, LenProperties
    <3>2. p \in [1..n -> Z]
      BY <3>1
    <3> HIDE DEF Z
    <3>3. p \in Seq(Z)
      BY <1>1, <3>2, SeqOver
    <3> QED BY <3>3 DEF Z
  <2> HIDE DEF Z
  <2>4. /\ Append(p, y) \in Seq(Z) /\ Len(Append(p, y)) = Len(p) + 1
        /\ \A i \in 1..(Len(p) + 1) : Append(p, y)[i] = IF i = Len(p) + 1 THEN y ELSE p[i]
    BY <2>3, Appended
  <2>5. IsCells(Append(p, y))
    BY <2>4 DEF IsCells
  <2> QED BY <2>1, <2>4, <2>5 DEF p, y
<1>9. /\ s2.offsets \in Seq(Loc) /\ Len(s2.offsets) = n + 1
      /\ \A i \in 1..(n + 1) : s2.offsets[i] = IF i = n + 1 THEN loc ELSE s.offsets[i]
  <2> DEFINE p == s.offsets
  <2>1. p \in Seq(Loc) /\ Len(p) = n /\ s2.offsets = Append(p, loc)
    BY <1>1, <1>4
  <2> HIDE DEF p
  <2>2. /\ Append(p, loc) \in Seq(Loc) /\ Len(Append(p, loc)) = Len(p) + 1
        /\ \A i \in 1..(Len(p) + 1) : Append(p, loc)[i] = IF i = Len(p) + 1 THEN loc ELSE p[i]
    BY <1>3, <2>1, Appended
  <2> QED BY <2>1, <2>2 DEF p
<1> DEFINE c2 == s2.corpus
<1>10. c2 = c \o x /\ c2 \in Text /\ Holds(c2, lc, x)
  <2>1. c \in Seq(Byte) /\ x \in Seq(Byte)
    BY <1>1, <1>2 DEF Text
  <2>2. c \o x \in Seq(Byte \cup Byte) /\ Holds(c \o x, Len(c), x)
    <3> HIDE DEF c, x
    <3> QED BY <2>1, Joined
  <2> QED BY <1>4, <2>2 DEF Text
<1>11. ASSUME NEW i \in 1..n
       PROVE  /\ s.offsets[i].off \in Nat /\ docs[i].content \in Text
              /\ Holds(c2, s.offsets[i].off, docs[i].content)
  <2> DEFINE o == s.offsets[i].off
             y == docs[i].content
  <2>1. o \in Nat
    <3>1. s.offsets[i] \in Loc
      BY <1>1, ElementOfSeq
    <3> QED BY <3>1 DEF Loc
  <2>2. y \in Text
    <3>1. docs[i] \in TextDoc
      BY <1>1, ElementOfSeq
    <3> QED BY <3>1, RecordAssumption DEF TextDoc
  <2>3. Holds(c, o, y) /\ c \in Text
    BY <1>1
  <2> HIDE DEF o, y, c, x, c2
  <2>4. Holds(c \o x, o, y)
    BY <1>2, <2>1, <2>2, <2>3, HeldBefore
  <2> QED BY <1>10, <2>1, <2>2, <2>4 DEF o, y
<1> HIDE DEF e, c, c2, n
<1>12. ASSUME NEW i \in 1..(n + 1)
       PROVE  /\ s2.paths[i] = e[i].path /\ s2.meta[i] = e[i].meta
              /\ s2.offsets[i].len = Len(e[i].content) /\ Holds(c2, s2.offsets[i].off, e[i].content)
  <2>1. CASE i = n + 1
    BY <1>3, <1>6, <1>7, <1>8, <1>9, <1>10, <2>1, SMTT(60)
  <2>2. CASE i # n + 1
    <3>1. i \in 1..n
      BY <1>1, <2>2
    <3> QED BY <1>1, <1>6, <1>7, <1>8, <1>9, <1>11, <2>2, <3>1
  <2> QED BY <2>1, <2>2
<1>13. IsShard(s2, e, h)
  <2>1. n + 1 \in Nat
    BY <1>1
  <2> QED BY <1>5, <1>6, <1>7, <1>8, <1>9, <1>10, <1>12, <2>1 DEF IsShard, c2
<1> QED BY <1>13 DEF s2, e

------------------------------
(* The file of a shard *)

ShardRecord(s, build_time) ==
    [build_time |-> build_time, shard_id |-> s.shard_id, base_docid |-> s.base_docid,
     num_docs |-> Len(s.paths), slots_log2 |-> slots_log2(Slots(NumKeys(s.try_map)))]

SectionOff(secs, k)   == Len(FlattenSeq(SubSeq(secs, 1, k - 1)))
SectionEntry(secs, k) == [tag |-> SectionTags[k], off |-> SectionOff(secs, k), sz |-> Len(secs[k])]
SectionEntries(secs)  == [k \in 1..7 |-> SectionEntry(secs, k)]

\* Seven sections of any cells.
LEMMA SevenSections ==
    ASSUME NEW a, IsCells(a), NEW b, IsCells(b), NEW c, IsCells(c), NEW d, IsCells(d), NEW e, IsCells(e),
           NEW f, IsCells(f), NEW g, IsCells(g)
    PROVE  LET secs == <<a, b, c, d, e, f, g>>
           IN  /\ \E X : secs \in [1..7 -> Seq(X)] /\ \E Y : secs[1] \in Seq(Y)
               /\ Len(secs) = 7 /\ DOMAIN secs = 1..7 /\ SubSeq(secs, 1, 7) = secs
<1> DEFINE secs == <<a, b, c, d, e, f, g>>
<1>1. PICK A : a \in Seq(A)
  BY DEF IsCells
<1>2. PICK B : b \in Seq(B)
  BY DEF IsCells
<1>3. PICK C : c \in Seq(C)
  BY DEF IsCells
<1>4. PICK D : d \in Seq(D)
  BY DEF IsCells
<1>5. PICK E : e \in Seq(E)
  BY DEF IsCells
<1>6. PICK F : f \in Seq(F)
  BY DEF IsCells
<1>7. PICK G : g \in Seq(G)
  BY DEF IsCells
<1> DEFINE X == A \cup B \cup C \cup D \cup E \cup F \cup G
<1>8. /\ A \subseteq X /\ B \subseteq X /\ C \subseteq X /\ D \subseteq X
      /\ E \subseteq X /\ F \subseteq X /\ G \subseteq X
  OBVIOUS
<1> HIDE DEF X
<1>9. a \in Seq(X) /\ b \in Seq(X) /\ c \in Seq(X) /\ d \in Seq(X)
  BY <1>1, <1>2, <1>3, <1>4, <1>8, SeqMonotonic
<1>10. e \in Seq(X) /\ f \in Seq(X) /\ g \in Seq(X)
  BY <1>5, <1>6, <1>7, <1>8, SeqMonotonic
<1> DEFINE Z == Seq(X)
<1>11. a \in Z /\ b \in Z /\ c \in Z /\ d \in Z /\ e \in Z /\ f \in Z /\ g \in Z
  BY <1>9, <1>10
<1> HIDE DEF Z
<1>12. secs \in Seq(Z) /\ Len(secs) = 7
  BY <1>11
<1> HIDE DEF secs
<1>13. secs \in [1..7 -> Z] /\ DOMAIN secs = 1..7
  BY <1>12, LenProperties
<1>14. SubSeq(secs, 1, 7) = secs
  <2> DEFINE n == 7
             t == SubSeq(secs, 1, n)
  <2>1. n \in Nat /\ n \in 0..n /\ secs \in [1..n -> Z]
    BY <1>13
  <2> HIDE DEF n
  <2>2. t \in [1..n -> Z] /\ \A i \in 1..n : t[i] = secs[i]
    BY <2>1, FirstOf
  <2> HIDE DEF t
  <2>3. t = secs
    BY <2>1, <2>2
  <2> QED BY <2>3 DEF t, n
<1>15. secs[1] \in Seq(X)
  BY <1>13 DEF Z
<1> QED BY <1>12, <1>13, <1>14, <1>15 DEF secs, Z

\* Where the sections of a shard file are, and the table that says so.
IsShardFile(f, secs) ==
    LET total == SectionOff(secs, 8)
    IN  /\ IsCells(f) /\ total \in Nat /\ Len(f) = total + 10
        /\ \A k \in 1..7 : SectionOff(secs, k) \in Nat /\ Holds(f, SectionOff(secs, k), secs[k])
        /\ f[total + 1] = 7 /\ \A k \in 1..7 : f[total + 1 + k] = SectionEntry(secs, k)
        /\ f[total + 9] = total /\ f[total + 10] = 8

\* The sections lie where their entries say.
LEMMA SectionsLayout ==
    ASSUME NEW X, NEW secs \in [1..7 -> Seq(X)], Len(secs) = 7, SubSeq(secs, 1, 7) = secs
    PROVE  /\ IsShardFile(FlattenSeq(secs) \o (<<7>> \o SectionEntries(secs)) \o <<SectionOff(secs, 8), 8>>, secs)
           /\ Len(<<7>> \o SectionEntries(secs)) = 8
<1> DEFINE flat == FlattenSeq(secs)
           total == SectionOff(secs, 8)
           ent == SectionEntries(secs)
           one == <<7>>
           toc == one \o ent
           foot == <<total, 8>>
           a == flat \o toc
           f == a \o foot
<1>1. \A k \in 1..7 : /\ SectionOff(secs, k) \in Nat
                      /\ Holds(flat, SectionOff(secs, k), secs[k])
  BY FlatHolds DEF SectionOff
<1>2. flat \in Seq(X)
  <2>1. secs \in Seq(Seq(X))
    BY SeqOver
  <2> QED BY <2>1, Flattened
<1>3. total = Len(flat) /\ total \in Nat
  <2>1. SubSeq(secs, 1, 8 - 1) = secs
    OBVIOUS
  <2>2. total = Len(flat)
    BY <2>1 DEF SectionOff
  <2> QED BY <1>2, <2>2, LenProperties
<1>4. IsCells(ent) /\ Len(ent) = 7 /\ \A k \in 1..7 : ent[k] = SectionEntry(secs, k)
  <2> DEFINE C == {SectionEntry(secs, k) : k \in 1..7}
  <2>1. ent = [k \in 1..7 |-> SectionEntry(secs, k)]
    BY DEF SectionEntries
  <2>2. \A k \in 1..7 : SectionEntry(secs, k) \in C
    OBVIOUS
  <2> HIDE DEF C, ent
  <2>3. ent \in [1..7 -> C]
    BY <2>1, <2>2
  <2>4. 7 \in Nat
    OBVIOUS
  <2>5. IsCells(ent) /\ Len(ent) = 7
    BY <2>3, <2>4, CellsOver
  <2> QED BY <2>1, <2>5
<1>5. IsCells(one) /\ Len(one) = 1 /\ one[1] = 7
  BY OneCell
<1> HIDE DEF ent, one
<1>6. /\ IsCells(toc) /\ Len(toc) = 8 /\ toc[1] = 7 /\ \A k \in 1..7 : toc[1 + k] = SectionEntry(secs, k)
  <2>1. PICK A : one \in Seq(A)
    BY <1>5 DEF IsCells
  <2>2. PICK B : ent \in Seq(B)
    BY <1>4 DEF IsCells
  <2>3. toc \in Seq(A \cup B) /\ IsConcat(toc, one, ent)
    BY <2>1, <2>2, Concat
  <2> HIDE DEF toc
  <2>4. IsCells(toc)
    BY <2>3 DEF IsCells
  <2>5. /\ Len(toc) = 8 /\ (\A i \in 1..1 : toc[i] = one[i]) /\ (\A i \in 1..7 : toc[1 + i] = ent[i])
    BY <1>4, <1>5, <2>3 DEF IsConcat
  <2> QED BY <1>4, <1>5, <2>4, <2>5
<1>7. IsCells(foot) /\ Len(foot) = 2 /\ foot[1] = total /\ foot[2] = 8
  <2> DEFINE t == total
  <2>1. t \in Nat
    BY <1>3
  <2> HIDE DEF t
  <2>2. <<t, 8>> \in Seq(Nat) /\ Len(<<t, 8>>) = 2 /\ <<t, 8>>[1] = t /\ <<t, 8>>[2] = 8
    BY <2>1
  <2>3. IsCells(<<t, 8>>)
    BY <2>2 DEF IsCells
  <2> QED BY <2>2, <2>3 DEF t
<1>8. IsCells(flat)
  BY <1>2 DEF IsCells
<1> HIDE DEF flat, toc, foot, total
<1>9. /\ IsCells(a) /\ Len(a) = total + 8 /\ Holds(a, total, toc)
      /\ \A pos, out : pos \in Nat /\ Len(out) \in Nat /\ Holds(flat, pos, out) => Holds(a, pos, out)
  BY <1>3, <1>6, <1>8, OneMore
<1> HIDE DEF a
<1>10. /\ IsCells(f) /\ Len(f) = total + 8 + 2 /\ Holds(f, total + 8, foot)
       /\ \A pos, out : pos \in Nat /\ Len(out) \in Nat /\ Holds(a, pos, out) => Holds(f, pos, out)
  BY <1>7, <1>9, OneMore
<1> HIDE DEF f
<1>11. ASSUME NEW k \in 1..7 PROVE Holds(f, SectionOff(secs, k), secs[k])
  <2>1. Len(secs[k]) \in Nat
    <3>1. secs[k] \in Seq(X)
      OBVIOUS
    <3> QED BY <3>1, LenProperties
  <2> QED BY <1>1, <1>9, <1>10, <2>1
<1>12. Holds(f, total, toc)
  <2>1. Len(toc) \in Nat /\ total \in Nat /\ Holds(a, total, toc)
    BY <1>3, <1>6, <1>9
  <2> QED BY <1>10, <2>1
<1>13. f[total + 1] = 7 /\ \A k \in 1..7 : f[total + 1 + k] = SectionEntry(secs, k)
  <2>1. \A j \in 1..8 : f[total + j] = toc[j]
    BY <1>6, <1>12 DEF Holds
  <2>2. 1 \in 1..8 /\ \A k \in 1..7 : 1 + k \in 1..8 /\ total + (1 + k) = total + 1 + k
    BY <1>3
  <2> QED BY <1>6, <2>1, <2>2
<1>14. f[total + 9] = total /\ f[total + 10] = 8
  <2>1. \A j \in 1..2 : f[total + 8 + j] = foot[j]
    BY <1>7, <1>10 DEF Holds
  <2>2. 1 \in 1..2 /\ 2 \in 1..2 /\ total + 8 + 1 = total + 9 /\ total + 8 + 2 = total + 10
    BY <1>3
  <2>3. f[total + 8 + 1] = foot[1] /\ f[total + 8 + 2] = foot[2]
    BY <2>1, <2>2
  <2> QED BY <1>7, <2>2, <2>3
<1>15. Len(f) = total + 10
  BY <1>3, <1>10
<1>16. IsShardFile(f, secs)
  BY <1>1, <1>3, <1>10, <1>11, <1>13, <1>14, <1>15 DEF IsShardFile, total
<1>17. Len(toc) = 8
  BY <1>6
<1> QED BY <1>16, <1>17 DEF f, a, flat, toc, foot, total, ent, one

\* The seven tags differ.
LEMMA TagsDiffer == \A j, k \in 1..7 : SectionTags[j] = SectionTags[k] => j = k
<1>1. ASSUME NEW j \in 1..7, NEW k \in 1..7, SectionTags[j] = SectionTags[k] PROVE j = k
  <2>1. /\ j = 1 \/ j = 2 \/ j = 3 \/ j = 4 \/ j = 5 \/ j = 6 \/ j = 7
        /\ k = 1 \/ k = 2 \/ k = 3 \/ k = 4 \/ k = 5 \/ k = 6 \/ k = 7
    OBVIOUS
  <2> QED BY <1>1, <2>1 DEF SectionTags
<1> QED BY <1>1

\* What ShardReader::open makes of the sections.
IsOpened(f, secs) ==
    /\ ShardFits(f)
    /\ \A k \in 1..7 : ShardOpen(f).sect[SectionTags[k]] = secs[k]
    /\ ShardOpen(f).num_docs = secs[1][1].num_docs
    /\ ShardOpen(f).slots = SlotsOf(secs[1][1].slots_log2)

\* Opening finds every section again.
LEMMA SectionsOpen ==
    ASSUME NEW X, NEW secs \in [1..7 -> Seq(X)], NEW f, IsShardFile(f, secs)
    PROVE  IsOpened(f, secs)
<1> DEFINE total == SectionOff(secs, 8)
           l == Len(f)
           toc == Slice(f, f[l - 1], f[l])
           es == Slice(toc, 1, toc[1])
           at(tag) == CHOOSE e \in ToSet(es) : e.tag = tag
           sect == [tag \in ToSet(SectionTags) |-> Slice(f, at(tag).off, at(tag).sz)]
           r == ShardOpen(f)
<1>1. /\ total \in Nat /\ l = total + 10
      /\ \A k \in 1..7 : SectionOff(secs, k) \in Nat /\ Holds(f, SectionOff(secs, k), secs[k])
      /\ f[total + 1] = 7 /\ \A k \in 1..7 : f[total + 1 + k] = SectionEntry(secs, k)
      /\ f[total + 9] = total /\ f[total + 10] = 8
  BY DEF IsShardFile
<1>2. PICK Y : f \in Seq(Y)
  BY SMTT(60) DEF IsShardFile, IsCells
<1>3. r.sect = sect /\ r.num_docs = sect["metaData"][1].num_docs
      /\ r.slots = SlotsOf(sect["metaData"][1].slots_log2)
  BY DEF ShardOpen
<1> HIDE DEF r, sect, es, toc, total
<1>4. l - 1 = total + 9 /\ f[l - 1] = total /\ f[l] = 8
  BY <1>1
<1>5. ShardFits(f)
  <2>1. f[l - 1] + f[l] = l - 2
    BY <1>1, <1>4
  <2> QED BY <2>1 DEF ShardFits
<1>6. toc \in Seq(Y) /\ Len(toc) = 8 /\ \A i \in 1..8 : toc[i] = f[total + i]
  <2>1. toc = Slice(f, total, 8)
    BY <1>4 DEF toc
  <2>2. total + 8 <= Len(f) /\ 8 \in Nat
    BY <1>1
  <2> HIDE DEF toc
  <2>3. Slice(f, total, 8) \in Seq(Y) /\ IsSlice(Slice(f, total, 8), f, total, 8)
    BY <1>1, <1>2, <2>2, SliceCells
  <2> QED BY <2>1, <2>3 DEF IsSlice
<1>7. toc[1] = 7
  BY <1>1, <1>6
<1>8. es \in Seq(Y) /\ Len(es) = 7 /\ \A k \in 1..7 : es[k] = SectionEntry(secs, k)
  <2>1. es = Slice(toc, 1, 7)
    BY <1>7 DEF es
  <2>2. 1 + 7 <= Len(toc) /\ 7 \in Nat /\ 1 \in Nat
    BY <1>6
  <2>3. Slice(toc, 1, 7) \in Seq(Y) /\ IsSlice(Slice(toc, 1, 7), toc, 1, 7)
    BY <1>6, <2>2, SliceCells
  <2>4. es \in Seq(Y) /\ Len(es) = 7 /\ \A k \in 1..7 : es[k] = toc[1 + k]
    BY <2>1, <2>3 DEF IsSlice
  <2>5. ASSUME NEW k \in 1..7 PROVE es[k] = SectionEntry(secs, k)
    <3>1. 1 + k \in 1..8 /\ total + (1 + k) = total + 1 + k
      BY <1>1
    <3> QED BY <1>1, <1>6, <2>4, <3>1, ZenonT(60)
  <2> QED BY <2>4, <2>5
<1>9. ASSUME NEW k \in 1..7 PROVE at(SectionTags[k]) = SectionEntry(secs, k)
  <2> DEFINE x == SectionEntry(secs, k)
             tag == SectionTags[k]
  <2>1. DOMAIN es = 1..7
    BY <1>8, LenProperties
  <2>2. ToSet(es) = {es[i] : i \in 1..7}
    BY <2>1 DEF ToSet
  <2>3. x \in ToSet(es) /\ x.tag = tag
    <3>1. es[k] = x
      BY <1>8
    <3>2. x.tag = tag
      BY DEF SectionEntry
    <3> HIDE DEF x
    <3> QED BY <2>2, <3>1, <3>2
  <2>4. ASSUME NEW e \in ToSet(es), e.tag = tag PROVE e = x
    <3>1. PICK i \in 1..7 : e = es[i]
      BY <2>2
    <3>2. e = SectionEntry(secs, i)
      BY <1>8, <3>1
    <3>3. SectionTags[i] = SectionTags[k]
      BY <2>4, <3>2 DEF SectionEntry
    <3>4. i = k
      BY <3>3, TagsDiffer
    <3> QED BY <3>2, <3>4
  <2> HIDE DEF x, tag
  <2>5. at(tag) = x
    BY <2>3, <2>4
  <2> QED BY <2>5 DEF x, tag
<1>10. ASSUME NEW k \in 1..7 PROVE sect[SectionTags[k]] = secs[k]
  <2> DEFINE tag == SectionTags[k]
             x == SectionEntry(secs, k)
             o == SectionOff(secs, k)
             y == secs[k]
  <2>1. tag \in ToSet(SectionTags)
    <3>1. k \in DOMAIN SectionTags
      BY SMTT(60) DEF SectionTags
    <3> QED BY <3>1 DEF ToSet
  <2>2. at(tag) = x
    BY <1>9
  <2>3. x.off = o /\ x.sz = Len(y)
    BY DEF SectionEntry
  <2> HIDE DEF tag, at
  <2>4. sect[tag] = Slice(f, at(tag).off, at(tag).sz)
    BY <2>1 DEF sect
  <2> HIDE DEF x
  <2>5. sect[tag] = Slice(f, o, Len(y))
    BY <2>2, <2>3, <2>4
  <2>6. y \in Seq(X) /\ o \in Nat /\ Holds(f, o, y)
    BY <1>1
  <2> HIDE DEF o, y
  <2>7. Slice(f, o, Len(y)) = y
    BY <1>2, <2>6, SliceHeld
  <2> QED BY <2>5, <2>7 DEF tag, y
<1>11. sect["metaData"] = secs[1]
  <2>1. SectionTags[1] = "metaData" /\ 1 \in 1..7
    BY DEF SectionTags
  <2> QED BY <1>10, <2>1
<1>12. IsOpened(f, secs)
  BY <1>3, <1>5, <1>10, <1>11 DEF IsOpened, r
<1> QED BY <1>12

\* What the reader of a shard file has.
IsShardReader(r, s, h) ==
    /\ r.num_docs = Len(s.paths) /\ r.slots = Slots(NumKeys(s.try_map))
    /\ r.sect["fileNames"] = PrefixedPaths(s.paths) /\ r.sect["fileMeta"] = s.meta
    /\ r.sect["contentOffsets"] = s.offsets /\ r.sect["contentCorpus"] = s.corpus
    /\ r.sect["ctHash"] = TableOf(s.try_map, h, 0)
    /\ r.sect["ctPostings"] = FlattenSeq(PostingSection(s.try_map))

\* A finished shard opens as a reader of what it held.
LEMMA ShardOpens ==
    ASSUME NEW s, NEW docs, NEW h, IsShard(s, docs, h), NEW build_time
    PROVE  /\ ShardFits(ShardFinish(h, s, build_time))
           /\ IsShardReader(ShardOpen(ShardFinish(h, s, build_time)), s, h)
<1> DEFINE rec == ShardRecord(s, build_time)
           a == <<rec>>
           b == PrefixedPaths(s.paths)
           c == s.meta
           d == s.offsets
           e == s.corpus
           T == TableOf(s.try_map, h, 0)
           P == FlattenSeq(PostingSection(s.try_map))
           secs == <<a, b, c, d, e, T, P>>
           n == Len(docs)
           f == ShardFinish(h, s, build_time)
           r == ShardOpen(f)
<1>1. /\ n \in Nat /\ s.paths \in Seq(Text) /\ IsCells(c) /\ d \in Seq(Loc) /\ e \in Text
      /\ IsPostings(s.try_map, h, n)
  BY DEF IsShard
<1> HIDE DEF n
<1>2. IsCells(a) /\ Len(a) = 1 /\ a[1] = rec
  <2> HIDE DEF rec
  <2> QED BY OneCell
<1>3. IsCells(b) /\ IsCells(d) /\ IsCells(e)
  <2>1. b \in Seq(Nat)
    BY <1>1, PathLayout
  <2> HIDE DEF b, d, e
  <2> QED BY <1>1, <2>1 DEF IsCells, Text
<1>4. IsCells(T)
  <2>1. 0 \in Nat
    OBVIOUS
  <2> QED BY <1>1, <2>1, TableLayout
<1>5. IsCells(P)
  <2>1. IsEntries(s.try_map, 0)
    <3>1. 0 \in Nat
      OBVIOUS
    <3> QED BY <1>1, <3>1, EntriesLayout
  <2>2. P \in Seq(Nat)
    BY <2>1 DEF IsEntries
  <2> HIDE DEF P
  <2> QED BY <2>2 DEF IsCells
<1>6. SlotsOf(slots_log2(Slots(NumKeys(s.try_map)))) = Slots(NumKeys(s.try_map))
  <2>1. NumKeys(s.try_map) \in Nat
    BY <1>1, FS_CardinalityType DEF IsPostings, NumKeys
  <2> QED BY <2>1, TableSize
<1>7. rec.num_docs = Len(s.paths) /\ rec.slots_log2 = slots_log2(Slots(NumKeys(s.try_map)))
  BY DEF ShardRecord
<1>8. f = FlattenSeq(secs) \o (<<Len(secs)>> \o [k \in DOMAIN secs |-> SectionEntry(secs, k)])
            \o <<SectionOff(secs, 8), Len(<<Len(secs)>> \o [k \in DOMAIN secs |-> SectionEntry(secs, k)])>>
  BY DEF ShardFinish, ShardRecord, SectionOff, SectionEntry, TableOf, NumKeys
<1>9. secs[1] = a /\ secs[2] = b /\ secs[3] = c /\ secs[4] = d /\ secs[5] = e /\ secs[6] = T /\ secs[7] = P
  <2> HIDE DEF a, b, c, d, e, T, P
  <2> QED OBVIOUS
<1> HIDE DEF rec, a, b, c, d, e, T, P, f, r
<1>10. /\ \E X : secs \in [1..7 -> Seq(X)] /\ \E Y : secs[1] \in Seq(Y)
       /\ Len(secs) = 7 /\ DOMAIN secs = 1..7 /\ SubSeq(secs, 1, 7) = secs
  BY <1>1, <1>2, <1>3, <1>4, <1>5, SevenSections
<1> HIDE DEF secs
<1>11. PICK X : secs \in [1..7 -> Seq(X)]
  BY <1>10
<1>12. /\ IsShardFile(FlattenSeq(secs) \o (<<7>> \o SectionEntries(secs)) \o <<SectionOff(secs, 8), 8>>, secs)
       /\ Len(<<7>> \o SectionEntries(secs)) = 8
  BY <1>10, <1>11, SectionsLayout
<1>13. [k \in DOMAIN secs |-> SectionEntry(secs, k)] = SectionEntries(secs)
  BY <1>10 DEF SectionEntries
<1>14. f = FlattenSeq(secs) \o (<<7>> \o SectionEntries(secs)) \o <<SectionOff(secs, 8), 8>>
  BY <1>8, <1>10, <1>12, <1>13
<1>15. IsOpened(f, secs)
  <2>1. IsShardFile(f, secs)
    BY <1>12, <1>14
  <2> QED BY <1>11, <2>1, SectionsOpen
<1>16. /\ ShardFits(f)
       /\ \A k \in 1..7 : r.sect[SectionTags[k]] = secs[k]
       /\ r.num_docs = secs[1][1].num_docs
       /\ r.slots = SlotsOf(secs[1][1].slots_log2)
  BY <1>15 DEF IsOpened, r
<1>17. r.num_docs = Len(s.paths) /\ r.slots = Slots(NumKeys(s.try_map))
  <2>1. secs[1][1] = rec
    BY <1>2, <1>9
  <2> QED BY <1>6, <1>7, <1>16, <2>1
<1>18. /\ SectionTags[2] = "fileNames" /\ SectionTags[3] = "fileMeta" /\ SectionTags[4] = "contentOffsets"
       /\ SectionTags[5] = "contentCorpus" /\ SectionTags[6] = "ctHash" /\ SectionTags[7] = "ctPostings"
  BY DEF SectionTags
<1>19. /\ r.sect[SectionTags[2]] = b /\ r.sect[SectionTags[3]] = c /\ r.sect[SectionTags[4]] = d
       /\ r.sect[SectionTags[5]] = e /\ r.sect[SectionTags[6]] = T /\ r.sect[SectionTags[7]] = P
  <2>1. 2 \in 1..7 /\ 3 \in 1..7 /\ 4 \in 1..7 /\ 5 \in 1..7 /\ 6 \in 1..7 /\ 7 \in 1..7
    OBVIOUS
  <2>2. /\ r.sect[SectionTags[2]] = secs[2] /\ r.sect[SectionTags[3]] = secs[3] /\ r.sect[SectionTags[4]] = secs[4]
        /\ r.sect[SectionTags[5]] = secs[5] /\ r.sect[SectionTags[6]] = secs[6] /\ r.sect[SectionTags[7]] = secs[7]
    BY <1>16, <2>1
  <2> QED BY <1>9, <2>2
<1>20. IsShardReader(r, s, h)
  BY <1>17, <1>18, <1>19 DEF IsShardReader, b, c, d, e, T, P
<1> QED BY <1>16, <1>20 DEF f, r

\* What a shard answers of one document and of one trigram.
IsShardRead(r, docs, s, h) ==
    /\ r.num_docs = Len(docs)
    /\ \A d \in 0..(Len(docs) - 1) :
          /\ ShardPath(r, d) = docs[d + 1].path /\ ShardMeta(r, d) = docs[d + 1].meta
          /\ ShardContent(r, d) = docs[d + 1].content
    /\ \A t : h[t] \in Nat =>
          ShardPosting(h, r, t) = IF t \in DOMAIN s.try_map THEN s.try_map[t] ELSE NoValue

\* That reader finds every document, its text, and every posting list.
LEMMA ShardReads ==
    ASSUME NEW s, NEW docs, NEW h, IsShard(s, docs, h), NEW r, IsShardReader(r, s, h),
           Len(docs) <= PowerOfTwo(32)
    PROVE  IsShardRead(r, docs, s, h)
<1> DEFINE n == Len(docs)
           m == s.try_map
           P == FlattenSeq(PostingSection(m))
           T == TableOf(m, h, 0)
           K == Slots(NumKeys(m))
<1>1. /\ docs \in Seq(TextDoc) /\ n \in Nat
      /\ s.paths \in Seq(Text) /\ Len(s.paths) = n
      /\ IsCells(s.meta) /\ Len(s.meta) = n
      /\ \A i \in 1..n : s.paths[i] = docs[i].path /\ s.meta[i] = docs[i].meta
      /\ s.corpus \in Text /\ s.offsets \in Seq(Loc) /\ Len(s.offsets) = n
      /\ \A i \in 1..n : s.offsets[i].len = Len(docs[i].content) /\ Holds(s.corpus, s.offsets[i].off, docs[i].content)
      /\ IsPostings(m, h, n)
  BY DEF IsShard
<1>2. /\ r.num_docs = n /\ r.slots = K
      /\ r.sect["fileNames"] = PrefixedPaths(s.paths) /\ r.sect["fileMeta"] = s.meta
      /\ r.sect["contentOffsets"] = s.offsets /\ r.sect["contentCorpus"] = s.corpus
      /\ r.sect["ctHash"] = T /\ r.sect["ctPostings"] = P
  BY <1>1 DEF IsShardReader
<1>3. n <= PowerOfTwo(32)
  OBVIOUS
<1> HIDE DEF n, m, P, T, K
<1>4. ASSUME NEW d \in 0..(n - 1)
      PROVE  d \in Nat /\ d < n /\ d + 1 \in 1..n
  BY <1>1
<1>5. ASSUME NEW d \in 0..(n - 1) PROVE ShardPath(r, d) = docs[d + 1].path
  <2>1. extract_path(PrefixedPaths(s.paths), d) = s.paths[d + 1]
    BY <1>1, <1>4, ExtractPath
  <2> QED BY <1>1, <1>2, <1>4, <2>1 DEF ShardPath
<1>6. ASSUME NEW d \in 0..(n - 1) PROVE ShardMeta(r, d) = docs[d + 1].meta
  BY <1>1, <1>2, <1>4 DEF ShardMeta
<1>7. ASSUME NEW d \in 0..(n - 1) PROVE ShardContent(r, d) = docs[d + 1].content
  <2> DEFINE loc == s.offsets[d + 1]
             y == docs[d + 1].content
             c == s.corpus
  <2>1. d + 1 \in 1..n /\ d \in Nat /\ d < n
    BY <1>4
  <2>2. y \in Text
    <3>1. docs[d + 1] \in TextDoc
      BY <1>1, <2>1, ElementOfSeq DEF n
    <3> QED BY <3>1, RecordAssumption DEF TextDoc
  <2>3. loc.off \in Nat
    <3>1. loc \in Loc
      BY <1>1, <2>1, ElementOfSeq
    <3> QED BY <3>1 DEF Loc
  <2>4. loc.len = Len(y) /\ Holds(c, loc.off, y) /\ c \in Seq(Byte)
    BY <1>1, <2>1 DEF Text
  <2>5. ShardContent(r, d) = IF d >= n \/ loc.off + loc.len > Len(c) THEN NoValue
                             ELSE Slice(c, loc.off, loc.len)
    BY <1>1, <1>2 DEF ShardContent
  <2> HIDE DEF loc, y, c
  <2>6. Slice(c, loc.off, Len(y)) = y
    BY <2>2, <2>3, <2>4, SliceHeld DEF Text
  <2>7. ~(d >= n) /\ ~(loc.off + loc.len > Len(c))
    <3>1. loc.off + Len(y) <= Len(c)
      BY <2>4 DEF Holds
    <3>2. Len(y) \in Nat /\ Len(c) \in Nat
      BY <2>2, <2>4, LenProperties DEF Text
    <3>3. ~(d >= n)
      BY <1>1, <2>1
    <3>4. ~(loc.off + loc.len > Len(c))
      BY <2>3, <2>4, <3>1, <3>2
    <3> QED BY <3>3, <3>4
  <2>8. ShardContent(r, d) = y
    BY <2>4, <2>5, <2>6, <2>7
  <2> QED BY <2>8 DEF y
<1>8. ASSUME NEW t, h[t] \in Nat
      PROVE  ShardPosting(h, r, t) = IF t \in DOMAIN m THEN m[t] ELSE NoValue
  <2>1. /\ K \in Nat /\ K = 0 => DOMAIN m = {}
    <3>1. 0 \in Nat
      OBVIOUS
    <3> QED BY <1>1, <3>1, TableLayout DEF K
  <2>2. ShardPosting(h, r, t) = IF K = 0 THEN NoValue ELSE posting(h, T, P, t)
    BY <1>2 DEF ShardPosting
  <2>3. CASE K = 0
    BY <2>1, <2>2, <2>3
  <2>4. CASE K # 0
    <3>1. P \in Seq(Nat)
      <4>1. IsEntries(m, 0)
        <5>1. 0 \in Nat
          OBVIOUS
        <5> QED BY <1>1, <5>1, EntriesLayout
      <4> QED BY <4>1 DEF IsEntries, P
    <3>2. Holds(P, 0, FlattenSeq(PostingSection(m)))
      <4>1. Len(P) \in Nat /\ \A j \in 1..Len(P) : 0 + j = j
        BY <3>1, LenProperties
      <4>2. Holds(P, 0, P)
        BY <4>1 DEF Holds
      <4> QED BY <4>2 DEF P
    <3>3. posting(h, TableOf(m, h, 0), P, t) = IF t \in DOMAIN m THEN m[t] ELSE NoValue
      <4> DEFINE base == 0
      <4>1. base \in Nat
        OBVIOUS
      <4>2. Holds(P, base, FlattenSeq(PostingSection(m)))
        BY <3>2
      <4> HIDE DEF base
      <4>3. posting(h, TableOf(m, h, base), P, t) = IF t \in DOMAIN m THEN m[t] ELSE NoValue
        BY <1>1, <1>3, <1>8, <3>1, <4>1, <4>2, PostingFound
      <4> QED BY <4>3 DEF base
    <3> QED BY <2>2, <2>4, <3>3 DEF T
  <2> QED BY <2>3, <2>4
<1> QED BY <1>2, <1>5, <1>6, <1>7, <1>8 DEF IsShardRead, n, m

------------------------------
(* Content queries over one shard *)

\* What is kept of a sequence is one.
LEMMA KeptSeq ==
    ASSUME NEW Y, NEW s \in Seq(Y), NEW S, NEW limit \in {NoValue} \cup Nat
    PROVE  Kept(s, S) \in Seq(Y) /\ Truncated(Kept(s, S), limit) \in Seq(Y)
<1> DEFINE k == Kept(s, S)
           n == Len(k)
           t == SubSeq(k, 1, Min({limit, n}))
<1>1. k \in Seq(Y)
  <2>1. PICK c \in [0..Len(s) -> Seq(Y)] : IsKept(c, s, S)
    BY KeptRun
  <2>2. Kept(s, S) = c[Len(s)] /\ Len(s) \in 0..Len(s)
    BY <2>1, LenProperties DEF IsKept
  <2> QED BY <2>2
<1> HIDE DEF k
<1>2. n \in Nat /\ k \in [1..n -> Y]
  BY <1>1, LenProperties
<1>3. CASE limit = NoValue
  BY <1>1, <1>3 DEF Truncated, k
<1>4. CASE limit # NoValue
  <2> DEFINE m == Min({limit, n})
  <2>1. m \in Nat /\ m <= n
    BY <1>2, <1>4, MinOfTwo, SMTT(60)
  <2>2. Truncated(k, limit) = SubSeq(k, 1, m)
    BY <1>4 DEF Truncated
  <2> HIDE DEF m, n
  <2>3. m \in 0..n
    BY <1>2, <2>1
  <2>4. SubSeq(k, 1, m) \in [1..m -> Y]
    BY <1>2, <2>3, FirstOf
  <2>5. SubSeq(k, 1, m) \in Seq(Y)
    BY <2>1, <2>4, SeqOver
  <2> QED BY <1>1, <2>2, <2>5 DEF k
<1> QED BY <1>3, <1>4

\* The hits among docs, and what the query shows of them.
TextHits(docs, q, limit) == Truncated(Kept(docs, {r \in TextDoc : cs_verify(r.content, q)}), limit)
Shown(s) == [i \in DOMAIN s |-> [path |-> s[i].path, meta |-> s[i].meta]]

\* What one shard file answers.
ShardHits(h, bytes, q, limit) ==
    LET r   == ShardOpen(bytes)
        ids == IF ShardFits(bytes) THEN ShardDocids(h, r, q, limit) ELSE <<>>
    IN  [i \in DOMAIN ids |-> [path |-> ShardPath(r, ids[i]), meta |-> ShardMeta(r, ids[i])]]

\* The queries the content index covers.
Covered == {q \in Queries : IndexCovers(q)}

ShardAnswers(h, bytes, docs) ==
    \A q \in Covered, limit \in Limits : ShardHits(h, bytes, q, limit) = Shown(TextHits(docs, q, limit))

\* The docids a shard finds are those of a scan of its documents.
LEMMA ShardFinds ==
    ASSUME NEW s, NEW docs, NEW h, IsShard(s, docs, h), h \in [HashKey -> HashValue],
           NEW r, IsShardRead(r, docs, s, h), NEW q \in Covered, NEW limit
    PROVE  ShardDocids(h, r, q, limit)
               = Truncated(Kept(AllDocids(Len(docs)),
                                {d \in 0..(Len(docs) - 1) :
                                     docs[d + 1] \in {e \in TextDoc : cs_verify(e.content, q)}}), limit)
<1> DEFINE n == Len(docs)
           TT == {e \in TextDoc : cs_verify(e.content, q)}
           S == {d \in 0..(n - 1) : docs[d + 1] \in TT}
           m == s.try_map
           tris == trigrams(q.folded)
           lists == [t \in tris |-> ShardPosting(h, r, t)]
           cand == CandidateDocids(lists, r.num_docs, q.folded)
           all == AllDocids(n)
           cs == Contents(docs)
           bad == SelectInSeq(cand, LAMBDA d : ShardContent(r, d) = NoValue)
           readable == IF bad = 0 THEN cand ELSE SubSeq(cand, 1, bad - 1)
           V(ids) == {d \in ToSet(ids) : cs_verify(ShardContent(r, d), q)}
           hits == Truncated(Kept(readable, V(readable)), limit)
<1>1. q \in Query /\ q.folded \in Text /\ IndexCovers(q) /\ tris \subseteq HashKey
  BY QueryAssumption DEF Covered, Query
<1>2. /\ docs \in Seq(TextDoc) /\ n \in Nat /\ IsPostings(m, h, n) /\ IsIndex(m, cs)
      /\ cs \in Seq(Text) /\ Len(cs) = n /\ \A i \in 1..n : cs[i] = docs[i].content
      /\ \A i \in 1..n : docs[i] \in TextDoc
  BY ContentsType, ElementOfSeq DEF IsShard
<1>3. /\ r.num_docs = n
      /\ \A d \in 0..(n - 1) : ShardContent(r, d) = docs[d + 1].content
      /\ \A t : h[t] \in Nat => ShardPosting(h, r, t) = IF t \in DOMAIN m THEN m[t] ELSE NoValue
  BY DEF IsShardRead
<1>4. lists = ListsOf(m, tris)
  <2> HIDE DEF tris, m
  <2>1. \A t \in tris : h[t] \in Nat
    BY <1>1, RecordAssumption
  <2> QED BY <1>3, <2>1 DEF ListsOf
<1>5. ShardDocids(h, r, q, limit) = IF bad = 0 \/ (limit # NoValue /\ Len(hits) = limit) THEN hits ELSE <<>>
  BY DEF ShardDocids
<1> HIDE DEF lists, m, cs, n
<1>6. IsPosting(cand, n) /\ \A d \in 0..(n - 1) : contains(fold(cs[d + 1]), q.folded) => InPosting(cand, d)
  <2>1. LET cd == CandidateDocids(ListsOf(m, trigrams(q.folded)), Len(cs), q.folded)
        IN  IsPosting(cd, Len(cs)) /\ \A d \in 0..(Len(cs) - 1) : contains(fold(cs[d + 1]), q.folded) => InPosting(cd, d)
    <3>1. IsPostings(m, h, Len(cs))
      BY <1>2
    <3> QED BY <1>1, <1>2, <3>1, CandidatesComplete
  <2> QED BY <1>2, <1>3, <1>4, <2>1
<1>7. IsPosting(all, n) /\ \A d \in 0..(n - 1) : InPosting(all, d)
  BY <1>2, AllDocidsPosting
<1>8. \A i \in 1..Len(cand) : cand[i] \in 0..(n - 1)
  <2> HIDE DEF cand
  <2>1. \A i \in 1..Len(cand) : cand[i] \in Nat /\ cand[i] < n
    BY <1>6, ElementOfSeq DEF IsPosting
  <2> QED BY <1>2, <2>1
<1>9. \A d \in 0..(n - 1) : ShardContent(r, d) # NoValue
  <2>1. ASSUME NEW d \in 0..(n - 1) PROVE ShardContent(r, d) # NoValue
    <3>1. docs[d + 1] \in TextDoc
      <4>1. d + 1 \in 1..n
        BY <1>2
      <4> QED BY <1>2, <4>1
    <3>2. docs[d + 1].content # NoValue
      BY <3>1 DEF TextDoc
    <3> QED BY <1>3, <3>2
  <2> QED BY <2>1
<1>10. bad = 0
  <2> HIDE DEF cand
  <2>1. {i \in 1..Len(cand) : ShardContent(r, cand[i]) = NoValue} = {}
    BY <1>8, <1>9
  <2> QED BY <2>1 DEF SelectInSeq
<1> HIDE DEF bad
<1>11. readable = cand
  BY <1>10
<1> HIDE DEF readable
<1>12. ShardDocids(h, r, q, limit) = Truncated(Kept(cand, V(cand)), limit)
  <2> HIDE DEF cand
  <2> QED BY <1>5, <1>10, <1>11
<1> HIDE DEF cand
<1>13. ToSet(cand) = {cand[i] : i \in 1..Len(cand)}
  <2>1. DOMAIN cand = 1..Len(cand)
    BY <1>6, LenProperties DEF IsPosting
  <2> QED BY <2>1 DEF ToSet
<1>14. \A d : InPosting(cand, d) /\ d \in V(cand) <=> d \in S
  <2>1. \A d : InPosting(cand, d) <=> d \in ToSet(cand)
    BY <1>13 DEF InPosting
  <2>2. ASSUME NEW d, InPosting(cand, d), d \in V(cand) PROVE d \in S
    <3>1. d \in 0..(n - 1)
      BY <1>8, <2>2 DEF InPosting
    <3>2. cs_verify(docs[d + 1].content, q)
      BY <1>3, <2>2, <3>1
    <3>3. d + 1 \in 1..n
      BY <1>2, <3>1
    <3> QED BY <1>2, <3>1, <3>2, <3>3
  <2>3. ASSUME NEW d \in S PROVE InPosting(cand, d) /\ d \in V(cand)
    <3>1. d \in 0..(n - 1) /\ cs_verify(docs[d + 1].content, q) /\ d + 1 \in 1..n
      BY <1>2
    <3>2. contains(fold(cs[d + 1]), q.folded)
      <4>1. cs[d + 1] = docs[d + 1].content /\ cs[d + 1] \in Text
        BY <1>2, <3>1, ElementOfSeq
      <4> QED BY <1>1, <3>1, <4>1, TextFolds
    <3>3. InPosting(cand, d)
      BY <1>6, <3>1, <3>2
    <3>4. d \in ToSet(cand)
      BY <2>1, <3>3
    <3> QED BY <1>3, <3>1, <3>3, <3>4
  <2> HIDE DEF V, S
  <2> QED BY <2>2, <2>3
<1>15. \A d \in S : InPosting(all, d)
  <2> HIDE DEF all
  <2> QED BY <1>7
<1> DEFINE W == V(cand)
<1> HIDE DEF W, S, all
<1>16. /\ IsPosting(Kept(cand, W), n)
       /\ \A d : InPosting(Kept(cand, W), d) <=> (InPosting(cand, d) /\ d \in W)
  BY <1>2, <1>6, KeptPosting
<1>17. /\ IsPosting(Kept(all, S), n)
       /\ \A d : InPosting(Kept(all, S), d) <=> (InPosting(all, d) /\ d \in S)
  BY <1>2, <1>7, KeptPosting
<1> DEFINE kc == Kept(cand, W)
           ka == Kept(all, S)
<1>18. \A d : InPosting(cand, d) /\ d \in W <=> d \in S
  BY <1>14 DEF W
<1>19. IsPosting(kc, n) /\ IsPosting(ka, n) /\ \A d : InPosting(kc, d) <=> InPosting(ka, d)
  BY <1>15, <1>16, <1>17, <1>18
<1> HIDE DEF kc, ka
<1>20. kc = ka
  BY <1>2, <1>19, PostingUnique
<1>21. ShardDocids(h, r, q, limit) = Truncated(ka, limit)
  BY <1>12, <1>20 DEF kc, W
<1> QED BY <1>21 DEF ka, S, all, n

\* The file of a shard answers for its documents.
LEMMA ShardFileAnswers ==
    ASSUME NEW s, NEW docs, NEW h, IsShard(s, docs, h), h \in [HashKey -> HashValue],
           Len(docs) <= PowerOfTwo(32), NEW build_time
    PROVE  ShardAnswers(h, ShardFinish(h, s, build_time), docs)
<1> DEFINE f == ShardFinish(h, s, build_time)
           r == ShardOpen(f)
           n == Len(docs)
<1>1. ShardFits(f) /\ IsShardReader(r, s, h)
  BY ShardOpens
<1> HIDE DEF f
<1>2. IsShardRead(r, docs, s, h)
  <2> HIDE DEF r
  <2> QED BY <1>1, ShardReads
<1>3. docs \in Seq(TextDoc) /\ n \in Nat
  BY DEF IsShard
<1>4. ASSUME NEW q \in Covered, NEW limit \in Limits
      PROVE  ShardHits(h, f, q, limit) = Shown(TextHits(docs, q, limit))
  <2> DEFINE TT == {e \in TextDoc : cs_verify(e.content, q)}
             S == {d \in 0..(n - 1) : docs[d + 1] \in TT}
             a == Kept(AllDocids(n), S)
             b == Kept(docs, TT)
             ids == Truncated(a, limit)
             t == Truncated(b, limit)
  <2>1. limit \in {NoValue} \cup Nat
    BY LimitAssumption
  <2>2. ShardDocids(h, r, q, limit) = ids
    <3> HIDE DEF r
    <3> QED BY <1>2, ShardFinds
  <2>3. IsPicked(a, b, docs)
    BY <1>3, KeptDocs
  <2>4. AllDocids(n) \in Seq(Nat)
    BY <1>3, AllDocidsPosting DEF IsPosting
  <2>5. ids \in Seq(Nat) /\ t \in Seq(TextDoc)
    <3> HIDE DEF S, TT, n
    <3> QED BY <1>3, <2>1, <2>4, KeptSeq
  <2> HIDE DEF a, b
  <2>6. IsPicked(ids, t, docs)
    <3>1. limit \in Nat \cup {NoValue}
      BY <2>1
    <3> QED BY <2>3, <3>1, PickedTruncated
  <2>7. ShardHits(h, f, q, limit) =
            [i \in DOMAIN ids |-> [path |-> ShardPath(r, ids[i]), meta |-> ShardMeta(r, ids[i])]]
    <3> HIDE DEF ids
    <3> QED BY <1>1, <2>2 DEF ShardHits
  <2> HIDE DEF ids, t, r, n
  <2>8. DOMAIN ids = 1..Len(ids) /\ DOMAIN t = 1..Len(ids)
    BY <2>5, <2>6, LenProperties DEF IsPicked
  <2>9. ASSUME NEW i \in 1..Len(ids)
        PROVE  ShardPath(r, ids[i]) = t[i].path /\ ShardMeta(r, ids[i]) = t[i].meta
    <3>1. ids[i] \in 0..(Len(docs) - 1) /\ t[i] = docs[ids[i] + 1]
      BY <2>6 DEF IsPicked
    <3> QED BY <1>2, <3>1 DEF IsShardRead
  <2>10. ShardHits(h, f, q, limit) = Shown(t)
    BY <2>7, <2>8, <2>9 DEF Shown
  <2> QED BY <2>10 DEF t, b, TextHits
<1>5. ShardAnswers(h, f, docs)
  BY <1>4 DEF ShardAnswers
<1> QED BY <1>5 DEF f

------------------------------
(* The shards of a build *)

\* One element more in the loop that keeps some.
LEMMA KeptMore ==
    ASSUME NEW Y, NEW s \in Seq(Y), NEW e \in Y, NEW S
    PROVE  Kept(Append(s, e), S) = IF e \in S THEN Append(Kept(s, S), e) ELSE Kept(s, S)
<1> DEFINE n == Len(s)
           s2 == Append(s, e)
<1>1. /\ s2 \in Seq(Y) /\ Len(s2) = n + 1 /\ n \in Nat
      /\ \A i \in 1..(n + 1) : s2[i] = IF i = n + 1 THEN e ELSE s[i]
  BY Appended
<1> HIDE DEF s2
<1>2. PICK c \in [0..Len(s) -> Seq(Y)] : IsKept(c, s, S)
  BY KeptRun
<1>3. PICK c2 \in [0..Len(s2) -> Seq(Y)] : IsKept(c2, s2, S)
  BY <1>1, KeptRun
<1>4. /\ c[0] = <<>> /\ Kept(s, S) = c[n]
      /\ \A i \in 1..n : c[i] = IF s[i] \in S THEN Append(c[i - 1], s[i]) ELSE c[i - 1]
  BY <1>2 DEF IsKept
<1>5. /\ c2[0] = <<>> /\ Kept(s2, S) = c2[n + 1]
      /\ \A i \in 1..(n + 1) : c2[i] = IF s2[i] \in S THEN Append(c2[i - 1], s2[i]) ELSE c2[i - 1]
  BY <1>1, <1>3 DEF IsKept
<1> HIDE DEF n
<1>6. c2[n] = c[n]
  <2>1. ASSUME NEW i \in 1..n, c2[i - 1] = c[i - 1] PROVE c2[i] = c[i]
    <3>1. i \in 1..(n + 1) /\ i # n + 1
      BY <1>1
    <3>2. s2[i] = s[i]
      BY <1>1, <3>1
    <3> QED BY <1>4, <1>5, <2>1, <3>1, <3>2
  <2>2. c2[0] = c[0]
    BY <1>4, <1>5
  <2> QED BY <1>1, <2>1, <2>2, FollowsRun
<1>7. n + 1 \in 1..(n + 1) /\ (n + 1) - 1 = n
  BY <1>1
<1>8. s2[n + 1] = e
  BY <1>1, <1>7
<1>9. c2[n + 1] = IF e \in S THEN Append(c[n], e) ELSE c[n]
  BY <1>5, <1>6, <1>7, <1>8
<1> QED BY <1>4, <1>5, <1>9 DEF s2

\* No more is kept than there was.
LEMMA KeptLength ==
    ASSUME NEW Y, NEW s \in Seq(Y), NEW S
    PROVE  Len(Kept(s, S)) <= Len(s)
<1> DEFINE n == Len(s)
<1>1. n \in Nat
  BY LenProperties
<1>2. PICK c \in [0..Len(s) -> Seq(Y)] : IsKept(c, s, S)
  BY KeptRun
<1>3. /\ c[0] = <<>> /\ Kept(s, S) = c[n]
      /\ \A i \in 1..n : c[i] = IF s[i] \in S THEN Append(c[i - 1], s[i]) ELSE c[i - 1]
      /\ \A i \in 1..n : s[i] \in Y
      /\ \A i \in 0..n : c[i] \in Seq(Y) /\ Len(c[i]) \in Nat
  BY <1>2, ElementOfSeq, LenProperties DEF IsKept
<1> HIDE DEF n
<1> DEFINE G == {i \in 0..n : Len(c[i]) <= i}
<1>4. 0 \in G
  <2>1. Len(<<>>) = 0
    OBVIOUS
  <2> QED BY <1>1, <1>3, <2>1
<1>5. ASSUME NEW i \in 1..n, i - 1 \in G PROVE i \in G
  <2>1. Len(c[i - 1]) <= i - 1 /\ i - 1 \in 0..n /\ i \in 0..n
    BY <1>1, <1>5
  <2>2. c[i - 1] \in Seq(Y) /\ s[i] \in Y /\ Len(c[i - 1]) \in Nat
    BY <1>3, <2>1
  <2>3. Len(Append(c[i - 1], s[i])) = Len(c[i - 1]) + 1
    BY <2>2, AppendProperties
  <2>4. Len(c[i]) = Len(c[i - 1]) + 1 \/ Len(c[i]) = Len(c[i - 1])
    BY <1>3, <2>3
  <2>5. Len(c[i]) <= i
    BY <2>1, <2>2, <2>4
  <2> QED BY <2>1, <2>5
<1>6. 0..n \subseteq G
  <2> HIDE DEF G
  <2> QED BY <1>1, <1>4, <1>5, Induction
<1>7. n \in G
  BY <1>1, <1>6
<1>8. Len(c[n]) <= n
  BY <1>7
<1> QED BY <1>3, <1>8 DEF n

\* Two sequences with the same cells are one.
LEMMA SameCells ==
    ASSUME NEW Y, NEW n \in Nat, NEW a \in [1..n -> Y], NEW b \in [1..n -> Y], \A i \in 1..n : a[i] = b[i]
    PROVE  a = b
OBVIOUS

\* Slices of a sequence with one element more.
LEMMA SliceOfMore ==
    ASSUME NEW Y, NEW T \in Seq(Y), NEW d \in Y, NEW at \in Nat
    PROVE  /\ \A n \in Nat : at + n <= Len(T) => Slice(Append(T, d), at, n) = Slice(T, at, n)
           /\ at <= Len(T) => Slice(Append(T, d), at, Len(T) + 1 - at) = Append(Slice(T, at, Len(T) - at), d)
<1> DEFINE T2 == Append(T, d)
           l == Len(T)
<1>1. /\ T2 \in Seq(Y) /\ Len(T2) = l + 1 /\ l \in Nat
      /\ \A i \in 1..(l + 1) : T2[i] = IF i = l + 1 THEN d ELSE T[i]
  BY Appended
<1> HIDE DEF T2, l
<1>2. ASSUME NEW n \in Nat, at + n <= l PROVE Slice(T2, at, n) = Slice(T, at, n)
  <2> DEFINE a == Slice(T2, at, n)
             b == Slice(T, at, n)
  <2>1. at + n <= Len(T2) /\ at + n <= Len(T)
    BY <1>1, <1>2 DEF l
  <2>2. a \in Seq(Y) /\ Len(a) = n /\ \A i \in 1..n : a[i] = T2[at + i]
    BY <1>1, <2>1, SliceCells DEF IsSlice
  <2>3. b \in Seq(Y) /\ Len(b) = n /\ \A i \in 1..n : b[i] = T[at + i]
    BY <2>1, SliceCells DEF IsSlice
  <2> HIDE DEF a, b
  <2>4. a \in [1..n -> Y] /\ b \in [1..n -> Y]
    BY <2>2, <2>3, LenProperties
  <2>5. \A i \in 1..n : at + i \in 1..(l + 1) /\ at + i # l + 1
    BY <1>1, <1>2
  <2>6. \A i \in 1..n : a[i] = b[i]
    BY <1>1, <2>2, <2>3, <2>5
  <2>7. a = b
    BY <2>4, <2>6
  <2> QED BY <2>7 DEF a, b
<1>3. ASSUME at <= l PROVE Slice(T2, at, l + 1 - at) = Append(Slice(T, at, l - at), d)
  <2> DEFINE n == l - at
             m == l + 1 - at
             a == Slice(T2, at, m)
             b == Slice(T, at, n)
             b2 == Append(b, d)
  <2>1. /\ n \in Nat /\ m \in Nat /\ m = n + 1 /\ at + n = l
        /\ at + m <= Len(T2) /\ at + n <= Len(T)
    BY <1>1, <1>3 DEF l
  <2> HIDE DEF n, m
  <2>2. a \in Seq(Y) /\ Len(a) = m /\ \A i \in 1..m : a[i] = T2[at + i]
    BY <1>1, <2>1, SliceCells, SMTT(60) DEF IsSlice
  <2>3. b \in Seq(Y) /\ Len(b) = n /\ \A i \in 1..n : b[i] = T[at + i]
    BY <2>1, SliceCells DEF IsSlice
  <2> HIDE DEF a, b
  <2>4. b2 \in Seq(Y) /\ Len(b2) = n + 1 /\ \A i \in 1..(n + 1) : b2[i] = IF i = n + 1 THEN d ELSE b[i]
    BY <2>3, Appended
  <2> HIDE DEF b2
  <2>5. a \in [1..m -> Y] /\ b2 \in [1..m -> Y]
    BY <2>1, <2>2, <2>4, LenProperties
  <2>6. ASSUME NEW i \in 1..m PROVE a[i] = b2[i]
    <3>1. CASE i = n + 1
      <4>1. at + i = l + 1 /\ l + 1 \in 1..(l + 1)
        BY <1>1, <2>1, <3>1
      <4>2. a[i] = T2[at + i] /\ T2[l + 1] = d /\ b2[i] = d
        BY <1>1, <2>1, <2>2, <2>4, <3>1, <4>1
      <4> QED BY <4>1, <4>2
    <3>2. CASE i # n + 1
      <4>1. i \in 1..n /\ at + i \in 1..(l + 1) /\ at + i # l + 1
        BY <1>1, <2>1, <3>2
      <4>2. a[i] = T2[at + i] /\ T2[at + i] = T[at + i] /\ b2[i] = b[i] /\ b[i] = T[at + i]
        BY <1>1, <2>1, <2>2, <2>3, <2>4, <3>2, <4>1
      <4> QED BY <4>2
    <3> QED BY <3>1, <3>2
  <2>7. \A i \in 1..m : a[i] = b2[i]
    BY <2>6
  <2>8. a = b2
    BY <2>1, <2>5, <2>7, SameCells
  <2> QED BY <2>8 DEF a, b2, b, m, n
<1> QED BY <1>2, <1>3 DEF T2, l

ShardEntry == [shard_id : Nat, base_docid : Nat, num_docs : Nat, file : Seq(Nat)]

\* The documents in the first k shards.
UpTo(es, k) == IF k = 0 THEN 0 ELSE es[k].base_docid + es[k].num_docs

\* The shard files ss with MANIFEST entries es answer for the texts T they cover.
ShardsOk(es, ss, T, h) ==
    LET N == Len(es)
    IN  /\ es \in Seq(ShardEntry) /\ N \in Nat /\ IsCells(ss) /\ Len(ss) = N
        /\ UpTo(es, N) \in Nat /\ UpTo(es, N) <= Len(T)
        /\ \A k \in 1..N : /\ es[k].file = <<es[k].shard_id>>
                           /\ es[k].base_docid = UpTo(es, k - 1)
                           /\ es[k].base_docid + es[k].num_docs <= Len(T)
                           /\ ShardAnswers(h, ss[k], Slice(T, es[k].base_docid, es[k].num_docs))

\* The shard being filled holds the texts after those.
IsOpenShard(s, es, T, h) ==
    LET U == UpTo(es, Len(es))
    IN  s.shard_id \in Nat /\ s.base_docid = U /\ IsShard(s, Slice(T, U, Len(T) - U), h)

EntryOf(s) == [shard_id |-> s.shard_id, base_docid |-> s.base_docid,
               num_docs |-> Len(s.paths), file |-> ShardName(s.shard_id)]

\* The shards written stay right when a text comes.
LEMMA ShardsGrow ==
    ASSUME NEW es, NEW ss, NEW T \in Seq(TextDoc), NEW h, ShardsOk(es, ss, T, h), NEW d \in TextDoc
    PROVE  ShardsOk(es, ss, Append(T, d), h)
<1> DEFINE N == Len(es)
           T2 == Append(T, d)
<1>1. /\ es \in Seq(ShardEntry) /\ N \in Nat /\ IsCells(ss) /\ Len(ss) = N
      /\ UpTo(es, N) \in Nat /\ UpTo(es, N) <= Len(T)
      /\ \A k \in 1..N : /\ es[k].file = <<es[k].shard_id>>
                         /\ es[k].base_docid = UpTo(es, k - 1)
                         /\ es[k].base_docid + es[k].num_docs <= Len(T)
                         /\ ShardAnswers(h, ss[k], Slice(T, es[k].base_docid, es[k].num_docs))
  BY DEF ShardsOk
<1>2. Len(T2) = Len(T) + 1 /\ Len(T) \in Nat
  BY Appended
<1> HIDE DEF N, T2
<1>3. UpTo(es, N) <= Len(T2)
  BY <1>1, <1>2
<1>4. ASSUME NEW k \in 1..N
      PROVE  /\ es[k].base_docid + es[k].num_docs <= Len(T2)
             /\ ShardAnswers(h, ss[k], Slice(T2, es[k].base_docid, es[k].num_docs))
  <2> DEFINE at == es[k].base_docid
             n == es[k].num_docs
  <2>1. at \in Nat /\ n \in Nat
    <3>1. es[k] \in ShardEntry
      BY <1>1, ElementOfSeq DEF N
    <3> QED BY <3>1 DEF ShardEntry
  <2>2. at + n <= Len(T) /\ ShardAnswers(h, ss[k], Slice(T, at, n))
    BY <1>1
  <2> HIDE DEF at, n
  <2>3. Slice(T2, at, n) = Slice(T, at, n)
    BY <2>1, <2>2, SliceOfMore DEF T2
  <2>4. at + n <= Len(T2)
    BY <1>2, <2>1, <2>2
  <2> QED BY <2>2, <2>3, <2>4 DEF at, n
<1>5. ShardsOk(es, ss, T2, h)
  BY <1>1, <1>3, <1>4 DEF ShardsOk, N
<1> QED BY <1>5 DEF T2

\* A flushed shard takes its place behind those written, which then hold all of T.
Flushed(es, ss, T, h, s, build_time) ==
    /\ ShardsOk(Append(es, EntryOf(s)), Append(ss, ShardFinish(h, s, build_time)), T, h)
    /\ UpTo(Append(es, EntryOf(s)), Len(Append(es, EntryOf(s)))) = Len(T)
    /\ s.base_docid + Len(s.paths) = Len(T)

\* The shard being filled is written out.
LEMMA FlushShard ==
    ASSUME NEW es, NEW ss, NEW T \in Seq(TextDoc), NEW h, ShardsOk(es, ss, T, h), h \in [HashKey -> HashValue],
           Len(T) <= PowerOfTwo(32), NEW s, IsOpenShard(s, es, T, h), NEW build_time
    PROVE  Flushed(es, ss, T, h, s, build_time)
<1> DEFINE N == Len(es)
           U == UpTo(es, N)
           l == Len(T)
           docs == Slice(T, U, l - U)
           e == EntryOf(s)
           f == ShardFinish(h, s, build_time)
           es2 == Append(es, e)
           ss2 == Append(ss, f)
<1>1. /\ es \in Seq(ShardEntry) /\ N \in Nat /\ IsCells(ss) /\ Len(ss) = N
      /\ U \in Nat /\ U <= l
      /\ \A k \in 1..N : /\ es[k].file = <<es[k].shard_id>>
                         /\ es[k].base_docid = UpTo(es, k - 1)
                         /\ es[k].base_docid + es[k].num_docs <= l
                         /\ ShardAnswers(h, ss[k], Slice(T, es[k].base_docid, es[k].num_docs))
  BY DEF ShardsOk
<1>2. l \in Nat
  BY LenProperties
<1>3. s.shard_id \in Nat /\ s.base_docid = U /\ IsShard(s, docs, h)
  BY DEF IsOpenShard
<1> HIDE DEF N, U
<1>4. l - U \in Nat /\ U + (l - U) = l
  BY <1>1, <1>2
<1>5. Len(docs) = l - U
  <2> DEFINE n == l - U
  <2>1. U \in Nat /\ n \in Nat /\ U + n <= Len(T)
    BY <1>1, <1>2, <1>4
  <2> HIDE DEF n
  <2>2. Len(Slice(T, U, n)) = n
    BY <2>1, SliceCells DEF IsSlice
  <2> QED BY <2>2 DEF n
<1>6. Len(s.paths) = l - U
  BY <1>3, <1>5 DEF IsShard
<1>7. ShardAnswers(h, f, docs)
  <2>1. Len(docs) <= PowerOfTwo(32)
    <3> DEFINE w == PowerOfTwo(32)
    <3>1. w \in Nat /\ l <= w
      BY Powers
    <3> HIDE DEF w, l
    <3>2. l - U <= w
      BY <1>1, <1>2, <3>1
    <3> QED BY <1>5, <3>2 DEF w, l
  <2> HIDE DEF docs
  <2> QED BY <1>3, <2>1, ShardFileAnswers
<1>8. /\ e \in ShardEntry /\ e.file = <<e.shard_id>> /\ e.base_docid = U /\ e.num_docs = l - U
  <2>1. e.shard_id = s.shard_id /\ e.base_docid = U /\ e.num_docs = l - U /\ e.file = <<s.shard_id>>
    BY <1>3, <1>6 DEF EntryOf, ShardName
  <2>2. <<s.shard_id>> \in Seq(Nat)
    BY <1>3
  <2>3. e = [shard_id |-> s.shard_id, base_docid |-> U, num_docs |-> l - U, file |-> <<s.shard_id>>]
    BY <1>3, <1>6 DEF EntryOf, ShardName
  <2>4. e \in ShardEntry
    BY <1>1, <1>3, <1>4, <2>2, <2>3 DEF ShardEntry
  <2> QED BY <2>1, <2>4
<1> HIDE DEF e, f, docs
<1>9. /\ es2 \in Seq(ShardEntry) /\ Len(es2) = N + 1
      /\ \A k \in 1..(N + 1) : es2[k] = IF k = N + 1 THEN e ELSE es[k]
  BY <1>1, <1>8, Appended DEF N
<1>10. /\ IsCells(ss2) /\ Len(ss2) = N + 1
       /\ \A k \in 1..(N + 1) : ss2[k] = IF k = N + 1 THEN f ELSE ss[k]
  <2>1. PICK X : ss \in Seq(X)
    BY <1>1 DEF IsCells
  <2> DEFINE Z == X \cup {f}
  <2>2. ss \in Seq(Z) /\ f \in Z
    <3>1. X \subseteq Z /\ f \in Z
      OBVIOUS
    <3> HIDE DEF Z
    <3> QED BY <2>1, <3>1, SeqMonotonic
  <2> HIDE DEF Z
  <2>3. /\ ss2 \in Seq(Z) /\ Len(ss2) = Len(ss) + 1
        /\ \A k \in 1..(Len(ss) + 1) : ss2[k] = IF k = Len(ss) + 1 THEN f ELSE ss[k]
    BY <2>2, Appended
  <2> QED BY <1>1, <2>3 DEF IsCells
<1> HIDE DEF es2, ss2, l
<1>11. \A k \in 0..N : UpTo(es2, k) = UpTo(es, k)
  <2>1. ASSUME NEW k \in 0..N PROVE UpTo(es2, k) = UpTo(es, k)
    <3>1. CASE k = 0
      BY <3>1 DEF UpTo
    <3>2. CASE k # 0
      <4>1. k \in 1..(N + 1) /\ k # N + 1
        BY <1>1, <3>2
      <4>2. es2[k] = es[k]
        BY <1>9, <4>1
      <4> QED BY <3>2, <4>2 DEF UpTo
    <3> QED BY <3>1, <3>2
  <2> QED BY <2>1
<1>12. UpTo(es2, N + 1) = l
  <2>1. N + 1 \in 1..(N + 1) /\ N + 1 # 0
    BY <1>1
  <2>2. es2[N + 1] = e
    BY <1>9, <2>1
  <2> QED BY <1>4, <1>8, <2>1, <2>2 DEF UpTo
<1>13. ASSUME NEW k \in 1..(N + 1)
       PROVE  /\ es2[k].file = <<es2[k].shard_id>>
              /\ es2[k].base_docid = UpTo(es2, k - 1)
              /\ es2[k].base_docid + es2[k].num_docs <= l
              /\ ShardAnswers(h, ss2[k], Slice(T, es2[k].base_docid, es2[k].num_docs))
  <2>1. CASE k = N + 1
    <3>1. es2[k] = e /\ ss2[k] = f
      BY <1>9, <1>10, <2>1
    <3>2. k - 1 = N /\ N \in 0..N
      BY <1>1, <2>1
    <3>3. UpTo(es2, k - 1) = U
      BY <1>11, <3>2 DEF U
    <3>4. e.base_docid + e.num_docs <= l
      BY <1>2, <1>4, <1>8 DEF l
    <3>5. ShardAnswers(h, f, Slice(T, e.base_docid, e.num_docs))
      BY <1>7, <1>8 DEF docs
    <3> QED BY <1>8, <3>1, <3>3, <3>4, <3>5
  <2>2. CASE k # N + 1
    <3>1. k \in 1..N /\ k - 1 \in 0..N
      BY <1>1, <2>2
    <3>2. es2[k] = es[k] /\ ss2[k] = ss[k] /\ UpTo(es2, k - 1) = UpTo(es, k - 1)
      BY <1>9, <1>10, <1>11, <2>2, <3>1
    <3> QED BY <1>1, <3>1, <3>2
  <2> QED BY <2>1, <2>2
<1>14. N + 1 \in Nat /\ l \in Nat /\ l <= l
  BY <1>1, <1>2 DEF l
<1>15. ShardsOk(es2, ss2, T, h)
  BY <1>9, <1>10, <1>12, <1>13, <1>14 DEF ShardsOk, l
<1>16. s.base_docid + Len(s.paths) = l
  BY <1>3, <1>4, <1>6
<1>17. UpTo(es2, Len(es2)) = l
  BY <1>9, <1>12
<1> QED BY <1>15, <1>16, <1>17 DEF Flushed, es2, ss2, e, f, l

\* What is kept is in the set.
LEMMA KeptOnly ==
    ASSUME NEW Y, NEW s \in Seq(Y), NEW S
    PROVE  Kept(s, S) \in Seq(Y \cap S)
<1> DEFINE n == Len(s)
           Z == Y \cap S
<1>1. n \in Nat
  BY LenProperties
<1>2. PICK c \in [0..Len(s) -> Seq(Y)] : IsKept(c, s, S)
  BY KeptRun
<1>3. /\ c[0] = <<>> /\ Kept(s, S) = c[n]
      /\ \A i \in 1..n : c[i] = IF s[i] \in S THEN Append(c[i - 1], s[i]) ELSE c[i - 1]
      /\ \A i \in 1..n : s[i] \in Y
  BY <1>2, ElementOfSeq DEF IsKept
<1>4. \A i \in 1..n : s[i] \in S => s[i] \in Z
  BY <1>3
<1> HIDE DEF n, Z
<1> DEFINE G == {i \in 0..n : c[i] \in Seq(Z)}
<1>5. 0 \in G
  <2>1. <<>> \in Seq(Z)
    OBVIOUS
  <2> QED BY <1>1, <1>3, <2>1
<1>6. ASSUME NEW i \in 1..n, i - 1 \in G PROVE i \in G
  <2>1. c[i - 1] \in Seq(Z) /\ i \in 0..n
    BY <1>1, <1>6
  <2>2. s[i] \in S => Append(c[i - 1], s[i]) \in Seq(Z)
    BY <1>4, <2>1, AppendProperties
  <2>3. c[i] \in Seq(Z)
    BY <1>3, <2>1, <2>2
  <2> QED BY <2>1, <2>3
<1>7. 0..n \subseteq G
  <2> HIDE DEF G
  <2> QED BY <1>1, <1>5, <1>6, Induction
<1>8. c[n] \in Seq(Z)
  BY <1>1, <1>7
<1> QED BY <1>3, <1>8 DEF Z

\* Nothing is kept of nothing.
LEMMA KeptNone == \A S : Kept(<<>>, S) = <<>>
<1>1. ASSUME NEW S PROVE Kept(<<>>, S) = <<>>
  <2> DEFINE e == <<>>
             Y == {}
  <2>1. e \in Seq(Y) /\ Len(e) = 0
    OBVIOUS
  <2> HIDE DEF e, Y
  <2>2. Kept(e, S) \in Seq(Y) /\ Len(Kept(e, S)) <= 0
    BY <2>1, KeptOnly, KeptLength, KeptSeq
  <2>3. Len(Kept(e, S)) = 0
    BY <2>2, LenProperties
  <2>4. Kept(e, S) = <<>>
    BY <2>2, <2>3, EmptySeq
  <2> QED BY <2>4 DEF e
<1> QED BY <1>1

\* A slice of no cells.
LEMMA EmptySlice ==
    ASSUME NEW Y, NEW T \in Seq(Y), NEW at \in Nat, at <= Len(T)
    PROVE  Slice(T, at, 0) = <<>>
<1> DEFINE n == 0
           a == Slice(T, at, n)
<1>1. n \in Nat /\ at + n <= Len(T)
  OBVIOUS
<1> HIDE DEF n
<1>2. a \in Seq(Y) /\ Len(a) = n
  BY <1>1, SliceCells DEF IsSlice
<1> HIDE DEF a
<1>3. a = <<>>
  BY <1>2, EmptySeq DEF n
<1> QED BY <1>3 DEF a, n

\* The records with a text, in order.
Texts == Kept(recs, TextDoc)

\* The shards: those written answer for consecutive parts of the texts,
\* and the shard being filled, which is gone once the files are written,
\* holds the texts after them.
ShardInv ==
    /\ ShardsOk(entries, shards, Texts, hash)
    /\ IF file = NoFile THEN IsOpenShard(shard, entries, Texts, hash)
                         ELSE UpTo(entries, Len(entries)) = Len(Texts)

\* The records with a text are no more than docids can number.
LEMMA TextsFit ==
    ASSUME NEW rs \in Seq(Doc), Len(rs) <= MaxDocs
    PROVE  Kept(rs, TextDoc) \in Seq(TextDoc) /\ Len(Kept(rs, TextDoc)) <= PowerOfTwo(32)
<1> DEFINE w == PowerOfTwo(32)
           T == Kept(rs, TextDoc)
<1>1. T \in Seq(Doc \cap TextDoc) /\ Len(T) <= Len(rs)
  BY KeptOnly, KeptLength
<1>2. Doc \cap TextDoc = TextDoc
  BY DEF TextDoc
<1>3. w \in Nat /\ MaxDocs \in Nat /\ MaxDocs <= w
  BY Powers, DocidsFit
<1> HIDE DEF w, T
<1>4. T \in Seq(TextDoc)
  BY <1>1, <1>2
<1>5. Len(T) \in Nat /\ Len(rs) \in Nat
  BY <1>4, LenProperties
<1>6. Len(T) <= w
  BY <1>1, <1>3, <1>5
<1> QED BY <1>4, <1>6 DEF T, w

\* Nothing is written yet.
LEMMA NoShards ==
    ASSUME NEW h
    PROVE  ShardsOk(<<>>, <<>>, <<>>, h) /\ IsOpenShard(NewShard(0, 0), <<>>, <<>>, h)
<1> DEFINE e == <<>>
           s == NewShard(0, 0)
<1>1. e \in Seq(ShardEntry) /\ e \in Seq(TextDoc) /\ Len(e) = 0 /\ 0 \in Nat
  OBVIOUS
<1>2. IsShard(s, e, h)
  BY NewIsShard
<1>3. s.shard_id = 0 /\ s.base_docid = 0
  BY DEF NewShard
<1> HIDE DEF e, s
<1>4. UpTo(e, 0) = 0
  BY DEF UpTo
<1>5. ShardsOk(e, e, e, h)
  <2>1. IsCells(e)
    BY <1>1 DEF IsCells
  <2> QED BY <1>1, <1>4, <2>1 DEF ShardsOk
<1>6. Slice(e, 0, Len(e) - 0) = e
  <2>1. Len(e) - 0 = 0 /\ 0 <= Len(e)
    BY <1>1
  <2>2. Slice(e, 0, 0) = e
    BY <1>1, <2>1, EmptySlice DEF e
  <2> QED BY <2>1, <2>2
<1>7. IsOpenShard(s, e, e, h)
  BY <1>1, <1>2, <1>3, <1>4, <1>6 DEF IsOpenShard
<1> QED BY <1>5, <1>7 DEF e, s

\* Initially no text is received and no shard written.
LEMMA InitShardInv == Init => ShardInv
<1> SUFFICES ASSUME Init PROVE ShardInv
  OBVIOUS
<1>1. entries = <<>> /\ shards = <<>> /\ recs = <<>> /\ shard = NewShard(0, 0) /\ file = NoFile
  BY DEF Init
<1>2. Texts = <<>>
  BY <1>1, KeptNone DEF Texts
<1> QED BY <1>1, <1>2, NoShards DEF ShardInv

\* The shard being filled takes a text.
LEMMA ShardTakes ==
    ASSUME NEW es, NEW ss, NEW T \in Seq(TextDoc), NEW h, ShardsOk(es, ss, T, h), h \in [HashKey -> HashValue],
           NEW s, IsOpenShard(s, es, T, h), NEW d \in TextDoc
    PROVE  IsOpenShard(add_file(s, d.path, d.meta, d.content), es, Append(T, d), h)
<1> DEFINE U == UpTo(es, Len(es))
           l == Len(T)
           docs == Slice(T, U, l - U)
           T2 == Append(T, d)
           s2 == add_file(s, d.path, d.meta, d.content)
<1>1. U \in Nat /\ U <= l /\ l \in Nat
  BY LenProperties DEF ShardsOk
<1>2. s.shard_id \in Nat /\ s.base_docid = U /\ IsShard(s, docs, h)
  BY DEF IsOpenShard
<1>3. \A t \in trigrams(fold(d.content)) : h[t] \in Nat
  <2>1. trigrams(fold(d.content)) \subseteq HashKey
    BY RecordAssumption DEF TextDoc
  <2> QED BY <2>1, RecordAssumption
<1> HIDE DEF docs, U
<1>4. IsShard(s2, Append(docs, d), h)
  BY <1>2, <1>3, AddFile
<1>5. s2.shard_id = s.shard_id /\ s2.base_docid = s.base_docid
  BY DEF add_file
<1> HIDE DEF s2
<1>6. Slice(T2, U, l + 1 - U) = Append(docs, d)
  BY <1>1, SliceOfMore DEF docs
<1>7. Len(T2) = l + 1
  BY Appended
<1> HIDE DEF T2
<1>8. IsOpenShard(s2, es, T2, h)
  <2>1. s2.shard_id \in Nat /\ s2.base_docid = U /\ IsShard(s2, Slice(T2, U, Len(T2) - U), h)
    <3> DEFINE a == Append(docs, d)
               n == l + 1 - U
    <3>1. IsShard(s2, a, h) /\ Slice(T2, U, n) = a
      BY <1>4, <1>6
    <3>2. Len(T2) - U = n
      BY <1>1, <1>7
    <3> HIDE DEF a, n
    <3>3. IsShard(s2, Slice(T2, U, Len(T2) - U), h)
      BY <3>1, <3>2
    <3> QED BY <1>2, <1>5, <3>3
  <2> QED BY <2>1 DEF IsOpenShard, U
<1> QED BY <1>8 DEF s2, T2

\* A received record goes to the open shard, which is flushed when it is full.
LEMMA ReceiveShards ==
    ASSUME IInv, ShardInv, NEW d \in Doc, Receive(d)
    PROVE  ShardInv'
<1> DEFINE T == Texts
           h == hash
           es == entries
           ss == shards
           added == add_file(shard, d.path, d.meta, d.content)
           full == d.content # NoValue /\ Len(added.corpus) >= SHARD_FLUSH_BYTES
<1>1. /\ file = NoFile /\ file' = NoFile /\ hash' = hash /\ recs' = Append(recs, d)
      /\ Len(recs) < MaxDocs
      /\ full => /\ Flush(added)
                 /\ shard' = NewShard(shard.shard_id + 1, shard.base_docid + Len(added.paths))
      /\ ~full => /\ shard' = (IF d.content = NoValue THEN shard ELSE added)
                  /\ entries' = entries /\ shards' = shards
  BY DEF Receive
<1>2. recs \in Seq(Doc) /\ Len(recs) <= MaxDocs /\ h \in [HashKey -> HashValue]
  BY DEF IInv, BuilderInv
<1>3. T \in Seq(TextDoc) /\ Len(T) <= PowerOfTwo(32)
  BY <1>2, TextsFit DEF Texts
<1>4. Texts' = IF d \in TextDoc THEN Append(T, d) ELSE T
  <2>1. Kept(Append(recs, d), TextDoc) = IF d \in TextDoc THEN Append(Texts, d) ELSE Texts
    BY <1>2, KeptMore DEF Texts
  <2>2. Texts' = Kept(Append(recs, d), TextDoc)
    BY <1>1 DEF Texts
  <2> QED BY <2>1, <2>2
<1>5. d \in TextDoc <=> d.content # NoValue
  BY DEF TextDoc
<1>6. ShardsOk(es, ss, T, h) /\ IsOpenShard(shard, es, T, h)
  BY <1>1 DEF ShardInv
<1>7. CASE d \notin TextDoc
  <2>1. ~full /\ shard' = shard /\ entries' = entries /\ shards' = shards /\ Texts' = Texts
    BY <1>1, <1>4, <1>5, <1>7
  <2> QED BY <1>1, <1>6, <2>1 DEF ShardInv
<1>8. CASE d \in TextDoc
  <2> DEFINE T2 == Append(T, d)
  <2>1. Texts' = T2 /\ T2 \in Seq(TextDoc) /\ Len(T2) <= PowerOfTwo(32)
    <3>1. Texts' = T2
      BY <1>4, <1>8
    <3>2. Append(recs, d) \in Seq(Doc) /\ Len(Append(recs, d)) <= MaxDocs
      <4>1. Append(recs, d) \in Seq(Doc) /\ Len(Append(recs, d)) = Len(recs) + 1 /\ Len(recs) \in Nat
        BY <1>2, Appended
      <4>2. MaxDocs \in Nat
        BY DocidAssumption
      <4> QED BY <1>1, <4>1, <4>2
    <3>3. Kept(Append(recs, d), TextDoc) = T2
      BY <1>2, <1>8, KeptMore DEF Texts
    <3> QED BY <3>1, <3>2, <3>3, TextsFit
  <2>2. ShardsOk(es, ss, T2, h)
    <3> HIDE DEF T
    <3> QED BY <1>3, <1>6, <1>8, ShardsGrow
  <2>3. IsOpenShard(added, es, T2, h)
    <3> HIDE DEF T
    <3> QED BY <1>2, <1>3, <1>6, <1>8, ShardTakes
  <2> HIDE DEF T2, added
  <2>4. CASE ~full
    <3>1. shard' = added /\ entries' = entries /\ shards' = shards
      BY <1>1, <1>5, <1>8, <2>4
    <3> QED BY <1>1, <2>1, <2>2, <2>3, <3>1 DEF ShardInv
  <2>5. CASE full
    <3> DEFINE s2 == NewShard(shard.shard_id + 1, shard.base_docid + Len(added.paths))
               es2 == Append(es, EntryOf(added))
               ss2 == Append(ss, ShardFinish(h, added, BuildTime))
               l == Len(T2)
    <3>1. shard' = s2 /\ entries' = es2 /\ shards' = ss2
      BY <1>1, <2>5 DEF Flush, EntryOf
    <3>2. ShardsOk(es2, ss2, T2, h) /\ UpTo(es2, Len(es2)) = l /\ added.base_docid + Len(added.paths) = l
      <4> HIDE DEF T, es, ss, h
      <4>1. Flushed(es, ss, T2, h, added, BuildTime)
        BY <1>2, <2>1, <2>2, <2>3, FlushShard
      <4> QED BY <4>1 DEF Flushed
    <3>3. shard.shard_id \in Nat /\ shard.base_docid = added.base_docid
      BY <1>6 DEF IsOpenShard, add_file, added
    <3>4. s2.shard_id \in Nat /\ s2.base_docid = l
      BY <3>2, <3>3 DEF NewShard
    <3>5. IsShard(s2, <<>>, h)
      BY NewIsShard
    <3>6. l \in Nat
      BY <2>1, LenProperties
    <3> HIDE DEF s2, es2, ss2
    <3>7. Slice(T2, l, l - l) = <<>>
      <4>1. l - l = 0 /\ l <= l
        BY <3>6
      <4>2. Slice(T2, l, 0) = <<>>
        BY <2>1, <3>6, <4>1, EmptySlice
      <4> QED BY <4>1, <4>2
    <3>8. IsOpenShard(s2, es2, T2, h)
      BY <3>2, <3>4, <3>5, <3>7 DEF IsOpenShard
    <3> QED BY <1>1, <2>1, <3>1, <3>2, <3>8 DEF ShardInv
  <2> QED BY <2>4, <2>5
<1> QED BY <1>7, <1>8

\* Finishing flushes the open shard unless it is empty.
LEMMA FinishShards ==
    ASSUME IInv, ShardInv, Finish
    PROVE  ShardInv'
<1> DEFINE T == Texts
           h == hash
           es == entries
           ss == shards
           U == UpTo(es, Len(es))
           l == Len(T)
<1>1. /\ file = NoFile /\ hash' = hash /\ recs' = recs
      /\ IF Len(shard.paths) > 0 THEN Flush(shard) ELSE entries' = entries /\ shards' = shards
  BY DEF Finish
<1>2. recs \in Seq(Doc) /\ Len(recs) <= MaxDocs /\ h \in [HashKey -> HashValue]
  BY DEF IInv, BuilderInv
<1>3. T \in Seq(TextDoc) /\ Len(T) <= PowerOfTwo(32)
  BY <1>2, TextsFit DEF Texts
<1>4. ShardsOk(es, ss, T, h) /\ IsOpenShard(shard, es, T, h)
  BY <1>1 DEF ShardInv
<1>5. Texts' = T
  BY <1>1 DEF Texts
<1>6. ShardsOk(entries', shards', T, h) /\ UpTo(entries', Len(entries')) = l
  <2>1. CASE Len(shard.paths) > 0
    <3>1. /\ entries' = Append(es, EntryOf(shard))
          /\ shards' = Append(ss, ShardFinish(h, shard, BuildTime))
      BY <1>1, <2>1 DEF Flush, EntryOf
    <3> HIDE DEF T
    <3>2. /\ ShardsOk(Append(es, EntryOf(shard)), Append(ss, ShardFinish(h, shard, BuildTime)), T, h)
          /\ UpTo(Append(es, EntryOf(shard)), Len(Append(es, EntryOf(shard)))) = l
      <4> HIDE DEF es, ss, h
      <4>1. Flushed(es, ss, T, h, shard, BuildTime)
        BY <1>2, <1>3, <1>4, FlushShard
      <4> QED BY <4>1 DEF Flushed, es, ss, h, l
    <3> QED BY <3>1, <3>2
  <2>2. CASE ~(Len(shard.paths) > 0)
    <3>1. entries' = entries /\ shards' = shards
      BY <1>1, <2>2
    <3>2. U \in Nat /\ U <= l /\ l \in Nat
      BY <1>3, <1>4, LenProperties DEF ShardsOk
    <3>3. Len(shard.paths) = l - U
      <4> DEFINE n == l - U
                 docs == Slice(T, U, n)
      <4>1. IsShard(shard, docs, h)
        BY <1>4 DEF IsOpenShard
      <4>2. n \in Nat /\ U + n <= l
        BY <3>2
      <4> HIDE DEF n, U
      <4>3. Len(docs) = n
        BY <1>3, <3>2, <4>2, SliceCells DEF IsSlice
      <4> HIDE DEF docs
      <4>4. Len(shard.paths) = n
        BY <4>1, <4>3 DEF IsShard
      <4> QED BY <4>4 DEF n
    <3>4. U = l
      BY <2>2, <3>2, <3>3
    <3> QED BY <1>4, <3>1, <3>4
  <2> QED BY <2>1, <2>2
<1>7. ShardsOk(entries, shards, Texts, hash)' /\ (UpTo(entries, Len(entries)) = Len(Texts))'
  BY <1>1, <1>5, <1>6
<1>8. file' # NoFile
  <2>1. PICK dict \in train_dict(db.paths) : file' = finish(h, db, dict, BuildTime)
    BY DEF Finish
  <2>2. dict \in Seq(DictCell) /\ IsBuilder(db, h)
    BY Dictionaries DEF IInv, BuilderInv
  <2> DEFINE f == finish(h, db, dict, BuildTime)
  <2>3. IsFile(f, h, db, dict, BuildTime)
    BY <2>2, FileLayout
  <2> HIDE DEF f
  <2>4. 2 + Len(dict) <= Len(f) /\ Len(dict) \in Nat
    BY <2>3 DEF IsFile, Holds
  <2>5. f # <<>>
    <3>1. Len(f) # 0
      BY <2>4
    <3> QED BY <3>1, EmptySeq
  <2> QED BY <2>1, <2>5 DEF f, NoFile
<1> QED BY <1>7, <1>8 DEF ShardInv

------------------------------
(* Varints *)

\* The bytes of a varint: its septets, all but the last with the high bit set.
LEMMA VarintBytes ==
    ASSUME NEW v \in Nat, v < PowerOfTwo(32)
    PROVE  /\ Septets(v) \in 1..5 /\ Shift(v, 128, Septets(v)) = 0
           /\ DOMAIN encode_u32(v) = 1..Septets(v)
           /\ \A i \in 1..Septets(v) :
                 /\ encode_u32(v)[i] \in Nat
                 /\ encode_u32(v)[i] % 128 = Shift(v, 128, i - 1) % 128
                 /\ encode_u32(v)[i] < 128 <=> i = Septets(v)
<1> DEFINE b == 128
           S(j) == Shift(v, b, j)
           n == Septets(v)
           P(k) == S(k - 1) < 128 /\ (k > 1 => S(k - 1) > 0)
<1>1. b \in Nat \ {0}
  OBVIOUS
<1>2. S(0) = v /\ \A j \in Nat : S(j) \in Nat /\ S(j + 1) = S(j) \div 128
  <2>1. \A j \in Nat : S(j) \in Nat /\ S(j + 1) = S(j) \div b
    <3> HIDE DEF b
    <3> QED BY <1>1, Shifts
  <2>2. S(0) = v
    <3> HIDE DEF b
    <3> QED BY <1>1, Shifts
  <2> QED BY <2>1, <2>2
<1>3. n = CHOOSE k \in 1..5 : P(k)
  BY DEF Septets
<1>4. \A i \in 1..5 : Digits(v, 128, 5)[i] = S(i - 1) % 128
  <2> DEFINE m == 5
  <2>1. m \in Nat
    OBVIOUS
  <2> HIDE DEF m, b
  <2>2. \A i \in 1..m : Digits(v, b, m)[i] = Shift(v, b, i - 1) % b
    BY <1>1, <2>1, DigitsType
  <2> QED BY <2>2 DEF m, b
<1>5. encode_u32(v) = [i \in 1..n |-> Digits(v, 128, 5)[i] + (IF i < n THEN 128 ELSE 0)]
  BY DEF encode_u32
<1> HIDE DEF S, n, b
<1>6. /\ S(0) = v /\ S(1) = S(0) \div 128 /\ S(2) = S(1) \div 128 /\ S(3) = S(2) \div 128
      /\ S(4) = S(3) \div 128 /\ S(5) = S(4) \div 128
      /\ S(1) \in Nat /\ S(2) \in Nat /\ S(3) \in Nat /\ S(4) \in Nat /\ S(5) \in Nat
  <2>1. S(0 + 1) = S(0) \div 128 /\ S(1 + 1) = S(1) \div 128 /\ S(2 + 1) = S(2) \div 128
    BY <1>2
  <2>2. S(3 + 1) = S(3) \div 128 /\ S(4 + 1) = S(4) \div 128
    BY <1>2
  <2> QED BY <1>2, <2>1, <2>2
<1>7. S(4) < 128
  <2>1. ASSUME NEW x \in Nat, NEW m \in Nat, x < 256 * m PROVE x \div 128 < 2 * m
    BY <2>1
  <2> DEFINE p == PowerOfTwo(8)
             q == PowerOfTwo(16)
             r == PowerOfTwo(24)
  <2>2. v < 256 * r /\ r = 256 * q /\ q = 256 * p /\ p = 256 * 1 /\ p \in Nat /\ q \in Nat /\ r \in Nat
    BY PowersOfBytes
  <2> HIDE DEF p, q, r
  <2>3. S(1) < 2 * r
    BY <1>6, <2>1, <2>2
  <2>4. S(2) < 4 * q
    BY <1>6, <2>2, <2>3
  <2>5. S(3) < 8 * p
    BY <1>6, <2>2, <2>4
  <2>6. S(4) < 16
    BY <1>6, <2>2, <2>5
  <2> QED BY <1>6, <2>6
<1>8. \E k \in 1..5 : P(k)
  <2>1. P(1) \/ P(2) \/ P(3) \/ P(4) \/ P(5)
    BY <1>6, <1>7
  <2> HIDE DEF P
  <2> QED BY <2>1
<1>9. n \in 1..5 /\ P(n)
  <2> HIDE DEF P
  <2> QED BY <1>3, <1>8
<1>10. S(n) = 0
  <2>1. n - 1 \in Nat /\ (n - 1) + 1 = n
    BY <1>9
  <2>2. S(n) = S(n - 1) \div 128 /\ S(n - 1) \in Nat
    BY <1>2, <2>1
  <2> QED BY <1>9, <2>2
<1>11. ASSUME NEW i \in 1..n
       PROVE  /\ encode_u32(v)[i] \in Nat
              /\ encode_u32(v)[i] % 128 = S(i - 1) % 128
              /\ encode_u32(v)[i] < 128 <=> i = n
  <2> DEFINE x == S(i - 1)
  <2>1. i \in 1..5 /\ i - 1 \in Nat
    BY <1>9
  <2>2. x \in Nat
    BY <1>2, <2>1
  <2>3. encode_u32(v)[i] = (x % 128) + (IF i < n THEN 128 ELSE 0)
    BY <1>4, <1>5, <2>1
  <2> HIDE DEF x
  <2>4. x % 128 \in 0..127 /\ (x % 128) % 128 = x % 128 /\ ((x % 128) + 128) % 128 = x % 128
    BY <2>2
  <2>5. encode_u32(v)[i] \in Nat /\ encode_u32(v)[i] % 128 = x % 128
    BY <2>3, <2>4
  <2>6. encode_u32(v)[i] < 128 <=> i = n
    BY <1>9, <2>3, <2>4
  <2> QED BY <2>5, <2>6 DEF x
<1>12. DOMAIN encode_u32(v) = 1..n
  BY <1>5
<1> QED BY <1>9, <1>10, <1>11, <1>12 DEF n, S, b

\* decode_u32 stops at the first byte without the high bit, if there is one.
LEMMA ReadVarint ==
    ASSUME NEW buf \in Seq(Nat), NEW pos \in Nat, NEW k \in Nat, pos + k <= Len(buf)
    PROVE  /\ k \in 1..5 /\ (\A i \in 1..k : buf[pos + i] < 128 <=> i = k)
              => decode_u32(buf, pos) = [value |-> Number([i \in 1..k |-> buf[pos + i] % 128], 128), pos |-> pos + k]
           /\ pos + k = Len(buf) /\ k < 5 /\ (\A i \in 1..k : ~(buf[pos + i] < 128))
              => decode_u32(buf, pos).value = NoValue
<1> DEFINE l == Len(buf)
           m == Min({5, l - pos})
           s == Slice(buf, pos, m)
           I == {i \in 1..Len(s) : s[i] < 128}
           n == SelectInSeq(s, LAMBDA b : b < 128)
           d(j) == Number([i \in 1..j |-> buf[pos + i] % 128], 128)
<1>1. l \in Nat
  BY LenProperties
<1>2. m = IF 5 <= l - pos THEN 5 ELSE l - pos
  BY <1>1, MinOfTwo
<1>3. m \in Nat /\ pos + m <= l
  BY <1>1, <1>2
<1>4. s \in Seq(Nat) /\ Len(s) = m /\ \A i \in 1..m : s[i] = buf[pos + i]
  <2> HIDE DEF m
  <2> QED BY <1>3, SliceCells, SMTT(60) DEF IsSlice
<1>5. n = IF I # {} THEN Min(I) ELSE 0
  BY DEF SelectInSeq
<1>6. decode_u32(buf, pos) = IF n = 0 THEN [value |-> NoValue, pos |-> pos] ELSE [value |-> d(n), pos |-> pos + n]
  BY DEF decode_u32
<1> HIDE DEF m, s, n, d
<1>7. ASSUME k \in 1..5, \A i \in 1..k : buf[pos + i] < 128 <=> i = k
      PROVE  decode_u32(buf, pos) = [value |-> d(k), pos |-> pos + k]
  <2>1. k <= m /\ k \in 1..k
    BY <1>1, <1>2, <1>7
  <2>2. k \in I
    <3>1. buf[pos + k] < 128
      BY <1>7, <2>1
    <3>2. k \in 1..m
      BY <1>3, <1>7, <2>1
    <3>3. s[k] = buf[pos + k]
      BY <1>4, <3>2
    <3> QED BY <1>4, <3>1, <3>2, <3>3
  <2>3. ASSUME NEW y \in I PROVE k <= y
    <3> SUFFICES ASSUME y < k PROVE FALSE
      OBVIOUS
    <3>1. y \in 1..k /\ y \in 1..m /\ s[y] < 128
      BY <1>3, <1>4
    <3>2. buf[pos + y] < 128
      BY <1>4, <3>1
    <3> HIDE DEF I
    <3>3. y = k
      BY <1>7, <3>1, <3>2
    <3> QED BY <3>1, <3>3
  <2>4. I \in SUBSET Nat
    OBVIOUS
  <2> HIDE DEF I
  <2>5. Min(I) = k
    BY <2>2, <2>3, <2>4, LeastIsMin
  <2>6. n = k /\ n # 0
    BY <1>5, <1>7, <2>2, <2>5
  <2> QED BY <1>6, <2>6
<1>8. ASSUME pos + k = l, k < 5, \A i \in 1..k : ~(buf[pos + i] < 128) PROVE decode_u32(buf, pos).value = NoValue
  <2>1. m = k
    BY <1>1, <1>2, <1>8
  <2>2. I = {}
    BY <1>4, <1>8, <2>1, ZenonT(60)
  <2> HIDE DEF I
  <2>3. n = 0
    BY <1>5, <2>2
  <2> QED BY <1>6, <2>3
<1> QED BY <1>7, <1>8 DEF l, d

\* decode_u32 reads every 32-bit number back from wherever encode_u32 put
\* it, and goes to the byte behind it; a buffer that ends before the last
\* byte of a varint is refused.
THEOREM VarintRoundTrip ==
    ASSUME NEW v \in Nat, v < PowerOfTwo(32),
           NEW buf \in Seq(Nat), NEW pos \in Nat, NEW k \in 0..Septets(v), pos + k <= Len(buf),
           \A i \in 1..k : buf[pos + i] = encode_u32(v)[i]
    PROVE  /\ k = Septets(v) => decode_u32(buf, pos) = [value |-> v, pos |-> pos + k]
           /\ k < Septets(v) /\ pos + k = Len(buf) => decode_u32(buf, pos).value = NoValue
<1> DEFINE c == Septets(v)
           e == encode_u32(v)
<1>1. c \in 1..5 /\ Shift(v, 128, c) = 0
  BY VarintBytes
<1>2. \A i \in 1..c : e[i] % 128 = Shift(v, 128, i - 1) % 128 /\ (e[i] < 128 <=> i = c)
  BY VarintBytes
<1>3. \A i \in 1..k : buf[pos + i] = e[i]
  OBVIOUS
<1>4. k \in Nat /\ k <= c
  BY <1>1
<1> HIDE DEF c, e
<1>5. ASSUME k = c PROVE decode_u32(buf, pos) = [value |-> v, pos |-> pos + k]
  <2> DEFINE d == [i \in 1..k |-> buf[pos + i] % 128]
  <2>1. k \in 1..5 /\ \A i \in 1..k : buf[pos + i] < 128 <=> i = k
    BY <1>1, <1>2, <1>3, <1>5, ZenonT(60)
  <2>2. \A i \in 1..k : buf[pos + i] % 128 = Shift(v, 128, i - 1) % 128
    BY <1>2, <1>3, <1>5, ZenonT(60)
  <2>3. d = Digits(v, 128, k)
    BY <2>2 DEF Digits
  <2>4. Number(Digits(v, 128, k), 128) = v
    <3> DEFINE b == 128
    <3>1. b \in Nat \ {0} /\ Shift(v, b, k) = 0
      BY <1>1, <1>5
    <3> HIDE DEF b
    <3>2. Number(Digits(v, b, k), b) = v
      BY <1>4, <3>1, NumberOfDigits
    <3> QED BY <3>2 DEF b
  <2>5. decode_u32(buf, pos) = [value |-> Number(d, 128), pos |-> pos + k]
    BY <1>4, <2>1, ReadVarint, ZenonT(60)
  <2> HIDE DEF d
  <2> QED BY <2>3, <2>4, <2>5
<1>6. ASSUME k < c, pos + k = Len(buf) PROVE decode_u32(buf, pos).value = NoValue
  <2>1. k < 5 /\ \A i \in 1..k : i \in 1..c /\ i # c
    BY <1>1, <1>4, <1>6, SMTT(60)
  <2>2. \A i \in 1..k : ~(buf[pos + i] < 128)
    BY <1>2, <1>3, <2>1
  <2> QED BY <1>4, <1>6, <2>1, <2>2, ReadVarint, ZenonT(60)
<1> QED BY <1>5, <1>6 DEF c

------------------------------
(* MANIFEST *)

\* The varint of 1 is one byte.
LEMMA OneVarint == encode_u32(1) = <<1>>
<1> DEFINE v == 1
           S(j) == Shift(v, 128, j)
<1>1. S(0) = 1 /\ \A j \in Nat : S(j) \in Nat /\ S(j + 1) = S(j) \div 128
  <2> DEFINE b == 128
  <2>1. v \in Nat /\ b \in Nat \ {0}
    OBVIOUS
  <2> HIDE DEF b
  <2>2. Shift(v, b, 0) = v /\ \A j \in Nat : Shift(v, b, j) \in Nat /\ Shift(v, b, j + 1) = Shift(v, b, j) \div b
    BY <2>1, Shifts
  <2> QED BY <2>2 DEF b
<1> HIDE DEF S
<1>2. S(1) = 0 /\ S(2) = 0 /\ S(3) = 0 /\ S(4) = 0
  <2>1. S(0 + 1) = S(0) \div 128 /\ S(1 + 1) = S(1) \div 128 /\ S(2 + 1) = S(2) \div 128 /\ S(3 + 1) = S(3) \div 128
    BY <1>1
  <2>2. 1 \div 128 = 0 /\ 0 \div 128 = 0
    OBVIOUS
  <2>3. S(1) = 0
    BY <1>1, <2>1, <2>2
  <2>4. S(2) = 0
    BY <2>1, <2>2, <2>3
  <2>5. S(3) = 0
    BY <2>1, <2>2, <2>4
  <2> QED BY <2>1, <2>2, <2>3, <2>4, <2>5
<1>3. Septets(1) = 1
  <2> DEFINE P(n) == S(n - 1) < 128 /\ (n > 1 => S(n - 1) > 0)
  <2>1. Septets(1) = CHOOSE n \in 1..5 : P(n)
    BY DEF Septets, S
  <2>2. P(1)
    BY <1>1
  <2>3. \A n \in 1..5 : P(n) => n = 1
    <3>1. ASSUME NEW n \in 1..5, P(n), n # 1 PROVE FALSE
      <4>1. n - 1 = 1 \/ n - 1 = 2 \/ n - 1 = 3 \/ n - 1 = 4
        BY <3>1
      <4>2. S(n - 1) = 0
        BY <1>2, <4>1
      <4> QED BY <3>1, <4>2
    <3> HIDE DEF P
    <3> QED BY <3>1
  <2> HIDE DEF P
  <2>4. 1 \in 1..5
    OBVIOUS
  <2> QED BY <2>1, <2>2, <2>3, <2>4
<1>4. Digits(1, 128, 5)[1] = 1
  <2> DEFINE b == 128
             n == 5
  <2>1. v \in Nat /\ b \in Nat \ {0} /\ n \in Nat /\ 1 \in 1..n
    OBVIOUS
  <2> HIDE DEF b, n
  <2>2. Digits(v, b, n)[1] = Shift(v, b, 1 - 1) % b
    BY <2>1, DigitsType
  <2>3. Digits(1, 128, 5)[1] = S(0) % 128
    BY <2>2 DEF b, n, S
  <2> QED BY <1>1, <2>3
<1>5. encode_u32(1) = [i \in 1..1 |-> 1]
  <2> DEFINE D == Digits(1, 128, 5)
             n == Septets(1)
  <2>1. encode_u32(1) = [i \in 1..n |-> D[i] + (IF i < n THEN 128 ELSE 0)]
    BY DEF encode_u32
  <2>2. D[1] = 1 /\ n = 1
    BY <1>3, <1>4
  <2> HIDE DEF D, n
  <2>3. \A i \in 1..1 : i = 1 /\ ~(i < 1)
    OBVIOUS
  <2>4. \A i \in 1..1 : D[i] + (IF i < 1 THEN 128 ELSE 0) = 1
    BY <2>2, <2>3
  <2>5. [i \in 1..1 |-> D[i] + (IF i < 1 THEN 128 ELSE 0)] = [i \in 1..1 |-> 1]
    BY <2>4
  <2>6. encode_u32(1) = [i \in 1..1 |-> D[i] + (IF i < 1 THEN 128 ELSE 0)]
    BY <2>1, <2>2
  <2> QED BY <2>5, <2>6
<1>6. [i \in 1..1 |-> 1] = <<1>>
  OBVIOUS
<1> QED BY <1>5, <1>6

\* Reading it back, and where the bytes end before it.
LEMMA OneVarintRead ==
    ASSUME NEW bytes \in Seq(Nat), NEW pos \in Nat, pos <= Len(bytes)
    PROVE  /\ pos < Len(bytes) /\ bytes[pos + 1] = 1 => decode_u32(bytes, pos) = [value |-> 1, pos |-> pos + 1]
           /\ pos = Len(bytes) => decode_u32(bytes, pos).value = NoValue
<1> DEFINE v == 1
           z == 0
<1>1. Len(bytes) \in Nat
  BY LenProperties
<1>2. v \in Nat /\ v < PowerOfTwo(32) /\ z \in Nat
  <2> DEFINE j == 32
  <2>1. j \in Nat /\ v < j
    OBVIOUS
  <2> HIDE DEF j
  <2>2. v < PowerOfTwo(j)
    <3>1. PowerOfTwo(j) \in Nat /\ j < PowerOfTwo(j)
      BY <2>1, Powers
    <3> QED BY <2>1, <3>1
  <2> QED BY <2>2 DEF j
<1>3. Septets(v) = v /\ encode_u32(v)[1] = 1
  <2>1. DOMAIN encode_u32(v) = 1..Septets(v) /\ Septets(v) \in 1..5
    <3> HIDE DEF v
    <3> QED BY <1>2, VarintBytes
  <2>2. DOMAIN <<1>> = 1..1 /\ <<1>>[1] = 1
    OBVIOUS
  <2>3. 1..Septets(v) = 1..1
    BY <2>1, <2>2, OneVarint
  <2>4. Septets(v) \in 1..Septets(v)
    BY <2>1
  <2> QED BY <2>2, <2>3, <2>4, OneVarint
<1>4. ASSUME pos < Len(bytes), bytes[pos + 1] = 1 PROVE decode_u32(bytes, pos) = [value |-> 1, pos |-> pos + 1]
  <2>1. pos + v <= Len(bytes) /\ v \in 0..Septets(v) /\ \A i \in 1..v : bytes[pos + i] = encode_u32(v)[i]
    <3>1. \A i \in 1..v : i = 1
      OBVIOUS
    <3> QED BY <1>1, <1>3, <1>4, <3>1
  <2> HIDE DEF v
  <2>2. decode_u32(bytes, pos) = [value |-> v, pos |-> pos + v]
    BY <1>2, <1>3, <2>1, VarintRoundTrip
  <2> QED BY <2>2 DEF v
<1>5. ASSUME pos = Len(bytes) PROVE decode_u32(bytes, pos).value = NoValue
  <2>1. pos + z = Len(bytes) /\ pos + z <= Len(bytes) /\ z < 5 /\ \A i \in 1..z : ~(bytes[pos + i] < 128)
    BY <1>1, <1>5
  <2> HIDE DEF z
  <2> QED BY <1>2, <2>1, ReadVarint, ZenonT(60)
<1> QED BY <1>4, <1>5

\* Five cells put together.
LEMMA FiveCells ==
    ASSUME NEW x \in Nat, NEW y \in Nat, NEW z \in Nat
    PROVE  <<x, y, z>> \o <<1>> \o <<x>> = <<x, y, z, 1, x>>
<1> DEFINE n == 5
           a == <<x, y, z>>
           b == <<1>>
           c == <<x>>
           r == <<x, y, z, 1, x>>
           ab == a \o b
           abc == ab \o c
<1>1. a \in Seq(Nat) /\ Len(a) = 3 /\ a[1] = x /\ a[2] = y /\ a[3] = z
  OBVIOUS
<1>2. b \in Seq(Nat) /\ Len(b) = 1 /\ b[1] = 1
  OBVIOUS
<1>3. c \in Seq(Nat) /\ Len(c) = 1 /\ c[1] = x
  OBVIOUS
<1>4. r \in [1..n -> Nat] /\ r[1] = x /\ r[2] = y /\ r[3] = z /\ r[4] = 1 /\ r[5] = x
  OBVIOUS
<1>5. Nat \cup Nat = Nat /\ n \in Nat
  OBVIOUS
<1> HIDE DEF a, b, c, r
<1>6. ab \in Seq(Nat) /\ IsConcat(ab, a, b)
  BY <1>1, <1>2, <1>5, Concat
<1> HIDE DEF ab
<1>7. abc \in Seq(Nat) /\ IsConcat(abc, ab, c)
  BY <1>3, <1>5, <1>6, Concat
<1> HIDE DEF abc
<1>8. /\ Len(ab) = 4 /\ ab[1] = x /\ ab[2] = y /\ ab[3] = z /\ ab[3 + 1] = 1
  BY <1>1, <1>2, <1>6 DEF IsConcat
<1>9. Len(abc) = 5 /\ \A i \in 1..4 : abc[i] = ab[i]
  BY <1>3, <1>7, <1>8 DEF IsConcat
<1>10. abc[4 + 1] = x
  BY <1>3, <1>7, <1>8 DEF IsConcat
<1>11. abc[1] = x /\ abc[2] = y /\ abc[3] = z /\ abc[4] = 1 /\ abc[5] = x
  BY <1>8, <1>9, <1>10
<1>12. \A i \in 1..n : i = 1 \/ i = 2 \/ i = 3 \/ i = 4 \/ i = 5
  BY DEF n
<1>13. \A i \in 1..n : abc[i] = r[i]
  BY <1>4, <1>11, <1>12
<1>14. Len(abc) = n
  BY <1>9 DEF n
<1> HIDE DEF n
<1>15. abc \in [1..n -> Nat]
  BY <1>7, <1>14, LenProperties, ElementOfSeq
<1>16. abc = r
  BY <1>4, <1>5, <1>13, <1>15, SameCells
<1> QED BY <1>16 DEF abc, ab, a, b, c, r

\* The cells of an entry, and of the whole MANIFEST.
EntryCells(e) == <<e.shard_id, e.base_docid, e.num_docs, 1, e.shard_id>>

IsManifest(out, t, total, es) ==
    LET N == Len(es)
    IN  /\ out \in Seq(Nat) /\ Len(out) = 3 + 5 * N /\ N \in Nat
        /\ out[1] = t /\ out[2] = total /\ out[3] = N
        /\ \A k \in 1..N : \A j \in 1..5 : out[3 + 5 * (k - 1) + j] = EntryCells(es[k])[j]

\* ManifestEncode writes that layout.
LEMMA ManifestLayout ==
    ASSUME NEW es \in Seq(ShardEntry), \A k \in 1..Len(es) : es[k].file = <<es[k].shard_id>>,
           NEW t \in Nat, NEW total \in Nat
    PROVE  IsManifest(ManifestEncode([build_time |-> t, total |-> total, shards |-> es]), t, total, es)
<1> DEFINE N == Len(es)
           m == [build_time |-> t, total |-> total, shards |-> es]
           parts == [k \in DOMAIN es |-> <<es[k].shard_id, es[k].base_docid, es[k].num_docs>>
                                         \o encode_u32(Len(es[k].file)) \o es[k].file]
           flat == FlattenSeq(parts)
           a == <<t, total, N>>
           out == ManifestEncode(m)
<1>1. N \in Nat /\ DOMAIN es = 1..N /\ \A k \in 1..N : es[k] \in ShardEntry
  BY LenProperties, ElementOfSeq
<1>2. ASSUME NEW k \in 1..N
      PROVE  /\ <<es[k].shard_id, es[k].base_docid, es[k].num_docs>> \o encode_u32(Len(es[k].file)) \o es[k].file
                     = EntryCells(es[k])
             /\ EntryCells(es[k]) \in Seq(Nat) /\ Len(EntryCells(es[k])) = 5
  <2> DEFINE x == es[k].shard_id
             y == es[k].base_docid
             z == es[k].num_docs
  <2>1. x \in Nat /\ y \in Nat /\ z \in Nat
    <3>1. es[k] \in ShardEntry
      BY <1>1
    <3> QED BY <3>1 DEF ShardEntry
  <2>2. es[k].file = <<x>>
    OBVIOUS
  <2> HIDE DEF x, y, z
  <2>3. Len(es[k].file) = 1
    <3>1. Len(<<x>>) = 1
      OBVIOUS
    <3> QED BY <2>2, <3>1
  <2>4. <<x, y, z>> \o <<1>> \o <<x>> = <<x, y, z, 1, x>>
    BY <2>1, FiveCells
  <2>5. <<x, y, z, 1, x>> \in Seq(Nat) /\ Len(<<x, y, z, 1, x>>) = 5
    BY <2>1
  <2>6. EntryCells(es[k]) = <<x, y, z, 1, x>>
    BY DEF EntryCells, x, y, z
  <2>7. <<x, y, z>> \o encode_u32(Len(es[k].file)) \o es[k].file = <<x, y, z, 1, x>>
    BY <2>2, <2>3, <2>4, OneVarint
  <2> QED BY <2>5, <2>6, <2>7 DEF x, y, z
<1>3. out = a \o flat
  BY DEF ManifestEncode
<1>4. parts = [k \in 1..N |-> EntryCells(es[k])]
  BY <1>1, <1>2
<1> HIDE DEF parts, out, N
<1>5. /\ parts \in [1..N -> Seq(Nat)] /\ \A k \in 1..N : parts[k] = EntryCells(es[k]) /\ Len(parts[k]) = 5
  BY <1>2, <1>4
<1>6. parts \in Seq(Seq(Nat)) /\ Len(parts) = N
  BY <1>1, <1>5, SeqOver
<1>7. flat \in Seq(Nat) /\ Len(flat) = 5 * N /\ \A k \in 1..N : \A j \in 1..5 : flat[5 * (k - 1) + j] = parts[k][j]
  <2>1. flat \in Seq(Nat) /\ \E st : IsFlat(flat, parts, st)
    BY <1>6, Flattened
  <2>2. PICK st : IsFlat(flat, parts, st)
    BY <2>1
  <2> DEFINE L == 5
  <2>3. L \in Nat /\ \A k \in 1..N : Len(parts[k]) = L
    BY <1>5
  <2> HIDE DEF L, flat
  <2>4. IsEven(flat, parts, L, N)
    BY <1>1, <1>6, <2>2, <2>3, FlatEven
  <2> QED BY <2>1, <2>4 DEF IsEven, L
<1> HIDE DEF flat
<1>8. a \in Seq(Nat) /\ Len(a) = 3 /\ a[1] = t /\ a[2] = total /\ a[3] = N
  BY <1>1
<1> HIDE DEF a
<1>9. out \in Seq(Nat) /\ IsConcat(out, a, flat)
  <2>1. a \o flat \in Seq(Nat \cup Nat) /\ IsConcat(a \o flat, a, flat)
    BY <1>7, <1>8, Concat
  <2>2. Nat \cup Nat = Nat
    OBVIOUS
  <2> QED BY <1>3, <2>1, <2>2
<1>10. /\ Len(out) = 3 + 5 * N
       /\ \A i \in 1..3 : out[i] = a[i]
       /\ \A i \in 1..(5 * N) : out[3 + i] = flat[i]
  BY <1>7, <1>8, <1>9 DEF IsConcat
<1>11. out[1] = t /\ out[2] = total /\ out[3] = N
  BY <1>8, <1>10
<1>12. ASSUME NEW k \in 1..N, NEW j \in 1..5 PROVE out[3 + 5 * (k - 1) + j] = EntryCells(es[k])[j]
  <2> DEFINE i == 5 * (k - 1) + j
  <2>1. i \in 1..(5 * N) /\ 3 + 5 * (k - 1) + j = 3 + i
    BY <1>1
  <2>2. flat[i] = parts[k][j]
    BY <1>7
  <2> HIDE DEF i
  <2> QED BY <1>5, <1>10, <2>1, <2>2
<1>13. IsManifest(out, t, total, es)
  BY <1>1, <1>9, <1>10, <1>11, <1>12 DEF IsManifest, N
<1> QED BY <1>13 DEF out

\* The first k entries.
Pre(es, k) == [i \in 1..k |-> es[i]]

\* The empty prefix, the whole, and one entry more.
LEMMA PreMore ==
    ASSUME NEW es \in Seq(ShardEntry)
    PROVE  /\ Pre(es, 0) = <<>> /\ Pre(es, Len(es)) = es
           /\ \A k \in 1..Len(es) : Append(Pre(es, k - 1), es[k]) = Pre(es, k)
<1> DEFINE N == Len(es)
<1>1. N \in Nat /\ es \in [1..N -> ShardEntry]
  BY LenProperties
<1> HIDE DEF N
<1>2. ASSUME NEW k \in 0..N
      PROVE  /\ Pre(es, k) \in [1..k -> ShardEntry] /\ Pre(es, k) \in Seq(ShardEntry)
             /\ Len(Pre(es, k)) = k /\ \A i \in 1..k : Pre(es, k)[i] = es[i]
  <2>1. Pre(es, k) \in [1..k -> ShardEntry] /\ \A i \in 1..k : Pre(es, k)[i] = es[i]
    BY <1>1 DEF Pre
  <2>2. k \in Nat
    BY <1>1
  <2> QED BY <2>1, <2>2, SeqOver
<1>3. Pre(es, 0) = <<>>
  <2>1. 0 \in 0..N
    BY <1>1
  <2>2. Pre(es, 0) \in Seq(ShardEntry) /\ Len(Pre(es, 0)) = 0
    BY <1>2, <2>1
  <2> QED BY <2>2, EmptySeq
<1>4. Pre(es, N) = es
  <2>1. N \in 0..N
    BY <1>1
  <2>2. Pre(es, N) \in [1..N -> ShardEntry] /\ \A i \in 1..N : Pre(es, N)[i] = es[i]
    BY <1>2, <2>1
  <2> QED BY <1>1, <2>2, SameCells
<1>5. ASSUME NEW k \in 1..N PROVE Append(Pre(es, k - 1), es[k]) = Pre(es, k)
  <2> DEFINE j == k - 1
             a == Pre(es, j)
             e == es[k]
             s == Append(a, e)
             b == Pre(es, k)
  <2>1. k \in Nat /\ k \in 0..N /\ j \in 0..N /\ k = j + 1 /\ j \in Nat
    BY <1>1
  <2>2. a \in Seq(ShardEntry) /\ Len(a) = j /\ \A i \in 1..j : a[i] = es[i]
    BY <1>2, <2>1
  <2>3. b \in [1..k -> ShardEntry] /\ \A i \in 1..k : b[i] = es[i]
    BY <1>2, <2>1
  <2>4. e \in ShardEntry
    BY <1>1
  <2> HIDE DEF a, b, j
  <2>5. s \in Seq(ShardEntry) /\ Len(s) = k /\ \A i \in 1..k : s[i] = IF i = k THEN e ELSE a[i]
    BY <2>1, <2>2, <2>4, Appended
  <2> HIDE DEF s
  <2>6. s \in [1..k -> ShardEntry]
    BY <2>5, LenProperties
  <2>7. \A i \in 1..k : s[i] = b[i]
    <3>1. \A i \in 1..k : i = k \/ i \in 1..j
      BY <2>1
    <3> QED BY <2>2, <2>3, <2>5, <3>1 DEF e
  <2>8. s = b
    BY <2>1, <2>3, <2>6, <2>7, SameCells
  <2> QED BY <2>8 DEF s, a, b, j, e
<1> QED BY <1>3, <1>4, <1>5 DEF N

\* bytes are the first cells of the MANIFEST enc.
IsCutOf(bytes, enc) ==
    /\ bytes \in Seq(Nat) /\ Len(bytes) \in Nat /\ Len(bytes) <= Len(enc)
    /\ \A i \in 1..Len(bytes) : bytes[i] = enc[i]

\* Where the decoder is after k entries of a MANIFEST of n cells.
ManifestAt(es, n, k) == IF 3 + 5 * k <= n THEN [p |-> 3 + 5 * k, out |-> Pre(es, k)] ELSE Cut

\* One entry more is read, or found cut short.
LEMMA ManifestStep ==
    ASSUME NEW es \in Seq(ShardEntry), \A k \in 1..Len(es) : es[k].file = <<es[k].shard_id>>,
           NEW enc, NEW t, NEW total, IsManifest(enc, t, total, es),
           NEW bytes, IsCutOf(bytes, enc), NEW k \in 1..Len(es)
    PROVE  ManifestNext(bytes, ManifestAt(es, Len(bytes), k - 1)) = ManifestAt(es, Len(bytes), k)
<1> DEFINE N == Len(es)
           n == Len(bytes)
           P == 3 + 5 * (k - 1)
           acc == ManifestAt(es, n, k - 1)
           d == decode_u32(bytes, P + 3)
           e == es[k]
<1>1. N \in Nat /\ k \in Nat /\ P \in Nat /\ P + 5 = 3 + 5 * k /\ n \in Nat
  BY LenProperties DEF IsCutOf
<1>3. \A j \in 1..5 : enc[P + j] = EntryCells(e)[j]
  BY DEF IsManifest
<1>4. /\ EntryCells(e)[1] = e.shard_id /\ EntryCells(e)[2] = e.base_docid /\ EntryCells(e)[3] = e.num_docs
      /\ EntryCells(e)[4] = 1 /\ EntryCells(e)[5] = e.shard_id
  BY DEF EntryCells
<1>5. /\ enc[P + 1] = e.shard_id /\ enc[P + 2] = e.base_docid /\ enc[P + 3] = e.num_docs
      /\ enc[P + 4] = 1 /\ enc[P + 5] = e.shard_id
  <2>1. 1 \in 1..5 /\ 2 \in 1..5 /\ 3 \in 1..5 /\ 4 \in 1..5 /\ 5 \in 1..5
    OBVIOUS
  <2> QED BY <1>3, <1>4, <2>1
<1>6. bytes \in Seq(Nat) /\ n <= Len(enc) /\ \A i \in 1..n : bytes[i] = enc[i]
  BY DEF IsCutOf
<1>7. ManifestAt(es, n, k) = IF P + 5 <= n THEN [p |-> P + 5, out |-> Pre(es, k)] ELSE Cut
  BY <1>1 DEF ManifestAt
<1>8. acc = IF P <= n THEN [p |-> P, out |-> Pre(es, k - 1)] ELSE Cut
  BY DEF ManifestAt
<1> HIDE DEF P, n, acc
<1>9. CASE P > n
  <2>1. acc = Cut
    BY <1>1, <1>8, <1>9
  <2>2. acc.p = NoValue
    BY <2>1 DEF Cut
  <2>3. ManifestNext(bytes, acc) = Cut
    BY <2>2 DEF ManifestNext
  <2>4. ManifestAt(es, n, k) = Cut
    BY <1>1, <1>7, <1>9
  <2> QED BY <2>3, <2>4 DEF acc, n
<1>10. CASE P <= n
  <2>1. acc.p = P /\ acc.out = Pre(es, k - 1)
    BY <1>8, <1>10
  <2>2. acc.p # NoValue
    BY <1>1, <2>1, NoneAssumption
  <2>3. ManifestNext(bytes, acc) =
            IF P + 3 > n THEN Cut
            ELSE IF d.value = NoValue THEN Cut
            ELSE IF d.pos + d.value > n THEN Cut
            ELSE [p   |-> d.pos + d.value,
                  out |-> Append(Pre(es, k - 1), [shard_id |-> bytes[P + 1], base_docid |-> bytes[P + 2],
                                                  num_docs |-> bytes[P + 3],
                                                  file |-> Slice(bytes, d.pos, d.value)])]
    BY <2>1, <2>2 DEF ManifestNext, n
  <2> HIDE DEF d, acc
  <2>4. CASE P + 3 > n
    <3>1. ~(P + 5 <= n)
      BY <1>1, <2>4
    <3>2. ManifestNext(bytes, acc) = Cut /\ ManifestAt(es, n, k) = Cut
      BY <1>7, <2>3, <2>4, <3>1
    <3> QED BY <3>2 DEF acc, n
  <2>5. CASE P + 3 = n
    <3>1. ~(P + 5 <= n) /\ P + 3 \in Nat /\ ~(P + 3 > n)
      BY <1>1, <2>5
    <3>2. d.value = NoValue
      BY <1>6, <2>5, <3>1, OneVarintRead DEF d, n
    <3>3. ManifestNext(bytes, acc) = Cut /\ ManifestAt(es, n, k) = Cut
      BY <1>7, <2>3, <3>1, <3>2
    <3> QED BY <3>3 DEF acc, n
  <2>6. CASE P + 3 < n
    <3>1. P + 3 \in Nat /\ ~(P + 3 > n) /\ P + 4 \in 1..n /\ P + 3 + 1 = P + 4
      BY <1>1, <2>6
    <3>2. bytes[P + 3 + 1] = 1
      BY <1>5, <1>6, <3>1
    <3>3. d = [value |-> 1, pos |-> P + 3 + 1]
      BY <1>6, <2>6, <3>1, <3>2, OneVarintRead, SMTT(60) DEF d, n
    <3>4. d.value = 1 /\ d.pos = P + 4 /\ d.pos + d.value = P + 5
      BY <1>1, <3>1, <3>3
    <3>5. d.value # NoValue
      BY <3>4, NoneAssumption
    <3>6. CASE P + 5 > n
      <4>1. ~(P + 5 <= n)
        BY <1>1, <3>6
      <4>2. ManifestNext(bytes, acc) = Cut /\ ManifestAt(es, n, k) = Cut
        BY <1>7, <2>3, <3>1, <3>4, <3>5, <3>6, <4>1
      <4> QED BY <4>2 DEF acc, n
    <3>7. CASE P + 5 <= n
      <4> DEFINE r == [shard_id |-> bytes[P + 1], base_docid |-> bytes[P + 2],
                       num_docs |-> bytes[P + 3], file |-> Slice(bytes, P + 4, 1)]
      <4>1. P + 1 \in 1..n /\ P + 2 \in 1..n /\ P + 3 \in 1..n /\ P + 5 \in 1..n /\ ~(P + 5 > n)
        BY <1>1, <3>7
      <4>2. /\ bytes[P + 1] = e.shard_id /\ bytes[P + 2] = e.base_docid /\ bytes[P + 3] = e.num_docs
            /\ bytes[P + 5] = e.shard_id
        BY <1>5, <1>6, <4>1
      <4>3. Slice(bytes, P + 4, 1) = <<e.shard_id>>
        <5> DEFINE m == 1
                   at == P + 4
                   s == Slice(bytes, at, m)
        <5>1. m \in Nat /\ at \in Nat /\ at + m <= n /\ at + 1 = P + 5
          BY <1>1, <3>7
        <5> HIDE DEF m, at
        <5>2. s \in Seq(Nat) /\ Len(s) = m /\ \A i \in 1..m : s[i] = bytes[at + i]
          BY <1>6, <5>1, SliceCells, SMTT(60) DEF IsSlice, n
        <5> HIDE DEF s
        <5>3. 1 \in 1..m
          BY DEF m
        <5>4. s[1] = e.shard_id
          BY <4>2, <5>1, <5>2, <5>3
        <5>5. s = <<e.shard_id>>
          <6> DEFINE v == e.shard_id
                     b == <<v>>
          <6>1. Len(s) = 1 /\ s[1] = v
            BY <5>2, <5>4 DEF m
          <6>2. v \in Nat
            <7>1. e \in ShardEntry
              BY ElementOfSeq
            <7> QED BY <7>1 DEF ShardEntry
          <6> HIDE DEF v
          <6>3. b \in [1..m -> Nat] /\ b[1] = v
            BY <6>2 DEF m
          <6>4. s \in [1..m -> Nat]
            BY <5>2, LenProperties
          <6>5. \A i \in 1..m : i = 1
            BY DEF m
          <6> HIDE DEF b
          <6>6. s = b
            BY <5>1, <6>1, <6>3, <6>4, <6>5, SameCells, ZenonT(60)
          <6> QED BY <6>6 DEF b, v
        <5> QED BY <5>5 DEF s, m, at
      <4>4. r = e
        <5>1. e \in ShardEntry /\ e.file = <<e.shard_id>>
          BY ElementOfSeq
        <5>2. e = [shard_id |-> e.shard_id, base_docid |-> e.base_docid, num_docs |-> e.num_docs, file |-> e.file]
          BY <5>1 DEF ShardEntry
        <5>3. r = [shard_id |-> e.shard_id, base_docid |-> e.base_docid, num_docs |-> e.num_docs, file |-> e.file]
          BY <4>2, <4>3, <5>1
        <5> QED BY <5>2, <5>3
      <4>5. ManifestNext(bytes, acc) = [p |-> P + 5, out |-> Append(Pre(es, k - 1), r)]
        BY <2>3, <3>1, <3>4, <3>5, <4>1
      <4>6. Append(Pre(es, k - 1), r) = Pre(es, k)
        BY <4>4, PreMore
      <4>7. ManifestAt(es, n, k) = [p |-> P + 5, out |-> Pre(es, k)]
        BY <1>7, <3>7
      <4> HIDE DEF r
      <4> QED BY <4>5, <4>6, <4>7 DEF acc, n
    <3> QED BY <1>1, <3>6, <3>7
  <2> QED BY <1>1, <2>4, <2>5, <2>6
<1> QED BY <1>1, <1>9, <1>10

\* A whole MANIFEST reads back; one cut short anywhere is refused.
LEMMA ManifestRead ==
    ASSUME NEW es \in Seq(ShardEntry), \A k \in 1..Len(es) : es[k].file = <<es[k].shard_id>>,
           NEW enc, NEW t, NEW total, IsManifest(enc, t, total, es),
           NEW bytes, IsCutOf(bytes, enc)
    PROVE  ManifestDecode(bytes) = IF Len(bytes) = Len(enc)
                                   THEN [build_time |-> t, total |-> total, shards |-> es] ELSE NoValue
<1> DEFINE N == Len(es)
           n == Len(bytes)
           E(f) == [k \in 0..N |-> IF k = 0 THEN [p |-> 3, out |-> <<>>] ELSE ManifestNext(bytes, f[k - 1])]
           c == CHOOSE f : f = E(f)
           g == [k \in 0..N |-> ManifestAt(es, n, k)]
<1>1. /\ N \in Nat /\ n \in Nat /\ Len(enc) = 3 + 5 * N /\ n <= 3 + 5 * N
      /\ \A i \in 1..n : bytes[i] = enc[i]
      /\ enc[1] = t /\ enc[2] = total /\ enc[3] = N
  BY DEF IsManifest, IsCutOf
<1>2. CASE n < 3
  <2>1. ManifestDecode(bytes) = NoValue
    BY <1>2 DEF ManifestDecode
  <2>2. n # Len(enc)
    BY <1>1, <1>2
  <2> QED BY <2>1, <2>2
<1>3. CASE ~(n < 3)
  <2>1. bytes[1] = t /\ bytes[2] = total /\ bytes[3] = N
    <3>1. 1 \in 1..n /\ 2 \in 1..n /\ 3 \in 1..n
      BY <1>1, <1>3
    <3> QED BY <1>1, <3>1
  <2>2. ManifestDecode(bytes) = IF c[N].p = NoValue THEN NoValue
                                ELSE [build_time |-> t, total |-> total, shards |-> c[N].out]
    BY <1>3, <2>1 DEF ManifestDecode
  <2>3. ASSUME NEW k \in 1..N PROVE ManifestNext(bytes, g[k - 1]) = g[k]
    <3>1. k \in 0..N /\ k - 1 \in 0..N
      BY <1>1
    <3>2. g[k] = ManifestAt(es, n, k) /\ g[k - 1] = ManifestAt(es, n, k - 1)
      BY <3>1
    <3>3. ManifestNext(bytes, ManifestAt(es, n, k - 1)) = ManifestAt(es, n, k)
      BY ManifestStep
    <3> QED BY <3>2, <3>3
  <2>4. g[0] = [p |-> 3, out |-> <<>>]
    <3>1. 0 \in 0..N
      BY <1>1
    <3>2. g[0] = ManifestAt(es, n, 0)
      BY <3>1
    <3>3. 3 + 5 * 0 <= n /\ 3 + 5 * 0 = 3
      BY <1>1, <1>3
    <3>4. Pre(es, 0) = <<>>
      BY PreMore
    <3> QED BY <3>2, <3>3, <3>4 DEF ManifestAt
  <2>5. g[N] = IF n = Len(enc) THEN [p |-> n, out |-> es] ELSE Cut
    <3>1. N \in 0..N
      BY <1>1
    <3>2. g[N] = ManifestAt(es, n, N)
      BY <3>1
    <3>3. Pre(es, N) = es
      BY PreMore
    <3>4. 3 + 5 * N <= n <=> n = Len(enc)
      BY <1>1
    <3>5. n = Len(enc) => 3 + 5 * N = n
      BY <1>1
    <3> QED BY <3>2, <3>3, <3>4, <3>5 DEF ManifestAt
  <2>6. DOMAIN g = 0..N /\ g = [k \in 0..N |-> g[k]]
    OBVIOUS
  <2> HIDE DEF g, n, N
  <2>7. g = E(g)
    <3>1. ASSUME NEW k \in 0..N
          PROVE  g[k] = IF k = 0 THEN [p |-> 3, out |-> <<>>] ELSE ManifestNext(bytes, g[k - 1])
      <4>1. CASE k = 0
        BY <2>4, <4>1
      <4>2. CASE k # 0
        <5>1. k \in 1..N
          BY <1>1, <4>2
        <5> QED BY <2>3, <4>2, <5>1
      <4> QED BY <4>1, <4>2
    <3> QED BY <2>6, <3>1
  <2>8. c = E(c)
    BY <2>7
  <2>9. \A k \in 0..N : c[k] = IF k = 0 THEN [p |-> 3, out |-> <<>>] ELSE ManifestNext(bytes, c[k - 1])
    <3> HIDE DEF c
    <3> QED BY <2>8
  <2> HIDE DEF c
  <2>10. c[0] = g[0] /\ \A i \in 1..N : c[i - 1] = g[i - 1] => c[i] = g[i]
    <3>1. 0 \in 0..N /\ \A i \in 1..N : i \in 0..N /\ i # 0
      BY <1>1
    <3> QED BY <2>3, <2>4, <2>9, <3>1
  <2>11. c[N] = g[N]
    BY <1>1, <2>10, FollowsRun, ZenonT(60)
  <2>12. CASE n = Len(enc)
    <3>1. c[N] = [p |-> n, out |-> es]
      BY <2>5, <2>11, <2>12
    <3>2. c[N].p = n /\ c[N].out = es /\ n # NoValue
      BY <1>1, <3>1, NoneAssumption
    <3> QED BY <2>2, <2>12, <3>2 DEF n
  <2>13. CASE n # Len(enc)
    <3>1. c[N] = Cut
      BY <2>5, <2>11, <2>13
    <3>2. c[N].p = NoValue
      BY <3>1 DEF Cut
    <3> QED BY <2>2, <2>13, <3>2 DEF n
  <2> QED BY <2>12, <2>13
<1> QED BY <1>2, <1>3

\* The shards hold the texts once each, in order.
LEMMA PartsFlatten ==
    ASSUME NEW es, NEW ss, NEW T \in Seq(TextDoc), NEW h, ShardsOk(es, ss, T, h), UpTo(es, Len(es)) = Len(T)
    PROVE  FlattenSeq([k \in DOMAIN es |->
                          SubSeq(T, es[k].base_docid + 1, es[k].base_docid + es[k].num_docs)]) = T
<1> DEFINE N == Len(es)
           l == Len(T)
           parts == [k \in DOMAIN es |-> SubSeq(T, es[k].base_docid + 1, es[k].base_docid + es[k].num_docs)]
           flat == FlattenSeq(parts)
           b(k) == es[k].base_docid
           m(k) == es[k].num_docs
<1>1. /\ es \in Seq(ShardEntry) /\ N \in Nat
      /\ \A k \in 1..N : b(k) = UpTo(es, k - 1) /\ b(k) + m(k) <= l
  BY DEF ShardsOk
<1>2. DOMAIN es = 1..N /\ l \in Nat /\ \A k \in 1..N : b(k) \in Nat /\ m(k) \in Nat
  <2>1. \A k \in 1..N : es[k] \in ShardEntry
    BY <1>1, ElementOfSeq
  <2> QED BY <1>1, <2>1, LenProperties DEF ShardEntry
<1>3. UpTo(es, 0) = 0 /\ \A k \in 1..N : UpTo(es, k) = b(k) + m(k)
  <2>1. \A k \in 1..N : k # 0
    BY <1>1
  <2> QED BY <2>1 DEF UpTo
<1>4. UpTo(es, N) = l
  OBVIOUS
<1>5. parts = [k \in 1..N |-> Slice(T, b(k), m(k))]
  BY <1>2 DEF Slice
<1> HIDE DEF b, m, parts, N, l
<1>6. ASSUME NEW k \in 1..N
      PROVE  /\ Slice(T, b(k), m(k)) \in Seq(TextDoc)
             /\ Len(Slice(T, b(k), m(k))) = m(k)
             /\ \A i \in 1..m(k) : Slice(T, b(k), m(k))[i] = T[b(k) + i]
  <2>1. b(k) \in Nat /\ m(k) \in Nat /\ b(k) + m(k) <= Len(T)
    BY <1>1, <1>2 DEF l
  <2> QED BY <2>1, SliceCells DEF IsSlice
<1>7. parts \in [1..N -> Seq(TextDoc)] /\ \A k \in 1..N : parts[k] = Slice(T, b(k), m(k))
  BY <1>5, <1>6
<1>8. parts \in Seq(Seq(TextDoc)) /\ Len(parts) = N
  BY <1>1, <1>7, SeqOver
<1>9. flat \in Seq(TextDoc) /\ \E st : IsFlat(flat, parts, st)
  BY <1>8, Flattened
<1>10. PICK st : IsFlat(flat, parts, st)
  BY <1>9
<1> HIDE DEF flat
<1>11. /\ st \in [0..N -> Nat] /\ st[0] = 0 /\ st[N] = Len(flat)
       /\ \A k \in 1..N : st[k] = st[k - 1] + m(k) /\ st[k] <= Len(flat)
       /\ \A k \in 1..N : \A j \in 1..m(k) : flat[st[k - 1] + j] = T[b(k) + j]
  <2>1. \A k \in 1..N : Len(parts[k]) = m(k) /\ \A i \in 1..m(k) : parts[k][i] = T[b(k) + i]
    BY <1>6, <1>7
  <2>2. /\ st \in [0..N -> Nat] /\ st[0] = 0 /\ st[N] = Len(flat)
        /\ \A k \in 1..N : st[k] = st[k - 1] + Len(parts[k]) /\ st[k] <= Len(flat)
        /\ \A k \in 1..N : \A j \in 1..Len(parts[k]) : flat[st[k - 1] + j] = parts[k][j]
    BY <1>8, <1>10 DEF IsFlat
  <2>3. \A k \in 1..N : st[k] = st[k - 1] + m(k)
    BY <2>1, <2>2, SMTT(60)
  <2>4. ASSUME NEW k \in 1..N, NEW j \in 1..m(k) PROVE flat[st[k - 1] + j] = T[b(k) + j]
    BY <2>1, <2>2, SMTT(60)
  <2> QED BY <2>2, <2>3, <2>4
<1> DEFINE G == {k \in 0..N : st[k] = UpTo(es, k) /\ \A x \in 1..st[k] : flat[x] = T[x]}
<1>12. 0 \in G
  <2>1. \A x \in 1..0 : FALSE
    OBVIOUS
  <2> QED BY <1>1, <1>3, <1>11, <2>1
<1>13. ASSUME NEW k \in 1..N, k - 1 \in G PROVE k \in G
  <2>1. /\ k \in 0..N /\ k - 1 \in 0..N /\ st[k - 1] = UpTo(es, k - 1) /\ \A x \in 1..st[k - 1] : flat[x] = T[x]
        /\ st[k - 1] \in Nat
    BY <1>1, <1>11, <1>13
  <2>2. b(k) = st[k - 1] /\ st[k] = st[k - 1] + m(k) /\ m(k) \in Nat
    BY <1>1, <1>2, <1>11, <2>1
  <2>3. st[k] = UpTo(es, k)
    BY <1>3, <2>2
  <2>4. ASSUME NEW x \in 1..st[k] PROVE flat[x] = T[x]
    <3>1. CASE x <= st[k - 1]
      <4>1. x \in 1..st[k - 1]
        BY <2>1, <2>2, <3>1
      <4> QED BY <2>1, <4>1
    <3>2. CASE ~(x <= st[k - 1])
      <4> DEFINE j == x - st[k - 1]
      <4>1. j \in 1..m(k) /\ st[k - 1] + j = x /\ b(k) + j = x
        BY <2>1, <2>2, <3>2
      <4> HIDE DEF j
      <4>2. flat[st[k - 1] + j] = T[b(k) + j]
        BY <1>11, <4>1
      <4> QED BY <4>1, <4>2
    <3> QED BY <3>1, <3>2
  <2> QED BY <2>1, <2>3, <2>4
<1>14. 0..N \subseteq G
  <2> HIDE DEF G
  <2> QED BY <1>1, <1>12, <1>13, Induction
<1>15. st[N] = UpTo(es, N) /\ \A x \in 1..st[N] : flat[x] = T[x]
  <2>1. N \in 0..N
    BY <1>1
  <2>2. N \in G
    BY <1>14, <2>1
  <2> QED BY <2>2
<1>16. Len(flat) = l /\ \A x \in 1..l : flat[x] = T[x]
  BY <1>4, <1>11, <1>15
<1>17. flat \in [1..l -> TextDoc] /\ T \in [1..l -> TextDoc]
  BY <1>9, <1>16, LenProperties DEF l
<1>18. flat = T
  BY <1>2, <1>16, <1>17, SameCells
<1> QED BY <1>18 DEF flat, parts

\* A content query is answered shard by shard, each by a scan of its texts.
LEMMA QueryShards ==
    ASSUME NEW es, NEW ss, NEW T, NEW h, ShardsOk(es, ss, T, h), NEW q \in Covered, NEW limit \in Limits
    PROVE  ContentQuery(h, ss, q, limit)
             = FlattenSeq([k \in DOMAIN ss |->
                   Shown(TextHits(SubSeq(T, es[k].base_docid + 1, es[k].base_docid + es[k].num_docs), q, limit))])
<1>1. DOMAIN ss = 1..Len(es)
  BY DEF ShardsOk, IsCells
<1>2. ASSUME NEW k \in DOMAIN ss
      PROVE  ShardHits(h, ss[k], q, limit)
                = Shown(TextHits(SubSeq(T, es[k].base_docid + 1, es[k].base_docid + es[k].num_docs), q, limit))
  <2> DEFINE docs == Slice(T, es[k].base_docid, es[k].num_docs)
  <2>1. ShardAnswers(h, ss[k], docs)
    BY <1>1 DEF ShardsOk
  <2>2. docs = SubSeq(T, es[k].base_docid + 1, es[k].base_docid + es[k].num_docs)
    BY DEF Slice
  <2> HIDE DEF docs
  <2>3. ShardHits(h, ss[k], q, limit) = Shown(TextHits(docs, q, limit))
    BY <2>1 DEF ShardAnswers
  <2> QED BY <2>2, <2>3
<1>3. ContentQuery(h, ss, q, limit) = FlattenSeq([k \in DOMAIN ss |-> ShardHits(h, ss[k], q, limit)])
  BY DEF ContentQuery, ShardHits
<1>4. [k \in DOMAIN ss |-> ShardHits(h, ss[k], q, limit)]
        = [k \in DOMAIN ss |->
              Shown(TextHits(SubSeq(T, es[k].base_docid + 1, es[k].base_docid + es[k].num_docs), q, limit))]
  BY <1>2
<1> QED BY <1>3, <1>4

\* The MANIFEST of a list of shards reads back whole, and is refused when cut short.
LEMMA ManifestReads ==
    ASSUME NEW es \in Seq(ShardEntry), \A k \in 1..Len(es) : es[k].file = <<es[k].shard_id>>,
           NEW t \in Nat, NEW total \in Nat
    PROVE  LET m == [build_time |-> t, total |-> total, shards |-> es]
               enc == ManifestEncode(m)
           IN  /\ ManifestDecode(enc) = m
               /\ \A n \in 0..(Len(enc) - 1) : ManifestDecode(SubSeq(enc, 1, n)) = NoValue
<1> DEFINE m == [build_time |-> t, total |-> total, shards |-> es]
           enc == ManifestEncode(m)
<1>1. IsManifest(enc, t, total, es)
  BY ManifestLayout
<1> HIDE DEF enc
<1>2. enc \in Seq(Nat) /\ Len(enc) \in Nat
  BY <1>1, LenProperties DEF IsManifest
<1>3. IsCutOf(enc, enc)
  BY <1>2 DEF IsCutOf
<1>4. ManifestDecode(enc) = m
  BY <1>1, <1>3, ManifestRead
<1>5. ASSUME NEW n \in 0..(Len(enc) - 1) PROVE ManifestDecode(SubSeq(enc, 1, n)) = NoValue
  <2> DEFINE bytes == SubSeq(enc, 1, n)
             z == 0
             s == Slice(enc, z, n)
  <2>1. n \in Nat /\ z \in Nat /\ z + n <= Len(enc) /\ n # Len(enc) /\ n <= Len(enc)
    BY <1>2
  <2>2. bytes = s
    <3>1. z + 1 = 1 /\ z + n = n
      BY <2>1
    <3> HIDE DEF z
    <3> QED BY <3>1 DEF Slice
  <2>3. \A i \in 1..n : z + i = i
    BY <2>1
  <2> HIDE DEF z
  <2>4. s \in Seq(Nat) /\ Len(s) = n /\ \A i \in 1..n : s[i] = enc[z + i]
    <3> HIDE DEF bytes
    <3>1. Slice(enc, z, n) \in Seq(Nat) /\ IsSlice(Slice(enc, z, n), enc, z, n)
      BY <1>2, <2>1, SliceCells
    <3> QED BY <3>1 DEF IsSlice
  <2> HIDE DEF s, bytes
  <2>5. IsCutOf(bytes, enc)
    BY <2>1, <2>2, <2>3, <2>4 DEF IsCutOf
  <2>6. Len(bytes) # Len(enc)
    BY <2>1, <2>2, <2>4
  <2>7. ManifestDecode(bytes) = NoValue
    BY <1>1, <2>5, <2>6, ManifestRead
  <2> QED BY <2>7 DEF bytes
<1> QED BY <1>4, <1>5 DEF enc

\* The readers change none of the files.
LEMMA ReaderShards ==
    ASSUME ShardInv, UNCHANGED <<hash, recs, shard, shards, entries, file>>
    PROVE  ShardInv'
<1>1. /\ hash' = hash /\ recs' = recs /\ shard' = shard /\ shards' = shards
      /\ entries' = entries /\ file' = file
  OBVIOUS
<1>2. Texts' = Texts
  BY <1>1 DEF Texts
<1> QED BY <1>1, <1>2 DEF ShardInv

\* Every step keeps the shards right.
LEMMA NextShards == IInv /\ ShardInv /\ [Next]_vars => ShardInv'
<1> SUFFICES ASSUME IInv, ShardInv, [Next]_vars PROVE ShardInv'
  OBVIOUS
<1>1. ASSUME NEW d \in Doc, Receive(d) PROVE ShardInv'
  BY <1>1, ReceiveShards
<1>2. CASE Finish
  BY <1>2, FinishShards
<1>3. ASSUME NEW t \in Thread, NEW docid \in 0..Len(recs), DocPathRange(t, docid) PROVE ShardInv'
  <2>1. UNCHANGED <<hash, recs, shard, shards, entries, file>>
    BY <1>3 DEF DocPathRange
  <2> QED BY <2>1, ReaderShards
<1>4. ASSUME NEW t \in Thread, NEW docid \in 0..Len(recs), DocPathHit(t, docid) PROVE ShardInv'
  <2>1. UNCHANGED <<hash, recs, shard, shards, entries, file>>
    BY <1>4 DEF DocPathHit
  <2> QED BY <2>1, ReaderShards
<1>5. ASSUME NEW t \in Thread, NEW docid \in 0..Len(recs), DocPathMiss(t, docid) PROVE ShardInv'
  <2>1. UNCHANGED <<hash, recs, shard, shards, entries, file>>
    BY <1>5 DEF DocPathMiss
  <2> QED BY <2>1, ReaderShards
<1>6. ASSUME NEW t \in Thread, DocPathStore(t) PROVE ShardInv'
  <2>1. UNCHANGED <<hash, recs, shard, shards, entries, file>>
    BY <1>6 DEF DocPathStore
  <2> QED BY <2>1, ReaderShards
<1>7. CASE UNCHANGED vars
  <2>1. UNCHANGED <<hash, recs, shard, shards, entries, file>>
    BY <1>7, SMTT(60) DEF vars
  <2> QED BY <2>1, ReaderShards
<1> QED BY <1>1, <1>2, <1>3, <1>4, <1>5, <1>6, <1>7 DEF Next

\* Once the files are written, the shards and the MANIFEST answer exactly.
LEMMA ContentAnswers ==
    ASSUME IInv, ShardInv, file # NoFile
    PROVE  ContentQueryExact
<1> DEFINE T == Kept(recs, TextDoc)
           m == [build_time |-> BuildTime, total |-> Len(T), shards |-> entries]
<1>1. ShardsOk(entries, shards, T, hash) /\ UpTo(entries, Len(entries)) = Len(T)
  BY DEF ShardInv, Texts
<1>2. T \in Seq(TextDoc)
  BY TextsFit DEF IInv, BuilderInv
<1> HIDE DEF T
<1>3. FlattenSeq([k \in DOMAIN entries |->
          SubSeq(T, entries[k].base_docid + 1, entries[k].base_docid + entries[k].num_docs)]) = T
  BY <1>1, <1>2, PartsFlatten
<1>4. ASSUME NEW q \in Covered, NEW limit \in Limits
      PROVE  ContentQuery(hash, shards, q, limit)
               = FlattenSeq([k \in DOMAIN shards |->
                     Shown(TextHits(SubSeq(T, entries[k].base_docid + 1,
                                           entries[k].base_docid + entries[k].num_docs), q, limit))])
  BY <1>1, QueryShards
<1>5. /\ ManifestDecode(ManifestEncode(m)) = m
      /\ \A n \in 0..(Len(ManifestEncode(m)) - 1) : ManifestDecode(SubSeq(ManifestEncode(m), 1, n)) = NoValue
  <2> DEFINE t == BuildTime
             total == Len(T)
  <2>1. t \in Nat /\ total \in Nat
    BY <1>2, LenProperties DEF BuildTime
  <2>2. entries \in Seq(ShardEntry) /\ \A k \in 1..Len(entries) : entries[k].file = <<entries[k].shard_id>>
    BY <1>1 DEF ShardsOk
  <2> HIDE DEF t, total
  <2> QED BY <2>1, <2>2, ManifestReads DEF t, total
<1>6. ASSUME NEW q \in Covered, NEW limit \in Limits
      PROVE  LET part(k) == SubSeq(T, entries[k].base_docid + 1, entries[k].base_docid + entries[k].num_docs)
                 hits(s) == Truncated(Kept(s, {r \in TextDoc : cs_verify(r.content, q)}), limit)
                 shown(s) == [i \in DOMAIN s |-> [path |-> s[i].path, meta |-> s[i].meta]]
             IN  ContentQuery(hash, shards, q, limit) = FlattenSeq([k \in DOMAIN shards |-> shown(hits(part(k)))])
  BY <1>4 DEF Shown, TextHits
<1> QED BY <1>3, <1>5, <1>6 DEF ContentQueryExact, Covered, T

\* The builder of the content shards cuts the records that have a text
\* into consecutive shards: those written answer for the first texts, and
\* the open one holds the rest until the files are finished.
THEOREM ShardsInvariant == Spec => []ShardInv
<1>1. Init => IInv /\ ShardInv
  BY InitIInv, InitShardInv
<1>2. (IInv /\ ShardInv) /\ [Next]_vars => (IInv /\ ShardInv)'
  BY NextIInv, NextShards
<1> QED BY <1>1, <1>2, PTL DEF Spec

\* A content query over the shard files answers as a scan of the texts would,
\* shard by shard up to the limit, with the path and metadata of each hit: for
\* every needle when case is ignored, and in an exact search for one whose
\* folded form is fold(original), which excludes non-ASCII capitals (handle_conn
\* lowercases them).  The shards together hold every text once, in order; and the
\* MANIFEST written beside them reads back whole, and is refused when it
\* is cut short at any cell.
THEOREM ContentQueries == Spec => []ContentQueryExact
<1>1. IInv /\ ShardInv => ContentQueryExact
  <2>1. ASSUME IInv, ShardInv, file # NoFile PROVE ContentQueryExact
    BY <2>1, ContentAnswers
  <2>2. ASSUME file = NoFile PROVE ContentQueryExact
    BY <2>2 DEF ContentQueryExact, JustBuilt
  <2> QED BY <2>1, <2>2
<1> QED BY <1>1, FilesInvariant, ShardsInvariant, PTL

------------------------------
(* Boolean queries *)

\* Every turn of F looks only at what the earlier ones made.
LooksBack(F, n, X) ==
    \A i \in 1..n : \A s, t \in [1..n -> X] :
        (\A j \in 1..(i - 1) : s[j] = t[j]) => F[i][s] = F[i][t]

\* g is made by the turns of F from its own values.
IsFixed(g, F, n, X) == g \in [1..n -> X] /\ \A i \in 1..n : g[i] = F[i][g]

\* A function of 1..n may be defined from its own earlier values.
LEMMA CourseOfValues ==
    ASSUME NEW n \in Nat, NEW X, NEW x0 \in X, NEW F \in [1..n -> [[1..n -> X] -> X]], LooksBack(F, n, X)
    PROVE  \E g : IsFixed(g, F, n, X)
<1> DEFINE Y == [1..n -> X]
           s0 == [i \in 1..n |-> x0]
           Put(i, s) == [j \in 1..n |-> IF j = i THEN F[i][s] ELSE s[j]]
           H == [i \in 1..n |-> [s \in Y |-> Put(i, s)]]
<1>1. s0 \in Y
  OBVIOUS
<1>2. ASSUME NEW i \in 1..n, NEW s \in Y
      PROVE  Put(i, s) \in Y /\ \A j \in 1..n : Put(i, s)[j] = IF j = i THEN F[i][s] ELSE s[j]
  <2>1. F[i][s] \in X
    OBVIOUS
  <2> QED BY <2>1
<1> HIDE DEF Put, s0
<1>3. H \in [1..n -> [Y -> Y]] /\ \A i \in 1..n, s \in Y : H[i][s] = Put(i, s)
  <2> HIDE DEF Y
  <2> QED BY <1>2
<1> HIDE DEF H
<1>4. PICK g : Run(g, n, Y, s0, H)
  <2> HIDE DEF Y
  <2> QED BY <1>1, <1>3, Recursion
<1>5. g \in [0..n -> Y] /\ \A i \in 1..n : g[i] = H[i][g[i - 1]]
  <2> HIDE DEF Y
  <2> QED BY <1>4 DEF Run
<1>6. ASSUME NEW i \in 1..n
      PROVE  /\ g[i] \in Y /\ g[i - 1] \in Y
             /\ \A j \in 1..n : g[i][j] = IF j = i THEN F[i][g[i - 1]] ELSE g[i - 1][j]
  <2>1. i \in 0..n /\ i - 1 \in 0..n
    OBVIOUS
  <2>2. g[i] \in Y /\ g[i - 1] \in Y
    <3> HIDE DEF Y
    <3> QED BY <1>5, <2>1
  <2>3. g[i] = Put(i, g[i - 1])
    <3> HIDE DEF Y
    <3> QED BY <1>3, <1>5, <2>2
  <2>4. \A j \in 1..n : Put(i, g[i - 1])[j] = IF j = i THEN F[i][g[i - 1]] ELSE g[i - 1][j]
    <3> DEFINE s == g[i - 1]
    <3>1. s \in Y
      BY <2>2
    <3> HIDE DEF s, Y
    <3>2. \A j \in 1..n : Put(i, s)[j] = IF j = i THEN F[i][s] ELSE s[j]
      BY <1>2, <3>1
    <3> QED BY <3>2 DEF s
  <2> HIDE DEF Y
  <2> QED BY <2>2, <2>3, <2>4
<1> DEFINE G == {k \in 0..n : \A j \in 1..k : g[k][j] = F[j][g[k]]}
<1>7. 0 \in G
  OBVIOUS
<1>8. ASSUME NEW k \in 1..n, k - 1 \in G PROVE k \in G
  <2> DEFINE s == g[k - 1]
             t == g[k]
  <2>1. s \in Y /\ t \in Y /\ \A j \in 1..n : t[j] = IF j = k THEN F[k][s] ELSE s[j]
    BY <1>6
  <2>2. \A j \in 1..(k - 1) : s[j] = F[j][s]
    BY <1>8
  <2> HIDE DEF s, t
  <2>3. \A j \in 1..(k - 1) : j \in 1..n /\ j # k /\ t[j] = s[j]
    BY <2>1
  <2>4. ASSUME NEW j \in 1..k PROVE t[j] = F[j][t]
    <3>1. j \in 1..n /\ \A x \in 1..(j - 1) : x \in 1..(k - 1)
      OBVIOUS
    <3>2. \A x \in 1..(j - 1) : s[x] = t[x]
      BY <2>3, <3>1
    <3>3. F[j][s] = F[j][t]
      BY <2>1, <3>1, <3>2 DEF LooksBack
    <3>4. CASE j = k
      BY <2>1, <3>1, <3>3, <3>4
    <3>5. CASE j # k
      <4>1. j \in 1..(k - 1)
        BY <3>5
      <4> QED BY <2>2, <2>3, <3>3, <4>1
    <3> QED BY <3>4, <3>5
  <2>5. k \in 0..n
    OBVIOUS
  <2> QED BY <2>4, <2>5 DEF t
<1>9. 0..n \subseteq G
  <2> HIDE DEF G
  <2> QED BY <1>7, <1>8, Induction
<1>10. n \in 0..n /\ g[n] \in Y
  <2>1. n \in 0..n
    OBVIOUS
  <2> HIDE DEF Y
  <2> QED BY <1>5, <2>1
<1>11. \A i \in 1..n : g[n][i] = F[i][g[n]]
  BY <1>9, <1>10
<1>12. IsFixed(g[n], F, n, X)
  BY <1>10, <1>11 DEF IsFixed
<1> HIDE DEF Y
<1> QED BY <1>12

\* A set of docids in ascending order is a posting list.
LEMMA AscendingPosting ==
    ASSUME NEW n \in Nat, NEW D \in SUBSET (0..(n - 1))
    PROVE  IsPosting(Ascending(D), n) /\ \A d : InPosting(Ascending(D), d) <=> d \in D
<1> DEFINE c == Cardinality(D)
           a == Ascending(D)
           r(x) == Cardinality(Below(NatOrder, D, x))
<1>1. D \in SUBSET Nat /\ IsFiniteSet(D)
  <2>1. IsFiniteSet(0..(n - 1))
    BY FS_Interval
  <2>2. IsFiniteSet(D)
    BY <2>1, FS_Subset
  <2> QED BY <2>2
<1>2. c \in Nat
  BY <1>1, FS_CardinalityType
<1>3. a \in [1..c -> D] /\ \A t \in D : \E i \in 1..c : a[i] = t
  BY <1>1, AscendingOnce
<1>4. /\ \A x, y \in D : x < y => r(x) < r(y)
      /\ \A k \in 1..c : \E x \in D : r(x) = k - 1
      /\ \A x \in D : r(x) \in 0..(c - 1)
  <2>1. StrictOrder(NatOrder, D)
    BY <1>1 DEF StrictOrder, NatOrder
  <2>2. IsRanked(NatOrder, D)
    BY <1>1, <2>1, Ranks
  <2>3. \A x, y \in D : x < y => <<x, y>> \in NatOrder
    BY <1>1 DEF NatOrder
  <2> QED BY <2>2, <2>3 DEF IsRanked
<1>5. \A t \in D : {j \in D : j < t} = Below(NatOrder, D, t)
  BY <1>1 DEF NatOrder, Below
<1>6. ASSUME NEW k \in 1..c PROVE r(a[k]) = k - 1
  <2> DEFINE e(i) == CHOOSE t \in D : Cardinality({j \in D : j < t}) = i - 1
  <2>1. a = [i \in 1..c |-> e(i)]
    BY DEF Ascending
  <2>2. \E t \in D : Cardinality({j \in D : j < t}) = k - 1
    BY <1>4, <1>5
  <2>3. e(k) \in D /\ Cardinality({j \in D : j < e(k)}) = k - 1
    BY <2>2
  <2>4. a[k] = e(k)
    <3> HIDE DEF e, a
    <3> QED BY <2>1
  <2> HIDE DEF e
  <2> QED BY <1>5, <2>3, <2>4
<1> HIDE DEF a, c, r
<1>7. a \in Seq(Nat) /\ Len(a) = c
  <2>1. a \in [1..c -> Nat]
    BY <1>1, <1>3
  <2> QED BY <1>2, <2>1, SeqOver
<1>8. \A i \in 1..c : a[i] \in D /\ a[i] \in Nat /\ a[i] < n
  <2>1. \A x \in D : x \in Nat /\ x < n
    OBVIOUS
  <2>2. \A i \in 1..c : a[i] \in D
    BY <1>3
  <2> QED BY <2>1, <2>2
<1>9. ASSUME NEW i \in 1..c, NEW j \in 1..c, i < j PROVE a[i] < a[j]
  <2> SUFFICES ASSUME ~(a[i] < a[j]) PROVE FALSE
    OBVIOUS
  <2>1. r(a[i]) = i - 1 /\ r(a[j]) = j - 1 /\ a[i] \in D /\ a[j] \in D /\ a[i] \in Nat /\ a[j] \in Nat
    BY <1>6, <1>8
  <2>2. CASE a[i] = a[j]
    BY <1>2, <1>9, <2>1, <2>2
  <2>3. CASE a[j] < a[i]
    <3>1. r(a[j]) < r(a[i])
      BY <1>4, <2>1, <2>3
    <3> QED BY <1>2, <1>9, <2>1, <3>1
  <2> QED BY <2>1, <2>2, <2>3
<1>10. IsPosting(a, n)
  BY <1>7, <1>8, <1>9 DEF IsPosting
<1>11. \A d : InPosting(a, d) <=> d \in D
  BY <1>3, <1>7, <1>8 DEF InPosting
<1> QED BY <1>10, <1>11 DEF a

\* The docids a term stands for.
TermSet(rs, q) == {d \in 0..(Len(rs) - 1) : q.original # <<>> /\ PathMatches(rs[d + 1].path, q)}

\* term_docids finds them.
LEMMA TermAnswers ==
    ASSUME IInv, file # NoFile, NEW q \in Queries
    PROVE  term_docids(hash, file, Reader, q) = TermSet(recs, q)
<1> DEFINE n == Len(recs)
           S == {d \in 0..(n - 1) : PathMatches(recs[d + 1].path, q)}
           all == AllDocids(n)
           p == Kept(all, S)
           limit == NoValue
<1>1. n \in Nat
  BY LenProperties DEF IInv, BuilderInv
<1>2. single_docids(hash, file, Reader, q, limit) = Truncated(Matching(recs, LAMBDA r : PathMatches(r.path, q)), limit)
  <2> HIDE DEF limit
  <2> QED BY QueryAnswers
<1>3. single_docids(hash, file, Reader, q, NoValue) = p
  BY <1>2 DEF Truncated, Matching
<1> HIDE DEF n, S
<1>4. IsPosting(all, n) /\ \A d : InPosting(all, d) <=> d \in 0..(n - 1)
  <2>1. IsPosting(all, n) /\ \A d \in 0..(n - 1) : InPosting(all, d)
    BY <1>1, AllDocidsPosting
  <2>2. ASSUME NEW d, InPosting(all, d) PROVE d \in 0..(n - 1)
    <3>1. PICK i \in 1..Len(all) : all[i] = d
      BY <2>2 DEF InPosting
    <3>2. all[i] < n /\ all[i] \in Nat
      BY <2>1, ElementOfSeq DEF IsPosting
    <3> QED BY <1>1, <3>1, <3>2
  <2> QED BY <2>1, <2>2
<1> HIDE DEF all
<1>5. IsPosting(p, n) /\ \A d : InPosting(p, d) <=> (d \in 0..(n - 1) /\ d \in S)
  BY <1>1, <1>4, KeptPosting
<1> HIDE DEF p
<1>6. ToSet(p) = S
  <2>1. p \in Seq(Nat) /\ DOMAIN p = 1..Len(p)
    BY <1>5, LenProperties DEF IsPosting
  <2>2. ToSet(p) = {p[i] : i \in 1..Len(p)}
    BY <2>1 DEF ToSet
  <2>3. \A d : d \in ToSet(p) <=> InPosting(p, d)
    BY <2>2 DEF InPosting
  <2>4. \A d : d \in S => d \in 0..(n - 1)
    BY DEF S
  <2> QED BY <1>5, <2>3, <2>4
<1>7. CASE q.original = <<>>
  BY <1>7 DEF term_docids, TermSet
<1>8. CASE q.original # <<>>
  <2>1. term_docids(hash, file, Reader, q) = S
    BY <1>3, <1>6, <1>8 DEF term_docids
  <2>2. TermSet(recs, q) = S
    BY <1>8 DEF TermSet, S, n
  <2> QED BY <2>1, <2>2
<1> QED BY <1>7, <1>8

\* v gives every node of f its docids.
IsDocids(v, f, rs) ==
    LET U == 0..(Len(rs) - 1)
    IN  \A i \in 1..Len(f) :
            /\ v[i] \in SUBSET U
            /\ f[i].op = "Term" => v[i] = TermSet(rs, f[i].term)
            /\ f[i].op = "Not"  => v[i] = U \ v[f[i].left]
            /\ f[i].op = "And"  => v[i] = v[f[i].left] \cap v[f[i].right]
            /\ f[i].op = "Or"   => v[i] = v[f[i].left] \cup v[f[i].right]

\* evaluate gives every node its docids, operands before the nodes that combine them.
LEMMA FormulaDocids ==
    ASSUME IInv, file # NoFile, NEW f, IsFormula(f)
    PROVE  \E v : IsDocids(v, f, recs) /\ evaluate(hash, file, Reader, f) = v[Len(f)]
<1> DEFINE n == Len(f)
           U == 0..(Len(recs) - 1)
           X == SUBSET U
           L(i) == term_docids(hash, file, Reader, f[i].term)
           Val(i, s) == IF f[i].op = "Term" THEN TermSet(recs, f[i].term)
                        ELSE IF f[i].op = "Not" THEN U \ s[f[i].left]
                        ELSE IF f[i].op = "And" THEN s[f[i].left] \cap s[f[i].right]
                        ELSE s[f[i].left] \cup s[f[i].right]
           F == [i \in 1..n |-> [s \in [1..n -> X] |-> Val(i, s)]]
           B(c, i) == IF f[i].op = "Term" THEN term_docids(hash, file, Reader, f[i].term)
                      ELSE IF f[i].op = "Not" THEN Universe(Reader) \ c[f[i].left]
                      ELSE IF f[i].op = "And" THEN c[f[i].left] \cap c[f[i].right]
                      ELSE c[f[i].left] \cup c[f[i].right]
           E(c) == [i \in 1..n |-> B(c, i)]
           v == CHOOSE c : c = E(c)
<1>1. /\ n \in Nat \ {0}
      /\ \A i \in 1..n :
            \/ f[i].op = "Term" /\ f[i].term \in Queries
            \/ f[i].op = "Not" /\ f[i].left \in 1..(i - 1)
            \/ f[i].op \in {"And", "Or"} /\ f[i].left \in 1..(i - 1) /\ f[i].right \in 1..(i - 1)
  BY DEF IsFormula
<1>2. Universe(Reader) = U
  <2>1. Reader.num_docs = Len(recs)
    BY FileOpens DEF IInv, BuilderInv, IsBuilder, IsReader
  <2> QED BY <2>1 DEF Universe
<1>3. evaluate(hash, file, Reader, f) = v[n]
  BY DEF evaluate
<1> HIDE DEF n, U
<1>4. \A i \in 1..n : f[i].op = "Term" => L(i) = TermSet(recs, f[i].term)
  <2>1. ASSUME NEW i \in 1..n, f[i].op = "Term" PROVE f[i].term \in Queries
    BY <1>1, <2>1
  <2> QED BY <2>1, TermAnswers
<1>5. \A i \in 1..n : TermSet(recs, f[i].term) \in X
  BY DEF TermSet, U
<1>6. ASSUME NEW i \in 1..n
      PROVE  /\ i - 1 \in Nat /\ i \in Nat
             /\ f[i].op = "Term" \/ f[i].op = "Not" \/ f[i].op = "And" \/ f[i].op = "Or"
             /\ f[i].op # "Term" => f[i].left \in 1..(i - 1)
             /\ f[i].op = "And" \/ f[i].op = "Or" => f[i].right \in 1..(i - 1)
  BY <1>1
<1>7. ASSUME NEW c, NEW i \in 1..n PROVE B(c, i) = Val(i, c)
  <2>1. CASE f[i].op = "Term"
    BY <1>4, <2>1
  <2>2. CASE f[i].op = "Not"
    BY <1>2, <2>2
  <2>3. CASE f[i].op = "And"
    BY <2>3
  <2>4. CASE f[i].op = "Or"
    BY <2>4
  <2> QED BY <1>6, <2>1, <2>2, <2>3, <2>4
<1> HIDE DEF B
<1>8. ASSUME NEW c PROVE \A i \in 1..n : E(c)[i] = Val(i, c)
  <2> HIDE DEF Val
  <2> QED BY <1>7
<1>9. ASSUME NEW c, NEW h \in [1..n -> X], \A i \in 1..n : h[i] = Val(i, c) PROVE h = E(c)
  <2> HIDE DEF Val, X
  <2>1. \A i \in 1..n : h[i] = B(c, i)
    BY <1>7, <1>9
  <2>2. h = [i \in 1..n |-> h[i]]
    OBVIOUS
  <2> QED BY <2>1, <2>2
<1> HIDE DEF E
<1>10. ASSUME NEW i \in 1..n, NEW s \in [1..n -> X] PROVE Val(i, s) \in X
  <2>1. \A j \in 1..(i - 1) : s[j] \in X
    BY <1>1, <1>6
  <2>2. CASE f[i].op = "Term"
    BY <1>5, <2>2
  <2>3. CASE f[i].op = "Not"
    BY <2>3
  <2>4. CASE f[i].op = "And" \/ f[i].op = "Or"
    <3>1. s[f[i].left] \in X /\ s[f[i].right] \in X
      BY <1>6, <2>1, <2>4
    <3> QED BY <2>4, <3>1
  <2> QED BY <1>6, <2>2, <2>3, <2>4
<1>11. F \in [1..n -> [[1..n -> X] -> X]] /\ \A i \in 1..n, s \in [1..n -> X] : F[i][s] = Val(i, s)
  <2> HIDE DEF X, Val
  <2> QED BY <1>10
<1>12. ASSUME NEW i \in 1..n, NEW s, NEW t, \A j \in 1..(i - 1) : s[j] = t[j] PROVE Val(i, s) = Val(i, t)
  BY <1>6, <1>12
<1> HIDE DEF F, Val
<1>13. LooksBack(F, n, X)
  <2> HIDE DEF X
  <2>1. ASSUME NEW i \in 1..n, NEW s \in [1..n -> X], NEW t \in [1..n -> X], \A j \in 1..(i - 1) : s[j] = t[j]
        PROVE  F[i][s] = F[i][t]
    <3>1. Val(i, s) = Val(i, t)
      BY <1>12, <2>1
    <3> QED BY <1>11, <3>1
  <2> QED BY <2>1 DEF LooksBack
<1>14. PICK g : IsFixed(g, F, n, X)
  <2> DEFINE x0 == {}
  <2>1. x0 \in X /\ n \in Nat
    BY <1>1
  <2> HIDE DEF X, x0
  <2> QED BY <1>11, <1>13, <2>1, CourseOfValues
<1>15. g = E(g)
  <2> HIDE DEF X
  <2>1. g \in [1..n -> X] /\ \A i \in 1..n : g[i] = Val(i, g)
    BY <1>11, <1>14 DEF IsFixed
  <2> QED BY <1>9, <2>1
<1>16. v = E(v)
  BY <1>15, SMTT(60)
<1> HIDE DEF v
<1>17. \A i \in 1..n : v[i] = Val(i, v)
  BY <1>8, <1>16
<1> DEFINE G == {k \in 0..n : \A j \in 1..k : v[j] \in X}
<1>18. 0 \in G
  BY <1>1
<1>19. ASSUME NEW k \in 1..n, k - 1 \in G PROVE k \in G
  <2>1. \A j \in 1..(k - 1) : v[j] \in X
    BY <1>19
  <2>2. v[k] \in X
    <3>1. v[k] = Val(k, v)
      BY <1>17
    <3>2. CASE f[k].op = "Term"
      BY <1>5, <3>1, <3>2 DEF Val
    <3>3. CASE f[k].op = "Not"
      BY <3>1, <3>3 DEF Val
    <3>4. CASE f[k].op = "And" \/ f[k].op = "Or"
      <4>1. v[f[k].left] \in X /\ v[f[k].right] \in X
        BY <1>6, <2>1, <3>4
      <4> QED BY <3>1, <3>4, <4>1 DEF Val
    <3> QED BY <1>6, <3>2, <3>3, <3>4
  <2>3. \A j \in 1..k : j = k \/ j \in 1..(k - 1)
    BY <1>1
  <2>4. k \in 0..n
    BY <1>1
  <2> QED BY <2>1, <2>2, <2>3, <2>4
<1>20. \A j \in 1..n : v[j] \in X
  <2>1. 0..n \subseteq G
    <3> HIDE DEF G
    <3> QED BY <1>1, <1>18, <1>19, Induction
  <2>2. n \in 0..n
    BY <1>1
  <2> QED BY <2>1, <2>2
<1>21. IsDocids(v, f, recs)
  BY <1>17, <1>20 DEF IsDocids, Val, U, n
<1> QED BY <1>3, <1>21 DEF n

\* A docid is among a formula's exactly if its record satisfies the formula.
LEMMA DocidsAreTrue ==
    ASSUME NEW f, IsFormula(f), NEW rs, NEW v, IsDocids(v, f, rs), NEW d \in 0..(Len(rs) - 1)
    PROVE  Satisfies(rs[d + 1], f) <=> d \in v[Len(f)]
<1> DEFINE n == Len(f)
           r == rs[d + 1]
           U == 0..(Len(rs) - 1)
           S0 == {i \in 1..n : d \in v[i]}
           Hit(i) == f[i].term.original # <<>> /\ PathMatches(r.path, f[i].term)
<1>1. /\ n \in Nat \ {0}
      /\ \A i \in 1..n :
            \/ f[i].op = "Term"
            \/ f[i].op = "Not" /\ f[i].left \in 1..(i - 1)
            \/ (f[i].op = "And" \/ f[i].op = "Or") /\ f[i].left \in 1..(i - 1) /\ f[i].right \in 1..(i - 1)
  BY DEF IsFormula
<1>2. ASSUME NEW i \in 1..n
      PROVE  /\ f[i].op = "Term" => (d \in v[i] <=> Hit(i))
             /\ f[i].op = "Not"  => (d \in v[i] <=> d \notin v[f[i].left])
             /\ f[i].op = "And"  => (d \in v[i] <=> d \in v[f[i].left] /\ d \in v[f[i].right])
             /\ f[i].op = "Or"   => (d \in v[i] <=> d \in v[f[i].left] \/ d \in v[f[i].right])
  <2>1. /\ f[i].op = "Term" => v[i] = TermSet(rs, f[i].term)
        /\ f[i].op = "Not"  => v[i] = U \ v[f[i].left]
        /\ f[i].op = "And"  => v[i] = v[f[i].left] \cap v[f[i].right]
        /\ f[i].op = "Or"   => v[i] = v[f[i].left] \cup v[f[i].right]
    BY DEF IsDocids
  <2>2. d \in TermSet(rs, f[i].term) <=> Hit(i)
    BY DEF TermSet
  <2> HIDE DEF Hit
  <2> QED BY <2>1, <2>2
<1>3. \A i \in 1..n : f[i].op # "Term" => f[i].left \in 1..n
  BY <1>1
<1>4. \A i \in 1..n : f[i].op = "And" \/ f[i].op = "Or" => f[i].right \in 1..n
  BY <1>1
<1> HIDE DEF r, U, n
<1>5. IsModel(S0, f, r)
  <2>1. ASSUME NEW i \in 1..n
        PROVE  /\ f[i].op = "Term" => (i \in S0 <=> Hit(i))
               /\ f[i].op = "Not"  => (i \in S0 <=> f[i].left \notin S0)
               /\ f[i].op = "And"  => (i \in S0 <=> f[i].left \in S0 /\ f[i].right \in S0)
               /\ f[i].op = "Or"   => (i \in S0 <=> f[i].left \in S0 \/ f[i].right \in S0)
    <3> HIDE DEF Hit
    <3>1. CASE f[i].op = "Term"
      BY <1>2, <3>1
    <3>2. CASE f[i].op = "Not"
      BY <1>2, <1>3, <3>2
    <3>3. CASE f[i].op = "And"
      BY <1>2, <1>3, <1>4, <3>3
    <3>4. CASE f[i].op = "Or"
      BY <1>2, <1>3, <1>4, <3>4
    <3> QED BY <1>1, <3>1, <3>2, <3>3, <3>4, SMTT(60)
  <2> HIDE DEF S0
  <2> QED BY <2>1 DEF IsModel, n
<1>6. ASSUME NEW S, IsModel(S, f, r) PROVE n \in S <=> d \in v[n]
  <2> DEFINE G == {k \in 0..n : \A j \in 1..k : j \in S <=> d \in v[j]}
  <2>1. ASSUME NEW i \in 1..n
        PROVE  /\ f[i].op = "Term" => (i \in S <=> Hit(i))
               /\ f[i].op = "Not"  => (i \in S <=> f[i].left \notin S)
               /\ f[i].op = "And"  => (i \in S <=> f[i].left \in S /\ f[i].right \in S)
               /\ f[i].op = "Or"   => (i \in S <=> f[i].left \in S \/ f[i].right \in S)
    BY <1>6 DEF IsModel, n
  <2>2. 0 \in G
    BY <1>1
  <2>3. ASSUME NEW k \in 1..n, k - 1 \in G PROVE k \in G
    <3> HIDE DEF Hit
    <3>1. \A j \in 1..(k - 1) : j \in S <=> d \in v[j]
      BY <2>3
    <3>2. CASE f[k].op = "Term"
      <4>1. k \in S <=> d \in v[k]
        BY <1>2, <2>1, <3>2
      <4> QED BY <1>1, <3>1, <4>1
    <3>3. CASE f[k].op = "Not"
      <4>1. f[k].left \in 1..(k - 1)
        BY <1>1, <3>3
      <4>2. k \in S <=> d \in v[k]
        BY <1>2, <2>1, <3>1, <3>3, <4>1
      <4> QED BY <1>1, <3>1, <4>2
    <3>4. CASE f[k].op = "And"
      <4>1. f[k].left \in 1..(k - 1) /\ f[k].right \in 1..(k - 1)
        BY <1>1, <3>4
      <4>2. k \in S <=> d \in v[k]
        BY <1>2, <2>1, <3>1, <3>4, <4>1
      <4> QED BY <1>1, <3>1, <4>2
    <3>5. CASE f[k].op = "Or"
      <4>1. f[k].left \in 1..(k - 1) /\ f[k].right \in 1..(k - 1)
        BY <1>1, <3>5
      <4>2. k \in S <=> d \in v[k]
        BY <1>2, <2>1, <3>1, <3>5, <4>1
      <4> QED BY <1>1, <3>1, <4>2
    <3> HIDE DEF G
    <3> QED BY <1>1, <3>2, <3>3, <3>4, <3>5
  <2>4. 0..n \subseteq G
    <3> HIDE DEF G
    <3> QED BY <1>1, <2>2, <2>3, Induction
  <2>5. n \in 0..n /\ n \in 1..n
    BY <1>1
  <2> QED BY <2>4, <2>5
<1>7. ASSUME Satisfies(r, f) PROVE d \in v[n]
  <2>1. PICK S : IsModel(S, f, r) /\ n \in S
    BY <1>7 DEF Satisfies, n
  <2> QED BY <1>6, <2>1
<1>8. ASSUME d \in v[n] PROVE Satisfies(r, f)
  <2>1. n \in S0 /\ S0 \in SUBSET (1..n)
    BY <1>1, <1>8
  <2> HIDE DEF S0
  <2> QED BY <1>5, <2>1 DEF Satisfies, n
<1> QED BY <1>7, <1>8 DEF r, n

\* Every boolean query over the written database, however its terms are
\* nested and negated, returns exactly the documents whose record
\* satisfies the formula, in docid order, up to the limit.
THEOREM BooleanQueries == Spec => []BooleanQueryExact
<1>1. ASSUME IInv, JustBuilt, NEW f \in Formulas, NEW limit \in Limits
      PROVE  boolean_docids(hash, file, Reader, f, limit)
                 = Truncated(Matching(recs, LAMBDA r : Satisfies(r, f)), limit)
  <2> DEFINE n == Len(recs)
             D == evaluate(hash, file, Reader, f)
             S == {d \in 0..(n - 1) : Satisfies(recs[d + 1], f)}
             all == AllDocids(n)
  <2>1. file # NoFile /\ IsFormula(f) /\ n \in Nat
    BY <1>1, FormulaAssumption, LenProperties DEF JustBuilt, IInv, BuilderInv
  <2>2. PICK v : IsDocids(v, f, recs) /\ D = v[Len(f)]
    BY <1>1, <2>1, FormulaDocids
  <2>3. D \in SUBSET (0..(n - 1))
    <3>1. Len(f) \in 1..Len(f)
      BY <2>1 DEF IsFormula
    <3> QED BY <2>2, <3>1 DEF IsDocids
  <2>4. \A d \in 0..(n - 1) : d \in D <=> Satisfies(recs[d + 1], f)
    BY <2>1, <2>2, DocidsAreTrue
  <2>5. boolean_docids(hash, file, Reader, f, limit) = Truncated(Ascending(D), limit)
    BY DEF boolean_docids
  <2>6. Matching(recs, LAMBDA r : Satisfies(r, f)) = Kept(all, S)
    BY DEF Matching
  <2> HIDE DEF D, n
  <2>7. D = S
    BY <2>3, <2>4
  <2>8. IsPosting(Ascending(D), n) /\ \A d : InPosting(Ascending(D), d) <=> d \in D
    BY <2>1, <2>3, AscendingPosting
  <2>9. IsPosting(all, n) /\ \A d \in 0..(n - 1) : InPosting(all, d)
    BY <2>1, AllDocidsPosting
  <2> HIDE DEF all, S
  <2>10. IsPosting(Kept(all, S), n) /\ \A d : InPosting(Kept(all, S), d) <=> (InPosting(all, d) /\ d \in S)
    BY <2>1, <2>9, KeptPosting
  <2>11. \A d : d \in D => InPosting(all, d)
    BY <2>3, <2>9
  <2>12. \A d : InPosting(Ascending(D), d) <=> InPosting(Kept(all, S), d)
    BY <2>7, <2>8, <2>10, <2>11
  <2>13. Ascending(D) = Kept(all, S)
    BY <2>1, <2>8, <2>10, <2>12, PostingUnique
  <2> QED BY <2>5, <2>6, <2>13
<1>2. IInv => BooleanQueryExact
  BY <1>1 DEF BooleanQueryExact
<1> QED BY <1>2, FilesInvariant, PTL

=============================================================================
