----------------------------- MODULE Recursion ------------------------------
(***************************************************************************)
(* Induction over the natural numbers stated with sets, what it gives for  *)
(* functions that are defined by recursion, and lemmas about sequences     *)
(* that several proofs need.                                               *)
(***************************************************************************)
EXTENDS SequencesExt, FiniteSetTheorems, SequenceTheorems, TLAPS

(* If m were missing, so would be m - 1, and the numbers up to m that are  *)
(* missing would be mapped into themselves without m, one to one.          *)
LEMMA NatSetInduction ==
  ASSUME NEW T \in SUBSET Nat, 0 \in T, \A n \in T : n + 1 \in T
  PROVE  T = Nat
<1>1. SUFFICES ASSUME NEW m \in Nat \ T PROVE FALSE
  OBVIOUS
<1> DEFINE D == (0 .. m) \ T
           f == [x \in D |-> x - 1]
<1>2. IsFiniteSet(0 .. m)
  BY FS_Interval
<1>3. /\ IsFiniteSet(D) /\ IsFiniteSet(D \ {m})
      /\ Cardinality(D \ {m}) = Cardinality(D) - 1 /\ Cardinality(D) \in Nat
  <2>1. m \in D
    BY <1>1
  <2>2. IsFiniteSet(D)
    BY <1>2, FS_Subset
  <2> HIDE DEF D
  <2> QED
    BY <2>1, <2>2, FS_RemoveElement, FS_CardinalityType
<1>4. f \in [D -> D \ {m}]
  <2> SUFFICES ASSUME NEW x \in D PROVE x - 1 \in D \ {m}
    OBVIOUS
  <2>1. x # 0 /\ x - 1 \in Nat /\ (x - 1) + 1 = x
    OBVIOUS
  <2> QED
    BY <2>1
<1>5. PICK x, y \in D : x # y /\ f[x] = f[y]
  <2>1. Cardinality(D \ {m}) < Cardinality(D)
    BY <1>3
  <2> HIDE DEF D, f
  <2> QED
    BY <1>3, <1>4, <2>1, FS_PigeonHole
<1> QED
  BY <1>5

(* A number may rest on all numbers below it.                              *)
LEMMA StrongInduction ==
  ASSUME NEW P \in SUBSET Nat, \A n \in Nat : (\A k \in Nat : k < n => k \in P) => n \in P
  PROVE  P = Nat
<1> DEFINE T == {n \in Nat : \A k \in Nat : k < n => k \in P}
<1>1. T = Nat
  <2>1. 0 \in T
    OBVIOUS
  <2>2. ASSUME NEW n \in T PROVE n + 1 \in T
    <3>1. n \in Nat /\ n \in P
      OBVIOUS
    <3>2. \A k \in Nat : k < n + 1 => k < n \/ k = n
      BY <3>1
    <3> QED
      BY <3>1, <3>2
  <2>3. T \in SUBSET Nat
    OBVIOUS
  <2> HIDE DEF T
  <2> QED
    BY <2>1, <2>2, <2>3, NatSetInduction
<1>2. \A n \in Nat : n \in T
  BY <1>1
<1> QED
  BY <1>2

(* A set of numbers that is not empty has a smallest one.                  *)
LEMMA SmallestExists ==
  ASSUME NEW P \in SUBSET Nat, P # {}
  PROVE  \E n \in P : \A m \in P : n <= m
<1> SUFFICES ASSUME \A n \in P : \E m \in P : m < n PROVE FALSE
  OBVIOUS
<1> DEFINE T == {n \in Nat : \A m \in P : n < m}
<1>1. 0 \in T
  OBVIOUS
<1>2. ASSUME NEW n \in T PROVE n + 1 \in T
  <2>1. n + 1 \notin P
    BY <1>2
  <2> QED
    BY <2>1
<1>3. T = Nat
  <2>1. T \in SUBSET Nat
    OBVIOUS
  <2> HIDE DEF T
  <2> QED
    BY <1>1, <1>2, <2>1, NatSetInduction
<1>4. PICK p \in P : TRUE
  OBVIOUS
<1>5. p \in T
  BY <1>3
<1> QED
  BY <1>5

LEMMA MinIsSmallest ==
  ASSUME NEW P \in SUBSET Nat, P # {}
  PROVE  Min(P) \in P /\ \A m \in P : Min(P) <= m
BY SmallestExists DEF Min

LEMMA SmallestIsMin ==
  ASSUME NEW P \in SUBSET Nat, NEW n \in P, \A m \in P : n <= m
  PROVE  Min(P) = n
<1>1. Min(P) \in P /\ \A m \in P : Min(P) <= m
  BY MinIsSmallest
<1>2. Min(P) \in Nat /\ n \in Nat /\ Min(P) <= n /\ n <= Min(P)
  BY <1>1
<1> QED
  BY <1>2

-----------------------------------------------------------------------------
(* f follows the recursion that begins with b and goes on with step, as    *)
(* far as n.                                                               *)
Follows(f, n, b, step, S) ==
  /\ f \in [0 .. n -> S] /\ f[0] = b
  /\ \A k \in Nat : k < n => f[k + 1] = step[<<k, f[k]>>]

LEMMA FollowsFurther ==
  ASSUME NEW S, NEW b \in S, NEW step \in [Nat \X S -> S], NEW n \in Nat,
         NEW f, Follows(f, n, b, step, S)
  PROVE  \E g : Follows(g, n + 1, b, step, S)
<1> DEFINE g == [k \in 0 .. n + 1 |-> IF k = n + 1 THEN step[<<n, f[n]>>] ELSE f[k]]
<1>1. f \in [0 .. n -> S] /\ f[0] = b /\ \A k \in Nat : k < n => f[k + 1] = step[<<k, f[k]>>]
  BY DEF Follows
<1>2. g \in [0 .. n + 1 -> S] /\ g[0] = b
  BY <1>1
<1>3. \A k \in 0 .. n : g[k] = f[k]
  OBVIOUS
<1>4. g[n + 1] = step[<<n, f[n]>>]
  OBVIOUS
<1> HIDE DEF g
<1>5. ASSUME NEW k \in Nat, k < n + 1 PROVE g[k + 1] = step[<<k, g[k]>>]
  <2>1. CASE k = n
    BY <1>3, <1>4, <2>1
  <2>2. CASE k < n
    BY <1>1, <1>3, <2>2
  <2> QED
    BY <1>5, <2>1, <2>2
<1> QED
  BY <1>2, <1>5 DEF Follows

LEMMA FollowsUnique ==
  ASSUME NEW S, NEW b, NEW step, NEW m \in Nat, NEW n \in Nat, m <= n,
         NEW f, NEW g, Follows(f, m, b, step, S), Follows(g, n, b, step, S)
  PROVE  f[m] = g[m]
<1> DEFINE T == {k \in Nat : k <= m => f[k] = g[k]}
<1>1. 0 \in T
  BY DEF Follows
<1>2. ASSUME NEW k \in T PROVE k + 1 \in T
  <2>1. k \in Nat
    OBVIOUS
  <2>2. CASE k + 1 <= m
    <3>1. k < m /\ k < n /\ f[k] = g[k]
      BY <2>1, <2>2
    <3>2. f[k + 1] = step[<<k, f[k]>>] /\ g[k + 1] = step[<<k, g[k]>>]
      BY <2>1, <3>1 DEF Follows
    <3> QED
      BY <2>1, <3>1, <3>2
  <2> QED
    BY <2>1, <2>2
<1>3. T = Nat
  <2> HIDE DEF T
  <2>1. T \in SUBSET Nat
    BY DEF T
  <2> QED
    BY <1>1, <1>2, <2>1, NatSetInduction
<1> QED
  BY <1>3

(* The recursion that begins with b and goes on with step defines f.       *)
Recursive(f, b, step) == f[0] = b /\ \A n \in Nat : f[n + 1] = step[<<n, f[n]>>]

Defined(S, b, step) == \E f \in [Nat -> S] : Recursive(f, b, step)

(* There is a function that follows the recursion for ever.                *)
LEMMA RecursionExists ==
  ASSUME NEW S, NEW b \in S, NEW step \in [Nat \X S -> S]
  PROVE  Defined(S, b, step)
<1> DEFINE T == {n \in Nat : \E f : Follows(f, n, b, step, S)}
<1>1. T = Nat
  <2>1. 0 \in T
    <3>1. Follows([k \in 0 .. 0 |-> b], 0, b, step, S)
      BY DEF Follows
    <3> QED
      BY <3>1
  <2>2. ASSUME NEW n \in T PROVE n + 1 \in T
    BY FollowsFurther
  <2>3. T \in SUBSET Nat
    OBVIOUS
  <2> HIDE DEF T
  <2> QED
    BY <2>1, <2>2, <2>3, NatSetInduction
<1> DEFINE h == [n \in Nat |-> CHOOSE f : Follows(f, n, b, step, S)]
           e == [n \in Nat |-> h[n][n]]
<1>2. \A n \in Nat : Follows(h[n], n, b, step, S)
  <2> TAKE n \in Nat
  <2>1. \E f : Follows(f, n, b, step, S)
    BY <1>1
  <2>2. Follows(CHOOSE f : Follows(f, n, b, step, S), n, b, step, S)
    BY <2>1
  <2> QED
    BY <2>2
<1>3. \A n \in Nat : e[n] = h[n][n]
  OBVIOUS
<1> HIDE DEF T, h
<1>4. e \in [Nat -> S]
  BY <1>2 DEF Follows
<1> HIDE DEF e
<1>5. e[0] = b
  BY <1>2, <1>3 DEF Follows
<1>6. ASSUME NEW n \in Nat PROVE e[n + 1] = step[<<n, e[n]>>]
  <2>1. Follows(h[n], n, b, step, S) /\ Follows(h[n + 1], n + 1, b, step, S)
    BY <1>2
  <2>2. h[n][n] = h[n + 1][n]
    BY <2>1, FollowsUnique
  <2>3. h[n + 1][n + 1] = step[<<n, h[n + 1][n]>>]
    BY <2>1 DEF Follows
  <2> QED
    BY <1>3, <2>2, <2>3
<1> QED
  BY <1>4, <1>5, <1>6 DEF Defined, Recursive

(* A function that asks for its value at a smaller number, instead of at   *)
(* the one before, exists, too.                                            *)
Descends(f, top, base, down, step) ==
  \A n \in Nat : f[n] = IF n <= top THEN base[n] ELSE step[<<n, f[down[n]]>>]

LEMMA DescentExists ==
  ASSUME NEW S, NEW top \in Nat, NEW base \in [Nat -> S], NEW down \in [Nat -> Nat],
         NEW step \in [Nat \X S -> S], \A n \in Nat : n > top => down[n] < n
  PROVE  \E f \in [Nat -> S] : Descends(f, top, base, down, step)
<1> DEFINE once(g) == [n \in Nat |-> IF n <= top THEN base[n] ELSE step[<<n, g[down[n]]>>]]
           lift    == [p \in Nat \X [Nat -> S] |-> once(p[2])]
<1>1. \A g \in [Nat -> S] : once(g) \in [Nat -> S]
  OBVIOUS
<1>2. lift \in [Nat \X [Nat -> S] -> [Nat -> S]]
  <2> HIDE DEF once
  <2> QED
    BY <1>1
<1>3. Defined([Nat -> S], base, lift)
  <2> HIDE DEF lift
  <2> QED
    BY <1>2, RecursionExists
<1>4. PICK F \in [Nat -> [Nat -> S]] : F[0] = base /\ \A k \in Nat : F[k + 1] = lift[<<k, F[k]>>]
  <2> HIDE DEF lift
  <2> QED
    BY <1>3 DEF Defined, Recursive
<1>5. \A k \in Nat : F[k + 1] = once(F[k])
  <2> HIDE DEF once
  <2> TAKE k \in Nat
  <2>1. <<k, F[k]>> \in Nat \X [Nat -> S]
    OBVIOUS
  <2>2. lift[<<k, F[k]>>] = once(F[k])
    BY <2>1
  <2> QED
    BY <1>4, <2>2
<1>6. ASSUME NEW k \in Nat, NEW n \in Nat
      PROVE  F[k + 1][n] = IF n <= top THEN base[n] ELSE step[<<n, F[k][down[n]]>>]
  <2>1. F[k + 1] = once(F[k])
    <3> HIDE DEF once
    <3> QED
      BY <1>5
  <2>2. once(F[k])[n] = IF n <= top THEN base[n] ELSE step[<<n, F[k][down[n]]>>]
    OBVIOUS
  <2> HIDE DEF once
  <2> QED
    BY <2>1, <2>2
<1> HIDE DEF once, lift
\* Nothing changes below k after k rounds.
<1> DEFINE T == {k \in Nat : \A n \in Nat : n < k => F[k + 1][n] = F[k][n]}
<1>7. T = Nat
  <2>1. 0 \in T
    OBVIOUS
  <2>2. ASSUME NEW k \in T PROVE k + 1 \in T
    <3> SUFFICES ASSUME NEW n \in Nat, n < k + 1 PROVE F[(k + 1) + 1][n] = F[k + 1][n]
      OBVIOUS
    <3>1. k \in Nat /\ k + 1 \in Nat /\ down[n] \in Nat
      OBVIOUS
    <3>2. CASE n <= top
      BY <1>6, <3>1, <3>2
    <3>3. CASE ~(n <= top)
      <4>1. down[n] < k
        BY <3>1, <3>3
      <4>2. F[k + 1][down[n]] = F[k][down[n]]
        BY <3>1, <4>1
      <4>3. F[(k + 1) + 1][n] = step[<<n, F[k + 1][down[n]]>>]
        BY <1>6, <3>1, <3>3
      <4>4. F[k + 1][n] = step[<<n, F[k][down[n]]>>]
        BY <1>6, <3>1, <3>3
      <4> QED
        BY <4>2, <4>3, <4>4
    <3> QED
      BY <3>2, <3>3
  <2>3. T \in SUBSET Nat
    OBVIOUS
  <2> HIDE DEF T
  <2> QED
    BY <2>1, <2>2, <2>3, NatSetInduction
<1>8. ASSUME NEW n \in Nat PROVE \A j \in Nat : F[n + 1 + j][n] = F[n + 1][n]
  <2> DEFINE U == {j \in Nat : F[n + 1 + j][n] = F[n + 1][n]}
  <2>1. 0 \in U
    OBVIOUS
  <2>2. ASSUME NEW j \in U PROVE j + 1 \in U
    <3>1. j \in Nat /\ n + 1 + j \in Nat /\ n < n + 1 + j /\ (n + 1 + j) + 1 = n + 1 + (j + 1)
      OBVIOUS
    <3>2. \A k \in Nat : k \in T
      BY <1>7
    <3>3. \A i \in Nat : i < n + 1 + j => F[(n + 1 + j) + 1][i] = F[n + 1 + j][i]
      BY <3>1, <3>2
    <3>4. F[(n + 1 + j) + 1][n] = F[n + 1 + j][n]
      BY <3>1, <3>3
    <3> QED
      BY <3>1, <3>4
  <2>3. U \in SUBSET Nat
    OBVIOUS
  <2>4. U = Nat
    <3> HIDE DEF U
    <3> QED
      BY <2>1, <2>2, <2>3, NatSetInduction
  <2> QED
    BY <2>4
<1> HIDE DEF T
<1> DEFINE f == [n \in Nat |-> F[n + 1][n]]
<1>9. f \in [Nat -> S]
  OBVIOUS
<1>10. ASSUME NEW n \in Nat
       PROVE  f[n] = IF n <= top THEN base[n] ELSE step[<<n, f[down[n]]>>]
  <2>1. f[n] = IF n <= top THEN base[n] ELSE step[<<n, F[n][down[n]]>>]
    BY <1>6
  <2>2. CASE n <= top
    BY <2>1, <2>2
  <2>3. CASE ~(n <= top)
    <3>1. down[n] \in Nat /\ down[n] < n
      BY <2>3
    <3>2. n - 1 - down[n] \in Nat /\ down[n] + 1 + (n - 1 - down[n]) = n
      BY <3>1
    <3>3. F[n][down[n]] = F[down[n] + 1][down[n]]
      BY <1>8, <3>1, <3>2
    <3>4. f[down[n]] = F[down[n] + 1][down[n]]
      BY <3>1
    <3> QED
      BY <2>1, <2>3, <3>3, <3>4
  <2> QED
    BY <2>2, <2>3
<1> HIDE DEF f
<1> QED
  BY <1>9, <1>10 DEF Descends

-----------------------------------------------------------------------------
(* Up to n, e grows by the sequences of seqs.                              *)
Grows(e, seqs, n) == \A k \in 1 .. n : e[k] = e[k - 1] \o seqs[k]

(* e holds the concatenations of the first k sequences of seqs.            *)
Joins(e, seqs, S) ==
  /\ e \in [0 .. Len(seqs) -> Seq(S)] /\ e[0] = <<>>
  /\ Grows(e, seqs, Len(seqs))

LEMMA JoinsExist ==
  ASSUME NEW S, NEW seqs \in Seq(Seq(S))
  PROVE  \E e : Joins(e, seqs, S)
<1> DEFINE step == [p \in Nat \X Seq(S) |->
                      IF p[1] < Len(seqs) THEN p[2] \o seqs[p[1] + 1] ELSE p[2]]
<1>1. step \in [Nat \X Seq(S) -> Seq(S)]
  <2> SUFFICES ASSUME NEW n \in Nat, NEW x \in Seq(S), n < Len(seqs)
               PROVE  x \o seqs[n + 1] \in Seq(S)
    OBVIOUS
  <2>1. n + 1 \in 1 .. Len(seqs)
    BY LenProperties
  <2>2. seqs[n + 1] \in Seq(S)
    BY <2>1, ElementOfSeq
  <2> QED
    BY <2>2, ConcatProperties
<1>2. <<>> \in Seq(S)
  BY EmptySeq
<1>3. Len(seqs) \in Nat
  BY LenProperties
<1>4. PICK f \in [Nat -> Seq(S)] : f[0] = <<>> /\ \A n \in Nat : f[n + 1] = step[<<n, f[n]>>]
  <2> HIDE DEF step
  <2>1. Defined(Seq(S), <<>>, step)
    BY <1>1, <1>2, RecursionExists
  <2> QED
    BY <2>1 DEF Defined, Recursive
<1> DEFINE e == [k \in 0 .. Len(seqs) |-> f[k]]
<1>5. ASSUME NEW k \in 1 .. Len(seqs) PROVE e[k] = e[k - 1] \o seqs[k]
  <2>1. k - 1 \in Nat /\ k - 1 < Len(seqs) /\ (k - 1) + 1 = k /\ k \in Nat
    BY <1>3
  <2>2. f[k] = step[<<k - 1, f[k - 1]>>]
    BY <1>4, <2>1, ZenonT(30)
  <2>3. step[<<k - 1, f[k - 1]>>] = f[k - 1] \o seqs[k]
    BY <2>1
  <2>4. k \in 0 .. Len(seqs) /\ k - 1 \in 0 .. Len(seqs)
    BY <1>3
  <2>5. e[k] = f[k] /\ e[k - 1] = f[k - 1]
    BY <2>4
  <2> HIDE DEF e, step
  <2> QED
    BY <2>2, <2>3, <2>5
<1>6. e \in [0 .. Len(seqs) -> Seq(S)] /\ e[0] = <<>>
  BY <1>3, <1>4
<1> QED
  <2> HIDE DEF e
  <2> QED
    BY <1>5, <1>6 DEF Joins, Grows

(* What follows the same recursion as far as n is the same as far as n.    *)
LEMMA JoinsUnique ==
  ASSUME NEW n \in Nat, NEW seqs, NEW e, NEW f, e[0] = f[0],
         Grows(e, seqs, n), Grows(f, seqs, n)
  PROVE  \A k \in 0 .. n : e[k] = f[k]
<1> DEFINE T == {k \in Nat : k <= n => e[k] = f[k]}
<1>1. 0 \in T
  OBVIOUS
<1>2. ASSUME NEW k \in T PROVE k + 1 \in T
  <2>1. k \in Nat
    OBVIOUS
  <2>2. CASE k + 1 <= n
    <3>1. k + 1 \in 1 .. n /\ (k + 1) - 1 = k /\ e[k] = f[k]
      BY <2>1, <2>2
    <3>2. e[k + 1] = e[k] \o seqs[k + 1] /\ f[k + 1] = f[k] \o seqs[k + 1]
      BY <3>1 DEF Grows
    <3>3. e[k + 1] = f[k + 1]
      BY <3>1, <3>2
    <3> QED
      BY <2>1, <3>3
  <2> QED
    BY <2>1, <2>2
<1>3. T = Nat
  <2>1. T \in SUBSET Nat
    OBVIOUS
  <2> HIDE DEF T
  <2> QED
    BY <1>1, <1>2, <2>1, NatSetInduction
<1> QED
  BY <1>3

(* The library's FlattenSeq is the last of the concatenations.             *)
LEMMA FlattenIsLast ==
  ASSUME NEW S, NEW seqs \in Seq(Seq(S)), NEW e, Joins(e, seqs, S)
  PROVE  FlattenSeq(seqs) = e[Len(seqs)] /\ FlattenSeq(seqs) \in Seq(S)
<1>1. Len(seqs) \in Nat
  BY LenProperties
<1>2. CASE Len(seqs) = 0
  <2>1. seqs = <<>>
    BY <1>2, EmptySeq
  <2> QED
    BY <1>2, <2>1, EmptySeq DEF FlattenSeq, Joins
<1>3. CASE Len(seqs) # 0
  <2> DEFINE flatten[i \in 1 .. Len(seqs)] ==
               IF i = 1 THEN seqs[i] ELSE flatten[i - 1] \o seqs[i]
             g == [i \in 1 .. Len(seqs) |-> e[i]]
  <2>1. g = [i \in 1 .. Len(seqs) |-> IF i = 1 THEN seqs[i] ELSE g[i - 1] \o seqs[i]]
    <3> SUFFICES ASSUME NEW i \in 1 .. Len(seqs)
                 PROVE  e[i] = IF i = 1 THEN seqs[i] ELSE g[i - 1] \o seqs[i]
      OBVIOUS
    <3>1. e[i] = e[i - 1] \o seqs[i]
      BY DEF Joins, Grows
    <3>2. CASE i = 1
      <4>1. e[0] = <<>> /\ i - 1 = 0
        BY <3>2 DEF Joins
      <4>2. <<>> \o seqs[i] = seqs[i]
        <5>1. seqs[i] \in Seq(S)
          BY ElementOfSeq
        <5> QED
          BY <5>1, ConcatEmptySeq
      <4> QED
        BY <3>1, <3>2, <4>1, <4>2
    <3>3. CASE i # 1
      <4>1. i - 1 \in 1 .. Len(seqs)
        BY <1>1, <3>3
      <4> QED
        BY <3>1, <3>3, <4>1
    <3> QED
      BY <3>2, <3>3
  <2>2. flatten = [i \in 1 .. Len(seqs) |-> IF i = 1 THEN seqs[i] ELSE flatten[i - 1] \o seqs[i]]
    <3> HIDE DEF g
    <3> QED
      BY <2>1 DEF flatten
  <2>3. FlattenSeq(seqs) = flatten[Len(seqs)]
    BY <1>3 DEF FlattenSeq
  <2> DEFINE h == [i \in 0 .. Len(seqs) |-> IF i = 0 THEN <<>> ELSE flatten[i]]
  <2>4. h[0] = <<>> /\ \A k \in 1 .. Len(seqs) : h[k] = flatten[k]
    <3> HIDE DEF flatten
    <3> QED
      BY <1>1
  <2>5. ASSUME NEW k \in 1 .. Len(seqs) PROVE h[k] = h[k - 1] \o seqs[k]
    <3> HIDE DEF h, flatten
    <3>1. CASE k = 1
      <4>1. seqs[k] \in Seq(S)
        BY ElementOfSeq
      <4>2. flatten[k] = seqs[k] /\ h[k - 1] = <<>>
        BY <2>2, <2>4, <3>1
      <4> QED
        BY <2>4, <4>1, <4>2, ConcatEmptySeq
    <3>2. CASE k # 1
      <4>1. k - 1 \in 1 .. Len(seqs)
        BY <1>1, <3>2
      <4> QED
        BY <2>2, <2>4, <3>2, <4>1
    <3> QED
      BY <3>1, <3>2
  <2> HIDE DEF h, flatten
  <2>6. \A k \in 0 .. Len(seqs) : h[k] = e[k]
    <3>1. h[0] = e[0] /\ Grows(e, seqs, Len(seqs))
      BY <2>4 DEF Joins
    <3>2. Grows(h, seqs, Len(seqs))
      BY <2>5 DEF Grows
    <3> QED
      BY <1>1, <3>1, <3>2, JoinsUnique
  <2>7. Len(seqs) \in 1 .. Len(seqs) /\ Len(seqs) \in 0 .. Len(seqs)
    BY <1>1, <1>3
  <2>8. FlattenSeq(seqs) = e[Len(seqs)]
    BY <2>3, <2>4, <2>6, <2>7
  <2> QED
    BY <2>7, <2>8 DEF Joins
<1> QED
  BY <1>2, <1>3

LEMMA FlattenType ==
  ASSUME NEW S, NEW seqs \in Seq(Seq(S))
  PROVE  FlattenSeq(seqs) \in Seq(S)
BY JoinsExist, FlattenIsLast

LEMMA FlattenEmpty == FlattenSeq(<<>>) = <<>>
<1>1. Len(<<>>) = 0
  BY EmptySeq
<1> QED
  BY <1>1 DEF FlattenSeq

LEMMA FlattenOne ==
  ASSUME NEW S, NEW x \in Seq(S)
  PROVE  FlattenSeq(<<x>>) = x
<1> DEFINE e == [k \in 0 .. 1 |-> IF k = 0 THEN <<>> ELSE x]
<1>1. <<x>> \in Seq(Seq(S)) /\ Len(<<x>>) = 1 /\ <<x>>[1] = x
  OBVIOUS
<1>2. e \in [0 .. 1 -> Seq(S)] /\ e[0] = <<>> /\ e[1] = x
  BY EmptySeq
<1> HIDE DEF e
<1>3. \A k \in 1 .. 1 : e[k] = e[k - 1] \o <<x>>[k]
  <2>1. <<>> \o x = x
    BY ConcatEmptySeq
  <2> QED
    BY <1>1, <1>2, <2>1
<1>4. Joins(e, <<x>>, S)
  BY <1>1, <1>2, <1>3 DEF Joins, Grows
<1> QED
  BY <1>1, <1>2, <1>4, FlattenIsLast

(* The function that is e up to m and F from there on.                     *)
LEMMA Continued ==
  ASSUME NEW m \in Nat, NEW n \in Nat, NEW e, NEW F
  PROVE  LET g == [k \in 0 .. m + n |-> IF k <= m THEN e[k] ELSE F[k - m]]
         IN  /\ \A k \in 0 .. m : g[k] = e[k]
             /\ \A k \in 1 .. n : g[m + k] = F[k]
<1> DEFINE g == [k \in 0 .. m + n |-> IF k <= m THEN e[k] ELSE F[k - m]]
<1>1. ASSUME NEW k \in 0 .. m PROVE g[k] = e[k]
  <2>1. k \in 0 .. m + n /\ k <= m
    OBVIOUS
  <2> QED
    BY <2>1
<1>2. ASSUME NEW k \in 1 .. n PROVE g[m + k] = F[k]
  <2>1. m + k \in 0 .. m + n /\ ~(m + k <= m) /\ m + k - m = k
    OBVIOUS
  <2>2. g[m + k] = F[m + k - m]
    BY <2>1
  <2> QED
    BY <2>1, <2>2
<1> QED
  BY <1>1, <1>2

LEMMA FlattenConcat ==
  ASSUME NEW S, NEW s \in Seq(Seq(S)), NEW t \in Seq(Seq(S))
  PROVE  FlattenSeq(s \o t) = FlattenSeq(s) \o FlattenSeq(t)
<1>1. PICK e : Joins(e, s, S)
  BY JoinsExist
<1>2. PICK f : Joins(f, t, S)
  BY JoinsExist
<1> DEFINE m == Len(s)
           n == Len(t)
           u == s \o t
           F == [k \in 0 .. n |-> e[m] \o f[k]]
           g == [k \in 0 .. m + n |-> IF k <= m THEN e[k] ELSE F[k - m]]
<1>3. /\ m \in Nat /\ n \in Nat /\ u \in Seq(Seq(S)) /\ Len(u) = m + n
      /\ \A k \in 1 .. m : u[k] = s[k]
      /\ \A k \in 1 .. n : u[m + k] = t[k]
  <2>1. m \in Nat /\ n \in Nat
    BY LenProperties
  <2>2. \A k \in 1 .. m : k \in 1 .. m + n /\ k <= m
    BY <2>1
  <2>3. \A k \in 1 .. n : m + k \in 1 .. m + n /\ ~(m + k <= m) /\ m + k - m = k
    BY <2>1
  <2> HIDE DEF m, n
  <2> QED
    BY <2>1, <2>2, <2>3, ConcatProperties DEF m, n
<1>4. /\ \A k \in 0 .. m : g[k] = e[k]
      /\ \A k \in 1 .. n : g[m + k] = F[k]
  <2> HIDE DEF m, n, u, F
  <2> QED
    BY <1>3, Continued
<1>5. e \in [0 .. m -> Seq(S)] /\ e[0] = <<>> /\ \A k \in 1 .. m : e[k] = e[k - 1] \o s[k]
  BY <1>1 DEF Joins, Grows
<1>6. f \in [0 .. n -> Seq(S)] /\ f[0] = <<>> /\ \A k \in 1 .. n : f[k] = f[k - 1] \o t[k]
  BY <1>2 DEF Joins, Grows
<1>7. e[m] \in Seq(S)
  BY <1>3, <1>5
<1>8. F \in [0 .. n -> Seq(S)] /\ F[0] = e[m]
  <2>1. \A k \in 0 .. n : f[k] \in Seq(S)
    BY <1>6
  <2>2. \A x, y \in Seq(S) : x \o y \in Seq(S)
    BY ConcatProperties
  <2>3. 0 \in 0 .. n /\ e[m] \o <<>> = e[m]
    BY <1>3, <1>7, ConcatEmptySeq
  <2> QED
    BY <1>6, <1>7, <2>1, <2>2, <2>3
<1>9. ASSUME NEW k \in 1 .. n PROVE F[k] = F[k - 1] \o t[k]
  <2>1. k \in 0 .. n /\ k - 1 \in 0 .. n
    BY <1>3
  <2>2. PICK a \in Seq(S) : a = e[m]
    BY <1>7
  <2>3. PICK b \in Seq(S) : b = f[k - 1]
    BY <1>6, <2>1
  <2>4. PICK c \in Seq(S) : c = t[k]
    BY ElementOfSeq
  <2>5. (a \o b) \o c = a \o (b \o c)
    <3> HIDE DEF m, n, u, F, g
    <3> QED
      OBVIOUS
  <2>6. F[k] = a \o f[k] /\ F[k - 1] = a \o b
    BY <2>1, <2>2, <2>3
  <2>7. f[k] = b \o c
    BY <1>6, <2>3, <2>4
  <2> QED
    BY <2>4, <2>5, <2>6, <2>7
<1> HIDE DEF F
<1>10. g \in [0 .. m + n -> Seq(S)]
  <2> SUFFICES ASSUME NEW k \in 0 .. m + n
               PROVE  (IF k <= m THEN e[k] ELSE F[k - m]) \in Seq(S)
    OBVIOUS
  <2>1. CASE k <= m
    <3>1. k \in 0 .. m
      BY <1>3, <2>1
    <3> QED
      BY <1>5, <2>1, <3>1
  <2>2. CASE ~(k <= m)
    <3>1. k - m \in 0 .. n
      BY <1>3, <2>2
    <3> QED
      BY <1>8, <2>2, <3>1
  <2> QED
    BY <2>1, <2>2
<1> HIDE DEF g, u, m, n
<1>11. ASSUME NEW k \in 1 .. m + n PROVE g[k] = g[k - 1] \o u[k]
  <2>1. CASE k <= m
    <3>1. k \in 1 .. m /\ k \in 0 .. m /\ k - 1 \in 0 .. m
      BY <1>3, <2>1
    <3> QED
      BY <1>3, <1>4, <1>5, <3>1
  <2>2. CASE ~(k <= m)
    <3>1. PICK q \in 1 .. n : k = m + q
      <4>1. k - m \in 1 .. n /\ k = m + (k - m)
        BY <1>3, <2>2
      <4> QED
        BY <4>1
    <3>2. k - 1 = m + (q - 1)
      BY <1>3, <3>1
    <3>3. g[k - 1] = F[q - 1]
      <4>1. CASE q = 1
        <5>1. q - 1 = 0 /\ k - 1 = m /\ m \in 0 .. m
          BY <1>3, <3>2, <4>1
        <5> QED
          BY <1>4, <1>8, <5>1
      <4>2. CASE q # 1
        <5>1. q - 1 \in 1 .. n
          BY <1>3, <4>2
        <5> QED
          BY <1>4, <3>2, <5>1
      <4> QED
        BY <4>1, <4>2
    <3>4. g[k] = F[q] /\ u[k] = t[q]
      BY <1>3, <1>4, <3>1
    <3>5. F[q] = F[q - 1] \o t[q]
      BY <1>9
    <3> QED
      BY <3>3, <3>4, <3>5
  <2> QED
    BY <2>1, <2>2
<1>12. Joins(g, u, S)
  <2>1. g[0] = <<>>
    BY <1>3, <1>4, <1>5
  <2> QED
    BY <1>3, <1>10, <1>11, <2>1 DEF Joins, Grows
<1>13. FlattenSeq(u) = g[m + n]
  BY <1>3, <1>12, FlattenIsLast
<1>14. g[m + n] = F[n]
  <2>1. CASE n = 0
    <3>1. m + n = m /\ m \in 0 .. m
      BY <1>3, <2>1
    <3> QED
      BY <1>4, <1>8, <2>1, <3>1
  <2>2. CASE n # 0
    <3>1. n \in 1 .. n
      BY <1>3, <2>2
    <3> QED
      BY <1>4, <3>1
  <2> QED
    BY <2>1, <2>2
<1>15. F[n] = e[m] \o f[n]
  <2>1. n \in 0 .. n
    BY <1>3
  <2> QED
    BY <2>1 DEF F
<1>16. FlattenSeq(s) = e[m] /\ FlattenSeq(t) = f[n]
  BY <1>1, <1>2, FlattenIsLast DEF m, n
<1> QED
  BY <1>13, <1>14, <1>15, <1>16 DEF u

-----------------------------------------------------------------------------
(* The sequence in which every element x of txt has given way to h[x].     *)
Mapped(h, txt) == [k \in DOMAIN txt |-> h[txt[k]]]
Put(h, txt)    == FlattenSeq(Mapped(h, txt))

(* s holds what h makes of the elements of txt.                            *)
Holds(s, h, txt) == Len(s) = Len(txt) /\ \A k \in 1 .. Len(txt) : s[k] = h[txt[k]]

(* c is a, and then b.                                                     *)
Joined(c, a, b) ==
  /\ Len(c) = Len(a) + Len(b)
  /\ \A k \in 1 .. Len(a) + Len(b) : c[k] = IF k <= Len(a) THEN a[k] ELSE b[k - Len(a)]

LEMMA ConcatJoins ==
  ASSUME NEW S, NEW a \in Seq(S), NEW b \in Seq(S)
  PROVE  a \o b \in Seq(S) /\ Joined(a \o b, a, b)
BY ConcatProperties DEF Joined

LEMMA FunctionIsSeq ==
  ASSUME NEW S, NEW n \in Nat, NEW s \in [1 .. n -> S]
  PROVE  s \in Seq(S) /\ Len(s) = n
OBVIOUS

LEMMA MappedType ==
  ASSUME NEW X, NEW h \in [X -> Seq(X)], NEW txt \in Seq(X)
  PROVE  Mapped(h, txt) \in Seq(Seq(X)) /\ Holds(Mapped(h, txt), h, txt)
<1> DEFINE s == Mapped(h, txt)
<1>1. DOMAIN txt = 1 .. Len(txt) /\ Len(txt) \in Nat
  BY LenProperties
<1>2. \A k \in 1 .. Len(txt) : h[txt[k]] \in Seq(X)
  BY ElementOfSeq
<1>3. s \in [1 .. Len(txt) -> Seq(X)]
  BY <1>1, <1>2 DEF Mapped
<1>4. s \in Seq(Seq(X)) /\ Len(s) = Len(txt)
  <2> HIDE DEF s
  <2> QED
    BY <1>1, <1>3, FunctionIsSeq
<1> QED
  BY <1>1, <1>4 DEF Mapped, Holds

LEMMA PutType ==
  ASSUME NEW X, NEW h \in [X -> Seq(X)], NEW txt \in Seq(X)
  PROVE  Put(h, txt) \in Seq(X)
BY MappedType, FlattenType DEF Put

LEMMA PutOne ==
  ASSUME NEW X, NEW h \in [X -> Seq(X)], NEW x \in X
  PROVE  Put(h, <<x>>) = h[x]
<1>1. Mapped(h, <<x>>) = <<h[x]>>
  BY DEF Mapped
<1>2. h[x] \in Seq(X)
  OBVIOUS
<1> QED
  BY <1>1, <1>2, FlattenOne DEF Put

LEMMA PutConcat ==
  ASSUME NEW X, NEW h \in [X -> Seq(X)], NEW a \in Seq(X), NEW b \in Seq(X)
  PROVE  Put(h, a \o b) = Put(h, a) \o Put(h, b)
<1> DEFINE ma == Mapped(h, a)
           mb == Mapped(h, b)
           c  == a \o b
           mc == Mapped(h, c)
<1>1. ma \in Seq(Seq(X)) /\ Holds(ma, h, a)
  BY MappedType
<1>2. mb \in Seq(Seq(X)) /\ Holds(mb, h, b)
  BY MappedType
<1>3. c \in Seq(X) /\ Joined(c, a, b) /\ Len(a) \in Nat /\ Len(b) \in Nat
  BY ConcatJoins, LenProperties
<1>4. mc \in Seq(Seq(X)) /\ Holds(mc, h, c)
  <2> HIDE DEF c
  <2> QED
    BY <1>3, MappedType
<1> HIDE DEF ma, mb, mc, c
<1>5. ma \o mb \in Seq(Seq(X)) /\ Joined(ma \o mb, ma, mb)
  BY <1>1, <1>2, ConcatJoins
<1>6. ASSUME NEW k \in 1 .. Len(a) + Len(b) PROVE mc[k] = (ma \o mb)[k]
  <2>1. CASE k <= Len(a)
    <3>1. k \in 1 .. Len(a)
      BY <1>3, <2>1
    <3>2. mc[k] = h[a[k]]
      BY <1>3, <1>4, <2>1 DEF Holds, Joined
    <3> QED
      BY <1>1, <1>2, <1>5, <2>1, <3>1, <3>2 DEF Holds, Joined
  <2>2. CASE ~(k <= Len(a))
    <3>1. k - Len(a) \in 1 .. Len(b)
      BY <1>3, <2>2
    <3>2. mc[k] = h[b[k - Len(a)]]
      BY <1>3, <1>4, <2>2 DEF Holds, Joined
    <3> QED
      BY <1>1, <1>2, <1>5, <2>2, <3>1, <3>2 DEF Holds, Joined
  <2> QED
    BY <2>1, <2>2
<1>7. mc = ma \o mb
  <2>1. Len(mc) = Len(ma \o mb) /\ \A k \in 1 .. Len(mc) : mc[k] = (ma \o mb)[k]
    BY <1>1, <1>2, <1>3, <1>4, <1>5, <1>6 DEF Holds, Joined
  <2> QED
    BY <1>4, <1>5, <2>1, SeqEqual
<1>8. FlattenSeq(mc) = FlattenSeq(ma) \o FlattenSeq(mb)
  BY <1>1, <1>2, <1>7, FlattenConcat
<1> QED
  BY <1>8 DEF Put, ma, mb, mc, c

LEMMA PutFlatten ==
  ASSUME NEW X, NEW h \in [X -> Seq(X)], NEW ss \in Seq(Seq(X))
  PROVE  Put(h, FlattenSeq(ss)) = FlattenSeq([k \in DOMAIN ss |-> Put(h, ss[k])])
<1> DEFINE t == [k \in DOMAIN ss |-> Put(h, ss[k])]
<1>1. DOMAIN ss = 1 .. Len(ss) /\ Len(ss) \in Nat
  BY LenProperties
<1>2. ASSUME NEW k \in 1 .. Len(ss) PROVE ss[k] \in Seq(X) /\ Put(h, ss[k]) \in Seq(X)
  BY ElementOfSeq, PutType
<1>3. t \in [1 .. Len(ss) -> Seq(X)] /\ \A k \in 1 .. Len(ss) : t[k] = Put(h, ss[k])
  BY <1>1, <1>2
<1> HIDE DEF t
<1>4. t \in Seq(Seq(X)) /\ Len(t) = Len(ss)
  BY <1>1, <1>3, FunctionIsSeq
<1>5. PICK e : Joins(e, ss, X)
  BY JoinsExist
<1>6. /\ e \in [0 .. Len(ss) -> Seq(X)] /\ e[0] = <<>>
      /\ \A k \in 1 .. Len(ss) : e[k] = e[k - 1] \o ss[k]
  BY <1>5 DEF Joins, Grows
<1> DEFINE f == [k \in 0 .. Len(ss) |-> Put(h, e[k])]
<1>7. f \in [0 .. Len(ss) -> Seq(X)]
  BY <1>6, PutType
<1>8. f[0] = <<>>
  <2>1. f[0] = Put(h, <<>>)
    BY <1>1, <1>6
  <2>2. Put(h, <<>>) = FlattenSeq(<<>>)
    <3>1. Mapped(h, <<>>) = <<>>
      BY DEF Mapped
    <3> QED
      BY <3>1 DEF Put
  <2> QED
    BY <2>1, <2>2, FlattenEmpty
<1>9. ASSUME NEW k \in 1 .. Len(ss) PROVE f[k] = f[k - 1] \o t[k]
  <2>1. k \in 0 .. Len(ss) /\ k - 1 \in 0 .. Len(ss)
    BY <1>1
  <2>2. e[k - 1] \in Seq(X) /\ ss[k] \in Seq(X)
    BY <1>2, <1>6, <2>1
  <2>3. Put(h, e[k - 1] \o ss[k]) = Put(h, e[k - 1]) \o Put(h, ss[k])
    BY <2>2, PutConcat
  <2> QED
    BY <1>3, <1>6, <2>1, <2>3
<1> HIDE DEF f
<1>10. Joins(f, t, X)
  BY <1>4, <1>7, <1>8, <1>9 DEF Joins, Grows
<1>11. FlattenSeq(t) = f[Len(ss)]
  BY <1>4, <1>10, FlattenIsLast
<1>12. FlattenSeq(ss) = e[Len(ss)]
  BY <1>5, FlattenIsLast
<1>13. f[Len(ss)] = Put(h, e[Len(ss)])
  <2>1. Len(ss) \in 0 .. Len(ss)
    BY <1>1
  <2> QED
    BY <2>1 DEF f
<1> QED
  BY <1>11, <1>12, <1>13 DEF t

LEMMA PutSame ==
  ASSUME NEW X, NEW h \in [X -> Seq(X)], NEW txt \in Seq(X),
         \A k \in 1 .. Len(txt) : h[txt[k]] = <<txt[k]>>
  PROVE  Put(h, txt) = txt
<1> DEFINE s == Mapped(h, txt)
           e == [k \in 0 .. Len(txt) |-> SubSeq(txt, 1, k)]
<1>1. s \in Seq(Seq(X)) /\ Len(s) = Len(txt) /\ \A k \in 1 .. Len(txt) : s[k] = h[txt[k]]
  <2>1. s \in Seq(Seq(X)) /\ Holds(s, h, txt)
    BY MappedType
  <2> QED
    BY <2>1 DEF Holds
<1>2. Len(txt) \in Nat
  BY LenProperties
<1>3. ASSUME NEW k \in 0 .. Len(txt) PROVE SubSeq(txt, 1, k) \in Seq(X)
  BY <1>2, SubSeqProperties
<1>4. e \in [0 .. Len(txt) -> Seq(X)]
  BY <1>3
<1>5. e[0] = <<>>
  BY <1>2, SubSeqEmpty
<1>6. ASSUME NEW k \in 1 .. Len(txt) PROVE e[k] = e[k - 1] \o s[k]
  <2>1. k \in 0 .. Len(txt) /\ k - 1 \in 0 .. Len(txt)
    BY <1>2
  <2>2. SubSeq(txt, 1, k) = SubSeq(txt, 1, k - 1) \o <<txt[k]>>
    BY <1>2
  <2> HIDE DEF s
  <2> QED
    BY <1>1, <2>1, <2>2
<1> HIDE DEF s, e
<1>7. Joins(e, s, X)
  BY <1>1, <1>4, <1>5, <1>6 DEF Joins, Grows
<1>8. FlattenSeq(s) = e[Len(txt)]
  BY <1>1, <1>7, FlattenIsLast
<1>9. e[Len(txt)] = txt
  <2>1. Len(txt) \in 0 .. Len(txt)
    BY <1>2
  <2>2. SubSeq(txt, 1, Len(txt)) = txt
    BY SubSeqFull
  <2> QED
    BY <2>1, <2>2 DEF e
<1> QED
  BY <1>8, <1>9 DEF Put, s

-----------------------------------------------------------------------------
(* A sequence of anything, longer by one.                                  *)
LEMMA Lengthened ==
  ASSUME NEW q, \E S : q \in Seq(S), NEW x
  PROVE  /\ \E S : Append(q, x) \in Seq(S)
         /\ Len(q) \in Nat /\ Len(Append(q, x)) = Len(q) + 1
         /\ \A k \in 1 .. Len(q) : Append(q, x)[k] = q[k]
         /\ Append(q, x)[Len(q) + 1] = x
         /\ Range(Append(q, x)) = Range(q) \cup {x}
<1>1. PICK S : q \in Seq(S)
  OBVIOUS
<1>2. q \in Seq(S \cup {x}) /\ x \in S \cup {x}
  BY <1>1
<1>3. /\ Append(q, x) \in Seq(S \cup {x})
      /\ Len(q) \in Nat /\ Len(Append(q, x)) = Len(q) + 1
      /\ \A k \in 1 .. Len(q) : Append(q, x)[k] = q[k]
      /\ Append(q, x)[Len(q) + 1] = x
  BY <1>2, AppendProperties
<1>4. DOMAIN q = 1 .. Len(q) /\ DOMAIN Append(q, x) = 1 .. Len(q) + 1
  BY <1>2, <1>3
<1>5. Range(Append(q, x)) = Range(q) \cup {x}
  <2>1. 1 .. Len(q) + 1 = (1 .. Len(q)) \cup {Len(q) + 1}
    BY <1>3
  <2> QED
    BY <1>3, <1>4, <2>1 DEF Range
<1> QED
  BY <1>3, <1>5

LEMMA RangeFinite ==
  ASSUME NEW q, \E S : q \in Seq(S)
  PROVE  IsFiniteSet(Range(q))
<1>1. PICK S : q \in Seq(S)
  OBVIOUS
<1>2. DOMAIN q = 1 .. Len(q) /\ Len(q) \in Nat
  BY <1>1
<1>3. IsFiniteSet(1 .. Len(q))
  BY <1>2, FS_Interval
<1>4. q \in Surjection(1 .. Len(q), Range(q))
  BY <1>1, <1>2 DEF Range, Surjection
<1> QED
  BY <1>3, <1>4, FS_Surjection

-----------------------------------------------------------------------------
(* Counting the records of a kind.                                         *)
OfKind(r, p, kind) == {k \in 1 .. p - 1 : r[k].kind = kind}
Tally(r, p, kind)   == Cardinality(OfKind(r, p, kind))

LEMMA CountStep ==
  ASSUME NEW r, NEW p \in Nat, p > 0, NEW kind
  PROVE  /\ Tally(r, p, kind) \in Nat /\ IsFiniteSet(OfKind(r, p, kind))
         /\ Tally(r, p + 1, kind) = IF r[p].kind = kind THEN Tally(r, p, kind) + 1
                                                       ELSE Tally(r, p, kind)
<1>1. IsFiniteSet(1 .. p - 1) /\ OfKind(r, p, kind) \in SUBSET (1 .. p - 1)
  BY FS_Interval DEF OfKind
<1>2. IsFiniteSet(OfKind(r, p, kind))
  BY <1>1, FS_Subset
<1>3. p \notin OfKind(r, p, kind)
  BY DEF OfKind
<1>4. OfKind(r, p + 1, kind) = IF r[p].kind = kind THEN OfKind(r, p, kind) \cup {p}
                                                   ELSE OfKind(r, p, kind)
  <2>1. 1 .. (p + 1) - 1 = (1 .. p - 1) \cup {p}
    OBVIOUS
  <2> QED
    BY <2>1 DEF OfKind
<1>5. Tally(r, p, kind) \in Nat
  BY <1>2, FS_CardinalityType DEF Tally
<1>6. Cardinality(OfKind(r, p, kind) \cup {p}) = Cardinality(OfKind(r, p, kind)) + 1
  BY <1>2, <1>3, FS_AddElement
<1> QED
  BY <1>2, <1>4, <1>5, <1>6 DEF Tally

LEMMA CountGrows ==
  ASSUME NEW r, NEW p \in Nat, NEW q \in Nat, p > 0, p < q, NEW kind, r[p].kind = kind
  PROVE  Tally(r, p, kind) < Tally(r, q, kind)
<1>1. /\ Tally(r, p + 1, kind) = Tally(r, p, kind) + 1 /\ Tally(r, p, kind) \in Nat
      /\ Tally(r, p + 1, kind) \in Nat /\ Tally(r, q, kind) \in Nat
      /\ IsFiniteSet(OfKind(r, q, kind))
  BY CountStep
<1>2. OfKind(r, p + 1, kind) \in SUBSET OfKind(r, q, kind)
  BY DEF OfKind
<1>3. Tally(r, p + 1, kind) <= Tally(r, q, kind)
  BY <1>1, <1>2, FS_Subset DEF Tally
<1> QED
  BY <1>1, <1>3

LEMMA CountApart ==
  ASSUME NEW r, NEW p \in Nat, NEW q \in Nat, p > 0, q > 0, NEW kind,
         r[p].kind = kind, r[q].kind = kind, Tally(r, p, kind) = Tally(r, q, kind)
  PROVE  p = q
<1>1. Tally(r, p, kind) \in Nat
  BY CountStep
<1>2. ~(p < q) /\ ~(q < p)
  BY <1>1, CountGrows
<1> QED
  BY <1>2

LEMMA CountReached ==
  ASSUME NEW r, NEW q \in Nat, NEW kind, NEW n \in Nat, q > 0, n < Tally(r, q, kind)
  PROVE  \E p \in 1 .. q - 1 : r[p].kind = kind /\ Tally(r, p, kind) = n
<1> DEFINE Found(k) == \E p \in 1 .. k : r[p].kind = kind /\ Tally(r, p, kind) = n
           T == {k \in Nat : n < Tally(r, k + 1, kind) => Found(k)}
<1>1. T = Nat
  <2>1. 0 \in T
    <3>1. OfKind(r, 1, kind) = {}
      BY DEF OfKind
    <3>2. Tally(r, 1, kind) = 0
      BY <3>1, FS_EmptySet DEF Tally
    <3> QED
      BY <3>2
  <2>2. ASSUME NEW k \in T PROVE k + 1 \in T
    <3>1. k \in Nat /\ k + 1 \in Nat /\ k + 1 > 0
      OBVIOUS
    <3>2. /\ Tally(r, k + 1, kind) \in Nat
          /\ Tally(r, (k + 1) + 1, kind) = IF r[k + 1].kind = kind THEN Tally(r, k + 1, kind) + 1
                                                                  ELSE Tally(r, k + 1, kind)
      <4>1. PICK m : m = k + 1
        OBVIOUS
      <4>2. /\ Tally(r, m, kind) \in Nat
            /\ Tally(r, m + 1, kind) = IF r[m].kind = kind THEN Tally(r, m, kind) + 1
                                                           ELSE Tally(r, m, kind)
        <5>1. m \in Nat /\ m > 0
          BY <3>1, <4>1
        <5> HIDE DEF T
        <5> QED
          BY <5>1, CountStep
      <4> QED
        BY <4>1, <4>2, Zenon
    <3>3. Found(k) => Found(k + 1)
      BY <3>1
    <3>4. CASE n < Tally(r, k + 1, kind)
      <4>1. Found(k)
        BY <3>4
      <4> HIDE DEF Found
      <4> QED
        BY <3>1, <3>3, <4>1
    <3>5. CASE ~(n < Tally(r, k + 1, kind))
      <4>1. n < Tally(r, (k + 1) + 1, kind) =>
              r[k + 1].kind = kind /\ Tally(r, k + 1, kind) = n
        BY <3>2, <3>5
      <4>2. k + 1 \in 1 .. k + 1
        BY <3>1
      <4> QED
        BY <3>1, <4>1, <4>2
    <3> QED
      BY <3>4, <3>5
  <2>3. T \in SUBSET Nat
    OBVIOUS
  <2> HIDE DEF T
  <2> QED
    BY <2>1, <2>2, <2>3, NatSetInduction
<1>2. q - 1 \in Nat /\ (q - 1) + 1 = q
  OBVIOUS
<1>3. q - 1 \in T
  <2> HIDE DEF T
  <2> QED
    BY <1>1, <1>2
<1> QED
  BY <1>2, <1>3

-----------------------------------------------------------------------------
(* Sequences joined to one hold what each of them holds.                   *)
LEMMA FlattenRange ==
  ASSUME NEW S, NEW seqs \in Seq(Seq(S))
  PROVE  Range(FlattenSeq(seqs)) = UNION {Range(seqs[k]) : k \in 1 .. Len(seqs)}
<1>1. Len(seqs) \in Nat /\ \A k \in 1 .. Len(seqs) : seqs[k] \in Seq(S)
  BY LenProperties, ElementOfSeq
<1>2. PICK e : Joins(e, seqs, S)
  BY JoinsExist
<1>3. /\ e \in [0 .. Len(seqs) -> Seq(S)] /\ e[0] = <<>>
      /\ \A k \in 1 .. Len(seqs) : e[k] = e[k - 1] \o seqs[k]
  BY <1>2 DEF Joins, Grows
<1> DEFINE Held(k) == UNION {Range(seqs[n]) : n \in 1 .. k}
           T == {k \in Nat : k <= Len(seqs) => Range(e[k]) = Held(k)}
<1>4. T = Nat
  <2>1. 0 \in T
    <3>1. Range(e[0]) = {}
      BY <1>3 DEF Range
    <3> QED
      BY <3>1
  <2>2. ASSUME NEW k \in T PROVE k + 1 \in T
    <3>1. k \in Nat /\ k + 1 \in Nat /\ (k + 1) - 1 = k
      OBVIOUS
    <3>2. CASE k + 1 <= Len(seqs)
      <4>1. k <= Len(seqs) /\ k \in 0 .. Len(seqs) /\ k + 1 \in 1 .. Len(seqs)
        BY <1>1, <3>1, <3>2
      <4>2. e[k] \in Seq(S) /\ seqs[k + 1] \in Seq(S)
        BY <1>1, <1>3, <4>1
      <4>3. e[k + 1] = e[k] \o seqs[k + 1]
        BY <1>3, <3>1, <4>1
      <4>4. Range(e[k] \o seqs[k + 1]) = Range(e[k]) \cup Range(seqs[k + 1])
        BY <4>2, RangeConcatenation
      <4>5. Range(e[k]) = Held(k)
        BY <4>1
      <4>6. Held(k + 1) = Held(k) \cup Range(seqs[k + 1])
        <5>1. 1 .. k + 1 = (1 .. k) \cup {k + 1}
          BY <3>1
        <5> QED
          BY <5>1
      <4> HIDE DEF Held
      <4>7. Range(e[k + 1]) = Held(k + 1)
        BY <4>3, <4>4, <4>5, <4>6
      <4> QED
        BY <3>1, <4>7
    <3> QED
      BY <3>1, <3>2
  <2>3. T \in SUBSET Nat
    OBVIOUS
  <2> HIDE DEF T
  <2> QED
    BY <2>1, <2>2, <2>3, NatSetInduction
<1>5. Range(e[Len(seqs)]) = Held(Len(seqs))
  <2>1. Len(seqs) \in T
    <3> HIDE DEF T
    <3> QED
      BY <1>1, <1>4
  <2> HIDE DEF Held
  <2> QED
    BY <1>1, <2>1
<1>6. FlattenSeq(seqs) = e[Len(seqs)]
  BY <1>2, FlattenIsLast
<1> QED
  BY <1>5, <1>6
=============================================================================
