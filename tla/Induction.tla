----------------------------- MODULE Induction -----------------------------
(***************************************************************************)
(* Induction over the natural numbers, by way of the least element a       *)
(* nonempty set of them has, and the functions it defines.  It knows       *)
(* nothing of the crawler: the proof modules that need it extend it.       *)
(***************************************************************************)
EXTENDS Integers, WellFoundedInduction, TLAPS

\* A nonempty set of naturals has a least element.
LEMMA LeastNat ==
  ASSUME NEW T, T \subseteq Nat, T # {}
  PROVE  \E n \in T : \A m \in T : n <= m
<1> DEFINE R == OpToRel(<, Nat)
<1>1. \A x, y \in Nat : y < x => <<y, x>> \in R
  BY DEF OpToRel
<1>2. IsWellFoundedOn(R, Nat)
  BY NatLessThanWellFounded
<1> HIDE DEF R
<1>3. PICK n \in T : \A m \in T : ~(<<m, n>> \in R)
  BY <1>2, WFMin
<1>4. ASSUME NEW m \in T PROVE n <= m
  <2>1. m \in Nat /\ n \in Nat /\ ~(m < n)
    BY <1>1, <1>3
  <2> QED BY <2>1
<1> QED BY <1>4

\* A set of naturals closed under successor is all of them.  What is proved by
\* induction is put as membership in such a set.
LEMMA NatInd ==
  ASSUME NEW T, T \subseteq Nat, 0 \in T, \A n \in T : n + 1 \in T
  PROVE  T = Nat
<1>1. SUFFICES ASSUME Nat \ T # {} PROVE FALSE
  OBVIOUS
<1>2. PICK n \in Nat \ T : \A m \in Nat \ T : n <= m
  BY <1>1, LeastNat
<1>3. n # 0 /\ n - 1 \in Nat /\ ~ (n <= n - 1)
  BY <1>2
<1>4. n - 1 \in T
  BY <1>2, <1>3
<1>5. n - 1 + 1 = n
  BY <1>3
<1> QED BY <1>2, <1>4, <1>5

\* f starts at b, and G[n] takes it from n to n + 1.
StepsIn(G, S) == G \in [Nat -> [S -> S]]
Follows(f, S, b, G) == f \in [Nat -> S] /\ f[0] = b /\ \A n \in Nat : f[n + 1] = G[n][f[n]]

\* Functions on Nat can be defined by recursion.
LEMMA NatRecursion ==
  ASSUME NEW S, NEW b \in S, NEW G, StepsIn(G, S)
  PROVE  \E f : Follows(f, S, b, G)
<1> USE DEF StepsIn
<1> DEFINE Upto(n, f) == f[0] = b /\ \A i \in Nat : i < n => f[i + 1] = G[i][f[i]]
           T == {n \in Nat : \E f \in [Nat -> S] : Upto(n, f)}
           Same == {i \in Nat : \A n, m \in Nat : \A f, g \in [Nat -> S] :
                       i <= n /\ i <= m /\ Upto(n, f) /\ Upto(m, g) => f[i] = g[i]}
<1>1. T = Nat
  <2>1. 0 \in T
    <3>1. [i \in Nat |-> b] \in [Nat -> S] /\ Upto(0, [i \in Nat |-> b])
      OBVIOUS
    <3> QED BY <3>1
  <2>2. ASSUME NEW n \in T PROVE n + 1 \in T
    <3>1. PICK f \in [Nat -> S] : Upto(n, f)
      OBVIOUS
    <3>2. n \in Nat /\ G[n][f[n]] \in S
      OBVIOUS
    <3> DEFINE g == [i \in Nat |-> IF i = n + 1 THEN G[n][f[n]] ELSE f[i]]
    <3>3. g \in [Nat -> S]
      BY <3>2
    <3>4. g[0] = b
      BY <3>1, <3>2
    <3>5. ASSUME NEW i \in Nat, i < n + 1 PROVE g[i + 1] = G[i][g[i]]
      <4>1. g[i] = f[i]
        BY <3>2, <3>5
      <4>2. CASE i = n
        BY <4>1, <4>2, <3>2
      <4>3. CASE i # n
        <5>1. i < n /\ i + 1 # n + 1 /\ i + 1 \in Nat
          BY <3>2, <3>5, <4>3
        <5>2. g[i + 1] = f[i + 1]
          BY <5>1
        <5> QED BY <3>1, <4>1, <5>1, <5>2
      <4> QED BY <4>2, <4>3
    <3> HIDE DEF g
    <3>6. n + 1 \in Nat /\ Upto(n + 1, g)
      BY <3>2, <3>4, <3>5
    <3> QED BY <3>3, <3>6
  <2> HIDE DEF T
  <2> QED BY <2>1, <2>2, NatInd DEF T
<1>2. Same = Nat
  <2>1. 0 \in Same
    OBVIOUS
  <2>2. ASSUME NEW i \in Same PROVE i + 1 \in Same
    <3>1. i \in Nat
      OBVIOUS
    <3>2. ASSUME NEW n \in Nat, NEW m \in Nat, NEW f \in [Nat -> S], NEW g \in [Nat -> S],
                 i + 1 <= n, i + 1 <= m, Upto(n, f), Upto(m, g)
          PROVE  f[i + 1] = g[i + 1]
      <4>1. i < n /\ i < m /\ i <= n /\ i <= m
        BY <3>1, <3>2
      <4>2. f[i] = g[i]
        BY <3>2, <4>1
      <4>3. f[i + 1] = G[i][f[i]] /\ g[i + 1] = G[i][g[i]]
        BY <3>1, <3>2, <4>1
      <4> QED BY <4>2, <4>3
    <3> HIDE DEF Upto
    <3> QED BY <3>1, <3>2
  <2> HIDE DEF Same
  <2> QED BY <2>1, <2>2, NatInd DEF Same
<1> DEFINE h(n) == CHOOSE f \in [Nat -> S] : Upto(n, f)
           F == [n \in Nat |-> h(n)[n]]
<1>3. ASSUME NEW n \in Nat PROVE h(n) \in [Nat -> S] /\ Upto(n, h(n))
  <2>1. \E f \in [Nat -> S] : Upto(n, f)
    BY <1>1
  <2> HIDE DEF Upto
  <2> QED BY <2>1
<1>4. ASSUME NEW n \in Nat PROVE h(n + 1)[n] = h(n)[n]
  <2>0. n + 1 \in Nat /\ n <= n /\ n <= n + 1
    OBVIOUS
  <2>1. n \in Same /\ n + 1 \in Nat /\ n <= n /\ n <= n + 1
    <3> HIDE DEF Same
    <3> QED BY <1>2, <2>0
  <2>2. /\ h(n) \in [Nat -> S] /\ Upto(n, h(n))
        /\ h(n + 1) \in [Nat -> S] /\ Upto(n + 1, h(n + 1))
    BY <1>3, <2>1
  <2> HIDE DEF Upto, h
  <2> QED BY <2>1, <2>2
<1> HIDE DEF h
<1>5. F \in [Nat -> S]
  BY <1>3
<1>6. F[0] = b
  BY <1>3
<1>7. ASSUME NEW n \in Nat PROVE F[n + 1] = G[n][F[n]]
  <2>1. n + 1 \in Nat /\ n < n + 1 /\ Upto(n + 1, h(n + 1))
    BY <1>3
  <2>2. h(n + 1)[n + 1] = G[n][h(n + 1)[n]]
    BY <2>1
  <2> QED BY <2>1, <2>2, <1>4
<1> QED BY <1>5, <1>6, <1>7 DEF Follows
-----------------------------------------------------------------------------
(* The same for what is defined over the prefixes of a sequence.           *)

LEMMA PrefixInd ==
  ASSUME NEW N \in Nat, NEW T, 0 \in T, \A n \in 0..N - 1 : n \in T => n + 1 \in T
  PROVE  \A n \in 0..N : n \in T
<1> DEFINE Q == {n \in Nat : n <= N => n \in T}
<1>1. 0 \in Q
  OBVIOUS
<1>2. ASSUME NEW n \in Q PROVE n + 1 \in Q
  <2>1. n \in Nat /\ (n <= N => n \in T)
    OBVIOUS
  <2>2. ASSUME n + 1 <= N PROVE n + 1 \in T
    <3>1. n \in 0..N - 1 /\ n \in T
      BY <2>1, <2>2
    <3> QED BY <3>1
  <2> QED BY <2>1, <2>2
<1>3. Q = Nat
  <2> HIDE DEF Q
  <2> QED BY <1>1, <1>2, NatInd DEF Q
<1> QED BY <1>3

\* W goes from b through the N steps of G.
Walks(W, S, N, b, G) ==
  /\ W \in [0..N -> S] /\ W[0] = b
  /\ \A n \in 1..N : W[n] = G[n][W[n - 1]]

LEMMA PrefixRecursion ==
  ASSUME NEW S, NEW N \in Nat, NEW b \in S, NEW G \in [1..N -> [S -> S]]
  PROVE  \E W : Walks(W, S, N, b, G)
<1> DEFINE H == [n \in Nat |-> [x \in S |-> IF n < N THEN G[n + 1][x] ELSE x]]
<1>1. StepsIn(H, S)
  <2>1. ASSUME NEW n \in Nat, NEW x \in S PROVE (IF n < N THEN G[n + 1][x] ELSE x) \in S
    <3>1. CASE n < N
      <4>1. n + 1 \in 1..N
        BY <3>1
      <4>2. G[n + 1] \in [S -> S]
        BY <4>1
      <4> QED BY <3>1, <4>2
    <3> QED BY <3>1
  <2> QED BY <2>1 DEF StepsIn
<1>2. \A n \in Nat : \A x \in S : n < N => H[n][x] = G[n + 1][x]
  OBVIOUS
<1> HIDE DEF H
<1>3. PICK h : Follows(h, S, b, H)
  BY <1>1, NatRecursion
<1> DEFINE W == [n \in 0..N |-> h[n]]
<1>4. W \in [0..N -> S] /\ W[0] = b
  BY <1>3 DEF Follows
<1>5. ASSUME NEW n \in 1..N PROVE W[n] = G[n][W[n - 1]]
  <2>1. n - 1 \in Nat /\ n - 1 < N /\ n - 1 + 1 = n /\ n \in 0..N /\ n - 1 \in 0..N
    OBVIOUS
  <2>2. h[n - 1] \in S /\ h[n - 1 + 1] = H[n - 1][h[n - 1]]
    BY <1>3, <2>1 DEF Follows
  <2>3. H[n - 1][h[n - 1]] = G[n - 1 + 1][h[n - 1]]
    BY <1>2, <2>1, <2>2
  <2>4. h[n] = G[n][h[n - 1]]
    BY <2>1, <2>2, <2>3
  <2> QED BY <2>1, <2>4
<1> HIDE DEF W
<1>6. Walks(W, S, N, b, G)
  BY <1>4, <1>5 DEF Walks
<1> QED BY <1>6
=============================================================================
