------------------------------- MODULE Loops --------------------------------
(***************************************************************************)
(* Induction over the naturals and the loops defined by it, in a form that *)
(* the provers can use: a set or a function stands where the library's     *)
(* theorems have an operator.                                              *)
(***************************************************************************)
EXTENDS Integers, NaturalsInduction, WellFoundedInduction, TLAPS

\* A set of naturals that is not empty has a least one.
LEMMA LeastExists ==
  ASSUME NEW S, S \subseteq Nat, S # {}
  PROVE  \E x \in S : \A y \in S : x <= y
  <1>1. PICK x \in S : \A y \in S : ~(<<y, x>> \in OpToRel(<, Nat))
    BY NatLessThanWellFounded, WFMin
  <1>2. \A y \in S : ~(y < x)
    BY <1>1 DEF OpToRel
  <1> QED
    BY <1>2

\* A set that holds 0 and the successor of each of its naturals holds them all.
LEMMA SetInduction ==
  ASSUME NEW T, 0 \in T, \A n \in Nat : n \in T => n + 1 \in T
  PROVE  Nat \subseteq T
  <1> DEFINE Missing == Nat \ T
  <1> SUFFICES ASSUME Missing # {} PROVE FALSE
    OBVIOUS
  <1>1. PICK x \in Missing : \A y \in Missing : x <= y
    <2>1. Missing \subseteq Nat
      OBVIOUS
    <2> HIDE DEF Missing
    <2> QED
      BY <2>1, LeastExists
  <1>2. x - 1 \in Nat /\ ~(x <= x - 1)
    OBVIOUS
  <1>3. x - 1 \in T
    BY <1>1, <1>2
  <1> QED
    BY <1>2, <1>3

\* A loop of N rounds that begins with x and takes y to F[n][y] in round n.
IsLoop(g, X, x, N, F) ==
  g \in [0 .. N -> X] /\ g[0] = x /\ \A n \in 1 .. N : g[n] = F[n][g[n - 1]]

LEMMA LoopExists ==
  ASSUME NEW X, NEW x \in X, NEW N \in Nat, NEW F \in [1 .. N -> [X -> X]]
  PROVE  \E g : IsLoop(g, X, x, N, F)
  <1> DEFINE Good(k) == \E g \in [0 .. k -> X] : g[0] = x /\ \A n \in 1 .. k : g[n] = F[n][g[n - 1]]
             T == {k \in Nat : k <= N => Good(k)}
  <1>1. 0 \in T
    <2> DEFINE g == [i \in 0 .. 0 |-> x]
    <2>1. g \in [0 .. 0 -> X] /\ g[0] = x
      OBVIOUS
    <2>2. \A n \in 1 .. 0 : FALSE
      OBVIOUS
    <2> HIDE DEF g
    <2>3. Good(0)
      BY <2>1, <2>2
    <2> QED
      BY <2>3
  <1>2. ASSUME NEW k \in Nat, k \in T PROVE k + 1 \in T
    <2> SUFFICES ASSUME k + 1 <= N PROVE Good(k + 1)
      OBVIOUS
    <2>1. Good(k)
      BY <1>2
    <2>2. PICK g \in [0 .. k -> X] : g[0] = x /\ \A n \in 1 .. k : g[n] = F[n][g[n - 1]]
      BY <2>1
    <2> DEFINE h == [i \in 0 .. (k + 1) |-> IF i <= k THEN g[i] ELSE F[k + 1][g[k]]]
    <2>3. F[k + 1][g[k]] \in X
      BY <2>2
    <2>4. h \in [0 .. (k + 1) -> X]
      BY <2>2, <2>3
    <2>5. h[0] = x
      BY <2>2
    <2>6. ASSUME NEW n \in 1 .. (k + 1) PROVE h[n] = F[n][h[n - 1]]
      <3>1. h[n - 1] = g[n - 1]
        BY <2>6
      <3>2. CASE n <= k
        BY <2>2, <3>1, <3>2
      <3>3. CASE n = k + 1
        BY <3>1, <3>3
      <3> QED
        BY <3>2, <3>3
    <2> HIDE DEF h
    <2> QED
      BY <2>4, <2>5, <2>6
  <1>3. N \in T
    <2> HIDE DEF T
    <2> QED
      BY <1>1, <1>2, SetInduction
  <1>4. Good(N)
    BY <1>3
  <1> QED
    BY <1>4 DEF IsLoop

\* There is only one such loop.
LEMMA LoopsAgree ==
  ASSUME NEW X, NEW x, NEW N \in Nat, NEW F, NEW g, NEW h,
         IsLoop(g, X, x, N, F), IsLoop(h, X, x, N, F)
  PROVE  g = h
  <1> DEFINE T == {k \in Nat : k <= N => g[k] = h[k]}
  <1>1. 0 \in T
    BY DEF IsLoop
  <1>2. ASSUME NEW k \in Nat, k \in T PROVE k + 1 \in T
    <2> SUFFICES ASSUME k + 1 <= N PROVE g[k + 1] = h[k + 1]
      OBVIOUS
    <2>1. k + 1 \in 1 .. N /\ k + 1 - 1 = k /\ g[k] = h[k]
      BY <1>2
    <2> QED
      BY <2>1 DEF IsLoop
  <1>3. Nat \subseteq T
    <2> HIDE DEF T
    <2> QED
      BY <1>1, <1>2, SetInduction
  <1>4. \A k \in 0 .. N : g[k] = h[k]
    BY <1>3
  <1> QED
    BY <1>4 DEF IsLoop

\* A loop of one more round goes on where the shorter one ends.
LEMMA LoopGoesOn ==
  ASSUME NEW X, NEW x, NEW N \in Nat, NEW F, NEW G, NEW g, NEW h,
         IsLoop(g, X, x, N, F), IsLoop(h, X, x, N + 1, G), \A n \in 1 .. N : G[n] = F[n]
  PROVE  g[N] \in X /\ h[N + 1] = G[N + 1][g[N]]
  <1> DEFINE r == [n \in 0 .. N |-> h[n]]
  <1>1. /\ h \in [0 .. N + 1 -> X] /\ h[0] = x
        /\ \A n \in 1 .. N + 1 : h[n] = G[n][h[n - 1]]
    BY DEF IsLoop
  <1>2. r \in [0 .. N -> X] /\ r[0] = x
    BY <1>1
  <1>3. ASSUME NEW n \in 1 .. N PROVE r[n] = F[n][r[n - 1]]
    <2>1. n - 1 \in 0 .. N /\ n \in 0 .. N /\ n \in 1 .. N + 1
      OBVIOUS
    <2>2. h[n] = G[n][h[n - 1]]
      BY <1>1, <2>1
    <2> QED
      BY <2>1, <2>2
  <1>4. IsLoop(r, X, x, N, F)
    <2> HIDE DEF r
    <2> QED
      BY <1>2, <1>3 DEF IsLoop
  <1>5. g = r
    <2> HIDE DEF r
    <2> QED
      BY <1>4, LoopsAgree
  <1>6. g[N] = h[N]
    BY <1>5
  <1>7. g[N] \in X
    BY DEF IsLoop
  <1>8. h[N + 1] = G[N + 1][h[N]]
    BY <1>1
  <1> QED
    BY <1>6, <1>7, <1>8
=============================================================================
