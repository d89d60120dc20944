--------------------------- MODULE ReportsProofs ----------------------------
(***************************************************************************)
(* What the two passes of a report agree on, for every set of items, every *)
(* size of names and fixed parts, every limit of a fragment and any number *)
(* of changes by others before, between and after the steps of the walk.   *)
(***************************************************************************)
EXTENDS Reports, Loops, TLAPS, FiniteSetTheorems, SequenceTheorems

-----------------------------------------------------------------------------
(* Sums *)

\* The rounds of a sum.
Adds(v) == [n \in 1 .. Len(v) |-> [x \in Nat |-> x + v[n]]]

LEMMA TotalIsLoop ==
  ASSUME NEW v \in Seq(Nat)
  PROVE  \E g : IsLoop(g, Nat, 0, Len(v), Adds(v)) /\ Total(v) = g[Len(v)]
  <1> DEFINE N == Len(v)
             Rounds(g) == [n \in 0 .. N |-> IF n = 0 THEN 0 ELSE g[n - 1] + v[n]]
             sum == CHOOSE g : g = Rounds(g)
  <1>1. N \in Nat /\ \A n \in 1 .. N : v[n] \in Nat
    OBVIOUS
  <1>2. Adds(v) \in [1 .. N -> [Nat -> Nat]]
    BY <1>1 DEF Adds
  <1>3. \A g : g = Rounds(g) <=> IsLoop(g, Nat, 0, N, Adds(v))
    <2> SUFFICES ASSUME NEW g PROVE g = Rounds(g) <=> IsLoop(g, Nat, 0, N, Adds(v))
      OBVIOUS
    <2>1. ASSUME IsLoop(g, Nat, 0, N, Adds(v)) PROVE g = Rounds(g)
      <3>1. g \in [0 .. N -> Nat] /\ g[0] = 0
        BY <2>1 DEF IsLoop
      <3>2. ASSUME NEW n \in 1 .. N PROVE g[n] = g[n - 1] + v[n]
        <4>1. n - 1 \in 0 .. N
          BY <1>1
        <4>2. g[n - 1] \in Nat /\ g[n] = Adds(v)[n][g[n - 1]]
          BY <2>1, <3>1, <4>1 DEF IsLoop
        <4> QED
          BY <4>2 DEF Adds
      <3>3. \A n \in 0 .. N : g[n] = IF n = 0 THEN 0 ELSE g[n - 1] + v[n]
        BY <1>1, <3>1, <3>2
      <3> QED
        BY <3>1, <3>3
    <2>2. ASSUME g = Rounds(g) PROVE IsLoop(g, Nat, 0, N, Adds(v))
      <3>1. g[0] = 0 /\ DOMAIN g = 0 .. N /\ \A n \in 1 .. N : g[n] = g[n - 1] + v[n]
        BY <1>1, <2>2
      <3> DEFINE T == {k \in Nat : k <= N => g[k] \in Nat}
      <3>2. 0 \in T
        BY <3>1
      <3>3. ASSUME NEW k \in Nat, k \in T PROVE k + 1 \in T
        <4> SUFFICES ASSUME k + 1 <= N PROVE g[k + 1] \in Nat
          OBVIOUS
        <4>1. k + 1 \in 1 .. N /\ k + 1 - 1 = k /\ g[k] \in Nat
          BY <1>1, <3>3
        <4>2. g[k + 1] = g[k] + v[k + 1] /\ v[k + 1] \in Nat
          BY <1>1, <3>1, <4>1
        <4> QED
          BY <4>1, <4>2
      <3>4. Nat \subseteq T
        <4> HIDE DEF T
        <4> QED
          BY <3>2, <3>3, SetInduction
      <3>5. \A n \in 0 .. N : g[n] \in Nat
        BY <3>4
      <3>6. g \in [0 .. N -> Nat]
        BY <2>2, <3>5
      <3>7. \A n \in 1 .. N : g[n] = Adds(v)[n][g[n - 1]]
        <4> SUFFICES ASSUME NEW n \in 1 .. N PROVE g[n] = Adds(v)[n][g[n - 1]]
          OBVIOUS
        <4>1. n - 1 \in 0 .. N
          BY <1>1
        <4>2. g[n - 1] \in Nat
          BY <3>5, <4>1
        <4> QED
          BY <3>1, <4>2 DEF Adds
      <3> QED
        BY <3>1, <3>6, <3>7 DEF IsLoop
    <2> QED
      BY <2>1, <2>2
  <1>4. \E g : g = Rounds(g)
    <2>1. \E g : IsLoop(g, Nat, 0, N, Adds(v))
      <3> HIDE DEF N
      <3> QED
        BY <1>1, <1>2, LoopExists
    <2> HIDE DEF Rounds
    <2> QED
      BY <1>3, <2>1
  <1>5. sum = Rounds(sum)
    <2> HIDE DEF Rounds
    <2> QED
      BY <1>4
  <1>6. Total(v) = sum[N]
    BY DEF Total
  <1> HIDE DEF sum, Rounds
  <1> QED
    BY <1>3, <1>5, <1>6

LEMMA TotalAppend ==
  ASSUME NEW v \in Seq(Nat), NEW x \in Nat
  PROVE  Total(v) \in Nat /\ Total(Append(v, x)) = Total(v) + x
  <1> DEFINE N == Len(v)  w == Append(v, x)
  <1>1. /\ N \in Nat /\ w \in Seq(Nat) /\ Len(w) = N + 1
        /\ w[N + 1] = x /\ \A n \in 1 .. N : w[n] = v[n]
    OBVIOUS
  <1>2. PICK g : IsLoop(g, Nat, 0, N, Adds(v)) /\ Total(v) = g[N]
    BY TotalIsLoop
  <1>3. PICK h : IsLoop(h, Nat, 0, N + 1, Adds(w)) /\ Total(w) = h[N + 1]
    BY <1>1, TotalIsLoop
  <1>4. \A n \in 1 .. N : Adds(w)[n] = Adds(v)[n]
    <2> SUFFICES ASSUME NEW n \in 1 .. N PROVE Adds(w)[n] = Adds(v)[n]
      OBVIOUS
    <2>1. n \in 1 .. Len(w) /\ w[n] = v[n]
      BY <1>1
    <2> HIDE DEF w
    <2> QED
      BY <2>1 DEF Adds
  <1>5. g[N] \in Nat /\ h[N + 1] = Adds(w)[N + 1][g[N]]
    <2> HIDE DEF w, N
    <2> QED
      BY <1>1, <1>2, <1>3, <1>4, LoopGoesOn
  <1>6. Adds(w)[N + 1][g[N]] = g[N] + x
    <2>1. N + 1 \in 1 .. Len(w)
      BY <1>1
    <2> HIDE DEF w, N
    <2> QED
      BY <1>1, <1>5, <2>1 DEF Adds
  <1> QED
    BY <1>2, <1>3, <1>5, <1>6

LEMMA TotalEmpty == Total(<< >>) = 0
  <1>1. << >> \in Seq(Nat)
    OBVIOUS
  <1>2. PICK g : IsLoop(g, Nat, 0, Len(<< >>), Adds(<< >>)) /\ Total(<< >>) = g[Len(<< >>)]
    BY <1>1, TotalIsLoop, Zenon
  <1> QED
    BY <1>2 DEF IsLoop

-----------------------------------------------------------------------------
(* Fragments put end to end *)

\* The rounds of FlattenSeq.
Joins(X, ff) == [n \in 1 .. Len(ff) |-> [s \in Seq(X) |-> s \o ff[n]]]

LEMMA FlattenIsLoop ==
  ASSUME NEW X, NEW ff \in Seq(Seq(X))
  PROVE  \E g : IsLoop(g, Seq(X), << >>, Len(ff), Joins(X, ff)) /\ FlattenSeq(ff) = g[Len(ff)]
  <1> DEFINE N == Len(ff)
             Rounds(f) == [i \in 1 .. N |-> IF i = 1 THEN ff[i] ELSE f[i - 1] \o ff[i]]
             flatten == CHOOSE f : f = Rounds(f)
  <1>1. N \in Nat /\ \A n \in 1 .. N : ff[n] \in Seq(X)
    OBVIOUS
  <1>2. Joins(X, ff) \in [1 .. N -> [Seq(X) -> Seq(X)]]
    BY <1>1 DEF Joins
  <1>3. << >> \in Seq(X) /\ \A s \in Seq(X) : << >> \o s = s
    BY ConcatEmptySeq
  <1>4. PICK g : IsLoop(g, Seq(X), << >>, N, Joins(X, ff))
    <2> HIDE DEF N
    <2> QED
      BY <1>1, <1>2, <1>3, LoopExists
  <1>5. g \in [0 .. N -> Seq(X)] /\ g[0] = << >>
    BY <1>4 DEF IsLoop
  <1>6. ASSUME NEW n \in 1 .. N PROVE g[n] = g[n - 1] \o ff[n]
    <2>1. n - 1 \in 0 .. N
      BY <1>1
    <2>2. g[n - 1] \in Seq(X) /\ g[n] = Joins(X, ff)[n][g[n - 1]]
      BY <1>4, <1>5, <2>1 DEF IsLoop
    <2> QED
      BY <2>2 DEF Joins
  <1>7. CASE N = 0
    <2>1. FlattenSeq(ff) = ff /\ ff = << >>
      BY <1>7 DEF FlattenSeq
    <2> QED
      BY <1>4, <1>5, <1>7, <2>1
  <1>8. CASE N # 0
    <2>1. FlattenSeq(ff) = flatten[N]
      BY <1>8 DEF FlattenSeq
    <2>2. \E f : f = Rounds(f)
      <3> DEFINE f == [i \in 1 .. N |-> g[i]]
      <3>1. \A i \in 1 .. N : f[i] = IF i = 1 THEN ff[i] ELSE f[i - 1] \o ff[i]
        <4> SUFFICES ASSUME NEW i \in 1 .. N
                     PROVE  f[i] = IF i = 1 THEN ff[i] ELSE f[i - 1] \o ff[i]
          OBVIOUS
        <4>1. f[i] = g[i - 1] \o ff[i]
          BY <1>6
        <4>2. CASE i = 1
          <5>1. i - 1 = 0 /\ ff[i] \in Seq(X)
            BY <1>1, <4>2
          <5>2. f[i] = << >> \o ff[i]
            BY <1>5, <4>1, <5>1, Zenon
          <5> QED
            BY <1>3, <4>2, <5>1, <5>2, Zenon
        <4>3. CASE i # 1
          <5>1. i - 1 \in 1 .. N
            BY <1>1, <4>3
          <5> QED
            BY <4>1, <4>3, <5>1
        <4> QED
          BY <4>2, <4>3
      <3>2. f = Rounds(f)
        BY <3>1
      <3> QED
        BY <3>2
    <2>3. flatten = Rounds(flatten)
      <3> HIDE DEF Rounds
      <3> QED
        BY <2>2
    <2> HIDE DEF flatten
    <2>4. /\ flatten[1] = ff[1]
          /\ \A i \in 1 .. N : i # 1 => flatten[i] = flatten[i - 1] \o ff[i]
      <3>1. \A i \in 1 .. N : flatten[i] = IF i = 1 THEN ff[i] ELSE flatten[i - 1] \o ff[i]
        BY <2>3, Zenon
      <3>2. 1 \in 1 .. N
        BY <1>1, <1>8
      <3> QED
        BY <3>1, <3>2, Zenon
    <2>5. flatten[1] = g[1]
      <3>1. 1 \in 1 .. N /\ 1 - 1 = 0
        BY <1>1, <1>8
      <3>2. g[1] = << >> \o ff[1]
        BY <1>5, <1>6, <3>1, Zenon
      <3> QED
        BY <1>1, <1>3, <2>4, <3>1, <3>2, Zenon
    <2>6. ASSUME NEW k \in 1 .. N, k + 1 <= N, flatten[k] = g[k] PROVE flatten[k + 1] = g[k + 1]
      <3>1. k + 1 \in 1 .. N /\ k + 1 # 1 /\ (k + 1) - 1 = k
        BY <1>1, <2>6
      <3> DEFINE m == k + 1
      <3>2. m \in 1 .. N /\ m # 1 /\ m - 1 = k
        BY <3>1
      <3> HIDE DEF m
      <3>3. flatten[m] = flatten[m - 1] \o ff[m] /\ g[m] = g[m - 1] \o ff[m]
        BY <1>6, <2>4, <3>2, Zenon
      <3>4. flatten[m] = g[m]
        BY <2>6, <3>2, <3>3, Zenon
      <3> QED
        BY <3>4 DEF m
    <2> DEFINE T == {k \in Nat : k \in 1 .. N => flatten[k] = g[k]}
    <2>7. 0 \in T
      OBVIOUS
    <2>8. ASSUME NEW k \in Nat, k \in T PROVE k + 1 \in T
      <3> SUFFICES ASSUME k + 1 \in 1 .. N PROVE flatten[k + 1] = g[k + 1]
        OBVIOUS
      <3>1. CASE k = 0
        BY <2>5, <3>1
      <3>2. CASE k # 0
        <4>1. k \in 1 .. N /\ k + 1 <= N
          BY <1>1, <3>2
        <4> QED
          BY <2>6, <2>8, <4>1
      <3> QED
        BY <3>1, <3>2
    <2>9. flatten[N] = g[N]
      <3>1. Nat \subseteq T
        <4> HIDE DEF T
        <4> QED
          BY <2>7, <2>8, SetInduction
      <3>2. N \in 1 .. N /\ N \in Nat
        BY <1>1, <1>8
      <3> QED
        BY <3>1, <3>2
    <2> QED
      BY <1>4, <2>1, <2>9
  <1> QED
    BY <1>7, <1>8

LEMMA FlattenAppend ==
  ASSUME NEW X, NEW ff \in Seq(Seq(X)), NEW f \in Seq(X)
  PROVE  /\ FlattenSeq(ff) \in Seq(X)
         /\ FlattenSeq(Append(ff, f)) = FlattenSeq(ff) \o f
  <1> DEFINE N == Len(ff)  w == Append(ff, f)
  <1>1. /\ N \in Nat /\ w \in Seq(Seq(X)) /\ Len(w) = N + 1
        /\ w[N + 1] = f /\ \A n \in 1 .. N : w[n] = ff[n]
    OBVIOUS
  <1>2. PICK g : IsLoop(g, Seq(X), << >>, N, Joins(X, ff)) /\ FlattenSeq(ff) = g[N]
    BY FlattenIsLoop
  <1>3. PICK h : IsLoop(h, Seq(X), << >>, N + 1, Joins(X, w)) /\ FlattenSeq(w) = h[N + 1]
    BY <1>1, FlattenIsLoop
  <1>4. \A n \in 1 .. N : Joins(X, w)[n] = Joins(X, ff)[n]
    <2> SUFFICES ASSUME NEW n \in 1 .. N PROVE Joins(X, w)[n] = Joins(X, ff)[n]
      OBVIOUS
    <2>1. n \in 1 .. Len(w) /\ w[n] = ff[n]
      BY <1>1
    <2> HIDE DEF w
    <2> QED
      BY <2>1 DEF Joins
  <1>5. g[N] \in Seq(X) /\ h[N + 1] = Joins(X, w)[N + 1][g[N]]
    <2> HIDE DEF w, N
    <2> QED
      BY <1>1, <1>2, <1>3, <1>4, LoopGoesOn
  <1>6. Joins(X, w)[N + 1][g[N]] = g[N] \o f
    <2>1. N + 1 \in 1 .. Len(w)
      BY <1>1
    <2> HIDE DEF w, N
    <2> QED
      BY <1>1, <1>5, <2>1 DEF Joins
  <1> QED
    BY <1>2, <1>3, <1>5, <1>6

LEMMA FlattenEmpty == FlattenSeq(<< >>) = << >>
  BY DEF FlattenSeq

-----------------------------------------------------------------------------
(* Sizes of fragments and reports *)

\* A sum over the members of a sequence.
Over(F, s) == [n \in 1 .. Len(s) |-> F[s[n]]]

LEMMA TotalOverAppend ==
  ASSUME NEW X, NEW F \in [X -> Nat], NEW s \in Seq(X), NEW x \in X
  PROVE  /\ Total(Over(F, s)) \in Nat
         /\ Total(Over(F, Append(s, x))) = Total(Over(F, s)) + F[x]
  <1>1. /\ Append(s, x) \in Seq(X) /\ Len(Append(s, x)) = Len(s) + 1 /\ Len(s) \in Nat
        /\ Append(s, x)[Len(s) + 1] = x /\ \A n \in 1 .. Len(s) : Append(s, x)[n] = s[n]
        /\ \A n \in 1 .. Len(s) : s[n] \in X
    OBVIOUS
  <1>2. Over(F, s) \in Seq(Nat) /\ Len(Over(F, s)) = Len(s) /\ F[x] \in Nat
    BY <1>1 DEF Over
  <1>3. Over(F, Append(s, x)) = Append(Over(F, s), F[x])
    <2>1. \A n \in 1 .. Len(s) + 1 : Append(Over(F, s), F[x])[n] = F[Append(s, x)[n]]
      <3> SUFFICES ASSUME NEW n \in 1 .. Len(s) + 1
                   PROVE  Append(Over(F, s), F[x])[n] = F[Append(s, x)[n]]
        OBVIOUS
      <3>1. CASE n \in 1 .. Len(s)
        <4>1. Append(Over(F, s), F[x])[n] = Over(F, s)[n]
          BY <1>2, <3>1
        <4> QED
          BY <1>1, <3>1, <4>1 DEF Over
      <3>2. CASE n = Len(s) + 1
        BY <1>1, <1>2, <3>2
      <3>3. n \in 1 .. Len(s) \/ n = Len(s) + 1
        BY <1>1
      <3> QED
        BY <3>1, <3>2, <3>3, Zenon
    <2>2. /\ Append(Over(F, s), F[x]) \in Seq(Nat)
          /\ Len(Append(Over(F, s), F[x])) = Len(s) + 1
      BY <1>2
    <2>3. Append(Over(F, s), F[x]) = [n \in 1 .. Len(s) + 1 |-> Append(Over(F, s), F[x])[n]]
      BY <2>2
    <2> QED
      BY <1>1, <2>1, <2>3 DEF Over
  <1> QED
    BY <1>2, <1>3, TotalAppend

LEMMA ShareTyped ==
  ASSUME NEW k \in Kind, NEW p \in Pointer
  PROVE  /\ Share(k, p) \in Nat /\ Share(k, p) <= MaxFragment
         /\ Copied(k, p) \in Nat
  <1>1. p.item \in Item
    BY DEF Pointer
  <1>2. Fixed[k] \in Nat /\ Name[p.item] \in Nat /\ Fixed[k] + Name[p.item] <= MaxFragment
    BY <1>1, ReportsAssumption
  <1>3. MaxFragment \in Nat
    BY ReportsAssumption
  <1> QED
    BY <1>2, <1>3 DEF Share, Copied

LEMMA SumAppend ==
  ASSUME NEW k \in Kind, NEW s \in Seq(Pointer), NEW p \in Pointer
  PROVE  Sum(k, s) \in Nat /\ Sum(k, Append(s, p)) = Sum(k, s) + Share(k, p)
  <1> DEFINE F == [q \in Pointer |-> Share(k, q)]
  <1>1. F \in [Pointer -> Nat]
    BY ShareTyped
  <1>2. ASSUME NEW t \in Seq(Pointer) PROVE Sum(k, t) = Total(Over(F, t))
    <2>1. \A n \in 1 .. Len(t) : t[n] \in Pointer
      OBVIOUS
    <2>2. Over(F, t) = [n \in 1 .. Len(t) |-> Share(k, t[n])]
      BY <2>1 DEF Over
    <2> QED
      BY <2>2 DEF Sum
  <1>3. Append(s, p) \in Seq(Pointer) /\ F[p] = Share(k, p)
    OBVIOUS
  <1> HIDE DEF F
  <1>4. Total(Over(F, s)) \in Nat /\ Total(Over(F, Append(s, p))) = Total(Over(F, s)) + F[p]
    BY <1>1, TotalOverAppend
  <1> QED
    BY <1>2, <1>3, <1>4, Zenon

LEMMA BytesAppend ==
  ASSUME NEW k \in Kind, NEW s \in Seq(Pointer), NEW p \in Pointer
  PROVE  Bytes(k, s) \in Nat /\ Bytes(k, Append(s, p)) = Bytes(k, s) + Copied(k, p)
  <1> DEFINE F == [q \in Pointer |-> Copied(k, q)]
  <1>1. F \in [Pointer -> Nat]
    BY ShareTyped
  <1>2. ASSUME NEW t \in Seq(Pointer) PROVE Bytes(k, t) = Total(Over(F, t))
    <2>1. \A n \in 1 .. Len(t) : t[n] \in Pointer
      OBVIOUS
    <2>2. Over(F, t) = [n \in 1 .. Len(t) |-> Copied(k, t[n])]
      BY <2>1 DEF Over
    <2> QED
      BY <2>2 DEF Bytes
  <1>3. Append(s, p) \in Seq(Pointer) /\ F[p] = Copied(k, p)
    OBVIOUS
  <1> HIDE DEF F
  <1>4. Total(Over(F, s)) \in Nat /\ Total(Over(F, Append(s, p))) = Total(Over(F, s)) + F[p]
    BY <1>1, TotalOverAppend
  <1> QED
    BY <1>2, <1>3, <1>4, Zenon

LEMMA BytesTyped ==
  ASSUME NEW k \in Kind, NEW s \in Seq(Pointer)
  PROVE  Bytes(k, s) \in Nat
  <1> DEFINE v == [n \in 1 .. Len(s) |-> Copied(k, s[n])]
  <1>1. \A n \in 1 .. Len(s) : s[n] \in Pointer
    OBVIOUS
  <1>2. v \in Seq(Nat)
    BY <1>1, ShareTyped
  <1> HIDE DEF v
  <1>3. Total(v) \in Nat
    BY <1>2, TotalAppend
  <1> QED
    BY <1>3 DEF Bytes, v

LEMMA WrittenAppend ==
  ASSUME NEW k \in Kind, NEW ff \in Seq(Seq(Pointer)), NEW f \in Seq(Pointer)
  PROVE  /\ Written(ff, k) \in Nat
         /\ Written(Append(ff, f), k) = Written(ff, k) + 16 + Bytes(k, f)
  <1> DEFINE F == [s \in Seq(Pointer) |-> 16 + Bytes(k, s)]
  <1>1. F \in [Seq(Pointer) -> Nat]
    BY BytesTyped
  <1>2. ASSUME NEW t \in Seq(Seq(Pointer)) PROVE Written(t, k) = 8 + Total(Over(F, t))
    <2>1. \A n \in 1 .. Len(t) : t[n] \in Seq(Pointer)
      OBVIOUS
    <2>2. Over(F, t) = [n \in 1 .. Len(t) |-> 16 + Bytes(k, t[n])]
      BY <2>1 DEF Over
    <2> QED
      BY <2>2 DEF Written
  <1>3. Append(ff, f) \in Seq(Seq(Pointer)) /\ F[f] = 16 + Bytes(k, f) /\ Bytes(k, f) \in Nat
    BY BytesTyped
  <1> HIDE DEF F
  <1>4. Total(Over(F, ff)) \in Nat /\ Total(Over(F, Append(ff, f))) = Total(Over(F, ff)) + F[f]
    BY <1>1, TotalOverAppend
  <1>5. Written(ff, k) = 8 + Total(Over(F, ff)) /\ Written(Append(ff, f), k) = 8 + Total(Over(F, Append(ff, f)))
    BY <1>2, <1>3
  <1>6. \A t, b \in Nat : 8 + t \in Nat /\ 8 + (t + (16 + b)) = (8 + t) + 16 + b
    OBVIOUS
  <1> DEFINE t == Total(Over(F, ff))  b == Bytes(k, f)
  <1>7. t \in Nat /\ b \in Nat /\ Written(ff, k) = 8 + t /\ Written(Append(ff, f), k) = 8 + (t + (16 + b))
    BY <1>3, <1>4, <1>5, Zenon
  <1> HIDE DEF t
  <1> QED
    BY <1>6, <1>7

LEMMA EmptySizes ==
  ASSUME NEW k \in Kind
  PROVE  Sum(k, << >>) = 0 /\ Bytes(k, << >>) = 0 /\ Written(<< >>, k) = 8
  <1>1. /\ [n \in 1 .. Len(<< >>) |-> Share(k, << >>[n])] = << >>
        /\ [n \in 1 .. Len(<< >>) |-> Copied(k, << >>[n])] = << >>
        /\ [n \in 1 .. Len(<< >>) |-> 16 + Bytes(k, << >>[n])] = << >>
    OBVIOUS
  <1> QED
    BY <1>1, TotalEmpty DEF Sum, Bytes, Written

-----------------------------------------------------------------------------
(* The first pass *)

LEMMA SizesOfOne ==
  ASSUME NEW k \in Kind, NEW p \in Pointer
  PROVE  Sum(k, <<p>>) = Share(k, p) /\ Bytes(k, <<p>>) = Copied(k, p)
  <1>1. << >> \in Seq(Pointer) /\ <<p>> = Append(<< >>, p)
    OBVIOUS
  <1>2. Sum(k, Append(<< >>, p)) = Sum(k, << >>) + Share(k, p)
    BY <1>1, SumAppend, Zenon
  <1>3. Bytes(k, Append(<< >>, p)) = Bytes(k, << >>) + Copied(k, p)
    BY <1>1, BytesAppend, Zenon
  <1>4. Share(k, p) \in Nat /\ Copied(k, p) \in Nat
    BY ShareTyped
  <1>5. Sum(k, <<p>>) = 0 + Share(k, p) /\ Bytes(k, <<p>>) = 0 + Copied(k, p)
    BY <1>1, <1>2, <1>3, EmptySizes, Zenon
  <1> QED
    BY <1>4, <1>5

\* A fragment is closed and the item opens the next one.
LEMMA WellCutOpens ==
  ASSUME NEW k \in Kind, NEW f \in Seq(Seq(Pointer)), NEW p \in Pointer,
         WellCut(k, f), f # << >>, Sum(k, f[Len(f)]) + Share(k, p) > MaxFragment
  PROVE  WellCut(k, Append(f, <<p>>))
  <1> DEFINE g == Append(f, <<p>>)
  <1>1. /\ <<p>> \in Seq(Pointer) /\ Len(f) \in Nat /\ Len(f) # 0
        /\ Len(g) = Len(f) + 1 /\ DOMAIN g = 1 .. Len(f) + 1 /\ DOMAIN f = 1 .. Len(f)
        /\ g[Len(f) + 1] = <<p>> /\ \A n \in 1 .. Len(f) : g[n] = f[n]
    OBVIOUS
  <1>2. <<p>> # << >> /\ <<p>>[1] = p /\ Sum(k, <<p>>) <= MaxFragment
    BY SizesOfOne, ShareTyped
  <1> HIDE DEF g
  <1>3. ASSUME NEW n \in DOMAIN g PROVE g[n] # << >> /\ Sum(k, g[n]) <= MaxFragment
    <2>1. CASE n \in 1 .. Len(f)
      BY <1>1, <2>1 DEF WellCut
    <2>2. CASE n = Len(f) + 1
      BY <1>1, <1>2, <2>2
    <2> QED
      BY <1>1, <2>1, <2>2
  <1>4. ASSUME NEW n \in DOMAIN g \ {1} PROVE Sum(k, g[n - 1]) + Share(k, g[n][1]) > MaxFragment
    <2>1. CASE n \in 1 .. Len(f)
      <3>1. n - 1 \in 1 .. Len(f) /\ n \in DOMAIN f \ {1}
        BY <1>1, <2>1
      <3>2. g[n - 1] = f[n - 1] /\ g[n] = f[n]
        BY <1>1, <2>1, <3>1
      <3> QED
        BY <3>1, <3>2 DEF WellCut
    <2>2. CASE n = Len(f) + 1
      <3>1. n - 1 = Len(f) /\ Len(f) \in 1 .. Len(f)
        BY <1>1, <2>2
      <3>2. g[n - 1] = f[Len(f)] /\ g[n][1] = p
        BY <1>1, <1>2, <2>2, <3>1
      <3> QED
        BY <3>2
    <2> QED
      BY <1>1, <2>1, <2>2
  <1>5. WellCut(k, g)
    BY <1>3, <1>4 DEF WellCut
  <1> QED
    BY <1>5 DEF g

\* The item joins the open fragment.
LEMMA WellCutGrows ==
  ASSUME NEW k \in Kind, NEW done \in Seq(Seq(Pointer)), NEW open \in Seq(Pointer), NEW p \in Pointer,
         WellCut(k, Append(done, open)), open # << >>, Sum(k, open) + Share(k, p) <= MaxFragment
  PROVE  WellCut(k, Append(done, Append(open, p)))
  <1> DEFINE f == Append(done, open)  new == Append(open, p)  g == Append(done, new)
  <1>1. /\ Len(open) \in Nat /\ Len(open) # 0 /\ new \in Seq(Pointer) /\ new # << >>
        /\ new[1] = open[1]
    OBVIOUS
  <1>2. Sum(k, new) <= MaxFragment
    BY SumAppend
  <1> HIDE DEF new
  <1>3. /\ Len(done) \in Nat /\ DOMAIN f = 1 .. Len(done) + 1 /\ DOMAIN g = 1 .. Len(done) + 1
        /\ f[Len(done) + 1] = open /\ g[Len(done) + 1] = new
        /\ \A n \in 1 .. Len(done) : f[n] = done[n] /\ g[n] = done[n]
    BY <1>1
  <1> HIDE DEF f, g
  <1>4. WellCut(k, f)
    BY DEF f
  <1>5. ASSUME NEW n \in DOMAIN g PROVE g[n] # << >> /\ Sum(k, g[n]) <= MaxFragment
    <2>1. CASE n \in 1 .. Len(done)
      <3>1. n \in DOMAIN f /\ g[n] = f[n]
        BY <1>3, <2>1
      <3> QED
        BY <1>4, <3>1 DEF WellCut
    <2>2. CASE n = Len(done) + 1
      BY <1>1, <1>2, <1>3, <2>2
    <2> QED
      BY <1>3, <2>1, <2>2
  <1>6. ASSUME NEW n \in DOMAIN g \ {1} PROVE Sum(k, g[n - 1]) + Share(k, g[n][1]) > MaxFragment
    <2>1. n - 1 \in 1 .. Len(done) /\ n \in DOMAIN f \ {1}
      BY <1>3
    <2>2. g[n - 1] = f[n - 1]
      BY <1>3, <2>1
    <2>3. g[n][1] = f[n][1]
      <3>1. CASE n \in 1 .. Len(done)
        BY <1>3, <3>1
      <3>2. CASE n = Len(done) + 1
        BY <1>1, <1>3, <3>2
      <3> QED
        BY <1>3, <3>1, <3>2
    <2> QED
      BY <1>4, <2>1, <2>2, <2>3 DEF WellCut
  <1>7. WellCut(k, g)
    BY <1>5, <1>6 DEF WellCut
  <1> QED
    BY <1>7 DEF g, new

LEMMA IsCutOpens ==
  ASSUME NEW k \in Kind, NEW items \in Seq(Pointer), NEW p \in Pointer, NEW f, IsCut(k, items, f),
         f # << >>, Sum(k, f[Len(f)]) + Share(k, p) > MaxFragment
  PROVE  IsCut(k, Append(items, p), Append(f, <<p>>))
  <1>1. f \in Seq(Seq(Pointer)) /\ <<p>> \in Seq(Pointer)
    BY DEF IsCut
  <1>2. Append(f, <<p>>) \in Seq(Seq(Pointer)) /\ Len(Append(f, <<p>>)) = Len(f) + 1 /\ Len(f) \in Nat
    BY <1>1
  <1>3. WellCut(k, Append(f, <<p>>))
    BY <1>1, WellCutOpens DEF IsCut
  <1>4. FlattenSeq(Append(f, <<p>>)) = Append(items, p)
    <2>1. FlattenSeq(Append(f, <<p>>)) = items \o <<p>>
      BY <1>1, FlattenAppend DEF IsCut
    <2> QED
      BY <2>1, AppendIsConcat
  <1>5. Written(Append(f, <<p>>), k) = Size(k, Append(items, p), Append(f, <<p>>))
    <2>1. Written(Append(f, <<p>>), k) = Written(f, k) + 16 + Bytes(k, <<p>>)
      BY <1>1, WrittenAppend
    <2>2. Bytes(k, Append(items, p)) = Bytes(k, items) + Bytes(k, <<p>>) /\ Bytes(k, items) \in Nat
      BY BytesAppend, SizesOfOne
    <2>3. Bytes(k, <<p>>) \in Nat
      BY <1>1, BytesTyped
    <2>4. Written(f, k) = 8 + 16 * Len(f) + Bytes(k, items)
      BY DEF IsCut, Size
    <2>5. \A x, y, z \in Nat : (8 + 16 * x + y) + 16 + z = 8 + 16 * (x + 1) + (y + z)
      OBVIOUS
    <2>6. 8 + 16 * Len(f) + Bytes(k, items) + 16 + Bytes(k, <<p>>)
            = 8 + 16 * (Len(f) + 1) + (Bytes(k, items) + Bytes(k, <<p>>))
      BY <1>2, <2>2, <2>3, <2>5, Zenon
    <2> QED
      BY <1>2, <2>1, <2>2, <2>4, <2>6, Zenon DEF Size
  <1> QED
    BY <1>2, <1>3, <1>4, <1>5 DEF IsCut

LEMMA IsCutGrows ==
  ASSUME NEW k \in Kind, NEW items \in Seq(Pointer), NEW p \in Pointer,
         NEW done \in Seq(Seq(Pointer)), NEW open \in Seq(Pointer), open # << >>,
         IsCut(k, items, Append(done, open)), Sum(k, open) + Share(k, p) <= MaxFragment
  PROVE  IsCut(k, Append(items, p), Append(done, Append(open, p)))
  <1> DEFINE new == Append(open, p)
  <1>1. new \in Seq(Pointer)
    OBVIOUS
  <1>2. WellCut(k, Append(done, new))
    BY WellCutGrows DEF IsCut
  <1>3. Bytes(k, new) = Bytes(k, open) + Copied(k, p) /\ Bytes(k, open) \in Nat /\ Copied(k, p) \in Nat
    BY BytesAppend, ShareTyped
  <1>4. new = open \o <<p>>
    BY AppendIsConcat
  <1> HIDE DEF new
  <1>5. /\ Append(done, new) \in Seq(Seq(Pointer)) /\ Len(Append(done, new)) = Len(done) + 1
        /\ Len(Append(done, open)) = Len(done) + 1 /\ Len(done) \in Nat
    BY <1>1
  <1>6. FlattenSeq(Append(done, new)) = Append(items, p)
    <2>1. FlattenSeq(done) \in Seq(Pointer) /\ items = FlattenSeq(done) \o open
      BY FlattenAppend DEF IsCut
    <2>2. FlattenSeq(Append(done, new)) = FlattenSeq(done) \o (open \o <<p>>)
      BY <1>1, <1>4, FlattenAppend
    <2>3. <<p>> \in Seq(Pointer)
      OBVIOUS
    <2>4. (FlattenSeq(done) \o open) \o <<p>> = FlattenSeq(done) \o (open \o <<p>>)
      BY <2>1, <2>3, ConcatAssociative
    <2>5. Append(items, p) = items \o <<p>>
      BY AppendIsConcat
    <2> QED
      BY <2>1, <2>2, <2>4, <2>5, Zenon
  <1>7. Written(Append(done, new), k) = Size(k, Append(items, p), Append(done, new))
    <2>1. /\ Written(Append(done, new), k) = Written(done, k) + 16 + Bytes(k, new)
          /\ Written(Append(done, open), k) = Written(done, k) + 16 + Bytes(k, open)
          /\ Written(done, k) \in Nat
      BY <1>1, WrittenAppend
    <2>2. Bytes(k, Append(items, p)) = Bytes(k, items) + Copied(k, p) /\ Bytes(k, items) \in Nat
      BY BytesAppend
    <2>3. Written(Append(done, open), k) = 8 + 16 * (Len(done) + 1) + Bytes(k, items)
      BY <1>5 DEF IsCut, Size
    <2>4. Len(done) + 1 \in Nat
      BY <1>5
    <2>5. Written(done, k) + 16 + (Bytes(k, open) + Copied(k, p))
            = 8 + 16 * (Len(done) + 1) + (Bytes(k, items) + Copied(k, p))
      <3>1. Written(done, k) + 16 + Bytes(k, open) = 8 + 16 * (Len(done) + 1) + Bytes(k, items)
        BY <2>1, <2>3, Zenon
      <3> DEFINE w == Written(done, k)  b == Bytes(k, open)  c == Copied(k, p)
                 n == Len(done) + 1     a == Bytes(k, items)
      <3>2. w \in Nat /\ b \in Nat /\ c \in Nat /\ n \in Nat /\ a \in Nat /\ w + 16 + b = 8 + 16 * n + a
        BY <1>3, <2>1, <2>2, <2>4, <3>1, Zenon
      <3> HIDE DEF w, b, c, n, a
      <3>3. w + 16 + (b + c) = 8 + 16 * n + (a + c)
        BY <3>2
      <3> QED
        BY <3>3 DEF w, b, c, n, a
    <2> QED
      BY <1>3, <1>5, <2>1, <2>2, <2>5, Zenon DEF Size
  <1>8. IsCut(k, Append(items, p), Append(done, new))
    BY <1>2, <1>5, <1>6, <1>7 DEF IsCut
  <1> QED
    BY <1>8 DEF new

LEMMA IsCutFirst ==
  ASSUME NEW k \in Kind
  PROVE  /\ IsCut(k, << >>, << >>)
         /\ \A p \in Pointer : IsCut(k, <<p>>, << <<p>> >>)
  <1>1. IsCut(k, << >>, << >>)
    <2>1. WellCut(k, << >>)
      BY DEF WellCut
    <2>2. Size(k, << >>, << >>) = 8
      BY EmptySizes DEF Size
    <2> QED
      BY <2>1, <2>2, EmptySizes, FlattenEmpty DEF IsCut
  <1>2. ASSUME NEW p \in Pointer PROVE IsCut(k, <<p>>, << <<p>> >>)
    <2>1. /\ << >> \in Seq(Seq(Pointer)) /\ <<p>> \in Seq(Pointer)
          /\ << <<p>> >> = Append(<< >>, <<p>>) /\ << <<p>> >> \in Seq(Seq(Pointer))
      OBVIOUS
    <2>2. FlattenSeq(<< <<p>> >>) = <<p>>
      <3>1. FlattenSeq(Append(<< >>, <<p>>)) = FlattenSeq(<< >>) \o <<p>>
        BY <2>1, FlattenAppend, Zenon
      <3>2. << >> \o <<p>> = <<p>>
        BY <2>1, ConcatEmptySeq, Zenon
      <3> QED
        BY <2>1, <3>1, <3>2, FlattenEmpty, Zenon
    <2>3. Bytes(k, <<p>>) \in Nat
      BY <2>1, BytesTyped
    <2>4. Written(<< <<p>> >>, k) = 8 + 16 + Bytes(k, <<p>>)
      <3>1. Written(Append(<< >>, <<p>>), k) = Written(<< >>, k) + 16 + Bytes(k, <<p>>)
        <4> DEFINE e == << >>  f == <<p>>
        <4>1. e \in Seq(Seq(Pointer)) /\ f \in Seq(Pointer)
          BY <2>1
        <4> HIDE DEF e, f
        <4>2. Written(Append(e, f), k) = Written(e, k) + 16 + Bytes(k, f)
          BY <4>1, WrittenAppend
        <4> QED
          BY <4>2 DEF e, f
      <3> QED
        BY <2>1, <3>1, EmptySizes, Zenon
    <2>5. Size(k, <<p>>, << <<p>> >>) = 8 + 16 * 1 + Bytes(k, <<p>>)
      BY DEF Size
    <2>6. WellCut(k, << <<p>> >>)
      <3>1. /\ DOMAIN << <<p>> >> = {1} /\ << <<p>> >>[1] = <<p>> /\ <<p>> # << >>
        OBVIOUS
      <3>2. Sum(k, <<p>>) <= MaxFragment
        BY SizesOfOne, ShareTyped
      <3> QED
        BY <3>1, <3>2 DEF WellCut
    <2> QED
      BY <2>1, <2>2, <2>3, <2>4, <2>5, <2>6 DEF IsCut
  <1> QED
    BY <1>1, <1>2

LEMMA PutTyped ==
  ASSUME NEW k \in Kind, NEW c \in Cut, NEW p \in Pointer
  PROVE  Put(k, c, p) \in Cut
  <1>1. c.done \in Seq(Seq(Pointer)) /\ c.open \in Seq(Pointer) /\ c.size \in Nat
    BY DEF Cut
  <1>2. Share(k, p) \in Nat /\ <<p>> \in Seq(Pointer)
    BY ShareTyped
  <1>3. CASE c.size + Share(k, p) > MaxFragment
    <2>1. Put(k, c, p) = [done |-> Append(c.done, c.open), open |-> <<p>>, size |-> Share(k, p)]
      BY <1>3 DEF Put
    <2>2. Append(c.done, c.open) \in Seq(Seq(Pointer))
      BY <1>1
    <2> QED
      BY <1>2, <2>1, <2>2 DEF Cut
  <1>4. CASE ~(c.size + Share(k, p) > MaxFragment)
    <2>1. Put(k, c, p) = [done |-> c.done, open |-> Append(c.open, p), size |-> c.size + Share(k, p)]
      BY <1>4 DEF Put, Cut
    <2>2. Append(c.open, p) \in Seq(Pointer) /\ c.size + Share(k, p) \in Nat
      BY <1>1, <1>2
    <2> QED
      BY <1>1, <2>1, <2>2 DEF Cut
  <1> QED
    BY <1>3, <1>4

\* One item.
LEMMA PutStep ==
  ASSUME NEW k \in Kind, NEW items \in Seq(Pointer), NEW p \in Pointer,
         NEW c \in Cut, Partway(k, items, c)
  PROVE  Put(k, c, p) \in Cut /\ Partway(k, Append(items, p), Put(k, c, p))
  <1>1. Append(items, p) # << >>
    BY AppendProperties
  <1>2. c.done \in Seq(Seq(Pointer)) /\ c.open \in Seq(Pointer) /\ c.size \in Nat
    BY DEF Cut
  <1>3. Put(k, c, p) \in Cut
    BY PutTyped
  <1>4. Share(k, p) \in Nat /\ Share(k, p) <= MaxFragment /\ MaxFragment \in Nat
    BY ShareTyped, ReportsAssumption
  <1>5. /\ Put(k, c, p).open # << >> /\ Put(k, c, p).size = Sum(k, Put(k, c, p).open)
        /\ IsCut(k, Append(items, p), Append(Put(k, c, p).done, Put(k, c, p).open))
    <2>1. CASE c.size + Share(k, p) > MaxFragment
      <3>1. items # << >>
        BY <1>4, <2>1 DEF Partway, NoCut
      <3>2. c.open # << >> /\ c.size = Sum(k, c.open) /\ IsCut(k, items, Append(c.done, c.open))
        BY <3>1 DEF Partway
      <3> DEFINE f == Append(c.done, c.open)
      <3>3. f # << >> /\ f[Len(f)] = c.open
        <4>1. \A s \in Seq(Seq(Pointer)), q \in Seq(Pointer) :
                Append(s, q) # << >> /\ Append(s, q)[Len(Append(s, q))] = q
          BY AppendProperties
        <4> QED
          BY <1>2, <4>1
      <3>4. Put(k, c, p).done = f /\ Put(k, c, p).open = <<p>> /\ Put(k, c, p).size = Share(k, p)
        BY <2>1 DEF Put
      <3> HIDE DEF f
      <3>5. IsCut(k, items, f)
        BY <3>2 DEF f
      <3>6. Sum(k, f[Len(f)]) + Share(k, p) > MaxFragment
        BY <2>1, <3>2, <3>3
      <3>7. IsCut(k, Append(items, p), Append(f, <<p>>))
        BY <3>3, <3>5, <3>6, IsCutOpens
      <3>8. Sum(k, <<p>>) = Share(k, p) /\ <<p>> # << >>
        BY SizesOfOne
      <3> QED
        BY <3>4, <3>7, <3>8
    <2>2. CASE ~(c.size + Share(k, p) > MaxFragment)
      <3>1. /\ Put(k, c, p).done = c.done /\ Put(k, c, p).open = Append(c.open, p)
            /\ Put(k, c, p).size = c.size + Share(k, p)
        BY <2>2 DEF Put, Cut
      <3>2. Append(c.open, p) # << >>
        <4>1. \A s \in Seq(Pointer), q \in Pointer : Append(s, q) # << >>
          BY AppendProperties
        <4> QED
          BY <1>2, <4>1
      <3>3. CASE items # << >>
        <4>1. c.open # << >> /\ c.size = Sum(k, c.open) /\ IsCut(k, items, Append(c.done, c.open))
          BY <3>3 DEF Partway
        <4>2. Sum(k, Append(c.open, p)) = Sum(k, c.open) + Share(k, p)
          BY <1>2, SumAppend
        <4>3. Sum(k, c.open) + Share(k, p) <= MaxFragment
          BY <1>2, <1>4, <2>2, <4>1
        <4>4. IsCut(k, Append(items, p), Append(c.done, Append(c.open, p)))
          BY <1>2, <4>1, <4>3, IsCutGrows
        <4> QED
          BY <3>1, <3>2, <4>1, <4>2, <4>4
      <3>4. CASE items = << >>
        <4>1. c.done = << >> /\ c.open = << >> /\ c.size = 0
          BY <3>4 DEF Partway, NoCut
        <4>2. Append(items, p) = <<p>>
          BY <3>4
        <4>3. Append(c.open, p) = <<p>> /\ Append(c.done, <<p>>) = << <<p>> >>
          BY <4>1
        <4>4. IsCut(k, <<p>>, << <<p>> >>)
          BY IsCutFirst
        <4>5. Sum(k, <<p>>) = 0 + Share(k, p)
          BY <1>4, SizesOfOne
        <4> QED
          BY <3>1, <3>2, <4>1, <4>2, <4>3, <4>4, <4>5, Zenon
      <3> QED
        BY <3>3, <3>4
    <2> QED
      BY <2>1, <2>2
  <1> QED
    BY <1>1, <1>3, <1>5 DEF Partway

\* What is there when the last fragment is closed.
LEMMA ClosedIsCut ==
  ASSUME NEW k \in Kind, NEW items \in Seq(Pointer), NEW c \in Cut, Partway(k, items, c)
  PROVE  IsCut(k, items, Closed(c))
  <1>1. CASE items = << >>
    <2>1. Closed(c) = << >>
      BY <1>1 DEF Partway, NoCut, Closed
    <2> QED
      BY <1>1, <2>1, IsCutFirst
  <1>2. CASE items # << >>
    BY <1>2 DEF Partway, Closed
  <1> QED
    BY <1>1, <1>2

-----------------------------------------------------------------------------
(* The walk over the items *)

LEMMA RankExists ==
  ASSUME NEW S \in SUBSET Nat, IsFiniteSet(S), NEW n \in 1 .. Cardinality(S)
  PROVE  \E i \in S : Cardinality({j \in S : j < i}) = n - 1
  <1> DEFINE Below(i) == {j \in S : j < i}
             T == {m \in Nat : m < Cardinality(S) => \E i \in S : Cardinality(Below(i)) = m}
  <1>1. Cardinality(S) \in Nat
    BY FS_CardinalityType
  <1>2. 0 \in T
    <2> SUFFICES ASSUME 0 < Cardinality(S) PROVE \E i \in S : Cardinality(Below(i)) = 0
      OBVIOUS
    <2>1. S # {}
      BY FS_EmptySet
    <2>2. PICK i \in S : \A j \in S : i <= j
      BY <2>1, LeastExists
    <2>3. \A j \in S : ~(j < i)
      BY <2>2
    <2>4. Below(i) = {}
      BY <2>3
    <2> QED
      BY <2>4, FS_EmptySet
  <1>3. ASSUME NEW m \in Nat, m \in T PROVE m + 1 \in T
    <2> SUFFICES ASSUME m + 1 < Cardinality(S) PROVE \E i \in S : Cardinality(Below(i)) = m + 1
      OBVIOUS
    <2>1. PICK i \in S : Cardinality(Below(i)) = m
      BY <1>1, <1>3
    <2> DEFINE Low == Below(i) \cup {i}
    <2>2. Cardinality(Low) = m + 1
      <3>1. IsFiniteSet(Below(i))
        BY FS_Subset
      <3>2. i \notin Below(i)
        OBVIOUS
      <3> HIDE DEF Below
      <3> QED
        BY <2>1, <3>1, <3>2, FS_AddElement
    <2>3. S \ Low # {}
      <3>1. Low \subseteq S
        OBVIOUS
      <3>2. Low # S
        BY <1>1, <2>2
      <3> HIDE DEF Low
      <3> QED
        BY <3>1, <3>2
    <2>4. PICK x \in S \ Low : \A y \in S \ Low : x <= y
      <3>1. S \ Low \subseteq Nat
        OBVIOUS
      <3> HIDE DEF Low
      <3> QED
        BY <2>3, <3>1, LeastExists
    <2>5. Below(x) = Low
      <3>1. \A y \in S : y < x <=> (y < i \/ y = i)
        <4>1. \A y \in S : ~(y < i \/ y = i) => x <= y
          BY <2>4
        <4>2. ~(x < i) /\ x # i
          BY <2>4
        <4> QED
          BY <4>1, <4>2
      <3> QED
        BY <3>1
    <2> QED
      BY <2>2, <2>4, <2>5
  <1>4. Nat \subseteq T
    <2> HIDE DEF T
    <2> QED
      BY <1>2, <1>3, SetInduction
  <1>5. n - 1 \in Nat /\ n - 1 < Cardinality(S)
    BY <1>1
  <1> QED
    BY <1>4, <1>5

LEMMA WalkedTyped ==
  ASSUME ReportsTypeOK, NEW k
  PROVE  /\ Walked(k) \in Seq(Pointer)
         /\ \A p \in Range(Walked(k)) : \E i \in Item : node[i] # 0 /\ p = PointerTo(i)
  <1> DEFINE live == {i \in Item : node[i] # 0 /\ (k \in Entries => i \notin flagged)}
             at(n) == CHOOSE i \in live : Cardinality({j \in live : j < i}) = n - 1
             N == Cardinality(live)
  <1>1. live \in SUBSET Nat /\ IsFiniteSet(live) /\ live \subseteq Item /\ \A i \in live : node[i] # 0
    BY ReportsAssumption, FS_Subset
  <1>2. Walked(k) = [n \in 1 .. N |-> PointerTo(at(n))]
    BY DEF Walked
  <1> HIDE DEF live
  <1>3. N \in Nat
    BY <1>1, FS_CardinalityType
  <1>4. ASSUME NEW n \in 1 .. N PROVE at(n) \in live
    BY <1>1, RankExists
  <1>5. ASSUME NEW i \in Item PROVE PointerTo(i) \in Pointer
    <2>1. node[i] \in Nat
      BY ReportsAssumption DEF ReportsTypeOK
    <2> QED
      BY <2>1 DEF PointerTo, Pointer
  <1> HIDE DEF at, N
  <1>6. \A n \in 1 .. N : PointerTo(at(n)) \in Pointer
    BY <1>1, <1>4, <1>5
  <1>7. Walked(k) \in Seq(Pointer)
    BY <1>2, <1>3, <1>6
  <1>8. \A p \in Range(Walked(k)) : \E n \in 1 .. N : p = PointerTo(at(n))
    BY <1>2 DEF Range
  <1> QED
    BY <1>1, <1>4, <1>7, <1>8

-----------------------------------------------------------------------------
(* The invariant *)

LEMMA Kinds ==
  /\ Fragmented \subseteq Kind /\ "channel" \in Kind /\ "none" \notin Kind
  /\ "channel" \notin Fragmented /\ "none" \notin Fragmented
  BY DEF Kind, Fragmented, Entries

LEMMA WalkedSame ==
  ASSUME UNCHANGED itemVars, NEW k
  PROVE  Walked(k)' = Walked(k)
  BY DEF itemVars, Walked, PointerTo

\* The report as a record.
LEMMA ReportTyped ==
  ASSUME ReportsTypeOK
  PROVE  /\ report.kind \in Kind \cup {"none"} /\ report.measured \in BOOLEAN
         /\ report.met \in Seq(Pointer) /\ report.cut \in Cut /\ report.size \in Nat
         /\ report = [kind |-> report.kind, measured |-> report.measured, met |-> report.met,
                      cut |-> report.cut, size |-> report.size]
  BY DEF ReportsTypeOK, Report

LEMMA NoReport ==
  /\ None \in Report /\ None.kind = "none" /\ NoAnswer \in Answer
  /\ NoAnswer.offset = NoAnswer.size
  <1>1. NoCut \in Cut
    BY DEF NoCut, Cut
  <1> QED
    BY <1>1 DEF None, Report, NoAnswer, Answer

LEMMA ReportInit == Init => ReportInv
  <1> SUFFICES ASSUME Init PROVE ReportInv
    OBVIOUS
  <1>1. ReportsTypeOK
    <2>1. MaxChanges \in Nat
      BY ReportsAssumption
    <2>2. node \in [Item -> 0 .. MaxChanges + 1] /\ changes \in 0 .. MaxChanges
      BY <2>1 DEF Init
    <2> QED
      BY <2>2, NoReport DEF Init, ReportsTypeOK
  <1> QED
    BY <1>1, NoReport, Kinds DEF Init, ReportInv, OffsetMeetsSize, WalkInv, ChannelInv

LEMMA BeginInv ==
  ASSUME ReportInv, NEW k \in Fragmented, Begin(k)
  PROVE  ReportInv'
  <1>1. /\ report' = [kind |-> k, measured |-> FALSE, met |-> << >>, cut |-> NoCut, size |-> 8]
        /\ answer' = NoAnswer /\ moved' = FALSE /\ UNCHANGED <<itemVars, up>>
    BY DEF Begin, None
  <1>2. /\ report'.kind = k /\ ~report'.measured /\ report'.met = << >> /\ report'.cut = NoCut
        /\ report'.size = 8
    BY <1>1
  <1>3. k \in Kind /\ k # "channel"
    BY Kinds
  <1>4. ReportsTypeOK'
    <2>1. NoCut \in Cut
      BY DEF NoCut, Cut
    <2>2. report' \in Report
      BY <1>1, <1>3, <2>1 DEF Report
    <2> QED
      BY <1>1, <2>2, NoReport DEF ReportInv, ReportsTypeOK, itemVars
  <1>5. OffsetMeetsSize'
    BY <1>1, NoReport DEF OffsetMeetsSize
  <1>6. ChannelInv'
    BY <1>2, <1>3 DEF ChannelInv
  <1>7. Partway(k, report'.met, report'.cut)
    BY <1>2 DEF Partway
  <1>8. 8 = 8 + Bytes(k, << >>) + 0
    BY <1>3, EmptySizes
  <1>9. InStep(Walked(k))'
    <2>1. Walked(k)' = Walked(k) /\ Walked(k) \in Seq(Pointer)
      BY <1>1, WalkedSame, WalkedTyped DEF ReportInv
    <2> DEFINE w == Walked(k)'
    <2> HIDE DEF w
    <2>2. 0 <= Len(w) /\ SubSeq(w, 1, 0) = << >>
      BY <2>1 DEF w
    <2> QED
      BY <1>2, <2>2 DEF InStep, w
  <1>10. WalkInv'
    BY <1>2, <1>7, <1>8, <1>9 DEF WalkInv
  <1> QED
    BY <1>4, <1>5, <1>6, <1>10 DEF ReportInv

\* One more item of the first ones.
LEMMA PrefixGrows ==
  ASSUME NEW X, NEW w \in Seq(X), NEW s \in Seq(X), Len(s) + 1 <= Len(w), s = SubSeq(w, 1, Len(s))
  PROVE  /\ Len(Append(s, w[Len(s) + 1])) = Len(s) + 1
         /\ Append(s, w[Len(s) + 1]) = SubSeq(w, 1, Len(s) + 1)
  <1> DEFINE n == Len(s)
  <1>1. n \in Nat /\ Len(w) \in Nat /\ n + 1 \in 1 .. Len(w) /\ 1 \in 1 .. Len(w) /\ n + 1 - 1 = n
    OBVIOUS
  <1>2. w[n + 1] \in X
    BY <1>1
  <1>3. SubSeq(w, 1, n + 1) = SubSeq(w, 1, n + 1 - 1) \o <<w[n + 1]>>
    BY <1>1, SubSeqRecursiveSecond
  <1>4. Append(s, w[n + 1]) = s \o <<w[n + 1]>>
    BY <1>2, AppendIsConcat
  <1>5. Len(Append(s, w[n + 1])) = n + 1
    BY <1>2
  <1> HIDE DEF n
  <1>6. s = SubSeq(w, 1, n)
    BY DEF n
  <1>7. Append(s, w[n + 1]) = SubSeq(w, 1, n + 1)
    BY <1>1, <1>3, <1>4, <1>6
  <1> QED
    BY <1>5, <1>7 DEF n

LEMMA FollowingTyped ==
  ASSUME ReportsTypeOK, NEW p \in Following
  PROVE  /\ p \in Pointer
         /\ ~moved /\ InStep(Walked(report.kind)) =>
              /\ Len(report.met) + 1 <= Len(Walked(report.kind))
              /\ p = Walked(report.kind)[Len(report.met) + 1]
  <1> DEFINE w == Walked(report.kind)  n == Len(report.met)
  <1>1. w \in Seq(Pointer) /\ n \in Nat
    BY WalkedTyped, ReportTyped
  <1>2. Range(w) \subseteq Pointer /\ DOMAIN w = 1 .. Len(w) /\ \A m \in DOMAIN w : w[m] \in Pointer
    BY <1>1 DEF Range
  <1>3. CASE ~moved
    <2>1. PICK m \in {n + 1} \cap DOMAIN w : p = w[m]
      BY <1>3 DEF Following
    <2> HIDE DEF w, n
    <2>2. m = n + 1 /\ n + 1 \in 1 .. Len(w) /\ Len(w) \in Nat
      BY <1>1, <1>2, <2>1
    <2>3. p = w[n + 1] /\ n + 1 <= Len(w) /\ p \in Pointer
      BY <1>2, <2>1, <2>2
    <2> QED
      BY <2>3 DEF w, n
  <1>4. CASE moved
    <2>1. p \in Range(w)
      BY <1>4 DEF Following
    <2> QED
      BY <1>2, <1>4, <2>1
  <1> QED
    BY <1>3, <1>4

LEMMA VisitInv ==
  ASSUME ReportInv, Visit
  PROVE  ReportInv'
  <1>0. PICK k, met, c : k = report.kind /\ met = report.met /\ c = report.cut
    OBVIOUS
  <1>1. ReportsTypeOK /\ OffsetMeetsSize /\ WalkInv
    BY DEF ReportInv
  <1>2. k \in Fragmented /\ k \in Kind /\ ~report.measured /\ k # "channel"
    BY <1>0, Kinds DEF Visit, Walking
  <1>3. PICK p \in Following :
          report' = [report EXCEPT !.met = Append(@, p), !.cut = Put(k, @, p), !.size = @ + Copied(k, p)]
    BY <1>0 DEF Visit
  <1>4. up' \in BOOLEAN /\ UNCHANGED <<itemVars, moved, answer>>
    BY DEF Visit
  <1>5. met \in Seq(Pointer) /\ c \in Cut /\ report.size \in Nat
    BY <1>0, <1>1, ReportTyped
  <1>6. p \in Pointer
    BY <1>1, FollowingTyped
  <1>7. /\ report'.kind = k /\ ~report'.measured /\ report'.met = Append(met, p)
        /\ report'.cut = Put(k, c, p) /\ report'.size = report.size + Copied(k, p)
        /\ report' = [kind |-> k, measured |-> FALSE, met |-> Append(met, p), cut |-> Put(k, c, p),
                      size |-> report.size + Copied(k, p)]
    BY <1>0, <1>1, <1>2, <1>3, ReportTyped
  <1>8. Partway(k, met, c) /\ report.size = 8 + Bytes(k, met) + 0
    BY <1>0, <1>1, <1>2 DEF WalkInv
  <1>9. \A x : Walked(x)' = Walked(x)
    BY <1>4, WalkedSame
  <1>10. ~moved => InStep(Walked(k))
    BY <1>0, <1>1, <1>2 DEF WalkInv
  <1>11. ~moved /\ InStep(Walked(k)) => Len(met) + 1 <= Len(Walked(k)) /\ p = Walked(k)[Len(met) + 1]
    BY <1>0, <1>1, FollowingTyped
  <1>12. Walked(k) \in Seq(Pointer)
    BY <1>1, WalkedTyped
  <1>13. Put(k, c, p) \in Cut /\ Partway(k, Append(met, p), Put(k, c, p))
    BY <1>2, <1>5, <1>6, <1>8, PutStep
  <1>14. /\ Bytes(k, Append(met, p)) = Bytes(k, met) + Copied(k, p)
         /\ Bytes(k, met) \in Nat /\ Copied(k, p) \in Nat
    BY <1>2, <1>5, <1>6, BytesAppend, ShareTyped
  <1>15. report'.size \in Nat /\ report'.size = 8 + Bytes(k, Append(met, p)) + 0
    BY <1>5, <1>7, <1>8, <1>14
  <1>16. ReportsTypeOK'
    <2>1. report' \in Report
      <3>1. Append(met, p) \in Seq(Pointer)
        BY <1>5, <1>6
      <3>2. report.size + Copied(k, p) \in Nat
        BY <1>5, <1>14
      <3> QED
        BY <1>2, <1>7, <1>13, <3>1, <3>2 DEF Report
    <2> QED
      BY <1>1, <1>4, <2>1 DEF ReportsTypeOK, itemVars
  <1>17. ~moved' => InStep(Walked(k))'
    <2> SUFFICES ASSUME ~moved PROVE InStep(Walked(k))'
      BY <1>4
    <2> DEFINE w == Walked(k)
    <2>1. Len(met) + 1 <= Len(w) /\ p = w[Len(met) + 1] /\ met = SubSeq(w, 1, Len(met))
      BY <1>0, <1>10, <1>11 DEF InStep
    <2>2. Walked(k)' = w
      BY <1>9
    <2> HIDE DEF w
    <2>3. w \in Seq(Pointer)
      BY <1>12 DEF w
    <2>4. /\ Len(Append(met, p)) = Len(met) + 1
          /\ Append(met, p) = SubSeq(w, 1, Len(met) + 1)
      BY <1>5, <2>1, <2>3, PrefixGrows
    <2> QED
      BY <1>7, <2>1, <2>2, <2>4 DEF InStep
  <1>18. WalkInv'
    BY <1>7, <1>13, <1>15, <1>17 DEF WalkInv
  <1>19. ChannelInv'
    BY <1>2, <1>7 DEF ChannelInv
  <1>20. OffsetMeetsSize'
    BY <1>1, <1>4 DEF OffsetMeetsSize
  <1> QED
    BY <1>16, <1>18, <1>19, <1>20 DEF ReportInv

LEMMA MeasureInv ==
  ASSUME ReportInv, Measure
  PROVE  ReportInv'
  <1>0. PICK k, met, c : k = report.kind /\ met = report.met /\ c = report.cut
    OBVIOUS
  <1> DEFINE h == 16 * Len(Closed(c))
  <1>1. ReportsTypeOK /\ OffsetMeetsSize /\ WalkInv
    BY DEF ReportInv
  <1>2. k \in Fragmented /\ k \in Kind /\ ~report.measured /\ k # "channel"
    BY <1>0, Kinds DEF Measure, Walking
  <1>3. /\ report' = [report EXCEPT !.measured = TRUE, !.size = @ + h]
        /\ up' \in BOOLEAN /\ UNCHANGED <<itemVars, moved, answer>> /\ AtEnd
    BY <1>0 DEF Measure, Heads
  <1>4. met \in Seq(Pointer) /\ c \in Cut /\ report.size \in Nat
    BY <1>0, <1>1, ReportTyped
  <1>5. Partway(k, met, c) /\ report.size = 8 + Bytes(k, met) + 0
    BY <1>0, <1>1, <1>2 DEF WalkInv
  <1>6. h \in Nat
    <2>1. Closed(c) \in Seq(Seq(Pointer))
      BY <1>2, <1>4, <1>5, ClosedIsCut DEF IsCut
    <2> QED
      BY <2>1
  <1> HIDE DEF h
  <1>7. /\ report'.kind = k /\ report'.measured /\ report'.met = met
        /\ report'.cut = c /\ report'.size = report.size + h
        /\ report' = [kind |-> k, measured |-> TRUE, met |-> met, cut |-> c, size |-> report.size + h]
    BY <1>0, <1>1, <1>2, <1>3, ReportTyped
  <1>8. \A x : Walked(x)' = Walked(x)
    BY <1>3, WalkedSame
  <1>9. ~moved => InStep(Walked(k))
    BY <1>0, <1>1, <1>2 DEF WalkInv
  <1>10. Walked(k) \in Seq(Pointer)
    BY <1>1, WalkedTyped
  <1>11. ~moved => Len(met) + 1 \notin DOMAIN Walked(k)
    <2> SUFFICES ASSUME ~moved, Len(met) + 1 \in DOMAIN Walked(k) PROVE FALSE
      OBVIOUS
    <2>1. Following = {}
      BY <1>3 DEF AtEnd
    <2>2. Walked(k)[Len(met) + 1] \in Following
      BY <1>0 DEF Following
    <2> QED
      BY <2>1, <2>2
  <1>12. report'.size \in Nat /\ report'.size = 8 + Bytes(k, met) + h
    <2>1. Bytes(k, met) \in Nat
      BY <1>2, <1>4, BytesTyped
    <2> QED
      BY <1>4, <1>5, <1>6, <1>7, <2>1
  <1>13. ReportsTypeOK'
    <2>1. report' \in Report
      <3>1. report.size + h \in Nat
        BY <1>4, <1>6
      <3> QED
        BY <1>2, <1>4, <1>7, <3>1 DEF Report
    <2> QED
      BY <1>1, <1>3, <2>1 DEF ReportsTypeOK, itemVars
  <1>14. ~moved' => InStep(Walked(k))'
    <2> SUFFICES ASSUME ~moved PROVE InStep(Walked(k))'
      BY <1>3
    <2> DEFINE w == Walked(k)
    <2>1. Len(met) <= Len(w) /\ met = SubSeq(w, 1, Len(met)) /\ Len(met) + 1 \notin DOMAIN w
      BY <1>0, <1>9, <1>11 DEF InStep
    <2>2. Walked(k)' = w
      BY <1>8
    <2> HIDE DEF w
    <2>3. w \in Seq(Pointer)
      BY <1>10 DEF w
    <2>4. Len(met) \in Nat /\ Len(w) \in Nat /\ DOMAIN w = 1 .. Len(w)
      BY <1>4, <2>3
    <2>5. Len(met) = Len(w)
      <3> DEFINE m == Len(met)  l == Len(w)
      <3>1. m \in Nat /\ l \in Nat /\ m <= l /\ m + 1 \notin 1 .. l
        BY <2>1, <2>4
      <3> HIDE DEF m, l
      <3>2. m = l
        BY <3>1
      <3> QED
        BY <3>2 DEF m, l
    <2>6. met = w
      BY <2>1, <2>3, <2>5, SubSeqFull
    <2> QED
      BY <1>7, <2>1, <2>2, <2>6 DEF InStep
  <1>15. WalkInv'
    BY <1>5, <1>7, <1>12, <1>14 DEF WalkInv, h
  <1>16. ChannelInv'
    BY <1>2, <1>7 DEF ChannelInv
  <1>17. OffsetMeetsSize'
    BY <1>1, <1>3 DEF OffsetMeetsSize
  <1> QED
    BY <1>13, <1>15, <1>16, <1>17 DEF ReportInv

LEMMA MeasureChannelInv ==
  ASSUME ReportInv, MeasureChannel
  PROVE  ReportInv'
  <1> DEFINE w == Walked("channel")
  <1>1. ReportsTypeOK
    BY DEF ReportInv
  <1>2. w \in Seq(Pointer)
    BY <1>1, WalkedTyped
  <1>3. Bytes("channel", w) \in Nat
    BY <1>2, Kinds, BytesTyped
  <1>4. /\ report' = [kind |-> "channel", measured |-> TRUE, met |-> w, cut |-> NoCut,
                      size |-> 8 + Bytes("channel", w)]
        /\ moved' = FALSE /\ answer' = NoAnswer /\ UNCHANGED <<itemVars, up>>
    BY DEF MeasureChannel, None
  <1>5. Walked("channel")' = w
    BY <1>4, WalkedSame
  <1> HIDE DEF w
  <1>6. report'.kind = "channel" /\ report'.met = w /\ report'.size = 8 + Bytes("channel", w)
    BY <1>4
  <1>7. ReportsTypeOK'
    <2>1. NoCut \in Cut /\ 8 + Bytes("channel", w) \in Nat
      BY <1>3 DEF NoCut, Cut
    <2>2. report' \in Report
      BY <1>2, <1>4, <2>1, Kinds DEF Report
    <2> QED
      BY <1>1, <1>4, <2>2, NoReport DEF ReportsTypeOK, itemVars
  <1>8. WalkInv' /\ ChannelInv'
    BY <1>5, <1>6, Kinds DEF WalkInv, ChannelInv
  <1>9. OffsetMeetsSize'
    BY <1>4, NoReport DEF OffsetMeetsSize
  <1> QED
    BY <1>7, <1>8, <1>9 DEF ReportInv

\* An answer that ends where it should.
LEMMA SendInv ==
  ASSUME ReportInv, NEW offset \in Nat, Send(offset), up' \in BOOLEAN, report.kind \in Kind,
         offset = report.size \/ (report.kind = "channel" /\ moved)
  PROVE  ReportInv'
  <1>1. ReportsTypeOK
    BY DEF ReportInv
  <1>2. /\ answer' = [kind |-> report.kind, size |-> report.size, offset |-> offset, moved |-> moved]
        /\ report' = None /\ UNCHANGED <<itemVars, moved>>
    BY DEF Send
  <1>3. report.size \in Nat /\ moved \in BOOLEAN
    BY <1>1, ReportTyped DEF ReportsTypeOK
  <1>4. answer' \in Answer
    BY <1>2, <1>3 DEF Answer
  <1>5. ReportsTypeOK'
    BY <1>1, <1>2, <1>4, NoReport DEF ReportsTypeOK, itemVars
  <1>6. OffsetMeetsSize'
    BY <1>2 DEF OffsetMeetsSize
  <1>7. WalkInv' /\ ChannelInv'
    BY <1>2, NoReport, Kinds DEF WalkInv, ChannelInv
  <1> QED
    BY <1>5, <1>6, <1>7 DEF ReportInv

LEMMA FillInv ==
  ASSUME ReportInv, Fill
  PROVE  ReportInv'
  <1> DEFINE k == report.kind  f == Closed(report.cut)
  <1>1. ReportsTypeOK /\ WalkInv
    BY DEF ReportInv
  <1>2. k \in Fragmented /\ k \in Kind /\ report.measured /\ Send(Written(f, k)) /\ up' \in BOOLEAN
    BY Kinds DEF Fill
  <1>3. report.met \in Seq(Pointer) /\ report.cut \in Cut /\ report.size \in Nat
    BY <1>1, ReportTyped
  <1>4. /\ Partway(k, report.met, report.cut)
        /\ report.size = 8 + Bytes(k, report.met) + 16 * Len(f)
    BY <1>1, <1>2 DEF WalkInv
  <1>5. IsCut(k, report.met, f)
    BY <1>2, <1>3, <1>4, ClosedIsCut
  <1> HIDE DEF f
  <1>6. f \in Seq(Seq(Pointer)) /\ Written(f, k) = 8 + 16 * Len(f) + Bytes(k, report.met)
    BY <1>5 DEF IsCut, Size
  <1>7. Len(f) \in Nat /\ Bytes(k, report.met) \in Nat
    BY <1>2, <1>3, <1>6, BytesTyped
  <1>8. Written(f, k) = report.size
    <2> DEFINE b == Bytes(k, report.met)  l == Len(f)
    <2> HIDE DEF b, l
    <2>1. b \in Nat /\ l \in Nat /\ report.size = 8 + b + 16 * l /\ Written(f, k) = 8 + 16 * l + b
      BY <1>4, <1>6, <1>7 DEF b, l
    <2> QED
      BY <2>1
  <1> QED
    BY <1>2, <1>3, <1>8, SendInv

LEMMA FillChannelInv ==
  ASSUME ReportInv, FillChannel
  PROVE  ReportInv'
  <1> DEFINE w == Walked("channel")
             Offset == IF Lost THEN {8 + n * Fixed["channel"] : n \in 0 .. Cardinality(Item)}
                       ELSE {8 + Bytes("channel", w)}
  <1>1. ReportsTypeOK /\ ChannelInv
    BY DEF ReportInv
  <1>2. report.kind = "channel" /\ "channel" \in Kind /\ up' \in BOOLEAN
    BY Kinds DEF FillChannel
  <1>3. PICK offset \in Offset : Send(offset)
    BY DEF FillChannel
  <1>4. w \in Seq(Pointer) /\ \A p \in Range(w) : \E i \in Item : node[i] # 0 /\ p = PointerTo(i)
    BY <1>1, WalkedTyped
  <1>5. Bytes("channel", w) \in Nat
    BY <1>2, <1>4, BytesTyped
  <1>6. ~moved => ~Lost /\ report.size = 8 + Bytes("channel", w)
    <2> SUFFICES ASSUME ~moved PROVE ~Lost /\ report.size = 8 + Bytes("channel", w)
      OBVIOUS
    <2>1. report.met = w /\ report.size = 8 + Bytes("channel", w)
      BY <1>1, <1>2 DEF ChannelInv
    <2>2. \A p \in Range(w) : node[p.item] = p.node
      BY <1>4 DEF PointerTo
    <2> QED
      BY <2>1, <2>2 DEF Lost
  <1>7. offset \in Nat /\ (Lost \/ offset = 8 + Bytes("channel", w))
    <2>1. CASE Lost
      <3>1. Cardinality(Item) \in Nat /\ Fixed["channel"] \in Nat
        BY <1>2, ReportsAssumption, FS_CardinalityType
      <3>2. PICK n \in 0 .. Cardinality(Item) : offset = 8 + n * Fixed["channel"]
        BY <1>3, <2>1
      <3> QED
        BY <2>1, <3>1, <3>2
    <2>2. CASE ~Lost
      BY <1>3, <1>5, <2>2
    <2> QED
      BY <2>1, <2>2
  <1>8. offset = report.size \/ moved
    BY <1>6, <1>7
  <1> QED
    BY <1>2, <1>3, <1>7, <1>8, SendInv

\* What a change to the items leaves alone, and what it must show of its own.
LEMMA ChangingInv ==
  ASSUME ReportInv, NEW i, Changing(i),
         node' \in [Item -> 0 .. MaxChanges + 1], flagged' \subseteq {j \in Item : node'[j] # 0}
  PROVE  ReportInv'
  <1>1. ReportsTypeOK /\ OffsetMeetsSize /\ WalkInv
    BY DEF ReportInv
  <1>2. /\ report' = report /\ answer' = answer /\ up' = up /\ changes' = changes + 1
        /\ moved' = (report # None) /\ changes < MaxChanges
    BY DEF Changing
  <1>3. changes' \in 0 .. MaxChanges
    BY <1>1, <1>2, ReportsAssumption DEF ReportsTypeOK
  <1>4. ReportsTypeOK'
    BY <1>1, <1>2, <1>3 DEF ReportsTypeOK
  <1>5. OffsetMeetsSize'
    BY <1>1, <1>2 DEF OffsetMeetsSize
  <1>6. WalkInv' /\ ChannelInv'
    <2>1. report.kind \in Fragmented \cup {"channel"} => moved'
      BY <1>2, NoReport, Kinds
    <2> QED
      BY <1>1, <1>2, <2>1 DEF WalkInv, ChannelInv
  <1> QED
    BY <1>4, <1>5, <1>6 DEF ReportInv

LEMMA ChangeInv ==
  ASSUME ReportInv, NEW i \in Item, Create(i) \/ Expire(i) \/ Erase(i)
  PROVE  ReportInv'
  <1>1. /\ node \in [Item -> 0 .. MaxChanges + 1] /\ flagged \subseteq {j \in Item : node[j] # 0}
        /\ changes \in 0 .. MaxChanges /\ MaxChanges \in Nat
    BY ReportsAssumption DEF ReportInv, ReportsTypeOK
  <1>2. CASE Create(i)
    <2>1. Changing(i) /\ node' = [node EXCEPT ![i] = changes + 2] /\ flagged' = flagged
      BY <1>2 DEF Create
    <2>2. changes < MaxChanges /\ changes + 2 \in 0 .. MaxChanges + 1
      BY <1>1, <2>1 DEF Changing
    <2>3. node' \in [Item -> 0 .. MaxChanges + 1] /\ flagged' \subseteq {j \in Item : node'[j] # 0}
      BY <1>1, <2>1, <2>2
    <2> QED
      BY <2>1, <2>3, ChangingInv
  <1>3. CASE Expire(i)
    <2>1. Changing(i) /\ node[i] # 0 /\ flagged' = flagged \cup {i} /\ node' = node
      BY <1>3 DEF Expire
    <2>2. flagged' \subseteq {j \in Item : node'[j] # 0}
      BY <1>1, <2>1
    <2> QED
      BY <1>1, <2>1, <2>2, ChangingInv
  <1>4. CASE Erase(i)
    <2>1. Changing(i) /\ node' = [node EXCEPT ![i] = 0] /\ flagged' = flagged \ {i}
      BY <1>4 DEF Erase
    <2>2. node' \in [Item -> 0 .. MaxChanges + 1] /\ flagged' \subseteq {j \in Item : node'[j] # 0}
      BY <1>1, <2>1
    <2> QED
      BY <2>1, <2>2, ChangingInv
  <1> QED
    BY <1>2, <1>3, <1>4

LEMMA ReportInvariant == Spec => []ReportInv
  <1>1. ReportInv /\ [Next]_vars => ReportInv'
    <2> SUFFICES ASSUME ReportInv, [Next]_vars PROVE ReportInv'
      OBVIOUS
    <2>1. ASSUME NEW k \in Fragmented, Begin(k) PROVE ReportInv'
      BY <2>1, BeginInv
    <2>2. CASE Visit
      BY <2>2, VisitInv
    <2>3. CASE Measure
      BY <2>3, MeasureInv
    <2>4. CASE Fill
      BY <2>4, FillInv
    <2>5. CASE MeasureChannel
      BY <2>5, MeasureChannelInv
    <2>6. CASE FillChannel
      BY <2>6, FillChannelInv
    <2>7. ASSUME NEW i \in Item, Create(i) \/ Expire(i) \/ Erase(i) PROVE ReportInv'
      BY <2>7, ChangeInv
    <2>8. CASE UNCHANGED vars
      <3>1. UNCHANGED <<itemVars, report, moved, answer, up>>
        BY <2>8 DEF vars
      <3>2. \A x : Walked(x)' = Walked(x)
        BY <3>1, WalkedSame
      <3>3. ReportsTypeOK' /\ OffsetMeetsSize'
        BY <3>1 DEF ReportInv, ReportsTypeOK, OffsetMeetsSize, itemVars
      <3>4. WalkInv' /\ ChannelInv'
        BY <3>1, <3>2 DEF ReportInv, WalkInv, ChannelInv, InStep
      <3> QED
        BY <3>3, <3>4 DEF ReportInv
    <2> QED
      BY <2>1, <2>2, <2>3, <2>4, <2>5, <2>6, <2>7, <2>8 DEF Next
  <1> QED
    BY <1>1, ReportInit, PTL DEF Spec

(***************************************************************************)
(* At every moment of its walk a report is what the walk met, cut into     *)
(* fragments, in order and within the limit (response_builder_service.cpp: *)
(* 265-293, :165-187 and :389-407), and if nobody changed the items it is  *)
(* all of them, for any number of items, any names and any limit that      *)
(* holds one item.                                                         *)
(***************************************************************************)
THEOREM ReportsCutInOrder == Spec => []CutInOrder
  <1>1. ReportInv => CutInOrder
    <2> SUFFICES ASSUME ReportInv, report.kind \in Fragmented
                 PROVE  /\ FlattenSeq(Closed(report.cut)) = report.met
                        /\ report.measured /\ ~moved => report.met = Walked(report.kind)
                        /\ WellCut(report.kind, Closed(report.cut))
      BY DEF CutInOrder
    <2>1. /\ Partway(report.kind, report.met, report.cut) /\ ReportsTypeOK /\ report.kind \in Kind
          /\ report.measured /\ ~moved => report.met = Walked(report.kind)
      BY Kinds DEF ReportInv, WalkInv, InStep
    <2>2. IsCut(report.kind, report.met, Closed(report.cut))
      BY <2>1, ReportTyped, ClosedIsCut
    <2> QED
      BY <2>1, <2>2 DEF IsCut
  <1> QED
    BY <1>1, ReportInvariant, PTL

(***************************************************************************)
(* The second pass of every report ends where the first one measured,      *)
(* whatever others create and erase during the walk and between the        *)
(* passes, but for a CHANNEL whose subscriptions changed between its two   *)
(* walks (channel_command.cpp:68).                                         *)
(***************************************************************************)
THEOREM SecondPassMeetsFirst == Spec => []OffsetMeetsSize
  <1>1. ReportInv => OffsetMeetsSize
    BY DEF ReportInv
  <1> QED
    BY <1>1, ReportInvariant, PTL
=============================================================================
