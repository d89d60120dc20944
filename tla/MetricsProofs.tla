--------------------------- MODULE MetricsProofs ----------------------------
(***************************************************************************)
(* What the metrics keep of the commands, for every number of threads,     *)
(* every width and every bound; and that the commands of Metrics, taken    *)
(* for their effect on a counter, are those of Quota.                      *)
(***************************************************************************)
EXTENDS Metrics, Loops, TLAPS, FiniteSetTheorems

-----------------------------------------------------------------------------
(* A counter *)

LEMMA WrapTyped ==
  ASSUME NEW a \in Value, NEW b \in Value
  PROVE  /\ Wrap(a + b) \in Value /\ Wrap(a - b) \in Value
         /\ Wrap(a + b) = a + b \/ Wrap(a + b) + VALUE = a + b
         /\ Wrap(a - b) = a - b \/ (a < b /\ Wrap(a - b) = a - b + VALUE)
  <1>1. VALUE \in Nat /\ a \in Nat /\ b \in Nat /\ a < VALUE /\ b < VALUE
    BY QuotaAssumption DEF Value
  <1>2. Wrap(a + b) \in Value /\ (Wrap(a + b) = a + b \/ Wrap(a + b) + VALUE = a + b)
    BY <1>1 DEF Wrap, Value
  <1>3. Wrap(a - b) \in Value /\ (Wrap(a - b) = a - b \/ (a < b /\ Wrap(a - b) = a - b + VALUE))
    BY <1>1 DEF Wrap, Value
  <1> QED
    BY <1>2, <1>3

LEMMA QuotaInit == Init => QuotaInv
  <1> SUFFICES ASSUME Init PROVE QuotaInv
    OBVIOUS
  <1>1. TypeOK
    <2>1. counter \in Value /\ 0 \in Value /\ supply \in Nat /\ consumed \in Nat
      BY QuotaAssumption DEF Init, Value
    <2> QED
      BY <2>1, Zenon DEF Init, TypeOK
  <1>2. NoOverdraft
    <2>1. consumed = 0 /\ supply = counter /\ counter \in Nat
      BY QuotaAssumption DEF Init
    <2> QED
      BY <2>1 DEF NoOverdraft
  <1>3. \A w \in Worker : pc[w] # "sub"
    BY DEF Init
  <1> QED
    BY <1>1, <1>2, <1>3 DEF QuotaInv

LEMMA QuotaTyped == TypeOK /\ [Next]_vars => TypeOK'
  <1> SUFFICES ASSUME TypeOK, [Next]_vars PROVE TypeOK'
    OBVIOUS
  <1> USE DEF TypeOK
  <1>0. Amount \subseteq Value /\ Value \subseteq Nat /\ 0 \in Value
    BY QuotaAssumption DEF Value
  <1>1. ASSUME NEW w \in Worker, NEW v \in Amount, Patch(w, v)
        PROVE  TypeOK'
    BY <1>0, <1>1 DEF Patch, Overlaps
  <1>2. ASSUME NEW w \in Worker, NEW v \in Amount, Increase(w, v)
        PROVE  TypeOK'
    BY <1>0, <1>2, WrapTyped DEF Increase
  <1>3. ASSUME NEW w \in Worker, NEW v \in Amount, DecreaseLoad(w, v)
        PROVE  TypeOK'
    BY <1>0, <1>3 DEF DecreaseLoad
  <1>4. ASSUME NEW w \in Worker, DecreaseSub(w)
        PROVE  TypeOK'
    <2>1. request[w] \in Value
      BY <1>0
    <2>2. counter' \in Value /\ consumed' \in Nat
      <3>1. counter' = Wrap(counter - request[w]) /\ consumed' = consumed + request[w]
        BY <1>4 DEF DecreaseSub
      <3>2. Wrap(counter - request[w]) \in Value
        BY <2>1, WrapTyped
      <3>3. consumed + request[w] \in Nat
        <4>1. consumed \in Nat /\ request[w] \in Nat
          BY <1>0, <2>1
        <4> HIDE DEF TypeOK
        <4> QED
          BY <4>1
      <3> QED
        BY <3>1, <3>2, <3>3
    <2> QED
      BY <1>0, <1>4, <2>2 DEF DecreaseSub, Overlaps
  <1>5. CASE UNCHANGED vars
    BY <1>5 DEF vars
  <1> QED
    BY <1>1, <1>2, <1>3, <1>4, <1>5 DEF Next

\* An increase raises what was put in by as much as the counter, or by a whole
\* VALUE more when it wraps.
LEMMA IncreaseCovered ==
  ASSUME NEW c \in Nat, NEW d \in Nat, NEW s \in Nat, NEW u \in Nat, NEW v \in Nat,
         NEW V \in Nat,
         u + c <= s,
         d = c + v \/ d + V = c + v
  PROVE  /\ u + d <= s + v
         /\ d >= c \/ u + d + V <= s + v
         /\ u + c + V <= s => u + d + V <= s + v
  OBVIOUS

LEMMA QuotaStep == QuotaInv /\ [Next]_vars => QuotaInv'
  <1>s. SUFFICES ASSUME QuotaInv, [Next]_vars, ~ raced'
               PROVE  /\ NoOverdraft'
                      /\ \A w \in Worker : pc'[w] = "sub" =>
                           counter' >= request'[w] \/ consumed' + counter' + VALUE <= supply'
    BY QuotaTyped DEF QuotaInv
  <1>0. Amount \subseteq Value /\ Value \subseteq Nat /\ VALUE \in Nat
    BY QuotaAssumption DEF Value
  <1>t. TypeOK /\ TypeOK'
    BY <1>s, QuotaTyped DEF QuotaInv
  <1>n. counter \in Nat /\ supply \in Nat /\ consumed \in Nat /\ request \in [Worker -> Nat]
    BY <1>0, <1>t DEF TypeOK
  <1>r. ASSUME ~ raced
        PROVE  /\ NoOverdraft
               /\ \A w \in Worker : pc[w] = "sub" =>
                    counter >= request[w] \/ consumed + counter + VALUE <= supply
    BY <1>s, <1>r DEF QuotaInv
  <1>1. ASSUME NEW w \in Worker, NEW v \in Amount, Patch(w, v)
        PROVE  /\ NoOverdraft'
               /\ \A x \in Worker : pc'[x] # "sub"
    <2>1. /\ counter' = v /\ supply' = v /\ consumed' = 0
          /\ pc[w] = "idle" /\ pc' = pc /\ ~ Overlaps(w)
      BY <1>s, <1>1 DEF Patch
    <2>2. v \in Nat
      BY <1>0
    <2>3. 0 + v <= v
      BY <2>2
    <2>4. NoOverdraft'
      BY <2>1, <2>3 DEF NoOverdraft
    <2>5. \A x \in Worker : pc'[x] # "sub"
      BY <2>1 DEF Overlaps
    <2> QED
      BY <2>4, <2>5
  <1>2. ASSUME NEW w \in Worker, NEW v \in Amount, Increase(w, v)
        PROVE  /\ NoOverdraft'
               /\ \A x \in Worker : pc'[x] = "sub" =>
                    counter' >= request'[x] \/ consumed' + counter' + VALUE <= supply'
    <2>1. counter' = counter + v \/ counter' + VALUE = counter + v
      BY <1>0, <1>2, <1>t, WrapTyped DEF Increase, TypeOK
    <2>0. ~ raced
      BY <1>s, <1>2 DEF Increase
    <2>2. /\ supply' = supply + v /\ consumed' = consumed
          /\ request' = request /\ pc' = pc
      BY <1>2 DEF Increase
    <2>3. v \in Nat /\ counter' \in Nat
      BY <1>0, <1>t DEF TypeOK
    <2>4. consumed' + counter' <= supply'
      <3>1. consumed + counter <= supply
        BY <1>r, <2>0 DEF NoOverdraft
      <3> QED
        BY <1>0, <1>n, <2>1, <2>2, <2>3, <3>1, IncreaseCovered
    <2>5. ASSUME NEW x \in Worker, pc'[x] = "sub"
          PROVE  counter' >= request'[x] \/ consumed' + counter' + VALUE <= supply'
      <3>1. request[x] \in Nat /\ (counter >= request[x] \/ consumed + counter + VALUE <= supply)
        BY <1>n, <1>r, <2>0, <2>2, <2>5
      <3>2. consumed + counter <= supply
        BY <1>r, <2>0 DEF NoOverdraft
      <3>3. /\ counter' >= counter \/ consumed + counter' + VALUE <= supply + v
            /\ consumed + counter + VALUE <= supply => consumed + counter' + VALUE <= supply + v
        BY <1>0, <1>n, <2>1, <2>3, <3>2, IncreaseCovered
      <3>4. counter >= request[x] /\ counter' >= counter => counter' >= request[x]
        BY <1>n, <2>3, <3>1
      <3> QED
        BY <2>2, <3>1, <3>3, <3>4
    <2> QED
      BY <2>4, <2>5 DEF NoOverdraft
  <1>3. ASSUME NEW w \in Worker, NEW v \in Amount, DecreaseLoad(w, v)
        PROVE  /\ NoOverdraft'
               /\ \A x \in Worker : pc'[x] = "sub" =>
                    counter' >= request'[x] \/ consumed' + counter' + VALUE <= supply'
    <2>1. ~ raced /\ UNCHANGED <<counter, supply, consumed>> /\ counter >= v
      BY <1>s, <1>3 DEF DecreaseLoad
    <2>2. \A x \in Worker : pc'[x] = "sub" =>
            \/ request'[x] = v
            \/ request'[x] = request[x] /\ pc[x] = "sub"
      BY <1>3, <1>t DEF DecreaseLoad, TypeOK
    <2> QED
      BY <1>r, <2>1, <2>2 DEF NoOverdraft
  <1>4. ASSUME NEW w \in Worker, DecreaseSub(w)
        PROVE  /\ NoOverdraft'
               /\ \A x \in Worker : pc'[x] # "sub"
    <2>1. ~ raced /\ ~ Overlaps(w) /\ pc[w] = "sub"
      BY <1>s, <1>4 DEF DecreaseSub
    <2>2. /\ counter' = counter - request[w]
             \/ (counter < request[w] /\ counter' = counter - request[w] + VALUE)
          /\ consumed' = consumed + request[w] /\ supply' = supply
      BY <1>4, <1>t, WrapTyped DEF DecreaseSub, TypeOK
    <2>3. NoOverdraft'
      <3>1. /\ consumed + counter <= supply
            /\ counter >= request[w] \/ consumed + counter + VALUE <= supply
        BY <1>r, <2>1 DEF NoOverdraft
      <3>2. request[w] \in Nat
        BY <1>n
      <3>3. consumed' + counter' = consumed + counter
            \/ (counter < request[w] /\ consumed' + counter' = consumed + counter + VALUE)
        BY <1>0, <1>n, <2>2, <3>2
      <3> QED
        BY <1>0, <1>n, <2>2, <3>1, <3>2, <3>3 DEF NoOverdraft
    <2>4. \A x \in Worker : pc'[x] # "sub"
      BY <1>4, <1>t, <2>1 DEF DecreaseSub, Overlaps, TypeOK
    <2> QED
      BY <2>3, <2>4
  <1>5. CASE UNCHANGED vars
    BY <1>s, <1>5, <1>r DEF vars, NoOverdraft
  <1> QED
    BY <1>s, <1>1, <1>2, <1>3, <1>4, <1>5 DEF Next

(***************************************************************************)
(* Clients take out more than was put in only if a decrease or a patch     *)
(* came between the comparison and the subtraction of another decrease     *)
(* (update_service.cpp:43-45), increases that wrap included.               *)
(***************************************************************************)
THEOREM OverdraftIsARace == Spec => []OverdraftNeedsRace
  <1>1. QuotaInv => OverdraftNeedsRace
    BY DEF QuotaInv, OverdraftNeedsRace
  <1> QED
    BY <1>1, QuotaInit, QuotaStep, PTL DEF Spec

(***************************************************************************)
(* In the deployment with one pool thread handlers never overlap, and a    *)
(* counter is never overdrawn.                                             *)
(***************************************************************************)
THEOREM SingleWorkerNeverOverdraws ==
  ASSUME SingleWorker
  PROVE  Spec => []NoOverdraft
  <1>1. Init => ~ raced
    BY DEF Init
  <1>2. ~ raced /\ [Next]_vars => ~ raced'
    BY DEF Next, Patch, Increase, DecreaseLoad, DecreaseSub, Overlaps, vars, SingleWorker
  <1>3. ~ raced /\ OverdraftNeedsRace => NoOverdraft
    BY DEF OverdraftNeedsRace
  <1> QED
    BY <1>1, <1>2, <1>3, OverdraftIsARace, PTL DEF Spec

(***************************************************************************)
(* Every reachable counter is a value of value_type, and so is what a      *)
(* decrease under way asks for (update_service.cpp:36-46).                 *)
(***************************************************************************)
THEOREM QuotaTypeCorrect == Spec => []TypeOK
  <1>1. QuotaInv => TypeOK
    BY DEF QuotaInv
  <1> QED
    BY <1>1, QuotaInit, QuotaStep, PTL DEF Spec

-----------------------------------------------------------------------------
(* Remainders *)

LEMMA MultipleStep ==
  ASSUME NEW V \in Nat \ {0}, NEW p \in Int, NEW q \in Int, p < q
  PROVE  p * V + V <= q * V
  <1>1. (q - p - 1) * V >= 0
    BY SMT
  <1>2. (q - p - 1) * V = q * V - p * V - V
    BY SMT
  <1>3. q * V \in Int /\ p * V \in Int
    OBVIOUS
  <1> QED
    BY <1>1, <1>2, <1>3

LEMMA DivisionExists ==
  ASSUME NEW V \in Nat \ {0}, NEW x \in Int
  PROVE  /\ x \div V \in Int
         /\ x % V \in 0 .. V - 1
         /\ x = (x \div V) * V + (x % V)
  OBVIOUS

LEMMA RemainderIsUnique ==
  ASSUME NEW V \in Nat \ {0}, NEW x \in Int, NEW q \in Int, NEW r \in 0 .. V - 1,
         x = q * V + r
  PROVE  x % V = r
  <1> DEFINE p == x \div V
  <1> DEFINE s == x % V
  <1>1. p \in Int /\ s \in 0 .. V - 1 /\ x = p * V + s
    BY DivisionExists
  <1>2. p * V \in Int /\ q * V \in Int
    BY <1>1
  <1> HIDE DEF p, s
  <1>3. CASE p < q
    BY <1>1, <1>2, <1>3, MultipleStep
  <1>4. CASE q < p
    BY <1>1, <1>2, <1>4, MultipleStep
  <1>5. CASE p = q
    BY <1>1, <1>2, <1>5 DEF s
  <1> QED
    BY <1>1, <1>3, <1>4, <1>5

\* A difference and its remainder change by the same amount, up to a multiple of V.
LEMMA RemainderFollows ==
  ASSUME NEW V \in Nat \ {0}, NEW d \in Int, NEW e \in Int, NEW r \in 0 .. V - 1,
         \/ r = (d % V) + e
         \/ r + V = (d % V) + e
         \/ r = (d % V) + e + V
  PROVE  (d + e) % V = r
  <1> DEFINE p == d \div V
  <1> DEFINE s == d % V
  <1>1. p \in Int /\ s \in Int /\ d = p * V + s
    BY DivisionExists
  <1>2. p * V \in Int /\ (p + 1) * V = p * V + V /\ (p - 1) * V = p * V - V
    BY <1>1
  <1>3. r = s + e \/ r + V = s + e \/ r = s + e + V
    OBVIOUS
  <1> HIDE DEF p, s
  <1>4. d + e = p * V + r \/ d + e = (p + 1) * V + r \/ d + e = (p - 1) * V + r
    BY <1>1, <1>2, <1>3
  <1>5. p + 1 \in Int /\ p - 1 \in Int /\ d + e \in Int
    BY <1>1
  <1> QED
    BY <1>1, <1>4, <1>5, RemainderIsUnique

LEMMA ConservationStep == TypeOK /\ Conservation /\ [Next]_vars => Conservation'
  <1> SUFFICES ASSUME TypeOK, Conservation, [Next]_vars PROVE Conservation'
    OBVIOUS
  <1>0. Amount \subseteq Value /\ Value \subseteq Int /\ VALUE \in Nat \ {0}
    BY QuotaAssumption DEF Value
  <1>n. /\ counter \in Value /\ counter \in Int
        /\ supply \in Int /\ consumed \in Int /\ supply - consumed \in Int
    BY <1>0 DEF TypeOK
  <1>c. counter = (supply - consumed) % VALUE
    BY DEF Conservation
  <1>1. ASSUME NEW w \in Worker, NEW v \in Amount, Patch(w, v)
        PROVE  Conservation'
    <2>1. counter' = v /\ supply' - consumed' = v /\ v \in 0 .. VALUE - 1 /\ v \in Int
      BY <1>0, <1>1 DEF Patch, Value
    <2>2. v = 0 * VALUE + v
      BY <1>0, <2>1
    <2>3. v % VALUE = v
      BY <1>0, <2>1, <2>2, RemainderIsUnique
    <2> QED
      BY <2>1, <2>3 DEF Conservation
  <1>2. ASSUME NEW w \in Worker, NEW v \in Amount, Increase(w, v)
        PROVE  Conservation'
    <2>1. counter' = Wrap(counter + v) /\ supply' = supply + v /\ consumed' = consumed
      BY <1>2 DEF Increase
    <2>2. v \in Value /\ v \in Int
      BY <1>0
    <2>3. counter' \in 0 .. VALUE - 1 /\ (counter' = counter + v \/ counter' + VALUE = counter + v)
      BY <1>n, <2>1, <2>2, WrapTyped DEF Value
    <2>4. (supply - consumed + v) % VALUE = counter'
      BY <1>0, <1>n, <1>c, <2>2, <2>3, RemainderFollows
    <2>5. supply' - consumed' = supply - consumed + v
      BY <1>n, <2>1, <2>2
    <2> QED
      BY <2>4, <2>5 DEF Conservation
  <1>3. ASSUME NEW w \in Worker, NEW v \in Amount, DecreaseLoad(w, v)
        PROVE  Conservation'
    BY <1>3 DEF DecreaseLoad, Conservation
  <1>4. ASSUME NEW w \in Worker, DecreaseSub(w)
        PROVE  Conservation'
    <2> DEFINE v == request[w]
    <2>1. counter' = Wrap(counter - v) /\ consumed' = consumed + v /\ supply' = supply
      BY <1>4 DEF DecreaseSub
    <2>2. v \in Value /\ v \in Int
      BY <1>0 DEF TypeOK
    <2> HIDE DEF v
    <2>3. counter' \in 0 .. VALUE - 1 /\ (counter' = counter - v \/ counter' = counter - v + VALUE)
      BY <1>n, <2>1, <2>2, WrapTyped DEF Value
    <2>4. (supply - consumed + (-v)) % VALUE = counter'
      <3>1. counter' = counter + (-v) \/ counter' = counter + (-v) + VALUE
        BY <1>0, <1>n, <2>2, <2>3
      <3>2. -v \in Int
        BY <2>2
      <3> QED
        BY <1>0, <1>n, <1>c, <2>3, <3>1, <3>2, RemainderFollows
    <2>5. supply' - consumed' = supply - consumed + (-v)
      BY <1>n, <2>1, <2>2
    <2> QED
      BY <2>4, <2>5 DEF Conservation
  <1>5. CASE UNCHANGED vars
    BY <1>5 DEF vars, Conservation
  <1> QED
    BY <1>1, <1>2, <1>3, <1>4, <1>5 DEF Next

(***************************************************************************)
(* No update of a counter is lost or applied twice, for every interleaving *)
(* of every number of threads and every width: modulo the width the        *)
(* counter is what was put in less what was taken out                      *)
(* (update_service.cpp:36-46).                                             *)
(***************************************************************************)
THEOREM QuotaConserved == Spec => []Conservation
  <1>1. Init => Conservation
    <2> SUFFICES ASSUME Init PROVE Conservation
      OBVIOUS
    <2>1. counter \in 0 .. VALUE - 1 /\ counter \in Int /\ supply - consumed = counter /\ VALUE \in Nat \ {0}
      BY QuotaAssumption DEF Init
    <2>2. counter = 0 * VALUE + counter
      BY <2>1
    <2>3. counter % VALUE = counter
      BY <2>1, <2>2, RemainderIsUnique
    <2> QED
      BY <2>1, <2>3 DEF Conservation
  <1> QED
    BY <1>1, QuotaTypeCorrect, ConservationStep, PTL DEF Spec

-----------------------------------------------------------------------------
(* Metrics *)

(***************************************************************************)
(* Marks, collections and the commands that only read leave a counter as   *)
(* it is: Metrics implements Quota, and inherits what is proved of it.     *)
(***************************************************************************)
THEOREM MetricsImplementsQuota == MetricsSpec => Spec
  <1>1. MetricsInit => Init
    BY DEF MetricsInit
  <1>2. [MetricsNext]_metricsVars => [Next]_vars
    <2> SUFFICES ASSUME [MetricsNext]_metricsVars PROVE [Next]_vars
      OBVIOUS
    <2>1. ASSUME NEW w \in Worker, NEW v \in Amount, Apply(w, v)
          PROVE  Next
      BY <2>1 DEF Apply, Next
    <2>2. ASSUME NEW w \in Worker, NEW v \in Amount, Compare(w, v)
          PROVE  Next
      BY <2>2 DEF Compare, Next
    <2>3. ASSUME NEW w \in Worker, Subtract(w)
          PROVE  Next
      BY <2>3 DEF Subtract, Next
    <2>4. ASSUME NEW w \in Worker, NEW t \in Type, Receive(w, t)
          PROVE  UNCHANGED vars
      BY <2>4 DEF Receive
    <2>5. ASSUME NEW w \in Worker, MarkAll(w) \/ CountMine(w) \/ MarkMine(w) \/ CountInner(w) \/ MarkInner(w)
          PROVE  UNCHANGED vars
      BY <2>5 DEF MarkAll, CountMine, MarkMine, CountInner, MarkInner
    <2>6. ASSUME NEW w \in Worker, NEW v \in Amount, Refuse(w, v)
          PROVE  UNCHANGED vars
      BY <2>6 DEF Refuse
    <2>7. ASSUME NEW w \in Worker, Find(w) \/ MarkWrite(w) \/ Load(w)
          PROVE  UNCHANGED vars
      BY <2>7 DEF Find, MarkWrite, Load
    <2>8. CASE Collect
      BY <2>8 DEF Collect
    <2>9. CASE UNCHANGED metricsVars
      BY <2>9 DEF metricsVars
    <2> QED
      BY <2>1, <2>2, <2>3, <2>4, <2>5, <2>6, <2>7, <2>8, <2>9 DEF MetricsNext
  <1> QED
    BY <1>1, <1>2, PTL DEF MetricsSpec, Spec
-----------------------------------------------------------------------------
\* The inductive invariant behind WritesConserved: the collector has writes in
\* its hands only between its exchange and its addition.
WritesInv ==
  /\ at \in [Worker -> Place]
  /\ marks \in [Kind -> Nat] /\ total \in [Kind -> Nat] /\ taken \in [Kind -> Nat]
  /\ granted \in Nat /\ collector \in 0 .. 7
  /\ taken["writes"] = 0 \/ collector \in 2 .. 5
  /\ WritesConserved

Marking == {w \in Worker : at[w] = "mark"}

\* How a step of one worker changes the set of those that have a write to mark.
LEMMA MarkingMoves ==
  ASSUME NEW w \in Worker, NEW s \in Place, at \in [Worker -> Place],
         at' = [at EXCEPT ![w] = s]
  PROVE  /\ at' \in [Worker -> Place]
         /\ Cardinality(Marking) \in Nat /\ Cardinality(Marking') \in Nat
         /\ at[w] # "mark" /\ s # "mark" => Cardinality(Marking') = Cardinality(Marking)
         /\ at[w] # "mark" /\ s = "mark" => Cardinality(Marking') = Cardinality(Marking) + 1
         /\ at[w] = "mark" /\ s # "mark" => Cardinality(Marking) = Cardinality(Marking') + 1
  <1>1. IsFiniteSet(Marking)
    BY MetricsAssumption, FS_Subset DEF Marking
  <1>2. at' \in [Worker -> Place]
    OBVIOUS
  <1>3. at[w] # "mark" /\ s # "mark" => Marking' = Marking
    BY DEF Marking
  <1>4. at[w] # "mark" /\ s = "mark" => w \notin Marking /\ Marking' = Marking \cup {w}
    BY DEF Marking
  <1>5. at[w] = "mark" /\ s # "mark" => w \in Marking /\ Marking' = Marking \ {w}
    BY DEF Marking
  <1>6. IsFiniteSet(Marking')
    <2>1. Marking' \in SUBSET Worker
      BY DEF Marking
    <2> QED
      BY <2>1, MetricsAssumption, FS_Subset
  <1>7. Cardinality(Marking) \in Nat /\ Cardinality(Marking') \in Nat
    BY <1>1, <1>6, FS_CardinalityType
  <1>8. at[w] # "mark" /\ s = "mark" => Cardinality(Marking') = Cardinality(Marking) + 1
    BY <1>1, <1>4, FS_AddElement
  <1>9. at[w] = "mark" /\ s # "mark" => Cardinality(Marking') = Cardinality(Marking) - 1
    BY <1>1, <1>5, FS_RemoveElement
  <1>10. at[w] = "mark" /\ s # "mark" => Cardinality(Marking) = Cardinality(Marking') + 1
    BY <1>7, <1>9
  <1> QED
    BY <1>2, <1>3, <1>7, <1>8, <1>10

\* A step of w that neither grants nor marks a write.
Quiet(w) ==
  /\ at[w] # "mark" /\ \E s \in Place \ {"mark"} : at' = [at EXCEPT ![w] = s]
  /\ marks' \in [Kind -> Nat] /\ marks'["writes"] = marks["writes"]
  /\ total' = total /\ granted' = granted /\ taken' = taken /\ collector' = collector

LEMMA QuietStep ==
  ASSUME WritesInv, NEW w \in Worker, Quiet(w)
  PROVE  WritesInv'
  <1>1. PICK s \in Place \ {"mark"} : at' = [at EXCEPT ![w] = s]
    BY DEF Quiet
  <1>2. at[w] # "mark" /\ at \in [Worker -> Place]
    BY DEF Quiet, WritesInv
  <1>3. Cardinality(Marking') = Cardinality(Marking) /\ at' \in [Worker -> Place]
    BY <1>1, <1>2, MarkingMoves
  <1> QED
    BY <1>3 DEF WritesInv, WritesConserved, Marking, Quiet

LEMMA WritesStep == WritesInv /\ [MetricsNext]_metricsVars => WritesInv'
  <1> SUFFICES ASSUME WritesInv, [MetricsNext]_metricsVars PROVE WritesInv'
    OBVIOUS
  <1>t. /\ at \in [Worker -> Place] /\ marks \in [Kind -> Nat] /\ total \in [Kind -> Nat]
        /\ taken \in [Kind -> Nat] /\ granted \in Nat
        /\ "writes" \in Kind /\ "reads" \in Kind
        /\ Cardinality(Marking) \in Nat
    <2>1. IsFiniteSet(Marking)
      BY MetricsAssumption, FS_Subset DEF Marking
    <2> QED
      BY <2>1, FS_CardinalityType DEF WritesInv, Kind
  <1>c. marks["writes"] + taken["writes"] + total["writes"] + Cardinality(Marking) = 1 + granted
    BY DEF WritesInv, WritesConserved, Marking
  <1>1. ASSUME NEW w \in Worker, NEW t \in Type, Receive(w, t)
        PROVE  WritesInv'
    <2>q. Quiet(w)
      BY <1>t, <1>1 DEF Quiet, Place, Receive, entryVars, collectVars
    <2> QED
      BY <2>q, QuietStep
  <1>2. ASSUME NEW w \in Worker, MarkAll(w) \/ CountMine(w) \/ CountInner(w) \/ MarkInner(w)
        PROVE  WritesInv'
    <2>q. Quiet(w)
      BY <1>t, <1>2 DEF Quiet, Place, MarkAll, CountMine, CountInner, MarkInner, Goto, entryVars, collectVars
    <2> QED
      BY <2>q, QuietStep
  <1>3. ASSUME NEW w \in Worker, MarkMine(w)
        PROVE  WritesInv'
    <2>1. Handler(type[w]) \in Place /\ Handler(type[w]) # "mark"
      BY DEF Handler, Place
    <2>q. Quiet(w)
      BY <1>t, <1>3, <2>1 DEF Quiet, MarkMine, Goto, entryVars, collectVars
    <2> QED
      BY <2>q, QuietStep
  <1>4. ASSUME NEW w \in Worker, Find(w)
        PROVE  WritesInv'
    <2>1. marks' \in [Kind -> Nat] /\ marks'["writes"] = marks["writes"]
      BY <1>t, <1>4 DEF Find, Mark
    <2>q. Quiet(w)
      BY <1>t, <1>4, <2>1 DEF Quiet, Place, Find, Mark, Goto, entryVars, collectVars
    <2> QED
      BY <2>q, QuietStep
  <1>5. ASSUME NEW w \in Worker, NEW v \in Amount, Apply(w, v)
        PROVE  WritesInv'
    <2>1. Cardinality(Marking') = Cardinality(Marking) + 1 /\ at' \in [Worker -> Place]
      <3>1. at[w] = "apply" /\ at' = [at EXCEPT ![w] = "mark"] /\ "mark" \in Place
        BY <1>5 DEF Apply, Goto, Place
      <3> QED
        BY <1>t, <3>1, MarkingMoves
    <2> QED
      BY <1>t, <1>c, <1>5, <2>1 DEF Apply, WritesInv, WritesConserved, Marking, entryVars, collectVars
  <1>6. ASSUME NEW w \in Worker, NEW v \in Amount, Compare(w, v)
        PROVE  WritesInv'
    BY <1>6 DEF Compare, WritesInv, WritesConserved, workVars, entryVars, collectVars
  <1>7. ASSUME NEW w \in Worker, NEW v \in Amount, Refuse(w, v)
        PROVE  WritesInv'
    <2>q. Quiet(w)
      BY <1>t, <1>7 DEF Quiet, Place, Refuse, Goto, entryVars, collectVars
    <2> QED
      BY <2>q, QuietStep
  <1>8. ASSUME NEW w \in Worker, Subtract(w)
        PROVE  WritesInv'
    <2>1. Cardinality(Marking') = Cardinality(Marking) + 1 /\ at' \in [Worker -> Place]
      <3>1. at[w] = "apply" /\ at' = [at EXCEPT ![w] = "mark"] /\ "mark" \in Place
        BY <1>8 DEF Subtract, Goto, Place
      <3> QED
        BY <1>t, <3>1, MarkingMoves
    <2> QED
      BY <1>t, <1>c, <1>8, <2>1 DEF Subtract, WritesInv, WritesConserved, Marking, entryVars, collectVars
  <1>9. ASSUME NEW w \in Worker, MarkWrite(w)
        PROVE  WritesInv'
    <2>1. /\ Cardinality(Marking) = Cardinality(Marking') + 1 /\ Cardinality(Marking') \in Nat
          /\ at' \in [Worker -> Place]
      <3>1. at[w] = "mark" /\ at' = [at EXCEPT ![w] = "idle"] /\ "idle" \in Place
        BY <1>9 DEF MarkWrite, Goto, Place
      <3> QED
        BY <1>t, <3>1, MarkingMoves
    <2>2. marks' \in [Kind -> Nat] /\ marks'["writes"] = marks["writes"] + 1
      BY <1>t, <1>9 DEF MarkWrite, Mark
    <2>3. UNCHANGED <<total, taken, granted, collector>>
      BY <1>9 DEF MarkWrite, Mark, Goto, collectVars
    <2> QED
      BY <1>t, <1>c, <2>1, <2>2, <2>3 DEF WritesInv, WritesConserved, Marking
  <1>10. ASSUME NEW w \in Worker, Load(w)
         PROVE  WritesInv'
    <2>1. PICK s \in {"idle", "stat", "info"} : at' = [at EXCEPT ![w] = s]
      BY <1>t, <1>10 DEF Load
    <2>q. Quiet(w)
      BY <1>t, <1>10, <2>1 DEF Quiet, Place, Load, entryVars, collectVars
    <2> QED
      BY <2>q, QuietStep
  <1>11. CASE Collect
    <2>1. UNCHANGED <<at, granted>>
      BY <1>11 DEF Collect, workVars
    <2>2. collector \in 0 .. 7 /\ collector' = (collector + 1) % 8
      BY <1>11 DEF Collect, WritesInv
    <2>3. CASE CollectCommands
      BY <1>11, <2>1, <2>2, <2>3 DEF CollectCommands, WritesInv, WritesConserved, entryVars
    <2>4. CASE CollectEntry
      <3>1. CASE collector = 1 /\ Take("writes")
        <4>1. taken["writes"] = 0
          BY <3>1 DEF WritesInv
        <4>2. /\ taken' \in [Kind -> Nat] /\ marks' \in [Kind -> Nat] /\ total' = total
              /\ taken'["writes"] = marks["writes"] /\ marks'["writes"] = 0
          BY <1>t, <3>1 DEF Take
        <4>3. collector' = 2
          BY <2>2, <3>1
        <4> QED
          BY <1>t, <1>c, <2>1, <4>1, <4>2, <4>3 DEF WritesInv, WritesConserved, Marking
      <3>2. CASE collector = 5 /\ Add("writes")
        <4>1. /\ taken' \in [Kind -> Nat] /\ total' \in [Kind -> Nat] /\ marks' = marks
              /\ taken'["writes"] = 0 /\ total'["writes"] = total["writes"] + taken["writes"]
          BY <1>t, <3>2 DEF Add
        <4>2. collector' = 6
          BY <2>2, <3>2
        <4> QED
          BY <1>t, <1>c, <2>1, <4>1, <4>2 DEF WritesInv, WritesConserved, Marking
      <3>3. CASE \/ collector = 0 /\ Take("reads")
                 \/ collector = 2 /\ Store("reads")
                 \/ collector = 3 /\ Store("writes")
                 \/ collector = 4 /\ Add("reads")
        <4>1. /\ taken' \in [Kind -> Nat] /\ total' \in [Kind -> Nat] /\ marks' \in [Kind -> Nat]
              /\ taken'["writes"] = taken["writes"] /\ total'["writes"] = total["writes"]
              /\ marks'["writes"] = marks["writes"]
          BY <1>t, <3>3 DEF Take, Store, Add
        <4>2. (collector = 0 /\ collector' = 1) \/ (collector \in 2 .. 4 /\ collector' \in 3 .. 5)
          <5>1. collector \in {0, 2, 3, 4}
            BY <3>3
          <5> QED
            BY <2>2, <5>1
        <4> QED
          BY <1>t, <1>c, <2>1, <4>1, <4>2 DEF WritesInv, WritesConserved, Marking
      <3> QED
        BY <2>4, <3>1, <3>2, <3>3 DEF CollectEntry
    <2> QED
      BY <1>11, <2>3, <2>4 DEF Collect
  <1>12. CASE UNCHANGED metricsVars
    BY <1>12 DEF metricsVars, workVars, entryVars, collectVars, WritesInv, WritesConserved
  <1> QED
    BY <1>1, <1>2, <1>3, <1>4, <1>5, <1>6, <1>7, <1>8, <1>9, <1>10, <1>11, <1>12 DEF MetricsNext

(***************************************************************************)
(* Every UPDATE that changed the counter is counted as one write, once, on *)
(* any number of threads and however often the collector comes between:    *)
(* its exchange takes the marks without losing one that another thread     *)
(* adds (metrics_collector_service.cpp:59-66).                             *)
(***************************************************************************)
THEOREM WritesAreConserved == MetricsSpec => []WritesConserved
  <1>1. MetricsInit => WritesInv
    <2> SUFFICES ASSUME MetricsInit PROVE WritesInv
      OBVIOUS
    <2>1. Marking = {} /\ Cardinality(Marking) = 0
      <3>1. Marking = {}
        BY DEF MetricsInit, Marking
      <3> QED
        BY <3>1, FS_EmptySet
    <2>2. marks["writes"] = 1 /\ taken["writes"] = 0 /\ total["writes"] = 0 /\ granted = 0
      BY DEF MetricsInit, Kind
    <2>3. WritesConserved
      BY <2>1, <2>2 DEF WritesConserved, Marking
    <2> QED
      BY <2>2, <2>3 DEF MetricsInit, WritesInv, Place
  <1>2. WritesInv => WritesConserved
    BY DEF WritesInv
  <1> QED
    BY <1>1, <1>2, WritesStep, PTL DEF MetricsSpec

-----------------------------------------------------------------------------
\* The inductive invariant behind MinutesAddUp.
MinutesInv ==
  /\ at \in [Worker -> Place] /\ type \in [Worker -> Type]
  /\ count \in [Metric -> Nat] /\ accumulator \in [Metric -> Nat] /\ published \in [Metric -> Nat]
  /\ MinutesAddUp

\* The workers between the two additions of a mark of m.
Mid(m) == {x \in Worker : Midway(x) = m}

\* Only w moves.
Alone(w) == \A x \in Worker \ {w} : at'[x] = at[x] /\ type'[x] = type[x]

LEMMA MidMoves ==
  ASSUME NEW w \in Worker, NEW m, Alone(w)
  PROVE  /\ Cardinality(Mid(m)) \in Nat /\ Cardinality(Mid(m)') \in Nat
         /\ (Midway(w) = m) = (Midway(w)' = m) => Cardinality(Mid(m)') = Cardinality(Mid(m))
         /\ Midway(w) # m /\ Midway(w)' = m => Cardinality(Mid(m)') = Cardinality(Mid(m)) + 1
         /\ Midway(w) = m /\ Midway(w)' # m => Cardinality(Mid(m)) = Cardinality(Mid(m)') + 1
  <1>1. \A x \in Worker \ {w} : Midway(x)' = Midway(x)
    BY DEF Alone, Midway
  <1>2. IsFiniteSet(Mid(m)) /\ IsFiniteSet(Mid(m)')
    <2>1. Mid(m) \in SUBSET Worker /\ Mid(m)' \in SUBSET Worker
      BY DEF Mid
    <2> QED
      BY <2>1, MetricsAssumption, FS_Subset
  <1>3. Cardinality(Mid(m)) \in Nat /\ Cardinality(Mid(m)') \in Nat
    BY <1>2, FS_CardinalityType
  <1>4. (Midway(w) = m) = (Midway(w)' = m) => Mid(m)' = Mid(m)
    BY <1>1 DEF Mid
  <1>5. Midway(w) # m /\ Midway(w)' = m => w \notin Mid(m) /\ Mid(m)' = Mid(m) \cup {w}
    BY <1>1 DEF Mid
  <1>6. Midway(w) = m /\ Midway(w)' # m => w \notin Mid(m)' /\ Mid(m) = Mid(m)' \cup {w}
    BY <1>1 DEF Mid
  <1>7. Midway(w) # m /\ Midway(w)' = m => Cardinality(Mid(m)') = Cardinality(Mid(m)) + 1
    BY <1>2, <1>5, FS_AddElement
  <1>8. Midway(w) = m /\ Midway(w)' # m => Cardinality(Mid(m)) = Cardinality(Mid(m)') + 1
    BY <1>2, <1>6, FS_AddElement
  <1> QED
    BY <1>3, <1>4, <1>7, <1>8

\* The first addition of a mark of m.
LEMMA CountStep ==
  ASSUME MinutesInv, NEW w \in Worker, NEW m \in Metric, Alone(w), Count(m),
         Midway(w) = << >>, Midway(w)' = m, m # << >>
  PROVE  /\ count' \in [Metric -> Nat] /\ accumulator' \in [Metric -> Nat] /\ published' \in [Metric -> Nat]
         /\ MinutesAddUp'
  <1>1. /\ count' = [count EXCEPT ![m] = @ + 1] /\ accumulator' = accumulator /\ published' = published
        /\ count' \in [Metric -> Nat]
    BY DEF Count, MinutesInv
  <1>2. ASSUME NEW n \in Metric
        PROVE  published'[n] + count'[n] = accumulator'[n] + Cardinality(Mid(n)')
    <2>1. published[n] + count[n] = accumulator[n] + Cardinality(Mid(n))
      BY DEF MinutesInv, MinutesAddUp, Mid
    <2>2. published[n] \in Nat /\ count[n] \in Nat /\ accumulator[n] \in Nat
      BY DEF MinutesInv
    <2>3. CASE n = m
      <3>1. Cardinality(Mid(n)) \in Nat /\ Cardinality(Mid(n)') = Cardinality(Mid(n)) + 1
        BY <2>3, MidMoves
      <3>2. count'[n] = count[n] + 1
        BY <1>1, <2>3 DEF MinutesInv
      <3>3. published[n] + (count[n] + 1) = accumulator[n] + (Cardinality(Mid(n)) + 1)
        <4>1. PICK k \in Nat : k = Cardinality(Mid(n))
          BY <3>1, Zenon
        <4>2. published[n] + count[n] = accumulator[n] + k
          BY <2>1, <4>1, Zenon
        <4>3. published[n] + (count[n] + 1) = accumulator[n] + (k + 1)
          BY <2>2, <4>2, SMTT(20)
        <4> QED
          BY <4>1, <4>3, Zenon
      <3> QED
        BY <1>1, <3>1, <3>2, <3>3, Zenon
    <2>4. CASE n # m
      <3>1. Cardinality(Mid(n)') = Cardinality(Mid(n))
        <4>1. n # << >>
          BY DEF Metric
        <4> QED
          BY <2>4, <4>1, MidMoves
      <3>2. count'[n] = count[n]
        BY <1>1, <2>4 DEF MinutesInv
      <3> QED
        BY <1>1, <2>1, <3>1, <3>2
    <2> QED
      BY <2>3, <2>4
  <1> QED
    BY <1>1, <1>2 DEF MinutesInv, MinutesAddUp, Mid

\* The second one.
LEMMA AccumulateStep ==
  ASSUME MinutesInv, NEW w \in Worker, NEW m \in Metric, Alone(w), Accumulate(m),
         Midway(w) = m, Midway(w)' = << >>, m # << >>
  PROVE  /\ count' \in [Metric -> Nat] /\ accumulator' \in [Metric -> Nat] /\ published' \in [Metric -> Nat]
         /\ MinutesAddUp'
  <1>1. /\ accumulator' = [accumulator EXCEPT ![m] = @ + 1] /\ count' = count /\ published' = published
        /\ accumulator' \in [Metric -> Nat]
    BY DEF Accumulate, MinutesInv
  <1>2. ASSUME NEW n \in Metric
        PROVE  published'[n] + count'[n] = accumulator'[n] + Cardinality(Mid(n)')
    <2>1. published[n] + count[n] = accumulator[n] + Cardinality(Mid(n))
      BY DEF MinutesInv, MinutesAddUp, Mid
    <2>2. published[n] \in Nat /\ count[n] \in Nat /\ accumulator[n] \in Nat
      BY DEF MinutesInv
    <2>3. CASE n = m
      <3>1. Cardinality(Mid(n)') \in Nat /\ Cardinality(Mid(n)) = Cardinality(Mid(n)') + 1
        BY <2>3, MidMoves
      <3>2. accumulator'[n] = accumulator[n] + 1
        BY <1>1, <2>3 DEF MinutesInv
      <3> QED
        BY <1>1, <2>1, <2>2, <3>1, <3>2
    <2>4. CASE n # m
      <3>1. Cardinality(Mid(n)') = Cardinality(Mid(n))
        <4>1. n # << >>
          BY DEF Metric
        <4> QED
          BY <2>4, <4>1, MidMoves
      <3>2. accumulator'[n] = accumulator[n]
        BY <1>1, <2>4 DEF MinutesInv
      <3> QED
        BY <1>1, <2>1, <3>1, <3>2
    <2> QED
      BY <2>3, <2>4
  <1> QED
    BY <1>1, <1>2 DEF MinutesInv, MinutesAddUp, Mid

\* A step that marks nothing.
LEMMA NeutralStep ==
  ASSUME MinutesInv, NEW w \in Worker, Alone(w), UNCHANGED metricVars,
         Midway(w) = << >>, Midway(w)' = << >>
  PROVE  MinutesAddUp'
  <1>1. UNCHANGED <<count, accumulator, published>>
    BY DEF metricVars
  <1>2. \A n \in Metric : Cardinality(Mid(n)') = Cardinality(Mid(n))
    <2>1. \A n \in Metric : n # << >>
      BY DEF Metric
    <2> QED
      BY <2>1, MidMoves
  <1> QED
    BY <1>1, <1>2 DEF MinutesInv, MinutesAddUp, Mid

\* A step of w to another place, with the command it runs or a new one.
Moves(w) ==
  /\ \E s \in Place : at' = [at EXCEPT ![w] = s]
  /\ type' = type \/ \E t \in Type : type' = [type EXCEPT ![w] = t]

LEMMA MovesTyped ==
  ASSUME MinutesInv, NEW w \in Worker, Moves(w)
  PROVE  Alone(w) /\ at' \in [Worker -> Place] /\ type' \in [Worker -> Type]
  BY DEF MinutesInv, Moves, Alone

LEMMA MetricTyped ==
  ASSUME NEW w \in Worker, NEW t \in Type
  PROVE  /\ <<"all", t>> \in Metric /\ <<w, t>> \in Metric /\ <<"all", "update">> \in Metric
         /\ <<"all", t>> # << >> /\ <<w, t>> # << >> /\ <<"all", "update">> # << >>
  BY MetricsAssumption DEF Metric

LEMMA MinutesStep == MinutesInv /\ [MetricsNext]_metricsVars => MinutesInv'
  <1> SUFFICES ASSUME MinutesInv, [MetricsNext]_metricsVars PROVE MinutesInv'
    OBVIOUS
  <1>t. at \in [Worker -> Place] /\ type \in [Worker -> Type]
    BY DEF MinutesInv
  <1>1. ASSUME NEW w \in Worker, NEW t \in Type, Receive(w, t)
        PROVE  MinutesInv'
    <2>1. Moves(w)
      BY <1>1 DEF Receive, Moves, Place
    <2>2. Count(<<"all", t>>) /\ at[w] = "idle" /\ at'[w] = "all" /\ type'[w] = t
      BY <1>1, <1>t DEF Receive
    <2>3. Midway(w) = << >> /\ Midway(w)' = <<"all", t>>
      BY <2>2 DEF Midway
    <2> QED
      BY <2>1, <2>2, <2>3, MovesTyped, MetricTyped, CountStep DEF MinutesInv
  <1>2. ASSUME NEW w \in Worker, CountMine(w)
        PROVE  MinutesInv'
    <2>1. Moves(w)
      BY <1>2 DEF CountMine, Goto, Moves, Place
    <2>2. /\ Count(<<w, type[w]>>) /\ at[w] = "mine" /\ at'[w] = "minetotal" /\ type'[w] = type[w]
          /\ type[w] \in Type
      BY <1>2, <1>t DEF CountMine, Goto
    <2>3. Midway(w) = << >> /\ Midway(w)' = <<w, type[w]>>
      BY <2>2 DEF Midway
    <2> QED
      BY <2>1, <2>2, <2>3, MovesTyped, MetricTyped, CountStep DEF MinutesInv
  <1>3. ASSUME NEW w \in Worker, CountInner(w)
        PROVE  MinutesInv'
    <2>1. Moves(w)
      BY <1>3 DEF CountInner, Goto, Moves, Place
    <2>2. /\ Count(<<"all", "update">>) /\ at[w] = "inner" /\ at'[w] = "innertotal"
          /\ type[w] \in Type
      BY <1>3, <1>t DEF CountInner, Goto
    <2>3. Midway(w) = << >> /\ Midway(w)' = <<"all", "update">>
      BY <2>2 DEF Midway
    <2> QED
      BY <2>1, <2>2, <2>3, MovesTyped, MetricTyped, CountStep DEF MinutesInv
  <1>4. ASSUME NEW w \in Worker, MarkAll(w)
        PROVE  MinutesInv'
    <2>1. Moves(w)
      BY <1>4 DEF MarkAll, Goto, Moves, Place
    <2>2. Accumulate(<<"all", type[w]>>) /\ at[w] = "all" /\ at'[w] = "mine" /\ type[w] \in Type
      BY <1>4, <1>t DEF MarkAll, Goto
    <2>3. Midway(w) = <<"all", type[w]>> /\ Midway(w)' = << >>
      BY <2>2 DEF Midway
    <2> QED
      BY <2>1, <2>2, <2>3, MovesTyped, MetricTyped, AccumulateStep DEF MinutesInv
  <1>5. ASSUME NEW w \in Worker, MarkMine(w)
        PROVE  MinutesInv'
    <2>0. Handler(type[w]) \in {"inner", "info", "find"}
      BY DEF Handler
    <2>1. Moves(w)
      BY <1>5, <2>0 DEF MarkMine, Goto, Moves, Place
    <2>2. /\ Accumulate(<<w, type[w]>>) /\ at[w] = "minetotal" /\ at'[w] \in {"inner", "info", "find"}
          /\ type[w] \in Type
      BY <1>5, <1>t, <2>0 DEF MarkMine, Goto
    <2>3. Midway(w) = <<w, type[w]>> /\ Midway(w)' = << >>
      BY <2>2 DEF Midway
    <2> QED
      BY <2>1, <2>2, <2>3, MovesTyped, MetricTyped, AccumulateStep DEF MinutesInv
  <1>6. ASSUME NEW w \in Worker, MarkInner(w)
        PROVE  MinutesInv'
    <2>1. Moves(w)
      BY <1>6 DEF MarkInner, Goto, Moves, Place
    <2>2. /\ Accumulate(<<"all", "update">>) /\ at[w] = "innertotal" /\ at'[w] = "find"
          /\ type[w] \in Type
      BY <1>6, <1>t DEF MarkInner, Goto
    <2>3. Midway(w) = <<"all", "update">> /\ Midway(w)' = << >>
      BY <2>2 DEF Midway
    <2> QED
      BY <2>1, <2>2, <2>3, MovesTyped, MetricTyped, AccumulateStep DEF MinutesInv
  <1>n. ASSUME NEW w \in Worker, Moves(w), UNCHANGED metricVars,
               at[w] \notin {"all", "minetotal", "innertotal"},
               at'[w] \notin {"all", "minetotal", "innertotal"}
        PROVE  MinutesInv'
    <2>1. Midway(w) = << >> /\ Midway(w)' = << >>
      BY <1>n DEF Midway
    <2> QED
      BY <1>n, <2>1, MovesTyped, NeutralStep DEF MinutesInv, metricVars
  <1>7. ASSUME NEW w \in Worker, NEW v \in Amount, Apply(w, v) \/ Refuse(w, v)
        PROVE  MinutesInv'
    BY <1>7, <1>n, <1>t DEF Apply, Refuse, Goto, Moves, Place
  <1>8. ASSUME NEW w \in Worker, Find(w) \/ Subtract(w) \/ MarkWrite(w)
        PROVE  MinutesInv'
    BY <1>8, <1>n, <1>t DEF Find, Subtract, MarkWrite, Goto, Moves, Place
  <1>9. ASSUME NEW w \in Worker, Load(w)
        PROVE  MinutesInv'
    BY <1>9, <1>n, <1>t DEF Load, Moves, Place
  <1>10. ASSUME UNCHANGED <<at, type>>, UNCHANGED metricVars
         PROVE  MinutesInv'
    BY <1>10 DEF MinutesInv, MinutesAddUp, Midway, metricVars
  <1>11. ASSUME NEW w \in Worker, NEW v \in Amount, Compare(w, v)
         PROVE  MinutesInv'
    BY <1>10, <1>11 DEF Compare, workVars
  <1>12. CASE Collect
    <2>1. UNCHANGED <<at, type>>
      BY <1>12 DEF Collect, workVars
    <2>2. ASSUME NEW M, Compute(M)
          PROVE  MinutesInv'
      <3>1. /\ accumulator' = accumulator
            /\ count' \in [Metric -> Nat] /\ published' \in [Metric -> Nat]
            /\ \A m \in Metric : published'[m] + count'[m] = published[m] + count[m]
        BY <2>2 DEF Compute, MinutesInv
      <3> QED
        BY <2>1, <3>1 DEF MinutesInv, MinutesAddUp, Midway
    <2>3. CASE CollectCommands
      BY <2>2, <2>3 DEF CollectCommands
    <2>4. CASE CollectEntry
      BY <1>10, <2>1, <2>4 DEF CollectEntry
    <2> QED
      BY <1>12, <2>3, <2>4 DEF Collect
  <1>13. CASE UNCHANGED metricsVars
    BY <1>10, <1>13 DEF metricsVars, workVars
  <1> QED
    BY <1>1, <1>2, <1>3, <1>4, <1>5, <1>6, <1>7, <1>8, <1>9, <1>11, <1>12, <1>13 DEF MetricsNext

(***************************************************************************)
(* For every metric, on any number of threads, what was published per      *)
(* minute and the current count add up to the total, but for the marks     *)
(* between the two additions of metric::mark (metric.hpp:51-66): the       *)
(* exchange of compute neither loses a command nor counts one twice.       *)
(***************************************************************************)
THEOREM MinutesAlwaysAddUp == MetricsSpec => []MinutesAddUp
  <1>1. MetricsInit => MinutesInv
    <2> SUFFICES ASSUME MetricsInit PROVE MinutesInv
      OBVIOUS
    <2>1. \A m \in Metric : Cardinality(Mid(m)) = 0
      <3>1. \A w \in Worker : Midway(w) = << >>
        BY DEF MetricsInit, Midway
      <3>2. \A m \in Metric : Mid(m) = {}
        BY <3>1 DEF Mid, Metric
      <3> QED
        BY <3>2, FS_EmptySet
    <2>2. MinutesAddUp
      BY <2>1 DEF MetricsInit, MinutesAddUp, Mid
    <2> QED
      BY <2>2, MetricsAssumption DEF MetricsInit, MinutesInv, Place
  <1>2. MinutesInv => MinutesAddUp
    BY DEF MinutesInv
  <1> QED
    BY <1>1, <1>2, MinutesStep, PTL DEF MetricsSpec

-----------------------------------------------------------------------------
\* What a per-minute value is to its total, at each step of the collector.
MinuteCovered ==
  /\ IF collector \in {3, 4} THEN minute["reads"] = taken["reads"] ELSE minute["reads"] <= total["reads"]
  /\ IF collector \in {4, 5} THEN minute["writes"] = taken["writes"] ELSE minute["writes"] <= total["writes"]

\* How many values the command of worker w has loaded, by its place.
LoadedByPlace(w) ==
  /\ at[w] \in {"stat", "info"} => at[w] = type[w]
  /\ at[w] \notin {"idle", "stat", "info"} => Len(seen[w]) = 0
  /\ at[w] = "info" => Len(seen[w]) < 3
  /\ at[w] = "stat" => Len(seen[w]) < 4
  /\ at[w] = "idle" /\ Len(seen[w]) # 0 /\ type[w] = "info" => Len(seen[w]) = 3
  /\ at[w] = "idle" /\ Len(seen[w]) # 0 /\ type[w] = "stat" => Len(seen[w]) = 4

\* What has been loaded is covered by what is still to be loaded.
InfoCoveredSoFar(w) ==
  /\ Len(seen[w]) >= 1 => seen[w][1] <= accumulator[<<"all", "update">>]
  /\ Len(seen[w]) >= 2 => seen[w][2] <= accumulator[<<"all", "event">>]
  /\ Len(seen[w]) >= 3 => seen[w][1] <= seen[w][3]

StatCoveredSoFar(w) ==
  /\ Len(seen[w]) >= 1 => seen[w][1] <= total["reads"]
  /\ Len(seen[w]) >= 2 => seen[w][2] <= total["writes"]
  /\ Len(seen[w]) >= 3 => seen[w][1] <= seen[w][3]
  /\ Len(seen[w]) >= 4 => seen[w][2] <= seen[w][4]

CoveredSoFar(w) ==
  /\ LoadedByPlace(w)
  /\ type[w] = "info" => InfoCoveredSoFar(w)
  /\ type[w] = "stat" /\ ~torn[w] => StatCoveredSoFar(w)

LoadTypes ==
  /\ at \in [Worker -> Place] /\ type \in [Worker -> Type]
  /\ accumulator \in [Metric -> Nat]
  /\ marks \in [Kind -> Nat] /\ minute \in [Kind -> Nat] /\ total \in [Kind -> Nat]
  /\ taken \in [Kind -> Nat] /\ collector \in 0 .. 7
  /\ seen \in [Worker -> Seq(Nat)] /\ torn \in [Worker -> BOOLEAN]

\* The inductive invariant behind TornNeedsCollection and TotalsCovered.
LoadInv == LoadTypes /\ MinuteCovered /\ \A w \in Worker : CoveredSoFar(w)

\* Totals never shrink.
TotalsGrow ==
  /\ accumulator[<<"all", "update">>] <= accumulator'[<<"all", "update">>]
  /\ accumulator[<<"all", "event">>] <= accumulator'[<<"all", "event">>]
  /\ total["reads"] <= total'["reads"] /\ total["writes"] <= total'["writes"]

LEMMA TotalsAreNumbers ==
  ASSUME LoadTypes
  PROVE  /\ accumulator[<<"all", "update">>] \in Nat /\ accumulator[<<"all", "event">>] \in Nat
         /\ total["reads"] \in Nat /\ total["writes"] \in Nat
         /\ minute["reads"] \in Nat /\ minute["writes"] \in Nat
         /\ taken["reads"] \in Nat /\ taken["writes"] \in Nat
  <1>1. <<"all", "update">> \in Metric /\ <<"all", "event">> \in Metric
    BY DEF Metric
  <1>2. "reads" \in Kind /\ "writes" \in Kind
    BY DEF Kind
  <1> QED
    BY <1>1, <1>2 DEF LoadTypes

LEMMA LeqTrans ==
  ASSUME NEW a \in Nat, NEW b \in Nat, NEW c \in Nat, a <= b, b <= c
  PROVE  a <= c
  OBVIOUS

\* What a worker has loaded stays covered while others go on.
LEMMA StaysCovered ==
  ASSUME LoadTypes, LoadTypes', NEW w \in Worker, TotalsGrow,
         seen'[w] = seen[w], torn'[w] = torn[w], type'[w] = type[w],
         type[w] = "info" => InfoCoveredSoFar(w),
         type[w] = "stat" /\ ~torn[w] => StatCoveredSoFar(w)
  PROVE  /\ type'[w] = "info" => InfoCoveredSoFar(w)'
         /\ type'[w] = "stat" /\ ~torn'[w] => StatCoveredSoFar(w)'
  <1> DEFINE s == seen[w]
  <1>1. s \in Seq(Nat) /\ Len(s) \in Nat
    BY DEF LoadTypes
  <1>2. \A i \in 1 .. Len(s) : s[i] \in Nat
    BY <1>1
  <1>3. /\ accumulator'[<<"all", "update">>] \in Nat /\ accumulator'[<<"all", "event">>] \in Nat
        /\ total'["reads"] \in Nat /\ total'["writes"] \in Nat
    <2>1. <<"all", "update">> \in Metric /\ <<"all", "event">> \in Metric
      BY DEF Metric
    <2>2. "reads" \in Kind /\ "writes" \in Kind
      BY DEF Kind
    <2> QED
      BY <2>1, <2>2 DEF LoadTypes
  <1>4. ASSUME type[w] = "info"
        PROVE  InfoCoveredSoFar(w)'
    <2>1. ASSUME Len(s) >= 1 PROVE s[1] <= accumulator'[<<"all", "update">>]
      <3>1. s[1] \in Nat
        BY <1>1, <1>2, <2>1
      <3>2. s[1] <= accumulator[<<"all", "update">>]
        BY <1>4, <2>1 DEF InfoCoveredSoFar
      <3>3. accumulator[<<"all", "update">>] <= accumulator'[<<"all", "update">>]
        BY DEF TotalsGrow
      <3> QED
        BY <1>3, <3>1, <3>2, <3>3, TotalsAreNumbers, LeqTrans
    <2>2. ASSUME Len(s) >= 2 PROVE s[2] <= accumulator'[<<"all", "event">>]
      <3>1. s[2] \in Nat
        BY <1>1, <1>2, <2>2
      <3>2. s[2] <= accumulator[<<"all", "event">>]
        BY <1>4, <2>2 DEF InfoCoveredSoFar
      <3>3. accumulator[<<"all", "event">>] <= accumulator'[<<"all", "event">>]
        BY DEF TotalsGrow
      <3> QED
        BY <1>3, <3>1, <3>2, <3>3, TotalsAreNumbers, LeqTrans
    <2> QED
      BY <1>4, <2>1, <2>2 DEF InfoCoveredSoFar
  <1>5. ASSUME type[w] = "stat", ~torn[w]
        PROVE  StatCoveredSoFar(w)'
    <2>1. ASSUME Len(s) >= 1 PROVE s[1] <= total'["reads"]
      <3>1. s[1] \in Nat
        BY <1>1, <1>2, <2>1
      <3>2. s[1] <= total["reads"]
        BY <1>5, <2>1 DEF StatCoveredSoFar
      <3>3. total["reads"] <= total'["reads"]
        BY DEF TotalsGrow
      <3> QED
        BY <1>3, <3>1, <3>2, <3>3, TotalsAreNumbers, LeqTrans
    <2>2. ASSUME Len(s) >= 2 PROVE s[2] <= total'["writes"]
      <3>1. s[2] \in Nat
        BY <1>1, <1>2, <2>2
      <3>2. s[2] <= total["writes"]
        BY <1>5, <2>2 DEF StatCoveredSoFar
      <3>3. total["writes"] <= total'["writes"]
        BY DEF TotalsGrow
      <3> QED
        BY <1>3, <3>1, <3>2, <3>3, TotalsAreNumbers, LeqTrans
    <2> QED
      BY <1>5, <2>1, <2>2 DEF StatCoveredSoFar
  <1> QED
    BY <1>4, <1>5

\* A step of w between the arrival of its command and its loads.
Walks(w) ==
  /\ at[w] \notin {"idle", "stat", "info"}
  /\ \E s \in Place : /\ at' = [at EXCEPT ![w] = s]
                      /\ s \in {"stat", "info"} => s = type[w]
  /\ type' = type /\ seen' = seen /\ torn' = torn
  /\ minute' = minute /\ total' = total /\ taken' = taken /\ collector' = collector
  /\ marks' \in [Kind -> Nat] /\ accumulator' \in [Metric -> Nat]
  /\ \A m \in Metric : accumulator[m] <= accumulator'[m]

LEMMA WalkStep ==
  ASSUME LoadInv, NEW w \in Worker, Walks(w)
  PROVE  LoadInv'
  <1>1. LoadTypes'
    BY DEF LoadInv, LoadTypes, Walks
  <1>2. MinuteCovered'
    BY DEF LoadInv, MinuteCovered, Walks
  <1>3. TotalsGrow
    <2>1. <<"all", "update">> \in Metric /\ <<"all", "event">> \in Metric
      BY DEF Metric
    <2> QED
      BY <2>1, TotalsAreNumbers DEF Walks, TotalsGrow, LoadInv
  <1>4. ASSUME NEW x \in Worker
        PROVE  CoveredSoFar(x)'
    <2>1. CoveredSoFar(x) /\ LoadTypes
      BY DEF LoadInv
    <2>2. seen'[x] = seen[x] /\ torn'[x] = torn[x] /\ type'[x] = type[x]
      BY DEF Walks
    <2>3. /\ type'[x] = "info" => InfoCoveredSoFar(x)'
          /\ type'[x] = "stat" /\ ~torn'[x] => StatCoveredSoFar(x)'
      BY <1>1, <1>3, <2>1, <2>2, StaysCovered DEF CoveredSoFar
    <2>4. LoadedByPlace(x)'
      <3>1. CASE x # w
        <4>1. at'[x] = at[x]
          BY <2>1, <3>1 DEF Walks, LoadTypes
        <4> QED
          BY <2>1, <2>2, <4>1 DEF CoveredSoFar, LoadedByPlace
      <3>2. CASE x = w
        <4>1. Len(seen[w]) = 0
          BY <2>1, <3>2 DEF Walks, CoveredSoFar, LoadedByPlace
        <4>2. at'[w] \in {"stat", "info"} => at'[w] = type[w]
          BY <2>1 DEF Walks, LoadTypes
        <4> QED
          BY <2>2, <3>2, <4>1, <4>2 DEF LoadedByPlace
      <3> QED
        BY <3>1, <3>2
    <2> QED
      BY <2>3, <2>4 DEF CoveredSoFar
  <1> QED
    BY <1>1, <1>2, <1>4 DEF LoadInv

\* A step that neither loads nor moves a worker.
LEMMA OthersStep ==
  ASSUME LoadInv, LoadTypes', MinuteCovered', TotalsGrow, UNCHANGED <<at, type, seen, torn>>
  PROVE  LoadInv'
  <1>1. ASSUME NEW x \in Worker
        PROVE  CoveredSoFar(x)'
    <2>1. CoveredSoFar(x) /\ LoadTypes
      BY DEF LoadInv
    <2>2. /\ type'[x] = "info" => InfoCoveredSoFar(x)'
          /\ type'[x] = "stat" /\ ~torn'[x] => StatCoveredSoFar(x)'
      BY <2>1, StaysCovered DEF CoveredSoFar
    <2>3. LoadedByPlace(x)'
      BY <2>1 DEF CoveredSoFar, LoadedByPlace
    <2> QED
      BY <2>2, <2>3 DEF CoveredSoFar
  <1> QED
    BY <1>1 DEF LoadInv

LEMMA ReceiveLoads ==
  ASSUME LoadInv, NEW w \in Worker, NEW t \in Type, Receive(w, t)
  PROVE  LoadInv'
  <1>0. UNCHANGED <<accumulator, marks, minute, total, taken, collector>>
    BY DEF Receive, Count, entryVars, collectVars
  <1>1. LoadTypes'
    <2>1. << >> \in Seq(Nat)
      OBVIOUS
    <2>2. "all" \in Place /\ FALSE \in BOOLEAN
      BY DEF Place
    <2> QED
      BY <1>0, <2>1, <2>2 DEF LoadInv, LoadTypes, Receive
  <1>2. MinuteCovered'
    BY <1>0 DEF LoadInv, MinuteCovered
  <1>3. TotalsGrow
    BY <1>0, TotalsAreNumbers DEF TotalsGrow, LoadInv
  <1>4. ASSUME NEW x \in Worker
        PROVE  CoveredSoFar(x)'
    <2>1. CoveredSoFar(x) /\ LoadTypes
      BY DEF LoadInv
    <2>2. CASE x # w
      <3>1. at'[x] = at[x] /\ seen'[x] = seen[x] /\ torn'[x] = torn[x] /\ type'[x] = type[x]
        BY <2>1, <2>2 DEF Receive, LoadTypes
      <3>2. /\ type'[x] = "info" => InfoCoveredSoFar(x)'
            /\ type'[x] = "stat" /\ ~torn'[x] => StatCoveredSoFar(x)'
        BY <1>1, <1>3, <2>1, <3>1, StaysCovered DEF CoveredSoFar
      <3> QED
        BY <2>1, <3>1, <3>2 DEF CoveredSoFar, LoadedByPlace
    <2>3. CASE x = w
      <3>1. at'[w] = "all" /\ seen'[w] = << >>
        BY <2>1 DEF Receive, LoadTypes
      <3>2. Len(seen'[w]) = 0
        BY <3>1
      <3> QED
        BY <2>3, <3>1, <3>2 DEF CoveredSoFar, LoadedByPlace, InfoCoveredSoFar, StatCoveredSoFar
    <2> QED
      BY <2>2, <2>3
  <1> QED
    BY <1>1, <1>2, <1>4 DEF LoadInv

\* One more value v after those of s.
LEMMA OneMore ==
  ASSUME NEW s \in Seq(Nat), NEW v \in Nat
  PROVE  /\ Append(s, v) \in Seq(Nat) /\ Len(Append(s, v)) = Len(s) + 1 /\ Len(s) \in Nat
         /\ Append(s, v)[Len(s) + 1] = v
         /\ \A i \in 1 .. Len(s) : Append(s, v)[i] = s[i] /\ s[i] \in Nat
  OBVIOUS

\* The loads of an INFO.
LEMMA InfoLoads ==
  ASSUME LoadInv, NEW w \in Worker, Load(w), at[w] = "info"
  PROVE  /\ seen' \in [Worker -> Seq(Nat)] /\ at' \in [Worker -> Place]
         /\ LoadedByPlace(w)' /\ InfoCoveredSoFar(w)' /\ type'[w] = "info"
  <1> DEFINE s == seen[w]
             u == accumulator[<<"all", "update">>]
             e == accumulator[<<"all", "event">>]
             v == IF Len(s) = 1 THEN e ELSE u
  <1>1. LoadTypes /\ LoadedByPlace(w) /\ type[w] = "info"
    BY DEF LoadInv, CoveredSoFar, LoadedByPlace
  <1>2. InfoCoveredSoFar(w)
    BY <1>1 DEF LoadInv, CoveredSoFar
  <1>3. s \in Seq(Nat) /\ Len(s) \in Nat /\ Len(s) < 3
    BY <1>1 DEF LoadTypes, LoadedByPlace
  <1>4. u \in Nat /\ e \in Nat /\ v \in Nat
    BY <1>1, TotalsAreNumbers
  <1>5. Loads(w) = <<u, e, u>>
    BY <1>1 DEF Loads
  <1>c. Len(s) = 0 \/ Len(s) = 1 \/ Len(s) = 2
    <2>1. \A n \in Nat : n < 3 => n = 0 \/ n = 1 \/ n = 2
      OBVIOUS
    <2> QED
      BY <1>3, <2>1
  <1>6. Loads(w)[Len(s) + 1] = v /\ Len(Loads(w)) = 3
    <2>1. Len(Loads(w)) = 3 /\ Loads(w)[1] = u /\ Loads(w)[2] = e /\ Loads(w)[3] = u
      BY <1>5
    <2>2. CASE Len(s) = 0
      BY <2>1, <2>2
    <2>3. CASE Len(s) = 1
      BY <2>1, <2>3
    <2>4. CASE Len(s) = 2
      BY <2>1, <2>4
    <2> QED
      BY <1>c, <2>1, <2>2, <2>3, <2>4
  <1>7. /\ seen' = [seen EXCEPT ![w] = Append(s, v)]
        /\ at' = [at EXCEPT ![w] = IF Len(s) + 1 = 3 THEN "idle" ELSE @]
        /\ UNCHANGED <<type, accumulator>>
    BY <1>6 DEF Load, metricVars
  <1>8. seen'[w] = Append(s, v) /\ at'[w] = (IF Len(s) + 1 = 3 THEN "idle" ELSE "info") /\ type'[w] = "info"
    BY <1>1, <1>7 DEF LoadTypes
  <1>9. seen' \in [Worker -> Seq(Nat)] /\ at' \in [Worker -> Place]
    BY <1>1, <1>3, <1>4, <1>7, OneMore DEF LoadTypes, Place
  <1>10. LoadedByPlace(w)'
    BY <1>3, <1>4, <1>8, OneMore DEF LoadedByPlace
  <1>11. InfoCoveredSoFar(w)'
    <2>1. UNCHANGED <<u, e>>
      BY <1>7
    <2>2. CASE Len(s) = 0
      <3>1. Len(seen'[w]) = 1 /\ seen'[w][1] = u
        BY <1>3, <1>4, <1>8, <2>2, OneMore
      <3> QED
        BY <1>4, <2>1, <3>1 DEF InfoCoveredSoFar
    <2>3. CASE Len(s) = 1
      <3>1. Len(seen'[w]) = 2 /\ seen'[w][2] = e /\ seen'[w][1] = s[1]
        BY <1>3, <1>4, <1>8, <2>3, OneMore
      <3>2. s[1] <= u
        BY <1>2, <2>3 DEF InfoCoveredSoFar
      <3> QED
        BY <1>4, <2>1, <3>1, <3>2 DEF InfoCoveredSoFar
    <2>4. CASE Len(s) = 2
      <3>1. Len(seen'[w]) = 3 /\ seen'[w][3] = u /\ seen'[w][1] = s[1] /\ seen'[w][2] = s[2]
        <4>1. v = u /\ 1 \in 1 .. Len(s) /\ 2 \in 1 .. Len(s) /\ Len(s) + 1 = 3
          BY <2>4
        <4>2. Len(Append(s, v)) = 3 /\ Append(s, v)[3] = v
          BY <1>3, <1>4, <4>1, OneMore
        <4>3. Append(s, v)[1] = s[1] /\ Append(s, v)[2] = s[2]
          BY <1>3, <1>4, <4>1, OneMore
        <4> QED
          BY <1>8, <4>1, <4>2, <4>3
      <3>2. s[1] <= u /\ s[2] <= e
        BY <1>2, <2>4 DEF InfoCoveredSoFar
      <3> QED
        BY <1>4, <2>1, <3>1, <3>2 DEF InfoCoveredSoFar
    <2> QED
      BY <1>c, <2>2, <2>3, <2>4
  <1> QED
    BY <1>8, <1>9, <1>10, <1>11

\* The loads of a STAT.
LEMMA StatLoads ==
  ASSUME LoadInv, NEW w \in Worker, Load(w), at[w] = "stat"
  PROVE  /\ seen' \in [Worker -> Seq(Nat)] /\ at' \in [Worker -> Place]
         /\ LoadedByPlace(w)' /\ (~torn'[w] => StatCoveredSoFar(w)') /\ type'[w] = "stat"
  <1> DEFINE s == seen[w]
             v == Loads(w)[Len(s) + 1]
  <1>1. LoadTypes /\ LoadedByPlace(w) /\ type[w] = "stat" /\ MinuteCovered
    BY DEF LoadInv, CoveredSoFar, LoadedByPlace
  <1>2. s \in Seq(Nat) /\ Len(s) \in Nat /\ Len(s) < 4
    BY <1>1 DEF LoadTypes, LoadedByPlace
  <1>c. Len(s) = 0 \/ Len(s) = 1 \/ Len(s) = 2 \/ Len(s) = 3
    <2>1. \A n \in Nat : n < 4 => n = 0 \/ n = 1 \/ n = 2 \/ n = 3
      OBVIOUS
    <2> QED
      BY <1>2, <2>1
  <1>t. /\ total["reads"] \in Nat /\ total["writes"] \in Nat
        /\ minute["reads"] \in Nat /\ minute["writes"] \in Nat
    BY <1>1, TotalsAreNumbers
  <1>3. /\ Len(Loads(w)) = 4
        /\ Loads(w)[1] = minute["reads"] /\ Loads(w)[2] = minute["writes"]
        /\ Loads(w)[3] = total["reads"] /\ Loads(w)[4] = total["writes"]
    <2>1. Loads(w) = <<minute["reads"], minute["writes"], total["reads"], total["writes"]>>
      BY <1>1 DEF Loads
    <2> QED
      BY <2>1
  <1>4. v \in Nat
    <2>1. CASE Len(s) = 0
      BY <1>t, <1>3, <2>1
    <2>2. CASE Len(s) = 1
      BY <1>t, <1>3, <2>2
    <2>3. CASE Len(s) = 2
      BY <1>t, <1>3, <2>3
    <2>4. CASE Len(s) = 3
      BY <1>t, <1>3, <2>4
    <2> QED
      BY <1>c, <2>1, <2>2, <2>3, <2>4
  <1>5. /\ seen' = [seen EXCEPT ![w] = Append(s, v)]
        /\ at' = [at EXCEPT ![w] = IF Len(s) + 1 = 4 THEN "idle" ELSE @]
        /\ UNCHANGED <<type, total>>
    BY <1>3 DEF Load, entryVars
  <1>6. ~torn'[w] => /\ ~torn[w]
                     /\ Len(s) = 0 => collector \notin {3, 4}
                     /\ Len(s) = 1 => collector \notin {4, 5}
    <2>1. torn' = [torn EXCEPT ![w] = @ \/ /\ at[w] = "stat"
                                           /\ \/ Len(s) + 1 = 1 /\ collector \in {3, 4}
                                              \/ Len(s) + 1 = 2 /\ collector \in {4, 5}]
      BY DEF Load
    <2>2. torn'[w] = (torn[w] \/ /\ at[w] = "stat"
                                 /\ \/ Len(s) + 1 = 1 /\ collector \in {3, 4}
                                    \/ Len(s) + 1 = 2 /\ collector \in {4, 5})
      BY <1>1, <2>1, Zenon DEF LoadTypes
    <2>3. (Len(s) = 0 => Len(s) + 1 = 1) /\ (Len(s) = 1 => Len(s) + 1 = 2)
      <3>1. \A n \in Nat : (n = 0 => n + 1 = 1) /\ (n = 1 => n + 1 = 2)
        OBVIOUS
      <3> QED
        BY <1>2, <3>1, Zenon
    <2> QED
      BY <2>2, <2>3, Zenon
  <1>7. seen'[w] = Append(s, v) /\ at'[w] = (IF Len(s) + 1 = 4 THEN "idle" ELSE "stat") /\ type'[w] = "stat"
    BY <1>1, <1>5 DEF LoadTypes
  <1>8. seen' \in [Worker -> Seq(Nat)] /\ at' \in [Worker -> Place]
    BY <1>1, <1>2, <1>4, <1>5, OneMore DEF LoadTypes, Place
  <1>9. LoadedByPlace(w)'
    BY <1>2, <1>4, <1>7, OneMore DEF LoadedByPlace
  <1>10. ASSUME ~torn'[w]
         PROVE  StatCoveredSoFar(w)'
    <2>0. StatCoveredSoFar(w)
      BY <1>1, <1>6, <1>10 DEF LoadInv, CoveredSoFar
    <2>1. total' = total
      BY <1>5
    <2> HIDE DEF v
    <2>2. /\ Len(seen'[w]) = Len(s) + 1 /\ seen'[w][Len(s) + 1] = v
          /\ \A i \in 1 .. Len(s) : seen'[w][i] = s[i] /\ s[i] \in Nat
      BY <1>2, <1>4, <1>7, OneMore
    <2>3. CASE Len(s) = 0
      <3>1. v = minute["reads"] /\ minute["reads"] <= total["reads"]
        BY <1>1, <1>3, <1>6, <1>10, <2>3 DEF MinuteCovered, v
      <3>2. Len(seen'[w]) = 1 /\ seen'[w][1] = v
        BY <2>2, <2>3
      <3> QED
        BY <1>t, <2>1, <3>1, <3>2 DEF StatCoveredSoFar
    <2>4. CASE Len(s) = 1
      <3>1. v = minute["writes"] /\ minute["writes"] <= total["writes"]
        BY <1>1, <1>3, <1>6, <1>10, <2>4 DEF MinuteCovered, v
      <3>2. Len(seen'[w]) = 2 /\ seen'[w][2] = v /\ seen'[w][1] = s[1]
        BY <2>2, <2>4
      <3>3. s[1] <= total["reads"]
        BY <2>0, <2>4 DEF StatCoveredSoFar
      <3> QED
        BY <1>t, <2>1, <3>1, <3>2, <3>3 DEF StatCoveredSoFar
    <2>5. CASE Len(s) = 2
      <3>1. v = total["reads"]
        BY <1>3, <2>5 DEF v
      <3>2. Len(seen'[w]) = 3 /\ seen'[w][3] = v /\ seen'[w][1] = s[1] /\ seen'[w][2] = s[2]
        <4>1. 1 \in 1 .. Len(s) /\ 2 \in 1 .. Len(s) /\ Len(s) + 1 = 3
          BY <2>5
        <4> QED
          BY <2>2, <4>1
      <3>3. s[1] <= total["reads"] /\ s[2] <= total["writes"]
        BY <2>0, <2>5 DEF StatCoveredSoFar
      <3> QED
        BY <1>t, <2>1, <3>1, <3>2, <3>3 DEF StatCoveredSoFar
    <2>6. CASE Len(s) = 3
      <3>1. v = total["writes"]
        BY <1>3, <2>6 DEF v
      <3>2. /\ Len(seen'[w]) = 4 /\ seen'[w][4] = v
            /\ seen'[w][1] = s[1] /\ seen'[w][2] = s[2] /\ seen'[w][3] = s[3]
        <4>1. 1 \in 1 .. Len(s) /\ 2 \in 1 .. Len(s) /\ 3 \in 1 .. Len(s) /\ Len(s) + 1 = 4
          BY <2>6
        <4> QED
          BY <2>2, <4>1
      <3>3. s[1] <= total["reads"] /\ s[2] <= total["writes"] /\ s[1] <= s[3]
        BY <2>0, <2>6 DEF StatCoveredSoFar
      <3> QED
        BY <1>t, <2>1, <3>1, <3>2, <3>3 DEF StatCoveredSoFar
    <2> QED
      BY <1>c, <2>3, <2>4, <2>5, <2>6
  <1> QED
    BY <1>7, <1>8, <1>9, <1>10

LEMMA LoadKeepsCover ==
  ASSUME LoadInv, NEW w \in Worker, Load(w)
  PROVE  LoadInv'
  <1>0. UNCHANGED <<type, accumulator, marks, minute, total, taken, collector>>
    BY DEF Load, metricVars, entryVars, collectVars
  <1>1. seen' \in [Worker -> Seq(Nat)] /\ at' \in [Worker -> Place] /\ CoveredSoFar(w)'
    <2>1. CASE at[w] = "info"
      BY <2>1, InfoLoads DEF CoveredSoFar
    <2>2. CASE at[w] = "stat"
      BY <2>2, StatLoads DEF CoveredSoFar
    <2> QED
      BY <2>1, <2>2 DEF Load
  <1>2. torn' \in [Worker -> BOOLEAN] /\ \A x \in Worker \ {w} : torn'[x] = torn[x]
    <2>1. \E b : torn' = [torn EXCEPT ![w] = @ \/ b]
      BY Zenon DEF Load
    <2>2. PICK b : torn' = [torn EXCEPT ![w] = @ \/ b]
      BY <2>1
    <2>3. torn \in [Worker -> BOOLEAN] /\ (torn[w] \/ b) \in BOOLEAN
      BY DEF LoadInv, LoadTypes
    <2> QED
      BY <2>2, <2>3
  <1>3. LoadTypes'
    BY <1>0, <1>1, <1>2 DEF LoadInv, LoadTypes
  <1>4. MinuteCovered'
    BY <1>0 DEF LoadInv, MinuteCovered
  <1>5. TotalsGrow
    BY <1>0, TotalsAreNumbers DEF TotalsGrow, LoadInv
  <1>6. ASSUME NEW x \in Worker \ {w}
        PROVE  CoveredSoFar(x)'
    <2>1. CoveredSoFar(x) /\ LoadTypes
      BY DEF LoadInv
    <2>2. at'[x] = at[x] /\ seen'[x] = seen[x] /\ torn'[x] = torn[x] /\ type'[x] = type[x]
      BY <1>0, <1>2, <2>1 DEF Load, LoadTypes
    <2>3. /\ type'[x] = "info" => InfoCoveredSoFar(x)'
          /\ type'[x] = "stat" /\ ~torn'[x] => StatCoveredSoFar(x)'
      BY <1>3, <1>5, <2>1, <2>2, StaysCovered DEF CoveredSoFar
    <2> QED
      BY <2>1, <2>2, <2>3 DEF CoveredSoFar, LoadedByPlace
  <1> QED
    BY <1>1, <1>3, <1>4, <1>6 DEF LoadInv

\* The steps of the collector: a value is in its hands from the store to the addition.
LEMMA CollectKeepsCover ==
  ASSUME LoadInv, Collect
  PROVE  LoadInv'
  <1>1. UNCHANGED <<at, type, seen, torn>> /\ LoadTypes /\ MinuteCovered
    BY DEF Collect, workVars, LoadInv
  <1>2. collector \in 0 .. 7 /\ collector' = (collector + 1) % 8 /\ accumulator' = accumulator
    BY DEF Collect, CollectEntry, CollectCommands, Compute, metricVars, LoadInv, LoadTypes
  <1>k. "reads" \in Kind /\ "writes" \in Kind /\ "reads" # "writes"
    BY DEF Kind
  <1>t. /\ total["reads"] \in Nat /\ total["writes"] \in Nat
        /\ minute["reads"] \in Nat /\ minute["writes"] \in Nat
        /\ taken["reads"] \in Nat /\ taken["writes"] \in Nat
        /\ accumulator[<<"all", "update">>] \in Nat /\ accumulator[<<"all", "event">>] \in Nat
    BY <1>1, TotalsAreNumbers
  <1>3. ASSUME marks' \in [Kind -> Nat], minute' \in [Kind -> Nat], total' \in [Kind -> Nat],
               taken' \in [Kind -> Nat], collector' \in 0 .. 7, MinuteCovered',
               total["reads"] <= total'["reads"], total["writes"] <= total'["writes"]
        PROVE  LoadInv'
    <2>1. LoadTypes'
      BY <1>1, <1>2, <1>3 DEF LoadTypes
    <2>2. TotalsGrow
      BY <1>2, <1>3, <1>t DEF TotalsGrow
    <2> QED
      BY <1>1, <1>3, <2>1, <2>2, OthersStep
  <1>4. CASE CollectCommands
    <2>1. UNCHANGED <<marks, minute, total, taken>> /\ collector \in {6, 7}
      BY <1>4 DEF CollectCommands, entryVars
    <2>2. collector' \in {7, 0}
      BY <1>2, <2>1
    <2> QED
      <3>1. minute["reads"] <= total["reads"] /\ minute["writes"] <= total["writes"]
        BY <1>1, <2>1 DEF MinuteCovered
      <3>2. MinuteCovered'
        BY <2>1, <2>2, <3>1 DEF MinuteCovered
      <3>3. /\ marks' \in [Kind -> Nat] /\ minute' \in [Kind -> Nat] /\ total' \in [Kind -> Nat]
            /\ taken' \in [Kind -> Nat] /\ collector' \in 0 .. 7
        BY <1>1, <2>1, <2>2 DEF LoadTypes
      <3>4. total["reads"] <= total'["reads"] /\ total["writes"] <= total'["writes"]
        BY <1>t, <2>1
      <3> QED
        BY <1>3, <3>2, <3>3, <3>4
  <1>5. ASSUME NEW k \in Kind, Take(k), collector \in {0, 1}
        PROVE  LoadInv'
    <2>1. collector' \in {1, 2}
      BY <1>2, <1>5
    <2>2. marks' \in [Kind -> Nat] /\ taken' \in [Kind -> Nat] /\ UNCHANGED <<minute, total>>
      BY <1>1, <1>5 DEF Take, LoadTypes
    <2>3. minute["reads"] <= total["reads"] /\ minute["writes"] <= total["writes"]
      BY <1>1, <1>5 DEF MinuteCovered
    <2>4. MinuteCovered'
      BY <2>1, <2>2, <2>3 DEF MinuteCovered
    <2>5. minute' \in [Kind -> Nat] /\ total' \in [Kind -> Nat] /\ collector' \in 0 .. 7
      BY <1>1, <2>1, <2>2 DEF LoadTypes
    <2>6. total["reads"] <= total'["reads"] /\ total["writes"] <= total'["writes"]
      BY <1>t, <2>2
    <2> QED
      BY <1>3, <2>2, <2>4, <2>5, <2>6
  <1>6. CASE collector = 2 /\ Store("reads")
    <2>1. collector' = 3
      BY <1>2, <1>6
    <2>2. /\ minute' \in [Kind -> Nat] /\ minute'["reads"] = taken["reads"] /\ minute'["writes"] = minute["writes"]
          /\ UNCHANGED <<marks, total, taken>>
      BY <1>1, <1>6, <1>k DEF Store, LoadTypes
    <2>3. MinuteCovered'
      <3>1. minute["writes"] <= total["writes"]
        BY <1>1, <1>6 DEF MinuteCovered
      <3> QED
        BY <2>1, <2>2, <3>1 DEF MinuteCovered
    <2>4. /\ marks' \in [Kind -> Nat] /\ taken' \in [Kind -> Nat] /\ total' \in [Kind -> Nat]
          /\ collector' \in 0 .. 7
      BY <1>1, <2>1, <2>2 DEF LoadTypes
    <2>5. total["reads"] <= total'["reads"] /\ total["writes"] <= total'["writes"]
      BY <1>t, <2>2
    <2> QED
      BY <1>3, <2>2, <2>3, <2>4, <2>5
  <1>7. CASE collector = 3 /\ Store("writes")
    <2>1. collector' = 4
      BY <1>2, <1>7
    <2>2. /\ minute' \in [Kind -> Nat] /\ minute'["writes"] = taken["writes"] /\ minute'["reads"] = minute["reads"]
          /\ UNCHANGED <<marks, total, taken>>
      BY <1>1, <1>7, <1>k DEF Store, LoadTypes
    <2> QED
      BY <1>1, <1>3, <1>7, <1>t, <2>1, <2>2 DEF MinuteCovered, LoadTypes
  <1>8. CASE collector = 4 /\ Add("reads")
    <2>1. collector' = 5
      BY <1>2, <1>8
    <2>2. /\ total' \in [Kind -> Nat] /\ taken' \in [Kind -> Nat] /\ UNCHANGED <<marks, minute>>
          /\ total'["reads"] = total["reads"] + taken["reads"] /\ total'["writes"] = total["writes"]
          /\ taken'["writes"] = taken["writes"]
      BY <1>1, <1>8, <1>k, <1>t DEF Add, LoadTypes
    <2>3. minute["reads"] = taken["reads"] /\ minute["writes"] = taken["writes"]
      BY <1>1, <1>8 DEF MinuteCovered
    <2>4. total["reads"] <= total'["reads"] /\ total["writes"] <= total'["writes"]
      BY <1>t, <2>2
    <2>5. MinuteCovered'
      BY <1>t, <2>1, <2>2, <2>3 DEF MinuteCovered
    <2>6. marks' \in [Kind -> Nat] /\ minute' \in [Kind -> Nat] /\ collector' \in 0 .. 7
      BY <1>1, <2>1, <2>2 DEF LoadTypes
    <2> QED
      BY <1>3, <2>2, <2>4, <2>5, <2>6
  <1>9. CASE collector = 5 /\ Add("writes")
    <2>1. collector' = 6
      BY <1>2, <1>9
    <2>2. /\ total' \in [Kind -> Nat] /\ taken' \in [Kind -> Nat] /\ UNCHANGED <<marks, minute>>
          /\ total'["writes"] = total["writes"] + taken["writes"] /\ total'["reads"] = total["reads"]
      BY <1>1, <1>9, <1>k, <1>t DEF Add, LoadTypes
    <2>3. minute["reads"] <= total["reads"] /\ minute["writes"] = taken["writes"]
      BY <1>1, <1>9 DEF MinuteCovered
    <2>4. total["reads"] <= total'["reads"] /\ total["writes"] <= total'["writes"]
      BY <1>t, <2>2
    <2>5. MinuteCovered'
      BY <1>t, <2>1, <2>2, <2>3 DEF MinuteCovered
    <2>6. marks' \in [Kind -> Nat] /\ minute' \in [Kind -> Nat] /\ collector' \in 0 .. 7
      BY <1>1, <2>1, <2>2 DEF LoadTypes
    <2> QED
      BY <1>3, <2>2, <2>4, <2>5, <2>6
  <1> QED
    BY <1>4, <1>5, <1>6, <1>7, <1>8, <1>9, <1>k DEF Collect, CollectEntry

LEMMA LoadInvStep == LoadInv /\ [MetricsNext]_metricsVars => LoadInv'
  <1> SUFFICES ASSUME LoadInv, [MetricsNext]_metricsVars PROVE LoadInv'
    OBVIOUS
  <1>t. LoadTypes /\ \A m \in Metric : accumulator[m] \in Nat /\ accumulator[m] <= accumulator[m]
    BY DEF LoadInv, LoadTypes
  <1>m. ASSUME NEW m \in Metric, Accumulate(m)
        PROVE  accumulator' \in [Metric -> Nat] /\ \A n \in Metric : accumulator[n] <= accumulator'[n]
    BY <1>m, <1>t DEF Accumulate, LoadTypes
  <1>1. ASSUME NEW w \in Worker, MarkAll(w) \/ MarkInner(w)
        PROVE  LoadInv'
    <2>1. type[w] \in Type /\ <<"all", type[w]>> \in Metric /\ <<"all", "update">> \in Metric
      BY <1>t, MetricTyped DEF LoadTypes
    <2>2. accumulator' \in [Metric -> Nat] /\ \A n \in Metric : accumulator[n] <= accumulator'[n]
      BY <1>1, <1>m, <2>1 DEF MarkAll, MarkInner
    <2>3. Walks(w)
      BY <1>1, <1>t, <2>2 DEF Walks, MarkAll, MarkInner, Goto, Place, entryVars, collectVars, LoadTypes
    <2> QED
      BY <2>3, WalkStep
  <1>2. ASSUME NEW w \in Worker, CountMine(w) \/ CountInner(w)
        PROVE  LoadInv'
    <2>1. Walks(w)
      BY <1>2, <1>t DEF Walks, CountMine, CountInner, Count, Goto, Place, entryVars, collectVars, LoadTypes
    <2> QED
      BY <2>1, WalkStep
  <1>3. ASSUME NEW w \in Worker, MarkMine(w)
        PROVE  LoadInv'
    <2>1. type[w] \in Type /\ <<w, type[w]>> \in Metric
      BY <1>t, MetricTyped DEF LoadTypes
    <2>2. accumulator' \in [Metric -> Nat] /\ \A n \in Metric : accumulator[n] <= accumulator'[n]
      BY <1>3, <1>m, <2>1 DEF MarkMine
    <2>3. Handler(type[w]) \in Place /\ (Handler(type[w]) \in {"stat", "info"} => Handler(type[w]) = type[w])
      BY DEF Handler, Place
    <2>4. Walks(w)
      BY <1>3, <1>t, <2>2, <2>3 DEF Walks, MarkMine, Goto, entryVars, collectVars, LoadTypes
    <2> QED
      BY <2>4, WalkStep
  <1>4. ASSUME NEW w \in Worker, Find(w) \/ MarkWrite(w)
        PROVE  LoadInv'
    <2>1. marks' \in [Kind -> Nat]
      BY <1>4, <1>t DEF Find, MarkWrite, Mark, LoadTypes, Kind
    <2>2. UNCHANGED <<minute, total, taken, collector, accumulator, type, seen, torn>>
      BY <1>4 DEF Find, MarkWrite, Mark, Goto, metricVars, collectVars
    <2>3. at[w] \notin {"idle", "stat", "info"}
      BY <1>4 DEF Find, MarkWrite
    <2>4. \E s \in Place : at' = [at EXCEPT ![w] = s] /\ (s \in {"stat", "info"} => s = type[w])
      BY <1>4 DEF Find, MarkWrite, Goto, Place
    <2>5. Walks(w)
      BY <1>t, <2>1, <2>2, <2>3, <2>4 DEF Walks, LoadTypes
    <2> QED
      BY <2>5, WalkStep
  <1>5. ASSUME NEW w \in Worker, NEW v \in Amount, Apply(w, v) \/ Refuse(w, v)
        PROVE  LoadInv'
    <2>1. Walks(w)
      BY <1>5, <1>t DEF Walks, Apply, Refuse, Goto, Place, metricVars, entryVars, collectVars, LoadTypes
    <2> QED
      BY <2>1, WalkStep
  <1>6. ASSUME NEW w \in Worker, Subtract(w)
        PROVE  LoadInv'
    <2>1. Walks(w)
      BY <1>6, <1>t DEF Walks, Subtract, Goto, Place, metricVars, entryVars, collectVars, LoadTypes
    <2> QED
      BY <2>1, WalkStep
  <1>7. ASSUME UNCHANGED <<metricVars, entryVars, collectVars, workVars>>
        PROVE  LoadInv'
    <2>1. UNCHANGED <<accumulator, marks, minute, total, taken, collector, at, type, seen, torn>>
      BY <1>7 DEF metricVars, entryVars, collectVars, workVars
    <2>2. TotalsGrow
      BY <1>t, <2>1, TotalsAreNumbers DEF TotalsGrow
    <2>3. LoadTypes' /\ MinuteCovered'
      BY <1>t, <2>1 DEF LoadTypes, MinuteCovered, LoadInv
    <2> QED
      BY <2>1, <2>2, <2>3, OthersStep
  <1>8. ASSUME NEW w \in Worker, NEW v \in Amount, Compare(w, v)
        PROVE  LoadInv'
    BY <1>7, <1>8 DEF Compare
  <1>9. CASE UNCHANGED metricsVars
    BY <1>7, <1>9 DEF metricsVars
  <1> QED
    BY <1>1, <1>2, <1>3, <1>4, <1>5, <1>6, <1>8, <1>9, ReceiveLoads, LoadKeepsCover, CollectKeepsCover
    DEF MetricsNext

LEMMA LoadInvInit == MetricsInit => LoadInv
  <1> SUFFICES ASSUME MetricsInit PROVE LoadInv
    OBVIOUS
  <1>1. LoadTypes
    BY MetricsAssumption DEF MetricsInit, LoadTypes, Place, Kind
  <1>2. MinuteCovered
    BY DEF MetricsInit, MinuteCovered, Kind
  <1>3. \A w \in Worker : Len(seen[w]) = 0 /\ at[w] = "idle"
    BY DEF MetricsInit
  <1> QED
    BY <1>1, <1>2, <1>3 DEF LoadInv, CoveredSoFar, LoadedByPlace, InfoCoveredSoFar, StatCoveredSoFar

(***************************************************************************)
(* On any number of threads, STAT reports more for the last minute than in *)
(* total only when it loaded a per-minute value that the collector had     *)
(* stored and not yet added (metrics_collector_service.cpp:62-66): a       *)
(* collection anywhere else in the four loads of a STAT does no harm.      *)
(***************************************************************************)
THEOREM StatTornOnlyByCollection == MetricsSpec => []TornNeedsCollection
  <1>1. LoadInv => TornNeedsCollection
    <2> SUFFICES ASSUME LoadInv, NEW w \in Worker,
                        at[w] = "idle", type[w] = "stat", seen[w] # << >>, ~torn[w]
                 PROVE  seen[w][1] <= seen[w][3] /\ seen[w][2] <= seen[w][4]
      BY DEF TornNeedsCollection
    <2>1. seen[w] \in Seq(Nat)
      BY DEF LoadInv, LoadTypes
    <2>2. Len(seen[w]) # 0
      BY <2>1
    <2>3. Len(seen[w]) = 4 /\ StatCoveredSoFar(w)
      BY <2>2 DEF LoadInv, CoveredSoFar, LoadedByPlace
    <2> QED
      BY <2>3 DEF StatCoveredSoFar
  <1> QED
    BY <1>1, LoadInvInit, LoadInvStep, PTL DEF MetricsSpec

(***************************************************************************)
(* On any number of threads, with commands marked between its loads, the   *)
(* total INFO reports is covered by what it lists per type and the EVENTs  *)
(* marked by then (info_command.cpp:91 and :131).                          *)
(***************************************************************************)
THEOREM InfoTotalsAreCovered == MetricsSpec => []TotalsCovered
  <1>1. LoadInv => TotalsCovered
    <2> SUFFICES ASSUME LoadInv, NEW w \in Worker,
                        at[w] = "idle", type[w] = "info", seen[w] # << >>
                 PROVE  seen[w][1] + seen[w][2] <= seen[w][3] + accumulator[<<"all", "event">>]
      BY DEF TotalsCovered
    <2>1. seen[w] \in Seq(Nat) /\ accumulator[<<"all", "event">>] \in Nat
      BY TotalsAreNumbers DEF LoadInv, LoadTypes
    <2>2. Len(seen[w]) # 0
      BY <2>1
    <2>3. Len(seen[w]) = 3 /\ InfoCoveredSoFar(w)
      BY <2>2 DEF LoadInv, CoveredSoFar, LoadedByPlace
    <2>4. seen[w][1] <= seen[w][3] /\ seen[w][2] <= accumulator[<<"all", "event">>]
      BY <2>3 DEF InfoCoveredSoFar
    <2>5. seen[w][1] \in Nat /\ seen[w][2] \in Nat /\ seen[w][3] \in Nat
      BY <2>1, <2>3
    <2>6. \A a, b, c, d \in Nat : a <= c /\ b <= d => a + b <= c + d
      OBVIOUS
    <2> QED
      BY <2>1, <2>4, <2>5, <2>6, Zenon
  <1> QED
    BY <1>1, LoadInvInit, LoadInvStep, PTL DEF MetricsSpec

-----------------------------------------------------------------------------
(* The commands of the server and of the connections *)

\* The element a sum over s takes first.
First(s) == CHOOSE x \in s : TRUE

\* g gives the sum of f over every subset of S.
IsSum(g, f, S) ==
  g = [s \in SUBSET S |-> IF s = {} THEN 0 ELSE f[First(s)] + g[s \ {First(s)}]]

\* Without its first element a set is smaller by one.
LEMMA FirstRemoved ==
  ASSUME NEW s, IsFiniteSet(s), s # {}
  PROVE  /\ First(s) \in s /\ IsFiniteSet(s \ {First(s)})
         /\ Cardinality(s) \in Nat /\ Cardinality(s \ {First(s)}) = Cardinality(s) - 1
  <1>1. First(s) \in s
    BY DEF First
  <1> QED
    BY <1>1, FS_RemoveElement, FS_CardinalityType

LEMMA SumExists ==
  ASSUME NEW S, IsFiniteSet(S), NEW f \in [S -> Nat]
  PROVE  \E g : IsSum(g, f, S)
  <1> DEFINE Upto(n) == {s \in SUBSET S : Cardinality(s) <= n}
             Right(g, n) == \A s \in Upto(n) :
               g[s] = IF s = {} THEN 0 ELSE f[First(s)] + g[s \ {First(s)}]
             T == {n \in Nat : \E g \in [Upto(n) -> Nat] : Right(g, n)}
  <1>1. \A s \in SUBSET S : IsFiniteSet(s) /\ Cardinality(s) \in Nat
    BY FS_Subset, FS_CardinalityType
  <1>2. 0 \in T
    <2> DEFINE g == [s \in Upto(0) |-> 0]
    <2>1. \A s \in Upto(0) : s = {}
      BY <1>1, FS_EmptySet
    <2>2. g \in [Upto(0) -> Nat] /\ \A s \in Upto(0) : g[s] = 0
      OBVIOUS
    <2>3. Right(g, 0)
      <3> HIDE DEF g
      <3> QED
        BY <2>1, <2>2
    <2> HIDE DEF g, Right
    <2> QED
      BY <2>2, <2>3
  <1>3. ASSUME NEW n \in Nat, n \in T PROVE n + 1 \in T
    <2>1. PICK g \in [Upto(n) -> Nat] : Right(g, n)
      BY <1>3
    <2> DEFINE h == [s \in Upto(n + 1) |-> IF s = {} THEN 0 ELSE f[First(s)] + g[s \ {First(s)}]]
    <2>2. ASSUME NEW s \in Upto(n + 1), s # {}
          PROVE  First(s) \in s /\ s \ {First(s)} \in Upto(n) /\ s \ {First(s)} \in Upto(n + 1)
      <3>1. First(s) \in s /\ Cardinality(s) \in Nat /\ Cardinality(s \ {First(s)}) = Cardinality(s) - 1
        BY <1>1, <2>2, FirstRemoved
      <3>2. Cardinality(s) <= n + 1 /\ s \ {First(s)} \in SUBSET S
        OBVIOUS
      <3> QED
        BY <3>1, <3>2
    <2>3. ASSUME NEW s \in Upto(n) PROVE s \in Upto(n + 1) /\ h[s] = g[s]
      <3>1. s \in Upto(n + 1)
        BY <1>1
      <3> QED
        BY <2>1, <3>1
    <2>4. h \in [Upto(n + 1) -> Nat]
      <3> SUFFICES ASSUME NEW s \in Upto(n + 1), s # {} PROVE f[First(s)] + g[s \ {First(s)}] \in Nat
        OBVIOUS
      <3>1. f[First(s)] \in Nat /\ g[s \ {First(s)}] \in Nat
        BY <2>2
      <3> QED
        BY <3>1
    <2>5. ASSUME NEW s \in Upto(n + 1)
          PROVE  h[s] = IF s = {} THEN 0 ELSE f[First(s)] + h[s \ {First(s)}]
      <3>1. h[s] = IF s = {} THEN 0 ELSE f[First(s)] + g[s \ {First(s)}]
        OBVIOUS
      <3> HIDE DEF h
      <3> QED
        BY <2>2, <2>3, <3>1
    <2>6. Right(h, n + 1)
      <3> HIDE DEF h
      <3> QED
        BY <2>5
    <2>7. n + 1 \in Nat
      OBVIOUS
    <2> HIDE DEF h, Right, Upto
    <2> QED
      BY <2>4, <2>6, <2>7
  <1>4. Nat \subseteq T
    <2> HIDE DEF T
    <2> QED
      BY <1>2, <1>3, SetInduction
  <1>5. PICK g \in [Upto(Cardinality(S)) -> Nat] : Right(g, Cardinality(S))
    BY <1>1, <1>4
  <1>6. Upto(Cardinality(S)) = SUBSET S
    BY <1>1, FS_Subset
  <1>7. DOMAIN g = SUBSET S
    BY <1>5, <1>6
  <1>8. \A s \in SUBSET S : g[s] = IF s = {} THEN 0 ELSE f[First(s)] + g[s \ {First(s)}]
    BY <1>5, <1>6
  <1>9. IsSum(g, f, S)
    BY <1>5, <1>6, <1>8 DEF IsSum
  <1> QED
    BY <1>9

LEMMA SumIsSum ==
  ASSUME NEW S, IsFiniteSet(S), NEW f \in [S -> Nat]
  PROVE  \E g : IsSum(g, f, S) /\ SumOver(f, S) = g[S]
  <1> DEFINE g == CHOOSE g : IsSum(g, f, S)
  <1>1. IsSum(g, f, S)
    BY SumExists
  <1>2. SumOver(f, S) = g[S]
    BY DEF SumOver, MapThenSumSet, MapThenFoldSet, IsSum, First
  <1> QED
    BY <1>1, <1>2

\* One more for one element is one more for the sum.
LEMMA SumGrows ==
  ASSUME NEW S, IsFiniteSet(S), NEW f \in [S -> Nat], NEW x \in S,
         NEW h, h = [f EXCEPT ![x] = @ + 1]
  PROVE  /\ SumOver(f, S) \in Nat
         /\ SumOver(h, S) = SumOver(f, S) + 1
  <1>1. h \in [S -> Nat] /\ h[x] = f[x] + 1 /\ \A y \in S \ {x} : h[y] = f[y]
    OBVIOUS
  <1>2. PICK g : IsSum(g, f, S) /\ SumOver(f, S) = g[S]
    BY SumIsSum
  <1>3. PICK k : IsSum(k, h, S) /\ SumOver(h, S) = k[S]
    BY <1>1, SumIsSum
  <1>4. /\ \A s \in SUBSET S : g[s] = IF s = {} THEN 0 ELSE f[First(s)] + g[s \ {First(s)}]
        /\ \A s \in SUBSET S : k[s] = IF s = {} THEN 0 ELSE h[First(s)] + k[s \ {First(s)}]
    BY <1>2, <1>3 DEF IsSum
  <1>5. \A s \in SUBSET S : IsFiniteSet(s) /\ Cardinality(s) \in Nat
    BY FS_Subset, FS_CardinalityType
  <1> DEFINE Good(s) == g[s] \in Nat /\ k[s] = IF x \in s THEN g[s] + 1 ELSE g[s]
             T == {n \in Nat : \A s \in SUBSET S : Cardinality(s) = n => Good(s)}
  <1>6. 0 \in T
    <2> SUFFICES ASSUME NEW s \in SUBSET S, Cardinality(s) = 0 PROVE Good(s)
      OBVIOUS
    <2>1. s = {}
      BY <1>5, FS_EmptySet
    <2>2. g[s] = 0 /\ k[s] = 0 /\ x \notin s
      BY <1>4, <2>1
    <2> QED
      BY <2>2
  <1>7. ASSUME NEW n \in Nat, n \in T PROVE n + 1 \in T
    <2> SUFFICES ASSUME NEW s \in SUBSET S, Cardinality(s) = n + 1 PROVE Good(s)
      OBVIOUS
    <2> DEFINE y == First(s)  r == s \ {First(s)}
    <2>1. s # {}
      BY FS_EmptySet
    <2>2. y \in s /\ r \in SUBSET S /\ Cardinality(r) = n
      BY <1>5, <2>1, FirstRemoved
    <2>3. Good(r)
      BY <1>7, <2>2
    <2>4. g[s] = f[y] + g[r] /\ k[s] = h[y] + k[r]
      BY <1>4, <2>1
    <2>5. f[y] \in Nat /\ h[y] = IF x = y THEN f[y] + 1 ELSE f[y]
      BY <1>1, <2>2
    <2>6. x \in s <=> x = y \/ x \in r
      BY <2>2
    <2>7. x = y => x \notin r
      OBVIOUS
    <2> HIDE DEF y, r
    <2> QED
      BY <2>3, <2>4, <2>5, <2>6, <2>7
  <1>8. Nat \subseteq T
    <2> HIDE DEF T
    <2> QED
      BY <1>6, <1>7, SetInduction
  <1>9. Good(S)
    BY <1>5, <1>8
  <1> QED
    BY <1>2, <1>3, <1>9

\* A sum of zeros is zero.
LEMMA SumOfZeros ==
  ASSUME NEW S, IsFiniteSet(S), NEW f, f = [y \in S |-> 0]
  PROVE  SumOver(f, S) = 0
  <1>1. f \in [S -> Nat] /\ \A y \in S : f[y] = 0
    OBVIOUS
  <1>2. PICK g : IsSum(g, f, S) /\ SumOver(f, S) = g[S]
    BY <1>1, SumIsSum
  <1>3. \A s \in SUBSET S : g[s] = IF s = {} THEN 0 ELSE f[First(s)] + g[s \ {First(s)}]
    BY <1>2 DEF IsSum
  <1>4. \A s \in SUBSET S : IsFiniteSet(s) /\ Cardinality(s) \in Nat
    BY FS_Subset, FS_CardinalityType
  <1> DEFINE T == {n \in Nat : \A s \in SUBSET S : Cardinality(s) = n => g[s] = 0}
  <1>5. 0 \in T
    <2> SUFFICES ASSUME NEW s \in SUBSET S, Cardinality(s) = 0 PROVE g[s] = 0
      OBVIOUS
    <2>1. s = {}
      BY <1>4, FS_EmptySet
    <2> QED
      BY <1>3, <2>1
  <1>6. ASSUME NEW n \in Nat, n \in T PROVE n + 1 \in T
    <2> SUFFICES ASSUME NEW s \in SUBSET S, Cardinality(s) = n + 1 PROVE g[s] = 0
      OBVIOUS
    <2> DEFINE y == First(s)  r == s \ {First(s)}
    <2>1. s # {}
      BY FS_EmptySet
    <2>2. y \in s /\ r \in SUBSET S /\ Cardinality(r) = n
      BY <1>4, <2>1, FirstRemoved
    <2>3. g[r] = 0 /\ f[y] = 0
      BY <1>1, <1>6, <2>2
    <2>4. g[s] = f[y] + g[r]
      BY <1>3, <2>1
    <2> QED
      BY <2>3, <2>4
  <1>7. Nat \subseteq T
    <2> HIDE DEF T
    <2> QED
      BY <1>5, <1>6, SetInduction
  <1> QED
    BY <1>2, <1>4, <1>7, FS_Subset

\* The inductive invariant behind CommandsAddUp.
CommandsInv ==
  /\ at \in [Worker -> Place] /\ type \in [Worker -> Type]
  /\ accumulator \in [Metric -> Nat]
  /\ CommandsAddUp

\* The EVENTs whose command inside is still to be marked for the server, and
\* the UPDATEs still to be marked for their connection.
Inner == {x \in Worker : at[x] \in {"inner", "innertotal"}}
Outer == {x \in Worker : at[x] \in {"mine", "minetotal"} /\ type[x] = "update"}

SumOfOwn == SumOver(Own, Worker)

\* How a step of w alone changes one of the two sets.
LEMMA SetMoves ==
  ASSUME NEW w \in Worker, NEW A \in SUBSET Worker, NEW B \in SUBSET Worker,
         \A x \in Worker \ {w} : x \in A <=> x \in B
  PROVE  /\ Cardinality(A) \in Nat /\ Cardinality(B) \in Nat
         /\ (w \in A <=> w \in B) => Cardinality(B) = Cardinality(A)
         /\ w \notin A /\ w \in B => Cardinality(B) = Cardinality(A) + 1
         /\ w \in A /\ w \notin B => Cardinality(A) = Cardinality(B) + 1
  <1>1. IsFiniteSet(A) /\ IsFiniteSet(B)
    BY MetricsAssumption, FS_Subset
  <1>2. (w \in A <=> w \in B) => A = B
    OBVIOUS
  <1>3. w \notin A /\ w \in B => B = A \cup {w}
    OBVIOUS
  <1>4. w \in A /\ w \notin B => A = B \cup {w}
    OBVIOUS
  <1>5. w \notin A /\ w \in B => Cardinality(B) = Cardinality(A) + 1
    BY <1>1, <1>3, FS_AddElement
  <1>6. w \in A /\ w \notin B => Cardinality(A) = Cardinality(B) + 1
    BY <1>1, <1>4, FS_AddElement
  <1> QED
    BY <1>1, <1>2, <1>5, <1>6, FS_CardinalityType

LEMMA InnerMoves ==
  ASSUME NEW w \in Worker, Alone(w)
  PROVE  /\ Cardinality(Inner) \in Nat /\ Cardinality(Inner') \in Nat
         /\ (w \in Inner <=> w \in Inner') => Cardinality(Inner') = Cardinality(Inner)
         /\ w \notin Inner /\ w \in Inner' => Cardinality(Inner') = Cardinality(Inner) + 1
         /\ w \in Inner /\ w \notin Inner' => Cardinality(Inner) = Cardinality(Inner') + 1
  <1>1. Inner \in SUBSET Worker /\ Inner' \in SUBSET Worker
    BY DEF Inner
  <1>2. \A x \in Worker \ {w} : x \in Inner <=> x \in Inner'
    BY DEF Inner, Alone
  <1> QED
    BY <1>1, <1>2, SetMoves

LEMMA OuterMoves ==
  ASSUME NEW w \in Worker, Alone(w)
  PROVE  /\ Cardinality(Outer) \in Nat /\ Cardinality(Outer') \in Nat
         /\ (w \in Outer <=> w \in Outer') => Cardinality(Outer') = Cardinality(Outer)
         /\ w \notin Outer /\ w \in Outer' => Cardinality(Outer') = Cardinality(Outer) + 1
         /\ w \in Outer /\ w \notin Outer' => Cardinality(Outer) = Cardinality(Outer') + 1
  <1>1. Outer \in SUBSET Worker /\ Outer' \in SUBSET Worker
    BY DEF Outer
  <1>2. \A x \in Worker \ {w} : x \in Outer <=> x \in Outer'
    BY DEF Outer, Alone
  <1> QED
    BY <1>1, <1>2, SetMoves

LEMMA OwnTyped ==
  ASSUME accumulator \in [Metric -> Nat]
  PROVE  Own \in [Worker -> Nat] /\ SumOfOwn \in Nat
  <1>1. Own \in [Worker -> Nat]
    BY DEF Own, Metric
  <1>2. SumOfOwn \in Nat
    <2>1. CASE Worker = {}
      <3>1. Own = [y \in Worker |-> 0]
        BY <2>1 DEF Own
      <3>2. SumOfOwn = 0
        BY <3>1, MetricsAssumption, SumOfZeros DEF SumOfOwn
      <3> QED
        BY <3>2
    <2>2. ASSUME NEW x \in Worker PROVE SumOfOwn \in Nat
      <3> DEFINE h == [Own EXCEPT ![x] = @ + 1]
      <3> QED
        BY <1>1, <2>2, MetricsAssumption, SumGrows DEF SumOfOwn
    <2> QED
      BY <2>1, <2>2
  <1> QED
    BY <1>1, <1>2

\* A step that marks nothing for a connection.
LEMMA OwnStays ==
  ASSUME accumulator \in [Metric -> Nat],
         accumulator' = accumulator \/ \E t \in Type : Accumulate(<<"all", t>>)
  PROVE  SumOfOwn' = SumOfOwn
  <1>1. \A w \in Worker, t \in {"update", "event"} : accumulator'[<<w, t>>] = accumulator[<<w, t>>]
    BY MetricsAssumption DEF Accumulate, Metric
  <1>2. Own' = Own
    BY <1>1 DEF Own
  <1> QED
    BY <1>2 DEF SumOfOwn

\* A step that marks t for the connection of w.
LEMMA OwnGrows ==
  ASSUME accumulator \in [Metric -> Nat], NEW w \in Worker, NEW t \in Type, Accumulate(<<w, t>>)
  PROVE  /\ t \in {"update", "event"} => SumOfOwn' = SumOfOwn + 1
         /\ t \notin {"update", "event"} => SumOfOwn' = SumOfOwn
  <1>1. /\ accumulator' = [accumulator EXCEPT ![<<w, t>>] = @ + 1]
        /\ \A x \in Worker, s \in {"update", "event"} : <<x, s>> \in Metric
        /\ <<w, t>> \in Metric
    BY MetricsAssumption DEF Accumulate, Metric
  <1>2. \A x \in Worker : accumulator[<<x, "update">>] \in Nat /\ accumulator[<<x, "event">>] \in Nat
    BY <1>1
  <1>3. \A x \in Worker, s \in {"update", "event"} : accumulator'[<<x, s>>] =
          IF x = w /\ s = t THEN accumulator[<<x, s>>] + 1 ELSE accumulator[<<x, s>>]
    BY <1>1
  <1>4. CASE t \in {"update", "event"}
    <2>1. Own' = [Own EXCEPT ![w] = @ + 1]
      <3>1. ASSUME NEW x \in Worker
            PROVE  accumulator'[<<x, "update">>] + accumulator'[<<x, "event">>] =
                     IF x = w THEN accumulator[<<x, "update">>] + accumulator[<<x, "event">>] + 1
                              ELSE accumulator[<<x, "update">>] + accumulator[<<x, "event">>]
        BY <1>2, <1>3, <1>4
      <3> QED
        BY <3>1 DEF Own
    <2>2. Own \in [Worker -> Nat]
      BY OwnTyped
    <2> DEFINE f == Own  h == Own'
    <2>3. SumOver(h, Worker) = SumOver(f, Worker) + 1
      <3> HIDE DEF f, h
      <3>1. f \in [Worker -> Nat] /\ h = [f EXCEPT ![w] = @ + 1]
        BY <2>1, <2>2 DEF f, h
      <3> QED
        BY <3>1, MetricsAssumption, SumGrows
    <2> QED
      BY <1>4, <2>3 DEF SumOfOwn
  <1>5. CASE t \notin {"update", "event"}
    <2>1. Own' = Own
      BY <1>3, <1>5 DEF Own
    <2>2. SumOfOwn' = SumOfOwn
      BY <2>1 DEF SumOfOwn
    <2> QED
      BY <1>5, <2>2
  <1> QED
    BY <1>4, <1>5

\* The sum that CommandsAddUp is about, in numbers.
LEMMA CommandsInNumbers ==
  CommandsAddUp <=>
    accumulator[<<"all", "update">>] + Cardinality(Inner) = SumOfOwn + Cardinality(Outer)
  BY DEF CommandsAddUp, Inner, Outer, SumOfOwn

\* A step of w that marks nothing and moves it in or out of neither set.
LEMMA UnmarkedStep ==
  ASSUME CommandsInv, NEW w \in Worker, Moves(w), accumulator' = accumulator,
         w \in Inner <=> w \in Inner', w \in Outer <=> w \in Outer'
  PROVE  CommandsInv'
  <1>1. Alone(w) /\ at' \in [Worker -> Place] /\ type' \in [Worker -> Type]
    BY DEF CommandsInv, Moves, Alone
  <1>2. Cardinality(Inner') = Cardinality(Inner) /\ Cardinality(Outer') = Cardinality(Outer)
    BY <1>1, InnerMoves, OuterMoves
  <1>3. SumOfOwn' = SumOfOwn
    BY OwnStays DEF CommandsInv
  <1>4. CommandsAddUp'
    BY <1>2, <1>3, CommandsInNumbers DEF CommandsAddUp, CommandsInv, Inner, Outer, SumOfOwn
  <1> QED
    BY <1>1, <1>4 DEF CommandsInv

LEMMA CommandsStep == CommandsInv /\ [MetricsNext]_metricsVars => CommandsInv'
  <1> SUFFICES ASSUME CommandsInv, [MetricsNext]_metricsVars PROVE CommandsInv'
    OBVIOUS
  <1>t. at \in [Worker -> Place] /\ type \in [Worker -> Type] /\ accumulator \in [Metric -> Nat]
    BY DEF CommandsInv
  <1>n. /\ SumOfOwn \in Nat /\ accumulator[<<"all", "update">>] \in Nat
        /\ accumulator[<<"all", "update">>] + Cardinality(Inner) = SumOfOwn + Cardinality(Outer)
    BY <1>t, OwnTyped, CommandsInNumbers DEF CommandsInv, Metric
  <1>a. ASSUME NEW w \in Worker, Moves(w)
        PROVE  Alone(w) /\ at' \in [Worker -> Place] /\ type' \in [Worker -> Type]
    BY <1>a, <1>t DEF Moves, Alone
  <1>1. ASSUME NEW w \in Worker, NEW t \in Type, Receive(w, t)
        PROVE  CommandsInv'
    <2>1. Moves(w) /\ accumulator' = accumulator /\ at[w] = "idle" /\ at'[w] = "all"
      BY <1>1, <1>t DEF Receive, Count, Moves, Place
    <2>2. (w \in Inner <=> w \in Inner') /\ (w \in Outer <=> w \in Outer')
      BY <2>1 DEF Inner, Outer
    <2> QED
      BY <2>1, <2>2, UnmarkedStep
  <1>2. ASSUME NEW w \in Worker, CountMine(w) \/ CountInner(w)
        PROVE  CommandsInv'
    <2>1. /\ Moves(w) /\ accumulator' = accumulator /\ type'[w] = type[w]
          /\ \/ at[w] = "mine" /\ at'[w] = "minetotal"
             \/ at[w] = "inner" /\ at'[w] = "innertotal"
      BY <1>2, <1>t DEF CountMine, CountInner, Count, Goto, Moves, Place
    <2>2. (w \in Inner <=> w \in Inner') /\ (w \in Outer <=> w \in Outer')
      BY <2>1 DEF Inner, Outer
    <2> QED
      BY <2>1, <2>2, UnmarkedStep
  <1>3. ASSUME NEW w \in Worker, MarkAll(w)
        PROVE  CommandsInv'
    <2>1. /\ Moves(w) /\ Accumulate(<<"all", type[w]>>) /\ type'[w] = type[w] /\ type[w] \in Type
          /\ at[w] = "all" /\ at'[w] = "mine"
      BY <1>3, <1>t DEF MarkAll, Goto, Moves, Place
    <2>2. /\ accumulator' \in [Metric -> Nat]
          /\ accumulator'[<<"all", "update">>] =
               accumulator[<<"all", "update">>] + (IF type[w] = "update" THEN 1 ELSE 0)
      <3>1. /\ accumulator' = [accumulator EXCEPT ![<<"all", type[w]>>] = @ + 1]
            /\ <<"all", type[w]>> \in Metric /\ <<"all", "update">> \in Metric
        BY <2>1, MetricTyped DEF Accumulate
      <3>2. <<"all", type[w]>> = <<"all", "update">> <=> type[w] = "update"
        OBVIOUS
      <3> QED
        BY <1>n, <1>t, <3>1, <3>2
    <2>3. SumOfOwn' = SumOfOwn
      BY <1>t, <2>1, OwnStays
    <2>4. (w \in Inner <=> w \in Inner') /\ w \notin Outer /\ (w \in Outer' <=> type[w] = "update")
      BY <2>1 DEF Inner, Outer
    <2>5. Cardinality(Inner') = Cardinality(Inner) /\ Cardinality(Inner) \in Nat
      BY <1>a, <2>1, <2>4, InnerMoves
    <2>6. /\ Cardinality(Outer) \in Nat
          /\ Cardinality(Outer') = Cardinality(Outer) + (IF type[w] = "update" THEN 1 ELSE 0)
      BY <1>a, <2>1, <2>4, OuterMoves
    <2>7. accumulator'[<<"all", "update">>] + Cardinality(Inner') = SumOfOwn' + Cardinality(Outer')
      BY <1>n, <2>2, <2>3, <2>5, <2>6
    <2>8. CommandsAddUp'
      BY <2>7 DEF CommandsAddUp, Inner, Outer, SumOfOwn
    <2> QED
      BY <1>a, <2>1, <2>2, <2>8 DEF CommandsInv
  <1>4. ASSUME NEW w \in Worker, MarkMine(w)
        PROVE  CommandsInv'
    <2>0. Handler(type[w]) \in {"inner", "info", "find"} /\ (Handler(type[w]) = "inner" <=> type[w] = "event")
      BY DEF Handler
    <2>1. /\ Moves(w) /\ Accumulate(<<w, type[w]>>) /\ type'[w] = type[w] /\ type[w] \in Type
          /\ at[w] = "minetotal" /\ at'[w] \in {"inner", "info", "find"}
          /\ at'[w] = "inner" <=> type[w] = "event"
      BY <1>4, <1>t, <2>0 DEF MarkMine, Goto, Moves, Place
    <2>2. /\ accumulator' \in [Metric -> Nat]
          /\ accumulator'[<<"all", "update">>] = accumulator[<<"all", "update">>]
      <3>1. /\ accumulator' = [accumulator EXCEPT ![<<w, type[w]>>] = @ + 1]
            /\ <<w, type[w]>> \in Metric /\ <<"all", "update">> \in Metric
        BY <2>1, MetricTyped DEF Accumulate
      <3>2. <<w, type[w]>> # <<"all", "update">>
        BY MetricsAssumption
      <3> QED
        BY <1>t, <3>1, <3>2
    <2>3. SumOfOwn' = SumOfOwn + (IF type[w] \in {"update", "event"} THEN 1 ELSE 0)
      BY <1>t, <1>n, <2>1, OwnGrows
    <2>4. /\ w \notin Inner /\ (w \in Inner' <=> type[w] = "event")
          /\ w \notin Outer' /\ (w \in Outer <=> type[w] = "update")
      BY <2>1 DEF Inner, Outer
    <2>5. /\ Cardinality(Inner) \in Nat
          /\ Cardinality(Inner') = Cardinality(Inner) + (IF type[w] = "event" THEN 1 ELSE 0)
      BY <1>a, <2>1, <2>4, InnerMoves
    <2>6. /\ Cardinality(Outer') \in Nat
          /\ Cardinality(Outer) = Cardinality(Outer') + (IF type[w] = "update" THEN 1 ELSE 0)
      BY <1>a, <2>1, <2>4, OuterMoves
    <2>7. accumulator'[<<"all", "update">>] + Cardinality(Inner') = SumOfOwn' + Cardinality(Outer')
      BY <1>n, <2>2, <2>3, <2>5, <2>6
    <2>8. CommandsAddUp'
      BY <2>7 DEF CommandsAddUp, Inner, Outer, SumOfOwn
    <2> QED
      BY <1>a, <2>1, <2>2, <2>8 DEF CommandsInv
  <1>5. ASSUME NEW w \in Worker, MarkInner(w)
        PROVE  CommandsInv'
    <2>1. /\ Moves(w) /\ Accumulate(<<"all", "update">>) /\ type'[w] = type[w]
          /\ at[w] = "innertotal" /\ at'[w] = "find"
      BY <1>5, <1>t DEF MarkInner, Goto, Moves, Place
    <2>2. /\ accumulator' \in [Metric -> Nat]
          /\ accumulator'[<<"all", "update">>] = accumulator[<<"all", "update">>] + 1
      BY <1>t, <2>1 DEF Accumulate, Metric
    <2>3. SumOfOwn' = SumOfOwn
      BY <1>t, <2>1, OwnStays, MetricsAssumption
    <2>4. w \in Inner /\ w \notin Inner' /\ w \notin Outer /\ w \notin Outer'
      BY <2>1 DEF Inner, Outer
    <2>5. Cardinality(Inner') \in Nat /\ Cardinality(Inner) = Cardinality(Inner') + 1
      BY <1>a, <2>1, <2>4, InnerMoves
    <2>6. Cardinality(Outer) \in Nat /\ Cardinality(Outer') = Cardinality(Outer)
      BY <1>a, <2>1, <2>4, OuterMoves
    <2>7. accumulator'[<<"all", "update">>] + Cardinality(Inner') = SumOfOwn' + Cardinality(Outer')
      BY <1>n, <2>2, <2>3, <2>5, <2>6
    <2>8. CommandsAddUp'
      BY <2>7 DEF CommandsAddUp, Inner, Outer, SumOfOwn
    <2> QED
      BY <1>a, <2>1, <2>2, <2>8 DEF CommandsInv
  <1>u. ASSUME NEW w \in Worker, Moves(w), UNCHANGED metricVars,
               at[w] \notin {"mine", "minetotal", "inner", "innertotal"},
               at'[w] \notin {"mine", "minetotal", "inner", "innertotal"}
        PROVE  CommandsInv'
    <2>1. (w \in Inner <=> w \in Inner') /\ (w \in Outer <=> w \in Outer')
      BY <1>u DEF Inner, Outer
    <2>2. accumulator' = accumulator
      BY <1>u DEF metricVars
    <2> QED
      BY <1>u, <2>1, <2>2, UnmarkedStep
  <1>6. ASSUME NEW w \in Worker, NEW v \in Amount, Apply(w, v) \/ Refuse(w, v)
        PROVE  CommandsInv'
    BY <1>6, <1>u, <1>t DEF Apply, Refuse, Goto, Moves, Place
  <1>7. ASSUME NEW w \in Worker, Find(w) \/ Subtract(w) \/ MarkWrite(w)
        PROVE  CommandsInv'
    BY <1>7, <1>u, <1>t DEF Find, Subtract, MarkWrite, Goto, Moves, Place
  <1>8. ASSUME NEW w \in Worker, Load(w)
        PROVE  CommandsInv'
    BY <1>8, <1>u, <1>t DEF Load, Moves, Place
  <1>9. ASSUME UNCHANGED <<at, type, accumulator>>
        PROVE  CommandsInv'
    <2>1. Inner' = Inner /\ Outer' = Outer /\ Own' = Own
      BY <1>9 DEF Inner, Outer, Own
    <2>2. CommandsAddUp'
      BY <1>9, <1>n, <2>1 DEF CommandsAddUp, Inner, Outer, SumOfOwn
    <2> QED
      BY <1>9, <2>2 DEF CommandsInv
  <1>10. ASSUME NEW w \in Worker, NEW v \in Amount, Compare(w, v)
         PROVE  CommandsInv'
    BY <1>9, <1>10 DEF Compare, workVars, metricVars
  <1>11. CASE Collect
    BY <1>9, <1>11 DEF Collect, CollectEntry, CollectCommands, Compute, workVars, metricVars
  <1>12. CASE UNCHANGED metricsVars
    BY <1>9, <1>12 DEF metricsVars, workVars, metricVars
  <1> QED
    BY <1>1, <1>2, <1>3, <1>4, <1>5, <1>6, <1>7, <1>8, <1>10, <1>11, <1>12 DEF MetricsNext

(***************************************************************************)
(* On any number of threads, what the server counts of a command is what   *)
(* the connections count of it and of the EVENTs around it, but for those  *)
(* that are being marked: each of the additions of try_process_next and of *)
(* event_command (connection.ipp, event_command.cpp:42) is made once.      *)
(***************************************************************************)
THEOREM CommandsAlwaysAddUp == MetricsSpec => []CommandsAddUp
  <1>1. MetricsInit => CommandsInv
    <2> SUFFICES ASSUME MetricsInit PROVE CommandsInv
      OBVIOUS
    <2>1. accumulator \in [Metric -> Nat] /\ \A m \in Metric : accumulator[m] = 0
      BY DEF MetricsInit
    <2>2. Own = [y \in Worker |-> 0]
      BY <2>1 DEF Own, Metric
    <2>3. SumOfOwn = 0
      BY <2>2, MetricsAssumption, SumOfZeros DEF SumOfOwn
    <2>4. Inner = {} /\ Outer = {}
      BY DEF MetricsInit, Inner, Outer
    <2>5. Cardinality(Inner) = 0 /\ Cardinality(Outer) = 0
      BY <2>4, FS_EmptySet
    <2>6. accumulator[<<"all", "update">>] = 0
      BY <2>1 DEF Metric
    <2>7. CommandsAddUp
      BY <2>3, <2>5, <2>6, CommandsInNumbers
    <2> QED
      BY <2>1, <2>7, MetricsAssumption DEF MetricsInit, CommandsInv, Place
  <1>2. CommandsInv => CommandsAddUp
    BY DEF CommandsInv
  <1> QED
    BY <1>1, <1>2, CommandsStep, PTL DEF MetricsSpec
=============================================================================
