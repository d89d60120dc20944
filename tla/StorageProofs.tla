---------------------------- MODULE StorageProofs ----------------------------
(***************************************************************************)
(* Theorems about Storage, for every set of keys and of threads, every set *)
(* of durations, every grace period and every bound.                       *)
(***************************************************************************)
EXTENDS Storage, TLAPS

LEMMA WordArithmetic ==
  ASSUME NEW a \in Instant, NEW b \in Instant
  PROVE  Plus(a, b) \in Instant /\ Minus(a, b) \in Instant
  BY StorageAssumption DEF Plus, Minus, Instant

LEMMA PutEntry ==
  ASSUME TypeOK, NEW k \in Key, NEW e \in Entry, storage' = Put(k, e)
  PROVE  /\ DOMAIN storage' \subseteq Key
         /\ \A x \in DOMAIN storage' : storage'[x] \in Entry
  BY DEF TypeOK, Put

LEMMA DropEntry ==
  ASSUME TypeOK, NEW k \in Key, storage' = Drop(k)
  PROVE  /\ DOMAIN storage' \subseteq Key
         /\ \A x \in DOMAIN storage' : storage'[x] \in Entry
  BY DEF TypeOK, Drop

LEMMA DispatchTyped ==
  ASSUME TypeOK, NEW e \in Instant, Dispatch(e)
  PROVE  strand' \in Seq(Instant) /\ overtaken' \in BOOLEAN
  <1>1. strand' \in Seq(Instant)
    BY DEF TypeOK, Dispatch
  <1>2. overtaken' \in BOOLEAN
    BY DEF Dispatch
  <1> QED
    BY <1>1, <1>2

LEMMA NowIsInstant ==
  ASSUME TypeOK
  PROVE  now \in Instant
  BY StorageAssumption DEF TypeOK, Instant

LEMMA InitTyped == Init => TypeOK
  <1> SUFFICES ASSUME Init PROVE TypeOK
    OBVIOUS
  <1>1. NoPass \in Pass
    BY StorageAssumption DEF NoPass, Pass, Instant, UINT64_MAX
  <1>2. overtaken \in BOOLEAN
    BY DEF Init
  <1>3. 0 \in Instant
    BY StorageAssumption DEF Instant
  <1> QED
    BY <1>1, <1>2, <1>3, StorageAssumption DEF Init, TypeOK, Where, Unarmed

LEMMA EmplaceTyped ==
  ASSUME TypeOK, NEW w \in Worker, NEW k \in Key, NEW t \in {"counter", "raw"}, NEW e \in Instant,
         Emplace(w, k, t, e)
  PROVE  TypeOK'
  <1>1. [type |-> t, expires_at |-> e, expired |-> FALSE] \in Entry
    BY DEF Entry
  <1>2. DOMAIN storage' \subseteq Key /\ \A x \in DOMAIN storage' : storage'[x] \in Entry
    BY <1>1, PutEntry DEF Emplace
  <1> QED
    BY <1>2 DEF Emplace, TypeOK, collector, Where

LEMMA WalkTyped ==
  ASSUME TypeOK, NEW w \in Worker, Walk(w)
  PROVE  TypeOK'
  <1>1. created[w] \in Instant /\ 0 \in Instant
    BY StorageAssumption DEF TypeOK, Instant
  <1>2. strand' \in Seq(Instant) /\ overtaken' \in BOOLEAN
    BY <1>1, DispatchTyped DEF Walk, TypeOK
  <1> QED
    BY <1>1, <1>2 DEF Walk, TypeOK, collector, Where

LEMMA CommandTyped == TypeOK /\ Command => TypeOK'
  <1> SUFFICES ASSUME TypeOK, NEW k \in Key,
                      \/ \E w \in Worker, ttl \in Ttl : Insert(w, k, ttl) \/ SetNew(w, k, ttl)
                      \/ \E ttl \in Ttl : SetAgain(k, ttl)
                      \/ \E change \in Change, d \in Ttl : UpdateTtl(k, change, d)
                      \/ Purge(k)
               PROVE  TypeOK'
    BY DEF Command
  <1>1. now \in Instant
    BY NowIsInstant
  <1>2. \A ttl \in Ttl : ttl \in Instant /\ Plus(now, ttl) \in Instant
    BY <1>1, WordArithmetic, StorageAssumption DEF Instant
  <1>3. ASSUME NEW w \in Worker, NEW ttl \in Ttl, Insert(w, k, ttl)
        PROVE  TypeOK'
    BY <1>3, <1>2, EmplaceTyped DEF Insert
  <1>4. ASSUME NEW w \in Worker, NEW ttl \in Ttl, SetNew(w, k, ttl)
        PROVE  TypeOK'
    BY <1>4, <1>2, EmplaceTyped DEF SetNew
  <1>5. ASSUME NEW ttl \in Ttl, SetAgain(k, ttl)
        PROVE  TypeOK'
    <2>1. [storage[k] EXCEPT !.expires_at = Plus(now, ttl)] \in Entry
      BY <1>5, <1>2 DEF SetAgain, TypeOK, Entry
    <2> QED
      BY <1>5, <2>1, PutEntry DEF SetAgain, TypeOK, threads, collector
  <1>6. ASSUME NEW change \in Change, NEW d \in Ttl, UpdateTtl(k, change, d)
        PROVE  TypeOK'
    <2> DEFINE e == TtlChanged(storage[k].expires_at, change, d)
    <2>1. storage[k] \in Entry
      BY <1>6 DEF UpdateTtl, Live, TypeOK
    <2>2. e \in Instant
      BY <2>1, <1>1, <1>2, WordArithmetic, StorageAssumption DEF TtlChanged, Entry
    <2>3. [storage[k] EXCEPT !.expires_at = e] \in Entry
      BY <2>1, <2>2 DEF Entry
    <2>4. strand' \in Seq(Instant) /\ overtaken' \in BOOLEAN
      BY <1>6, <2>2, DispatchTyped DEF UpdateTtl, TypeOK
    <2> QED
      BY <1>6, <2>3, <2>4, PutEntry DEF UpdateTtl, TypeOK, threads, collector
  <1>7. ASSUME Purge(k)
        PROVE  TypeOK'
    BY <1>7, DropEntry DEF Purge, TypeOK, threads, collector
  <1> QED
    BY <1>3, <1>4, <1>5, <1>6, <1>7

LEMMA CollectorTyped ==
  ASSUME TypeOK, NEW w \in Worker, CollectorStep(w)
  PROVE  TypeOK'
  <1>1. now \in Instant
    BY NowIsInstant
  <1>2. CASE Scan(w)
    <2>1. DueLive \subseteq Key /\ PastGrace \subseteq Key
      BY DEF TypeOK, DueLive, PastGrace
    <2>2. gc' \in Pass
      BY <1>1, <1>2, <2>1 DEF Scan, Pass
    <2> QED
      BY <1>2, <2>2 DEF Scan, TypeOK, Where
  <1>3. ASSUME NEW k \in Key, Mark(w, k)
        PROVE  TypeOK'
    <2>1. gc' \in Pass
      BY <1>3 DEF Mark, TypeOK, Pass
    <2>2. Live(k) => [storage[k] EXCEPT !.expired = TRUE] \in Entry
      BY DEF Live, TypeOK, Entry
    <2> QED
      BY <1>3, <2>1, <2>2, PutEntry DEF Mark, TypeOK
  <1>4. ASSUME NEW k \in Key, Erase(w, k)
        PROVE  TypeOK'
    <2>1. gc' \in Pass
      BY <1>4 DEF Erase, TypeOK, Pass
    <2> QED
      BY <1>4, <2>1, DropEntry DEF Erase, TypeOK
  <1>5. CASE FindNext(w)
    <2>1. gc' \in Pass
      BY <1>5 DEF FindNext, TypeOK, Pass
    <2> QED
      BY <1>5, <2>1 DEF FindNext, TypeOK, Where
  <1>6. CASE Reschedule(w)
    <2>1. NoPass \in Pass /\ gc.next \in Instant
      BY StorageAssumption DEF NoPass, Pass, Instant, UINT64_MAX, TypeOK
    <2> QED
      BY <1>6, <2>1 DEF Reschedule, Return, TypeOK, Where
  <1> QED
    BY <1>2, <1>3, <1>4, <1>5, <1>6 DEF CollectorStep

LEMMA StepTyped == TypeOK /\ [Next]_vars => TypeOK'
  <1> SUFFICES ASSUME TypeOK, [Next]_vars PROVE TypeOK'
    OBVIOUS
  <1>1. CASE Command
    BY <1>1, CommandTyped
  <1>2. CASE Tick
    BY <1>2, StorageAssumption DEF Tick, TypeOK, threads, collector
  <1>3. CASE TimerExpires
    BY <1>3 DEF TimerExpires, TypeOK, Unarmed
  <1>4. ASSUME NEW w \in Worker, StrandTask(w)
        PROVE  TypeOK'
    <2>1. Head(strand) \in Instant /\ Tail(strand) \in Seq(Instant)
      BY <1>4 DEF StrandTask, TypeOK
    <2> QED
      BY <1>4, <2>1 DEF StrandTask, TypeOK, Where
  <1>5. ASSUME NEW w \in Worker, TimerHandler(w)
        PROVE  TypeOK'
    BY <1>5 DEF TimerHandler, TypeOK, Where
  <1>6. ASSUME NEW w \in Worker, CollectorStep(w)
        PROVE  TypeOK'
    BY <1>6, CollectorTyped
  <1>7. ASSUME NEW w \in Worker, Walk(w)
        PROVE  TypeOK'
    BY <1>7, WalkTyped
  <1>8. CASE UNCHANGED vars
    BY <1>8 DEF vars, TypeOK
  <1> QED
    BY <1>1, <1>2, <1>3, <1>4, <1>5, <1>6, <1>7, <1>8 DEF Next

(***************************************************************************)
(* Every reachable state is well typed: expirations stay inside uint64_t   *)
(* through every INSERT, SET, UPDATE and pass, whatever wraps.             *)
(***************************************************************************)
THEOREM TypeCorrect == Spec => []TypeOK
  <1> QED
    BY InitTyped, StepTyped, PTL DEF Spec

-----------------------------------------------------------------------------
(* The collector's mutex, and the wake-up that is never lost *)

LEMMA InitWakeup == Init => WakeupInv
  <1> SUFFICES ASSUME Init PROVE WakeupInv
    OBVIOUS
  <1>1. TypeOK
    BY InitTyped
  <1>2. OneCollector
    BY StorageAssumption DEF Init, OneCollector, InPass
  <1>3. DOMAIN storage = {}
    BY DEF Init
  <1> QED
    BY <1>1, <1>2, <1>3 DEF WakeupInv, AllSchedulable, NeverDormant

LEMMA PutSchedulable ==
  ASSUME WakeupInv, NEW k \in Key, NEW e, storage' = Put(k, e), Schedulable(e.expires_at)
  PROVE  AllSchedulable'
  BY DEF WakeupInv, AllSchedulable, Put

\* What commands and walks leave alone: every part of CollectorPending but the
\* creations between their two steps.
StillPending ==
  /\ timer' = timer /\ ready' = ready /\ gc' = gc
  /\ strand # << >> => strand' # << >>
  /\ \A w \in Worker : pc[w] \in {"lock", "sweep", "schedule", "relock"} => pc'[w] = pc[w]

LEMMA PendingOrArming ==
  ASSUME StillPending, CollectorPending, ~CollectorPending'
  PROVE  \E w \in Worker : AboutToArm(w) /\ ~AboutToArm(w)'
  <1> USE DEF StillPending
  <1>1. timer = Unarmed /\ ~(ready > 0) /\ strand = << >>
    BY DEF CollectorPending
  <1>2. \A w \in Worker : pc[w] \notin {"lock", "sweep"}
    BY DEF CollectorPending
  <1>3. ~\E w \in Worker : pc[w] = "schedule" /\ gc.next # UINT64_MAX
    BY DEF CollectorPending
  <1>4. PICK w \in Worker : AboutToArm(w)
    BY <1>1, <1>2, <1>3 DEF CollectorPending
  <1>5. ~AboutToArm(w)'
    BY DEF CollectorPending
  <1> QED
    BY <1>4, <1>5

LEMMA StuckStays ==
  ASSUME StillPending
  PROVE  Stuck => Stuck'
  BY DEF StillPending, Stuck

\* A creation on another thread: of two that are about to compare, the one with
\* the lower expiration is sure to dispatch it.
LEMMA EmplaceWakeup ==
  ASSUME WakeupInv, NEW v \in Worker, NEW k \in Key, NEW t, NEW e \in Instant, Emplace(v, k, t, e)
  PROVE  AllSchedulable' /\ NeverDormant'
  <1> DEFINE entry == [type |-> t, expires_at |-> e, expired |-> FALSE]
  <1>1. AllSchedulable'
    <2>1. entry.expires_at = e
      OBVIOUS
    <2> QED
      BY <2>1, PutSchedulable DEF Emplace
  <1>2. pc \in [Worker -> Where] /\ created \in [Worker -> Instant]
    BY DEF WakeupInv, TypeOK
  <1>3. StillPending
    BY <1>2 DEF Emplace, collector, StillPending
  <1>4. pc'[v] = "walk" /\ created'[v] = e /\ \A w \in Worker : w # v => pc'[w] = pc[w] /\ created'[w] = created[w]
    BY <1>2 DEF Emplace
  <1>5. /\ DOMAIN storage' = DOMAIN storage \cup {k}
        /\ \A x \in DOMAIN storage : storage'[x] = storage[x]
        /\ ~storage'[k].expired /\ storage'[k].expires_at = e
    BY DEF Emplace, Put
  <1>6. \A x \in DOMAIN storage : storage[x].expires_at \in Instant
    BY DEF WakeupInv, TypeOK, Entry
  <1>7. \A a, b, c \in Instant : (a <= b /\ b <= c => a <= c) /\ (a <= b \/ b <= a) /\ a <= a
    BY StorageAssumption DEF Instant
  <1>8. CASE DOMAIN storage = {}
    <2>1. AboutToArm(v)'
      BY <1>4, <1>5, <1>7, <1>8 DEF AboutToArm
    <2> QED
      BY <1>1, <2>1 DEF NeverDormant, CollectorPending
  <1>9. CASE DOMAIN storage # {}
    <2>1. CASE CollectorPending
      <3> SUFFICES ASSUME ~CollectorPending' PROVE FALSE
        BY <1>1 DEF NeverDormant
      <3>1. PICK w \in Worker : AboutToArm(w) /\ ~AboutToArm(w)'
        BY <1>3, <2>1, PendingOrArming
      <3>2. w # v /\ created[w] \in Instant
        BY <1>2, <3>1 DEF AboutToArm, Emplace
      <3>3. CASE created[w] <= e
        BY <1>4, <1>5, <3>1, <3>2, <3>3 DEF AboutToArm
      <3>4. CASE e <= created[w]
        <4>1. AboutToArm(v)'
          BY <1>4, <1>5, <1>6, <1>7, <3>1, <3>2, <3>4 DEF AboutToArm
        <4> QED
          BY <4>1 DEF CollectorPending
      <3> QED
        BY <1>7, <3>2, <3>3, <3>4
    <2>2. CASE Stuck \/ overtaken
      BY <1>1, <1>3, <2>2, StuckStays DEF NeverDormant, Emplace
    <2> QED
      BY <1>9, <2>1, <2>2 DEF WakeupInv, NeverDormant
  <1> QED
    BY <1>8, <1>9

\* A creation that ends: it dispatches if it was sure to, and otherwise the
\* wake-up it relied on is still there.
LEMMA WalkWakeup ==
  ASSUME WakeupInv, NEW v \in Worker, Walk(v)
  PROVE  WakeupInv'
  <1>1. TypeOK'
    BY WalkTyped DEF WakeupInv
  <1>2. pc \in [Worker -> Where] /\ created \in [Worker -> Instant] /\ pc[v] = "walk" /\ storage' = storage
    BY DEF WakeupInv, TypeOK, Walk
  <1>3. OneCollector' /\ AllSchedulable'
    BY <1>2, StorageAssumption DEF Walk, collector, WakeupInv, OneCollector, InPass, AllSchedulable
  <1>4. pc'[v] = "idle" /\ \A w \in Worker : w # v => pc'[w] = pc[w] /\ created'[w] = created[w]
    BY <1>2 DEF Walk
  <1>5. \A e : Dispatch(e) => strand' # << >>
    BY DEF Dispatch, WakeupInv, TypeOK
  <1>6. StillPending
    BY <1>2, <1>4, <1>5 DEF Walk, collector, StillPending
  <1>7. ASSUME DOMAIN storage # {}, ~CollectorPending', CollectorPending
        PROVE  FALSE
    <2>1. PICK w \in Worker : AboutToArm(w) /\ ~AboutToArm(w)'
      BY <1>6, <1>7, PendingOrArming
    <2>2. w = v
      BY <1>2, <1>4, <2>1 DEF AboutToArm
    <2>3. Dispatch(created[v])
      BY <1>7, <2>1, <2>2 DEF AboutToArm, Walk
    <2> QED
      BY <1>5, <1>7, <2>3 DEF CollectorPending
  <1>8. overtaken' = overtaken \/ strand' # << >>
    BY <1>5 DEF Walk
  <1>9. NeverDormant'
    BY <1>2, <1>6, <1>7, <1>8, StuckStays DEF WakeupInv, NeverDormant, CollectorPending
  <1> QED
    BY <1>1, <1>3, <1>9 DEF WakeupInv

\* An expiration stored anew: a creation sure to dispatch still is, or was
\* overtaken.
LEMMA RenewWakeup ==
  ASSUME WakeupInv, NEW k \in DOMAIN storage, NEW e \in Instant,
         storage' = Put(k, [storage[k] EXCEPT !.expires_at = e]),
         UNCHANGED threads,
         \/ Dispatch(e)
         \/ overtaken' = (overtaken \/ Overtakes(e)) /\ UNCHANGED strand
  PROVE  NeverDormant'
  <1>1. pc \in [Worker -> Where] /\ created \in [Worker -> Instant] /\ storage[k] \in Entry
    BY DEF WakeupInv, TypeOK
  <1>2. CASE Dispatch(e)
    <2>1. strand' # << >>
      BY <1>2 DEF Dispatch, WakeupInv, TypeOK
    <2> QED
      BY <2>1 DEF NeverDormant, CollectorPending
  <1>3. CASE overtaken' = (overtaken \/ Overtakes(e)) /\ UNCHANGED strand
    <2>1. StillPending
      BY <1>3 DEF StillPending, threads, collector
    <2>2. ASSUME ~overtaken', CollectorPending
          PROVE  CollectorPending'
      <3> SUFFICES ASSUME ~CollectorPending' PROVE FALSE
        OBVIOUS
      <3>1. PICK w \in Worker : AboutToArm(w) /\ ~AboutToArm(w)'
        BY <2>1, <2>2, PendingOrArming
      <3>2. ~(e < created[w]) /\ created[w] \in Instant
        BY <1>1, <1>3, <2>2, <3>1 DEF Overtakes, AboutToArm
      <3>3. created[w] <= e
        BY <3>2, StorageAssumption DEF Instant
      <3>4. /\ [storage[k] EXCEPT !.expires_at = e].expires_at = e
            /\ [storage[k] EXCEPT !.expires_at = e].expired = storage[k].expired
        BY <1>1 DEF Entry
      <3>5. /\ DOMAIN storage' = DOMAIN storage
            /\ storage'[k].expires_at = e /\ storage'[k].expired = storage[k].expired
            /\ \A x \in DOMAIN storage : x # k => storage'[x] = storage[x]
        BY <3>4 DEF Put
      <3> QED
        BY <3>1, <3>3, <3>5 DEF AboutToArm, threads
    <2> QED
      BY <1>3, <2>1, <2>2, StuckStays DEF WakeupInv, NeverDormant
  <1> QED
    BY <1>2, <1>3

LEMMA CommandWakeup == WakeupInv /\ Command => WakeupInv'
  <1> SUFFICES ASSUME WakeupInv, NEW k \in Key,
                      \/ \E w \in Worker, ttl \in Ttl : Insert(w, k, ttl) \/ SetNew(w, k, ttl)
                      \/ \E ttl \in Ttl : SetAgain(k, ttl)
                      \/ \E change \in Change, d \in Ttl : UpdateTtl(k, change, d)
                      \/ Purge(k)
               PROVE  WakeupInv'
    BY DEF Command
  <1>1. TypeOK'
    BY CommandTyped DEF WakeupInv, Command
  <1>2. pc \in [Worker -> Where] /\ NoWorker \notin Worker
    BY StorageAssumption DEF WakeupInv, TypeOK
  <1>4. now \in Instant /\ \A ttl \in Ttl : ttl \in Instant /\ Plus(now, ttl) \in Instant
    BY NowIsInstant, WordArithmetic, StorageAssumption DEF WakeupInv, Instant
  <1>5. ASSUME NEW w \in Worker, NEW ttl \in Ttl, Insert(w, k, ttl) \/ SetNew(w, k, ttl)
        PROVE  OneCollector' /\ AllSchedulable' /\ NeverDormant'
    <2>1. PICK t : Emplace(w, k, t, Plus(now, ttl))
      BY <1>5 DEF Insert, SetNew
    <2>2. OneCollector'
      BY <1>2, <2>1 DEF Emplace, collector, WakeupInv, OneCollector, InPass
    <2> QED
      BY <1>4, <2>1, <2>2, EmplaceWakeup
  <1>6. ASSUME NEW ttl \in Ttl, SetAgain(k, ttl)
        PROVE  OneCollector' /\ AllSchedulable' /\ NeverDormant'
    <2>1. storage[k] \in Entry
      BY <1>6 DEF SetAgain, WakeupInv, TypeOK
    <2>2. [storage[k] EXCEPT !.expires_at = Plus(now, ttl)].expires_at = Plus(now, ttl)
      BY <2>1 DEF Entry
    <2>3. NeverDormant'
      BY <1>4, <1>6, RenewWakeup DEF SetAgain
    <2>4. OneCollector'
      BY <1>6 DEF SetAgain, threads, collector, WakeupInv, OneCollector
    <2> QED
      BY <1>6, <2>2, <2>3, <2>4, PutSchedulable DEF SetAgain
  <1>7. ASSUME NEW change \in Change, NEW d \in Ttl, UpdateTtl(k, change, d)
        PROVE  OneCollector' /\ AllSchedulable' /\ NeverDormant'
    <2> DEFINE e == TtlChanged(storage[k].expires_at, change, d)
    <2>1. storage[k] \in Entry
      BY <1>7 DEF UpdateTtl, Live, WakeupInv, TypeOK
    <2>2. e \in Instant
      BY <2>1, <1>4, WordArithmetic, StorageAssumption DEF TtlChanged, Entry
    <2>3. [storage[k] EXCEPT !.expires_at = e].expires_at = e
      BY <2>1 DEF Entry
    <2>4. OneCollector'
      BY <1>7 DEF UpdateTtl, threads, collector, WakeupInv, OneCollector
    <2>5. /\ k \in DOMAIN storage /\ Schedulable(e) /\ UNCHANGED threads
          /\ storage' = Put(k, [storage[k] EXCEPT !.expires_at = e])
          /\ \/ Dispatch(e)
             \/ overtaken' = (overtaken \/ Overtakes(e)) /\ UNCHANGED strand
      BY <1>7 DEF UpdateTtl, Live
    <2> HIDE DEF e
    <2>6. NeverDormant'
      BY <2>2, <2>5, RenewWakeup
    <2> QED
      BY <2>3, <2>4, <2>5, <2>6, PutSchedulable
  <1>8. ASSUME Purge(k)
        PROVE  OneCollector' /\ AllSchedulable' /\ NeverDormant'
    <2>1. AllSchedulable' /\ OneCollector'
      BY <1>8 DEF Purge, Drop, threads, collector, WakeupInv, AllSchedulable, OneCollector
    <2>2. StillPending
      BY <1>8 DEF Purge, threads, collector, StillPending
    <2>3. \A w \in Worker : AboutToArm(w) => AboutToArm(w)'
      BY <1>8 DEF Purge, Drop, threads, AboutToArm
    <2>4. CollectorPending => CollectorPending'
      BY <2>2, <2>3, PendingOrArming
    <2>5. DOMAIN storage # {} /\ overtaken' = overtaken
      BY <1>8 DEF Purge, Live
    <2> QED
      BY <2>1, <2>2, <2>4, <2>5, StuckStays DEF WakeupInv, NeverDormant
  <1> QED
    BY <1>1, <1>5, <1>6, <1>7, <1>8 DEF WakeupInv

\* One step of a thread inside run(), or on its way into it.
LEMMA CollectorWakeup ==
  ASSUME WakeupInv, NEW w \in Worker, CollectorStep(w)
  PROVE  WakeupInv'
  <1> USE DEF WakeupInv
  <1>1. TypeOK'
    BY CollectorTyped
  <1>2. pc \in [Worker -> Where] /\ NoWorker \notin Worker
    BY StorageAssumption DEF TypeOK
  <1>3. CASE Scan(w)
    <2>1. OneCollector'
      BY <1>2, <1>3 DEF Scan, OneCollector, InPass
    <2>2. pc'[w] = "sweep"
      BY <1>2, <1>3 DEF Scan
    <2> QED
      BY <1>1, <1>3, <2>1, <2>2 DEF Scan, AllSchedulable, NeverDormant, CollectorPending
  <1>4. ASSUME NEW k \in Key, Mark(w, k)
        PROVE  WakeupInv'
    <2>1. OneCollector'
      BY <1>2, <1>4 DEF Mark, OneCollector, InPass
    <2>2. AllSchedulable'
      <3>1. Live(k) => /\ storage[k] \in Entry
                       /\ [storage[k] EXCEPT !.expired = TRUE].expires_at = storage[k].expires_at
        BY DEF Live, TypeOK, Entry
      <3>2. Live(k) => Schedulable(storage[k].expires_at)
        BY DEF Live, AllSchedulable
      <3> QED
        BY <1>4, <3>1, <3>2, PutSchedulable DEF Mark, AllSchedulable
    <2> QED
      BY <1>1, <1>4, <2>1, <2>2 DEF Mark, NeverDormant, CollectorPending
  <1>5. ASSUME NEW k \in Key, Erase(w, k)
        PROVE  WakeupInv'
    <2>1. OneCollector'
      BY <1>2, <1>5 DEF Erase, OneCollector, InPass
    <2>2. AllSchedulable'
      BY <1>5 DEF Erase, Drop, AllSchedulable
    <2> QED
      BY <1>1, <1>5, <2>1, <2>2 DEF Erase, NeverDormant, CollectorPending
  <1>6. CASE FindNext(w)
    <2>1. OneCollector'
      BY <1>2, <1>6 DEF FindNext, OneCollector, InPass
    <2>2. AllSchedulable'
      BY <1>6 DEF FindNext, AllSchedulable
    <2>3. ASSUME NEW k \in DOMAIN storage
          PROVE  Candidate(k) \in Instant /\ Candidate(k) # UINT64_MAX
      <3>1. storage[k] \in Entry /\ Schedulable(storage[k].expires_at)
        BY DEF TypeOK, AllSchedulable
      <3>2. GRACE \in Instant
        BY StorageAssumption DEF Instant
      <3> QED
        BY <3>1, <3>2, WordArithmetic DEF Candidate, Schedulable, Entry
    <2>4. NeverDormant'
      <3>1. SUFFICES ASSUME DOMAIN storage # {}
                     PROVE  CollectorPending'
        BY <1>6 DEF FindNext, NeverDormant
      <3>2. PICK m \in Instant :
              /\ IsLeast(m, {gc.next} \cup {Candidate(k) : k \in DOMAIN storage})
              /\ gc' = [gc EXCEPT !.next = m]
        BY <1>6 DEF FindNext
      <3>3. PICK k \in DOMAIN storage : TRUE
        BY <3>1
      <3>4. m <= Candidate(k)
        BY <3>2 DEF IsLeast
      <3>5. m # UINT64_MAX
        BY <2>3, <3>4, StorageAssumption DEF Instant, UINT64_MAX
      <3>6. gc'.next = m
        BY <3>2 DEF TypeOK, Pass
      <3>7. pc'[w] = "schedule"
        BY <1>2, <1>6 DEF FindNext
      <3> QED
        BY <3>5, <3>6, <3>7 DEF CollectorPending
    <2> QED
      BY <1>1, <2>1, <2>2, <2>4
  <1>7. CASE Reschedule(w)
    <2>1. pc[w] = "schedule" /\ mutex = w
      BY <1>7 DEF Reschedule, OneCollector, InPass
    <2>2. AllSchedulable'
      BY <1>7 DEF Reschedule, AllSchedulable
    <2>3. CASE gc.next = UINT64_MAX /\ Return(w) /\ UNCHANGED timer
      <3>1. OneCollector'
        BY <1>2, <2>1, <2>3 DEF Return, OneCollector, InPass
      <3>2. UNCHANGED <<storage, timer, ready, strand, created, overtaken>>
        BY <1>7, <2>3 DEF Reschedule
      <3>3. pc' = [pc EXCEPT ![w] = "idle"]
        BY <2>3 DEF Return
      <3>4. \A v \in Worker : v # w => pc[v] # "schedule" /\ pc'[v] = pc[v]
        BY <1>2, <2>1, <3>3 DEF OneCollector, InPass
      <3>5. CollectorPending => CollectorPending'
        BY <2>1, <2>3, <3>2, <3>4 DEF CollectorPending, AboutToArm
      <3>6. Stuck => Stuck'
        BY <2>1, <3>4 DEF Stuck
      <3>7. NeverDormant'
        BY <3>2, <3>5, <3>6 DEF NeverDormant
      <3> QED
        BY <1>1, <2>2, <3>1, <3>7
    <2>4. CASE gc.next # UINT64_MAX /\ gc.next > now /\ Return(w) /\ timer' = gc.next
      <3>1. OneCollector'
        BY <1>2, <2>1, <2>4 DEF Return, OneCollector, InPass
      <3>2. timer' # Unarmed
        BY <2>4 DEF TypeOK, Pass, Instant, Unarmed
      <3> QED
        BY <1>1, <2>2, <3>1, <3>2 DEF NeverDormant, CollectorPending
    <2>5. CASE /\ gc.next # UINT64_MAX /\ gc.next <= now
               /\ pc' = [pc EXCEPT ![w] = "relock"]
               /\ UNCHANGED <<timer, mutex, gc, strandOwner>>
      <3>1. OneCollector'
        BY <1>2, <2>1, <2>5 DEF OneCollector, InPass
      <3>2. Stuck'
        BY <1>2, <2>5 DEF Stuck
      <3> QED
        BY <1>1, <2>2, <3>1, <3>2 DEF NeverDormant
    <2> QED
      BY <1>7, <2>3, <2>4, <2>5 DEF Reschedule
  <1> QED
    BY <1>3, <1>4, <1>5, <1>6, <1>7 DEF CollectorStep

LEMMA StepWakeup == WakeupInv /\ [Next]_vars => WakeupInv'
  <1> SUFFICES ASSUME WakeupInv, [Next]_vars PROVE WakeupInv'
    OBVIOUS
  <1>0. TypeOK' /\ pc \in [Worker -> Where] /\ NoWorker \notin Worker
    BY StepTyped, StorageAssumption DEF WakeupInv, TypeOK
  <1>1. CASE Command
    BY <1>1, CommandWakeup
  <1>2. CASE Tick
    BY <1>0, <1>2 DEF Tick, threads, collector, WakeupInv, OneCollector, AllSchedulable, NeverDormant, CollectorPending,
                      AboutToArm, Stuck
  <1>3. CASE TimerExpires
    <2>1. ready' > 0
      BY <1>3 DEF TimerExpires, WakeupInv, TypeOK
    <2> QED
      BY <1>0, <1>3, <2>1
         DEF TimerExpires, WakeupInv, OneCollector, AllSchedulable, NeverDormant, CollectorPending
  <1>4. ASSUME NEW w \in Worker, StrandTask(w)
        PROVE  WakeupInv'
    <2>1. OneCollector' /\ AllSchedulable'
      BY <1>0, <1>4 DEF StrandTask, WakeupInv, OneCollector, InPass, AllSchedulable
    <2>2. Head(strand) \in Instant
      BY <1>4 DEF StrandTask, WakeupInv, TypeOK
    <2>3. CollectorPending'
      BY <1>0, <1>4, <2>2 DEF StrandTask, CollectorPending, Instant, Unarmed
    <2> QED
      BY <1>0, <2>1, <2>3 DEF WakeupInv, NeverDormant
  <1>5. ASSUME NEW w \in Worker, TimerHandler(w)
        PROVE  WakeupInv'
    <2>1. OneCollector' /\ AllSchedulable'
      BY <1>0, <1>5 DEF TimerHandler, WakeupInv, OneCollector, InPass, AllSchedulable
    <2>2. CollectorPending'
      BY <1>0, <1>5 DEF TimerHandler, CollectorPending
    <2> QED
      BY <1>0, <2>1, <2>2 DEF WakeupInv, NeverDormant
  <1>6. ASSUME NEW w \in Worker, CollectorStep(w)
        PROVE  WakeupInv'
    BY <1>6, CollectorWakeup
  <1>7. ASSUME NEW w \in Worker, Walk(w)
        PROVE  WakeupInv'
    BY <1>7, WalkWakeup
  <1>8. CASE UNCHANGED vars
    BY <1>0, <1>8 DEF vars, WakeupInv, OneCollector, AllSchedulable, NeverDormant, CollectorPending, AboutToArm,
                      Stuck
  <1> QED
    BY <1>1, <1>2, <1>3, <1>4, <1>5, <1>6, <1>7, <1>8 DEF Next

LEMMA WakeupInvariant == Spec => []WakeupInv
  <1> QED
    BY InitWakeup, StepWakeup, PTL DEF Spec

(***************************************************************************)
(* At most one thread is inside a collector pass, and it is the owner of   *)
(* state::mutex_, for any number of threads.                               *)
(***************************************************************************)
THEOREM CollectorIsExclusive == Spec => []OneCollector
  <1>1. WakeupInv => OneCollector
    BY DEF WakeupInv
  <1> QED
    BY <1>1, WakeupInvariant, PTL

(***************************************************************************)
(* For any number of keys and threads, a non-empty store has a wake-up of  *)
(* the collector ahead of it unless a pass is locked on its own mutex or a *)
(* creation was overtaken between its two steps: timers overwritten by     *)
(* later ones, purges, creations that cross each other and passes in       *)
(* progress never leave entries nobody comes for.                          *)
(***************************************************************************)
THEOREM StoreNeverDormant == Spec => []NeverDormant
  <1>1. WakeupInv => NeverDormant
    BY DEF WakeupInv
  <1> QED
    BY <1>1, WakeupInvariant, PTL

LEMMA NotOvertaken ==
  ASSUME SingleWorker
  PROVE  Spec => []~overtaken
  <1>1. Init => ~overtaken
    BY DEF Init
  <1>2. ASSUME TypeOK, ~overtaken, [Next]_vars
        PROVE  ~overtaken'
    <2>1. ASSUME Serving, NEW e
          PROVE  ~Overtakes(e)
      BY <2>1 DEF Serving, Overtakes, SingleWorker
    <2>2. \A e : Dispatch(e) => ~overtaken'
      BY DEF Dispatch
    <2>3. CASE Command
      BY <1>2, <2>1, <2>2, <2>3 DEF Command, Insert, SetNew, Emplace, SetAgain, UpdateTtl, Purge
    <2>4. ASSUME NEW w \in Worker, Walk(w)
          PROVE  ~overtaken'
      BY <1>2, <2>2, <2>4 DEF Walk
    <2>5. ASSUME NEW w \in Worker, CollectorStep(w)
          PROVE  ~overtaken'
      BY <1>2, <2>5 DEF CollectorStep, Scan, Mark, Erase, FindNext, Reschedule
    <2> QED
      BY <1>2, <2>3, <2>4, <2>5 DEF Next, Tick, TimerExpires, StrandTask, TimerHandler, vars
  <1> QED
    BY <1>1, <1>2, TypeCorrect, PTL DEF Spec

(***************************************************************************)
(* With one pool thread no creation can be overtaken: whatever is stored   *)
(* is awaited by the collector, or the collector has locked itself.        *)
(***************************************************************************)
THEOREM SingleWorkerAlwaysAwaited ==
  ASSUME SingleWorker
  PROVE  Spec => []AlwaysAwaited
  <1>1. NeverDormant /\ ~overtaken => AlwaysAwaited
    BY DEF NeverDormant, AlwaysAwaited
  <1> QED
    BY <1>1, NotOvertaken, StoreNeverDormant, PTL

-----------------------------------------------------------------------------
(* The store implements the lifecycle of its keys *)

LEMMA StatusPut ==
  ASSUME TypeOK, NEW k \in Key, NEW e, storage' = Put(k, e)
  PROVE  status' = [status EXCEPT ![k] = IF e.expired THEN "expired" ELSE "live"]
  BY DEF Put, status

LEMMA StatusDrop ==
  ASSUME NEW k \in Key, storage' = Drop(k)
  PROVE  status' = [status EXCEPT ![k] = "absent"]
  BY DEF Drop, status

LEMMA StatusOf ==
  ASSUME NEW k \in Key
  PROVE  /\ status[k] = "absent" <=> k \notin DOMAIN storage
         /\ status[k] = "live" <=> Live(k)
         /\ status[k] = "expired" <=> k \in DOMAIN storage /\ storage[k].expired
         /\ [status EXCEPT ![k] = status[k]] = status
  BY DEF status, Live

LEMMA StatusStep == TypeOK /\ [Next]_vars => [Lifecycle!Next]_status
  <1> SUFFICES ASSUME TypeOK, [Next]_vars
               PROVE  [Lifecycle!Next]_status
    OBVIOUS
  <1> USE DEF Lifecycle!Next, Lifecycle!Create, Lifecycle!Expire, Lifecycle!Erase, Lifecycle!Purge,
              Lifecycle!Move
  <1>1. UNCHANGED storage => UNCHANGED status
    BY DEF status
  <1>2. ASSUME NEW w \in Worker, NEW k \in Key, NEW t, NEW e, Emplace(w, k, t, e)
        PROVE  Lifecycle!Create(k)
    <2>1. [type |-> t, expires_at |-> e, expired |-> FALSE].expired = FALSE
      OBVIOUS
    <2> QED
      BY <1>2, <2>1, StatusPut, StatusOf DEF Emplace
  <1>3. ASSUME NEW k \in Key, NEW e, k \in DOMAIN storage,
               storage' = Put(k, [storage[k] EXCEPT !.expires_at = e])
        PROVE  UNCHANGED status
    <2>1. [storage[k] EXCEPT !.expires_at = e].expired = storage[k].expired
      BY <1>3 DEF TypeOK, Entry
    <2> DEFINE changed == [storage[k] EXCEPT !.expires_at = e]
    <2>2. status[k] = IF changed.expired THEN "expired" ELSE "live"
      BY <1>3, <2>1 DEF status
    <2> HIDE DEF changed
    <2>3. status' = [status EXCEPT ![k] = IF changed.expired THEN "expired" ELSE "live"]
      BY <1>3, StatusPut DEF changed
    <2> QED
      BY <2>2, <2>3, StatusOf
  <1>4. CASE Command
    <2>1. ASSUME NEW k \in Key, Purge(k)
          PROVE  Lifecycle!Purge(k)
      BY <2>1, StatusDrop, StatusOf DEF Purge
    <2>2. ASSUME NEW w \in Worker, NEW k \in Key, NEW ttl \in Ttl, Insert(w, k, ttl) \/ SetNew(w, k, ttl)
          PROVE  Lifecycle!Create(k)
      BY <1>2, <2>2 DEF Insert, SetNew
    <2>3. ASSUME NEW k \in Key, NEW ttl \in Ttl, SetAgain(k, ttl)
          PROVE  UNCHANGED status
      BY <1>3, <2>3 DEF SetAgain
    <2>4. ASSUME NEW k \in Key, NEW change \in Change, NEW d \in Ttl, UpdateTtl(k, change, d)
          PROVE  UNCHANGED status
      BY <1>3, <2>4 DEF UpdateTtl, Live
    <2> QED
      BY <1>4, <2>1, <2>2, <2>3, <2>4 DEF Command
  <1>5. ASSUME NEW w \in Worker, NEW k \in Key, Mark(w, k)
        PROVE  [Lifecycle!Next]_status
    <2>1. CASE Live(k)
      <3>1. [storage[k] EXCEPT !.expired = TRUE].expired = TRUE
        BY <2>1 DEF Live, TypeOK, Entry
      <3>2. Lifecycle!Expire(k)
        BY <1>5, <2>1, <3>1, StatusPut, StatusOf DEF Mark
      <3> QED
        BY <3>2
    <2> QED
      BY <1>1, <1>5, <2>1 DEF Mark
  <1>6. ASSUME NEW w \in Worker, NEW k \in Key, Erase(w, k)
        PROVE  [Lifecycle!Next]_status
    <2>1. CASE k \in DOMAIN storage /\ storage[k].expired
      BY <1>6, <2>1, StatusDrop, StatusOf DEF Erase
    <2> QED
      BY <1>1, <1>6, <2>1 DEF Erase
  <1>7. CASE UNCHANGED storage
    BY <1>1, <1>7
  <1> QED
    BY <1>4, <1>5, <1>6, <1>7
       DEF Next, vars, Tick, TimerExpires, Walk, StrandTask, TimerHandler, CollectorStep, Scan, FindNext, Reschedule

(***************************************************************************)
(* The store, with its commands and its interleaved passes, implements     *)
(* KeyLifecycle for any number of keys and threads.                        *)
(***************************************************************************)
THEOREM LifecycleImplemented == Spec => ImplementsLifecycle
  <1>1. Init => Lifecycle!Init
    BY DEF Init, Lifecycle!Init, status
  <1> QED
    BY <1>1, StatusStep, TypeCorrect, PTL DEF Spec, ImplementsLifecycle, Lifecycle!Spec

-----------------------------------------------------------------------------
(* One pool thread: a pass acts on what it saw *)

LEMMA InitAccurate == Init => PassAccurate
  BY DEF Init, PassAccurate

\* With one thread a command is served only when no pass is in progress.
LEMMA CommandAccurate ==
  ASSUME SingleWorker, TypeOK, PassAccurate, Command
  PROVE  PassAccurate'
  <1> PICK k \in Key :
        \/ \E w \in Worker, ttl \in Ttl : Insert(w, k, ttl) \/ SetNew(w, k, ttl)
        \/ \E ttl \in Ttl : SetAgain(k, ttl)
        \/ \E change \in Change, d \in Ttl : UpdateTtl(k, change, d)
        \/ Purge(k)
    BY DEF Command
  <1>1. now' = now
    BY DEF Insert, SetNew, Emplace, SetAgain, UpdateTtl, Purge
  <1>2. \A w \in Worker : pc'[w] # "sweep"
    <2>1. \A w \in Worker : pc[w] = "idle"
      BY DEF Insert, SetNew, Emplace, SetAgain, UpdateTtl, Purge, Serving, SingleWorker
    <2>2. pc' = pc \/ \E w \in Worker : pc' = [pc EXCEPT ![w] = "walk"]
      BY DEF Insert, SetNew, Emplace, SetAgain, UpdateTtl, Purge, threads
    <2> QED
      BY <2>1, <2>2 DEF TypeOK
  <1>3. ASSUME NEW x \in DOMAIN storage', storage'[x].expired, storage'[x].type = "counter"
        PROVE  x \in DOMAIN storage /\ storage[x].expired /\ storage'[x] = storage[x]
    <2>1. ASSUME NEW w \in Worker, NEW t, NEW e, Emplace(w, k, t, e)
          PROVE  x \in DOMAIN storage /\ storage'[x] = storage[x]
      BY <1>3, <2>1 DEF Emplace, Put
    <2>2. ASSUME NEW e, k \in DOMAIN storage, storage[k].type = "raw" \/ ~storage[k].expired,
                 storage' = Put(k, [storage[k] EXCEPT !.expires_at = e])
          PROVE  x \in DOMAIN storage /\ storage'[x] = storage[x]
      <3>1. /\ [storage[k] EXCEPT !.expires_at = e].type = storage[k].type
            /\ [storage[k] EXCEPT !.expires_at = e].expired = storage[k].expired
        BY <2>2 DEF TypeOK, Entry
      <3>2. x # k
        BY <1>3, <2>2, <3>1 DEF Put
      <3> QED
        BY <2>2, <3>2 DEF Put
    <2>3. CASE Purge(k)
      BY <1>3, <2>3 DEF Purge, Drop
    <2>4. ASSUME NEW w \in Worker, NEW ttl \in Ttl, Insert(w, k, ttl) \/ SetNew(w, k, ttl)
          PROVE  x \in DOMAIN storage /\ storage'[x] = storage[x]
      BY <2>1, <2>4 DEF Insert, SetNew
    <2>5. ASSUME NEW ttl \in Ttl, SetAgain(k, ttl)
          PROVE  x \in DOMAIN storage /\ storage'[x] = storage[x]
      BY <2>2, <2>5 DEF SetAgain
    <2>6. ASSUME NEW change \in Change, NEW d \in Ttl, UpdateTtl(k, change, d)
          PROVE  x \in DOMAIN storage /\ storage'[x] = storage[x]
      BY <2>2, <2>6 DEF UpdateTtl, Live
    <2>7. x \in DOMAIN storage /\ storage'[x] = storage[x]
      BY <2>3, <2>4, <2>5, <2>6
    <2> QED
      BY <1>3, <2>7
  <1> QED
    BY <1>1, <1>2, <1>3 DEF PassAccurate

LEMMA CollectorAccurate ==
  ASSUME SingleWorker, TypeOK, PassAccurate, NEW w \in Worker, CollectorStep(w)
  PROVE  PassAccurate'
  <1>0. pc \in [Worker -> Where]
    BY DEF TypeOK
  <1>1. CASE Scan(w)
    <2>1. gc'.to_expire = DueLive /\ gc'.to_erase = PastGrace /\ UNCHANGED <<storage, now>>
      BY <1>1 DEF Scan
    <2>2. ASSUME NEW k \in PastGrace, storage[k].type = "counter"
          PROVE  now - storage[k].expires_at > GRACE
      BY <2>2, StorageAssumption DEF PastGrace, PassAccurate, Minus
    <2> QED
      BY <2>1, <2>2 DEF PassAccurate, DueLive, PastGrace, Live
  <1>2. ASSUME NEW k \in Key, Mark(w, k)
        PROVE  PassAccurate'
    <2>1. UNCHANGED <<now, pc>> /\ pc[w] = "sweep" /\ k \in gc.to_expire
      BY <1>2 DEF Mark
    <2>2. gc'.to_expire \subseteq gc.to_expire /\ gc'.to_erase = gc.to_erase
      BY <1>2 DEF Mark, TypeOK, Pass
    <2>3. CASE Live(k)
      <3>1. /\ [storage[k] EXCEPT !.expired = TRUE].type = storage[k].type
            /\ [storage[k] EXCEPT !.expired = TRUE].expires_at = storage[k].expires_at
            /\ [storage[k] EXCEPT !.expired = TRUE].expired = TRUE
        BY <2>3 DEF Live, TypeOK, Entry
      <3>2. DOMAIN storage' = DOMAIN storage
        BY <1>2, <2>3 DEF Mark, Put, Live
      <3>3. \A x \in DOMAIN storage : x # k => storage'[x] = storage[x]
        BY <1>2, <2>3 DEF Mark, Put, Live
      <3>4. /\ storage'[k].type = storage[k].type
            /\ storage'[k].expires_at = storage[k].expires_at
            /\ storage'[k].expired = TRUE
        BY <1>2, <2>3, <3>1 DEF Mark, Put
      <3>5. storage[k].expires_at <= now
        BY <2>1, <2>3 DEF PassAccurate
      <3>6. k \notin gc.to_erase
        BY <2>1, <2>3 DEF PassAccurate, Live
      <3> QED
        BY <2>1, <2>2, <3>2, <3>3, <3>4, <3>5, <3>6 DEF PassAccurate, Live
    <2>4. CASE ~Live(k)
      BY <1>2, <2>1, <2>2, <2>4 DEF Mark, PassAccurate, Live
    <2> QED
      BY <2>3, <2>4
  <1>3. ASSUME NEW k \in Key, Erase(w, k)
        PROVE  PassAccurate'
    <2>1. UNCHANGED <<now, pc>>
      BY <1>3 DEF Erase
    <2>2. gc'.to_expire = gc.to_expire /\ gc'.to_erase \subseteq gc.to_erase
      BY <1>3 DEF Erase, TypeOK, Pass
    <2>3. DOMAIN storage' \subseteq DOMAIN storage /\ \A x \in DOMAIN storage' : storage'[x] = storage[x]
      BY <1>3 DEF Erase, Drop
    <2> QED
      BY <2>1, <2>2, <2>3 DEF PassAccurate, Live
  <1>4. CASE FindNext(w) \/ Reschedule(w)
    <2>1. UNCHANGED <<now, storage>>
      BY <1>4 DEF FindNext, Reschedule
    <2>2. \A v \in Worker : pc'[v] # "sweep"
      BY <1>0, <1>4 DEF FindNext, Reschedule, Return, SingleWorker
    <2> QED
      BY <2>1, <2>2 DEF PassAccurate
  <1> QED
    BY <1>1, <1>2, <1>3, <1>4 DEF CollectorStep

LEMMA StepAccurate ==
  ASSUME SingleWorker
  PROVE  TypeOK /\ PassAccurate /\ [Next]_vars => PassAccurate'
  <1> SUFFICES ASSUME TypeOK, PassAccurate, [Next]_vars PROVE PassAccurate'
    OBVIOUS
  <1>0. pc \in [Worker -> Where]
    BY DEF TypeOK
  <1>1. CASE Command
    BY <1>1, CommandAccurate
  <1>2. CASE Tick
    <2>1. now' = now + 1 /\ UNCHANGED <<storage, pc, gc>> /\ now \in Int
      BY <1>2, StorageAssumption DEF Tick, threads, collector, TypeOK
    <2>2. \A k \in DOMAIN storage : storage[k].expires_at \in Int
      BY StorageAssumption DEF TypeOK, Entry, Instant
    <2> QED
      BY <2>1, <2>2, StorageAssumption DEF PassAccurate, Live
  <1>3. CASE TimerExpires
    BY <1>3 DEF TimerExpires, PassAccurate, Live
  <1>4. ASSUME NEW w \in Worker, Walk(w) \/ StrandTask(w) \/ TimerHandler(w)
        PROVE  PassAccurate'
    BY <1>0, <1>4 DEF Walk, collector, StrandTask, TimerHandler, PassAccurate, Live
  <1>5. ASSUME NEW w \in Worker, CollectorStep(w)
        PROVE  PassAccurate'
    BY <1>5, CollectorAccurate
  <1>6. CASE UNCHANGED vars
    BY <1>6 DEF vars, PassAccurate, Live
  <1> QED
    BY <1>1, <1>2, <1>3, <1>4, <1>5, <1>6 DEF Next

\* Only Mark turns a readable key into a flagged one, only Erase removes a
\* flagged one.
LEMMA WhoFlagsWhoErases ==
  ASSUME TypeOK, [Next]_vars, NEW k \in Key
  PROVE  /\ Live(k) /\ Lifecycle!Expire(k) => \E w \in Worker : Mark(w, k)
         /\ Lifecycle!Erase(k) => \E w \in Worker : Erase(w, k)
  <1> USE DEF Lifecycle!Expire, Lifecycle!Erase, Lifecycle!Move
  <1> SUFFICES ASSUME Lifecycle!Expire(k) \/ Lifecycle!Erase(k),
                      ~\E w \in Worker : Mark(w, k),
                      ~\E w \in Worker : Erase(w, k)
               PROVE  FALSE
    <2>1. ASSUME Lifecycle!Expire(k), NEW w \in Worker, Erase(w, k)
          PROVE  FALSE
      BY <2>1, StatusOf DEF Erase, Drop, status
    <2>2. ASSUME Lifecycle!Erase(k), NEW w \in Worker, Mark(w, k)
          PROVE  FALSE
      BY <2>2, StatusOf DEF Mark, status, Live
    <2> QED
      BY <2>1, <2>2
  <1>1. /\ status[k] \in {"live", "expired"}
        /\ status'[k] # status[k]
        /\ status'[k] \in {"expired", "absent"}
        /\ status[k] = "live" => status'[k] = "expired"
    BY DEF status
  <1>2. ~UNCHANGED storage
    BY <1>1 DEF status
  <1>3. k \in DOMAIN storage
    BY <1>1 DEF status
  <1>4. ASSUME NEW x \in Key, x # k, NEW e, storage' = Put(x, e) \/ storage' = Drop(x)
        PROVE  FALSE
    BY <1>1, <1>4 DEF status, Put, Drop
  <1>5. ASSUME NEW w \in Worker, NEW x \in Key, NEW t, NEW e, Emplace(w, x, t, e)
        PROVE  FALSE
    BY <1>3, <1>4, <1>5 DEF Emplace
  <1>6. ASSUME NEW x \in Key, NEW e, x \in DOMAIN storage,
               storage' = Put(x, [storage[x] EXCEPT !.expires_at = e])
        PROVE  FALSE
    <2>1. [storage[x] EXCEPT !.expires_at = e].expired = storage[x].expired
      BY <1>6 DEF TypeOK, Entry
    <2> QED
      BY <1>1, <1>4, <1>6, <2>1 DEF status, Put
  <1>7. ASSUME NEW x \in Key, Purge(x)
        PROVE  FALSE
    BY <1>1, <1>4, <1>7 DEF Purge, Drop, status, Live
  <1>8. CASE Command
    <2>1. ASSUME NEW w \in Worker, NEW x \in Key, NEW ttl \in Ttl, Insert(w, x, ttl) \/ SetNew(w, x, ttl)
          PROVE  FALSE
      BY <1>5, <2>1 DEF Insert, SetNew
    <2>2. ASSUME NEW x \in Key, NEW ttl \in Ttl, SetAgain(x, ttl)
          PROVE  FALSE
      BY <1>6, <2>2 DEF SetAgain
    <2>3. ASSUME NEW x \in Key, NEW change \in Change, NEW d \in Ttl, UpdateTtl(x, change, d)
          PROVE  FALSE
      BY <1>6, <2>3 DEF UpdateTtl, Live
    <2> QED
      BY <1>7, <1>8, <2>1, <2>2, <2>3 DEF Command
  <1>9. ASSUME NEW w \in Worker, NEW x \in Key, Mark(w, x) \/ Erase(w, x)
        PROVE  FALSE
    BY <1>2, <1>4, <1>9 DEF Mark, Erase
  <1> QED
    BY <1>2, <1>8, <1>9
       DEF Next, vars, Tick, TimerExpires, Walk, StrandTask, TimerHandler, CollectorStep, Scan, FindNext, Reschedule

LEMMA AccurateInvariant ==
  ASSUME SingleWorker
  PROVE  Spec => [](TypeOK /\ PassAccurate)
  <1>1. TypeOK /\ PassAccurate /\ [Next]_vars => PassAccurate'
    BY StepAccurate
  <1> QED
    BY <1>1, InitAccurate, TypeCorrect, PTL DEF Spec

(***************************************************************************)
(* With one pool thread the collector flags a key only once its expiration *)
(* has passed, however commands and passes alternate.  (With two threads   *)
(* an UPDATE or a PURGE and INSERT between the scan and the flagging       *)
(* breaks it.)                                                             *)
(***************************************************************************)
THEOREM SingleWorkerExpiresOnlyWhenDue ==
  ASSUME SingleWorker
  PROVE  Spec => ExpireOnlyWhenDue
  <1>1. ASSUME TypeOK, PassAccurate, [Next]_vars
        PROVE  [\A k \in Key : Live(k) /\ Lifecycle!Expire(k) => storage[k].expires_at <= now]_vars
    <2>1. ASSUME NEW k \in Key, Live(k), Lifecycle!Expire(k)
          PROVE  storage[k].expires_at <= now
      <3>1. PICK w \in Worker : Mark(w, k)
        BY <1>1, <2>1, WhoFlagsWhoErases
      <3> QED
        BY <1>1, <2>1, <3>1 DEF Mark, PassAccurate
    <2> QED
      BY <2>1
  <1> QED
    BY <1>1, AccurateInvariant, PTL DEF Spec, ExpireOnlyWhenDue

(***************************************************************************)
(* With one pool thread an expired counter is kept for the whole grace     *)
(* period: the unsigned difference of the scan never wraps for a counter.  *)
(***************************************************************************)
THEOREM SingleWorkerKeepsGrace ==
  ASSUME SingleWorker
  PROVE  Spec => CounterKeepsGrace
  <1>1. ASSUME TypeOK, PassAccurate, [Next]_vars
        PROVE  [\A k \in Key : Lifecycle!Erase(k) /\ storage[k].type = "counter" =>
                  now - storage[k].expires_at > GRACE]_vars
    <2>1. ASSUME NEW k \in Key, Lifecycle!Erase(k), storage[k].type = "counter"
          PROVE  now - storage[k].expires_at > GRACE
      <3>1. PICK w \in Worker : Erase(w, k)
        BY <1>1, <2>1, WhoFlagsWhoErases
      <3>2. k \in DOMAIN storage
        BY <2>1, StatusOf DEF Lifecycle!Erase, Lifecycle!Move
      <3> QED
        BY <1>1, <2>1, <3>1, <3>2 DEF Erase, PassAccurate
    <2> QED
      BY <2>1
  <1> QED
    BY <1>1, AccurateInvariant, PTL DEF Spec, CounterKeepsGrace
=============================================================================
