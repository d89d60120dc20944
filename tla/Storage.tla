------------------------------- MODULE Storage -------------------------------
(***************************************************************************)
(* The key store of throttr and its garbage collector.                     *)
(*                                                                         *)
(* Keys are created by INSERT and SET, changed by SET and UPDATE, removed  *)
(* by PURGE, flagged `expired_` and later erased by the collector.  The    *)
(* collector runs when the single expiration timer fires, or directly from *)
(* schedule_timer when the proposed instant has passed; a pass holds       *)
(* state::mutex_ from its first line to its last, the call of              *)
(* schedule_timer at its end included.                                     *)
(*                                                                         *)
(* Commands take no lock, so what runs on one pool thread may fall between *)
(* two steps of another.  A creation is two steps, the insertion and the   *)
(* comparison with an item of the index that decides whether the collector *)
(* is woken; the other commands touch one entry once and are one step.  A  *)
(* collector pass is a scan, one step per key marked or erased, the search *)
(* for the next deadline and the rescheduling.                             *)
(***************************************************************************)
EXTENDS Integers, Sequences

CONSTANTS
  Key,           \* the keys clients use
  ScheduledKey,  \* the value of state::scheduled_key_: never assigned, so the
                 \* zero-length key; a member of Key when clients use that key
  Worker,        \* threads that run io_context::run
  NoWorker,      \* "nobody"
  Ttl,           \* durations clients send
  Change,        \* change_types clients send in UPDATE
  GRACE,         \* _grace_ns: how long a flagged entry is kept
  WORD,          \* 2^64: the modulus of uint64_t
  WakeLag,       \* the least delay of a timer wake-up behind its deadline
  StartTime,     \* the clock when the server starts
  Horizon,       \* bound: clients send nothing after this instant
  MaxTime,       \* bound: the last instant of the model
  MaxStrand,     \* bound: clients wait while as many tasks are on the strand
  MaxReady       \* bound: timer completions waiting for a thread

ASSUME StorageAssumption ==
  /\ NoWorker \notin Worker
  /\ {GRACE, WORD, WakeLag, StartTime, Horizon, MaxTime, MaxStrand, MaxReady} \subseteq Nat
  /\ GRACE < WORD
  /\ StartTime <= MaxTime /\ MaxTime < WORD
  /\ Ttl \subseteq 0 .. WORD - 1
  /\ Change \subseteq {"patch", "increase", "decrease"}

VARIABLES
  now,          \* std::chrono::system_clock
  storage,      \* state::storage_
  strand,       \* proposed instants of the schedule_timer tasks on state::strand_
  strandOwner,  \* the thread executing a strand task that has not returned
  timer,        \* deadline of expiration_timer_'s pending wait
  ready,        \* completed waits whose handler no thread has started yet
  mutex,        \* owner of state::mutex_
  pc,           \* where each thread is
  gc,           \* locals of the pass that owns the mutex
  created,      \* local _expires_at of a creation that has not compared it yet
  overtaken     \* history: an UPDATE or SET stored an expiration below that of
                \* a creation between its two steps, and since then nothing was
                \* dispatched and no pass began

vars == <<now, storage, strand, strandOwner, timer, ready, mutex, pc, gc, created, overtaken>>

-----------------------------------------------------------------------------
(* uint64_t arithmetic *)

Instant    == 0 .. WORD - 1
UINT64_MAX == WORD - 1
Plus(a, b)  == IF a + b < WORD THEN a + b ELSE a + b - WORD
\* Mutant: a signed difference.
MinusSigned(a, b) == a - b

Minus(a, b) == IF b <= a THEN a - b ELSE a - b + WORD

Unarmed == -1

Entry == [type : {"counter", "raw"}, expires_at : Instant, expired : BOOLEAN]

Pass == [now : Instant, to_expire : SUBSET Key, to_erase : SUBSET Key, next : Instant]

NoPass == [now |-> 0, to_expire |-> {}, to_erase |-> {}, next |-> UINT64_MAX]

\* "idle": in io_context::run; "walk": a creation between its insertion and its
\* comparison; "lock": at the scoped_lock of run(); "sweep":
\* marking and erasing; "schedule": at the final call of schedule_timer;
\* "relock": that call took the branch run(state) and waits for the mutex its
\* own caller holds.
Where == {"idle", "walk", "lock", "sweep", "schedule", "relock"}

TypeOK ==
  /\ now \in StartTime .. MaxTime
  /\ DOMAIN storage \subseteq Key
  /\ \A k \in DOMAIN storage : storage[k] \in Entry
  /\ strand \in Seq(Instant)
  /\ strandOwner \in Worker \cup {NoWorker}
  /\ timer \in Instant \cup {Unarmed}
  /\ ready \in Nat
  /\ mutex \in Worker \cup {NoWorker}
  /\ pc \in [Worker -> Where]
  /\ gc \in Pass
  /\ created \in [Worker -> Instant]
  /\ overtaken \in BOOLEAN

Init ==
  /\ now = StartTime
  /\ storage = [k \in {} |-> 0]
  /\ strand = << >>
  /\ strandOwner = NoWorker
  /\ timer = Unarmed
  /\ ready = 0
  /\ mutex = NoWorker
  /\ pc = [w \in Worker |-> "idle"]
  /\ gc = NoPass
  /\ created = [w \in Worker |-> 0]
  /\ overtaken = FALSE

collector == <<strandOwner, timer, ready, mutex, gc>>
threads   == <<collector, pc, created>>

-----------------------------------------------------------------------------
(* Commands *)

\* Clients still send, and the strand has room for what a command may dispatch.
Open == now <= Horizon /\ Len(strand) < MaxStrand

\* A command is being served: some thread is free to run its handler.
Serving == Open /\ \E w \in Worker : pc[w] = "idle"

\* The two expirations whose wake-up would be mistaken for "nothing left to
\* schedule" (UINT64_MAX) are kept out of the inputs.
Schedulable(e) == e # UINT64_MAX /\ Plus(e, GRACE) # UINT64_MAX

Live(k) == k \in DOMAIN storage /\ ~storage[k].expired

Put(k, entry) == [x \in DOMAIN storage \cup {k} |-> IF x = k THEN entry ELSE storage[x]]
Drop(k)       == [x \in DOMAIN storage \ {k} |-> storage[x]]

\* boost::asio::dispatch(state->strand_, schedule_timer(_expires_at))
Dispatch(e) ==
  /\ strand' = Append(strand, e)
  /\ overtaken' = FALSE

\* Mutant: an insertion that replaces the entry of a key already there.
EmplaceReplacing(w, k, type, e) ==
  /\ Open /\ pc[w] = "idle" /\ Schedulable(e)
  /\ storage' = Put(k, [type |-> type, expires_at |-> e, expired |-> FALSE])
  /\ pc' = [pc EXCEPT ![w] = "walk"]
  /\ created' = [created EXCEPT ![w] = e]
  /\ UNCHANGED <<now, strand, overtaken, collector>>

\* storage_.emplace of a key that is not there.
Emplace(w, k, type, e) ==
  /\ Open
  /\ pc[w] = "idle"
  /\ k \notin DOMAIN storage
  /\ Schedulable(e)
  /\ storage' = Put(k, [type |-> type, expires_at |-> e, expired |-> FALSE])
  /\ pc' = [pc EXCEPT ![w] = "walk"]
  /\ created' = [created EXCEPT ![w] = e]
  /\ UNCHANGED <<now, strand, overtaken, collector>>

\* The loop after the insertion: it stops at the first unexpired item of the
\* hashed index, which may be any of them, the new one included, and wakes the
\* collector unless that item expires before the new one.
Walk(w) ==
  /\ pc[w] = "walk"
  /\ \/ \E first \in DOMAIN storage :
          /\ ~storage[first].expired
          /\ IF created[w] <= storage[first].expires_at
             THEN Dispatch(created[w])
             ELSE UNCHANGED <<strand, overtaken>>
     \/ /\ \A k \in DOMAIN storage : storage[k].expired
        /\ UNCHANGED <<strand, overtaken>>
  /\ pc' = [pc EXCEPT ![w] = "idle"]
  /\ created' = [created EXCEPT ![w] = 0]
  /\ UNCHANGED <<now, storage, collector>>

\* INSERT: refused, with no effect, when the name is taken (expired or not).
Insert(w, k, ttl) == Emplace(w, k, "counter", Plus(now, ttl))

\* SET of a key that is not there; SET of a counter fails like INSERT.
SetNew(w, k, ttl) == Emplace(w, k, "raw", Plus(now, ttl))

\* An expiration e stored now is below that of a creation yet to compare.
Overtakes(e) == \E w \in Worker : pc[w] = "walk" /\ e < created[w]

\* SET of an existing raw key: new expiration, the flag and the timer are left
\* alone, and the client is told it succeeded.
SetAgain(k, ttl) ==
  /\ Serving
  /\ k \in DOMAIN storage
  /\ storage[k].type = "raw"
  /\ Schedulable(Plus(now, ttl))
  /\ storage' = Put(k, [storage[k] EXCEPT !.expires_at = Plus(now, ttl)])
  /\ overtaken' = (overtaken \/ Overtakes(Plus(now, ttl)))
  /\ UNCHANGED <<now, strand, threads>>

\* The new expires_at_ that apply_ttl_change stores.
TtlChanged(e, change, d) ==
  CASE change = "patch"    -> Plus(now, d)
    [] change = "increase" -> Plus(e, d)
    [] change = "decrease" -> Minus(e, d)

\* UPDATE of the ttl attribute.  The timer is moved only for the key equal to
\* scheduled_key_.
UpdateTtl(k, change, d) ==
  LET e == TtlChanged(storage[k].expires_at, change, d)
  IN /\ Serving
     /\ Live(k)
     /\ Schedulable(e)
     /\ storage' = Put(k, [storage[k] EXCEPT !.expires_at = e])
     /\ IF k = ScheduledKey
        THEN Dispatch(e)
        ELSE overtaken' = (overtaken \/ Overtakes(e)) /\ UNCHANGED strand
     /\ UNCHANGED <<now, threads>>

Purge(k) ==
  /\ Serving
  /\ Live(k)
  /\ storage' = Drop(k)
  /\ UNCHANGED <<now, strand, overtaken, threads>>

Command ==
  \E k \in Key :
    \/ \E w \in Worker, ttl \in Ttl : Insert(w, k, ttl) \/ SetNew(w, k, ttl)
    \/ \E ttl \in Ttl : SetAgain(k, ttl)
    \/ \E change \in Change, d \in Ttl : UpdateTtl(k, change, d)
    \/ Purge(k)

-----------------------------------------------------------------------------
(* The clock, the strand and the timer *)

Tick ==
  /\ now < MaxTime
  /\ now' = now + 1
  /\ UNCHANGED <<storage, strand, overtaken, threads>>

\* A thread executes the task at the head of the strand: schedule_timer arms
\* the timer (which cancels the wait that was pending) or calls run().
StrandTask(w) ==
  /\ pc[w] = "idle"
  /\ strandOwner = NoWorker
  /\ strand # << >>
  /\ strand' = Tail(strand)
  /\ IF Head(strand) <= now
     THEN /\ pc' = [pc EXCEPT ![w] = "lock"]
          /\ strandOwner' = w
          /\ UNCHANGED timer
     ELSE /\ timer' = Head(strand)
          /\ UNCHANGED <<pc, strandOwner>>
  /\ UNCHANGED <<now, storage, ready, mutex, gc, created, overtaken>>

\* The pending wait completes: from here on it cannot be cancelled.
TimerExpires ==
  /\ timer # Unarmed
  /\ timer + WakeLag <= now
  /\ ready < MaxReady
  /\ timer' = Unarmed
  /\ ready' = ready + 1
  /\ UNCHANGED <<now, storage, strand, strandOwner, mutex, pc, gc, created, overtaken>>

\* A thread starts the handler of a completed wait, which calls run().
TimerHandler(w) ==
  /\ pc[w] = "idle"
  /\ ready > 0
  /\ ready' = ready - 1
  /\ pc' = [pc EXCEPT ![w] = "lock"]
  /\ UNCHANGED <<now, storage, strand, strandOwner, timer, mutex, gc, created, overtaken>>

-----------------------------------------------------------------------------
(* garbage_collector_service::run *)

\* Mutants: a key is due one tick early; the grace period ends one tick early.
DueEarly == {k \in DOMAIN storage : ~storage[k].expired /\ storage[k].expires_at <= now + 1}
PastGraceInclusive ==
  {k \in DOMAIN storage : storage[k].expired /\ Minus(now, storage[k].expires_at) >= GRACE}

DueLive == {k \in DOMAIN storage : ~storage[k].expired /\ storage[k].expires_at <= now}
Upcoming == {k \in DOMAIN storage : ~storage[k].expired /\ storage[k].expires_at > now}
PastGrace ==
  {k \in DOMAIN storage : storage[k].expired /\ Minus(now, storage[k].expires_at) > GRACE}

\* std::min over a set of instants, starting from the value at hand
IsLeast(m, S) == m \in S /\ \A n \in S : m <= n

\* Mutant: run() without its scoped_lock.
ScanUnlocked(w) ==
  /\ pc[w] = "lock"
  /\ mutex' = w
  /\ pc' = [pc EXCEPT ![w] = "sweep"]
  /\ gc' = [now |-> now, to_expire |-> DueLive, to_erase |-> PastGrace, next |-> UINT64_MAX]
  /\ overtaken' = FALSE
  /\ UNCHANGED <<now, storage, strand, strandOwner, timer, ready, created>>

\* The mutex is taken, the clock is read once and every item is classified.
Scan(w) ==
  /\ pc[w] = "lock"
  /\ mutex = NoWorker
  /\ mutex' = w
  /\ pc' = [pc EXCEPT ![w] = "sweep"]
  /\ \E m \in Instant :
       /\ IsLeast(m, {UINT64_MAX} \cup {storage[k].expires_at : k \in Upcoming})
       /\ gc' = [now |-> now, to_expire |-> DueLive, to_erase |-> PastGrace, next |-> m]
  /\ overtaken' = FALSE
  /\ UNCHANGED <<now, storage, strand, strandOwner, timer, ready, created>>

\* One key of _to_expire: only its presence and its flag are looked at again.
Mark(w, k) ==
  /\ pc[w] = "sweep"
  /\ k \in gc.to_expire
  /\ gc' = [gc EXCEPT !.to_expire = @ \ {k}]
  /\ storage' = IF Live(k) THEN Put(k, [storage[k] EXCEPT !.expired = TRUE]) ELSE storage
  /\ UNCHANGED <<now, strand, strandOwner, timer, ready, mutex, pc, created, overtaken>>

\* One key of _to_erase, after every key of _to_expire.
Erase(w, k) ==
  /\ pc[w] = "sweep"
  /\ gc.to_expire = {}
  /\ k \in gc.to_erase
  /\ gc' = [gc EXCEPT !.to_erase = @ \ {k}]
  /\ storage' = IF k \in DOMAIN storage /\ storage[k].expired THEN Drop(k) ELSE storage
  /\ UNCHANGED <<now, strand, strandOwner, timer, ready, mutex, pc, created, overtaken>>

\* When the collector wants to look at an item again.
Candidate(k) ==
  IF storage[k].expired THEN Plus(storage[k].expires_at, GRACE) ELSE storage[k].expires_at

\* Mutant: the search for the next deadline skips the flagged entries.
FindNextLive(w) ==
  /\ pc[w] = "sweep"
  /\ gc.to_expire = {} /\ gc.to_erase = {}
  /\ pc' = [pc EXCEPT ![w] = "schedule"]
  /\ \E m \in Instant :
       /\ IsLeast(m, {gc.next} \cup {Candidate(k) : k \in {x \in DOMAIN storage : Live(x)}})
       /\ gc' = [gc EXCEPT !.next = m]
  /\ UNCHANGED <<now, storage, strand, strandOwner, timer, ready, mutex, created, overtaken>>

FindNext(w) ==
  /\ pc[w] = "sweep"
  /\ gc.to_expire = {} /\ gc.to_erase = {}
  /\ pc' = [pc EXCEPT ![w] = "schedule"]
  /\ \E m \in Instant :
       /\ IsLeast(m, {gc.next} \cup {Candidate(k) : k \in DOMAIN storage})
       /\ gc' = [gc EXCEPT !.next = m]
  /\ UNCHANGED <<now, storage, strand, strandOwner, timer, ready, mutex, created, overtaken>>

\* The pass returns: the mutex is released, and the strand if it was run there.
Return(w) ==
  /\ pc' = [pc EXCEPT ![w] = "idle"]
  /\ mutex' = NoWorker
  /\ gc' = NoPass
  /\ strandOwner' = IF strandOwner = w THEN NoWorker ELSE strandOwner

\* Mutant: the pass ends without arming the timer again.
RescheduleNothing(w) ==
  /\ pc[w] = "schedule"
  /\ Return(w)
  /\ UNCHANGED <<now, storage, strand, timer, ready, created, overtaken>>

\* schedule_timer at the end of run(), mutex held: nothing to schedule, a
\* deadline ahead, or a deadline that has passed, in which case schedule_timer
\* calls run() and run() locks the mutex this very thread owns.
Reschedule(w) ==
  /\ pc[w] = "schedule"
  /\ \/ gc.next = UINT64_MAX /\ Return(w) /\ UNCHANGED timer
     \/ gc.next # UINT64_MAX /\ gc.next > now /\ Return(w) /\ timer' = gc.next
     \/ /\ gc.next # UINT64_MAX /\ gc.next <= now
        /\ pc' = [pc EXCEPT ![w] = "relock"]
        /\ UNCHANGED <<timer, mutex, gc, strandOwner>>
  /\ UNCHANGED <<now, storage, strand, ready, created, overtaken>>

CollectorStep(w) ==
  \/ Scan(w)
  \/ \E k \in Key : Mark(w, k) \/ Erase(w, k)
  \/ FindNext(w)
  \/ Reschedule(w)

Next ==
  \/ Command
  \/ Tick
  \/ TimerExpires
  \/ \E w \in Worker : Walk(w) \/ StrandTask(w) \/ TimerHandler(w) \/ CollectorStep(w)

Spec == Init /\ [][Next]_vars

(***************************************************************************)
(* The server's threads keep running, the clock advances and asio delivers *)
(* completed waits and strand tasks to a free thread; clients owe nothing. *)
(***************************************************************************)
Fairness ==
  /\ WF_vars(Tick)
  /\ WF_vars(TimerExpires)
  /\ \A w \in Worker : WF_vars(Walk(w) \/ StrandTask(w) \/ TimerHandler(w) \/ CollectorStep(w))

FairSpec == Spec /\ Fairness

-----------------------------------------------------------------------------
(* Properties *)

InPass == {"sweep", "schedule", "relock"}
Stuck  == \E w \in Worker : pc[w] = "relock"

(***************************************************************************)
(* The mutex of run() does its work: the threads inside a pass are exactly *)
(* the owner of state::mutex_, so the locals of two passes never coexist,  *)
(* and the strand is only owned by a thread that is inside run().          *)
(***************************************************************************)
OneCollector ==
  /\ \A w \in Worker : pc[w] \in InPass <=> mutex = w
  /\ strandOwner # NoWorker => pc[strandOwner] \in {"lock"} \cup InPass
  /\ mutex = NoWorker => gc = NoPass

\* A creation that will dispatch its expiration whichever item it stops at.
AboutToArm(w) ==
  /\ pc[w] = "walk"
  /\ \A k \in DOMAIN storage : ~storage[k].expired /\ created[w] <= storage[k].expires_at

\* Something will still bring the collector to the store: an armed timer, a
\* completed wait, a strand task, a creation sure to dispatch one, a thread on
\* its way into run(), or a pass that has not decided that nothing is left.
CollectorPending ==
  \/ timer # Unarmed
  \/ ready > 0
  \/ strand # << >>
  \/ \E w \in Worker : pc[w] \in {"lock", "sweep"}
  \/ \E w \in Worker : pc[w] = "schedule" /\ gc.next # UINT64_MAX
  \/ \E w \in Worker : AboutToArm(w)

(***************************************************************************)
(* A non-empty store is left without a wake-up in two cases only: a pass   *)
(* is locked on its own mutex, or an expiration was lowered between the    *)
(* insertion and the comparison of a creation on another thread.  Only a   *)
(* creation that sorts before the item it meets wakes the collector        *)
(* (create_service.cpp:92-121); the others rely on the wake-up an older    *)
(* key left behind, whatever was purged, re-armed or cancelled since.      *)
(***************************************************************************)
NeverDormant == DOMAIN storage # {} => CollectorPending \/ Stuck \/ overtaken

(***************************************************************************)
(* With one pool thread the second case cannot arise: what is stored is    *)
(* awaited by the collector, or the collector is locked for good.          *)
(***************************************************************************)
AlwaysAwaited == DOMAIN storage # {} => CollectorPending \/ Stuck

\* No expiration in the store is one of the two that Schedulable excludes.
AllSchedulable == \A k \in DOMAIN storage : Schedulable(storage[k].expires_at)

\* The inductive invariant behind NeverDormant.
WakeupInv == TypeOK /\ OneCollector /\ AllSchedulable /\ NeverDormant

\* The store as KeyLifecycle sees it.
status ==
  [k \in Key |-> IF k \notin DOMAIN storage THEN "absent"
                 ELSE IF storage[k].expired THEN "expired" ELSE "live"]

Lifecycle == INSTANCE KeyLifecycle WITH status <- status

(***************************************************************************)
(* Every step of the store is at most one lifecycle step of one key: no    *)
(* command, and no pass interleaved with commands, resurrects an expired   *)
(* key, replaces a key that is there, or skips the flagged state.          *)
(***************************************************************************)
ImplementsLifecycle == Lifecycle!Spec

(***************************************************************************)
(* The collector flags a key only when its expiration has passed           *)
(* (garbage_collector_service.cpp:76-79), at the moment of the flagging.   *)
(***************************************************************************)
ExpireOnlyWhenDue ==
  [][\A k \in Key : Live(k) /\ Lifecycle!Expire(k) => storage[k].expires_at <= now]_vars

(***************************************************************************)
(* A counter stays visible to INSERT as "taken" for the whole grace period *)
(* after its expiration (garbage_collector_service.cpp:70-74).             *)
(***************************************************************************)
CounterKeepsGrace ==
  [][\A k \in Key :
       Lifecycle!Erase(k) /\ storage[k].type = "counter" => now - storage[k].expires_at > GRACE]_vars

\* The deployment with one pool thread (--threads 0): handlers never overlap.
SingleWorker == \A v, w \in Worker : v = w

\* The inductive invariant behind the two properties above when there is one
\* thread: the lists of the pass in progress are still accurate, and a flagged
\* counter is past its expiration.
PassAccurate ==
  /\ \A k \in DOMAIN storage :
       storage[k].expired /\ storage[k].type = "counter" => storage[k].expires_at <= now
  /\ \A w \in Worker : pc[w] = "sweep" =>
       /\ \A k \in gc.to_expire : Live(k) => storage[k].expires_at <= now
       /\ \A k \in gc.to_erase : k \in DOMAIN storage => storage[k].expired
       /\ \A k \in gc.to_erase : k \in DOMAIN storage /\ storage[k].type = "counter" =>
            now - storage[k].expires_at > GRACE

(***************************************************************************)
(* Once clients stop, every entry is expired and erased for good, as       *)
(* tests/features/state_management.cc:400-405 expects of its two entries.  *)
(***************************************************************************)
Drains == <>[](DOMAIN storage = {})

(***************************************************************************)
(* What can prevent it: a pass that ends with a deadline already behind    *)
(* the clock and calls run() with its mutex held, or a creation overtaken  *)
(* by an UPDATE or SET of another thread, after which nobody comes.        *)
(***************************************************************************)
DrainedOrStuck == <>[](DOMAIN storage = {} \/ Stuck \/ (overtaken /\ ~CollectorPending))
=============================================================================
