------------------------------- MODULE Pools --------------------------------
(***************************************************************************)
(* The thread-local pools of messages, composed with the outgoing queue of *)
(* a connection.  A thread takes a message from its own pool to answer a   *)
(* request; whichever thread runs on_write clears in_use_, and the thread  *)
(* that took the message finds it free in its used_ list later.  Nothing   *)
(* but in_use_ tells a pool that a message is still being written.         *)
(*                                                                         *)
(* WriteQueue numbers the answers; here answer n is carried by the message *)
(* object carrier[n], and objects are used again.                          *)
(***************************************************************************)
EXTENDS WriteQueue

CONSTANT POOL  \* messages made by prepares and by a refill, kept by fit

ASSUME PoolsAssumption == POOL \in Nat \ {0}

VARIABLES
  available,  \* available_ of each thread
  used,       \* used_ of each thread
  made,       \* objects each thread has allocated
  flagged,    \* objects whose in_use_ is set
  carrier,    \* the object of each answer
  raced       \* two writes overlapped, or the queue overwrote its front

pool_vars == <<available, used, made, flagged, carrier, raced>>

Object == Worker \X (Nat \ {0})

PoolTypeOK ==
  /\ available \in [Worker -> Seq(Object)] /\ used \in [Worker -> Seq(Object)]
  /\ \A w \in Worker : Len(available[w]) <= 2 * POOL /\ Len(used[w]) <= 2 * POOL
  /\ made \in [Worker -> Nat]
  /\ flagged \subseteq Object
  /\ carrier \in Seq(Object) /\ Len(carrier) = sent
  /\ raced \in BOOLEAN

\* n new objects of thread w.
New(w, n) == [i \in 1 .. n |-> <<w, made[w] + i>>]

\* prepares, on every thread before it runs the context.
PoolInit ==
  /\ Init
  /\ available = [w \in Worker |-> [i \in 1 .. POOL |-> <<w, i>>]]
  /\ used = [w \in Worker |-> << >>]
  /\ made = [w \in Worker |-> POOL]
  /\ flagged = {}
  /\ carrier = << >>
  /\ raced = FALSE

-----------------------------------------------------------------------------
\* Mutant: messages still in use are recycled too.
FreeAll(o) == TRUE

\* What recycle asks of a message.
Free(o) == o \notin flagged

\* circular_buffer::push_back, with the capacity that prepares sets.
PushPool(s, o) == IF Len(s) < 2 * POOL THEN Append(s, o) ELSE Append(Tail(s), o)

\* What remove_if does with the next message of used_: a free one moves to
\* available_, the others close up.
Asked(r, o) ==
  IF Free(o) THEN [available |-> PushPool(r.available, o), used |-> r.used]
             ELSE [available |-> r.available, used |-> Append(r.used, o)]

\* recycle: what is free moves from used_ to available_.
Recycled(w) ==
  LET pass[n \in 0 .. Len(used[w])] ==
        IF n = 0 THEN [available |-> available[w], used |-> << >>]
                 ELSE Asked(pass[n - 1], used[w][n])
  IN pass[Len(used[w])]

\* fit, and the refill of an empty pool.
Fitted(s) == IF Len(s) > POOL THEN SubSeq(s, 1, POOL) ELSE s
Stocked(w, s) == IF s = << >> THEN New(w, POOL) ELSE s

\* Mutant: the message handed out stays available.
TakeOneKeeps(w) ==
  LET r == Recycled(w)
      s == Stocked(w, Fitted(r.available))
      o == s[Len(s)]
  IN /\ available' = [available EXCEPT ![w] = s]
     /\ used' = [used EXCEPT ![w] = PushPool(r.used, o)]
     /\ made' = [made EXCEPT ![w] = IF r.available = << >> THEN @ + POOL ELSE @]
     /\ flagged' = flagged \cup {o}
     /\ carrier' = Append(carrier, o)

TakeOne(w) ==
  LET r == Recycled(w)
      s == Stocked(w, Fitted(r.available))
      o == s[Len(s)]
  IN /\ available' = [available EXCEPT ![w] = SubSeq(s, 1, Len(s) - 1)]
     /\ used' = [used EXCEPT ![w] = PushPool(r.used, o)]
     /\ made' = [made EXCEPT ![w] = IF r.available = << >> THEN @ + POOL ELSE @]
     /\ flagged' = flagged \cup {o}
     /\ carrier' = Append(carrier, o)

\* Thread w answers a request.
Answer(w) ==
  /\ pc[w] = "idle"
  /\ Send
  /\ TakeOne(w)
  /\ UNCHANGED raced

\* Mutant: a failed write releases the front as well.
ReleaseAlways(w) ==
  IF pc[w] = "idle" /\ pending # << >> /\ done' # done THEN flagged \ {carrier[Head(pending)]} ELSE flagged

\* What on_write leaves flagged: the front it removes is released.
Release(w) ==
  IF pc'[w] = "popped" /\ pc[w] # "popped" THEN flagged \ {carrier[Head(pending)]} ELSE flagged

\* The other steps of the queue.
Step(A) ==
  /\ A
  /\ raced' = (\/ raced
               \/ Len(inflight') + Len(done') > 1
               \/ posted' # posted /\ Len(pending) = CAPACITY)
  /\ UNCHANGED <<available, used, made, carrier>>

PoolNext ==
  \/ \E w \in Worker : Answer(w)
  \/ \E i \in DOMAIN inflight : Step(WriteCompletes(i) \/ WriteFails(i)) /\ UNCHANGED flagged
  \/ \E w \in Worker : Step(Handler(w)) /\ flagged' = Release(w)

PoolSpec == PoolInit /\ [][PoolNext]_<<vars, pool_vars>>

-----------------------------------------------------------------------------
Queued == Range(posted) \cup Range(pending)

(***************************************************************************)
(* Two answers that wait in the queue are never carried by the same        *)
(* message, and none of their messages can be recycled: take_one on one    *)
(* thread does not disturb what on_write on another has not released       *)
(* (messages_pool.cpp:38-88, connection.ipp:286-289).                      *)
(***************************************************************************)
QueuedIsReserved ==
  /\ \A m \in Queued : carrier[m] \in flagged
  /\ \A m, n \in Queued : m # n => carrier[m] # carrier[n]

(***************************************************************************)
(* A message being written is not handed out again, on any number of       *)
(* threads, as long as writes do not overlap and the queue does not        *)
(* overflow: what the peer receives is the answer that was queued.         *)
(***************************************************************************)
WrittenIsReserved ==
  ~raced => \A i \in DOMAIN inflight :
              /\ carrier[inflight[i]] \in flagged
              /\ \A m \in (inflight[i] + 1) .. sent : carrier[m] # carrier[inflight[i]]

\* Everything a thread's pool knows.
Stock(w) == available[w] \o used[w]

(***************************************************************************)
(* No message is twice in a pool or in two pools, and none that is         *)
(* available is in use, whatever recycle, fit, refills and overwritten     *)
(* fronts of the two circular buffers do.                                  *)
(***************************************************************************)
PoolsAreDisjoint ==
  /\ \A w \in Worker : IsInjective(Stock(w))
  /\ \A v, w \in Worker : v # w => Range(Stock(v)) \cap Range(Stock(w)) = {}
  /\ \A w \in Worker : \A o \in Range(available[w]) : o \notin flagged

\* Why the three hold.  A pool knows only its own messages, each once, and the
\* available ones are free.
Owned ==
  /\ \A w \in Worker : \A o \in Range(available[w]) \cup Range(used[w]) : o[1] = w /\ o[2] <= made[w]
  /\ \A o \in flagged : o[2] <= made[o[1]]
Apart ==
  \A w \in Worker :
    /\ IsInjective(available[w]) /\ IsInjective(used[w])
    /\ \A o \in Range(available[w]) : o \notin Range(used[w]) /\ o \notin flagged

\* Answers are queued in the order of their numbers, and no answer that is
\* younger than a queued one has its message.
Rising(q) == \A i, j \in DOMAIN q : i < j => q[i] < q[j]
Ascending ==
  /\ Rising(pending) /\ Rising(posted)
  /\ \A m \in Range(pending), n \in Range(posted) : m < n
  /\ \A m \in Queued : m <= sent
Reserved ==
  \A m \in Queued :
    /\ carrier[m] \in flagged
    /\ \A n \in (m + 1) .. sent : carrier[n] # carrier[m]

\* As long as writes do not overlap, the front of the queue is being written.
FrontIsWritten ==
  ~raced => /\ Len(inflight) + Len(done) <= 1
            /\ \A i \in DOMAIN inflight : pending # << >> /\ inflight[i] = pending[1]

PoolInv ==
  TypeOK /\ PoolTypeOK /\ Owned /\ Apart /\ Ascending /\ Reserved /\ FrontIsWritten
=============================================================================
