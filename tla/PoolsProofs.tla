---------------------------- MODULE PoolsProofs -----------------------------
(***************************************************************************)
(* Theorems about the outgoing queue of a connection, for every capacity   *)
(* and every number of messages, and about the pools its messages come     *)
(* from.  The queue behaves the same whatever the pools do: what is shown  *)
(* of WriteQueue holds of Pools as well.                                   *)
(***************************************************************************)
EXTENDS Pools, Loops, TLAPS, FiniteSetTheorems

LEMMA PushTyped ==
  ASSUME NEW q \in Seq(Message), Len(q) <= CAPACITY, NEW m \in Message
  PROVE  PushBack(q, m) \in Seq(Message) /\ Len(PushBack(q, m)) <= CAPACITY /\ PushBack(q, m) # << >>
  <1>1. CASE Len(q) < CAPACITY
    BY <1>1, WriteQueueAssumption DEF PushBack
  <1>2. CASE ~(Len(q) < CAPACITY)
    <2>1. q # << >>
      BY <1>2, WriteQueueAssumption
    <2>2. Tail(q) \in Seq(Message) /\ Len(Tail(q)) = Len(q) - 1
      BY <2>1
    <2>3. PushBack(q, m) = Append(Tail(q), m)
      BY <1>2 DEF PushBack
    <2> QED
      BY <2>2, <2>3, WriteQueueAssumption
  <1> QED
    BY <1>1, <1>2

LEMMA RemoveTyped ==
  ASSUME NEW S, NEW q \in Seq(S), NEW i \in DOMAIN q
  PROVE  RemoveAt(q, i) \in Seq(S) /\ Len(RemoveAt(q, i)) = Len(q) - 1
  BY DEF RemoveAt

LEMMA AppendNonEmpty ==
  ASSUME NEW S, NEW q \in Seq(S), NEW m \in S
  PROVE  Append(q, m) # << >>
  <1>1. Len(Append(q, m)) = Len(q) + 1 /\ Len(q) \in Nat
    OBVIOUS
  <1>2. Len(Append(q, m)) # 0
    BY <1>1
  <1>3. Len(<< >>) = 0
    OBVIOUS
  <1> QED
    BY <1>2, <1>3, Zenon

LEMMA QueueTypedInit == Init => TypeOK
  <1> SUFFICES ASSUME Init PROVE TypeOK
    OBVIOUS
  <1>1. open \in BOOLEAN /\ crossed \in BOOLEAN
    BY Zenon DEF Init
  <1>2. pc \in [Worker -> Where]
    BY DEF Init, Where
  <1> QED
    BY <1>1, <1>2, WriteQueueAssumption DEF Init, TypeOK, Message

LEMMA QueueTypedStep == TypeOK /\ [Next]_vars => TypeOK'
  <1> SUFFICES ASSUME TypeOK, [Next]_vars PROVE TypeOK'
    OBVIOUS
  <1> USE DEF TypeOK
  <1>1. CASE Send
    <2>1. sent + 1 \in Message
      BY DEF Message
    <2> QED
      BY <1>1, <2>1 DEF Send
  <1>2. ASSUME NEW i \in DOMAIN inflight, WriteCompletes(i) \/ WriteFails(i)
        PROVE  TypeOK'
    <2>1. inflight' \in Seq(Message)
      BY <1>2, RemoveTyped DEF WriteCompletes, WriteFails
    <2>2. inflight[i] \in Message
      OBVIOUS
    <2>3. done' \in Seq({"ok", "error"})
      <3>1. Append(done, "ok") \in Seq({"ok", "error"})
        OBVIOUS
      <3>2. Append(done, "error") \in Seq({"ok", "error"})
        OBVIOUS
      <3>3. done' = Append(done, "ok") \/ done' = Append(done, "error")
        BY <1>2, Zenon DEF WriteCompletes, WriteFails
      <3> QED
        BY <3>1, <3>2, <3>3, Zenon
    <2>4. wire' \in Seq(Message)
      <3>1. Append(wire, inflight[i]) \in Seq(Message)
        BY <2>2
      <3>2. wire' = wire \/ wire' = Append(wire, inflight[i])
        BY <1>2, Zenon DEF WriteCompletes, WriteFails
      <3> QED
        BY <3>1, <3>2, Zenon
    <2>5. UNCHANGED <<sent, posted, pending, in_use, open, pc, crossed>>
      BY <1>2 DEF WriteCompletes, WriteFails
    <2> QED
      BY <2>1, <2>3, <2>4, <2>5
  <1>3. ASSUME NEW w \in Worker, OnSend(w)
        PROVE  TypeOK'
    <2>1. Head(posted) \in Message /\ Tail(posted) \in Seq(Message)
      BY <1>3 DEF OnSend
    <2>2. crossed' \in BOOLEAN
      BY <1>3, Zenon DEF OnSend
    <2>3. pc' \in [Worker -> Where]
      BY <1>3 DEF OnSend, Where
    <2>4. pending' \in Seq(Message) /\ Len(pending') <= CAPACITY
      BY <1>3, <2>1, PushTyped DEF OnSend
    <2>5. UNCHANGED <<sent, inflight, done, wire, in_use, open>> /\ posted' = Tail(posted)
      BY <1>3 DEF OnSend
    <2> QED
      BY <2>1, <2>2, <2>3, <2>4, <2>5
  <1>4. ASSUME NEW w \in Worker, WriteNext(w)
        PROVE  TypeOK'
    <2>1. inflight' \in Seq(Message)
      <3>1. pending # << >> => Head(pending) \in Message
        OBVIOUS
      <3>2. pending # << >> => Append(inflight, Head(pending)) \in Seq(Message)
        BY <3>1
      <3> QED
        BY <1>4, <3>2, Zenon DEF WriteNext
    <2>2. crossed' \in BOOLEAN
      BY <1>4, Zenon DEF WriteNext
    <2>3. UNCHANGED <<sent, posted, pending, done, wire, in_use, open>> /\ pc' \in [Worker -> Where]
      BY <1>4 DEF WriteNext, Where
    <2> QED
      BY <2>1, <2>2, <2>3
  <1>5. ASSUME NEW w \in Worker, OnWrite(w)
        PROVE  TypeOK'
    <2>1. done' \in Seq({"ok", "error"})
      BY <1>5 DEF OnWrite
    <2>2. pending' \in Seq(Message) /\ Len(pending') <= CAPACITY
      <3>1. pending' = pending \/ (pending # << >> /\ pending' = Tail(pending))
        BY <1>5, Zenon DEF OnWrite
      <3>2. pending # << >> => Tail(pending) \in Seq(Message) /\ Len(Tail(pending)) <= CAPACITY
        BY WriteQueueAssumption
      <3> QED
        BY <3>1, <3>2, Zenon
    <2>3. UNCHANGED <<sent, posted, inflight, wire, crossed>> /\ in_use' \subseteq in_use
      BY <1>5 DEF OnWrite
    <2>4. open' \in BOOLEAN
      BY <1>5, Zenon DEF OnWrite
    <2>5. pc' \in [Worker -> Where]
      BY <1>5 DEF OnWrite, Where
    <2> QED
      BY <2>1, <2>2, <2>3, <2>4, <2>5
  <1>6. ASSUME NEW w \in Worker, OnWriteContinues(w) \/ OnSendContinues(w)
        PROVE  TypeOK'
    BY <1>6 DEF OnWriteContinues, OnSendContinues, Where
  <1>7. CASE UNCHANGED vars
    BY <1>7 DEF vars
  <1> QED
    BY <1>1, <1>2, <1>3, <1>4, <1>5, <1>6, <1>7 DEF Next, Handler

(***************************************************************************)
(* Every reachable state is well typed; in particular the circular buffer  *)
(* never exceeds its capacity, whatever clients pipeline.                  *)
(***************************************************************************)
THEOREM QueueTypeCorrect == Spec => []TypeOK
  <1> QED
    BY QueueTypedInit, QueueTypedStep, PTL DEF Spec

LEMMA NeverStalledStep == TypeOK /\ NeverStalled /\ [Next]_vars => NeverStalled'
  <1> SUFFICES ASSUME TypeOK, NeverStalled, [Next]_vars, pending' # << >>, open'
               PROVE  \/ inflight' # << >> \/ done' # << >> \/ crossed'
                      \/ \E w \in Worker : Starter(w)'
    BY DEF NeverStalled
  <1> DEFINE Moving == inflight # << >> \/ done # << >> \/ crossed \/ \E w \in Worker : Starter(w)
  <1>0. pc \in [Worker -> Where] /\ pending \in Seq(Message) /\ inflight \in Seq(Message)
        /\ done \in Seq({"ok", "error"}) /\ Len(pending) \in Nat /\ Len(pending) <= CAPACITY
    BY DEF TypeOK
  <1>1. CASE Send
    BY <1>1 DEF Send, NeverStalled, Starter
  <1>2. ASSUME NEW i \in DOMAIN inflight, WriteCompletes(i) \/ WriteFails(i)
        PROVE  done' # << >>
    <2>1. done' = Append(done, "ok") \/ done' = Append(done, "error")
      BY <1>2, Zenon DEF WriteCompletes, WriteFails
    <2> QED
      BY <1>0, <2>1
  <1>3. ASSUME NEW w \in Worker, OnSend(w)
        PROVE  Moving'
    <2>1. pc'[w] = "pushed" /\ \A v \in Worker : v # w => pc'[v] = pc[v]
      BY <1>0, <1>3 DEF OnSend
    <2>2. CASE pending = << >>
      <3>1. Len(pending') <= 1
        <4>1. Len(pending) = 0 /\ Head(posted) \in Message
          BY <1>3, <2>2 DEF OnSend, TypeOK
        <4>2. pending' = Append(pending, Head(posted))
          BY <1>3, <4>1, WriteQueueAssumption DEF OnSend, PushBack
        <4> QED
          BY <1>0, <4>1, <4>2
      <3> QED
        BY <2>1, <3>1 DEF Starter
    <2>3. CASE pending # << >>
      <3>1. Moving
        BY <1>3, <2>3 DEF NeverStalled, OnSend
      <3>2. inflight' = inflight /\ done' = done
        BY <1>3 DEF OnSend
      <3>3. crossed => crossed'
        BY <1>3, Zenon DEF OnSend
      <3>4. ASSUME NEW v \in Worker, Starter(v)
            PROVE  crossed' \/ Starter(v)'
        <4>1. CASE pc[v] = "pushed"
          BY <1>3, <4>1, Zenon DEF OnSend
        <4>2. CASE pc[v] \in {"popped", "write_next"}
          <5>1. v # w
            BY <1>3, <4>2 DEF OnSend
          <5> QED
            BY <2>1, <4>2, <5>1 DEF Starter
        <4> QED
          BY <3>4, <4>1, <4>2 DEF Starter
      <3> QED
        BY <3>1, <3>2, <3>3, <3>4, Zenon
    <2> QED
      BY <2>2, <2>3
  <1>4. ASSUME NEW w \in Worker, OnSendContinues(w)
        PROVE  Moving'
    <2>1. \A v \in Worker : v # w => pc'[v] = pc[v]
      BY <1>0, <1>4 DEF OnSendContinues
    <2>2. UNCHANGED <<inflight, done, pending, open, crossed>>
      BY <1>4 DEF OnSendContinues
    <2>3. CASE Len(pending) > 1
      <3>1. ~(Len(pending) <= 1)
        BY <1>0, <2>3
      <3>2. pc[w] = "pushed"
        BY <1>4 DEF OnSendContinues
      <3>3. \A v \in Worker : Starter(v) => Starter(v)'
        BY <2>1, <2>2, <3>1, <3>2 DEF Starter
      <3>4. Moving
        BY <2>2 DEF NeverStalled
      <3> QED
        BY <2>2, <3>3, <3>4, Zenon
    <2>4. CASE ~(Len(pending) > 1)
      <3>1. pc'[w] = "write_next"
        BY <1>0, <1>4, <2>4 DEF OnSendContinues
      <3> QED
        BY <3>1 DEF Starter
    <2> QED
      BY <2>3, <2>4
  <1>5. ASSUME NEW w \in Worker, WriteNext(w)
        PROVE  inflight' # << >>
    <2>1. pending # << >>
      BY <1>5 DEF WriteNext
    <2>2. Head(pending) \in Message /\ inflight' = Append(inflight, Head(pending))
      BY <1>0, <1>5, <2>1 DEF WriteNext
    <2> QED
      BY <1>0, <2>2, AppendNonEmpty, Zenon
  <1>6. ASSUME NEW w \in Worker, OnWrite(w)
        PROVE  Moving'
    <2>1. pc'[w] = "popped" \/ pending' = << >> \/ ~open'
      BY <1>0, <1>6 DEF OnWrite
    <2> QED
      BY <2>1 DEF Starter
  <1>7. ASSUME NEW w \in Worker, OnWriteContinues(w)
        PROVE  Moving'
    <2>1. pc'[w] = "write_next"
      BY <1>0, <1>7 DEF OnWriteContinues
    <2> QED
      BY <2>1 DEF Starter
  <1>8. CASE UNCHANGED vars
    BY <1>8 DEF vars, NeverStalled, Starter
  <1> QED
    BY <1>1, <1>2, <1>3, <1>4, <1>5, <1>6, <1>7, <1>8 DEF Next, Handler

(***************************************************************************)
(* For any number of threads and any capacity, overflow included, a        *)
(* non-empty queue of a live connection has a write on its way unless two  *)
(* on_send crossed between their push and their look at the size: the race *)
(* of on_send with on_write may duplicate or skip a message but does not   *)
(* stop the queue.                                                         *)
(***************************************************************************)
THEOREM QueueNeverStalls == Spec => []NeverStalled
  <1>1. Init => NeverStalled
    BY DEF Init, NeverStalled
  <1> QED
    BY <1>1, NeverStalledStep, QueueTypeCorrect, PTL DEF Spec

-----------------------------------------------------------------------------
(***************************************************************************)
(* One thread and a window below the capacity: the queue neither           *)
(* overflows nor has two writes at a time.                                 *)
(***************************************************************************)
LEMMA EmptyIsZero ==
  ASSUME NEW S, NEW q \in Seq(S)
  PROVE  q = << >> <=> Len(q) = 0
  OBVIOUS

LEMMA AppendConsecutive ==
  ASSUME NEW q \in Seq(Message), NEW c \in Nat, \A i \in DOMAIN q : q[i] = c + i,
         NEW m \in Message, m = c + Len(q) + 1
  PROVE  \A i \in DOMAIN Append(q, m) : Append(q, m)[i] = c + i
  <1> SUFFICES ASSUME NEW i \in DOMAIN Append(q, m) PROVE Append(q, m)[i] = c + i
    OBVIOUS
  <1>1. i \in 1 .. Len(q) + 1
    OBVIOUS
  <1>2. CASE i = Len(q) + 1
    BY <1>2
  <1>3. CASE i \in 1 .. Len(q)
    BY <1>3
  <1> QED
    BY <1>1, <1>2, <1>3

LEMMA TailConsecutive ==
  ASSUME NEW q \in Seq(Message), NEW c \in Nat, \A i \in DOMAIN q : q[i] = c + i, q # << >>
  PROVE  Head(q) = c + 1 /\ \A i \in DOMAIN Tail(q) : Tail(q)[i] = c + 1 + i
  <1>1. Len(q) > 0 /\ Len(q) \in Nat
    OBVIOUS
  <1>2. Head(q) = q[1] /\ 1 \in DOMAIN q
    BY <1>1
  <1>3. ASSUME NEW i \in DOMAIN Tail(q)
        PROVE  Tail(q)[i] = c + 1 + i
    <2>1. i \in 1 .. Len(q) - 1
      BY <1>1
    <2>2. Tail(q)[i] = q[i + 1] /\ i + 1 \in DOMAIN q
      BY <1>1, <2>1
    <2> QED
      BY <2>1, <2>2
  <1> QED
    BY <1>2, <1>3

LEMMA AtMostOne ==
  ASSUME NEW a \in Nat, NEW b \in Nat, a + b <= 1
  PROVE  (a = 0 \/ (a = 1 /\ b = 0)) /\ (b = 0 \/ (b = 1 /\ a = 0))
  OBVIOUS

\* The sizes of the queues are numbers, and so is what has left them.
LEMMA Sizes ==
  ASSUME WriteInv
  PROVE  /\ Len(posted) \in Nat /\ Len(pending) \in Nat /\ Len(wire) \in Nat
         /\ Len(inflight) \in Nat /\ Len(done) \in Nat
         /\ Popped \in Nat /\ sent = Popped + Len(pending) + Len(posted)
         /\ Len(inflight) = 0 \/ (Len(inflight) = 1 /\ Len(done) = 0)
         /\ Len(done) = 0 \/ (Len(done) = 1 /\ Len(inflight) = 0)
  <1>1. /\ Len(posted) \in Nat /\ Len(pending) \in Nat /\ Len(wire) \in Nat
        /\ Len(inflight) \in Nat /\ Len(done) \in Nat /\ sent \in Nat
    BY DEF WriteInv, TypeOK
  <1>2. Popped >= 0
    BY DEF WriteInv, Numbered
  <1>3. Len(inflight) + Len(done) <= 1
    BY DEF WriteInv, OneWrite
  <1> QED
    <2>1. Popped \in Nat /\ sent = Popped + Len(pending) + Len(posted)
      BY <1>1, <1>2 DEF Popped
    <2>2. /\ Len(inflight) = 0 \/ (Len(inflight) = 1 /\ Len(done) = 0)
          /\ Len(done) = 0 \/ (Len(done) = 1 /\ Len(inflight) = 0)
      BY <1>1, <1>3, AtMostOne, Zenon
    <2> QED
      BY <1>1, <2>1, <2>2, Zenon

LEMMA SendInv ==
  ASSUME WriteInv, Send, TypeOK'
  PROVE  WriteInv'
  <1> USE DEF WriteInv, Send, TypeOK
  <1>1. Popped' = Popped /\ Len(posted') = Len(posted) + 1
    BY DEF Popped
  <1>2. Numbered'
    <2>1. sent = (Popped + Len(pending)) + Len(posted) /\ sent + 1 \in Message
      BY Sizes DEF Message
    <2>2. \A i \in DOMAIN posted' : posted'[i] = Popped' + Len(pending') + i
      <3> DEFINE c == Popped + Len(pending)
      <3>1. c \in Nat /\ posted \in Seq(Message)
        BY Sizes
      <3>2. \A i \in DOMAIN posted : posted[i] = c + i
        BY DEF Numbered
      <3>3. sent + 1 = c + Len(posted) + 1
        BY <2>1
      <3>4. posted' = Append(posted, sent + 1) /\ Popped' + Len(pending') = c
        BY <1>1
      <3> HIDE DEF c, WriteInv, Send, TypeOK
      <3>5. \A i \in DOMAIN Append(posted, sent + 1) : Append(posted, sent + 1)[i] = c + i
        BY <2>1, <3>1, <3>2, <3>3, AppendConsecutive, Zenon
      <3> QED
        BY <3>4, <3>5
    <2>3. in_use' = (Popped' + 1) .. sent'
      <3>1. in_use = (Popped + 1) .. sent
        BY DEF Numbered
      <3>2. Popped \in Nat /\ Popped <= sent /\ sent \in Nat
        BY Sizes
      <3>3. (Popped + 1) .. (sent + 1) = ((Popped + 1) .. sent) \cup {sent + 1}
        BY <3>2
      <3> QED
        BY <1>1, <3>1, <3>3
    <2>4. sent' - Len(wire') <= WINDOW
      BY WriteQueueAssumption DEF Numbered
    <2> QED
      BY <1>1, <2>2, <2>3, <2>4 DEF Numbered, AnswersInOrder
  <1>3. OneWrite'
    BY <1>1 DEF OneWrite, Starter
  <1> QED
    BY <1>2, <1>3

LEMMA OnSendInv ==
  ASSUME SingleWorker, WINDOW < CAPACITY, WriteInv, TypeOK',
         NEW w \in Worker, OnSend(w)
  PROVE  WriteInv'
  <1> USE DEF WriteInv, TypeOK
  <1>1. posted # << >> /\ Len(posted) > 0 /\ Len(posted') = Len(posted) - 1
    BY DEF OnSend
  <1>2. Len(pending) < CAPACITY
    <2>1. Popped \in Nat /\ Len(wire) <= Popped + 1
      BY DEF Popped, Numbered, OneWrite
    <2>2. sent - Len(wire) <= WINDOW
      BY DEF Numbered
    <2> QED
      BY <1>1, <2>1, <2>2, WriteQueueAssumption DEF Popped
  <1>3. pending' = Append(pending, Head(posted))
    BY <1>2 DEF OnSend, PushBack
  <1>0. Head(posted) \in Message
    BY <1>1
  <1>4. Len(pending') = Len(pending) + 1 /\ Popped' = Popped
    <2>1. Len(pending') = Len(pending) + 1
      BY <1>0, <1>3
    <2>2. sent' = sent
      BY DEF OnSend
    <2> QED
      BY <1>1, <2>1, <2>2 DEF Popped
  <1>5. Numbered'
    <2>1. Popped \in Nat /\ Popped + Len(pending) \in Nat
      BY Sizes
    <2>2. /\ Head(posted) = Popped + Len(pending) + 1
          /\ \A i \in DOMAIN Tail(posted) : Tail(posted)[i] = (Popped + Len(pending)) + 1 + i
      <3>1. \A i \in DOMAIN posted : posted[i] = (Popped + Len(pending)) + i
        BY DEF Numbered
      <3>2. posted \in Seq(Message)
        OBVIOUS
      <3> QED
        BY <1>1, <2>1, <3>1, <3>2, TailConsecutive, Zenon
    <2>3. \A i \in DOMAIN pending' : pending'[i] = Popped' + i
      <3>1. \A i \in DOMAIN pending : pending[i] = Popped + i
        BY DEF Numbered
      <3>2. pending \in Seq(Message)
        OBVIOUS
      <3>3. \A i \in DOMAIN Append(pending, Head(posted)) :
              Append(pending, Head(posted))[i] = Popped + i
        BY <1>0, <2>1, <2>2, <3>1, <3>2, AppendConsecutive, Zenon
      <3> QED
        BY <1>3, <1>4, <3>3, Zenon
    <2>4. \A i \in DOMAIN posted' : posted'[i] = Popped' + Len(pending') + i
      <3>1. posted' = Tail(posted) /\ Popped' + Len(pending') = (Popped + Len(pending)) + 1
        <4>1. Popped \in Nat /\ Len(pending) \in Nat
          BY Sizes, Zenon
        <4>2. posted' = Tail(posted)
          BY DEF OnSend
        <4> QED
          BY <1>4, <4>1, <4>2
      <3> QED
        BY <2>2, <3>1
    <2> QED
      BY <1>4, <2>1, <2>3, <2>4 DEF Numbered, AnswersInOrder, OnSend
  <1>6. OneWrite'
    <2>1. pending' # << >>
      BY <1>4
    <2>2. UNCHANGED <<inflight, done, wire, open>>
      BY DEF OnSend
    <2>3. \A v \in Worker : pc[v] = "idle" /\ ~Starter(v) /\ pc'[v] = "pushed"
      BY DEF SingleWorker, OnSend, Starter
    <2>4. Len(pending) \in Nat
      OBVIOUS
    <2>5. CASE pending = << >>
      <3>1. open /\ Len(inflight) = 0 /\ Len(done) = 0
        <4>1. (Len(inflight) = 0 \/ Len(inflight) = 1) /\ (Len(done) = 0 \/ Len(done) = 1)
          BY Sizes, Zenon
        <4>2. open /\ Len(inflight) # 1 /\ Len(done) # 1
          BY <2>5, Zenon DEF OneWrite
        <4> QED
          BY <4>1, <4>2
      <3>2. Len(pending') = 1
        BY <1>4, <2>5, EmptyIsZero
      <3>3. \A v \in Worker : Starter(v)'
        BY <2>3, <3>2 DEF Starter
      <3> QED
        BY <1>4, <2>1, <2>2, <2>3, <3>1, <3>3 DEF OneWrite
    <2>6. CASE pending # << >>
      <3>1. Len(pending) # 0
        BY <2>6, EmptyIsZero
      <3>2. ~(Len(pending') <= 1)
        BY <1>4, <2>4, <3>1
      <3>3. \A v \in Worker : ~Starter(v)'
        BY <2>3, <3>2 DEF Starter
      <3> QED
        BY <1>4, <2>1, <2>2, <2>3, <2>6, <3>3 DEF OneWrite
    <2> QED
      BY <2>5, <2>6
  <1> QED
    BY <1>5, <1>6

LEMMA SendContinuesInv ==
  ASSUME SingleWorker, WriteInv, TypeOK', NEW w \in Worker, OnSendContinues(w)
  PROVE  WriteInv'
  <1> USE DEF WriteInv, TypeOK
  <1>1. /\ UNCHANGED <<sent, posted, pending, inflight, done, wire, in_use, open>> /\ Popped' = Popped
        /\ pc[w] = "pushed" /\ pending # << >> /\ Len(pending) \in Nat
    BY DEF OnSendContinues, Popped, OneWrite
  <1>2. \A v \in Worker : pc[v] = "pushed" /\ pc'[v] = IF Len(pending) > 1 THEN "idle" ELSE "write_next"
    BY DEF SingleWorker, OnSendContinues
  <1>3. \A v \in Worker : Starter(v) <=> Starter(v)'
    <2>1. Len(pending) > 1 <=> ~(Len(pending) <= 1)
      BY <1>1
    <2> QED
      BY <1>1, <1>2, <2>1 DEF Starter
  <1>4. Numbered'
    BY <1>1 DEF Numbered, AnswersInOrder
  <1>5. OneWrite'
    BY <1>1, <1>2, <1>3 DEF OneWrite
  <1> QED
    BY <1>4, <1>5

LEMMA WriteNextInv ==
  ASSUME SingleWorker, WriteInv, TypeOK', NEW w \in Worker, WriteNext(w)
  PROVE  WriteInv'
  <1> USE DEF WriteInv, TypeOK
  <1>1. pending # << >> /\ Len(inflight) = 0 /\ Len(done) = 0 /\ open
    BY DEF OneWrite, WriteNext, Starter
  <1>2. Head(pending) = Popped + 1
    BY <1>1 DEF Numbered
  <1>3. inflight' = Append(inflight, Head(pending))
    BY <1>1 DEF WriteNext
  <1>4. Len(inflight') = 1 /\ inflight'[1] = Popped + 1
    BY <1>1, <1>2, <1>3
  <1>5. UNCHANGED <<sent, posted, pending, done, wire, in_use, open>> /\ Popped' = Popped
    BY DEF WriteNext, Popped
  <1>6. \A v \in Worker : pc'[v] = "idle"
    BY DEF SingleWorker, WriteNext
  <1>7. Numbered'
    BY <1>5 DEF Numbered, AnswersInOrder
  <1>8. OneWrite'
    BY <1>1, <1>4, <1>5, <1>6 DEF OneWrite, Starter
  <1> QED
    BY <1>7, <1>8

LEMMA CompletionInv ==
  ASSUME WriteInv, TypeOK', NEW i \in DOMAIN inflight, WriteCompletes(i) \/ WriteFails(i)
  PROVE  WriteInv'
  <1> USE DEF WriteInv, TypeOK
  <1>1. Len(inflight) = 1 /\ i = 1 /\ Len(done) = 0
    <2>1. i \in 1 .. Len(inflight)
      OBVIOUS
    <2>2. Len(inflight) = 0 \/ (Len(inflight) = 1 /\ Len(done) = 0)
      BY Sizes, Zenon
    <2> QED
      BY <2>1, <2>2
  <1>2. pending # << >> /\ inflight[i] = Popped + 1 /\ Len(wire) = Popped
    BY <1>1 DEF OneWrite
  <1>3. Len(inflight') = 0
    <2>1. inflight' = RemoveAt(inflight, i) /\ inflight \in Seq(Message)
      BY DEF WriteCompletes, WriteFails
    <2>2. Len(inflight') = Len(inflight) - 1
      BY <2>1, RemoveTyped, Zenon
    <2> QED
      BY <1>1, <2>2
  <1>4. open /\ UNCHANGED <<sent, posted, pending, in_use, open, pc>> /\ Popped' = Popped
    BY <1>1 DEF OneWrite, WriteCompletes, WriteFails, Popped
  <1>5. CASE WriteCompletes(i)
    <2>1. done' = Append(done, "ok") /\ wire' = Append(wire, Popped + 1)
      BY <1>2, <1>5 DEF WriteCompletes
    <2>2. Len(done') = 1 /\ done'[1] = "ok" /\ Len(wire') = Popped + 1
      BY <1>1, <1>2, <2>1
    <2>3. AnswersInOrder'
      <3>1. \A k \in DOMAIN wire : wire[k] = 0 + k
        BY DEF Numbered, AnswersInOrder
      <3>2. Popped + 1 \in Message /\ Popped + 1 = 0 + Len(wire) + 1
        <4>1. Popped \in Nat
          BY Sizes, Zenon
        <4> QED
          BY <1>2, <4>1 DEF Message
      <3>3. \A k \in DOMAIN wire' : wire'[k] = 0 + k
        BY <2>1, <3>1, <3>2, AppendConsecutive
      <3> QED
        BY <3>3 DEF AnswersInOrder
    <2>4. Numbered'
      BY <1>2, <1>4, <2>2, <2>3, WriteQueueAssumption DEF Numbered
    <2>5. OneWrite'
      BY <1>1, <1>2, <1>3, <1>4, <2>2 DEF OneWrite, Starter
    <2> QED
      BY <2>4, <2>5
  <1>6. CASE WriteFails(i)
    <2>1. done' = Append(done, "error") /\ wire' = wire
      BY <1>6 DEF WriteFails
    <2>2. Len(done') = 1 /\ done'[1] # "ok"
      BY <1>1, <2>1
    <2>3. Numbered'
      BY <1>4, <2>1 DEF Numbered, AnswersInOrder
    <2>4. OneWrite'
      BY <1>1, <1>2, <1>3, <1>4, <2>1, <2>2 DEF OneWrite, Starter
    <2> QED
      BY <2>3, <2>4
  <1> QED
    BY <1>5, <1>6

LEMMA OnWriteInv ==
  ASSUME SingleWorker, WriteInv, TypeOK', NEW w \in Worker, OnWrite(w)
  PROVE  WriteInv'
  <1> USE DEF WriteInv, TypeOK
  <1>1. done # << >> /\ Len(done) = 1 /\ Len(inflight) = 0
    <2>1. done # << >>
      BY DEF OnWrite
    <2>2. Len(done) # 0
      BY <2>1, EmptyIsZero
    <2>3. Len(done) = 0 \/ (Len(done) = 1 /\ Len(inflight) = 0)
      BY Sizes, Zenon
    <2> QED
      BY <2>1, <2>2, <2>3
  <1>2. Head(done) = done[1] /\ pending # << >> /\ open
    BY <1>1 DEF OneWrite
  <1>3. Len(done') = 0
    BY <1>1 DEF OnWrite
  <1>4. UNCHANGED <<sent, posted, inflight, wire>>
    BY DEF OnWrite
  <1>5. CASE Head(done) = "error"
    <2>1. UNCHANGED <<pending, in_use, pc>> /\ open' = FALSE
      BY <1>5 DEF OnWrite
    <2>2. \A v \in Worker : pc'[v] = "idle"
      BY <2>1 DEF SingleWorker, OnWrite
    <2>3. Popped' = Popped
      BY <1>4, <2>1 DEF Popped
    <2>4. Numbered'
      BY <1>4, <2>1, <2>3 DEF Numbered, AnswersInOrder
    <2>5. Len(wire) = Popped
      BY <1>2, <1>5 DEF OneWrite
    <2>6. OneWrite'
      BY <1>1, <1>2, <1>3, <1>4, <2>1, <2>2, <2>3, <2>5 DEF OneWrite, Starter
    <2> QED
      BY <2>4, <2>6
  <1>6. CASE Head(done) = "ok"
    <2>1. pending' = Tail(pending) /\ in_use' = in_use \ {Head(pending)} /\ open' = open
      BY <1>2, <1>6 DEF OnWrite
    <2>2. pc' = [pc EXCEPT ![w] = "popped"]
      BY <1>2, <1>6 DEF OnWrite
    <2>3. Len(pending') = Len(pending) - 1 /\ Len(pending) > 0
      BY <1>2, <2>1
    <2>4. Popped' = Popped + 1 /\ Popped \in Nat
      BY <1>4, <2>3 DEF Popped, Numbered
    <2>5. Numbered'
      <3>1. Head(pending) = Popped + 1
        BY <1>2 DEF Numbered
      <3>2. \A i \in DOMAIN pending' : pending'[i] = Popped' + i
        <4>1. \A i \in DOMAIN pending : pending[i] = Popped + i
          BY DEF Numbered
        <4> QED
          BY <1>2, <2>1, <2>4, <4>1, TailConsecutive
      <3>3. \A i \in DOMAIN posted' : posted'[i] = Popped' + Len(pending') + i
        BY <1>4, <2>3, <2>4 DEF Numbered
      <3>4. in_use' = (Popped' + 1) .. sent'
        BY <1>4, <2>1, <2>4, <3>1 DEF Numbered
      <3> QED
        BY <1>4, <2>4, <3>2, <3>3, <3>4 DEF Numbered, AnswersInOrder
    <2>6. Len(wire) = Popped + 1
      BY <1>1, <1>2, <1>6 DEF OneWrite
    <2>7. \A v \in Worker : pc'[v] = "popped"
      BY <2>2 DEF SingleWorker
    <2>8. OneWrite'
      BY <1>1, <1>2, <1>3, <1>4, <2>1, <2>4, <2>6, <2>7 DEF OneWrite, Starter
    <2> QED
      BY <2>5, <2>8
  <1> QED
    BY <1>5, <1>6 DEF OnWrite

LEMMA ContinueInv ==
  ASSUME SingleWorker, WriteInv, TypeOK', NEW w \in Worker, OnWriteContinues(w)
  PROVE  WriteInv'
  <1> USE DEF WriteInv, TypeOK
  <1>1. Len(inflight) = 0 /\ Len(done) = 0 /\ open
    BY DEF OneWrite, OnWriteContinues, Starter
  <1>2. UNCHANGED <<sent, posted, pending, inflight, done, wire, in_use, open>> /\ Popped' = Popped
    BY DEF OnWriteContinues, Popped
  <1>3. \A v \in Worker : pc'[v] = IF pending = << >> THEN "idle" ELSE "write_next"
    BY DEF SingleWorker, OnWriteContinues
  <1>4. Numbered'
    BY <1>2 DEF Numbered, AnswersInOrder
  <1>5. OneWrite'
    BY <1>1, <1>2, <1>3 DEF OneWrite, Starter
  <1> QED
    BY <1>4, <1>5

LEMMA WriteInvStep ==
  ASSUME SingleWorker, WINDOW < CAPACITY
  PROVE  WriteInv /\ [Next]_vars => WriteInv'
  <1> SUFFICES ASSUME WriteInv, [Next]_vars PROVE WriteInv'
    OBVIOUS
  <1>1. TypeOK'
    BY QueueTypedStep DEF WriteInv
  <1>2. CASE UNCHANGED vars
    BY <1>2 DEF vars, WriteInv, TypeOK, Numbered, OneWrite, AnswersInOrder, Popped, Starter
  <1> QED
    BY <1>1, <1>2, SendInv, OnSendInv, SendContinuesInv, WriteNextInv, CompletionInv, OnWriteInv, ContinueInv
    DEF Next, Handler

LEMMA WriteInvInit == Init => WriteInv
  <1> SUFFICES ASSUME Init PROVE WriteInv
    OBVIOUS
  <1>1. TypeOK
    BY QueueTypedInit
  <1>2. Len(posted) = 0 /\ Len(pending) = 0 /\ Len(inflight) = 0 /\ Len(done) = 0 /\ Len(wire) = 0
    BY DEF Init
  <1>3. Popped = 0
    <2>1. sent = 0
      BY DEF Init
    <2> QED
      BY <1>2, <2>1 DEF Popped
  <1>4. Numbered
    BY <1>2, <1>3, WriteQueueAssumption DEF Init, Numbered, AnswersInOrder
  <1>5. OneWrite
    BY <1>2, <1>3 DEF Init, OneWrite, Starter
  <1> QED
    BY <1>1, <1>4, <1>5 DEF WriteInv

(***************************************************************************)
(* With one pool thread and clients that keep fewer unanswered requests    *)
(* than pending_writes_ holds, the peer receives the answers in the order  *)
(* of its requests, each once and none skipped, whenever on_send and       *)
(* on_write run and whether or not writes fail                             *)
(* (connection.ipp:266-314).                                               *)
(***************************************************************************)
THEOREM SingleWorkerAnswersInOrder ==
  ASSUME SingleWorker, WINDOW < CAPACITY
  PROVE  Spec => []AnswersInOrder
  <1>1. WriteInv => AnswersInOrder
    BY DEF WriteInv, Numbered
  <1> QED
    BY <1>1, WriteInvInit, WriteInvStep, PTL DEF Spec

(***************************************************************************)
(* Under the same conditions a message whose write is in flight has        *)
(* in_use_ set, so that no pool hands out the buffers the kernel is        *)
(* reading: the front that on_write releases is the message just written   *)
(* (connection.ipp:286-289).                                               *)
(***************************************************************************)
THEOREM SingleWorkerKeepsBuffers ==
  ASSUME SingleWorker, WINDOW < CAPACITY
  PROVE  Spec => []InFlightIsInUse
  <1>1. WriteInv => InFlightIsInUse
    <2> SUFFICES ASSUME WriteInv, NEW i \in DOMAIN inflight PROVE inflight[i] \in in_use
      BY DEF InFlightIsInUse
    <2> USE DEF WriteInv, TypeOK
    <2>1. Len(inflight) = 1 /\ i = 1
      <3>1. i \in 1 .. Len(inflight)
        OBVIOUS
      <3>2. Len(inflight) \in Nat /\ (Len(inflight) = 0 \/ (Len(inflight) = 1 /\ Len(done) = 0))
        BY Sizes, Zenon
      <3> QED
        BY <3>1, <3>2
    <2>2. pending # << >> /\ inflight[i] = Popped + 1
      BY <2>1 DEF OneWrite
    <2>3. Popped + 1 <= sent /\ Popped \in Nat
      <3>1. Len(pending) # 0
        BY <2>2, EmptyIsZero
      <3> QED
        BY <3>1, Sizes
    <2> QED
      BY <2>2, <2>3 DEF Numbered
  <1> QED
    BY <1>1, WriteInvInit, WriteInvStep, PTL DEF Spec

-----------------------------------------------------------------------------
\* A step of the pools is one of the queue, or leaves it alone.
LEMMA PoolStepIsStep == [PoolNext]_<<vars, pool_vars>> => [Next]_vars
  <1> SUFFICES ASSUME [PoolNext]_<<vars, pool_vars>> PROVE [Next]_vars
    OBVIOUS
  <1>1. ASSUME NEW w \in Worker, Answer(w)
        PROVE  Next
    BY <1>1 DEF Answer, Next
  <1>2. ASSUME NEW i \in DOMAIN inflight, Step(WriteCompletes(i) \/ WriteFails(i))
        PROVE  Next
    BY <1>2 DEF Step, Next
  <1>3. ASSUME NEW w \in Worker, Step(Handler(w))
        PROVE  Next
    BY <1>3 DEF Step, Next
  <1> QED
    BY <1>1, <1>2, <1>3 DEF PoolNext

(***************************************************************************)
(* Taking a message from a pool and releasing one neither delay nor        *)
(* reorder what send(), on_send and on_write do with the queue             *)
(* (connection.ipp:266-314): Pools implements WriteQueue.                  *)
(***************************************************************************)
THEOREM PoolsImplementQueue == PoolSpec => Spec
  <1>1. PoolInit => Init
    BY DEF PoolInit
  <1> QED
    BY <1>1, PoolStepIsStep, PTL DEF PoolSpec, Spec

(***************************************************************************)
(* A non-empty queue of a live connection has a write on its way, two      *)
(* crossing on_send apart, with pools of any size that other threads       *)
(* recycle meanwhile (connection.ipp:291 and :309-314).                    *)
(***************************************************************************)
THEOREM PoolsNeverStall == PoolSpec => []NeverStalled
  BY PoolsImplementQueue, QueueNeverStalls, PTL

-----------------------------------------------------------------------------
(* What recycle leaves *)

\* The state of the loop of recycle after n messages of used_.
Halfway(w, n, r) ==
  /\ r \in [available : Seq(Object), used : Seq(Object)]
  /\ Len(r.available) <= 2 * POOL /\ Len(r.used) <= n
  /\ IsInjective(r.available) /\ IsInjective(r.used)
  /\ \A o \in Range(r.available) :
       /\ o \notin flagged
       /\ o \in Range(available[w]) \/ \E i \in 1 .. n : o = used[w][i]
  /\ \A o \in Range(r.used) : o \in flagged /\ \E i \in 1 .. n : o = used[w][i]

LEMMA AppendOnce ==
  ASSUME NEW X, NEW s \in Seq(X), IsInjective(s), NEW o \in X, o \notin Range(s)
  PROVE  /\ IsInjective(Append(s, o))
         /\ Range(Append(s, o)) = Range(s) \cup {o}
  <1>1. /\ Append(s, o) \in Seq(X) /\ Len(Append(s, o)) = Len(s) + 1
        /\ \A i \in 1 .. Len(s) : Append(s, o)[i] = s[i]
        /\ Append(s, o)[Len(s) + 1] = o
    OBVIOUS
  <1>2. DOMAIN s = 1 .. Len(s) /\ DOMAIN Append(s, o) = 1 .. (Len(s) + 1) /\ Len(s) \in Nat
    OBVIOUS
  <1>3. \A i \in 1 .. Len(s) : s[i] # o
    BY <1>2 DEF Range
  <1>4. IsInjective(Append(s, o))
    <2> SUFFICES ASSUME NEW i \in 1 .. (Len(s) + 1), NEW j \in 1 .. (Len(s) + 1),
                        Append(s, o)[i] = Append(s, o)[j]
                 PROVE  i = j
      BY <1>2 DEF IsInjective
    <2>1. i \in 1 .. Len(s) \/ i = Len(s) + 1
      BY <1>2
    <2>2. j \in 1 .. Len(s) \/ j = Len(s) + 1
      BY <1>2
    <2> QED
      BY <1>1, <1>2, <1>3, <2>1, <2>2 DEF IsInjective
  <1>5. Range(Append(s, o)) = Range(s) \cup {o}
    <2>1. 1 .. (Len(s) + 1) = (1 .. Len(s)) \cup {Len(s) + 1}
      BY <1>2
    <2> QED
      BY <1>1, <1>2, <2>1 DEF Range
  <1> QED
    BY <1>4, <1>5

LEMMA TailOnce ==
  ASSUME NEW X, NEW s \in Seq(X), IsInjective(s), s # << >>
  PROVE  /\ Tail(s) \in Seq(X) /\ Len(Tail(s)) = Len(s) - 1
         /\ IsInjective(Tail(s)) /\ Range(Tail(s)) \subseteq Range(s)
  <1>1. /\ Tail(s) \in Seq(X) /\ Len(Tail(s)) = Len(s) - 1
        /\ \A i \in 1 .. (Len(s) - 1) : Tail(s)[i] = s[i + 1]
    OBVIOUS
  <1>2. DOMAIN s = 1 .. Len(s) /\ DOMAIN Tail(s) = 1 .. (Len(s) - 1) /\ Len(s) \in Nat
    BY <1>1
  <1>3. \A i \in 1 .. (Len(s) - 1) : i + 1 \in 1 .. Len(s)
    BY <1>2
  <1>4. IsInjective(Tail(s))
    <2> SUFFICES ASSUME NEW i \in 1 .. (Len(s) - 1), NEW j \in 1 .. (Len(s) - 1),
                        Tail(s)[i] = Tail(s)[j]
                 PROVE  i = j
      BY <1>2 DEF IsInjective
    <2>1. s[i + 1] = s[j + 1]
      BY <1>1
    <2>2. i + 1 = j + 1
      BY <1>2, <1>3, <2>1 DEF IsInjective
    <2> QED
      BY <2>2
  <1>5. Range(Tail(s)) \subseteq Range(s)
    BY <1>1, <1>2, <1>3 DEF Range
  <1> QED
    BY <1>1, <1>4, <1>5

LEMMA PushPoolKeeps ==
  ASSUME NEW s \in Seq(Object), Len(s) <= 2 * POOL, IsInjective(s), NEW o \in Object, o \notin Range(s)
  PROVE  /\ PushPool(s, o) \in Seq(Object) /\ Len(PushPool(s, o)) <= 2 * POOL
         /\ IsInjective(PushPool(s, o)) /\ Range(PushPool(s, o)) \subseteq Range(s) \cup {o}
         /\ o \in Range(PushPool(s, o))
  <1>1. CASE Len(s) < 2 * POOL
    <2>1. PushPool(s, o) = Append(s, o)
      BY <1>1 DEF PushPool
    <2>2. Append(s, o) \in Seq(Object) /\ Len(Append(s, o)) <= 2 * POOL
      BY <1>1, PoolsAssumption
    <2> QED
      BY <2>1, <2>2, AppendOnce
  <1>2. CASE ~(Len(s) < 2 * POOL)
    <2>1. PushPool(s, o) = Append(Tail(s), o)
      BY <1>2 DEF PushPool
    <2>2. s # << >>
      BY <1>2, PoolsAssumption
    <2>3. /\ Tail(s) \in Seq(Object) /\ Len(Tail(s)) = Len(s) - 1
          /\ IsInjective(Tail(s)) /\ Range(Tail(s)) \subseteq Range(s)
      BY <2>2, TailOnce
    <2>4. Append(Tail(s), o) \in Seq(Object) /\ Len(Append(Tail(s), o)) <= 2 * POOL
      BY <2>3, PoolsAssumption
    <2>5. /\ IsInjective(Append(Tail(s), o))
          /\ Range(Append(Tail(s), o)) = Range(Tail(s)) \cup {o}
      <3>1. o \notin Range(Tail(s))
        BY <2>3, Zenon
      <3> QED
        BY <2>3, <3>1, AppendOnce, Zenon
    <2> QED
      BY <2>1, <2>3, <2>4, <2>5
  <1> QED
    BY <1>1, <1>2

\* One round of the loop.
LEMMA AskedStep ==
  ASSUME PoolTypeOK, Apart, NEW w \in Worker, NEW n \in Nat, n < Len(used[w]),
         NEW r, Halfway(w, n, r)
  PROVE  Halfway(w, n + 1, Asked(r, used[w][n + 1]))
  <1> DEFINE o == used[w][n + 1]
  <1>1. used[w] \in Seq(Object) /\ n + 1 \in 1 .. Len(used[w]) /\ DOMAIN used[w] = 1 .. Len(used[w])
    BY DEF PoolTypeOK
  <1>2. o \in Object
    BY <1>1
  <1>3. /\ r.available \in Seq(Object) /\ r.used \in Seq(Object)
        /\ Len(r.available) <= 2 * POOL /\ Len(r.used) <= n
        /\ IsInjective(r.available) /\ IsInjective(r.used)
    BY DEF Halfway
  <1>4. \A i \in 1 .. n : i \in DOMAIN used[w] /\ i # n + 1 /\ i \in 1 .. (n + 1)
    BY <1>1
  <1>5. \A i \in 1 .. n : used[w][i] # o
    BY <1>1, <1>4 DEF Apart, IsInjective
  <1>6. o \in Range(used[w])
    BY <1>1 DEF Range
  <1>7. o \notin Range(r.available) /\ o \notin Range(r.used)
    BY <1>5, <1>6 DEF Halfway, Apart
  <1>8. n + 1 \in 1 .. (n + 1)
    OBVIOUS
  <1> HIDE DEF o
  <1>9. CASE Free(o)
    <2> DEFINE q == PushPool(r.available, o)
    <2>1. Asked(r, o) = [available |-> q, used |-> r.used]
      BY <1>9 DEF Asked
    <2>2. /\ q \in Seq(Object) /\ Len(q) <= 2 * POOL
          /\ IsInjective(q) /\ Range(q) \subseteq Range(r.available) \cup {o}
      BY <1>2, <1>3, <1>7, PushPoolKeeps
    <2>3. o \notin flagged
      BY <1>9 DEF Free
    <2>4. Len(r.used) <= n + 1
      BY <1>3
    <2> HIDE DEF q
    <2>5. \A x \in Range(q) : /\ x \notin flagged
                              /\ x \in Range(available[w]) \/ \E i \in 1 .. (n + 1) : x = used[w][i]
      BY <1>4, <1>8, <2>2, <2>3 DEF Halfway, o
    <2>6. \A x \in Range(r.used) : x \in flagged /\ \E i \in 1 .. (n + 1) : x = used[w][i]
      BY <1>4 DEF Halfway
    <2> QED
      BY <1>3, <2>1, <2>2, <2>4, <2>5, <2>6 DEF Halfway, o
  <1>10. CASE ~Free(o)
    <2> DEFINE u == Append(r.used, o)
    <2>1. Asked(r, o) = [available |-> r.available, used |-> u]
      BY <1>10 DEF Asked
    <2>2. u \in Seq(Object) /\ Len(u) <= n + 1
      BY <1>2, <1>3
    <2>3. IsInjective(u) /\ Range(u) = Range(r.used) \cup {o}
      BY <1>2, <1>3, <1>7, AppendOnce
    <2>4. o \in flagged
      BY <1>10 DEF Free
    <2> HIDE DEF u
    <2>5. \A x \in Range(u) : x \in flagged /\ \E i \in 1 .. (n + 1) : x = used[w][i]
      BY <1>4, <1>8, <2>3, <2>4 DEF Halfway, o
    <2>6. \A x \in Range(r.available) :
            /\ x \notin flagged
            /\ x \in Range(available[w]) \/ \E i \in 1 .. (n + 1) : x = used[w][i]
      BY <1>4 DEF Halfway
    <2> QED
      BY <1>3, <2>1, <2>2, <2>3, <2>5, <2>6 DEF Halfway, o
  <1> QED
    BY <1>9, <1>10 DEF o

LEMMA PushPoolTyped ==
  ASSUME NEW s \in Seq(Object), NEW o \in Object
  PROVE  PushPool(s, o) \in Seq(Object)
  <1>1. CASE Len(s) < 2 * POOL
    BY <1>1 DEF PushPool
  <1>2. CASE ~(Len(s) < 2 * POOL)
    <2>1. s # << >>
      BY <1>2, PoolsAssumption
    <2>2. Tail(s) \in Seq(Object)
      BY <2>1
    <2> QED
      BY <1>2, <2>2 DEF PushPool
  <1> QED
    BY <1>1, <1>2

\* The loop ends with what is free available and what is not in used_.
LEMMA RecycledHalfway ==
  ASSUME PoolTypeOK, Apart, NEW w \in Worker
  PROVE  Halfway(w, Len(used[w]), Recycled(w))
  <1> DEFINE N == Len(used[w])
             X == [available : Seq(Object), used : Seq(Object)]
             first == [available |-> available[w], used |-> << >>]
             Rounds(g) == [n \in 0 .. N |-> IF n = 0 THEN first ELSE Asked(g[n - 1], used[w][n])]
             pass == CHOOSE g : g = Rounds(g)
             F == [n \in 1 .. N |-> [r \in X |-> Asked(r, used[w][n])]]
  <1>1. /\ N \in Nat /\ used[w] \in Seq(Object) /\ \A n \in 1 .. N : used[w][n] \in Object
        /\ available[w] \in Seq(Object) /\ Len(available[w]) <= 2 * POOL
    BY DEF PoolTypeOK
  <1>2. first \in X
    BY <1>1
  <1>3. \A r \in X, o \in Object : Asked(r, o) \in X
    <2> SUFFICES ASSUME NEW r \in X, NEW o \in Object PROVE Asked(r, o) \in X
      OBVIOUS
    <2>1. r.available \in Seq(Object) /\ r.used \in Seq(Object)
      OBVIOUS
    <2>2. PushPool(r.available, o) \in Seq(Object) /\ Append(r.used, o) \in Seq(Object)
      BY <2>1, PushPoolTyped
    <2> QED
      BY <2>1, <2>2 DEF Asked
  <1> HIDE DEF X, first
  <1>4. F \in [1 .. N -> [X -> X]]
    BY <1>1, <1>3
  <1>5. \E g : g = Rounds(g)
    <2>1. PICK g \in [0 .. N -> X] : g[0] = first /\ \A n \in 1 .. N : g[n] = F[n][g[n - 1]]
      <3>1. N \in Nat
        BY <1>1
      <3> HIDE DEF F, N
      <3>2. \E g : IsLoop(g, X, first, N, F)
        BY <1>2, <1>4, <3>1, LoopExists
      <3> QED
        BY <3>2 DEF IsLoop
    <2>2. ASSUME NEW n \in 1 .. N PROVE g[n] = Asked(g[n - 1], used[w][n])
      <3>1. n - 1 \in 0 .. N
        BY <1>1
      <3>2. g[n - 1] \in X
        BY <2>1, <3>1
      <3> QED
        BY <2>1, <3>2
    <2>3. \A n \in 0 .. N : g[n] = IF n = 0 THEN first ELSE Asked(g[n - 1], used[w][n])
      <3>1. \A n \in 0 .. N : n = 0 \/ n \in 1 .. N
        BY <1>1
      <3> QED
        BY <2>1, <2>2, <3>1
    <2>4. g = Rounds(g)
      BY <2>1, <2>3
    <2> QED
      BY <2>4
  <1>6. pass = Rounds(pass)
    <2> HIDE DEF Rounds
    <2> QED
      BY <1>5
  <1>7. Recycled(w) = pass[N]
    BY DEF Recycled, first
  <1> HIDE DEF pass, F
  <1>8. pass[0] = first
    BY <1>1, <1>6
  <1>9. \A n \in 0 .. N : n # 0 => pass[n] = Asked(pass[n - 1], used[w][n])
    BY <1>6
  <1> DEFINE T == {n \in Nat : n <= N => Halfway(w, n, pass[n])}
  <1>10. 0 \in T
    <2>1. Halfway(w, 0, first)
      <3>1. first.available = available[w] /\ first.used = << >>
        BY DEF first
      <3>2. Range(<< >>) = {} /\ IsInjective(<< >>) /\ Len(<< >>) = 0
        BY DEF Range, IsInjective
      <3>3. \A o \in Range(available[w]) : o \notin flagged
        BY DEF Apart
      <3>4. IsInjective(available[w])
        BY DEF Apart
      <3> QED
        BY <1>1, <1>2, <3>1, <3>2, <3>3, <3>4 DEF Halfway, X
    <2> QED
      BY <1>8, <2>1
  <1>11. ASSUME NEW n \in Nat, n \in T PROVE n + 1 \in T
    <2> SUFFICES ASSUME n + 1 <= N PROVE Halfway(w, n + 1, pass[n + 1])
      OBVIOUS
    <2>1. Halfway(w, n, pass[n]) /\ n < Len(used[w])
      BY <1>1, <1>11
    <2>2. n + 1 \in 0 .. N /\ n + 1 # 0 /\ (n + 1) - 1 = n
      OBVIOUS
    <2>3. pass[n + 1] = Asked(pass[n], used[w][n + 1])
      BY <1>9, <2>2
    <2> QED
      BY <2>1, <2>3, AskedStep
  <1>12. N \in T
    <2> HIDE DEF T
    <2> QED
      BY <1>1, <1>10, <1>11, SetInduction
  <1> QED
    BY <1>1, <1>7, <1>12

-----------------------------------------------------------------------------
(* take_one *)

LEMMA FrontOnce ==
  ASSUME NEW X, NEW s \in Seq(X), IsInjective(s), NEW n \in Nat, n <= Len(s)
  PROVE  LET t == SubSeq(s, 1, n)
         IN  /\ t \in Seq(X) /\ Len(t) = n
             /\ IsInjective(t)
             /\ Range(t) = {s[i] : i \in 1 .. n}
  <1> DEFINE t == SubSeq(s, 1, n)
  <1>1. t \in Seq(X) /\ Len(t) = n /\ \A i \in 1 .. n : t[i] = s[i]
    OBVIOUS
  <1>2. DOMAIN t = 1 .. n /\ \A i \in 1 .. n : i \in DOMAIN s
    BY <1>1
  <1> HIDE DEF t
  <1>3. IsInjective(t)
    BY <1>1, <1>2 DEF IsInjective
  <1>4. Range(t) = {s[i] : i \in 1 .. n}
    BY <1>1, <1>2 DEF Range
  <1> QED
    BY <1>1, <1>3, <1>4 DEF t

\* The messages to choose from: what recycle and fit leave, or new ones.
Supply(w) == Stocked(w, Fitted(Recycled(w).available))

\* They are known to no pool but that of w, free, and never empty.
LEMMA SupplyIsFree ==
  ASSUME PoolTypeOK, Owned, Apart, NEW w \in Worker
  PROVE  /\ Supply(w) \in Seq(Object) /\ Len(Supply(w)) > 0 /\ Len(Supply(w)) <= POOL
         /\ IsInjective(Supply(w))
         /\ \A o \in Range(Supply(w)) :
              /\ o \notin flagged /\ o[1] = w
              /\ o[2] <= IF Recycled(w).available = << >> THEN made[w] + POOL ELSE made[w]
  <1> DEFINE r == Recycled(w)
  <1>1. Halfway(w, Len(used[w]), r)
    BY RecycledHalfway
  <1>2. /\ r.available \in Seq(Object) /\ IsInjective(r.available)
        /\ \A o \in Range(r.available) : o \notin flagged
        /\ POOL \in Nat /\ POOL > 0 /\ made[w] \in Nat
    BY <1>1, PoolsAssumption DEF Halfway, PoolTypeOK
  <1>3. \A o \in Range(r.available) : o[1] = w /\ o[2] <= made[w]
    <2> SUFFICES ASSUME NEW o \in Range(r.available) PROVE o[1] = w /\ o[2] <= made[w]
      OBVIOUS
    <2>1. \A i \in 1 .. Len(used[w]) : used[w][i] \in Range(used[w])
      BY DEF Range, PoolTypeOK
    <2>2. o \in Range(available[w]) \cup Range(used[w])
      BY <1>1, <2>1 DEF Halfway
    <2> QED
      BY <2>2 DEF Owned
  <1> HIDE DEF r
  <1>4. CASE r.available = << >>
    <2>1. Supply(w) = New(w, POOL)
      BY <1>2, <1>4 DEF Supply, Fitted, Stocked, r
    <2> DEFINE s == [i \in 1 .. POOL |-> <<w, made[w] + i>>]
    <2>2. s \in Seq(Object) /\ Len(s) = POOL /\ DOMAIN s = 1 .. POOL
      BY <1>2 DEF Object
    <2>3. IsInjective(s)
      BY <1>2 DEF IsInjective
    <2>4. ASSUME NEW o \in Range(s)
          PROVE  o \notin flagged /\ o[1] = w /\ o[2] <= made[w] + POOL
      <3>1. PICK i \in 1 .. POOL : o = <<w, made[w] + i>>
        BY <2>4 DEF Range
      <3>2. o[1] = w /\ o[2] = made[w] + i
        BY <3>1
      <3>3. o[2] <= made[w] + POOL /\ ~(o[2] <= made[w])
        BY <1>2, <3>2
      <3> QED
        BY <3>2, <3>3 DEF Owned
    <2>5. Supply(w) = s
      BY <2>1 DEF New
    <2> HIDE DEF s
    <2> QED
      BY <1>2, <1>4, <2>2, <2>3, <2>4, <2>5 DEF r
  <1>5. CASE r.available # << >>
    <2> DEFINE a == r.available
               n == IF Len(a) > POOL THEN POOL ELSE Len(a)
               t == SubSeq(a, 1, n)
    <2>1. Len(a) \in Nat /\ Len(a) > 0 /\ n \in Nat /\ n > 0 /\ n <= Len(a) /\ n <= POOL
      BY <1>2, <1>5
    <2>2. Fitted(a) = t
      <3>1. CASE Len(a) > POOL
        BY <3>1 DEF Fitted
      <3>2. CASE ~(Len(a) > POOL)
        <4>1. SubSeq(a, 1, Len(a)) = a
          BY <1>2
        <4> QED
          BY <3>2, <4>1 DEF Fitted
      <3> QED
        BY <3>1, <3>2
    <2> HIDE DEF n
    <2>3. t \in Seq(Object) /\ Len(t) = n /\ IsInjective(t) /\ Range(t) = {a[i] : i \in 1 .. n}
      BY <1>2, <2>1, FrontOnce
    <2>4. Range(t) \subseteq Range(a)
      <3>1. DOMAIN a = 1 .. Len(a) /\ \A i \in 1 .. n : i \in 1 .. Len(a)
        BY <1>2, <2>1
      <3> QED
        BY <2>3, <3>1 DEF Range
    <2> HIDE DEF t
    <2>5. t # << >>
      BY <2>1, <2>3
    <2>6. Supply(w) = t
      BY <2>2, <2>5 DEF Supply, Stocked, r
    <2> QED
      BY <1>2, <1>3, <1>5, <2>1, <2>3, <2>4, <2>6 DEF r
  <1> QED
    BY <1>4, <1>5

\* The message taken was free, and the pools stay apart.
LEMMA TakeOneStep ==
  ASSUME PoolTypeOK, Owned, Apart, sent \in Nat, NEW w \in Worker, TakeOne(w),
         sent' = sent + 1, raced' \in BOOLEAN
  PROVE  /\ PoolTypeOK' /\ Owned' /\ Apart'
         /\ \E o \in Object : /\ o \notin flagged /\ flagged' = flagged \cup {o}
                              /\ carrier' = Append(carrier, o)
  <1> DEFINE r == Recycled(w)
             s == Supply(w)
             L == Len(s)
             o == s[L]
             f == SubSeq(s, 1, L - 1)
             u == PushPool(r.used, o)
             k == IF r.available = << >> THEN made[w] + POOL ELSE made[w]
  <1>1. /\ available' = [available EXCEPT ![w] = f] /\ used' = [used EXCEPT ![w] = u]
        /\ made' = [made EXCEPT ![w] = k]
        /\ flagged' = flagged \cup {o} /\ carrier' = Append(carrier, o)
    BY DEF TakeOne, Supply
  <1>2. /\ s \in Seq(Object) /\ L \in Nat /\ L > 0 /\ L <= POOL /\ IsInjective(s)
        /\ \A x \in Range(s) : x \notin flagged /\ x[1] = w /\ x[2] <= k
    <2>1. /\ s \in Seq(Object) /\ L > 0 /\ L <= POOL /\ IsInjective(s)
          /\ \A x \in Range(s) : x \notin flagged /\ x[1] = w /\ x[2] <= k
      BY SupplyIsFree
    <2> HIDE DEF s
    <2> QED
      BY <2>1
  <1>3. /\ r.used \in Seq(Object) /\ Len(r.used) <= 2 * POOL /\ IsInjective(r.used)
        /\ \A x \in Range(r.used) : x \in flagged /\ x \in Range(used[w])
    <2>1. Halfway(w, Len(used[w]), r)
      BY RecycledHalfway
    <2>2. /\ Len(used[w]) \in Nat /\ Len(used[w]) <= 2 * POOL
          /\ \A i \in 1 .. Len(used[w]) : used[w][i] \in Range(used[w])
      BY DEF PoolTypeOK, Range
    <2>3. r.used \in Seq(Object) /\ Len(r.used) <= Len(used[w]) /\ Len(r.used) \in Nat
      <3> HIDE DEF r
      <3> QED
        BY <2>1 DEF Halfway
    <2> HIDE DEF r
    <2> QED
      BY <2>1, <2>2, <2>3, PoolsAssumption DEF Halfway
  <1>4. k \in Nat /\ made[w] <= k /\ made[w] \in Nat
    BY PoolsAssumption DEF PoolTypeOK
  <1> HIDE DEF s, r, k
  <1>5. DOMAIN s = 1 .. L /\ L \in DOMAIN s /\ L - 1 \in Nat /\ L - 1 <= L /\ L - 1 <= 2 * POOL
    BY <1>2, PoolsAssumption
  <1>6. o \in Object /\ o \in Range(s)
    BY <1>2, <1>5 DEF Range
  <1>7. o \notin flagged /\ o[1] = w /\ o[2] <= k
    BY <1>2, <1>6
  <1>8. /\ f \in Seq(Object) /\ Len(f) = L - 1 /\ IsInjective(f)
        /\ Range(f) = {s[i] : i \in 1 .. (L - 1)}
    <2> HIDE DEF L
    <2> QED
      BY <1>2, <1>5, FrontOnce
  <1>9. \A x \in Range(f) : x \in Range(s) /\ x # o
    <2> SUFFICES ASSUME NEW i \in 1 .. (L - 1) PROVE s[i] \in Range(s) /\ s[i] # o
      BY <1>8
    <2>1. L \in Nat /\ DOMAIN s = 1 .. L /\ L \in DOMAIN s /\ IsInjective(s)
      BY <1>2, <1>5
    <2> HIDE DEF L
    <2>2. i \in DOMAIN s /\ i # L
      BY <2>1
    <2> QED
      BY <2>1, <2>2 DEF Range, IsInjective
  <1>10. o \notin Range(r.used)
    BY <1>3, <1>7
  <1> HIDE DEF o
  <1>11. /\ u \in Seq(Object) /\ Len(u) <= 2 * POOL /\ IsInjective(u)
         /\ Range(u) \subseteq Range(r.used) \cup {o}
    BY <1>3, <1>6, <1>10, PushPoolKeeps
  <1> HIDE DEF L, f, u
  <1>12. /\ available'[w] = f /\ used'[w] = u /\ made'[w] = k
         /\ \A v \in Worker : v # w => /\ available'[v] = available[v] /\ used'[v] = used[v]
                                       /\ made'[v] = made[v]
    BY <1>1 DEF PoolTypeOK
  <1>13. PoolTypeOK'
    <2>1. /\ available' \in [Worker -> Seq(Object)] /\ used' \in [Worker -> Seq(Object)]
          /\ made' \in [Worker -> Nat]
      <3>1. available' \in [Worker -> Seq(Object)]
        BY <1>1, <1>8 DEF PoolTypeOK
      <3>2. used' \in [Worker -> Seq(Object)]
        BY <1>1, <1>11 DEF PoolTypeOK
      <3>3. made' \in [Worker -> Nat]
        BY <1>1, <1>4 DEF PoolTypeOK
      <3> QED
        BY <3>1, <3>2, <3>3
    <2>2. Len(available'[w]) <= 2 * POOL /\ Len(used'[w]) <= 2 * POOL
      BY <1>5, <1>8, <1>11, <1>12
    <2>3. \A v \in Worker : Len(available'[v]) <= 2 * POOL /\ Len(used'[v]) <= 2 * POOL
      BY <1>12, <2>2 DEF PoolTypeOK
    <2>4. flagged' \subseteq Object
      BY <1>1, <1>6 DEF PoolTypeOK
    <2>5. carrier' \in Seq(Object) /\ Len(carrier') = sent'
      BY <1>1, <1>6 DEF PoolTypeOK
    <2> QED
      BY <2>1, <2>3, <2>4, <2>5 DEF PoolTypeOK
  <1>14. Owned'
    <2>1. ASSUME NEW v \in Worker
          PROVE  made[v] \in Nat /\ made'[v] \in Nat /\ made[v] <= made'[v]
      <3>1. made[v] \in Nat
        BY DEF PoolTypeOK
      <3>2. CASE v = w
        BY <1>4, <1>12, <3>2
      <3>3. CASE v # w
        BY <1>12, <3>1, <3>3
      <3> QED
        BY <3>2, <3>3
    <2>2. \A x \in Range(f) \cup Range(u) : x[1] = w /\ x[2] <= made'[w]
      <3> SUFFICES ASSUME NEW x \in Range(f) \cup Range(u) PROVE x[1] = w /\ x[2] <= made'[w]
        OBVIOUS
      <3>1. CASE x \in Range(s)
        BY <1>2, <1>12, <3>1
      <3>2. CASE x \in Range(used[w])
        <4>1. x[1] = w /\ x[2] <= made[w]
          BY <3>2 DEF Owned
        <4>2. x \in Object
          BY <3>2 DEF Range, PoolTypeOK
        <4>3. x[2] \in Nat
          BY <4>2 DEF Object
        <4> QED
          BY <2>1, <4>1, <4>3
      <3> QED
        BY <1>3, <1>6, <1>9, <1>11, <3>1, <3>2
    <2>3. \A v \in Worker : \A x \in Range(available'[v]) \cup Range(used'[v]) : x[1] = v /\ x[2] <= made'[v]
      BY <1>12, <2>2 DEF Owned
    <2>4. \A x \in flagged' : x[2] <= made'[x[1]]
      <3> SUFFICES ASSUME NEW x \in flagged' PROVE x[2] <= made'[x[1]]
        OBVIOUS
      <3>1. CASE x = o
        BY <1>7, <1>12, <3>1
      <3>2. CASE x \in flagged
        <4>1. x[2] <= made[x[1]] /\ x \in Object
          BY <3>2 DEF Owned, PoolTypeOK
        <4>2. x[1] \in Worker /\ x[2] \in Nat
          BY <4>1 DEF Object
        <4> QED
          BY <2>1, <4>1, <4>2
      <3> QED
        BY <1>1, <3>1, <3>2
    <2> QED
      BY <2>3, <2>4 DEF Owned
  <1>15. Apart'
    <2>1. \A x \in Range(f) : x \notin Range(u) /\ x \notin flagged'
      BY <1>1, <1>2, <1>3, <1>9, <1>11
    <2>2. ASSUME NEW v \in Worker, v # w, NEW x \in Range(available[v])
          PROVE  x \notin Range(used[v]) /\ x \notin flagged'
      <3>1. x[1] = v
        BY <2>2 DEF Owned
      <3>2. x # o
        BY <1>7, <2>2, <3>1
      <3> QED
        BY <1>1, <2>2, <3>2 DEF Apart
    <2> SUFFICES ASSUME NEW v \in Worker
                 PROVE  /\ IsInjective(available'[v]) /\ IsInjective(used'[v])
                        /\ \A x \in Range(available'[v]) : x \notin Range(used'[v]) /\ x \notin flagged'
      BY DEF Apart
    <2>3. CASE v = w
      BY <1>8, <1>11, <1>12, <2>1, <2>3
    <2>4. CASE v # w
      BY <1>12, <2>2, <2>4 DEF Apart
    <2> QED
      BY <2>3, <2>4
  <1> QED
    BY <1>1, <1>6, <1>7, <1>13, <1>14, <1>15

-----------------------------------------------------------------------------
(* The queue and the messages that carry its answers *)

LEMMA AppendRange ==
  ASSUME NEW X, NEW q \in Seq(X), NEW m \in X
  PROVE  Range(Append(q, m)) = Range(q) \cup {m}
  <1>1. /\ \A i \in 1 .. Len(q) : Append(q, m)[i] = q[i]
        /\ Append(q, m)[Len(q) + 1] = m
    OBVIOUS
  <1>2. DOMAIN q = 1 .. Len(q) /\ DOMAIN Append(q, m) = 1 .. (Len(q) + 1) /\ Len(q) \in Nat
    OBVIOUS
  <1>3. 1 .. (Len(q) + 1) = (1 .. Len(q)) \cup {Len(q) + 1}
    BY <1>2
  <1> QED
    BY <1>1, <1>2, <1>3 DEF Range

LEMMA AppendRising ==
  ASSUME NEW q \in Seq(Message), NEW m \in Message, Rising(q), \A x \in Range(q) : x < m
  PROVE  Rising(Append(q, m))
  <1>1. /\ \A i \in 1 .. Len(q) : Append(q, m)[i] = q[i] /\ q[i] \in Range(q)
        /\ Append(q, m)[Len(q) + 1] = m
    BY DEF Range
  <1>2. DOMAIN q = 1 .. Len(q) /\ DOMAIN Append(q, m) = 1 .. (Len(q) + 1) /\ Len(q) \in Nat
    OBVIOUS
  <1> SUFFICES ASSUME NEW i \in 1 .. (Len(q) + 1), NEW j \in 1 .. (Len(q) + 1), i < j
               PROVE  Append(q, m)[i] < Append(q, m)[j]
    BY <1>2 DEF Rising
  <1>3. i \in 1 .. Len(q)
    BY <1>2
  <1>4. CASE j \in 1 .. Len(q)
    BY <1>1, <1>2, <1>3, <1>4 DEF Rising
  <1>5. CASE j = Len(q) + 1
    BY <1>1, <1>3, <1>5
  <1> QED
    BY <1>2, <1>4, <1>5

LEMMA TailRising ==
  ASSUME NEW q \in Seq(Message), q # << >>, Rising(q)
  PROVE  /\ Rising(Tail(q)) /\ Range(Tail(q)) \subseteq Range(q) /\ Head(q) \in Range(q)
         /\ \A x \in Range(Tail(q)) : Head(q) < x
  <1>1. /\ Tail(q) \in Seq(Message) /\ Len(Tail(q)) = Len(q) - 1 /\ Head(q) = q[1]
        /\ \A i \in 1 .. (Len(q) - 1) : Tail(q)[i] = q[i + 1]
    OBVIOUS
  <1>2. DOMAIN q = 1 .. Len(q) /\ DOMAIN Tail(q) = 1 .. (Len(q) - 1) /\ Len(q) \in Nat /\ Len(q) > 0
    BY <1>1
  <1>3. \A i \in 1 .. (Len(q) - 1) : i + 1 \in 1 .. Len(q) /\ 1 < i + 1
    BY <1>2
  <1>4. 1 \in 1 .. Len(q)
    BY <1>2
  <1>5. Rising(Tail(q))
    <2> SUFFICES ASSUME NEW i \in 1 .. (Len(q) - 1), NEW j \in 1 .. (Len(q) - 1), i < j
                 PROVE  Tail(q)[i] < Tail(q)[j]
      BY <1>2 DEF Rising
    <2>1. i + 1 < j + 1
      OBVIOUS
    <2> QED
      BY <1>1, <1>2, <1>3, <2>1 DEF Rising
  <1>6. Range(Tail(q)) \subseteq Range(q) /\ Head(q) \in Range(q)
    BY <1>1, <1>2, <1>3, <1>4 DEF Range
  <1>7. \A x \in Range(Tail(q)) : Head(q) < x
    BY <1>1, <1>2, <1>3, <1>4 DEF Range, Rising
  <1> QED
    BY <1>5, <1>6, <1>7

\* Steps that take nothing from a pool.
LEMMA PoolsKept ==
  ASSUME PoolTypeOK, Owned, Apart, UNCHANGED <<available, used, made, carrier, sent>>,
         flagged' \subseteq flagged, raced' \in BOOLEAN
  PROVE  PoolTypeOK' /\ Owned' /\ Apart'
  BY DEF PoolTypeOK, Owned, Apart

\* The numbers that are queued are those of answers given.
LEMMA QueuedTyped ==
  ASSUME TypeOK, PoolTypeOK, Ascending, NEW m \in Queued
  PROVE  m \in Nat /\ m \in 1 .. sent /\ m \in DOMAIN carrier
  <1>1. m \in Message
    BY DEF Queued, Range, TypeOK
  <1>2. m <= sent /\ sent \in Nat /\ DOMAIN carrier = 1 .. sent
    BY DEF Ascending, TypeOK, PoolTypeOK
  <1> QED
    BY <1>1, <1>2 DEF Message

LEMMA AnswerKeeps ==
  ASSUME PoolInv, NEW w \in Worker, Answer(w), TypeOK'
  PROVE  PoolInv'
  <1> USE DEF PoolInv
  <1>1. /\ sent \in Nat /\ sent' = sent + 1 /\ posted' = Append(posted, sent + 1)
        /\ pending' = pending /\ inflight' = inflight /\ done' = done /\ raced' = raced
        /\ TakeOne(w) /\ posted \in Seq(Message) /\ sent + 1 \in Message
    BY DEF Answer, Send, TypeOK, Message
  <1>2. raced' \in BOOLEAN
    BY <1>1 DEF PoolTypeOK
  <1>3. /\ PoolTypeOK' /\ Owned' /\ Apart'
        /\ \E o \in Object : /\ o \notin flagged /\ flagged' = flagged \cup {o}
                             /\ carrier' = Append(carrier, o)
    BY <1>1, <1>2, TakeOneStep
  <1>4. PICK o \in Object : /\ o \notin flagged /\ flagged' = flagged \cup {o}
                            /\ carrier' = Append(carrier, o)
    BY <1>3
  <1>5. Range(posted') = Range(posted) \cup {sent + 1}
    BY <1>1, AppendRange
  <1>6. Queued' = Queued \cup {sent + 1}
    BY <1>1, <1>5 DEF Queued
  <1>7. \A m \in Queued : m \in Nat /\ m < sent + 1
    BY <1>1, QueuedTyped DEF Ascending
  <1>8. Ascending'
    <2>1. Rising(posted')
      BY <1>1, <1>7, AppendRising DEF Queued, Ascending
    <2>2. \A m \in Range(pending'), n \in Range(posted') : m < n
      BY <1>1, <1>5, <1>7 DEF Queued, Ascending
    <2>3. \A m \in Queued' : m <= sent'
      BY <1>1, <1>6, <1>7
    <2> QED
      BY <1>1, <2>1, <2>2, <2>3 DEF Ascending
  <1>9. /\ \A n \in 1 .. sent : carrier'[n] = carrier[n]
        /\ carrier'[sent + 1] = o
    <2>1. carrier \in Seq(Object) /\ Len(carrier) = sent
      BY DEF PoolTypeOK
    <2> QED
      BY <1>4, <2>1
  <1>10. Reserved'
    <2> SUFFICES ASSUME NEW m \in Queued'
                 PROVE  /\ carrier'[m] \in flagged'
                        /\ \A n \in (m + 1) .. sent' : carrier'[n] # carrier'[m]
      BY DEF Reserved
    <2>1. CASE m \in Queued
      <3>1. m \in Nat /\ m \in 1 .. sent
        BY <2>1, QueuedTyped
      <3>2. carrier'[m] = carrier[m] /\ carrier[m] \in flagged
        BY <1>9, <2>1, <3>1 DEF Reserved
      <3>3. ASSUME NEW n \in (m + 1) .. sent' PROVE carrier'[n] # carrier[m]
        <4>1. n \in (m + 1) .. sent \/ n = sent + 1
          BY <1>1, <3>1
        <4>2. CASE n \in (m + 1) .. sent
          <5>1. n \in 1 .. sent
            BY <3>1, <4>2
          <5> QED
            BY <1>9, <2>1, <4>2, <5>1 DEF Reserved
        <4>3. CASE n = sent + 1
          BY <1>4, <1>9, <3>2, <4>3
        <4> QED
          BY <4>1, <4>2, <4>3
      <3> QED
        BY <1>4, <3>2, <3>3
    <2>2. CASE m = sent + 1
      <3>1. \A n \in (m + 1) .. sent' : FALSE
        BY <1>1, <2>2
      <3> QED
        BY <1>4, <1>9, <2>2, <3>1
    <2> QED
      BY <1>6, <2>1, <2>2
  <1>11. FrontIsWritten'
    BY <1>1 DEF FrontIsWritten
  <1> QED
    BY <1>3, <1>8, <1>10, <1>11

\* What holds of the queue when answers leave it, or move within it, and no
\* message of one that stays is released.
LEMMA QueueShrinks ==
  ASSUME PoolInv, UNCHANGED <<sent, carrier>>, Queued' \subseteq Queued,
         \A m \in Queued' : carrier[m] \in flagged'
  PROVE  Reserved' /\ \A m \in Queued' : m <= sent'
  BY DEF PoolInv, Reserved, Ascending

\* Steps that leave the queue alone.
LEMMA QueueKept ==
  ASSUME PoolInv, TypeOK', UNCHANGED <<sent, posted, pending, flagged, available, used, made, carrier>>,
         raced' \in BOOLEAN, FrontIsWritten'
  PROVE  PoolInv'
  <1>1. PoolTypeOK' /\ Owned' /\ Apart'
    BY PoolsKept DEF PoolInv
  <1>2. Ascending' /\ Reserved'
    BY DEF PoolInv, Ascending, Reserved, Queued, Rising
  <1> QED
    BY <1>1, <1>2 DEF PoolInv

LEMMA CompletionKeeps ==
  ASSUME PoolInv, TypeOK', NEW i \in DOMAIN inflight, Step(WriteCompletes(i) \/ WriteFails(i)),
         UNCHANGED flagged
  PROVE  PoolInv'
  <1>1. /\ UNCHANGED <<sent, posted, pending, flagged, available, used, made, carrier>>
        /\ inflight' = RemoveAt(inflight, i)
    BY DEF Step, WriteCompletes, WriteFails
  <1>2. raced' \in BOOLEAN
    BY DEF Step
  <1>3. FrontIsWritten'
    <2> SUFFICES ASSUME ~raced'
                 PROVE  /\ Len(inflight') + Len(done') <= 1
                        /\ \A j \in DOMAIN inflight' : pending' # << >> /\ inflight'[j] = pending'[1]
      BY DEF FrontIsWritten
    <2>1. ~raced /\ ~(Len(inflight') + Len(done') > 1)
      BY DEF Step
    <2>2. /\ inflight \in Seq(Message) /\ Len(inflight) \in Nat /\ Len(done) \in Nat
          /\ inflight' \in Seq(Message) /\ Len(inflight') \in Nat /\ Len(done') \in Nat
      BY DEF PoolInv, TypeOK
    <2>3. Len(inflight') = Len(inflight) - 1
      BY <1>1, <2>2, RemoveTyped
    <2>4. Len(inflight) + Len(done) <= 1
      BY <2>1 DEF PoolInv, FrontIsWritten
    <2>5. Len(inflight') = 0
      BY <2>2, <2>3, <2>4
    <2>6. \A j \in DOMAIN inflight' : FALSE
      <3>1. DOMAIN inflight' = 1 .. Len(inflight')
        BY <2>2
      <3> QED
        BY <2>5, <3>1
    <2> QED
      BY <2>1, <2>2, <2>6
  <1> QED
    BY <1>1, <1>2, <1>3, QueueKept

LEMMA WriteNextKeeps ==
  ASSUME PoolInv, TypeOK', NEW w \in Worker, WriteNext(w) \/ OnWriteContinues(w) \/ OnSendContinues(w),
         Step(Handler(w)),
         flagged' = Release(w)
  PROVE  PoolInv'
  <1>0. TypeOK /\ pc \in [Worker -> Where]
    BY DEF PoolInv, TypeOK
  <1>1. /\ UNCHANGED <<sent, posted, pending, available, used, made, carrier, done>>
        /\ pc'[w] = "popped" => pc[w] = "popped"
    BY <1>0 DEF Step, WriteNext, OnWriteContinues, OnSendContinues
  <1>2. flagged' = flagged
    BY <1>1 DEF Release
  <1>3. raced' \in BOOLEAN
    BY DEF Step
  <1>4. FrontIsWritten'
    <2> SUFFICES ASSUME ~raced'
                 PROVE  /\ Len(inflight') + Len(done') <= 1
                        /\ \A j \in DOMAIN inflight' : pending' # << >> /\ inflight'[j] = pending'[1]
      BY DEF FrontIsWritten
    <2>1. ~raced /\ ~(Len(inflight') + Len(done') > 1)
      BY DEF Step
    <2>2. /\ inflight \in Seq(Message) /\ Len(inflight) \in Nat /\ Len(done) \in Nat
          /\ Len(inflight') \in Nat /\ Len(done') \in Nat /\ pending \in Seq(Message)
      BY <1>0 DEF TypeOK
    <2>3. Len(inflight') + Len(done') <= 1
      BY <2>1, <2>2
    <2>4. CASE inflight' = inflight
      BY <1>1, <2>1, <2>3, <2>4 DEF PoolInv, FrontIsWritten
    <2>5. CASE pending # << >> /\ inflight' = Append(inflight, Head(pending))
      <3>1. Head(pending) \in Message /\ Head(pending) = pending[1]
        BY <2>2, <2>5
      <3>2. Len(inflight') = Len(inflight) + 1
        BY <2>2, <2>5, <3>1
      <3>3. Len(inflight) = 0
        BY <2>2, <2>3, <3>2
      <3>4. DOMAIN inflight' = {1} /\ inflight'[1] = pending[1]
        BY <2>2, <2>5, <3>1, <3>3
      <3> QED
        BY <1>1, <2>3, <2>5, <3>4
    <2>6. inflight' = inflight \/ (pending # << >> /\ inflight' = Append(inflight, Head(pending)))
      BY DEF WriteNext, OnWriteContinues, OnSendContinues
    <2> QED
      BY <2>4, <2>5, <2>6
  <1> QED
    BY <1>1, <1>2, <1>3, <1>4, QueueKept

LEMMA OnSendKeeps ==
  ASSUME PoolInv, TypeOK', NEW w \in Worker, OnSend(w), Step(Handler(w)), flagged' = Release(w)
  PROVE  PoolInv'
  <1> DEFINE h == Head(posted)
             back == IF Len(pending) < CAPACITY THEN pending ELSE Tail(pending)
  <1>0. TypeOK /\ PoolTypeOK /\ Owned /\ Apart /\ Ascending /\ Reserved /\ FrontIsWritten
    BY DEF PoolInv
  <1>1. /\ UNCHANGED <<sent, available, used, made, carrier, inflight, done>>
        /\ posted # << >> /\ posted' = Tail(posted) /\ pending' = PushBack(pending, h)
    BY DEF OnSend, Step
  <1>2. flagged' = flagged
    <2>1. pc'[w] # "popped"
      BY <1>0 DEF OnSend, TypeOK
    <2> QED
      BY <2>1 DEF Release
  <1>3. raced' \in BOOLEAN
    BY DEF Step
  <1>4. /\ posted \in Seq(Message) /\ pending \in Seq(Message) /\ h \in Message
        /\ Tail(posted) \in Seq(Message) /\ Len(Tail(posted)) = Len(posted) - 1
        /\ Len(pending) <= CAPACITY /\ CAPACITY \in Nat \ {0} /\ Len(pending) \in Nat
    BY <1>0, <1>1, WriteQueueAssumption DEF TypeOK
  <1>5. /\ Rising(Tail(posted)) /\ Range(Tail(posted)) \subseteq Range(posted) /\ h \in Range(posted)
        /\ \A x \in Range(Tail(posted)) : h < x
    BY <1>0, <1>1, <1>4, TailRising DEF Ascending
  <1>6. back \in Seq(Message) /\ Rising(back) /\ Range(back) \subseteq Range(pending)
    <2>1. CASE Len(pending) < CAPACITY
      BY <1>0, <1>4, <2>1 DEF Ascending
    <2>2. CASE ~(Len(pending) < CAPACITY)
      <3>1. pending # << >>
        BY <1>4, <2>2
      <3>2. Rising(Tail(pending)) /\ Range(Tail(pending)) \subseteq Range(pending)
        BY <1>0, <1>4, <3>1, TailRising DEF Ascending
      <3>3. Tail(pending) \in Seq(Message)
        BY <1>4, <3>1
      <3> QED
        BY <2>2, <3>2, <3>3
    <2> QED
      BY <2>1, <2>2
  <1>7. pending' = Append(back, h)
    BY <1>1 DEF PushBack
  <1> HIDE DEF back, h
  <1>8. Range(pending') = Range(back) \cup {h}
    BY <1>4, <1>6, <1>7, AppendRange
  <1>9. Queued' \subseteq Queued
    BY <1>1, <1>5, <1>6, <1>8 DEF Queued
  <1>10. Reserved' /\ \A m \in Queued' : m <= sent'
    <2>1. \A m \in Queued' : carrier[m] \in flagged'
      BY <1>0, <1>2, <1>9 DEF Reserved
    <2> QED
      BY <1>1, <1>9, <2>1, QueueShrinks
  <1>11. Ascending'
    <2>1. \A x \in Range(back) : x < h
      BY <1>0, <1>5, <1>6 DEF Ascending
    <2>2. Rising(pending')
      BY <1>4, <1>6, <1>7, <2>1, AppendRising
    <2>3. \A m \in Range(pending'), n \in Range(posted') : m < n
      BY <1>0, <1>1, <1>5, <1>6, <1>8 DEF Ascending
    <2> QED
      BY <1>1, <1>5, <1>10, <2>2, <2>3 DEF Ascending
  <1>12. FrontIsWritten'
    <2> SUFFICES ASSUME ~raced'
                 PROVE  /\ Len(inflight') + Len(done') <= 1
                        /\ \A j \in DOMAIN inflight' : pending' # << >> /\ inflight'[j] = pending'[1]
      BY DEF FrontIsWritten
    <2>1. ~raced /\ ~(posted' # posted /\ Len(pending) = CAPACITY)
      BY DEF Step
    <2>2. posted' # posted
      <3>1. Len(posted) \in Nat /\ Len(posted') = Len(posted) - 1
        BY <1>1, <1>4
      <3>2. Len(posted') # Len(posted)
        BY <3>1
      <3> QED
        BY <3>2
    <2>3. Len(pending) < CAPACITY
      BY <1>4, <2>1, <2>2
    <2>4. pending' = Append(pending, h)
      BY <1>7, <2>3 DEF back
    <2>5. pending # << >> => pending' # << >> /\ pending'[1] = pending[1]
      BY <1>4, <2>4
    <2> QED
      BY <1>0, <1>1, <2>1, <2>5 DEF FrontIsWritten
  <1>13. PoolTypeOK' /\ Owned' /\ Apart'
    BY <1>0, <1>1, <1>2, <1>3, PoolsKept
  <1> QED
    BY <1>10, <1>11, <1>12, <1>13 DEF PoolInv

LEMMA OnWriteKeeps ==
  ASSUME PoolInv, TypeOK', NEW w \in Worker, OnWrite(w), Step(Handler(w)), flagged' = Release(w)
  PROVE  PoolInv'
  <1>0. TypeOK /\ PoolTypeOK /\ Owned /\ Apart /\ Ascending /\ Reserved /\ FrontIsWritten
    BY DEF PoolInv
  <1>1. /\ UNCHANGED <<sent, available, used, made, carrier, inflight, posted>>
        /\ done # << >> /\ done' = Tail(done)
    BY DEF OnWrite, Step
  <1>2. raced' \in BOOLEAN
    BY DEF Step
  <1>3. /\ Len(inflight) \in Nat /\ Len(done) \in Nat /\ inflight \in Seq(Message)
        /\ Len(done) > 0 /\ Len(done') = Len(done) - 1
    BY <1>0, <1>1 DEF TypeOK
  \* The completion that is handled was the only one, and nothing is in flight.
  <1>4. FrontIsWritten'
    <2> SUFFICES ASSUME ~raced'
                 PROVE  /\ Len(inflight') + Len(done') <= 1
                        /\ \A j \in DOMAIN inflight' : pending' # << >> /\ inflight'[j] = pending'[1]
      BY DEF FrontIsWritten
    <2>1. ~raced
      BY DEF Step
    <2>2. Len(inflight) + Len(done) <= 1
      BY <1>0, <2>1 DEF FrontIsWritten
    <2>3. Len(inflight) = 0 /\ Len(inflight') + Len(done') <= 1
      BY <1>1, <1>3, <2>2
    <2>4. \A j \in DOMAIN inflight' : FALSE
      BY <1>1, <1>3, <2>3
    <2> QED
      BY <2>3, <2>4
  <1>5. CASE UNCHANGED <<pending, pc>>
    <2>1. flagged' = flagged
      BY <1>5 DEF Release
    <2> QED
      BY <1>1, <1>2, <1>4, <1>5, <2>1, QueueKept
  <1>6. CASE pending # << >> /\ pending' = Tail(pending) /\ pc' = [pc EXCEPT ![w] = "popped"]
    <2> DEFINE h == Head(pending)
    <2>1. flagged' = flagged \ {carrier[h]}
      <3>1. pc'[w] = "popped" /\ pc[w] # "popped"
        BY <1>0, <1>6 DEF OnWrite, TypeOK
      <3> QED
        BY <3>1 DEF Release
    <2>2. pending \in Seq(Message) /\ h \in Message
      BY <1>0, <1>6 DEF TypeOK
    <2>3. /\ Rising(Tail(pending)) /\ Range(Tail(pending)) \subseteq Range(pending) /\ h \in Range(pending)
          /\ \A x \in Range(Tail(pending)) : h < x
      BY <1>0, <1>6, <2>2, TailRising DEF Ascending
    <2> HIDE DEF h
    <2>4. Queued' \subseteq Queued /\ h \in Queued
      BY <1>1, <1>6, <2>3 DEF Queued
    <2>5. \A m \in Queued' : h < m
      BY <1>0, <1>1, <1>6, <2>3 DEF Queued, Ascending
    <2>6. ASSUME NEW m \in Queued' PROVE carrier[m] \in flagged'
      <3>1. m \in Queued /\ m \in Nat /\ m \in 1 .. sent /\ h \in Nat /\ h < m
        BY <1>0, <2>4, <2>5, QueuedTyped
      <3>2. m \in (h + 1) .. sent
        BY <3>1
      <3>3. carrier[m] # carrier[h] /\ carrier[m] \in flagged
        BY <1>0, <2>4, <3>1, <3>2 DEF Reserved
      <3> QED
        BY <2>1, <3>3
    <2>7. Reserved' /\ \A m \in Queued' : m <= sent'
      BY <1>1, <2>4, <2>6, QueueShrinks
    <2>8. Ascending'
      BY <1>0, <1>1, <1>6, <2>3, <2>7 DEF Ascending
    <2>9. PoolTypeOK' /\ Owned' /\ Apart'
      BY <1>0, <1>1, <1>2, <2>1, PoolsKept
    <2> QED
      BY <1>4, <2>7, <2>8, <2>9 DEF PoolInv
  <1> QED
    BY <1>5, <1>6 DEF OnWrite

LEMMA PoolInvInit == PoolInit => PoolInv
  <1> SUFFICES ASSUME PoolInit PROVE PoolInv
    OBVIOUS
  <1> USE DEF PoolInit
  <1>1. TypeOK
    BY QueueTypedInit
  <1>2. \A w \in Worker : /\ available[w] = [i \in 1 .. POOL |-> <<w, i>>]
                          /\ used[w] = << >> /\ made[w] = POOL
    OBVIOUS
  <1>3. POOL \in Nat /\ POOL <= 2 * POOL
    BY PoolsAssumption
  <1>4. \A w \in Worker : [i \in 1 .. POOL |-> <<w, i>>] \in Seq(Object)
    BY <1>3 DEF Object
  <1>5. PoolTypeOK
    <2>1. \A w \in Worker : Len([i \in 1 .. POOL |-> <<w, i>>]) = POOL
      BY <1>3
    <2>2. available \in [Worker -> Seq(Object)] /\ used \in [Worker -> Seq(Object)]
      BY <1>4
    <2>3. \A w \in Worker : Len(available[w]) <= 2 * POOL /\ Len(used[w]) <= 2 * POOL
      BY <1>2, <1>3, <2>1
    <2>4. made \in [Worker -> Nat] /\ flagged \subseteq Object /\ raced \in BOOLEAN
      BY <1>3
    <2>5. carrier \in Seq(Object) /\ Len(carrier) = sent
      BY DEF Init
    <2> QED
      BY <2>2, <2>3, <2>4, <2>5 DEF PoolTypeOK
  <1>6. Range(<< >>) = {} /\ IsInjective(<< >>) /\ Rising(<< >>)
    BY DEF Range, IsInjective, Rising
  <1>7. Owned
    <2> SUFFICES ASSUME NEW w \in Worker, NEW o \in Range(available[w])
                 PROVE  o[1] = w /\ o[2] <= made[w]
      BY <1>2, <1>6 DEF Owned
    <2>1. PICK i \in 1 .. POOL : o = <<w, i>>
      BY <1>2 DEF Range
    <2> QED
      BY <1>2, <1>3, <2>1
  <1>8. Apart
    <2>1. \A w \in Worker : IsInjective([i \in 1 .. POOL |-> <<w, i>>])
      BY DEF IsInjective
    <2> QED
      BY <1>2, <1>6, <2>1 DEF Apart
  <1>9. Queued = {}
    BY <1>6 DEF Queued, Init
  <1>10. Ascending /\ Reserved
    BY <1>6, <1>9 DEF Ascending, Reserved, Init
  <1>11. FrontIsWritten
    BY DEF FrontIsWritten, Init
  <1> QED
    BY <1>1, <1>5, <1>7, <1>8, <1>10, <1>11 DEF PoolInv

LEMMA PoolInvariant == PoolSpec => []PoolInv
  <1>1. PoolInv /\ [PoolNext]_<<vars, pool_vars>> => PoolInv'
    <2> SUFFICES ASSUME PoolInv, [PoolNext]_<<vars, pool_vars>> PROVE PoolInv'
      OBVIOUS
    <2>0. TypeOK'
      BY PoolStepIsStep, QueueTypedStep DEF PoolInv
    <2>1. ASSUME NEW w \in Worker, Answer(w)
          PROVE  PoolInv'
      BY <2>0, <2>1, AnswerKeeps
    <2>2. ASSUME NEW i \in DOMAIN inflight, Step(WriteCompletes(i) \/ WriteFails(i)), UNCHANGED flagged
          PROVE  PoolInv'
      BY <2>0, <2>2, CompletionKeeps
    <2>3. ASSUME NEW w \in Worker, Step(Handler(w)), flagged' = Release(w)
          PROVE  PoolInv'
      <3>1. OnSend(w) \/ (WriteNext(w) \/ OnWriteContinues(w) \/ OnSendContinues(w)) \/ OnWrite(w)
        BY <2>3 DEF Step, Handler
      <3> QED
        BY <2>0, <2>3, <3>1, OnSendKeeps, WriteNextKeeps, OnWriteKeeps
    <2>4. CASE UNCHANGED <<vars, pool_vars>>
      <3>1. /\ UNCHANGED <<sent, posted, pending, flagged, available, used, made, carrier>>
            /\ UNCHANGED <<raced, inflight, done>>
        BY <2>4 DEF vars, pool_vars
      <3>2. raced' \in BOOLEAN /\ FrontIsWritten'
        BY <3>1 DEF PoolInv, PoolTypeOK, FrontIsWritten
      <3> QED
        BY <2>0, <3>1, <3>2, QueueKept
    <2> QED
      BY <2>1, <2>2, <2>3, <2>4 DEF PoolNext
  <1> QED
    BY <1>1, PoolInvInit, PTL DEF PoolSpec

(***************************************************************************)
(* Two answers in the queue never share a message, and recycle finds none  *)
(* of their messages free (messages_pool.cpp:38-88), for pools, queues and *)
(* thread counts of any size, with overlapping and failing writes.         *)
(***************************************************************************)
THEOREM QueuedAlwaysReserved == PoolSpec => []QueuedIsReserved
  <1>1. PoolInv => QueuedIsReserved
    <2> SUFFICES ASSUME PoolInv PROVE QueuedIsReserved
      OBVIOUS
    <2> USE DEF PoolInv
    <2>1. \A m \in Queued : carrier[m] \in flagged
      BY DEF Reserved
    <2>2. ASSUME NEW m \in Queued, NEW n \in Queued, m < n
          PROVE  carrier[m] # carrier[n]
      <3>1. m \in Nat /\ n \in 1 .. sent
        BY QueuedTyped
      <3>2. n \in (m + 1) .. sent
        BY <2>2, <3>1
      <3> QED
        BY <3>2 DEF Reserved
    <2>3. ASSUME NEW m \in Queued, NEW n \in Queued, m # n
          PROVE  carrier[m] # carrier[n]
      <3>1. m < n \/ n < m
        BY <2>3, QueuedTyped
      <3> QED
        BY <2>2, <3>1
    <2> QED
      BY <2>1, <2>3 DEF QueuedIsReserved
  <1> QED
    BY <1>1, PoolInvariant, PTL

(***************************************************************************)
(* As long as writes do not overlap and the queue does not overflow, the   *)
(* message being written stays flagged and carries no later answer         *)
(* (connection.ipp:286-289), on any number of threads.                     *)
(***************************************************************************)
THEOREM WrittenAlwaysReserved == PoolSpec => []WrittenIsReserved
  <1>1. PoolInv => WrittenIsReserved
    <2> SUFFICES ASSUME PoolInv, ~raced, NEW i \in DOMAIN inflight
                 PROVE  /\ carrier[inflight[i]] \in flagged
                        /\ \A m \in (inflight[i] + 1) .. sent : carrier[m] # carrier[inflight[i]]
      BY DEF WrittenIsReserved
    <2>1. pending # << >> /\ inflight[i] = pending[1] /\ pending \in Seq(Message)
      BY DEF PoolInv, FrontIsWritten, TypeOK
    <2>2. 1 \in DOMAIN pending
      BY <2>1
    <2>3. inflight[i] \in Queued
      BY <2>1, <2>2 DEF Queued, Range
    <2> QED
      BY <2>3 DEF PoolInv, Reserved
  <1> QED
    BY <1>1, PoolInvariant, PTL

(***************************************************************************)
(* No message is twice in a pool or in two pools, and none that is         *)
(* available is in use, whatever recycle, fit, refills and overwritten     *)
(* fronts of the circular buffers do (messages_pool.cpp:38-88).            *)
(***************************************************************************)
THEOREM PoolsAlwaysDisjoint == PoolSpec => []PoolsAreDisjoint
  <1>1. PoolInv => PoolsAreDisjoint
    <2> SUFFICES ASSUME PoolInv PROVE PoolsAreDisjoint
      OBVIOUS
    <2> USE DEF PoolInv
    <2>1. ASSUME NEW w \in Worker
          PROVE  IsInjective(Stock(w)) /\ Range(Stock(w)) = Range(available[w]) \cup Range(used[w])
      <3> DEFINE a == available[w]
                 u == used[w]
      <3>1. a \in Seq(Object) /\ u \in Seq(Object) /\ Len(a) \in Nat /\ Len(u) \in Nat
        BY DEF PoolTypeOK
      <3>2. IsInjective(a) /\ IsInjective(u) /\ \A o \in Range(a) : o \notin Range(u)
        BY DEF Apart
      <3>3. Stock(w) = a \o u
        BY DEF Stock
      <3> HIDE DEF a, u
      <3>4. /\ DOMAIN (a \o u) = 1 .. (Len(a) + Len(u)) /\ DOMAIN a = 1 .. Len(a) /\ DOMAIN u = 1 .. Len(u)
            /\ \A i \in 1 .. Len(a) : (a \o u)[i] = a[i]
            /\ \A i \in 1 .. (Len(a) + Len(u)) : i > Len(a) => (a \o u)[i] = u[i - Len(a)]
        BY <3>1
      <3>5. \A i \in 1 .. (Len(a) + Len(u)) : i \in 1 .. Len(a) \/ (i > Len(a) /\ i - Len(a) \in 1 .. Len(u))
        BY <3>1
      <3>6. ASSUME NEW i \in 1 .. (Len(a) + Len(u)), NEW j \in 1 .. (Len(a) + Len(u)),
                   (a \o u)[i] = (a \o u)[j]
            PROVE  i = j
        <4>1. CASE i \in 1 .. Len(a) /\ j \in 1 .. Len(a)
          BY <3>2, <3>4, <3>6, <4>1 DEF IsInjective
        <4>2. CASE i > Len(a) /\ j > Len(a)
          <5>1. i - Len(a) = j - Len(a)
            BY <3>1, <3>2, <3>4, <3>5, <3>6, <4>2 DEF IsInjective
          <5> QED
            BY <3>1, <5>1
        <4>a. /\ \A k \in 1 .. Len(a) : a[k] \in Range(a)
              /\ \A k \in 1 .. Len(u) : u[k] \in Range(u)
          BY <3>4 DEF Range
        <4>b. \A k \in 1 .. (Len(a) + Len(u)) : k > Len(a) => (a \o u)[k] \in Range(u)
          BY <3>1, <3>4, <3>5, <4>a
        <4>c. \A k \in 1 .. Len(a) : (a \o u)[k] \in Range(a)
          BY <3>4, <4>a
        <4>3. CASE i \in 1 .. Len(a) /\ j > Len(a)
          BY <3>2, <3>6, <4>3, <4>b, <4>c
        <4>4. CASE j \in 1 .. Len(a) /\ i > Len(a)
          BY <3>2, <3>6, <4>4, <4>b, <4>c
        <4> QED
          BY <3>1, <3>5, <4>1, <4>2, <4>3, <4>4
      <3>7. Range(a \o u) = Range(a) \cup Range(u)
        <4>1. \A i \in 1 .. Len(a) : i \in 1 .. (Len(a) + Len(u))
          BY <3>1
        <4>2. \A i \in 1 .. Len(u) : /\ i + Len(a) \in 1 .. (Len(a) + Len(u)) /\ i + Len(a) > Len(a)
                                     /\ (i + Len(a)) - Len(a) = i
          BY <3>1
        <4>3. Range(a) \subseteq Range(a \o u)
          BY <3>4, <4>1 DEF Range
        <4>4. Range(u) \subseteq Range(a \o u)
          <5> SUFFICES ASSUME NEW i \in 1 .. Len(u) PROVE u[i] \in Range(a \o u)
            BY <3>4 DEF Range
          <5>1. (a \o u)[i + Len(a)] = u[i]
            BY <3>4, <4>2
          <5> QED
            BY <3>4, <4>2, <5>1 DEF Range
        <4>5. Range(a \o u) \subseteq Range(a) \cup Range(u)
          BY <3>4, <3>5 DEF Range
        <4> QED
          BY <4>3, <4>4, <4>5
      <3>8. IsInjective(a \o u)
        BY <3>4, <3>6 DEF IsInjective
      <3> QED
        BY <3>3, <3>7, <3>8 DEF a, u
    <2>2. ASSUME NEW v \in Worker, NEW w \in Worker, v # w
          PROVE  Range(Stock(v)) \cap Range(Stock(w)) = {}
      <3>1. \A o \in Range(Stock(v)) : o[1] = v
        BY <2>1 DEF Owned
      <3>2. \A o \in Range(Stock(w)) : o[1] = w
        BY <2>1 DEF Owned
      <3> QED
        BY <2>2, <3>1, <3>2
    <2> QED
      BY <2>1, <2>2 DEF PoolsAreDisjoint, Apart
  <1> QED
    BY <1>1, PoolInvariant, PTL
=============================================================================
