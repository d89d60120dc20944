-------------------------- MODULE ReadBufferProofs --------------------------
(***************************************************************************)
(* Framing is right for every size of the buffer, every shape of requests  *)
(* and every way the stream is cut into chunks.                            *)
(***************************************************************************)
EXTENDS ReadBuffer, TLAPS

LEMMA RequestFields ==
  ASSUME ReadTypeOK, NEW i \in DOMAIN stream
  PROVE  /\ stream[i] \in Request
         /\ stream[i].at \in Nat /\ stream[i].head \in Nat \ {0} /\ stream[i].size \in Nat \ {0}
         /\ stream[i].known \in BOOLEAN
  <1>1. stream[i] \in Request
    BY DEF ReadTypeOK
  <1> QED
    BY <1>1 DEF Request

\* The first byte kept is that of the first request not yet dispatched, and
\* get_message_size finds that request and no other.
LEMMA FirstIsNext ==
  ASSUME ReadInv, start # end,
         NEW k, k = Len(dispatched) + 1
  PROVE  /\ k \in DOMAIN stream /\ Consumed = stream[k].at
         /\ MessageSize = {IF stream[k].known /\ stream[k].head <= end - start THEN stream[k].size ELSE 0}
  <1> USE DEF ReadInv
  <1>1. /\ start \in Nat /\ end \in Nat /\ start < end /\ end <= max_length
        /\ received \in Nat /\ written \in Nat /\ received <= written /\ max_length \in Nat
        /\ Len(dispatched) \in Nat /\ Len(stream) \in Nat /\ DOMAIN stream = 1 .. Len(stream)
    BY ReadBufferAssumption DEF ReadTypeOK
  <1>2. Consumed < written /\ Consumed \in Int
    BY <1>1 DEF Consumed
  <1>3. Len(dispatched) < Len(stream)
    BY <1>1, <1>2 DEF Framed
  <1>4. k \in DOMAIN stream /\ Consumed = stream[k].at
    BY <1>1, <1>3 DEF Framed
  <1>5. buffer[start] = Consumed
    BY <1>1, <1>2 DEF Contiguous
  <1>6. {i \in DOMAIN stream : stream[i].at = buffer[start]} = {k}
    <2>1. ASSUME NEW i \in DOMAIN stream, i # k
          PROVE  stream[i].at # stream[k].at
      <3>1. stream[i].at \in Nat /\ stream[k].at \in Nat
        BY <1>4, RequestFields
      <3>2. i < k \/ k < i
        BY <1>1, <1>4, <2>1
      <3> QED
        BY <1>4, <2>1, <3>1, <3>2 DEF Chained
    <2> QED
      BY <1>4, <1>5, <2>1
  <1> QED
    BY <1>4, <1>6 DEF MessageSize

\* The numbers of a state.
LEMMA Numbers ==
  ASSUME ReadTypeOK
  PROVE  /\ start \in Nat /\ end \in Nat /\ start <= end /\ end <= max_length
         /\ received \in Nat /\ written \in Nat /\ received <= written
         /\ max_length \in Nat \ {0} /\ Consumed \in Int
         /\ Len(dispatched) \in Nat /\ Len(stream) \in Nat
         /\ DOMAIN stream = 1 .. Len(stream) /\ DOMAIN dispatched = 1 .. Len(dispatched)
  BY ReadBufferAssumption DEF ReadTypeOK, Consumed

LEMMA WriteStep ==
  ASSUME ReadInv, NEW s \in Shape, Write(s)
  PROVE  ReadInv'
  <1> USE DEF ReadInv
  <1> DEFINE r == [at |-> written, head |-> s.head, size |-> s.size, known |-> s.known]
  <1> DEFINE L == Len(stream)
  <1>0. /\ stream' = Append(stream, r) /\ written' = written + s.size
        /\ UNCHANGED <<received, buffer, start, end, dispatched, pc>>
    BY DEF Write
  <1>1. /\ s.head \in Nat \ {0} /\ s.size \in Nat \ {0} /\ s.known \in BOOLEAN /\ s.head <= s.size
    BY ReadBufferAssumption
  <1>2. r \in Request
    BY <1>1, Numbers DEF Request
  <1>3. /\ stream' \in Seq(Request) /\ Len(stream') = L + 1 /\ DOMAIN stream' = 1 .. L + 1
        /\ stream'[L + 1] = r /\ \A i \in 1 .. L : stream'[i] = stream[i]
        /\ L \in Nat /\ DOMAIN stream = 1 .. L
    BY <1>0, <1>2 DEF ReadTypeOK
  <1>L. L \in Nat
    BY <1>3
  <1>4. r.at = written /\ r.size = s.size /\ r.head = s.head
    OBVIOUS
  <1>5. \A i \in 1 .. L : /\ stream[i].at \in Nat /\ stream[i].size \in Nat
    BY <1>3, RequestFields
  <1> HIDE DEF r
  <1>t. ReadTypeOK'
    <2>1. written' \in Nat /\ received' <= written'
      BY <1>0, <1>1, Numbers
    <2> QED
      BY <1>0, <1>3, <2>1 DEF ReadTypeOK
  <1>c. Consumed' = Consumed
    BY <1>0 DEF Consumed
  <1>6. Chained'
    <2>1. ASSUME NEW n \in 1 .. L + 1
          PROVE  stream'[n].at + stream'[n].size = IF n < L + 1 THEN stream'[n + 1].at ELSE written'
      <3>1. CASE n = L + 1
        BY <1>0, <1>3, <1>4, <3>1
      <3>2. CASE n = L
        BY <1>3, <1>4, <3>2 DEF Chained
      <3>3. CASE n < L
        <4>1. n \in 1 .. L /\ n + 1 \in 1 .. L /\ n < L + 1
          BY <1>3, <3>3
        <4> QED
          BY <1>3, <3>3, <4>1 DEF Chained
      <3>4. n = L + 1 \/ n = L \/ n < L
        BY <1>L, SMTT(20)
      <3> QED
        BY <3>1, <3>2, <3>3, <3>4
    <2>2. ASSUME NEW m \in 1 .. L + 1, NEW n \in 1 .. L + 1, m < n
          PROVE  stream'[m].at < stream'[n].at
      <3>1. m \in 1 .. L
        BY <1>3, <2>2
      <3>2. CASE n = L + 1
        BY <1>3, <1>4, <3>1, <3>2 DEF Chained
      <3>3. CASE n \in 1 .. L
        BY <1>3, <2>2, <3>1, <3>3 DEF Chained
      <3> QED
        BY <1>3, <3>2, <3>3
    <2>3. ASSUME NEW n \in 1 .. L + 1
          PROVE  stream'[n].head <= stream'[n].size /\ stream'[n].at < written'
      <3>1. CASE n = L + 1
        BY <1>0, <1>1, <1>3, <1>4, <3>1, Numbers
      <3>2. CASE n \in 1 .. L
        <4>1. stream[n].at < written /\ stream[n].head <= stream[n].size
          BY <1>3, <3>2 DEF Chained
        <4>2. stream[n].at < written'
          <5>1. \A a, b, c \in Nat : a < b => a < b + c
            OBVIOUS
          <5>2. stream[n].at \in Nat /\ written \in Nat /\ s.size \in Nat /\ written' = written + s.size
            BY <1>0, <1>1, <1>5, <3>2, Numbers
          <5> QED
            BY <4>1, <5>1, <5>2, Zenon
        <4> QED
          BY <1>3, <3>2, <4>1, <4>2
      <3> QED
        BY <1>3, <3>1, <3>2
    <2> QED
      BY <1>3, <2>1, <2>2, <2>3 DEF Chained
  <1>7. Contiguous'
    BY <1>0, <1>c DEF Contiguous
  <1>8. Framed'
    <2>1. Len(dispatched) <= L
      BY DEF ViewsAreRequests
    <2>2. CASE Len(dispatched) < L
      BY <1>0, <1>3, <1>c, <2>2, Numbers DEF Framed
    <2>3. CASE Len(dispatched) = L
      BY <1>0, <1>3, <1>4, <1>c, <2>3 DEF Framed
    <2>4. Len(dispatched) < L \/ Len(dispatched) = L
      <3>1. Len(dispatched) \in Nat
        BY Numbers
      <3> HIDE DEF L
      <3> QED
        BY <1>L, <2>1, <3>1
    <2> QED
      BY <2>2, <2>3, <2>4
  <1>9. ViewsAreRequests'
    <2>1. Len(dispatched) <= L + 1 /\ \A n \in DOMAIN dispatched : n \in 1 .. L
      BY <1>3, Numbers DEF ViewsAreRequests
    <2> QED
      BY <1>0, <1>3, <2>1 DEF ViewsAreRequests
  <1>10. SpinsOnlyOnUnservable' /\ (pc' = "reading" /\ end' = max_length => start' = 0)
    <2>1. ASSUME pc = "reading", end = max_length
          PROVE  start = 0 /\ Len(dispatched) + 1 \in 1 .. L
      <3>1. start # end
        BY <2>1, Numbers
      <3> QED
        BY <1>3, <2>1, <3>1, FirstIsNext
    <2> QED
      BY <1>0, <1>3, <2>1 DEF SpinsOnlyOnUnservable
  <1> QED
    BY <1>t, <1>6, <1>7, <1>8, <1>9, <1>10

LEMMA OnReadStep ==
  ASSUME ReadInv, NEW n \in 0 .. max_length, OnRead(n)
  PROVE  ReadInv'
  <1> USE DEF ReadInv
  <1>0. /\ n \in Nat /\ n <= max_length - end /\ n <= written - received
        /\ buffer' = [i \in Index |-> IF i \in end .. end + n - 1 THEN received + (i - end) ELSE buffer[i]]
        /\ received' = received + n /\ end' = end + n /\ pc' = "processing"
        /\ UNCHANGED <<stream, written, start, dispatched>>
    BY Numbers DEF OnRead
  <1>n. /\ n \in Nat /\ n <= max_length - end /\ n <= written - received
        /\ start \in Nat /\ end \in Nat /\ start <= end /\ max_length \in Nat
        /\ received \in Nat /\ written \in Nat
    BY <1>0, Numbers
  <1>c. Consumed' = Consumed
    BY <1>0, Numbers DEF Consumed
  <1>1. ReadTypeOK'
    <2>1. buffer' \in [Index -> Nat]
      <3>1. ASSUME NEW i \in Index, i \in end .. end + n - 1
            PROVE  received + (i - end) \in Nat
        BY <1>n, <3>1
      <3> QED
        BY <1>0, <3>1 DEF ReadTypeOK
    <2>2. received' \in Nat /\ received' <= written /\ end' \in Nat /\ start <= end' /\ end' <= max_length
      <3>1. \A a, b, c \in Nat : a <= b - c => c + a \in Nat /\ c + a <= b
        OBVIOUS
      <3>2. \A a, b, c \in Nat : a <= b => a <= b + c
        OBVIOUS
      <3>3. received + n \in Nat /\ received + n <= written
        BY <1>n, <3>1, Zenon
      <3>4. end + n \in Nat /\ start <= end + n /\ end + n <= max_length
        BY <1>n, <3>1, <3>2, Zenon
      <3>5. received' = received + n /\ end' = end + n
        BY <1>0, Zenon
      <3> QED
        BY <3>3, <3>4, <3>5, Zenon
    <2> QED
      BY <1>0, <2>1, <2>2 DEF ReadTypeOK
  <1>2. Contiguous'
    <2>1. ASSUME NEW i \in start .. end + n - 1
          PROVE  buffer'[i] = Consumed + (i - start)
      <3>1. i \in Index
        BY <1>n DEF Index
      <3>2. CASE i \in end .. end + n - 1
        <4>1. buffer'[i] = received + (i - end)
          BY <1>0, <3>1, <3>2
        <4>2. i \in Int /\ received \in Int /\ end \in Int /\ start \in Int
          BY <1>n
        <4>3. received + (i - end) = (received - (end - start)) + (i - start)
          BY <4>2, SMTT(20)
        <4> QED
          BY <4>1, <4>3, Zenon DEF Consumed
      <3>3. CASE i \notin end .. end + n - 1
        <4>1. i \in start .. end - 1
          BY <1>0, <3>3, Numbers
        <4> QED
          BY <1>0, <3>1, <3>3, <4>1 DEF Contiguous
      <3> QED
        BY <3>2, <3>3
    <2>2. ASSUME NEW i \in start' .. end' - 1
          PROVE  i \in start .. end + n - 1 /\ start' = start
      BY <1>0, Numbers
    <2>3. \A i \in start' .. end' - 1 : buffer'[i] = Consumed' + (i - start')
      BY <1>c, <2>1, <2>2
    <2> QED
      BY <2>3 DEF Contiguous
  <1>3. Framed' /\ Chained' /\ ViewsAreRequests'
    BY <1>0, <1>c DEF Framed, Chained, ViewsAreRequests
  <1>4. SpinsOnlyOnUnservable' /\ pc' # "reading"
    BY <1>0 DEF SpinsOnlyOnUnservable
  <1> QED
    BY <1>1, <1>2, <1>3, <1>4
LEMMA IsASeq ==
  ASSUME NEW S, NEW n \in Nat, NEW v \in [1 .. n -> S]
  PROVE  v \in Seq(S)
  OBVIOUS

LEMMA DispatchStep ==
  ASSUME ReadInv, Dispatch
  PROVE  ReadInv'
  <1> USE DEF ReadInv
  <1> DEFINE k == Len(dispatched) + 1
  <1>1. PICK n \in MessageSize :
          /\ n # 0 /\ n <= end - start
          /\ dispatched' = Append(dispatched, [i \in 1 .. n |-> buffer[start + i - 1]])
          /\ start' = start + n
    BY DEF Dispatch
  <1>2. pc = "processing" /\ UNCHANGED <<stream, written, received, buffer, end, pc>>
    BY DEF Dispatch
  <1>3. start # end
    BY <1>1 DEF MessageSize
  <1>4. /\ k \in DOMAIN stream /\ Consumed = stream[k].at
        /\ n = stream[k].size /\ n \in Nat \ {0}
    <2>1. /\ k \in DOMAIN stream /\ Consumed = stream[k].at
          /\ MessageSize = {IF stream[k].known /\ stream[k].head <= end - start THEN stream[k].size ELSE 0}
      BY <1>3, FirstIsNext
    <2>2. n = stream[k].size
      BY <1>1, <2>1
    <2> QED
      BY <2>1, <2>2, RequestFields
  <1>n. n \in Nat \ {0} /\ n <= end - start
    BY <1>1, <1>4
  <1> DEFINE v == [i \in 1 .. n |-> buffer[start + i - 1]]
  <1>5. v = [i \in 1 .. stream[k].size |-> stream[k].at + (i - 1)] /\ v \in Seq(Nat)
    <2>1. ASSUME NEW i \in 1 .. n
          PROVE  buffer[start + i - 1] = stream[k].at + (i - 1) /\ buffer[start + i - 1] \in Nat
      <3>1. start + i - 1 \in start .. end - 1 /\ start + i - 1 \in Index
            /\ (start + i - 1) - start = i - 1
        <4>1. /\ start \in Nat /\ end \in Nat /\ end <= max_length /\ max_length \in Nat
              /\ i \in Nat /\ 1 <= i /\ i <= n
          BY <1>n, Numbers
        <4> QED
          BY <1>n, <4>1 DEF Index
      <3>2. buffer[start + i - 1] = Consumed + ((start + i - 1) - start)
        BY <3>1 DEF Contiguous
      <3> QED
        BY <1>4, <3>1, <3>2 DEF ReadTypeOK
    <2>2. v = [i \in 1 .. stream[k].size |-> stream[k].at + (i - 1)]
      BY <1>4, <2>1
    <2>3. v \in [1 .. n -> Nat]
      BY <2>1
    <2>4. v \in Seq(Nat)
      <3> HIDE DEF v
      <3> QED
        BY <1>n, <2>3, IsASeq
    <2> QED
      BY <2>2, <2>4
  <1>6. /\ dispatched' \in Seq(Seq(Nat)) /\ Len(dispatched') = k /\ dispatched'[k] = v
        /\ DOMAIN dispatched' = 1 .. k
        /\ \A i \in 1 .. k - 1 : dispatched'[i] = dispatched[i]
    <2>1. dispatched' = Append(dispatched, v) /\ dispatched \in Seq(Seq(Nat)) /\ v \in Seq(Nat)
      BY <1>1, <1>5 DEF ReadTypeOK
    <2> HIDE DEF v
    <2> QED
      BY <2>1
  <1> HIDE DEF v
  <1>7. start' \in Nat /\ start' <= end /\ start < start'
    <2>1. start \in Nat /\ end \in Nat /\ start' = start + n
      BY <1>1, Numbers
    <2> QED
      BY <1>n, <2>1
  <1>c. Consumed' = Consumed + n
    <2>1. received \in Nat /\ start \in Nat /\ end \in Nat
      BY Numbers
    <2>2. received' = received /\ end' = end /\ start' = start + n
      BY <1>1, <1>2
    <2> QED
      BY <1>n, <2>1, <2>2 DEF Consumed
  <1>8. ReadTypeOK'
    BY <1>2, <1>6, <1>7 DEF ReadTypeOK
  <1>9. Chained'
    BY <1>2 DEF Chained
  <1>10. Contiguous'
    <2>1. ASSUME NEW i \in start' .. end - 1
          PROVE  buffer[i] = Consumed' + (i - start')
      <3>1. i \in start .. end - 1 /\ i \in Int
        BY <1>7, Numbers
      <3>2. buffer[i] = Consumed + (i - start)
        BY <3>1 DEF Contiguous
      <3> QED
        <4>1. Consumed \in Int /\ start \in Nat /\ start' = start + n
          BY <1>1, Numbers
        <4> QED
          BY <1>n, <1>c, <3>1, <3>2, <4>1
    <2> QED
      BY <1>2, <2>1 DEF Contiguous
  <1>11. Framed'
    <2>1. Consumed' = IF k < Len(stream) THEN stream[k + 1].at ELSE written
      BY <1>4, <1>c DEF Chained
    <2> QED
      BY <1>2, <1>6, <2>1 DEF Framed
  <1>12. ViewsAreRequests'
    <2>1. k <= Len(stream)
      BY <1>4, Numbers
    <2>2. ASSUME NEW i \in 1 .. k
          PROVE  dispatched'[i] = [j \in 1 .. stream[i].size |-> stream[i].at + (j - 1)]
      <3>1. CASE i = k
        BY <1>5, <1>6, <3>1
      <3>2. CASE i # k
        <4>1. i \in 1 .. k - 1 /\ i \in DOMAIN dispatched
          BY <3>2, Numbers
        <4> QED
          BY <1>6, <4>1 DEF ViewsAreRequests
      <3> QED
        BY <3>1, <3>2
    <2> QED
      BY <1>2, <1>6, <2>1, <2>2 DEF ViewsAreRequests
  <1>13. SpinsOnlyOnUnservable' /\ pc' # "reading"
    BY <1>2 DEF SpinsOnlyOnUnservable
  <1> QED
    BY <1>8, <1>9, <1>10, <1>11, <1>12, <1>13

LEMMA BreakStep ==
  ASSUME ReadInv, Break
  PROVE  ReadInv'
  <1> USE DEF ReadInv
  <1>1. /\ pc' = "reading" /\ UNCHANGED <<stream, written, received, dispatched>>
        /\ \E n \in MessageSize : n = 0 \/ n > end - start
    BY DEF Break
  <1>2. Chained' /\ ViewsAreRequests'
    BY <1>1 DEF Chained, ViewsAreRequests
  <1>3. CASE start = end /\ start' = 0 /\ end' = 0 /\ UNCHANGED buffer
    <2>c. Consumed' = Consumed
      BY <1>1, <1>3, Numbers DEF Consumed
    <2>1. ReadTypeOK'
      BY <1>1, <1>3, Numbers DEF ReadTypeOK
    <2>2. Contiguous' /\ Framed'
      <3>1. start' .. end' - 1 = {}
        BY <1>3
      <3> QED
        BY <1>1, <2>c, <3>1 DEF Contiguous, Framed
    <2>3. end' # max_length
      BY <1>3, Numbers
    <2> QED
      BY <1>2, <2>1, <2>2, <2>3 DEF SpinsOnlyOnUnservable
  <1>4. CASE start # end /\ ~MustMove /\ UNCHANGED <<buffer, start, end>>
    <2>1. ReadTypeOK' /\ Contiguous' /\ Framed'
      BY <1>1, <1>4 DEF ReadTypeOK, Contiguous, Framed, Consumed
    <2>2. end' # max_length
      BY <1>4 DEF MustMove
    <2> QED
      BY <1>2, <2>1, <2>2 DEF SpinsOnlyOnUnservable
  <1>5. CASE /\ start # end /\ buffer' = Moved(buffer, start, end)
             /\ end' = end - start /\ start' = 0
    <2>c. Consumed' = Consumed
      BY <1>1, <1>5, Numbers DEF Consumed
    <2>0. \A i \in Index : i < end - start => start + i \in Index /\ start + i \in start .. end - 1
      BY Numbers DEF Index
    <2>1. ReadTypeOK'
      <3>1. buffer' \in [Index -> Nat]
        BY <1>5, <2>0 DEF Moved, ReadTypeOK
      <3>2. start' \in Nat /\ end' \in Nat /\ start' <= end' /\ end' <= max_length
        BY <1>5, Numbers
      <3> QED
        BY <1>1, <3>1, <3>2 DEF ReadTypeOK
    <2>2. Contiguous'
      <3>1. ASSUME NEW i \in start' .. end' - 1
            PROVE  buffer'[i] = Consumed' + (i - start')
        <4>1. i \in Index /\ i < end - start /\ i \in Int
          BY <1>5, Numbers DEF Index
        <4>2. buffer'[i] = buffer[start + i]
          BY <1>5, <4>1 DEF Moved
        <4>3. buffer[start + i] = Consumed + ((start + i) - start)
          BY <2>0, <4>1 DEF Contiguous
        <4> QED
          BY <1>5, <2>c, <4>1, <4>2, <4>3, Numbers
      <3> QED
        BY <3>1 DEF Contiguous
    <2>3. Framed'
      BY <1>1, <2>c DEF Framed
    <2>4. SpinsOnlyOnUnservable'
      <3> DEFINE k == Len(dispatched) + 1
      <3> SUFFICES ASSUME end' = max_length
                   PROVE  ~stream[k].known \/ stream[k].size > max_length
        BY <1>1 DEF SpinsOnlyOnUnservable
      <3>1. end - start = max_length
        BY <1>5
      <3>2. /\ k \in DOMAIN stream
            /\ MessageSize = {IF stream[k].known /\ stream[k].head <= end - start THEN stream[k].size ELSE 0}
        BY <1>5, FirstIsNext
      <3>3. /\ stream[k].head \in Nat /\ stream[k].size \in Nat \ {0}
            /\ stream[k].head <= stream[k].size
        BY <3>2, RequestFields DEF Chained
      <3>4. CASE ~stream[k].known
        BY <3>4
      <3>5. CASE ~(stream[k].head <= end - start)
        BY <3>1, <3>3, <3>5, Numbers
      <3>6. CASE stream[k].known /\ stream[k].head <= end - start
        <4>1. stream[k].size = 0 \/ stream[k].size > end - start
          BY <1>1, <3>2, <3>6
        <4> QED
          BY <3>1, <3>3, <4>1
      <3> QED
        BY <3>4, <3>5, <3>6
    <2> QED
      BY <1>2, <1>5, <2>1, <2>2, <2>3, <2>4
  <1> QED
    BY <1>3, <1>4, <1>5 DEF Break

\* The buffer always begins with the first request that was not dispatched.
LEMMA ReadInvInductive == Spec => []ReadInv
  <1>1. Init => ReadInv
    <2> SUFFICES ASSUME Init PROVE ReadInv
      OBVIOUS
    <2>1. max_length \in Nat \ {0}
      BY ReadBufferAssumption
    <2>2. ReadTypeOK
      BY <2>1 DEF Init, ReadTypeOK, Index
    <2>3. Consumed = 0 /\ start .. end - 1 = {} /\ Len(stream) = 0 /\ Len(dispatched) = 0
          /\ DOMAIN stream = {} /\ DOMAIN dispatched = {} /\ end # max_length /\ written = 0
      BY <2>1 DEF Init, Consumed
    <2> QED
      BY <2>2, <2>3 DEF ReadInv, Chained, Contiguous, Framed, ViewsAreRequests, SpinsOnlyOnUnservable
  <1>2. ReadInv /\ [Next]_vars => ReadInv'
    <2> SUFFICES ASSUME ReadInv, [Next]_vars PROVE ReadInv'
      OBVIOUS
    <2>1. ASSUME NEW s \in Shape, Write(s) PROVE ReadInv'
      BY <2>1, WriteStep
    <2>2. ASSUME NEW n \in 0 .. max_length, OnRead(n) PROVE ReadInv'
      BY <2>2, OnReadStep
    <2>3. CASE OnReadError
      BY <2>3 DEF OnReadError, ReadInv, ReadTypeOK, Chained, Contiguous, Framed, Consumed,
                  ViewsAreRequests, SpinsOnlyOnUnservable
    <2>4. CASE Dispatch
      BY <2>4, DispatchStep
    <2>5. CASE Break
      BY <2>5, BreakStep
    <2>6. CASE UNCHANGED vars
      BY <2>6 DEF vars, ReadInv, ReadTypeOK, Chained, Contiguous, Framed, Consumed,
                  ViewsAreRequests, SpinsOnlyOnUnservable
    <2> QED
      BY <2>1, <2>2, <2>3, <2>4, <2>5, <2>6 DEF Next
  <1> QED
    BY <1>1, <1>2, PTL DEF Spec

\* buffer_start_ never passes buffer_end_ and neither leaves the buffer, whatever
\* on_read, try_process_next and compact_buffer_if_needed do to them.
THEOREM BufferTypeCorrect == Spec => []ReadTypeOK
  <1>1. ReadInv => ReadTypeOK
    BY DEF ReadInv
  <1> QED
    BY <1>1, ReadInvInductive, PTL

\* try_process_next gives each command exactly the bytes of its request, for
\* every buffer size, every shape of requests and every cut of the stream.
THEOREM EveryViewIsItsRequest == Spec => []ViewsAreRequests
  <1>1. ReadInv => ViewsAreRequests
    BY DEF ReadInv
  <1> QED
    BY <1>1, ReadInvInductive, PTL

\* do_read is left without room only in front of a request that is longer than
\* the buffer or of a type get_message_size does not know.
THEOREM SpinningNeedsUnservable == Spec => []SpinsOnlyOnUnservable
  <1>1. ReadInv => SpinsOnlyOnUnservable
    BY DEF ReadInv
  <1> QED
    BY <1>1, ReadInvInductive, PTL
=============================================================================
