----------------------------- MODULE ReadBuffer -----------------------------
(***************************************************************************)
(* The incoming side of one connection.  The peer writes requests back to  *)
(* back; the bytes arrive in chunks of any length.  on_read appends a      *)
(* chunk to a fixed buffer, try_process_next cuts whole requests off its   *)
(* front and runs their commands, the rest is moved to the beginning of    *)
(* the buffer when room runs out, and do_read asks for more.               *)
(*                                                                         *)
(* A byte is its offset in the stream of everything the peer wrote, so the *)
(* contents of the buffer say where each byte came from.                   *)
(***************************************************************************)
EXTENDS Integers, Sequences

CONSTANTS
  max_length,   \* size of the buffer
  Shape,        \* the requests a peer may write
  MayFail,      \* whether reading may fail
  MaxRequests   \* bound on the number of requests

\* head bytes tell the size of a request; nothing tells that of a request of
\* unknown type.
ASSUME ReadBufferAssumption ==
  /\ max_length \in Nat \ {0}
  /\ Shape \subseteq [head : Nat \ {0}, size : Nat \ {0}, known : BOOLEAN]
  /\ \A s \in Shape : s.head <= s.size
  /\ MayFail \in BOOLEAN
  /\ MaxRequests \in Nat

VARIABLES
  stream,      \* the requests written by the peer, each at its offset
  written,     \* bytes written by the peer
  received,    \* bytes that reached the buffer
  buffer,      \* buffer_
  start,       \* buffer_start_
  end,         \* buffer_end_
  dispatched,  \* the views given to the commands, in order
  pc           \* "reading": a read is pending

vars == <<stream, written, received, buffer, start, end, dispatched, pc>>

Index == 0 .. max_length - 1

Request == [at : Nat, head : Nat \ {0}, size : Nat \ {0}, known : BOOLEAN]

ReadTypeOK ==
  /\ stream \in Seq(Request)
  /\ written \in Nat /\ received \in Nat /\ received <= written
  /\ buffer \in [Index -> Nat]
  /\ start \in Nat /\ end \in Nat /\ start <= end /\ end <= max_length
  /\ dispatched \in Seq(Seq(Nat))
  /\ pc \in {"reading", "processing", "closed"}

\* The contents of a fresh buffer are arbitrary.
Init ==
  /\ stream = << >> /\ written = 0 /\ received = 0
  /\ buffer = [i \in Index |-> 0]
  /\ start = 0 /\ end = 0
  /\ dispatched = << >>
  /\ pc = "reading"

-----------------------------------------------------------------------------
\* The peer writes a request.
Write(s) ==
  /\ pc # "closed"
  /\ Len(stream) < MaxRequests
  /\ stream' = Append(stream, [at |-> written, head |-> s.head, size |-> s.size, known |-> s.known])
  /\ written' = written + s.size
  /\ UNCHANGED <<received, buffer, start, end, dispatched, pc>>

\* on_read: a chunk of n bytes was stored after buffer_end_.  A read into no
\* room completes at once with nothing.
OnRead(n) ==
  /\ pc = "reading"
  /\ n <= max_length - end /\ n <= written - received
  /\ n = 0 => end = max_length
  /\ buffer' = [i \in Index |-> IF i \in end .. end + n - 1 THEN received + (i - end) ELSE buffer[i]]
  /\ received' = received + n
  /\ end' = end + n
  /\ pc' = "processing"
  /\ UNCHANGED <<stream, written, start, dispatched>>

\* on_read with an error: the socket is closed and nothing is read any more.
OnReadError ==
  /\ MayFail
  /\ pc = "reading"
  /\ pc' = "closed"
  /\ UNCHANGED <<stream, written, received, buffer, start, end, dispatched>>

\* get_message_size of the span from buffer_start_ to buffer_end_: 0 until the
\* header is there, and for ever when the type is unknown.  Bytes that are not
\* the beginning of a request are taken for one all the same.
MessageSize ==
  IF start = end THEN {0}
  ELSE LET first == {i \in DOMAIN stream : stream[i].at = buffer[start]}
       IN IF first = {} THEN 0 .. max_length
          ELSE {IF stream[i].known /\ stream[i].head <= end - start THEN stream[i].size ELSE 0 : i \in first}

\* Mutant: a request is dispatched when its header is there.
DispatchEarly ==
  /\ pc = "processing"
  /\ \E n \in MessageSize :
       /\ n # 0 /\ start + n <= max_length
       /\ dispatched' = Append(dispatched, [i \in 1 .. n |-> buffer[start + i - 1]])
       /\ start' = start + n
  /\ UNCHANGED <<stream, written, received, buffer, end, pc>>

\* One round of the loop of try_process_next: the command is run on the view
\* and its answer sent.
Dispatch ==
  /\ pc = "processing"
  /\ \E n \in MessageSize :
       /\ n # 0 /\ n <= end - start
       /\ dispatched' = Append(dispatched, [i \in 1 .. n |-> buffer[start + i - 1]])
       /\ start' = start + n
  /\ UNCHANGED <<stream, written, received, buffer, end, pc>>

\* Mutant: the bytes are moved one place too far.
MovedOff(b, s, e) == [i \in Index |-> IF i < e - s THEN b[(s + i + 1) % max_length] ELSE b[i]]

\* memmove(buffer_, buffer_ + s, e - s)
Moved(b, s, e) == [i \in Index |-> IF i < e - s THEN b[s + i] ELSE b[i]]

\* Whether compact_buffer_if_needed, or else do_read, moves the rest to the
\* beginning.
MustMove == start > max_length \div 2 \/ end = max_length

\* Mutant: do_read does not make room.
BreakTight ==
  /\ pc = "processing"
  /\ \E n \in MessageSize : n = 0 \/ n > end - start
  /\ \/ start = end /\ start' = 0 /\ end' = 0 /\ UNCHANGED buffer
     \/ start # end /\ start > max_length \div 2
        /\ buffer' = Moved(buffer, start, end) /\ end' = end - start /\ start' = 0
     \/ start # end /\ ~(start > max_length \div 2) /\ UNCHANGED <<buffer, start, end>>
  /\ pc' = "reading"
  /\ UNCHANGED <<stream, written, received, dispatched>>

\* Mutant: do_read drops a full buffer instead of moving the rest.
BreakReset ==
  /\ pc = "processing"
  /\ \E n \in MessageSize : n = 0 \/ n > end - start
  /\ \/ (start = end \/ MustMove) /\ start' = 0 /\ end' = 0 /\ UNCHANGED buffer
     \/ start # end /\ ~MustMove /\ UNCHANGED <<buffer, start, end>>
  /\ pc' = "reading"
  /\ UNCHANGED <<stream, written, received, dispatched>>

\* The loop ends: compact_buffer_if_needed and do_read.
Break ==
  /\ pc = "processing"
  /\ \E n \in MessageSize : n = 0 \/ n > end - start
  /\ \/ start = end /\ start' = 0 /\ end' = 0 /\ UNCHANGED buffer
     \/ start # end /\ MustMove
        /\ buffer' = Moved(buffer, start, end) /\ end' = end - start /\ start' = 0
     \/ start # end /\ ~MustMove /\ UNCHANGED <<buffer, start, end>>
  /\ pc' = "reading"
  /\ UNCHANGED <<stream, written, received, dispatched>>

Next ==
  \/ \E s \in Shape : Write(s)
  \/ \E n \in 0 .. max_length : OnRead(n)
  \/ OnReadError \/ Dispatch \/ Break

Spec == Init /\ [][Next]_vars

(***************************************************************************)
(* What was written arrives sooner or later, and a handler that was started*)
(* runs to its end.  The peer owes nothing.                                *)
(***************************************************************************)
Fairness ==
  /\ WF_vars(\E n \in 1 .. max_length : OnRead(n))
  /\ WF_vars(Dispatch \/ Break)

FairSpec == Spec /\ Fairness

-----------------------------------------------------------------------------
(***************************************************************************)
(* The commands see the requests of the peer: the n-th view holds exactly  *)
(* the bytes of the n-th request, however the stream was cut into chunks   *)
(* and however often the rest was moved inside the buffer.                 *)
(***************************************************************************)
ViewsAreRequests ==
  /\ Len(dispatched) <= Len(stream)
  /\ \A n \in DOMAIN dispatched :
       dispatched[n] = [i \in 1 .. stream[n].size |-> stream[n].at + (i - 1)]

(***************************************************************************)
(* A read without room, which completes at once with nothing and keeps the *)
(* thread spinning, is started only in front of a request that can never   *)
(* be served: one longer than the buffer or of unknown type                *)
(* (connection.ipp:253-264).                                               *)
(***************************************************************************)
SpinsOnlyOnUnservable ==
  pc = "reading" /\ end = max_length =>
    LET next == stream[Len(dispatched) + 1] IN ~next.known \/ next.size > max_length

\* Requests 1 to n can be cut off the stream.
Servable(n) == \A i \in 1 .. n : stream[i].known /\ stream[i].size <= max_length

(***************************************************************************)
(* Every request reaches its command, provided that it and those before it *)
(* are known and fit the buffer, and the connection lasts.                 *)
(***************************************************************************)
EveryRequestServed ==
  \A n \in 1 .. MaxRequests :
    (n <= Len(stream) /\ Servable(n)) ~> (Len(dispatched) >= n \/ pc = "closed")

\* The inductive invariant behind ViewsAreRequests and SpinsOnlyOnUnservable:
\* the buffer holds the last bytes received, in order, beginning with the first
\* byte of the first request not yet dispatched.
Consumed == received - (end - start)
Contiguous == \A i \in start .. end - 1 : buffer[i] = Consumed + (i - start)
Chained ==
  /\ \A n \in DOMAIN stream :
       stream[n].at + stream[n].size = IF n < Len(stream) THEN stream[n + 1].at ELSE written
  /\ \A m, n \in DOMAIN stream : m < n => stream[m].at < stream[n].at
  /\ \A n \in DOMAIN stream : stream[n].head <= stream[n].size /\ stream[n].at < written
Framed ==
  IF Len(dispatched) < Len(stream) THEN Consumed = stream[Len(dispatched) + 1].at ELSE Consumed = written
ReadInv ==
  /\ ReadTypeOK /\ Chained /\ Contiguous /\ Framed
  /\ ViewsAreRequests /\ SpinsOnlyOnUnservable
  /\ pc = "reading" /\ end = max_length => start = 0
=============================================================================
