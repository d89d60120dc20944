----------------------------- MODULE WriteQueue -----------------------------
(***************************************************************************)
(* The outgoing side of one connection: send() posts on_send to the pool,  *)
(* on_send appends to pending_writes_ and starts a write when the queue    *)
(* was empty, on_write removes the message it takes to be the one written  *)
(* and starts the next.  pending_writes_ is a circular_buffer: an append   *)
(* to a full one overwrites its front.  The connection has no strand, so   *)
(* its handlers run on any free thread, several at a time.                 *)
(*                                                                         *)
(* Messages are numbered in the order in which send() is called for them.  *)
(***************************************************************************)
EXTENDS Integers, Sequences, SequencesExt

CONSTANTS
  Worker,    \* threads that run io_context::run
  CAPACITY,  \* pending_writes_.set_capacity
  WINDOW,    \* unanswered requests the client lets pile up
  MayFail,   \* whether the peer may break the connection
  MaxSent    \* bound on the number of messages

ASSUME WriteQueueAssumption ==
  /\ CAPACITY \in Nat \ {0} /\ WINDOW \in Nat /\ MaxSent \in Nat
  /\ MayFail \in BOOLEAN

VARIABLES
  sent,      \* how many times send() was called
  posted,    \* on_send handlers waiting for a thread
  pending,   \* pending_writes_
  inflight,  \* messages given to async_write whose write is not complete
  done,      \* on_write handlers waiting for a thread, with their error_code
  wire,      \* what the peer has received
  in_use,    \* messages with in_use_ set: the pool will not hand them out
  open,      \* the socket
  pc,        \* where each thread is
  crossed    \* history: an on_send pushed while another was between its push
             \* and its look at the size, and no write was started since

vars == <<sent, posted, pending, inflight, done, wire, in_use, open, pc, crossed>>

Message == Nat \ {0}

\* "pushed": on_send before it looks at the size; "popped": on_write after the
\* removal of the front; "write_next": about to start a write.
Where == {"idle", "pushed", "popped", "write_next"}

TypeOK ==
  /\ sent \in Nat
  /\ posted \in Seq(Message) /\ inflight \in Seq(Message) /\ wire \in Seq(Message)
  /\ pending \in Seq(Message) /\ Len(pending) <= CAPACITY
  /\ done \in Seq({"ok", "error"})
  /\ in_use \subseteq Message
  /\ open \in BOOLEAN
  /\ pc \in [Worker -> Where]
  /\ crossed \in BOOLEAN

Init ==
  /\ sent = 0
  /\ posted = << >> /\ pending = << >> /\ inflight = << >> /\ done = << >> /\ wire = << >>
  /\ in_use = {}
  /\ open = TRUE
  /\ pc = [w \in Worker |-> "idle"]
  /\ crossed = FALSE

-----------------------------------------------------------------------------
\* A thread answers a request: a message is taken from the pool, filled by the
\* command, and send() posts on_send.
Send ==
  /\ \E w \in Worker : pc[w] = "idle"
  /\ sent < MaxSent
  /\ sent - Len(wire) < WINDOW
  /\ sent' = sent + 1
  /\ posted' = Append(posted, sent + 1)
  /\ in_use' = in_use \cup {sent + 1}
  /\ UNCHANGED <<pending, inflight, done, wire, open, pc, crossed>>

\* Mutant: an unbounded queue.
PushUnbounded(q, m) == Append(q, m)

\* circular_buffer::push_back
PushBack(q, m) == IF Len(q) < CAPACITY THEN Append(q, m) ELSE Append(Tail(q), m)

\* on_send: the message is queued; nothing protects what follows.
OnSend(w) ==
  /\ pc[w] = "idle"
  /\ posted # << >>
  /\ pending' = PushBack(pending, Head(posted))
  /\ posted' = Tail(posted)
  /\ pc' = [pc EXCEPT ![w] = "pushed"]
  /\ crossed' = (crossed \/ \E v \in Worker : pc[v] = "pushed")
  /\ UNCHANGED <<sent, inflight, done, wire, in_use, open>>

\* Mutant: every on_send starts a write.
OnSendEager(w) ==
  /\ pc[w] = "pushed"
  /\ pc' = [pc EXCEPT ![w] = "write_next"]
  /\ UNCHANGED <<sent, posted, pending, inflight, done, wire, in_use, open, crossed>>

\* The rest of on_send: with more than one message queued it leaves the writing
\* to others.
OnSendContinues(w) ==
  /\ pc[w] = "pushed"
  /\ pc' = [pc EXCEPT ![w] = IF Len(pending) > 1 THEN "idle" ELSE "write_next"]
  /\ UNCHANGED <<sent, posted, pending, inflight, done, wire, in_use, open, crossed>>

WriteNext(w) ==
  /\ pc[w] = "write_next"
  /\ pc' = [pc EXCEPT ![w] = "idle"]
  /\ \/ pending = << >> /\ UNCHANGED <<inflight, crossed>>
     \/ pending # << >> /\ inflight' = Append(inflight, Head(pending)) /\ crossed' = FALSE
  /\ UNCHANGED <<sent, posted, pending, done, wire, in_use, open>>

\* A write completes: its bytes are with the peer and on_write is queued.
WriteCompletes(i) ==
  /\ i \in DOMAIN inflight
  /\ open
  /\ wire' = Append(wire, inflight[i])
  /\ inflight' = RemoveAt(inflight, i)
  /\ done' = Append(done, "ok")
  /\ UNCHANGED <<sent, posted, pending, in_use, open, pc, crossed>>

\* A write fails: the peer is gone, or the socket was closed under it.
WriteFails(i) ==
  /\ i \in DOMAIN inflight
  /\ MayFail \/ ~open
  /\ inflight' = RemoveAt(inflight, i)
  /\ done' = Append(done, "error")
  /\ UNCHANGED <<sent, posted, pending, wire, in_use, open, pc, crossed>>

\* Mutant: the front is released but left in the queue.
OnWriteKeepsFront(w) ==
  /\ pc[w] = "idle"
  /\ done # << >>
  /\ done' = Tail(done)
  /\ IF Head(done) = "error" \/ pending = << >>
     THEN open' = (open /\ Head(done) = "ok") /\ UNCHANGED <<pending, in_use, pc>>
     ELSE /\ in_use' = in_use \ {Head(pending)}
          /\ pc' = [pc EXCEPT ![w] = "popped"]
          /\ UNCHANGED <<open, pending>>
  /\ UNCHANGED <<sent, posted, inflight, wire, crossed>>

\* on_write up to the removal of the front, which is released to the pool; an
\* error closes the socket and leaves the queue as it is.
OnWrite(w) ==
  /\ pc[w] = "idle"
  /\ done # << >>
  /\ done' = Tail(done)
  /\ \/ /\ Head(done) = "error"
        /\ open' = FALSE
        /\ UNCHANGED <<pending, in_use, pc>>
     \/ /\ Head(done) = "ok" /\ pending = << >>
        /\ UNCHANGED <<open, pending, in_use, pc>>
     \/ /\ Head(done) = "ok" /\ pending # << >>
        /\ pending' = Tail(pending)
        /\ in_use' = in_use \ {Head(pending)}
        /\ pc' = [pc EXCEPT ![w] = "popped"]
        /\ UNCHANGED open
  /\ UNCHANGED <<sent, posted, inflight, wire, crossed>>

\* Mutant: on_write does not look for more to write.
OnWriteLeaves(w) ==
  /\ pc[w] = "popped"
  /\ pc' = [pc EXCEPT ![w] = "idle"]
  /\ UNCHANGED <<sent, posted, pending, inflight, done, wire, in_use, open, crossed>>

\* The rest of on_write.
OnWriteContinues(w) ==
  /\ pc[w] = "popped"
  /\ pc' = [pc EXCEPT ![w] = IF pending = << >> THEN "idle" ELSE "write_next"]
  /\ UNCHANGED <<sent, posted, pending, inflight, done, wire, in_use, open, crossed>>

Handler(w) == OnSend(w) \/ OnSendContinues(w) \/ WriteNext(w) \/ OnWrite(w) \/ OnWriteContinues(w)

Next ==
  \/ Send
  \/ \E i \in DOMAIN inflight : WriteCompletes(i) \/ WriteFails(i)
  \/ \E w \in Worker : Handler(w)

Spec == Init /\ [][Next]_vars

(***************************************************************************)
(* A write that the peer accepts completes, and queued handlers get a      *)
(* thread.                                                                 *)
(***************************************************************************)
Fairness ==
  /\ WF_vars(\E i \in DOMAIN inflight : WriteCompletes(i))
  /\ \A w \in Worker : WF_vars(Handler(w))

FairSpec == Spec /\ Fairness

-----------------------------------------------------------------------------
\* A thread that is sure to start a write of what is queued.
Starter(w) == pc[w] \in {"popped", "write_next"} \/ (pc[w] = "pushed" /\ Len(pending) <= 1)

(***************************************************************************)
(* The queue stalls in one case only, two on_send that cross: both push,   *)
(* both see two messages and each relies on the other                      *)
(* (connection.ipp:309-314).  Otherwise, while the connection lasts and    *)
(* something is queued, a write is in flight, has completed, or a thread   *)
(* is about to start one: an on_send that finds others queued relies on    *)
(* the on_write to come, and neither is atomic with the other.             *)
(***************************************************************************)
NeverStalled ==
  pending # << >> /\ open =>
    inflight # << >> \/ done # << >> \/ (\E w \in Worker : Starter(w)) \/ crossed

(***************************************************************************)
(* The peer receives the answers in the order of its requests, each once   *)
(* and none skipped, as tests/features/batch_processing.cc:33-37 expects   *)
(* of a batch of two.                                                      *)
(***************************************************************************)
AnswersInOrder == \A i \in DOMAIN wire : wire[i] = i

(***************************************************************************)
(* The buffers of a message being written are not handed out by the pool:  *)
(* connection.ipp:286-289 releases it only after its write.                *)
(***************************************************************************)
InFlightIsInUse == \A i \in DOMAIN inflight : inflight[i] \in in_use

(***************************************************************************)
(* Every message given to send() reaches the peer and goes back to the     *)
(* pool, unless a failed write closes the connection first.                *)
(***************************************************************************)
EveryAnswerDelivered ==
  \A m \in 1 .. MaxSent : m <= sent ~> ((m <= Len(wire) /\ m \notin in_use) \/ ~ open)

\* The deployment with one pool thread (--threads 0).
SingleWorker == \A v, w \in Worker : v = w

\* How many messages have left the queue.
Popped == sent - Len(posted) - Len(pending)

\* The queues hold consecutive messages, from the first not yet released on.
Numbered ==
  /\ Popped >= 0
  /\ \A i \in DOMAIN pending : pending[i] = Popped + i
  /\ \A i \in DOMAIN posted : posted[i] = Popped + Len(pending) + i
  /\ in_use = (Popped + 1) .. sent
  /\ AnswersInOrder
  /\ sent - Len(wire) <= WINDOW

\* At most one write is started, in flight or just completed, that of the front.
OneWrite ==
  /\ Len(inflight) + Len(done) <= 1
  /\ Len(inflight) = 1 => pending # << >> /\ inflight[1] = Popped + 1
  /\ Len(done) = 1 => pending # << >>
  /\ Len(wire) = IF Len(done) = 1 /\ done[1] = "ok" THEN Popped + 1 ELSE Popped
  /\ \A w \in Worker : Starter(w) => Len(inflight) = 0 /\ Len(done) = 0
  /\ \A w \in Worker : pc[w] \in {"pushed", "write_next"} => pending # << >>
  /\ pending # << >> /\ Len(inflight) = 0 /\ Len(done) = 0 /\ open => \E w \in Worker : Starter(w)
  /\ ~open => pending # << >> /\ Len(inflight) = 0 /\ Len(done) = 0 /\ \A w \in Worker : ~Starter(w)

\* The inductive invariant behind AnswersInOrder and InFlightIsInUse for one
\* thread and a window below the capacity.
WriteInv == TypeOK /\ Numbered /\ OneWrite
=============================================================================
