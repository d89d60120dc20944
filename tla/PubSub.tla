------------------------------- MODULE PubSub -------------------------------
(***************************************************************************)
(* Connections, their registration and their subscriptions.                *)
(*                                                                         *)
(* join() enters a connection in the connection map of its kind and then   *)
(* subscribes it to two channels; leave(), called by the destructor, takes *)
(* these back in the opposite order.  Each half is one critical section of *)
(* its own mutex.  SUBSCRIBE and UNSUBSCRIBE are one critical section of   *)
(* the subscriptions mutex; PUBLISH walks the container without it, looks  *)
(* a subscriber up in the maps, and sends in a second critical section.    *)
(*                                                                         *)
(* A connection lives as long as some handler holds it: its pending read,  *)
(* and every message queued for it.                                        *)
(***************************************************************************)
EXTENDS Integers

CONSTANTS
  Connection,  \* connections, numbered in the order of their ids
  Topic,       \* channels that clients name
  Worker,      \* threads that run io_context::run
  MaxRequests  \* bound on the number of commands

NoConnection == 0

ASSUME PubSubAssumption ==
  /\ Connection \subseteq Nat \ {NoConnection}
  /\ Topic \subseteq Nat \ (Connection \cup {0})
  /\ MaxRequests \in Nat

VARIABLES
  life,        \* of each connection
  registered,  \* keys of the four connection maps of state
  subs,        \* subscriptions_service::subscriptions_
  serial,      \* the number of insertions so far
  queued,      \* messages given to a connection and not yet disposed of
  pc,          \* where each thread is
  of,          \* the connection whose handler or destructor it runs
  pub,         \* locals of its PUBLISH
  requests,    \* commands served
  up           \* the process has not been terminated

vars == <<life, registered, subs, serial, queued, pc, of, pub, requests, up>>

\* Channels are numbers too: 0 is "*", that of a connection the hexadecimal
\* form of its id.
Star == 0
Channel == {Star} \cup Connection \cup Topic

\* The serial is the position in the order of insertion, which is the order
\* of equal keys in both indexes.  End stands for end() of the index.
Sub == [serial : Nat, conn : Connection, channel : Channel]
End == [serial |-> 0, conn |-> NoConnection, channel |-> Star]

\* at and end are _it and _end; the rest is history: the subscriptions in the
\* range at first, those sent to, and whether the walk left an erased node.
Pub == [at : Sub \cup {End}, end : Sub \cup {End}, due : SUBSET Sub, sent : SUBSET Sub, stale : BOOLEAN]
NoPub == [at |-> End, end |-> End, due |-> {}, sent |-> {}, stale |-> FALSE]

Where == {"idle", "join", "visit", "process", "reply", "leave", "unregister"}

TypeOK ==
  /\ life \in [Connection -> {"new", "joining", "open", "closed", "dying", "gone"}]
  /\ registered \subseteq Connection
  /\ subs \subseteq Sub
  /\ serial \in Nat
  /\ queued \in [Connection -> Nat]
  /\ pc \in [Worker -> Where]
  /\ of \in [Worker -> Connection \cup {NoConnection}]
  /\ pub \in [Worker -> Pub]
  /\ requests \in Nat
  /\ up \in BOOLEAN

Init ==
  /\ life = [c \in Connection |-> "new"]
  /\ registered = {}
  /\ subs = {}
  /\ serial = 0
  /\ queued = [c \in Connection |-> 0]
  /\ pc = [w \in Worker |-> "idle"]
  /\ of = [w \in Worker |-> NoConnection]
  /\ pub = [w \in Worker |-> NoPub]
  /\ requests = 0
  /\ up = TRUE

\* Thread w goes on at l, on behalf of connection c.
Go(w, l, c) ==
  /\ pc' = [pc EXCEPT ![w] = l]
  /\ of' = [of EXCEPT ![w] = c]

Idle(w) == up /\ pc[w] = "idle"
At(w, l) == up /\ pc[w] = l

-----------------------------------------------------------------------------
(* Arrival and departure *)

\* Mutant: join() subscribes before it registers.
JoinSubscribesFirst(w, c) ==
  /\ Idle(w)
  /\ life[c] = "new"
  /\ life' = [life EXCEPT ![c] = "joining"]
  /\ subs' = subs \cup {[serial |-> serial + 1, conn |-> c, channel |-> Star]}
  /\ Go(w, "join", c)
  /\ UNCHANGED <<registered, serial, queued, pub, requests, up>>

\* A connection is accepted: first half of join().
Join(w, c) ==
  /\ Idle(w)
  /\ life[c] = "new"
  /\ life' = [life EXCEPT ![c] = "joining"]
  /\ registered' = registered \cup {c}
  /\ Go(w, "join", c)
  /\ UNCHANGED <<subs, serial, queued, pub, requests, up>>

\* Second half, and the first do_read.
JoinSubs(w) ==
  LET c == of[w]
  IN /\ At(w, "join")
     /\ life' = [life EXCEPT ![c] = "open"]
     /\ subs' = subs \cup {[serial |-> serial + 1, conn |-> c, channel |-> c],
                           [serial |-> serial + 2, conn |-> c, channel |-> Star]}
     /\ serial' = serial + 2
     /\ Go(w, "idle", NoConnection)
     /\ UNCHANGED <<registered, queued, pub, requests, up>>

\* No thread is in a handler of the read of c.
Readable(c) == life[c] = "open" /\ \A w \in Worker : of[w] # c

\* Mutant: the destructor does not call leave().
DieSilently(w, c) ==
  /\ life' = [life EXCEPT ![c] = "dying"]
  /\ UNCHANGED <<pc, of>>

\* The last handler that held c is gone: its destructor starts on this thread.
Die(w, c) ==
  /\ life' = [life EXCEPT ![c] = "dying"]
  /\ Go(w, "leave", c)

\* The pending read fails: on_read closes the socket and reads no more.
Close(w, c) ==
  /\ Idle(w)
  /\ Readable(c)
  /\ \/ queued[c] = 0 /\ Die(w, c)
     \/ /\ queued[c] > 0
        /\ life' = [life EXCEPT ![c] = "closed"]
        /\ UNCHANGED <<pc, of>>
  /\ UNCHANGED <<registered, subs, serial, queued, pub, requests, up>>

\* Mutant: a completion that comes twice.
DeliverAgain(w, c) ==
  /\ Idle(w)
  /\ queued' = [queued EXCEPT ![c] = @ - 1]
  /\ UNCHANGED <<life, registered, subs, serial, pc, of, pub, requests, up>>

\* A message queued for c is written or dropped, and its handler released.
Deliver(w, c) ==
  /\ Idle(w)
  /\ queued[c] > 0
  /\ queued' = [queued EXCEPT ![c] = @ - 1]
  /\ \/ life[c] = "closed" /\ queued[c] = 1 /\ Die(w, c)
     \/ ~(life[c] = "closed" /\ queued[c] = 1) /\ UNCHANGED <<life, pc, of>>
  /\ UNCHANGED <<registered, subs, serial, pub, requests, up>>

\* The two halves of leave().
Leave(w) ==
  /\ At(w, "leave")
  /\ subs' = {s \in subs : s.conn # of[w]}
  /\ Go(w, "unregister", of[w])
  /\ UNCHANGED <<life, registered, serial, queued, pub, requests, up>>

Unregister(w) ==
  /\ At(w, "unregister")
  /\ registered' = registered \ {of[w]}
  /\ life' = [life EXCEPT ![of[w]] = "gone"]
  /\ Go(w, "idle", NoConnection)
  /\ UNCHANGED <<subs, serial, queued, pub, requests, up>>

-----------------------------------------------------------------------------
(* Commands *)

\* A command of c arrives and a thread runs its handler.
Serve(w, c) ==
  /\ Idle(w)
  /\ Readable(c)
  /\ requests < MaxRequests
  /\ requests' = requests + 1

\* The answer is queued like any other message.
Answer(c) == queued' = [queued EXCEPT ![c] = @ + 1]

\* The indexes are not unique: a second SUBSCRIBE adds a second subscription.
Subscribe(w, c, ch) ==
  /\ Serve(w, c)
  /\ subs' = subs \cup {[serial |-> serial + 1, conn |-> c, channel |-> ch]}
  /\ serial' = serial + 1
  /\ Answer(c)
  /\ UNCHANGED <<life, registered, pc, of, pub, up>>

\* The scan starts at the first subscription of c in the order of connection
\* ids and runs to the end of the index.
IsSubscribed(c, ch) ==
  /\ \E s \in subs : s.conn = c
  /\ \E s \in subs : s.conn >= c /\ s.channel = ch

Unsubscribe(w, c, ch) ==
  /\ Serve(w, c)
  /\ subs' = IF IsSubscribed(c, ch) THEN {s \in subs : s.conn # c \/ s.channel # ch} ELSE subs
  /\ Answer(c)
  /\ UNCHANGED <<life, registered, serial, pc, of, pub, up>>

In(ch) == {s \in subs : s.channel = ch}

\* The order of the index by channel.
Precedes(s, t) == s.channel < t.channel \/ (s.channel = t.channel /\ s.serial < t.serial)

IsFirst(s, S) == s \in S /\ \A t \in S : s = t \/ Precedes(s, t)

\* The first of the subscriptions S, in a set, or End.
FirstOf(S) == {s \in S : IsFirst(s, S)} \cup (IF S = {} THEN {End} ELSE {})

\* Mutant: the walk runs to the end of the index.
AfterRangeNever(ch) == {}

\* What comes after the range of a channel.
AfterRange(ch) == {s \in subs : s.channel > ch}

\* PUBLISH: equal_range, and failure when nobody listens.
Publish(w, c, ch) ==
  /\ Serve(w, c)
  /\ \/ In(ch) = {} /\ Answer(c) /\ UNCHANGED <<pc, of, pub>>
     \/ \E s \in In(ch), e \in FirstOf(AfterRange(ch)) :
          /\ IsFirst(s, In(ch))
          /\ pub' = [pub EXCEPT ![w] = [at |-> s, end |-> e, due |-> In(ch), sent |-> {}, stale |-> FALSE]]
          /\ Go(w, "visit", c)
          /\ UNCHANGED queued
  /\ UNCHANGED <<life, registered, subs, serial, up>>

\* What comes after the place of a walk; nothing does after the end of the index.
Beyond(w) == {s \in subs : pub[w].at # End /\ Precedes(pub[w].at, s)}

\* Mutant: the walk skips a subscription.
FollowingSkips(w) == FirstOf({s \in Beyond(w) : s.serial # pub[w].at.serial + 2})

\* Where ++_it leads, whatever the channel.  From a node that was erased
\* meanwhile it may lead to any later one.
Following(w) == IF pub[w].at \in subs THEN FirstOf(Beyond(w)) ELSE Beyond(w) \cup {End}

\* Whether s is taken for _end.  When the node of _end was erased its place may
\* have been given to one that was entered since.
IsEnd(w, s) ==
  {s = pub[w].end} \cup (IF pub[w].end \notin subs \cup {End} /\ s \in subs \ pub[w].due THEN {TRUE} ELSE {})

\* The current subscription is done with; sent is what was sent for it.  A walk
\* that lost its place keeps no history.
Advance(w, sent) ==
  LET p == pub[w]
      stale == p.stale \/ p.at \notin subs
  IN \E s \in Following(w) : \E stop \in IsEnd(w, s) :
       /\ pub' = [pub EXCEPT ![w] = [at |-> s, end |-> p.end, due |-> IF stale THEN {} ELSE p.due,
                                     sent |-> IF stale THEN {} ELSE p.sent \cup sent, stale |-> stale]]
       /\ Go(w, IF stop THEN "reply" ELSE "visit", of[w])

\* The lookups that tell of which kind the subscriber is; one that is nowhere
\* is skipped.
Visit(w) ==
  /\ At(w, "visit")
  /\ \/ /\ pub[w].at.conn \in registered
        /\ Go(w, "process", of[w])
        /\ UNCHANGED pub
     \/ pub[w].at.conn \notin registered /\ Advance(w, {})
  /\ UNCHANGED <<life, registered, subs, serial, queued, requests, up>>

\* _process: a second lookup, and send().  shared_from_this of a connection
\* whose destructor runs throws, and nobody catches.
Process(w) ==
  LET c == pub[w].at.conn
  IN /\ At(w, "process")
     /\ \/ c \notin registered /\ Advance(w, {}) /\ UNCHANGED <<queued, up>>
        \/ /\ c \in registered /\ life[c] # "dying"
           /\ Answer(c)
           /\ Advance(w, {pub[w].at})
           /\ UNCHANGED up
        \/ /\ c \in registered /\ life[c] = "dying"
           /\ up' = FALSE
           /\ UNCHANGED <<queued, pc, of, pub>>
     /\ UNCHANGED <<life, registered, subs, serial, requests>>

\* The other outcome of using an erased node or the end of the index.
FreedNode(w) ==
  /\ At(w, "visit") \/ At(w, "process")
  /\ pub[w].at \notin subs
  /\ up' = FALSE
  /\ UNCHANGED <<life, registered, subs, serial, queued, pc, of, pub, requests>>

\* The answer of the PUBLISH, and the next do_read.
Reply(w) ==
  /\ At(w, "reply")
  /\ Answer(of[w])
  /\ Go(w, "idle", NoConnection)
  /\ pub' = [pub EXCEPT ![w] = NoPub]
  /\ UNCHANGED <<life, registered, subs, serial, requests, up>>

Begin(w) ==
  \E c \in Connection :
    \/ Join(w, c)
    \/ Close(w, c)
    \/ \E ch \in Channel : Subscribe(w, c, ch) \/ Unsubscribe(w, c, ch) \/ Publish(w, c, ch)

Continue(w) ==
  JoinSubs(w) \/ Leave(w) \/ Unregister(w) \/ Visit(w) \/ Process(w) \/ FreedNode(w) \/ Reply(w)

Next ==
  \E w \in Worker : Begin(w) \/ Continue(w) \/ \E c \in Connection : Deliver(w, c)

Spec == Init /\ [][Next]_vars

(***************************************************************************)
(* A handler that was started runs on, and queued messages are written or  *)
(* dropped; connections and clients owe nothing.                           *)
(***************************************************************************)
Fairness ==
  /\ \A w \in Worker : WF_vars(Continue(w))
  /\ WF_vars(\E w \in Worker, c \in Connection : Deliver(w, c))

FairSpec == Spec /\ Fairness

-----------------------------------------------------------------------------
(***************************************************************************)
(* A subscription belongs to a connection that can be looked up: "the      *)
(* subscription exists but the connection is gone" (publish_command.cpp:   *)
(* 101) is never a state of the containers, however the halves of join(),  *)
(* leave() and the commands interleave.                                    *)
(***************************************************************************)
SubscriberRegistered == \A s \in subs : s.conn \in registered

(***************************************************************************)
(* When a PUBLISH answers success, every subscription that the channel had *)
(* when it began and has still was served, whoever subscribed and left     *)
(* meanwhile, and although the fixed _end of its walk (publish_command.cpp: *)
(* 48) may have been erased, unless it lost its place on an erased node.   *)
(***************************************************************************)
EveryoneHears ==
  \A w \in Worker :
    pc[w] = "reply" /\ ~pub[w].stale => pub[w].due \cap subs \subseteq pub[w].sent

(***************************************************************************)
(* No command brings the process down: a PUBLISH by a send through a       *)
(* connection that is being destroyed or by a walk over an erased          *)
(* subscription, a command of module Directory by the use of a connection  *)
(* that has left the maps.                                                 *)
(***************************************************************************)
Survives == up

(***************************************************************************)
(* A connection whose socket was closed is destroyed and leaves the maps.  *)
(***************************************************************************)
ClosedLeaves == \A c \in Connection : life[c] = "closed" ~> c \notin registered

(***************************************************************************)
(* A message goes only to subscriptions of the channel it was published    *)
(* to.  It holds with one thread: on two, a subscription to another        *)
(* channel that is entered before _end, or that follows an erased _end, is *)
(* sent it too (publish_command.cpp:67).                                   *)
(***************************************************************************)
NoStrangerHears == \A w \in Worker : pub[w].sent \subseteq pub[w].due

\* The deployment with one pool thread (--threads 0).
SingleWorker == \A v, w \in Worker : v = w

\* Thread w is between the halves of join() or in leave().
Moving(w) == pc[w] \in {"join", "leave", "unregister"}

\* The inductive invariant behind SubscriberRegistered: only a connection
\* between its join() and the first half of its leave() has subscriptions, and
\* each join() or leave() in progress is that of another connection.
SubscriberAlive == \A s \in subs : life[s.conn] \in {"open", "closed", "dying"}
AliveRegistered ==
  \A c \in Connection : life[c] \in {"joining", "open", "closed", "dying"} => c \in registered
MovingLife ==
  \A w \in Worker : Moving(w) =>
    of[w] \in Connection /\ life[of[w]] = IF pc[w] = "join" THEN "joining" ELSE "dying"
NoneLeft == \A w \in Worker : pc[w] = "unregister" => \A s \in subs : s.conn # of[w]
MovingDistinct == \A v, w \in Worker : v # w /\ Moving(v) /\ Moving(w) => of[v] # of[w]

RegistryInv ==
  /\ TypeOK
  /\ SubscriberAlive /\ AliveRegistered /\ MovingLife /\ NoneLeft /\ MovingDistinct

\* What makes Survives inductive when there is one thread: a destruction in
\* progress is that thread's, and so is a walk, which stands on a subscription
\* and has only subscriptions of the channel between it and its end.
Between(w, s) == Precedes(pub[w].at, s) /\ (pub[w].end = End \/ Precedes(s, pub[w].end))

OnCourse(w) ==
  /\ pub[w].at \in subs /\ pub[w].at \in pub[w].due /\ ~pub[w].stale
  /\ pub[w].end = End \/ (pub[w].end \in subs /\ Precedes(pub[w].at, pub[w].end))
  /\ \A s \in subs : Between(w, s) => s \in pub[w].due

WalkInv ==
  /\ up
  /\ \A c \in Connection : life[c] = "dying" =>
       \E w \in Worker : pc[w] \in {"leave", "unregister"} /\ of[w] = c
  /\ NoStrangerHears
  /\ \A w \in Worker : pc[w] \in {"visit", "process"} => OnCourse(w)

\* Why EveryoneHears holds for any number of threads: insertions are numbered,
\* so nothing that a walk found due comes again, and a walk that never stood on
\* an erased node has served what lasts of all that lies behind it.
Walking(w) == pc[w] \in {"visit", "process"}

SerialsDiffer ==
  /\ \A s \in subs : 0 < s.serial /\ s.serial <= serial
  /\ \A s, t \in subs : s.serial = t.serial => s = t
DueIsOld == \A w \in Worker : \A s \in pub[w].due : s.serial <= serial
\* A walk is never before its range, whose place is before _end.
DueIsHere ==
  \A w \in Worker : Walking(w) /\ ~pub[w].stale =>
    \A s \in pub[w].due : /\ pub[w].at = End \/ s.channel <= pub[w].at.channel
                          /\ pub[w].end = End \/ Precedes(s, pub[w].end)
NewIsLater ==
  \A w \in Worker : Walking(w) =>
    \A s \in pub[w].due, t \in subs \ pub[w].due : s.channel = t.channel => s.serial < t.serial
BehindIsServed ==
  \A w \in Worker : Walking(w) /\ ~pub[w].stale =>
    \A s \in pub[w].due \cap subs : pub[w].at = End \/ Precedes(s, pub[w].at) => s \in pub[w].sent

HearInv == SerialsDiffer /\ DueIsOld /\ DueIsHere /\ NewIsLater /\ BehindIsServed /\ EveryoneHears
=============================================================================
