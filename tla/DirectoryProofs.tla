-------------------------- MODULE DirectoryProofs --------------------------
(***************************************************************************)
(* What PUBLISH and INFO may rely on, for every number of connections,     *)
(* maps, channels and threads: first of PubSub alone, then with the        *)
(* commands of Directory beside it.                                        *)
(***************************************************************************)
EXTENDS Directory, TLAPS

-----------------------------------------------------------------------------
(* PubSub *)

LEMMA StarIsChannel == Star \in Channel /\ Connection \subseteq Channel
  BY DEF Channel

LEMMA EndIsNoSub == End \notin Sub
  <1>1. End.conn \notin Connection
    BY PubSubAssumption DEF End
  <1> QED
    BY <1>1 DEF Sub

\* The order of the index.
LEMMA SubNumbers ==
  ASSUME NEW s \in Sub
  PROVE  s.channel \in Nat /\ s.serial \in Nat
  <1>1. Channel \subseteq Nat
    BY PubSubAssumption DEF Channel, Star
  <1> QED
    BY <1>1 DEF Sub

LEMMA PrecedesOrders ==
  ASSUME NEW s \in Sub, NEW t \in Sub, NEW u \in Sub
  PROVE  /\ Precedes(s, t) /\ Precedes(t, u) => Precedes(s, u)
         /\ ~(Precedes(s, t) /\ Precedes(t, s))
         /\ s.serial # t.serial => Precedes(s, t) \/ Precedes(t, s)
  <1>1. /\ s.channel \in Nat /\ s.serial \in Nat /\ t.channel \in Nat /\ t.serial \in Nat
        /\ u.channel \in Nat /\ u.serial \in Nat
    BY SubNumbers
  <1> QED
    BY <1>1 DEF Precedes

LEMMA FirstOfShape ==
  ASSUME NEW S, S \subseteq Sub, NEW s \in FirstOf(S)
  PROVE  \/ s = End /\ S = {}
         \/ s \in S /\ s # End /\ \A t \in S : s = t \/ Precedes(s, t)
  BY EndIsNoSub DEF FirstOf, IsFirst

LEMMA FollowingShape ==
  ASSUME TypeOK, NEW w \in Worker, NEW s \in Following(w)
  PROVE  /\ s \in subs \/ s = End
         /\ s \in subs => pub[w].at # End /\ Precedes(pub[w].at, s)
         /\ pub[w].at \in subs => \/ s = End /\ Beyond(w) = {}
                                  \/ s \in Beyond(w) /\ \A t \in Beyond(w) : s = t \/ Precedes(s, t)
  <1>1. Beyond(w) \subseteq subs /\ subs \subseteq Sub
    BY DEF Beyond, TypeOK
  <1>2. \A t \in Beyond(w) : pub[w].at # End /\ Precedes(pub[w].at, t)
    BY DEF Beyond
  <1>3. CASE pub[w].at \in subs
    <2>1. s \in FirstOf(Beyond(w))
      BY <1>3 DEF Following
    <2>2. \/ s = End /\ Beyond(w) = {}
          \/ s \in Beyond(w) /\ s # End /\ \A t \in Beyond(w) : s = t \/ Precedes(s, t)
      BY <1>1, <2>1, FirstOfShape
    <2>3. End \notin subs
      BY <1>1, EndIsNoSub
    <2> QED
      BY <1>1, <1>2, <2>2, <2>3
  <1>4. CASE pub[w].at \notin subs
    <2>1. s \in Beyond(w) \cup {End}
      BY <1>4 DEF Following
    <2>2. End \notin subs
      BY <1>1, EndIsNoSub
    <2> QED
      BY <1>1, <1>2, <1>4, <2>1, <2>2
  <1> QED
    BY <1>3, <1>4

\* The parts of a step of a walk.
LEMMA AdvanceShape ==
  ASSUME TypeOK, NEW w \in Worker, NEW sent, sent \subseteq Sub, Advance(w, sent)
  PROVE  /\ pub' \in [Worker -> Pub]
         /\ \E s \in Following(w) : \E stop \in IsEnd(w, s) :
              /\ pub'[w].at = s /\ pub'[w].end = pub[w].end
              /\ pub'[w].stale <=> pub[w].stale \/ pub[w].at \notin subs
              /\ ~pub'[w].stale => pub'[w].due = pub[w].due /\ pub'[w].sent = pub[w].sent \cup sent
              /\ pub'[w].stale => pub'[w].due = {} /\ pub'[w].sent = {}
              /\ \A v \in Worker : v # w => pub'[v] = pub[v]
              /\ Go(w, IF stop THEN "reply" ELSE "visit", of[w])
  <1> DEFINE stale == pub[w].stale \/ pub[w].at \notin subs
             due == IF stale THEN {} ELSE pub[w].due
             all == IF stale THEN {} ELSE pub[w].sent \cup sent
             new(s) == [at |-> s, end |-> pub[w].end, due |-> due, sent |-> all, stale |-> stale]
  <1>1. PICK s \in Following(w) : \E stop \in IsEnd(w, s) :
          /\ pub' = [pub EXCEPT ![w] = new(s)]
          /\ Go(w, IF stop THEN "reply" ELSE "visit", of[w])
    BY DEF Advance
  <1>2. PICK stop \in IsEnd(w, s) :
          /\ pub' = [pub EXCEPT ![w] = new(s)]
          /\ Go(w, IF stop THEN "reply" ELSE "visit", of[w])
    BY <1>1
  <1>3. s \in Sub \cup {End}
    BY FollowingShape DEF TypeOK
  <1>4. pub[w].sent \in SUBSET Sub /\ pub[w].due \in SUBSET Sub /\ pub[w].end \in Sub \cup {End}
    BY DEF Pub, TypeOK
  <1>5. stale \in BOOLEAN /\ due \in SUBSET Sub /\ all \in SUBSET Sub
    BY <1>4
  <1>6. /\ stale => due = {} /\ all = {}
        /\ ~stale => due = pub[w].due /\ all = pub[w].sent \cup sent
    OBVIOUS
  <1>7. stale <=> pub[w].stale \/ pub[w].at \notin subs
    OBVIOUS
  <1> HIDE DEF stale, due, all
  <1>8. new(s) \in Pub
    BY <1>3, <1>4, <1>5 DEF Pub
  <1>9. new(s).at = s /\ new(s).end = pub[w].end /\ new(s).due = due /\ new(s).sent = all /\ new(s).stale = stale
    OBVIOUS
  <1> HIDE DEF new
  <1>10. pub' \in [Worker -> Pub] /\ pub'[w] = new(s) /\ \A v \in Worker : v # w => pub'[v] = pub[v]
    BY <1>2, <1>8 DEF TypeOK
  <1>11. /\ pub'[w].at = s /\ pub'[w].end = pub[w].end /\ pub'[w].due = due
         /\ pub'[w].sent = all /\ pub'[w].stale = stale
    BY <1>9, <1>10
  <1>12. /\ pub'[w].stale <=> pub[w].stale \/ pub[w].at \notin subs
         /\ ~pub'[w].stale => pub'[w].due = pub[w].due /\ pub'[w].sent = pub[w].sent \cup sent
         /\ pub'[w].stale => pub'[w].due = {} /\ pub'[w].sent = {}
    BY <1>6, <1>7, <1>11
  <1> QED
    BY <1>2, <1>10, <1>11, <1>12

LEMMA AdvanceTyped ==
  ASSUME TypeOK, NEW w \in Worker, NEW sent, sent \subseteq Sub, Advance(w, sent)
  PROVE  /\ pub' \in [Worker -> Pub]
         /\ pc' \in [Worker -> Where]
         /\ of' \in [Worker -> Connection \cup {NoConnection}]
  <1>1. pub' \in [Worker -> Pub]
    BY AdvanceShape
  <1>2. PICK l \in {"reply", "visit"} : Go(w, l, of[w])
    BY DEF Advance
  <1> QED
    BY <1>1, <1>2 DEF Go, Where, TypeOK

LEMMA AnswerTyped ==
  ASSUME queued \in [Connection -> Nat], NEW c, Answer(c)
  PROVE  queued' \in [Connection -> Nat]
  <1>1. CASE c \in Connection
    BY <1>1 DEF Answer
  <1>2. CASE c \notin Connection
    <2>1. queued' = queued
      BY <1>2 DEF Answer
    <2> QED
      BY <2>1
  <1> QED
    BY <1>1, <1>2

LEMMA PubInitTyped == NoPub \in Pub
  BY Zenon DEF NoPub, Pub

LEMMA PubSubTypedInit == Init => TypeOK
  BY DEF Init, TypeOK, NoPub, Pub, Where

LEMMA PubSubTypedStep == RegistryInv /\ [Next]_vars => TypeOK'
  <1> SUFFICES ASSUME RegistryInv, [Next]_vars PROVE TypeOK'
    OBVIOUS
  <1> USE DEF TypeOK
  <1>0. TypeOK
    BY DEF RegistryInv
  <1>1. ASSUME NEW w \in Worker, NEW c \in Connection, Join(w, c)
        PROVE  TypeOK'
    BY <1>0, <1>1 DEF Join, Go, Where
  <1>2. ASSUME NEW w \in Worker, JoinSubs(w)
        PROVE  TypeOK'
    <2>1. of[w] \in Connection
      BY <1>2 DEF RegistryInv, MovingLife, Moving, JoinSubs, At
    <2>2. subs' \subseteq Sub /\ serial' \in Nat
      BY <1>0, <1>2, <2>1, StarIsChannel DEF JoinSubs, Sub
    <2> QED
      BY <1>0, <1>2, <2>1, <2>2 DEF JoinSubs, Go, Where
  <1>3. ASSUME NEW w \in Worker, NEW c \in Connection, Close(w, c)
        PROVE  TypeOK'
    BY <1>0, <1>3 DEF Close, Die, Go, Where
  <1>4. ASSUME NEW w \in Worker, NEW c \in Connection, Deliver(w, c)
        PROVE  TypeOK'
    <2>1. queued' \in [Connection -> Nat]
      BY <1>0, <1>4 DEF Deliver
    <2>2. life' \in [Connection -> {"new", "joining", "open", "closed", "dying", "gone"}]
      BY <1>0, <1>4 DEF Deliver, Die
    <2>3. pc' \in [Worker -> Where] /\ of' \in [Worker -> Connection \cup {NoConnection}]
      BY <1>0, <1>4 DEF Deliver, Die, Go, Where
    <2> QED
      BY <1>0, <1>4, <2>1, <2>2, <2>3 DEF Deliver
  <1>5. ASSUME NEW w \in Worker, Leave(w) \/ Unregister(w)
        PROVE  TypeOK'
    BY <1>0, <1>5 DEF Leave, Unregister, Go, Where
  <1>6. ASSUME NEW w \in Worker, NEW c \in Connection, NEW ch \in Channel, Subscribe(w, c, ch)
        PROVE  TypeOK'
    BY <1>0, <1>6 DEF Subscribe, Serve, Answer, Sub
  <1>7. ASSUME NEW w \in Worker, NEW c \in Connection, NEW ch \in Channel, Unsubscribe(w, c, ch)
        PROVE  TypeOK'
    BY <1>0, <1>7 DEF Unsubscribe, Serve, Answer
  <1>8. ASSUME NEW w \in Worker, NEW c \in Connection, NEW ch \in Channel, Publish(w, c, ch)
        PROVE  TypeOK'
    <2>1. \A s \in In(ch), e \in FirstOf(AfterRange(ch)) :
            [at |-> s, end |-> e, due |-> In(ch), sent |-> {}, stale |-> FALSE] \in Pub
      <3>1. In(ch) \in SUBSET Sub /\ AfterRange(ch) \subseteq Sub
        BY <1>0 DEF In, AfterRange
      <3>2. FALSE \in BOOLEAN /\ {} \in SUBSET Sub
        OBVIOUS
      <3>3. \A e \in FirstOf(AfterRange(ch)) : e \in Sub \cup {End}
        BY <3>1, FirstOfShape
      <3> QED
        BY <3>1, <3>2, <3>3, Zenon DEF Pub
    <2>2. pub' \in [Worker -> Pub]
      <3>1. CASE UNCHANGED pub
        BY <1>0, <3>1
      <3>2. ASSUME NEW s \in In(ch), NEW e \in FirstOf(AfterRange(ch)),
                   pub' = [pub EXCEPT ![w] = [at |-> s, end |-> e, due |-> In(ch), sent |-> {}, stale |-> FALSE]]
            PROVE  pub' \in [Worker -> Pub]
        <4> DEFINE new == [at |-> s, end |-> e, due |-> In(ch), sent |-> {}, stale |-> FALSE]
        <4>1. new \in Pub
          BY <2>1
        <4>2. pub' = [pub EXCEPT ![w] = new]
          BY <3>2
        <4> HIDE DEF new
        <4> QED
          BY <1>0, <4>1, <4>2
      <3> QED
        BY <1>8, <3>1, <3>2 DEF Publish
    <2>3. queued' \in [Connection -> Nat] /\ requests' \in Nat
      BY <1>0, <1>8 DEF Publish, Serve, Answer
    <2>4. pc' \in [Worker -> Where] /\ of' \in [Worker -> Connection \cup {NoConnection}]
      BY <1>0, <1>8 DEF Publish, Go, Where
    <2> QED
      BY <1>0, <1>8, <2>2, <2>3, <2>4 DEF Publish
  <1>9. ASSUME NEW w \in Worker, Visit(w)
        PROVE  TypeOK'
    <2>1. CASE Advance(w, {})
      BY <1>0, <1>9, <2>1, AdvanceTyped DEF Visit
    <2>2. CASE Go(w, "process", of[w]) /\ UNCHANGED pub
      BY <1>0, <1>9, <2>2 DEF Visit, Go, Where
    <2> QED
      BY <1>9, <2>1, <2>2 DEF Visit
  <1>10. ASSUME NEW w \in Worker, Process(w)
         PROVE  TypeOK'
    <2>1. CASE Advance(w, {}) /\ UNCHANGED <<queued, up>>
      BY <1>0, <1>10, <2>1, AdvanceTyped DEF Process
    <2>2. CASE pub[w].at.conn \in registered /\ Answer(pub[w].at.conn) /\ Advance(w, {pub[w].at}) /\ UNCHANGED up
      <3>1. pub[w].at \in Sub
        <4>1. pub[w].at \in Sub \cup {End}
          BY <1>0 DEF Pub
        <4>2. End.conn \notin Connection
          BY PubSubAssumption DEF End
        <4> QED
          BY <1>0, <2>2, <4>1, <4>2
      <3>2. {pub[w].at} \subseteq Sub
        BY <3>1
      <3> QED
        BY <1>0, <1>10, <2>2, <3>2, AdvanceTyped DEF Process, Answer
    <2>3. CASE up' = FALSE /\ UNCHANGED <<queued, pc, of, pub>>
      BY <1>0, <1>10, <2>3 DEF Process
    <2> QED
      BY <1>10, <2>1, <2>2, <2>3 DEF Process
  <1>11. ASSUME NEW w \in Worker, FreedNode(w)
         PROVE  TypeOK'
    BY <1>0, <1>11 DEF FreedNode
  <1>12. ASSUME NEW w \in Worker, Reply(w)
         PROVE  TypeOK'
    <2>1. pub' \in [Worker -> Pub]
      BY <1>0, <1>12, PubInitTyped DEF Reply
    <2>2. queued' \in [Connection -> Nat]
      BY <1>0, <1>12, AnswerTyped DEF Reply
    <2>3. pc' \in [Worker -> Where] /\ of' \in [Worker -> Connection \cup {NoConnection}]
      BY <1>0, <1>12 DEF Reply, Go, Where
    <2> QED
      BY <1>0, <1>12, <2>1, <2>2, <2>3 DEF Reply
  <1>13. CASE UNCHANGED vars
    BY <1>0, <1>13 DEF vars
  <1> QED
    BY <1>1, <1>2, <1>3, <1>4, <1>5, <1>6, <1>7, <1>8, <1>9, <1>10, <1>11, <1>12, <1>13
       DEF Next, Begin, Continue

\* The parts of RegistryInv beside TypeOK.
Registry == SubscriberAlive /\ AliveRegistered /\ MovingLife /\ NoneLeft /\ MovingDistinct

\* A step that neither moves a connection nor adds a subscription of one that
\* is not open.
LEMMA QuietStep ==
  ASSUME RegistryInv,
         UNCHANGED <<life, registered>>,
         \A s \in subs' : s \in subs \/ life[s.conn] = "open",
         \A v \in Worker : Moving(v)' => pc'[v] = pc[v] /\ of'[v] = of[v]
  PROVE  Registry'
  <1> USE DEF RegistryInv
  <1>1. \A v \in Worker : Moving(v)' => Moving(v)
    BY DEF Moving
  <1>2. SubscriberAlive'
    BY DEF SubscriberAlive
  <1>3. AliveRegistered'
    BY DEF AliveRegistered
  <1>4. MovingLife'
    BY <1>1 DEF MovingLife
  <1>5. NoneLeft'
    BY <1>1 DEF NoneLeft, MovingLife, Moving
  <1>6. MovingDistinct'
    BY <1>1 DEF MovingDistinct
  <1> QED
    BY <1>2, <1>3, <1>4, <1>5, <1>6 DEF Registry

\* A destruction begins on an idle thread.
LEMMA DieStep ==
  ASSUME RegistryInv, NEW w \in Worker, NEW c \in Connection, pc[w] = "idle",
         life[c] \in {"open", "closed"}, Die(w, c), UNCHANGED <<registered, subs>>
  PROVE  Registry'
  <1> USE DEF RegistryInv, TypeOK
  <1>1. /\ life'[c] = "dying" /\ pc'[w] = "leave" /\ of'[w] = c
        /\ \A d \in Connection : d # c => life'[d] = life[d]
        /\ \A v \in Worker : v # w => pc'[v] = pc[v] /\ of'[v] = of[v]
    BY DEF Die, Go
  <1>2. \A v \in Worker : Moving(v) => of[v] \in Connection /\ of[v] # c
    BY DEF MovingLife
  <1>3. \A v \in Worker : v # w => (Moving(v)' <=> Moving(v))
    BY <1>1 DEF Moving
  <1>4. SubscriberAlive'
    BY <1>1 DEF SubscriberAlive, Sub
  <1>5. AliveRegistered'
    BY <1>1 DEF AliveRegistered
  <1>6. MovingLife'
    BY <1>1, <1>2, <1>3 DEF MovingLife
  <1>7. NoneLeft'
    BY <1>1 DEF NoneLeft
  <1>8. MovingDistinct'
    BY <1>1, <1>2, <1>3 DEF MovingDistinct
  <1> QED
    BY <1>4, <1>5, <1>6, <1>7, <1>8 DEF Registry

LEMMA RegistryStep == RegistryInv /\ [Next]_vars => Registry'
  <1> SUFFICES ASSUME RegistryInv, [Next]_vars PROVE Registry'
    OBVIOUS
  <1>0. TypeOK
    BY DEF RegistryInv
  <1>1. ASSUME NEW w \in Worker, NEW c \in Connection, Join(w, c)
        PROVE  Registry'
    <2> USE DEF RegistryInv, TypeOK
    <2>1. /\ life[c] = "new" /\ life'[c] = "joining" /\ pc'[w] = "join" /\ of'[w] = c
          /\ \A d \in Connection : d # c => life'[d] = life[d]
          /\ \A v \in Worker : v # w => pc'[v] = pc[v] /\ of'[v] = of[v]
          /\ registered' = registered \cup {c} /\ subs' = subs
      BY <1>1 DEF Join, Go
    <2>2. \A v \in Worker : Moving(v) => of[v] \in Connection /\ of[v] # c
      BY <2>1 DEF MovingLife
    <2>3. \A v \in Worker : v # w => (Moving(v)' <=> Moving(v))
      BY <2>1 DEF Moving
    <2>4. SubscriberAlive'
      BY <2>1 DEF SubscriberAlive, Sub
    <2>5. AliveRegistered'
      BY <2>1 DEF AliveRegistered
    <2>6. MovingLife'
      BY <2>1, <2>2, <2>3 DEF MovingLife
    <2>7. NoneLeft'
      BY <2>1 DEF NoneLeft
    <2>8. MovingDistinct'
      BY <2>1, <2>2, <2>3 DEF MovingDistinct
    <2> QED
      BY <2>4, <2>5, <2>6, <2>7, <2>8 DEF Registry
  <1>2. ASSUME NEW w \in Worker, JoinSubs(w)
        PROVE  Registry'
    <2> USE DEF RegistryInv, TypeOK
    <2> DEFINE c == of[w]
    <2>1. Moving(w) /\ c \in Connection /\ life[c] = "joining"
      BY <1>2 DEF JoinSubs, At, Moving, MovingLife
    <2>2. /\ life'[c] = "open" /\ pc'[w] = "idle"
          /\ \A d \in Connection : d # c => life'[d] = life[d]
          /\ \A v \in Worker : v # w => pc'[v] = pc[v] /\ of'[v] = of[v]
          /\ registered' = registered
          /\ \A s \in subs' : s \in subs \/ s.conn = c
      BY <1>2, <2>1 DEF JoinSubs, Go
    <2>3. \A v \in Worker : Moving(v)' => v # w /\ Moving(v)
      BY <2>2 DEF Moving
    <2>4. \A v \in Worker : Moving(v)' => of[v] # c
      BY <2>1, <2>3 DEF MovingDistinct
    <2> HIDE DEF c
    <2>5. SubscriberAlive'
      BY <2>1, <2>2 DEF SubscriberAlive, Sub
    <2>6. AliveRegistered'
      BY <2>1, <2>2 DEF AliveRegistered
    <2>7. MovingLife'
      BY <2>2, <2>3, <2>4 DEF MovingLife
    <2>8. NoneLeft'
      <3> SUFFICES ASSUME NEW v \in Worker, pc'[v] = "unregister", NEW s \in subs'
                   PROVE  s.conn # of'[v]
        BY DEF NoneLeft
      <3>1. Moving(v)'
        BY DEF Moving
      <3> QED
        BY <2>2, <2>3, <2>4, <3>1 DEF NoneLeft
    <2>9. MovingDistinct'
      BY <2>2, <2>3 DEF MovingDistinct
    <2> QED
      BY <2>5, <2>6, <2>7, <2>8, <2>9 DEF Registry
  <1>3. ASSUME NEW w \in Worker, NEW c \in Connection, Close(w, c)
        PROVE  Registry'
    <2>1. CASE Die(w, c)
      BY <1>3, <2>1, DieStep DEF Close, Idle, Readable
    <2>2. CASE life' = [life EXCEPT ![c] = "closed"] /\ UNCHANGED <<pc, of>>
      <3> USE DEF RegistryInv, TypeOK
      <3>1. /\ life[c] = "open" /\ life'[c] = "closed"
            /\ \A d \in Connection : d # c => life'[d] = life[d]
            /\ UNCHANGED <<registered, subs>>
        BY <1>3, <2>2 DEF Close, Readable
      <3>2. \A v \in Worker : Moving(v)' <=> Moving(v)
        BY <2>2 DEF Moving
      <3>3. \A v \in Worker : Moving(v) => of[v] \in Connection /\ of[v] # c
        BY <3>1 DEF MovingLife
      <3>4. SubscriberAlive'
        BY <3>1 DEF SubscriberAlive, Sub
      <3>5. AliveRegistered'
        BY <3>1 DEF AliveRegistered
      <3>6. MovingLife'
        BY <2>2, <3>1, <3>2, <3>3 DEF MovingLife
      <3>7. NoneLeft' /\ MovingDistinct'
        BY <2>2, <3>1, <3>2 DEF NoneLeft, MovingDistinct
      <3> QED
        BY <3>4, <3>5, <3>6, <3>7 DEF Registry
    <2> QED
      BY <1>3, <2>1, <2>2 DEF Close
  <1>4. ASSUME NEW w \in Worker, NEW c \in Connection, Deliver(w, c)
        PROVE  Registry'
    <2>1. CASE life[c] = "closed" /\ Die(w, c)
      BY <1>4, <2>1, DieStep DEF Deliver, Idle
    <2>2. CASE UNCHANGED <<life, pc, of>>
      BY <1>4, <2>2, QuietStep DEF Deliver
    <2> QED
      BY <1>4, <2>1, <2>2 DEF Deliver
  <1>5. ASSUME NEW w \in Worker, Leave(w)
        PROVE  Registry'
    <2> USE DEF RegistryInv, TypeOK
    <2>1. Moving(w)
      BY <1>5 DEF Leave, At, Moving
    <2>2. /\ pc'[w] = "unregister" /\ pc[w] = "leave"
          /\ \A v \in Worker : v # w => pc'[v] = pc[v]
          /\ \A v \in Worker : of'[v] = of[v]
          /\ UNCHANGED <<life, registered>>
          /\ subs' = {s \in subs : s.conn # of[w]}
      BY <1>5 DEF Leave, At, Go
    <2>3. \A v \in Worker : Moving(v)' <=> Moving(v)
      BY <2>1, <2>2 DEF Moving
    <2>4. SubscriberAlive' /\ AliveRegistered'
      BY <2>2 DEF SubscriberAlive, AliveRegistered
    <2>5. MovingLife'
      BY <2>2, <2>3 DEF MovingLife
    <2>6. NoneLeft'
      BY <2>2 DEF NoneLeft
    <2>7. MovingDistinct'
      BY <2>2, <2>3 DEF MovingDistinct
    <2> QED
      BY <2>4, <2>5, <2>6, <2>7 DEF Registry
  <1>6. ASSUME NEW w \in Worker, Unregister(w)
        PROVE  Registry'
    <2> USE DEF RegistryInv, TypeOK
    <2> DEFINE c == of[w]
    <2>1. Moving(w) /\ c \in Connection /\ pc[w] = "unregister"
      BY <1>6 DEF Unregister, At, Moving, MovingLife
    <2>2. /\ life'[c] = "gone" /\ pc'[w] = "idle"
          /\ \A d \in Connection : d # c => life'[d] = life[d]
          /\ \A v \in Worker : v # w => pc'[v] = pc[v] /\ of'[v] = of[v]
          /\ registered' = registered \ {c} /\ subs' = subs
      BY <1>6, <2>1 DEF Unregister, Go
    <2>3. \A v \in Worker : Moving(v)' => v # w /\ Moving(v)
      BY <2>2 DEF Moving
    <2>4. \A v \in Worker : Moving(v)' => of[v] # c
      BY <2>1, <2>3 DEF MovingDistinct
    <2>5. \A s \in subs : s.conn # c
      BY <2>1 DEF NoneLeft
    <2> HIDE DEF c
    <2>6. SubscriberAlive'
      BY <2>2, <2>5 DEF SubscriberAlive, Sub
    <2>7. AliveRegistered'
      BY <2>1, <2>2 DEF AliveRegistered
    <2>8. MovingLife'
      BY <2>2, <2>3, <2>4 DEF MovingLife
    <2>9. NoneLeft'
      BY <2>2 DEF NoneLeft
    <2>10. MovingDistinct'
      BY <2>2, <2>3 DEF MovingDistinct
    <2> QED
      BY <2>6, <2>7, <2>8, <2>9, <2>10 DEF Registry
  <1>7. ASSUME NEW w \in Worker, NEW c \in Connection, NEW ch \in Channel, Subscribe(w, c, ch)
        PROVE  Registry'
    <2>1. \A s \in subs' : s \in subs \/ life[s.conn] = "open"
      BY <1>7 DEF Subscribe, Serve, Readable
    <2> QED
      BY <1>7, <2>1, QuietStep DEF Subscribe
  <1>8. ASSUME NEW w \in Worker, NEW c \in Connection, NEW ch \in Channel, Unsubscribe(w, c, ch)
        PROVE  Registry'
    <2>1. \A s \in subs' : s \in subs
      BY <1>8 DEF Unsubscribe
    <2> QED
      BY <1>8, <2>1, QuietStep DEF Unsubscribe
  <1>9. ASSUME NEW w \in Worker, NEW c \in Connection, NEW ch \in Channel, Publish(w, c, ch)
        PROVE  Registry'
    <2>1. \A v \in Worker : Moving(v)' => pc'[v] = pc[v] /\ of'[v] = of[v]
      BY <1>0, <1>9 DEF Publish, Go, Moving, TypeOK
    <2> QED
      BY <1>9, <2>1, QuietStep DEF Publish
  <1>10. ASSUME NEW w \in Worker, Visit(w) \/ Process(w) \/ FreedNode(w) \/ Reply(w)
         PROVE  Registry'
    <2>1. \A v \in Worker : Moving(v)' => pc'[v] = pc[v] /\ of'[v] = of[v]
      <3>1. CASE UNCHANGED <<pc, of>>
        BY <3>1
      <3>2. ASSUME NEW l \in {"visit", "process", "reply", "idle"},
                   NEW c, Go(w, l, c)
            PROVE  \A v \in Worker : Moving(v)' => pc'[v] = pc[v] /\ of'[v] = of[v]
        BY <1>0, <3>2 DEF Go, Moving, TypeOK
      <3> QED
        <4>1. ASSUME NEW x, Advance(w, x)
              PROVE  \E l \in {"visit", "process", "reply", "idle"} : Go(w, l, of[w])
          BY <4>1 DEF Advance
        <4> QED
          BY <1>10, <3>1, <3>2, <4>1 DEF Visit, Process, FreedNode, Reply
    <2>2. UNCHANGED <<life, registered, subs>>
      BY <1>10 DEF Visit, Process, FreedNode, Reply
    <2> QED
      BY <2>1, <2>2, QuietStep
  <1>11. CASE UNCHANGED vars
    BY <1>11, QuietStep DEF vars
  <1> QED
    BY <1>1, <1>2, <1>3, <1>4, <1>5, <1>6, <1>7, <1>8, <1>9, <1>10, <1>11
       DEF Next, Begin, Continue

LEMMA RegistryInvariant == Spec => []RegistryInv
  <1>1. Init => RegistryInv
    <2>1. Init => Registry
      BY DEF Init, Registry, SubscriberAlive, AliveRegistered, MovingLife, NoneLeft, MovingDistinct, Moving
    <2> QED
      BY <2>1, PubSubTypedInit DEF RegistryInv, Registry
  <1>2. RegistryInv /\ [Next]_vars => RegistryInv'
    BY PubSubTypedStep, RegistryStep DEF RegistryInv, Registry
  <1> QED
    BY <1>1, <1>2, PTL DEF Spec

(***************************************************************************)
(* Every reachable state is well typed.                                    *)
(***************************************************************************)
THEOREM PubSubTypeCorrect == Spec => []TypeOK
  <1>1. RegistryInv => TypeOK
    BY DEF RegistryInv
  <1> QED
    BY <1>1, RegistryInvariant, PTL

(***************************************************************************)
(* For any number of connections, channels and threads, a subscription     *)
(* belongs to a connection that is in the maps, between the halves of      *)
(* join() and leave() too.                                                 *)
(***************************************************************************)
THEOREM SubscribersAreRegistered == Spec => []SubscriberRegistered
  <1>1. RegistryInv => SubscriberRegistered
    BY DEF RegistryInv, TypeOK, SubscriberAlive, AliveRegistered, SubscriberRegistered, Sub
  <1> QED
    BY <1>1, RegistryInvariant, PTL

LEMMA WalkStep ==
  ASSUME SingleWorker, RegistryInv, WalkInv, [Next]_vars
  PROVE  WalkInv'
  <1> USE DEF WalkInv
  <1>0. TypeOK
    BY DEF RegistryInv
  <1>1. ASSUME NEW w \in Worker, Begin(w) \/ \E c \in Connection : Deliver(w, c)
        PROVE  WalkInv'
    <2>1. pc[w] = "idle" /\ \A v \in Worker : v = w
      BY <1>1 DEF SingleWorker, Begin, Join, Close, Subscribe, Unsubscribe, Publish, Serve, Deliver, Idle
    <2>2. \A c \in Connection : life[c] # "dying"
      BY <2>1
    <2>3. UNCHANGED up
      BY <1>1 DEF Begin, Join, Close, Subscribe, Unsubscribe, Publish, Deliver
    <2>4. \A c \in Connection : life'[c] = "dying" => pc'[w] = "leave" /\ of'[w] = c
      <3>1. ASSUME NEW c \in Connection, Die(w, c)
            PROVE  \A d \in Connection : life'[d] = "dying" => pc'[w] = "leave" /\ of'[w] = d
        BY <1>0, <2>2, <3>1 DEF Die, Go, TypeOK
      <3>2. ASSUME NEW c \in Connection, NEW l \in {"joining", "closed"}, life' = [life EXCEPT ![c] = l]
            PROVE  \A d \in Connection : life'[d] # "dying"
        BY <1>0, <2>2, <3>2 DEF TypeOK
      <3>3. CASE UNCHANGED life
        BY <2>2, <3>3
      <3> QED
        BY <1>1, <3>1, <3>2, <3>3 DEF Begin, Join, Close, Subscribe, Unsubscribe, Publish, Deliver
    <2>5. (pc'[w] \in {"visit", "process"} => OnCourse(w)') /\ pub'[w].sent \subseteq pub'[w].due
      <3>1. CASE \E c \in Connection, ch \in Channel : Publish(w, c, ch)
        <4>1. PICK c \in Connection, ch \in Channel : Publish(w, c, ch)
          BY <3>1
        <4>2. CASE UNCHANGED <<pc, pub>>
          BY <2>1, <4>2 DEF NoStrangerHears
        <4>3. ASSUME NEW s \in In(ch), NEW e \in FirstOf(AfterRange(ch)),
                     IsFirst(s, In(ch)),
                     pub' = [pub EXCEPT ![w] = [at |-> s, end |-> e, due |-> In(ch), sent |-> {}, stale |-> FALSE]]
              PROVE  OnCourse(w)' /\ pub'[w].sent \subseteq pub'[w].due
          <5>1. pub'[w].at = s /\ pub'[w].end = e /\ pub'[w].due = In(ch) /\ pub'[w].sent = {} /\ subs' = subs
            BY <1>0, <4>1, <4>3 DEF TypeOK, Publish
          <5>2. s \in subs /\ s \in Sub /\ s.channel = ch /\ AfterRange(ch) \subseteq Sub /\ ch \in Nat
            BY <1>0, SubNumbers DEF In, AfterRange, TypeOK
          <5>3. \/ e = End /\ AfterRange(ch) = {}
                \/ e \in AfterRange(ch) /\ e # End /\ \A t \in AfterRange(ch) : e = t \/ Precedes(e, t)
            BY <5>2, FirstOfShape
          <5>4. e = End \/ (e \in subs /\ Precedes(s, e))
            BY <5>2, <5>3 DEF AfterRange, Precedes
          <5>5. ASSUME NEW t \in subs, Precedes(s, t), e = End \/ Precedes(t, e)
                PROVE  t \in In(ch)
            <6>1. t \in Sub /\ t.channel \in Nat /\ t.channel >= ch
              BY <1>0, <5>2, <5>5, SubNumbers DEF TypeOK, Precedes
            <6>2. ASSUME t.channel > ch PROVE FALSE
              <7>1. t \in AfterRange(ch)
                BY <6>2 DEF AfterRange
              <7>2. e \in Sub /\ (e = t \/ Precedes(e, t)) /\ e # End
                BY <5>2, <5>3, <7>1
              <7> QED
                BY <5>5, <6>1, <7>2, PrecedesOrders
            <6>3. t.channel = ch
              BY <5>2, <6>1, <6>2
            <6> QED
              BY <6>3 DEF In
          <5>6. ~pub'[w].stale
            BY <1>0, <4>3 DEF TypeOK
          <5>7. \A t \in subs' : Between(w, t)' => t \in pub'[w].due
            BY <5>1, <5>5 DEF Between
          <5> QED
            BY <5>1, <5>2, <5>4, <5>6, <5>7 DEF OnCourse
        <4> QED
          BY <4>1, <4>2, <4>3 DEF Publish
      <3>2. CASE ~ \E c \in Connection, ch \in Channel : Publish(w, c, ch)
        <4>1. pc' = pc \/ \E l \in {"join", "leave"} : pc' = [pc EXCEPT ![w] = l]
          BY <1>1, <3>2 DEF Begin, Join, Close, Die, Go, Subscribe, Unsubscribe, Deliver
        <4>2. pc'[w] \in {"idle", "join", "leave"}
          BY <1>0, <2>1, <4>1 DEF TypeOK
        <4>3. pub' = pub
          BY <1>1, <3>2 DEF Begin, Join, Close, Subscribe, Unsubscribe, Deliver
        <4> QED
          BY <4>2, <4>3 DEF NoStrangerHears
      <3> QED
        BY <3>1, <3>2
    <2> QED
      BY <2>1, <2>3, <2>4, <2>5 DEF NoStrangerHears
  <1>2. ASSUME NEW w \in Worker, Continue(w)
        PROVE  WalkInv'
    <2>1. pc[w] # "idle" /\ \A v \in Worker : v = w
      BY <1>2 DEF SingleWorker, Continue, JoinSubs, Leave, Unregister, Visit, Process, FreedNode, Reply, At
    <2>2. CASE JoinSubs(w)
      <3>1. \A c \in Connection : life[c] # "dying"
        BY <2>1, <2>2 DEF JoinSubs, At
      <3> QED
        BY <1>0, <2>1, <2>2, <3>1 DEF JoinSubs, Go, TypeOK, NoStrangerHears
    <2>3. CASE Leave(w)
      BY <1>0, <2>1, <2>3 DEF Leave, At, Go, TypeOK, NoStrangerHears
    <2>4. CASE Unregister(w)
      <3>1. of[w] \in Connection /\ \A c \in Connection : life[c] = "dying" => c = of[w]
        BY <2>1, <2>4 DEF Unregister, At, RegistryInv, MovingLife, Moving
      <3>2. \A c \in Connection : life'[c] # "dying"
        BY <1>0, <2>4, <3>1 DEF Unregister, TypeOK
      <3> QED
        BY <1>0, <2>1, <2>4, <3>2 DEF Unregister, Go, TypeOK, NoStrangerHears
    <2>5. CASE Visit(w) \/ Process(w) \/ FreedNode(w)
      <3>0. OnCourse(w)
        BY <2>5 DEF Visit, Process, FreedNode, At
      <3>1. pub[w].at \in subs /\ pub[w].at \in pub[w].due
        BY <3>0 DEF OnCourse
      <3>2. \A c \in Connection : life[c] # "dying"
        BY <2>1, <2>5 DEF Visit, Process, FreedNode, At
      <3>3. pub[w].at.conn \in Connection /\ pub[w].at \in Sub
        BY <1>0, <3>1 DEF TypeOK, Sub
      <3>4. UNCHANGED <<life, subs, up>>
        BY <2>5, <3>1, <3>2, <3>3 DEF Visit, Process, FreedNode
      <3>5. ASSUME NEW sent, sent \subseteq {pub[w].at}, Advance(w, sent)
            PROVE  /\ pc'[w] \in {"visit", "process"} => OnCourse(w)'
                   /\ pub'[w].sent \subseteq pub'[w].due
        <4> DEFINE at == pub[w].at
                   end == pub[w].end
        <4>1. PICK s \in Following(w) : \E stop \in IsEnd(w, s) :
                /\ pub'[w].at = s /\ pub'[w].end = end
                /\ pub'[w].stale <=> pub[w].stale \/ at \notin subs
                /\ ~pub'[w].stale => pub'[w].due = pub[w].due /\ pub'[w].sent = pub[w].sent \cup sent
                /\ pub'[w].stale => pub'[w].due = {} /\ pub'[w].sent = {}
                /\ Go(w, IF stop THEN "reply" ELSE "visit", of[w])
          BY <1>0, <3>3, <3>5, AdvanceShape
        <4>2. PICK stop \in IsEnd(w, s) :
                /\ pub'[w].at = s /\ pub'[w].end = end
                /\ pub'[w].stale <=> pub[w].stale \/ at \notin subs
                /\ ~pub'[w].stale => pub'[w].due = pub[w].due /\ pub'[w].sent = pub[w].sent \cup sent
                /\ pub'[w].stale => pub'[w].due = {} /\ pub'[w].sent = {}
                /\ Go(w, IF stop THEN "reply" ELSE "visit", of[w])
          BY <4>1
        <4>3. end = End \/ (end \in subs /\ Precedes(at, end))
          BY <3>0 DEF OnCourse
        <4>4. stop <=> s = end
          BY <4>3 DEF IsEnd
        <4>5. \/ s = End /\ Beyond(w) = {}
              \/ s \in Beyond(w) /\ \A t \in Beyond(w) : s = t \/ Precedes(s, t)
          BY <1>0, <3>1, FollowingShape
        <4>6. at # End
          BY <3>3, EndIsNoSub
        <4>7. pub'[w].sent \subseteq pub'[w].due
          BY <3>1, <3>5, <4>2 DEF NoStrangerHears
        <4>8. ASSUME s # end
              PROVE  OnCourse(w)'
          <5>0. end # End => end \in Beyond(w)
            BY <4>3, <4>6 DEF Beyond
          <5>1. s # End
            <6>1. Beyond(w) \subseteq Sub
              BY <1>0 DEF Beyond, TypeOK
            <6> QED
              BY <4>5, <4>8, <5>0, <6>1, EndIsNoSub
          <5>2. s \in subs /\ Precedes(at, s) /\ s \in Sub
            BY <1>0, <4>5, <5>1 DEF Beyond, TypeOK
          <5>3. end = End \/ (end \in subs /\ end \in Sub /\ Precedes(s, end))
            BY <1>0, <4>3, <4>5, <4>8, <5>0, <5>1 DEF TypeOK
          <5>4. s \in pub[w].due
            BY <3>0, <5>2, <5>3 DEF OnCourse, Between
          <5>5. ASSUME NEW t \in subs, Precedes(s, t), end = End \/ Precedes(t, end)
                PROVE  t \in pub[w].due
            <6>1. Precedes(at, t)
              BY <1>0, <3>3, <5>2, <5>5, PrecedesOrders DEF TypeOK
            <6> QED
              BY <3>0, <5>5, <6>1 DEF OnCourse, Between
          <5>6. CASE ~pub'[w].stale
            BY <3>4, <4>2, <5>2, <5>3, <5>4, <5>5, <5>6 DEF OnCourse, Between
          <5>7. ~pub'[w].stale
            BY <3>0, <3>1, <4>2 DEF OnCourse
          <5> QED
            BY <5>6, <5>7
        <4>9. stop => pc'[w] = "reply"
          BY <1>0, <4>2 DEF Go, TypeOK
        <4> QED
          BY <4>4, <4>7, <4>8, <4>9
      <3>6. /\ pc'[w] \in {"visit", "process"} => OnCourse(w)'
            /\ pub'[w].sent \subseteq pub'[w].due
        <4>1. CASE UNCHANGED pub
          BY <3>0, <3>4, <4>1 DEF OnCourse, Between, NoStrangerHears
        <4>2. CASE \E sent : sent \subseteq {pub[w].at} /\ Advance(w, sent)
          BY <3>5, <4>2
        <4> QED
          BY <2>5, <4>1, <4>2 DEF Visit, Process, FreedNode
      <3> QED
        BY <2>1, <3>2, <3>4, <3>6 DEF NoStrangerHears
    <2>6. CASE Reply(w)
      <3>1. \A c \in Connection : life[c] # "dying"
        BY <2>1, <2>6 DEF Reply, At
      <3> QED
        BY <1>0, <2>1, <2>6, <3>1 DEF Reply, Go, TypeOK, NoPub, NoStrangerHears
    <2> QED
      BY <1>2, <2>2, <2>3, <2>4, <2>5, <2>6 DEF Continue
  <1>3. CASE UNCHANGED vars
    BY <1>3 DEF vars, NoStrangerHears, OnCourse, Between
  <1> QED
    BY <1>1, <1>2, <1>3 DEF Next

(***************************************************************************)
(* With one pool thread no PUBLISH terminates the process, whatever        *)
(* connections come and go.                                                *)
(***************************************************************************)
THEOREM SingleWorkerSurvives ==
  ASSUME SingleWorker
  PROVE  Spec => []Survives
  <1>1. Init => WalkInv
    BY DEF Init, WalkInv, NoPub, NoStrangerHears
  <1>2. RegistryInv /\ WalkInv /\ [Next]_vars => WalkInv'
    BY WalkStep
  <1>3. WalkInv => Survives
    BY DEF WalkInv, Survives
  <1> QED
    BY <1>1, <1>2, <1>3, RegistryInvariant, PTL DEF Spec

(***************************************************************************)
(* With one pool thread a message goes only to subscriptions of its        *)
(* channel: nothing is entered into or erased from the index between       *)
(* equal_range and the end of the walk (publish_command.cpp:48 and :67).   *)
(***************************************************************************)
THEOREM SingleWorkerNoStranger ==
  ASSUME SingleWorker
  PROVE  Spec => []NoStrangerHears
  <1>1. Init => WalkInv
    BY DEF Init, WalkInv, NoPub, NoStrangerHears
  <1>2. RegistryInv /\ WalkInv /\ [Next]_vars => WalkInv'
    BY WalkStep
  <1>3. WalkInv => NoStrangerHears
    BY DEF WalkInv
  <1> QED
    BY <1>1, <1>2, <1>3, RegistryInvariant, PTL DEF Spec

-----------------------------------------------------------------------------
(* What a PUBLISH serves *)

\* No walk begins, ends or goes on.
NoneAdvances ==
  \A v \in Worker : pc'[v] \in {"visit", "process", "reply"} =>
    pc'[v] = pc[v] \/ (Walking(v)' /\ Walking(v))

\* A step that moves no walk forward, and adds only subscriptions with a new
\* serial.
LEMMA NoWalkMoves ==
  ASSUME TypeOK, HearInv, SerialsDiffer', serial' \in Nat, serial <= serial', pub' = pub,
         \A s \in subs' : s.serial \in Nat /\ (s \in subs \/ serial < s.serial),
         NoneAdvances
  PROVE  HearInv'
  <1> USE DEF HearInv, NoneAdvances
  <1>0. \A v \in Worker : /\ pub[v].due \subseteq Sub
                          /\ \A s \in pub[v].due : s.serial \in Nat
    BY DEF TypeOK, Pub, Sub
  <1>1. \A v \in Worker : Walking(v)' => Walking(v)
    BY DEF Walking
  <1>2. \A v \in Worker : \A s \in pub[v].due : s \in subs' => s \in subs
    BY <1>0 DEF DueIsOld, TypeOK
  <1>3. DueIsOld'
    BY <1>0 DEF DueIsOld, TypeOK
  <1>4. DueIsHere'
    BY <1>1 DEF DueIsHere
  <1>n. NewIsLater'
    <2> SUFFICES ASSUME NEW v \in Worker, Walking(v)', NEW s \in pub[v].due, NEW t \in subs' \ pub[v].due,
                        s.channel = t.channel
                 PROVE  s.serial < t.serial
      BY DEF NewIsLater
    <2>1. CASE t \in subs
      BY <1>1, <2>1 DEF NewIsLater
    <2>2. CASE serial < t.serial
      <3>1. s.serial \in Nat /\ serial \in Nat /\ s.serial <= serial
        BY <1>0 DEF DueIsOld, TypeOK
      <3>2. t.serial <= serial'
        BY DEF SerialsDiffer
      <3> QED
        BY <2>2, <3>1, <3>2
    <2> QED
      BY <2>1, <2>2
  <1>5. BehindIsServed'
    BY <1>1, <1>2 DEF BehindIsServed
  <1>6. EveryoneHears'
    <2> SUFFICES ASSUME NEW v \in Worker, pc'[v] = "reply", ~pub[v].stale,
                        NEW s \in pub[v].due, s \in subs'
                 PROVE  s \in pub[v].sent
      BY DEF EveryoneHears
    <2>1. pc[v] = "reply"
      BY DEF Walking
    <2> QED
      BY <1>2, <2>1 DEF EveryoneHears
  <1> QED
    BY <1>3, <1>4, <1>n, <1>5, <1>6

\* The walk goes on.  What lies behind it grows by the subscription it stands
\* on, which was served if it is still there.
LEMMA WalkMoves ==
  ASSUME TypeOK, HearInv, NEW w \in Worker, Walking(w), NEW sent, sent \subseteq Sub, Advance(w, sent),
         pub[w].at \in subs => pub[w].at \in sent,
         subs' = subs, serial' = serial
  PROVE  HearInv'
  <1> USE DEF HearInv
  <1> DEFINE at == pub[w].at
             end == pub[w].end
  <1>1. PICK s \in Following(w) : \E stop \in IsEnd(w, s) :
          /\ pub'[w].at = s /\ pub'[w].end = end
          /\ pub'[w].stale <=> pub[w].stale \/ at \notin subs
          /\ ~pub'[w].stale => pub'[w].due = pub[w].due /\ pub'[w].sent = pub[w].sent \cup sent
          /\ pub'[w].stale => pub'[w].due = {} /\ pub'[w].sent = {}
          /\ \A v \in Worker : v # w => pub'[v] = pub[v]
          /\ Go(w, IF stop THEN "reply" ELSE "visit", of[w])
    BY AdvanceShape
  <1>2. PICK stop \in IsEnd(w, s) :
          /\ pub'[w].at = s /\ pub'[w].end = end
          /\ pub'[w].stale <=> pub[w].stale \/ at \notin subs
          /\ ~pub'[w].stale => pub'[w].due = pub[w].due /\ pub'[w].sent = pub[w].sent \cup sent
          /\ pub'[w].stale => pub'[w].due = {} /\ pub'[w].sent = {}
          /\ \A v \in Worker : v # w => pub'[v] = pub[v]
          /\ Go(w, IF stop THEN "reply" ELSE "visit", of[w])
    BY <1>1
  <1>3. /\ pc'[w] = IF stop THEN "reply" ELSE "visit"
        /\ \A v \in Worker : v # w => pc'[v] = pc[v]
    BY <1>2 DEF Go, TypeOK
  <1>4. subs \subseteq Sub /\ pub[w].due \subseteq Sub /\ end \in Sub \cup {End} /\ End \notin Sub
    BY EndIsNoSub DEF TypeOK, Pub
  <1>5. pub'[w].due \subseteq pub[w].due
    BY <1>2
  \* When the walk never lost its place, it steps to the next node.
  <1>6. ASSUME ~pub'[w].stale
        PROVE  /\ at \in subs /\ at \in Sub /\ at # End /\ ~pub[w].stale
               /\ \/ s = End /\ Beyond(w) = {}
                  \/ s \in Beyond(w) /\ \A t \in Beyond(w) : s = t \/ Precedes(s, t)
    BY <1>2, <1>4, <1>6, FollowingShape
  <1>7. ASSUME ~pub'[w].stale, NEW t \in pub[w].due \cap subs, s = End \/ Precedes(t, s)
        PROVE  t \in pub'[w].sent
    <2>1. t \in Sub
      BY <1>4
    <2>2. CASE Precedes(t, at)
      BY <1>2, <1>6, <1>7, <2>2 DEF BehindIsServed
    <2>3. CASE t = at
      BY <1>2, <1>6, <1>7, <2>3
    <2>4. CASE Precedes(at, t)
      <3>1. t \in Beyond(w)
        BY <1>6, <1>7, <2>4 DEF Beyond
      <3>2. s # End /\ s \in Sub /\ (s = t \/ Precedes(s, t))
        BY <1>4, <1>6, <1>7, <3>1 DEF Beyond
      <3> QED
        BY <1>7, <2>1, <3>2, PrecedesOrders
    <2>5. t = at \/ t.serial # at.serial
      BY <1>6, <1>7 DEF SerialsDiffer
    <2> QED
      BY <1>6, <1>7, <2>1, <2>2, <2>3, <2>4, <2>5, PrecedesOrders
  <1>8. ASSUME ~pub'[w].stale, NEW t \in pub[w].due
        PROVE  /\ s = End \/ t.channel <= s.channel
               /\ end = End \/ Precedes(t, end)
    <2>1. t \in Sub /\ t.channel <= at.channel /\ (end = End \/ Precedes(t, end))
      BY <1>4, <1>6, <1>8 DEF DueIsHere
    <2>2. s # End => s \in Sub /\ Precedes(at, s)
      BY <1>4, <1>6, <1>8 DEF Beyond
    <2>3. s # End => t.channel <= s.channel
      <3> SUFFICES ASSUME s # End PROVE t.channel <= s.channel
        OBVIOUS
      <3>1. s.channel \in Nat /\ at.channel \in Nat /\ t.channel \in Nat
        BY <1>6, <1>8, <2>1, <2>2, SubNumbers
      <3> QED
        BY <2>1, <2>2, <3>1 DEF Precedes
    <2> QED
      BY <2>1, <2>3
  \* Where it stops, its range is behind it.
  <1>9. ASSUME ~pub'[w].stale, stop, NEW t \in pub[w].due \cap subs
        PROVE  t \in pub'[w].sent
    <2>1. CASE s = end
      BY <1>7, <1>8, <1>9, <2>1
    <2>2. CASE s # end
      <3>1. s \in subs \ pub[w].due
        BY <1>9, <2>2 DEF IsEnd
      <3>2. s # End /\ s \in Sub /\ t \in Sub
        BY <1>4, <3>1
      <3>3. t.channel <= s.channel /\ (t.channel = s.channel => t.serial < s.serial)
        BY <1>8, <1>9, <3>1, <3>2 DEF NewIsLater
      <3>4. Precedes(t, s)
        BY <3>2, <3>3, SubNumbers DEF Precedes
      <3> QED
        BY <1>7, <1>9, <3>4
    <2> QED
      BY <2>1, <2>2
  <1> HIDE DEF at, end
  <1>11. SerialsDiffer'
    BY DEF SerialsDiffer
  <1>12. DueIsOld'
    <2>1. \A v \in Worker : pub'[v].due \subseteq pub[v].due
      BY <1>2, <1>5
    <2> QED
      BY <2>1 DEF DueIsOld
  <1>13. DueIsHere'
    <2> SUFFICES ASSUME NEW v \in Worker, Walking(v)', ~pub'[v].stale, NEW t \in pub'[v].due
                 PROVE  /\ pub'[v].at = End \/ t.channel <= pub'[v].at.channel
                        /\ pub'[v].end = End \/ Precedes(t, pub'[v].end)
      BY DEF DueIsHere
    <2>1. CASE v = w
      BY <1>2, <1>5, <1>8, <2>1
    <2>2. CASE v # w
      BY <1>2, <1>3, <2>2 DEF DueIsHere, Walking
    <2> QED
      BY <2>1, <2>2
  <1>n. NewIsLater'
    <2> SUFFICES ASSUME NEW v \in Worker, Walking(v)', NEW t \in pub'[v].due, NEW u \in subs \ pub'[v].due,
                        t.channel = u.channel
                 PROVE  t.serial < u.serial
      BY DEF NewIsLater
    <2>1. CASE v = w
      <3>1. pub'[w].due = pub[w].due
        BY <1>2, <2>1
      <3> QED
        BY <2>1, <3>1 DEF NewIsLater
    <2>2. CASE v # w
      BY <1>2, <1>3, <2>2 DEF NewIsLater, Walking
    <2> QED
      BY <2>1, <2>2
  <1>14. BehindIsServed'
    <2> SUFFICES ASSUME NEW v \in Worker, Walking(v)', ~pub'[v].stale,
                        NEW t \in pub'[v].due \cap subs, pub'[v].at = End \/ Precedes(t, pub'[v].at)
                 PROVE  t \in pub'[v].sent
      BY DEF BehindIsServed
    <2>1. CASE v = w
      BY <1>2, <1>7, <2>1
    <2>2. CASE v # w
      BY <1>2, <1>3, <2>2 DEF BehindIsServed, Walking
    <2> QED
      BY <2>1, <2>2
  <1>15. EveryoneHears'
    <2> SUFFICES ASSUME NEW v \in Worker, pc'[v] = "reply", ~pub'[v].stale,
                        NEW t \in pub'[v].due \cap subs
                 PROVE  t \in pub'[v].sent
      BY DEF EveryoneHears
    <2>1. CASE v = w
      BY <1>2, <1>3, <1>9, <2>1
    <2>2. CASE v # w
      BY <1>2, <1>3, <2>2 DEF EveryoneHears
    <2> QED
      BY <2>1, <2>2
  <1> QED
    BY <1>11, <1>12, <1>13, <1>n, <1>14, <1>15

LEMMA HearStep == RegistryInv /\ HearInv /\ [Next]_vars => HearInv'
  <1> SUFFICES ASSUME RegistryInv, HearInv, [Next]_vars PROVE HearInv'
    OBVIOUS
  <1>0. TypeOK
    BY DEF RegistryInv
  <1>s. SerialsDiffer
    BY DEF HearInv
  <1>t. \A s \in subs : s.serial \in Nat /\ s.conn \in registered
    BY <1>0 DEF RegistryInv, SubscriberAlive, AliveRegistered, TypeOK, Sub
  <1>q. ASSUME pub' = pub, serial' = serial, subs' \subseteq subs,
               \/ pc' = pc
               \/ \E w \in Worker, l \in {"idle", "join", "leave", "unregister"} : pc' = [pc EXCEPT ![w] = l]
        PROVE  HearInv'
    <2>1. SerialsDiffer'
      BY <1>q, <1>s DEF SerialsDiffer
    <2>2. NoneAdvances
      BY <1>0, <1>q DEF NoneAdvances, TypeOK
    <2>3. serial' \in Nat /\ serial <= serial' /\ \A s \in subs' : s.serial \in Nat
      BY <1>0, <1>t, <1>q DEF TypeOK
    <2> QED
      BY <1>0, <1>q, <2>1, <2>2, <2>3, NoWalkMoves
  <1>1. ASSUME NEW w \in Worker, NEW c \in Connection, Join(w, c) \/ Close(w, c) \/ Deliver(w, c)
        PROVE  HearInv'
    BY <1>1, <1>q DEF Join, Close, Deliver, Die, Go
  <1>2. ASSUME NEW w \in Worker, JoinSubs(w)
        PROVE  HearInv'
    <2>1. SerialsDiffer'
      <3>1. \A s \in subs' : \/ s \in subs
                             \/ s = [serial |-> serial + 1, conn |-> of[w], channel |-> of[w]]
                             \/ s = [serial |-> serial + 2, conn |-> of[w], channel |-> Star]
        BY <1>2 DEF JoinSubs
      <3>2. serial' = serial + 2 /\ serial \in Nat
        BY <1>0, <1>2 DEF JoinSubs, TypeOK
      <3>3. \A s \in subs' : \/ s \in subs /\ s.serial \in Nat /\ s.serial <= serial
                             \/ s.serial = serial + 1
                             \/ s.serial = serial + 2
        BY <1>s, <1>t, <3>1 DEF SerialsDiffer
      <3>4. \A s, t \in subs' : s.serial = t.serial => s = t
        BY <1>s, <3>1, <3>2, <3>3 DEF SerialsDiffer
      <3>5. \A s \in subs' : 0 < s.serial /\ s.serial <= serial'
        BY <1>s, <3>2, <3>3 DEF SerialsDiffer
      <3> QED
        BY <3>4, <3>5 DEF SerialsDiffer
    <2>2. NoneAdvances
      BY <1>0, <1>2 DEF NoneAdvances, JoinSubs, Go, TypeOK
    <2>3. /\ serial' \in Nat /\ serial <= serial' /\ pub' = pub
          /\ \A s \in subs' : s.serial \in Nat /\ (s \in subs \/ serial < s.serial)
      BY <1>0, <1>t, <1>2 DEF JoinSubs, TypeOK
    <2> QED
      BY <1>0, <2>1, <2>2, <2>3, NoWalkMoves
  <1>3. ASSUME NEW w \in Worker, Leave(w) \/ Unregister(w)
        PROVE  HearInv'
    BY <1>3, <1>q DEF Leave, Unregister, Go
  <1>4. ASSUME NEW w \in Worker, NEW c \in Connection, NEW ch \in Channel, Subscribe(w, c, ch)
        PROVE  HearInv'
    <2>1. SerialsDiffer'
      <3>1. \A s \in subs' : s \in subs \/ s = [serial |-> serial + 1, conn |-> c, channel |-> ch]
        BY <1>4 DEF Subscribe
      <3>2. serial' = serial + 1 /\ serial \in Nat
        BY <1>0, <1>4 DEF Subscribe, TypeOK
      <3>3. \A s \in subs' : \/ s \in subs /\ s.serial \in Nat /\ s.serial <= serial
                             \/ s.serial = serial + 1
        BY <1>s, <1>t, <3>1 DEF SerialsDiffer
      <3>4. \A s, t \in subs' : s.serial = t.serial => s = t
        BY <1>s, <3>1, <3>2, <3>3 DEF SerialsDiffer
      <3>5. \A s \in subs' : 0 < s.serial /\ s.serial <= serial'
        BY <1>s, <3>2, <3>3 DEF SerialsDiffer
      <3> QED
        BY <3>4, <3>5 DEF SerialsDiffer
    <2>2. NoneAdvances
      BY <1>4 DEF NoneAdvances, Subscribe
    <2>3. /\ serial' \in Nat /\ serial <= serial' /\ pub' = pub
          /\ \A s \in subs' : s.serial \in Nat /\ (s \in subs \/ serial < s.serial)
      BY <1>0, <1>t, <1>4 DEF Subscribe, TypeOK
    <2> QED
      BY <1>0, <2>1, <2>2, <2>3, NoWalkMoves
  <1>5. ASSUME NEW w \in Worker, NEW c \in Connection, NEW ch \in Channel, Unsubscribe(w, c, ch)
        PROVE  HearInv'
    BY <1>5, <1>q DEF Unsubscribe
  <1>6. ASSUME NEW w \in Worker, NEW c \in Connection, NEW ch \in Channel, Publish(w, c, ch)
        PROVE  HearInv'
    <2>1. CASE UNCHANGED <<pc, of, pub>>
      BY <1>6, <1>q, <2>1 DEF Publish
    <2>2. ASSUME NEW s \in In(ch), NEW e \in FirstOf(AfterRange(ch)), IsFirst(s, In(ch)),
                 pub' = [pub EXCEPT ![w] = [at |-> s, end |-> e, due |-> In(ch), sent |-> {}, stale |-> FALSE]],
                 Go(w, "visit", c)
          PROVE  HearInv'
      <3> USE DEF HearInv
      <3>1. /\ pub'[w].at = s /\ pub'[w].end = e /\ pub'[w].due = In(ch)
            /\ \A v \in Worker : v # w => pub'[v] = pub[v]
        BY <1>0, <2>2 DEF TypeOK
      <3>2. pc'[w] = "visit" /\ \A v \in Worker : v # w => pc'[v] = pc[v]
        BY <1>0, <2>2 DEF Go, TypeOK
      <3>3. UNCHANGED <<subs, serial>>
        BY <1>6 DEF Publish
      <3>4. SerialsDiffer'
        BY <3>3 DEF SerialsDiffer
      <3>5. DueIsOld'
        BY <3>1, <3>3 DEF DueIsOld, SerialsDiffer, In
      <3>e. s.channel = ch /\ ch \in Nat /\ \A t \in In(ch) : t \in Sub /\ t.channel = ch
        BY <1>0, SubNumbers DEF In, TypeOK
      <3>f. e = End \/ e.channel > ch
        <4>1. AfterRange(ch) \subseteq Sub
          BY <1>0 DEF AfterRange, TypeOK
        <4> QED
          BY <4>1, FirstOfShape DEF AfterRange
      <3>6. DueIsHere'
        <4> SUFFICES ASSUME NEW v \in Worker, Walking(v)', ~pub'[v].stale, NEW t \in pub'[v].due
                     PROVE  /\ pub'[v].at = End \/ t.channel <= pub'[v].at.channel
                            /\ pub'[v].end = End \/ Precedes(t, pub'[v].end)
          BY DEF DueIsHere
        <4>1. CASE v = w
          <5>1. t.channel = ch /\ pub'[v].at = s /\ pub'[v].end = e
            BY <3>1, <3>e, <4>1
          <5> QED
            BY <3>e, <3>f, <5>1 DEF Precedes
        <4>2. CASE v # w
          BY <3>1, <3>2, <4>2 DEF DueIsHere, Walking
        <4> QED
          BY <4>1, <4>2
      <3>n. NewIsLater'
        <4> SUFFICES ASSUME NEW v \in Worker, Walking(v)', NEW t \in pub'[v].due, NEW u \in subs \ pub'[v].due,
                            t.channel = u.channel
                     PROVE  t.serial < u.serial
          BY <3>3 DEF NewIsLater
        <4>1. CASE v = w
          BY <3>1, <3>e, <4>1 DEF In
        <4>2. CASE v # w
          BY <3>1, <3>2, <4>2 DEF NewIsLater, Walking
        <4> QED
          BY <4>1, <4>2
      <3>7. BehindIsServed'
        <4> SUFFICES ASSUME NEW v \in Worker, Walking(v)', ~pub'[v].stale,
                            NEW t \in pub'[v].due \cap subs, pub'[v].at = End \/ Precedes(t, pub'[v].at)
                     PROVE  t \in pub'[v].sent
          BY <3>3 DEF BehindIsServed
        <4>1. CASE v = w
          <5>1. t \in In(ch) /\ t \in Sub /\ s \in Sub /\ s # End
            BY <3>1, <3>e, <4>1, EndIsNoSub
          <5>2. (s = t \/ Precedes(s, t)) /\ Precedes(t, s)
            BY <2>2, <3>1, <4>1, <5>1 DEF IsFirst
          <5> QED
            BY <5>1, <5>2, PrecedesOrders
        <4>2. CASE v # w
          BY <3>1, <3>2, <4>2 DEF BehindIsServed, Walking
        <4> QED
          BY <4>1, <4>2
      <3>8. EveryoneHears'
        BY <3>1, <3>2, <3>3 DEF EveryoneHears
      <3> QED
        BY <3>4, <3>5, <3>6, <3>n, <3>7, <3>8
    <2> QED
      BY <1>6, <2>1, <2>2 DEF Publish
  <1>7. ASSUME NEW w \in Worker, Visit(w) \/ Process(w) \/ FreedNode(w)
        PROVE  HearInv'
    <2>1. Walking(w) /\ UNCHANGED <<subs, serial>>
      BY <1>7 DEF Visit, Process, FreedNode, At, Walking
    <2>2. CASE pub[w].at.conn \notin registered /\ Advance(w, {})
      BY <1>0, <1>t, <2>1, <2>2, WalkMoves
    <2>3. CASE pub[w].at.conn \in registered /\ Advance(w, {pub[w].at})
      <3>1. pub[w].at \in Sub \cup {End} /\ End.conn \notin Connection /\ registered \subseteq Connection
        BY <1>0, PubSubAssumption DEF TypeOK, Pub, End
      <3>2. {pub[w].at} \subseteq Sub
        BY <2>3, <3>1
      <3> QED
        BY <1>0, <2>1, <2>3, <3>2, WalkMoves
    <2>4. CASE UNCHANGED <<pc, pub>>
      BY <1>q, <2>1, <2>4
    <2>5. CASE Go(w, "process", of[w]) /\ UNCHANGED pub
      <3>1. NoneAdvances
        <4>1. pc'[w] = "process" /\ \A v \in Worker : v # w => pc'[v] = pc[v]
          BY <1>0, <2>5 DEF Go, TypeOK
        <4>2. Walking(w)'
          BY <4>1 DEF Walking
        <4> QED
          BY <2>1, <4>1, <4>2 DEF NoneAdvances
      <3>2. SerialsDiffer' /\ serial' \in Nat /\ serial <= serial' /\ \A s \in subs' : s.serial \in Nat
        BY <1>0, <1>s, <1>t, <2>1 DEF SerialsDiffer, TypeOK
      <3> QED
        BY <1>0, <2>1, <2>5, <3>1, <3>2, NoWalkMoves
    <2> QED
      BY <1>7, <2>2, <2>3, <2>4, <2>5 DEF Visit, Process, FreedNode
  <1>8. ASSUME NEW w \in Worker, Reply(w)
        PROVE  HearInv'
    <2> USE DEF HearInv
    <2>1. /\ pub'[w].due = {} /\ pc'[w] = "idle" /\ UNCHANGED <<subs, serial>>
          /\ \A v \in Worker : v # w => pub'[v] = pub[v] /\ pc'[v] = pc[v]
      BY <1>0, <1>8 DEF Reply, Go, NoPub, TypeOK
    <2>2. SerialsDiffer' /\ DueIsOld'
      BY <2>1 DEF SerialsDiffer, DueIsOld
    <2>3. DueIsHere' /\ NewIsLater' /\ BehindIsServed'
      BY <2>1 DEF DueIsHere, NewIsLater, BehindIsServed, Walking
    <2>4. EveryoneHears'
      BY <2>1 DEF EveryoneHears
    <2> QED
      BY <2>2, <2>3, <2>4
  <1>9. CASE UNCHANGED vars
    BY <1>9, <1>q DEF vars
  <1> QED
    BY <1>1, <1>2, <1>3, <1>4, <1>5, <1>6, <1>7, <1>8, <1>9 DEF Next, Begin, Continue

LEMMA HearInit == Init => HearInv
  <1> SUFFICES ASSUME Init PROVE HearInv
    OBVIOUS
  <1>1. \A w \in Worker : pc[w] = "idle" /\ pub[w].due = {}
    BY DEF Init, NoPub
  <1> QED
    BY <1>1 DEF Init, HearInv, SerialsDiffer, DueIsOld, DueIsHere, NewIsLater, BehindIsServed, EveryoneHears, Walking

(***************************************************************************)
(* For any number of connections, channels and threads, a PUBLISH that     *)
(* never stood on an erased subscription has sent to every subscription    *)
(* that the channel had when it began and has when it answers, whatever    *)
(* subscribed, unsubscribed, joined and left between the steps of its walk. *)
(***************************************************************************)
THEOREM PublishReachesAll == Spec => []EveryoneHears
  <1>1. HearInv => EveryoneHears
    BY DEF HearInv
  <1> QED
    BY <1>1, HearInit, HearStep, RegistryInvariant, PTL DEF Spec

-----------------------------------------------------------------------------
(* Directory *)

InInfo(w) == reading[w] \in {"traffic", "count", "total"}

\* Types, and where a thread is that runs a command of Directory.
ReaderInv ==
  /\ reading \in [Worker -> Reading]
  /\ map \in [Worker -> Nat]
  /\ kept \in [Worker -> SUBSET Connection]
  /\ counted \in [Worker -> SUBSET Connection]
  /\ \A w \in Worker : reading[w] = "no" => map[w] = 1
  /\ \A w \in Worker : reading[w] # "no" => pc[w] = "idle" /\ of[w] \in Connection
  /\ \A w \in Worker : InInfo(w) <=> w \in holder
  /\ \A v, w \in Worker : v \in holder /\ w \in holder => v = w

\* How far an INFO has come: the maps it has walked hold every subscriber.
InfoInv ==
  \A w \in Worker :
    /\ reading[w] = "traffic" => \A s \in subs : MapOf[s.conn] < map[w] => s.conn \in kept[w]
    /\ reading[w] = "count" => \A s \in subs : s.conn \in kept[w]
    /\ reading[w] = "total" => \A c \in counted[w] : c \in kept[w] /\ \E s \in subs : s.conn = c

DirectoryInv == RegistryInv /\ ReaderInv /\ InfoInv

-----------------------------------------------------------------------------
\* Only thread w goes on.
Alone(w) == \A v \in Worker : v # w => pc'[v] = pc[v] /\ of'[v] = of[v]

\* A step of PubSub on thread w leaves the other threads alone, and the
\* subscriptions too while an INFO holds their mutex.
LEMMA GuardedStep ==
  ASSUME TypeOK, NEW w \in Worker, Guarded(w)
  PROVE  /\ [Next]_vars /\ Alone(w)
         /\ subs' = subs \/ holder = {}
         /\ reading[w] = "no" /\ UNCHANGED directoryVars
  <1>g. ASSUME NEW l, NEW c, Go(w, l, c)
        PROVE  Alone(w)
    BY <1>g DEF Go, Alone, TypeOK
  <1>u. ASSUME pc' = pc, of' = of
        PROVE  Alone(w)
    BY <1>u DEF Alone
  <1>1. ASSUME NEW c \in Connection, Join(w, c)
        PROVE  Next /\ Alone(w) /\ subs' = subs
    BY <1>1, <1>g DEF Join, Next, Begin
  <1>2. ASSUME NEW c \in Connection, Close(w, c)
        PROVE  Next /\ Alone(w) /\ subs' = subs
    <2>1. Alone(w)
      BY <1>2, <1>g, <1>u DEF Close, Die
    <2> QED
      BY <1>2, <2>1 DEF Close, Next, Begin
  <1>3. ASSUME NEW c \in Connection, Deliver(w, c)
        PROVE  Next /\ Alone(w) /\ subs' = subs
    <2>1. Alone(w)
      BY <1>3, <1>g, <1>u DEF Deliver, Die
    <2> QED
      BY <1>3, <2>1 DEF Deliver, Next
  <1>4. ASSUME NEW c \in Connection, NEW ch \in Channel, Publish(w, c, ch)
        PROVE  Next /\ Alone(w) /\ subs' = subs
    <2>1. Alone(w)
      BY <1>4, <1>g, <1>u DEF Publish
    <2> QED
      BY <1>4, <2>1 DEF Publish, Next, Begin
  <1>5. ASSUME NEW c \in Connection, NEW ch \in Channel, Subscribe(w, c, ch) \/ Unsubscribe(w, c, ch)
        PROVE  Next /\ Alone(w)
    <2>1. Alone(w)
      BY <1>5, <1>u DEF Subscribe, Unsubscribe
    <2> QED
      BY <1>5, <2>1 DEF Next, Begin
  <1>6. ASSUME JoinSubs(w) \/ Leave(w)
        PROVE  Next /\ Alone(w)
    <2>1. Alone(w)
      BY <1>6, <1>g DEF JoinSubs, Leave
    <2> QED
      BY <1>6, <2>1 DEF Next, Continue
  <1>7. ASSUME Unregister(w) \/ Reply(w) \/ FreedNode(w)
        PROVE  Next /\ Alone(w) /\ subs' = subs
    <2>1. Alone(w) /\ subs' = subs
      BY <1>7, <1>g, <1>u DEF Unregister, Reply, FreedNode
    <2> QED
      BY <1>7, <2>1 DEF Next, Continue
  <1>8. ASSUME Visit(w) \/ Process(w)
        PROVE  Next /\ Alone(w) /\ subs' = subs
    <2>1. ASSUME NEW x, Advance(w, x)
          PROVE  Alone(w)
      BY <2>1, <1>g DEF Advance
    <2>2. Alone(w)
      BY <1>8, <2>1, <1>g, <1>u DEF Visit, Process
    <2>3. subs' = subs
      BY <1>8 DEF Visit, Process
    <2> QED
      BY <1>8, <2>2, <2>3 DEF Next, Continue
  <1> QED
    BY <1>1, <1>2, <1>3, <1>4, <1>5, <1>6, <1>7, <1>8 DEF Guarded, Unlocked

\* The commands of Directory move no connection and change no subscription.
LEMMA ReadingStep ==
  ASSUME RegistryInv, NEW w \in Worker, pc[w] = "idle",
         life' = life, registered' = registered, subs' = subs, pc' = pc, pub' = pub, serial' = serial,
         queued' \in [Connection -> Nat], requests' \in Nat, up' \in BOOLEAN,
         NEW c \in Connection \cup {NoConnection}, of' = [of EXCEPT ![w] = c]
  PROVE  RegistryInv'
  <1>1. TypeOK'
    BY DEF RegistryInv, TypeOK
  <1>2. \A v \in Worker : Moving(v)' => pc'[v] = pc[v] /\ of'[v] = of[v]
    BY DEF Moving, RegistryInv, TypeOK
  <1>3. Registry'
    BY <1>2, QuietStep
  <1> QED
    BY <1>1, <1>3 DEF RegistryInv, Registry

\* A command of Directory begins; INFO is among them only if r is "traffic".
LEMMA EnterStep ==
  ASSUME DirectoryInv, NEW w \in Worker, NEW c \in Connection, NEW r \in Reading \ {"no", "count", "total"},
         Enter(w, c, r),
         \/ r # "traffic" /\ holder' = holder
         \/ r = "traffic" /\ holder = {} /\ holder' = {w}
  PROVE  DirectoryInv'
  <1> USE DEF DirectoryInv
  <1>1. /\ reading[w] = "no" /\ pc[w] = "idle" /\ of' = [of EXCEPT ![w] = c]
        /\ reading' = [reading EXCEPT ![w] = r]
        /\ map' = map /\ kept' = kept /\ counted' = counted
        /\ life' = life /\ registered' = registered /\ subs' = subs /\ pc' = pc /\ pub' = pub
        /\ serial' = serial /\ queued' = queued /\ up' = up
        /\ requests' = requests + 1
    BY DEF Enter, Serve, Idle
  <1>2. TypeOK
    BY DEF RegistryInv
  <1>3. RegistryInv'
    <2>1. queued' \in [Connection -> Nat] /\ up' \in BOOLEAN
      BY <1>1, <1>2 DEF TypeOK
    <2>2. requests' \in Nat
      BY <1>1, <1>2 DEF TypeOK
    <2> QED
      BY <1>1, <2>1, <2>2, ReadingStep
  <1>4. /\ reading'[w] = r /\ of'[w] = c /\ map[w] = 1
        /\ \A v \in Worker : v # w => reading'[v] = reading[v] /\ of'[v] = of[v]
    BY <1>1, <1>2 DEF ReaderInv, TypeOK
  <1>5. ReaderInv'
    BY <1>1, <1>4 DEF ReaderInv, InInfo
  <1>6. InfoInv'
    <2>1. \A s \in subs : MapOf[s.conn] >= 1
      BY <1>2, DirectoryAssumption DEF TypeOK, Sub
    <2>2. \A s \in subs : MapOf[s.conn] \in Nat
      BY <1>2, DirectoryAssumption DEF TypeOK, Sub
    <2>3. \A s \in subs : ~ (MapOf[s.conn] < map[w])
      BY <1>4, <2>1, <2>2
    <2> QED
      BY <1>1, <1>4, <2>3 DEF InfoInv
  <1> QED
    BY <1>3, <1>5, <1>6

\* One ends: its answer is queued.
LEMMA ExitStep ==
  ASSUME DirectoryInv, NEW w \in Worker, reading[w] # "no", Exit(w), up' \in BOOLEAN,
         holder' = holder \ {w}
  PROVE  DirectoryInv'
  <1> USE DEF DirectoryInv
  <1>1. /\ pc[w] = "idle" /\ of' = [of EXCEPT ![w] = NoConnection]
        /\ reading' = [reading EXCEPT ![w] = "no"] /\ map' = [map EXCEPT ![w] = 1]
        /\ kept' = [kept EXCEPT ![w] = {}] /\ counted' = [counted EXCEPT ![w] = {}]
        /\ life' = life /\ registered' = registered /\ subs' = subs /\ pc' = pc /\ pub' = pub
        /\ serial' = serial /\ requests' = requests
    BY DEF Exit, ReaderInv
  <1>2. TypeOK
    BY DEF RegistryInv
  <1>3. queued' \in [Connection -> Nat]
    BY <1>2, AnswerTyped DEF Exit, TypeOK
  <1>4. RegistryInv'
    BY <1>1, <1>2, <1>3, ReadingStep DEF TypeOK
  <1>5. /\ reading'[w] = "no" /\ map'[w] = 1
        /\ \A v \in Worker : v # w => /\ reading'[v] = reading[v] /\ of'[v] = of[v] /\ map'[v] = map[v]
                                      /\ kept'[v] = kept[v] /\ counted'[v] = counted[v]
    BY <1>1, <1>2 DEF ReaderInv, TypeOK
  <1>6. /\ reading' \in [Worker -> Reading] /\ map' \in [Worker -> Nat]
        /\ kept' \in [Worker -> SUBSET Connection] /\ counted' \in [Worker -> SUBSET Connection]
    BY <1>1 DEF ReaderInv, Reading
  <1>7. ReaderInv'
    BY <1>1, <1>5, <1>6 DEF ReaderInv, InInfo
  <1>8. InfoInv'
    BY <1>1, <1>5 DEF InfoInv
  <1> QED
    BY <1>4, <1>7, <1>8

\* One goes on, and changes only what it keeps for itself.
LEMMA TellStep ==
  ASSUME DirectoryInv, NEW w \in Worker, reading[w] # "no", UNCHANGED vars, holder' = holder,
         NEW r \in Reading, r # "no", r \in {"traffic", "count", "total"} <=> InInfo(w),
         reading' = [reading EXCEPT ![w] = r],
         map' \in [Worker -> Nat], kept' \in [Worker -> SUBSET Connection],
         counted' \in [Worker -> SUBSET Connection],
         \A v \in Worker : v # w => map'[v] = map[v] /\ kept'[v] = kept[v] /\ counted'[v] = counted[v],
         /\ r = "traffic" => \A s \in subs : MapOf[s.conn] < map'[w] => s.conn \in kept'[w]
         /\ r = "count" => \A s \in subs : s.conn \in kept'[w]
         /\ r = "total" => \A c \in counted'[w] : c \in kept'[w] /\ \E s \in subs : s.conn = c
  PROVE  DirectoryInv'
  <1> USE DEF DirectoryInv
  <1>1. RegistryInv'
    BY PubSubTypedStep, RegistryStep DEF RegistryInv, Registry
  <1>2. UNCHANGED <<subs, pc, of>>
    BY DEF vars
  <1>3. reading'[w] = r /\ \A v \in Worker : v # w => reading'[v] = reading[v]
    BY DEF ReaderInv
  <1>4. ReaderInv'
    <2>1. reading' \in [Worker -> Reading] /\ ReaderInv
      BY DEF ReaderInv
    <2>2. \A v \in Worker : /\ reading'[v] = "no" => map'[v] = 1
                            /\ reading'[v] # "no" => pc'[v] = "idle" /\ of'[v] \in Connection
      BY <1>2, <1>3, <2>1 DEF ReaderInv
    <2>3. \A v \in Worker : InInfo(v)' <=> v \in holder'
      BY <1>3, <2>1 DEF ReaderInv, InInfo
    <2>4. \A u, v \in Worker : u \in holder' /\ v \in holder' => u = v
      BY <2>1 DEF ReaderInv
    <2> QED
      BY <2>1, <2>2, <2>3, <2>4 DEF ReaderInv
  <1>5. InfoInv'
    BY <1>2, <1>3 DEF InfoInv
  <1> QED
    BY <1>1, <1>4, <1>5

LEMMA DirectoryStep == DirectoryInv /\ [DirectoryNext]_allVars => DirectoryInv'
  <1> SUFFICES ASSUME DirectoryInv, [DirectoryNext]_allVars PROVE DirectoryInv'
    OBVIOUS
  <1>t. TypeOK /\ RegistryInv /\ ReaderInv /\ InfoInv
    BY DEF DirectoryInv, RegistryInv
  <1>s. \A s \in subs : s.conn \in Connection /\ s.conn \in registered /\ MapOf[s.conn] \in 1 .. Maps
    BY <1>t, DirectoryAssumption
       DEF RegistryInv, TypeOK, SubscriberAlive, AliveRegistered, Sub
  <1>m. Maps \in Nat
    BY DirectoryAssumption
  <1>1. ASSUME NEW w \in Worker, Guarded(w)
        PROVE  DirectoryInv'
    <2>1. /\ [Next]_vars /\ Alone(w)
          /\ subs' = subs \/ holder = {}
          /\ reading[w] = "no" /\ UNCHANGED directoryVars
      BY <1>t, <1>1, GuardedStep
    <2>2. RegistryInv'
      BY <1>t, <2>1, PubSubTypedStep, RegistryStep DEF RegistryInv, Registry
    <2>3. ReaderInv'
      BY <1>t, <2>1 DEF ReaderInv, InInfo, Alone, directoryVars
    <2>4. InfoInv'
      <3>1. \A w_1 \in Worker : holder = {} => ~ InInfo(w_1)
        BY <1>t DEF ReaderInv
      <3> QED
        BY <1>t, <2>1, <3>1 DEF InfoInv, InInfo, directoryVars
    <2> QED
      BY <2>2, <2>3, <2>4 DEF DirectoryInv
  <1>2. ASSUME NEW w \in Worker, Ask(w)
        PROVE  DirectoryInv'
    <2>1. ASSUME NEW c \in Connection, Connections(w, c) \/ \E d \in Connection : Connection1(w, c, d)
          PROVE  DirectoryInv'
      <3>1. PICK r \in {"connection", "connections"} : Enter(w, c, r) /\ holder' = holder
        BY <2>1 DEF Connections, Connection1
      <3> QED
        BY <3>1, EnterStep DEF Reading
    <2>2. ASSUME NEW c \in Connection, Info(w, c)
          PROVE  DirectoryInv'
      <3>1. Enter(w, c, "traffic") /\ holder = {} /\ holder' = {w}
        BY <2>2 DEF Info, Unlocked
      <3> QED
        BY <3>1, EnterStep DEF Reading
    <2> QED
      BY <1>2, <2>1, <2>2 DEF Ask
  <1>3. ASSUME NEW w \in Worker, NotFound(w) \/ Emit(w) \/ InfoTotal(w)
        PROVE  DirectoryInv'
    <2>1. reading[w] # "no" /\ Exit(w)
      BY <1>3 DEF NotFound, Emit, InfoTotal
    <2>2. up' \in BOOLEAN
      BY <1>3, <1>t DEF NotFound, Emit, InfoTotal, TypeOK
    <2>3. holder' = holder \ {w}
      <3>1. ~ InInfo(w) => w \notin holder
        BY <1>t DEF ReaderInv
      <3> QED
        BY <1>3, <3>1 DEF NotFound, Emit, InfoTotal, InInfo
    <2> QED
      BY <2>1, <2>2, <2>3, ExitStep
  <1>4. ASSUME NEW w \in Worker, Lookup(w)
        PROVE  DirectoryInv'
    <2>1. /\ UNCHANGED vars /\ holder' = holder /\ counted' = counted /\ reading[w] = "connection"
      BY <1>4 DEF Lookup, Stay
    <2>2. CASE /\ target[w] \in InMap(map[w])
               /\ reading' = [reading EXCEPT ![w] = "emit"]
               /\ kept' = [kept EXCEPT ![w] = {target[w]}]
               /\ map' = map
      <3>1. {target[w]} \in SUBSET Connection
        BY <1>t, <2>2 DEF InMap, TypeOK
      <3>2. /\ kept' \in [Worker -> SUBSET Connection] /\ "emit" \in Reading
            /\ \A v \in Worker : v # w => kept'[v] = kept[v]
        BY <1>t, <2>2, <3>1 DEF ReaderInv, Reading
      <3> QED
        BY <1>t, <2>1, <2>2, <3>2, TellStep DEF ReaderInv, InInfo
    <2>3. CASE map' = [map EXCEPT ![w] = @ + 1] /\ UNCHANGED <<reading, kept>>
      <3>1. /\ map' \in [Worker -> Nat] /\ "connection" \in Reading
            /\ \A v \in Worker : v # w => map'[v] = map[v]
            /\ reading' = [reading EXCEPT ![w] = "connection"]
        BY <1>t, <2>1, <2>3 DEF ReaderInv, Reading
      <3>2. /\ kept' = kept /\ kept' \in [Worker -> SUBSET Connection]
            /\ counted' \in [Worker -> SUBSET Connection] /\ ~ InInfo(w)
        BY <1>t, <2>1, <2>3 DEF ReaderInv, InInfo
      <3> QED
        BY <2>1, <3>1, <3>2, TellStep
    <2> QED
      BY <1>4, <2>2, <2>3 DEF Lookup
  <1>5. ASSUME NEW w \in Worker, Walk(w)
        PROVE  DirectoryInv'
    <2> DEFINE r == reading[w]
    <2>1. /\ UNCHANGED vars /\ holder' = holder /\ counted' = counted /\ reading' = reading
          /\ r \in {"connections", "traffic"}
          /\ kept' = [kept EXCEPT ![w] = @ \cup InMap(map[w])]
          /\ map' = [map EXCEPT ![w] = @ + 1]
      BY <1>5 DEF Walk, Stay
    <2>2. /\ map' \in [Worker -> Nat] /\ map[w] \in Nat /\ map'[w] = map[w] + 1
          /\ kept' \in [Worker -> SUBSET Connection]
          /\ kept'[w] = kept[w] \cup InMap(map[w])
          /\ \A v \in Worker : v # w => kept'[v] = kept[v] /\ map'[v] = map[v]
      BY <1>t, <2>1 DEF ReaderInv, InMap, TypeOK
    <2>3. ASSUME r = "traffic", NEW s \in subs, MapOf[s.conn] < map'[w]
          PROVE  s.conn \in kept'[w]
      <3>1. MapOf[s.conn] < map[w] \/ MapOf[s.conn] = map[w]
        BY <1>s, <1>m, <2>2, <2>3
      <3>2. CASE MapOf[s.conn] < map[w]
        BY <1>t, <2>2, <2>3, <3>2 DEF InfoInv
      <3>3. CASE MapOf[s.conn] = map[w]
        BY <1>s, <2>2, <3>3 DEF InMap
      <3> QED
        BY <3>1, <3>2, <3>3
    <2>4. reading' = [reading EXCEPT ![w] = r] /\ r \in Reading /\ r # "no"
      BY <1>t, <2>1 DEF ReaderInv
    <2>5. /\ reading[w] # "no" /\ (r \in {"traffic", "count", "total"} <=> InInfo(w))
          /\ r # "count" /\ r # "total" /\ counted' \in [Worker -> SUBSET Connection]
      BY <1>t, <2>1 DEF ReaderInv, InInfo
    <2>6. r = "traffic" => \A s \in subs : MapOf[s.conn] < map'[w] => s.conn \in kept'[w]
      BY <2>3
    <2> HIDE DEF r
    <2> QED
      BY <2>1, <2>2, <2>4, <2>5, <2>6, TellStep
  <1>6. ASSUME NEW w \in Worker, Walked(w)
        PROVE  DirectoryInv'
    <2> DEFINE r == IF reading[w] = "traffic" THEN "count" ELSE "emit"
    <2>1. /\ UNCHANGED vars /\ holder' = holder /\ counted' = counted /\ kept' = kept /\ map' = map
          /\ reading[w] \in {"connections", "traffic"} /\ map[w] > Maps
          /\ reading' = [reading EXCEPT ![w] = r]
      BY <1>6, <1>t DEF Walked, Stay, ReaderInv
    <2>2. ASSUME reading[w] = "traffic", NEW s \in subs
          PROVE  s.conn \in kept[w]
      <3>1. MapOf[s.conn] < map[w]
        <4>1. map[w] \in Nat
          BY <1>t DEF ReaderInv
        <4> QED
          BY <1>s, <1>m, <2>1, <4>1
      <3> QED
        BY <1>t, <2>2, <3>1 DEF InfoInv
    <2>3. r \in Reading /\ r \in {"count", "emit"} /\ (r = "count" <=> reading[w] = "traffic")
      BY DEF Reading
    <2> HIDE DEF r
    <2> QED
      BY <1>t, <2>1, <2>2, <2>3, TellStep DEF ReaderInv, InInfo
  <1>7. ASSUME NEW w \in Worker, InfoCount(w)
        PROVE  DirectoryInv'
    <2>1. /\ UNCHANGED vars /\ holder' = holder /\ kept' = kept /\ map' = map
          /\ reading[w] = "count" /\ reading' = [reading EXCEPT ![w] = "total"]
          /\ counted' = [counted EXCEPT ![w] = {s.conn : s \in subs}]
      BY <1>7 DEF InfoCount, Stay
    <2>2. {s.conn : s \in subs} \in SUBSET Connection
      BY <1>s
    <2>3. /\ counted' \in [Worker -> SUBSET Connection] /\ counted'[w] = {s.conn : s \in subs}
          /\ \A v \in Worker : v # w => counted'[v] = counted[v]
      BY <1>t, <2>1, <2>2 DEF ReaderInv
    <2>4. \A c \in counted'[w] : c \in kept[w] /\ \E s \in subs : s.conn = c
      BY <1>t, <2>1, <2>3 DEF InfoInv
    <2> QED
      BY <1>t, <2>1, <2>3, <2>4, TellStep DEF ReaderInv, InInfo, Reading
  <1>8. CASE UNCHANGED allVars
    <2>1. UNCHANGED vars /\ UNCHANGED directoryVars
      BY <1>8 DEF allVars
    <2>2. RegistryInv'
      BY <1>t, <2>1, PubSubTypedStep, RegistryStep DEF RegistryInv, Registry
    <2> QED
      BY <1>t, <2>1, <2>2 DEF DirectoryInv, ReaderInv, InfoInv, InInfo, vars, directoryVars
  <1> QED
    BY <1>1, <1>2, <1>3, <1>4, <1>5, <1>6, <1>7, <1>8 DEF DirectoryNext, Tell

LEMMA DirectoryInvariant == DirectorySpec => []DirectoryInv
  <1>1. DirectoryInit => DirectoryInv
    <2> SUFFICES ASSUME DirectoryInit PROVE DirectoryInv
      OBVIOUS
    <2>1. Init
      BY DEF DirectoryInit
    <2>2. RegistryInv
      BY <2>1, PubSubTypedInit
         DEF Init, RegistryInv, SubscriberAlive, AliveRegistered, MovingLife, NoneLeft, MovingDistinct, Moving
    <2>3. ReaderInv /\ InfoInv
      BY DEF DirectoryInit, ReaderInv, InfoInv, InInfo, Reading
    <2> QED
      BY <2>2, <2>3 DEF DirectoryInv
  <1> QED
    BY <1>1, DirectoryStep, PTL DEF DirectorySpec

(***************************************************************************)
(* The parts of an INFO answer fit together, for any number of maps,       *)
(* connections and threads: every connection whose subscriptions it        *)
(* counted is among those whose traffic it added up and those it counts    *)
(* last (info_command.cpp:44).                                             *)
(***************************************************************************)
THEOREM InfoAlwaysCovers == DirectorySpec => []InfoCovers
  <1>1. DirectoryInv => InfoCovers
    <2> SUFFICES ASSUME DirectoryInv PROVE InfoCovers
      OBVIOUS
    <2>1. \A s \in subs : s.conn \in registered
      BY DEF DirectoryInv, RegistryInv, TypeOK, SubscriberAlive, AliveRegistered, Sub
    <2> QED
      BY <2>1 DEF DirectoryInv, InfoInv, InfoCovers
  <1> QED
    BY <1>1, DirectoryInvariant, PTL

(***************************************************************************)
(* A subscription belongs to a registered connection also while CONNECTION,*)
(* CONNECTIONS and INFO read the maps (info_command.cpp:44 holds a mutex   *)
(* that join() and leave() wait for).                                      *)
(***************************************************************************)
THEOREM DirectoryKeepsSubscribers == DirectorySpec => []SubscriberRegistered
  <1>1. DirectoryInv => SubscriberRegistered
    BY DEF DirectoryInv, RegistryInv, TypeOK, SubscriberAlive, AliveRegistered, SubscriberRegistered, Sub
  <1> QED
    BY <1>1, DirectoryInvariant, PTL

\* The commands of Directory leave the walks of PUBLISH alone, on whichever
\* threads they run.
LEMMA ReadersLeaveWalks ==
  ASSUME NEW w \in Worker, Ask(w) \/ Tell(w)
  PROVE  UNCHANGED <<life, registered, subs, serial, pc, pub>>
  <1>1. ASSUME Ask(w)
        PROVE  UNCHANGED <<life, registered, subs, serial, pc, pub>>
    BY <1>1 DEF Ask, Connections, Info, Connection1, Enter
  <1>2. ASSUME Lookup(w) \/ Walk(w) \/ Walked(w) \/ InfoCount(w)
        PROVE  UNCHANGED <<life, registered, subs, serial, pc, pub>>
    <2>1. UNCHANGED vars
      BY <1>2 DEF Lookup, Walk, Walked, InfoCount, Stay
    <2> QED
      BY <2>1 DEF vars
  <1>3. ASSUME NotFound(w) \/ Emit(w) \/ InfoTotal(w)
        PROVE  UNCHANGED <<life, registered, subs, serial, pc, pub>>
    BY <1>3 DEF NotFound, Emit, InfoTotal, Exit
  <1> QED
    BY <1>1, <1>2, <1>3 DEF Tell

LEMMA DirectoryHearStep == DirectoryInv /\ HearInv /\ [DirectoryNext]_allVars => HearInv'
  <1> SUFFICES ASSUME DirectoryInv, HearInv, [DirectoryNext]_allVars PROVE HearInv'
    OBVIOUS
  <1>0. RegistryInv /\ TypeOK
    BY DEF DirectoryInv, RegistryInv
  <1>1. ASSUME NEW w \in Worker, Guarded(w)
        PROVE  HearInv'
    BY <1>0, <1>1, GuardedStep, HearStep
  <1>2. ASSUME UNCHANGED <<subs, serial, pc, pub>>
        PROVE  HearInv'
    <2>1. /\ SerialsDiffer' /\ NoneAdvances /\ serial' \in Nat /\ serial <= serial'
          /\ \A s \in subs' : s.serial \in Nat
      BY <1>0, <1>2 DEF HearInv, SerialsDiffer, NoneAdvances, TypeOK, Sub
    <2> QED
      BY <1>0, <1>2, <2>1, NoWalkMoves
  <1>3. ASSUME NEW w \in Worker, Ask(w) \/ Tell(w)
        PROVE  HearInv'
    BY <1>2, <1>3, ReadersLeaveWalks
  <1>4. CASE UNCHANGED allVars
    BY <1>2, <1>4 DEF allVars, vars
  <1> QED
    BY <1>1, <1>3, <1>4 DEF DirectoryNext

(***************************************************************************)
(* A PUBLISH that never stood on an erased subscription has sent to every  *)
(* subscription that lasted (publish_command.cpp:67), also with CONNECTION,*)
(* CONNECTIONS and INFO on other threads.                                  *)
(***************************************************************************)
THEOREM DirectoryPublishReachesAll == DirectorySpec => []EveryoneHears
  <1>1. DirectoryInit => HearInv
    BY HearInit DEF DirectoryInit
  <1>2. HearInv => EveryoneHears
    BY DEF HearInv
  <1> QED
    BY <1>1, <1>2, DirectoryInvariant, DirectoryHearStep, PTL DEF DirectorySpec

-----------------------------------------------------------------------------
(* One thread *)

\* While the one thread answers a command nobody leaves: what it has kept of
\* the maps is there until it ends.
KeptInv ==
  /\ \A c \in registered : life[c] # "gone"
  /\ \A w \in Worker : reading[w] = "no" => kept[w] = {}
  /\ \A w \in Worker : kept[w] \subseteq registered

LEMMA GoneStep ==
  ASSUME RegistryInv, \A c \in registered : life[c] # "gone", [Next]_vars
  PROVE  \A c \in registered' : life'[c] # "gone"
  <1> USE DEF RegistryInv, TypeOK
  <1>1. ASSUME NEW w \in Worker, Unregister(w)
        PROVE  \A c \in registered' : life'[c] # "gone"
    BY <1>1 DEF Unregister
  <1>2. ASSUME NEW w \in Worker, NEW c \in Connection, Join(w, c)
        PROVE  \A d \in registered' : life'[d] # "gone"
    BY <1>2 DEF Join
  <1>3. ASSUME registered' = registered, NEW c, NEW l \in {"open", "closed", "dying"},
               life' = [life EXCEPT ![c] = l]
        PROVE  \A d \in registered' : life'[d] # "gone"
    BY <1>3
  <1>4. ASSUME UNCHANGED <<life, registered>>
        PROVE  \A c \in registered' : life'[c] # "gone"
    BY <1>4
  <1>5. ASSUME NEW w \in Worker, NEW c \in Connection, Close(w, c) \/ Deliver(w, c)
        PROVE  \A d \in registered' : life'[d] # "gone"
    BY <1>5, <1>3, <1>4 DEF Close, Deliver, Die
  <1>6. ASSUME NEW w \in Worker, NEW c \in Connection, NEW ch \in Channel,
               Subscribe(w, c, ch) \/ Unsubscribe(w, c, ch) \/ Publish(w, c, ch)
        PROVE  \A d \in registered' : life'[d] # "gone"
    BY <1>6, <1>4 DEF Subscribe, Unsubscribe, Publish
  <1>7. ASSUME NEW w \in Worker, JoinSubs(w)
        PROVE  \A c \in registered' : life'[c] # "gone"
    BY <1>7, <1>3 DEF JoinSubs
  <1>8. ASSUME NEW w \in Worker, Leave(w) \/ Visit(w) \/ Process(w) \/ FreedNode(w) \/ Reply(w)
        PROVE  \A c \in registered' : life'[c] # "gone"
    BY <1>8, <1>4 DEF Leave, Visit, Process, FreedNode, Reply
  <1>9. CASE UNCHANGED vars
    BY <1>9, <1>4 DEF vars
  <1> QED
    BY <1>1, <1>2, <1>5, <1>6, <1>7, <1>8, <1>9 DEF Next, Begin, Continue

LEMMA KeptStep ==
  ASSUME SingleWorker, DirectoryInv, WalkInv, KeptInv, [DirectoryNext]_allVars
  PROVE  WalkInv' /\ KeptInv'
  <1>0. RegistryInv /\ TypeOK /\ ReaderInv
    BY DEF DirectoryInv, RegistryInv
  <1>1. ASSUME NEW w \in Worker, Guarded(w)
        PROVE  WalkInv' /\ KeptInv'
    <2>1. [Next]_vars /\ reading[w] = "no" /\ UNCHANGED directoryVars
      BY <1>0, <1>1, GuardedStep
    <2>2. WalkInv'
      BY <1>0, <2>1, WalkStep
    <2>3. \A c \in registered' : life'[c] # "gone"
      BY <1>0, <2>1, GoneStep DEF KeptInv
    <2>4. \A v \in Worker : kept'[v] = {}
      BY <2>1 DEF KeptInv, SingleWorker, directoryVars
    <2> QED
      BY <2>2, <2>3, <2>4 DEF KeptInv
  \* The commands of Directory: the thread holds no connection in leave().
  <1>2. ASSUME NEW w \in Worker, Ask(w) \/ Tell(w)
        PROVE  WalkInv' /\ KeptInv'
    <2>1. UNCHANGED <<life, registered, subs, serial, pc, pub>>
      BY <1>2, ReadersLeaveWalks
    <2>2. pc[w] = "idle"
      <3>1. CASE Ask(w)
        BY <3>1 DEF Ask, Connections, Info, Connection1, Enter, Serve, Idle
      <3>2. CASE Tell(w)
        <4>1. reading[w] # "no"
          BY <3>2 DEF Tell, Lookup, NotFound, Walk, Walked, Emit, InfoCount, InfoTotal
        <4> QED
          BY <1>0, <4>1 DEF ReaderInv
      <3> QED
        BY <1>2, <3>1, <3>2
    <2>3. \A c \in Connection : life[c] # "dying"
      BY <2>2 DEF WalkInv, SingleWorker
    <2>4. ASSUME Emit(w)
          PROVE  up'
      <3>1. reading[w] = "emit" /\ \A c \in kept[w] : c \in registered /\ life[c] # "gone"
        BY <2>4 DEF Emit, KeptInv
      <3>2. ~Lost(w)
        BY <3>1 DEF Lost
      <3> QED
        BY <2>4, <3>2 DEF Emit
    <2>5. up'
      <3>1. up
        BY DEF WalkInv
      <3>2. CASE Ask(w)
        BY <3>1, <3>2 DEF Ask, Connections, Info, Connection1, Enter
      <3>3. CASE Lookup(w) \/ Walk(w) \/ Walked(w) \/ InfoCount(w)
        BY <3>1, <3>3 DEF Lookup, Walk, Walked, InfoCount, Stay, vars
      <3>4. CASE NotFound(w) \/ InfoTotal(w)
        BY <3>1, <3>4 DEF NotFound, InfoTotal
      <3> QED
        BY <1>2, <2>4, <3>2, <3>3, <3>4 DEF Tell
    <2>6. WalkInv'
      BY <2>1, <2>3, <2>5 DEF WalkInv, NoStrangerHears, OnCourse, Between
    <2>7. kept'[w] \subseteq registered /\ (reading'[w] = "no" => kept'[w] = {})
      <3>0. /\ kept[w] \subseteq registered
            /\ kept \in [Worker -> SUBSET Connection] /\ reading \in [Worker -> Reading]
        BY <1>0 DEF KeptInv, ReaderInv
      <3>1. CASE Ask(w)
        <4>1. PICK r \in {"connection", "connections", "traffic"} :
                kept' = kept /\ reading' = [reading EXCEPT ![w] = r]
          BY <3>1 DEF Ask, Connections, Info, Connection1, Enter
        <4> QED
          BY <3>0, <4>1
      <3>2. CASE Lookup(w)
        <4>1. CASE /\ target[w] \in InMap(map[w]) /\ kept' = [kept EXCEPT ![w] = {target[w]}]
                   /\ reading' = [reading EXCEPT ![w] = "emit"]
          <5>1. kept'[w] = {target[w]} /\ reading'[w] = "emit"
            BY <3>0, <4>1
          <5>2. target[w] \in registered
            BY <4>1 DEF InMap
          <5> QED
            BY <5>1, <5>2
        <4>2. CASE UNCHANGED <<reading, kept>>
          BY <3>0, <3>2, <4>2 DEF Lookup
        <4> QED
          BY <3>2, <4>1, <4>2 DEF Lookup
      <3>3. CASE Walk(w)
        <4>1. kept'[w] = kept[w] \cup InMap(map[w]) /\ reading'[w] # "no"
          BY <3>0, <3>3 DEF Walk
        <4> QED
          BY <3>0, <4>1 DEF InMap
      <3>4. CASE Walked(w) \/ InfoCount(w)
        <4>1. PICK r \in {"emit", "count", "total"} :
                kept' = kept /\ reading' = [reading EXCEPT ![w] = r]
          BY <3>0, <3>4 DEF Walked, InfoCount
        <4> QED
          BY <3>0, <4>1
      <3>5. CASE NotFound(w) \/ Emit(w) \/ InfoTotal(w)
        BY <3>0, <3>5 DEF NotFound, Emit, InfoTotal, Exit
      <3> QED
        BY <1>2, <3>1, <3>2, <3>3, <3>4, <3>5 DEF Tell
    <2>8. KeptInv'
      BY <2>1, <2>7 DEF KeptInv, SingleWorker
    <2> QED
      BY <2>6, <2>8
  <1>3. CASE UNCHANGED allVars
    BY <1>3 DEF allVars, vars, directoryVars, WalkInv, KeptInv, NoStrangerHears, OnCourse, Between
  <1> QED
    BY <1>1, <1>2, <1>3 DEF DirectoryNext

(***************************************************************************)
(* With one pool thread no command terminates the process: no PUBLISH uses *)
(* an erased subscription or a connection being destroyed, and CONNECTION  *)
(* and CONNECTIONS find in the second pass what they kept from the first   *)
(* (connections_command.cpp).                                              *)
(***************************************************************************)
THEOREM DirectorySingleWorkerSurvives ==
  ASSUME SingleWorker
  PROVE  DirectorySpec => []Survives
  <1>1. DirectoryInit => WalkInv /\ KeptInv
    BY DEF DirectoryInit, Init, WalkInv, KeptInv, NoPub, NoStrangerHears
  <1>2. DirectoryInv /\ WalkInv /\ KeptInv /\ [DirectoryNext]_allVars => WalkInv' /\ KeptInv'
    BY KeptStep
  <1>3. WalkInv => Survives
    BY DEF WalkInv, Survives
  <1> QED
    BY <1>1, <1>2, <1>3, DirectoryInvariant, PTL DEF DirectorySpec

(***************************************************************************)
(* The same with the commands of Directory: with one pool thread no        *)
(* message goes to a subscription of another channel.                      *)
(***************************************************************************)
THEOREM DirectorySingleWorkerNoStranger ==
  ASSUME SingleWorker
  PROVE  DirectorySpec => []NoStrangerHears
  <1>1. DirectoryInit => WalkInv /\ KeptInv
    BY DEF DirectoryInit, Init, WalkInv, KeptInv, NoPub, NoStrangerHears
  <1>2. DirectoryInv /\ WalkInv /\ KeptInv /\ [DirectoryNext]_allVars => WalkInv' /\ KeptInv'
    BY KeptStep
  <1>3. WalkInv => NoStrangerHears
    BY DEF WalkInv
  <1> QED
    BY <1>1, <1>2, <1>3, DirectoryInvariant, PTL DEF DirectorySpec
=============================================================================
