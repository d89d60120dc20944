----------------------------- MODULE Directory -----------------------------
(***************************************************************************)
(* The commands that read the connection maps, composed with module        *)
(* PubSub.  CONNECTION looks a connection up in each map under the mutex   *)
(* of the map, and once more when it has found it.  CONNECTIONS keeps the  *)
(* pointers of one map after the other and uses them after the mutexes are *)
(* released.  INFO holds the mutex of the subscriptions from its beginning *)
(* to its end: it adds up the traffic map by map, counts the               *)
(* subscriptions, and counts the connections with all maps locked.         *)
(*                                                                         *)
(* Only INFO keeps a mutex over several steps; the critical sections of    *)
(* PubSub that need the same one wait for it.                              *)
(***************************************************************************)
EXTENDS PubSub

CONSTANTS
  Maps,  \* number of connection maps, 4 in the code
  MapOf  \* MapOf[c]: the map a connection is entered in

ASSUME DirectoryAssumption ==
  Maps \in Nat \ {0} /\ MapOf \in [Connection -> 1 .. Maps]

Reading == {"no", "connection", "connections", "emit", "traffic", "count", "total"}

VARIABLES
  reading,  \* what a thread does for a command of this module
  map,      \* the map it looks at next
  target,   \* the connection a CONNECTION asks for
  kept,     \* connections kept by CONNECTIONS, or added up by INFO
  counted,  \* the connections whose subscriptions INFO counted
  holder    \* the threads that hold the mutex of the subscriptions

directoryVars == <<reading, map, target, kept, counted, holder>>
allVars == <<vars, directoryVars>>

DirectoryTypeOK ==
  /\ reading \in [Worker -> Reading]
  /\ map \in [Worker -> 1 .. Maps + 1]
  /\ target \in [Worker -> Connection \cup {NoConnection}]
  /\ kept \in [Worker -> SUBSET Connection]
  /\ counted \in [Worker -> SUBSET Connection]
  /\ holder \subseteq Worker
  /\ \A v, w \in holder : v = w
  /\ \A w \in Worker : w \in holder <=> reading[w] \in {"traffic", "count", "total"}

DirectoryInit ==
  /\ Init
  /\ reading = [w \in Worker |-> "no"]
  /\ map = [w \in Worker |-> 1]
  /\ target = [w \in Worker |-> NoConnection]
  /\ kept = [w \in Worker |-> {}]
  /\ counted = [w \in Worker |-> {}]
  /\ holder = {}

-----------------------------------------------------------------------------
\* Mutant: the mutex excludes nobody.
UnlockedAlways == TRUE

\* The mutex of the subscriptions is free.
Unlocked == holder = {}

InMap(n) == {c \in registered : MapOf[c] = n}

\* A command of this module begins on thread w for connection c.
Enter(w, c, r) ==
  /\ reading[w] = "no"
  /\ Serve(w, c)
  /\ of' = [of EXCEPT ![w] = c]
  /\ reading' = [reading EXCEPT ![w] = r]
  /\ UNCHANGED <<life, registered, subs, serial, queued, pc, pub, up, map, kept, counted>>

\* It ends: the answer is queued.
Exit(w) ==
  /\ Answer(of[w])
  /\ of' = [of EXCEPT ![w] = NoConnection]
  /\ reading' = [reading EXCEPT ![w] = "no"]
  /\ map' = [map EXCEPT ![w] = 1]
  /\ target' = [target EXCEPT ![w] = NoConnection]
  /\ kept' = [kept EXCEPT ![w] = {}]
  /\ counted' = [counted EXCEPT ![w] = {}]
  /\ UNCHANGED <<life, registered, subs, serial, pc, pub, requests>>

Stay == UNCHANGED vars

-----------------------------------------------------------------------------
(* CONNECTION *)

Connection1(w, c, d) ==
  /\ Enter(w, c, "connection")
  /\ target' = [target EXCEPT ![w] = d]
  /\ UNCHANGED holder

\* A lookup in the next map; after the last one the answer is failure.
Lookup(w) ==
  /\ up /\ reading[w] = "connection" /\ map[w] <= Maps
  /\ \/ /\ target[w] \in InMap(map[w])
        /\ reading' = [reading EXCEPT ![w] = "emit"]
        /\ kept' = [kept EXCEPT ![w] = {target[w]}]
        /\ Stay /\ UNCHANGED map
     \/ /\ target[w] \notin InMap(map[w])
        /\ map' = [map EXCEPT ![w] = @ + 1]
        /\ Stay /\ UNCHANGED <<reading, kept>>
  /\ UNCHANGED <<target, counted, holder>>

NotFound(w) ==
  /\ up /\ reading[w] = "connection" /\ map[w] > Maps
  /\ Exit(w)
  /\ UNCHANGED <<up, holder>>

-----------------------------------------------------------------------------
(* CONNECTIONS *)

Connections(w, c) ==
  /\ Enter(w, c, "connections")
  /\ UNCHANGED <<target, holder>>

\* The first pass over the next map, under its mutex; INFO adds up the same way.
Walk(w) ==
  /\ up /\ reading[w] \in {"connections", "traffic"} /\ map[w] <= Maps
  /\ kept' = [kept EXCEPT ![w] = @ \cup InMap(map[w])]
  /\ map' = [map EXCEPT ![w] = @ + 1]
  /\ Stay
  /\ UNCHANGED <<reading, target, counted, holder>>

Walked(w) ==
  /\ up /\ reading[w] \in {"connections", "traffic"} /\ map[w] > Maps
  /\ reading' = [reading EXCEPT ![w] = IF @ = "traffic" THEN "count" ELSE "emit"]
  /\ Stay
  /\ UNCHANGED <<map, target, kept, counted, holder>>

\* The entries are written from the connections themselves.  CONNECTION looks its
\* connection up a second time, and dereferences what find returned; the pointers
\* of CONNECTIONS are used as they are.  If a connection is gone by then, anything
\* may be read, or the process ends.
Lost(w) ==
  \E c \in kept[w] : IF target[w] = c THEN c \notin registered ELSE life[c] = "gone"

Emit(w) ==
  /\ up /\ reading[w] = "emit"
  /\ up' \in (IF Lost(w) THEN BOOLEAN ELSE {TRUE})
  /\ Exit(w)
  /\ UNCHANGED holder

-----------------------------------------------------------------------------
(* INFO *)

Info(w, c) ==
  /\ Unlocked
  /\ Enter(w, c, "traffic")
  /\ holder' = holder \cup {w}
  /\ UNCHANGED target

\* The subscriptions and the channels.
InfoCount(w) ==
  /\ up /\ reading[w] = "count"
  /\ counted' = [counted EXCEPT ![w] = {s.conn : s \in subs}]
  /\ reading' = [reading EXCEPT ![w] = "total"]
  /\ Stay
  /\ UNCHANGED <<map, target, kept, holder>>

\* The connections, with the four maps locked; the answer.
InfoTotal(w) ==
  /\ up /\ reading[w] = "total"
  /\ holder' = holder \ {w}
  /\ Exit(w)
  /\ UNCHANGED up

-----------------------------------------------------------------------------
\* The steps of PubSub, with the mutex of the subscriptions where they take it.
Guarded(w) ==
  /\ reading[w] = "no"
  /\ \/ \E c \in Connection :
          \/ Join(w, c) \/ Close(w, c) \/ Deliver(w, c)
          \/ \E ch \in Channel :
               \/ Publish(w, c, ch)
               \/ Unlocked /\ (Subscribe(w, c, ch) \/ Unsubscribe(w, c, ch))
     \/ Unlocked /\ (JoinSubs(w) \/ Leave(w))
     \/ Unregister(w) \/ Visit(w) \/ Process(w) \/ FreedNode(w) \/ Reply(w)
  /\ UNCHANGED directoryVars

Ask(w) ==
  \E c \in Connection :
    Connections(w, c) \/ Info(w, c) \/ \E d \in Connection : Connection1(w, c, d)

Tell(w) ==
  Lookup(w) \/ NotFound(w) \/ Walk(w) \/ Walked(w) \/ Emit(w) \/ InfoCount(w) \/ InfoTotal(w)

DirectoryNext == \E w \in Worker : Guarded(w) \/ Ask(w) \/ Tell(w)

(***************************************************************************)
(* A handler that was started runs on, and queued messages are written or  *)
(* dropped; clients owe nothing.                                           *)
(***************************************************************************)
DirectoryFairness ==
  \A w \in Worker :
    /\ WF_allVars(Tell(w))
    /\ WF_allVars(Guarded(w) /\ Continue(w))
    /\ WF_allVars(Guarded(w) /\ \E c \in Connection : Deliver(w, c))

DirectorySpec == DirectoryInit /\ [][DirectoryNext]_allVars
FairDirectorySpec == DirectorySpec /\ DirectoryFairness

-----------------------------------------------------------------------------
(***************************************************************************)
(* The parts of an INFO answer fit together although the connection maps   *)
(* change while it is computed: every connection whose subscriptions it    *)
(* counted is among the connections it counts last, and among those whose  *)
(* traffic it added up.  It rests on the order of the halves of join() and *)
(* leave() and on the mutex INFO holds throughout (info_command.cpp:44):   *)
(* a connection with subscriptions cannot leave a map meanwhile.           *)
(***************************************************************************)
InfoCovers ==
  \A w \in Worker :
    reading[w] = "total" => counted[w] \subseteq kept[w] /\ counted[w] \subseteq registered
=============================================================================
