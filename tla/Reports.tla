------------------------------ MODULE Reports ------------------------------
(***************************************************************************)
(* The commands that answer with more than a status: LIST and STATS over   *)
(* the store, CONNECTIONS over the four connection maps, CHANNELS and      *)
(* CHANNEL over the subscriptions.  Each works in two passes.  The first   *)
(* measures: it walks over what it will report, cuts it into fragments,    *)
(* and sizes write_buffer.  The second serialises into write_buffer at a   *)
(* running offset.                                                         *)
(*                                                                         *)
(* The walks over the store and the subscriptions hold no lock, so other   *)
(* threads change the items between any two of their steps; CONNECTIONS    *)
(* holds the mutex of the map it walks.                                    *)
(*                                                                         *)
(* An item is an entry, a connection or a subscription; the bytes of its   *)
(* fixed part and of its name are parameters.  A node is the storage of an *)
(* item: removed and inserted again, the item has another node.            *)
(***************************************************************************)
EXTENDS Integers, Sequences, FiniteSets, SequencesExt, FiniteSetsExt

CONSTANTS
  Item,        \* keys, connections or channels, numbered in the order of the walk
  Map,         \* Map[i]: the connection map of i, walked in this order
  Name,        \* Name[i]: bytes of the name of i
  Fixed,       \* Fixed[k]: bytes of the fixed part of an item in a report of kind k
  MaxFragment, \* the limit of a fragment, 2048 in the code
  MaxWalk,     \* bound on the steps of a walk whose items were changed
  MaxChanges   \* bound on the changes to the items

Entries == {"list", "stats"}       \* handle_fragmented_entries_response
Fragmented == Entries \cup {"connections", "channels"}
Kind == Fragmented \cup {"channel"}

\* An item fits into a fragment: 237 bytes and a name of 255 against 2048.
ASSUME ReportsAssumption ==
  /\ Item \subseteq Nat /\ IsFiniteSet(Item) /\ MaxFragment \in Nat
  /\ Map \in [Item -> Nat] /\ \A i, j \in Item : i < j => Map[i] <= Map[j]
  /\ Name \in [Item -> Nat] /\ Fixed \in [Kind -> Nat \ {0}]
  /\ \A k \in Kind, i \in Item : Fixed[k] + Name[i] <= MaxFragment
  /\ MaxWalk \in Nat /\ MaxChanges \in Nat

VARIABLES
  node,     \* node[i]: the node of item i, 0 if there is none
  flagged,  \* items whose expired_ is set
  changes,  \* changes so far, which number the nodes
  report,   \* the report under way
  moved,    \* history: the items were changed since it began
  answer,   \* the last answer, until another report begins
  up        \* the process runs

itemVars == <<node, flagged, changes>>
vars == <<itemVars, report, moved, answer, up>>

\* What a walk holds of an item.
Pointer == [item : Item, node : Nat]

\* The fragments closed, the open one, and its size.
Cut == [done : Seq(Seq(Pointer)), open : Seq(Pointer), size : Nat]
NoCut == [done |-> << >>, open |-> << >>, size |-> 0]

\* measured: the first pass is over.  met is history: what the walk stood on.
\* size is _buffer_required_size so far.
Report ==
  [kind : Kind \cup {"none"}, measured : BOOLEAN, met : Seq(Pointer), cut : Cut, size : Nat]
None == [kind |-> "none", measured |-> FALSE, met |-> << >>, cut |-> NoCut, size |-> 0]

Answer == [kind : Kind \cup {"none"}, size : Nat, offset : Nat, moved : BOOLEAN]
NoAnswer == [kind |-> "none", size |-> 0, offset |-> 0, moved |-> FALSE]

ReportsTypeOK ==
  /\ node \in [Item -> 0 .. MaxChanges + 1]
  /\ flagged \subseteq {i \in Item : node[i] # 0}
  /\ changes \in 0 .. MaxChanges
  /\ report \in Report /\ answer \in Answer
  /\ moved \in BOOLEAN /\ up \in BOOLEAN

Init ==
  /\ node \in [Item -> {0, 1}]
  /\ flagged \in SUBSET {i \in Item : node[i] # 0}
  /\ changes = 0
  /\ report = None /\ answer = NoAnswer
  /\ moved = FALSE
  /\ up = TRUE

-----------------------------------------------------------------------------
(* The passes *)

PointerTo(i) == [item |-> i, node |-> node[i]]

\* The items a report of kind k walks over, in the order of the index: the
\* walks over the store leave out the flagged ones.
Walked(k) ==
  LET live == {i \in Item : node[i] # 0 /\ (k \in Entries => i \notin flagged)}
  IN  [n \in 1 .. Cardinality(live) |->
        PointerTo(CHOOSE i \in live : Cardinality({j \in live : j < i}) = n - 1)]

\* Bytes an item takes of its fragment: CHANNELS counts the fixed part only.
Share(k, p) == Fixed[k] + (IF k \in Entries THEN Name[p.item] ELSE 0)

\* Mutant: the item that opens a fragment is forgotten.
PutForgets(k, cut, p) ==
  IF cut.size + Share(k, p) > MaxFragment
    THEN [done |-> Append(cut.done, cut.open), open |-> << >>, size |-> 0]
    ELSE [cut EXCEPT !.open = Append(@, p), !.size = @ + Share(k, p)]

\* One item: the open fragment is closed first if the item would exceed it.
Put(k, cut, p) ==
  IF cut.size + Share(k, p) > MaxFragment
    THEN [done |-> Append(cut.done, cut.open), open |-> <<p>>, size |-> Share(k, p)]
    ELSE [cut EXCEPT !.open = Append(@, p), !.size = @ + Share(k, p)]

\* The last fragment is closed if it has items.
Closed(cut) == IF cut.open = << >> THEN cut.done ELSE Append(cut.done, cut.open)

\* The sum of a sequence of numbers.
Total(v) ==
  LET sum[n \in 0 .. Len(v)] == IF n = 0 THEN 0 ELSE sum[n - 1] + v[n]
  IN  sum[Len(v)]

\* Bytes an item takes of write_buffer: CHANNELS copies the name.
Copied(k, p) == Fixed[k] + (IF k = "channels" THEN Name[p.item] ELSE 0)

Bytes(k, items) == Total([n \in 1 .. Len(items) |-> Copied(k, items[n])])

\* Mutant: the two numbers before each fragment are forgotten.
HeadsForgotten(fragments) == 0

\* The index and the length before each fragment.
Heads(fragments) == 16 * Len(fragments)

\* Where the offset of the second pass ends.
Written(fragments, k) ==
  8 + Total([n \in 1 .. Len(fragments) |-> 16 + Bytes(k, fragments[n])])

-----------------------------------------------------------------------------
(* Commands *)

\* LIST, STATS, CONNECTIONS or CHANNELS begins; the count of fragments has 8 bytes.
Begin(k) ==
  /\ report = None
  /\ report' = [None EXCEPT !.kind = k, !.size = 8]
  /\ moved' = FALSE /\ answer' = NoAnswer
  /\ UNCHANGED <<itemVars, up>>

\* Where the walk may go next.  It follows its order as long as nothing was
\* changed, and CONNECTIONS does so in any case.  An insertion may rehash the
\* index of the store, and an erased node leads anywhere.
Following ==
  LET walked == Walked(report.kind)
      n == Len(report.met)
      ahead == {p \in Range(walked) : n = 0 \/ report.met[n].item < p.item}
  IN  IF ~moved THEN {walked[m] : m \in {n + 1} \cap DOMAIN walked}
      ELSE IF report.kind = "connections" THEN {p \in ahead : \A q \in ahead : p.item <= q.item}
      ELSE IF n < MaxWalk THEN Range(walked) ELSE {}

AtEnd == Following = {} \/ (moved /\ report.kind # "connections")

\* The node the walk stands on was erased: leaving it may end the process.
Adrift ==
  LET n == Len(report.met)
  IN  n # 0 /\ report.kind # "connections" /\ node[report.met[n].item] # report.met[n].node

Walking == report.kind \in Fragmented /\ ~report.measured

\* First pass, one item.
Visit ==
  /\ Walking
  /\ \E p \in Following :
       report' = [report EXCEPT !.met = Append(@, p), !.cut = Put(report.kind, @, p),
                                !.size = @ + Copied(report.kind, p)]
  /\ up' \in (IF Adrift THEN BOOLEAN ELSE {TRUE})
  /\ UNCHANGED <<itemVars, moved, answer>>

\* The first pass ends.
Measure ==
  /\ Walking
  /\ AtEnd
  /\ report' = [report EXCEPT !.measured = TRUE, !.size = @ + Heads(Closed(report.cut))]
  /\ up' \in (IF Adrift THEN BOOLEAN ELSE {TRUE})
  /\ UNCHANGED <<itemVars, moved, answer>>

\* CHANNEL, first pass: it counts the subscriptions of the channel.  Each of its
\* two walks is one step: the only claim about them is for items that nobody
\* changed since the command began.
MeasureChannel ==
  /\ report = None
  /\ Walked("channel") # << >>
  /\ report' = [None EXCEPT !.kind = "channel", !.measured = TRUE, !.met = Walked("channel"),
                            !.size = 8 + Bytes("channel", Walked("channel"))]
  /\ moved' = FALSE /\ answer' = NoAnswer
  /\ UNCHANGED <<itemVars, up>>

\* The answer is given to the connection.
Send(offset) ==
  /\ answer' = [kind |-> report.kind, size |-> report.size, offset |-> offset, moved |-> moved]
  /\ report' = None
  /\ UNCHANGED <<itemVars, moved>>

\* A node the first pass stood on was erased since: what the second pass reads
\* there is anything, or the process ends.  CHANNELS keeps names, not nodes.
Lost ==
  /\ report.kind # "channels"
  /\ \E p \in Range(report.met) : node[p.item] # p.node

\* Second pass, over what the first one kept.
Fill ==
  /\ report.kind \in Fragmented /\ report.measured
  /\ Send(Written(Closed(report.cut), report.kind))
  /\ up' \in (IF Lost THEN BOOLEAN ELSE {TRUE})

\* CHANNEL, second pass: it walks the subscriptions again.
FillChannel ==
  /\ report.kind = "channel"
  /\ \E offset \in IF Lost THEN {8 + n * Fixed["channel"] : n \in 0 .. Cardinality(Item)}
                  ELSE {8 + Bytes("channel", Walked("channel"))} :
       Send(offset)
  /\ up' \in (IF Lost THEN BOOLEAN ELSE {TRUE})

-----------------------------------------------------------------------------
(* Changes by other threads *)

\* The mutex of the map that CONNECTIONS walks is held.
Locked(i) ==
  LET n == Len(report.met)
  IN  Walking /\ report.kind = "connections" /\ n # 0 /\ Map[report.met[n].item] = Map[i]

Changing(i) ==
  /\ changes < MaxChanges
  /\ ~Locked(i)
  /\ changes' = changes + 1
  /\ moved' = (report # None)
  /\ UNCHANGED <<report, answer, up>>

\* INSERT, the first SET of a key, SUBSCRIBE, join().
Create(i) ==
  /\ Changing(i)
  /\ node[i] = 0
  /\ node' = [node EXCEPT ![i] = changes + 2]
  /\ UNCHANGED flagged

\* The collector flags an item.
Expire(i) ==
  /\ Changing(i)
  /\ node[i] # 0 /\ i \notin flagged
  /\ flagged' = flagged \cup {i}
  /\ UNCHANGED node

\* PURGE of a live key, UNSUBSCRIBE, leave(), or the collector erases a flagged key.
Erase(i) ==
  /\ Changing(i)
  /\ node[i] # 0
  /\ node' = [node EXCEPT ![i] = 0]
  /\ flagged' = flagged \ {i}

Next ==
  /\ up
  /\ \/ \E k \in Fragmented : Begin(k)
     \/ Visit \/ Measure \/ Fill
     \/ MeasureChannel \/ FillChannel
     \/ \E i \in Item : Create(i) \/ Expire(i) \/ Erase(i)

Spec == Init /\ [][Next]_vars

-----------------------------------------------------------------------------
Sum(k, fragment) == Total([n \in 1 .. Len(fragment) |-> Share(k, fragment[n])])

\* No fragment is empty or above the limit, and none was closed while the next
\* item would still have fitted.
WellCut(k, f) ==
  /\ \A n \in DOMAIN f : f[n] # << >> /\ Sum(k, f[n]) <= MaxFragment
  /\ \A n \in DOMAIN f \ {1} : Sum(k, f[n - 1]) + Share(k, f[n][1]) > MaxFragment

(***************************************************************************)
(* At every moment of the first pass of a fragmented report the fragments  *)
(* are what the walk met, cut into pieces, in the order it was met:        *)
(* nothing is left out, taken twice or out of place, no fragment is empty  *)
(* or above the limit, and none is closed while the next item would still  *)
(* fit (response_builder_service.cpp:265-293, :165-187 and :389-407).  If  *)
(* nobody changed the items, all of them were met.  The second pass of     *)
(* CONNECTIONS writes the tcp connections of a fragment before its unix    *)
(* ones (:219-226), the others keep the order.                             *)
(***************************************************************************)
CutInOrder ==
  report.kind \in Fragmented =>
    /\ FlattenSeq(Closed(report.cut)) = report.met
    /\ report.measured /\ ~moved => report.met = Walked(report.kind)
    /\ WellCut(report.kind, Closed(report.cut))

(***************************************************************************)
(* The offset of the second pass ends at the size the first one gave to    *)
(* write_buffer, neither before nor behind it, for every report and every  *)
(* set of items, whatever others do meanwhile.  One report depends on it:  *)
(* CHANNEL (channel_command.cpp:68) counts the subscriptions and then      *)
(* walks them again, without a lock.                                       *)
(***************************************************************************)
OffsetMeetsSize == answer.offset = answer.size \/ (answer.kind = "channel" /\ answer.moved)

\* Why they hold.  f is items cut as they should be, and what the second pass
\* writes of it is what the first one counts.
Size(k, items, f) == 8 + 16 * Len(f) + Bytes(k, items)

IsCut(k, items, f) ==
  /\ f \in Seq(Seq(Pointer)) /\ WellCut(k, f)
  /\ FlattenSeq(f) = items
  /\ Written(f, k) = Size(k, items, f)

\* The cut is that of the items met so far.
Partway(k, items, cut) ==
  /\ items = << >> => cut = NoCut
  /\ items # << >> => /\ cut.open # << >> /\ cut.size = Sum(k, cut.open)
                      /\ IsCut(k, items, Append(cut.done, cut.open))

\* A walk over items that nobody changes has met the first of them.
InStep(walked) ==
  /\ Len(report.met) <= Len(walked)
  /\ report.met = SubSeq(walked, 1, Len(report.met))
  /\ report.measured => report.met = walked

WalkInv ==
  report.kind \in Fragmented =>
    /\ Partway(report.kind, report.met, report.cut)
    /\ report.size = 8 + Bytes(report.kind, report.met)
                       + (IF report.measured THEN 16 * Len(Closed(report.cut)) ELSE 0)
    /\ ~moved => InStep(Walked(report.kind))

\* What CHANNEL counted is what it will walk.
ChannelInv ==
  report.kind = "channel" /\ ~moved =>
    /\ report.met = Walked("channel")
    /\ report.size = 8 + Bytes("channel", Walked("channel"))

ReportInv == ReportsTypeOK /\ OffsetMeetsSize /\ WalkInv /\ ChannelInv
=============================================================================
