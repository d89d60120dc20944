------------------------------ MODULE Metrics ------------------------------
(***************************************************************************)
(* The metrics of the server while UPDATE, STAT, EVENT and INFO commands   *)
(* are served: every command marks the metric of its type twice (the       *)
(* server's, then the connection's), find_or_fail marks a read of the      *)
(* entry, a successful UPDATE a write, and once a minute the collector     *)
(* moves what was marked into the values STAT and INFO report.  All of     *)
(* them are atomics, and nothing makes two accesses one step: each access  *)
(* is an action.  The UPDATEs are those of module Quota.                   *)
(*                                                                         *)
(* The accesses are relaxed (metrics_collector_service.cpp:62-66,          *)
(* stat_command.cpp:77-80).  Here they are sequentially consistent: what   *)
(* involves two locations is claimed for machines that keep the order of   *)
(* loads and of stores.                                                    *)
(*                                                                         *)
(* A worker stands for the connection whose commands it runs: the commands *)
(* of one connection run one after the other (connection.ipp:186-234).     *)
(***************************************************************************)
EXTENDS Quota, Sequences, FiniteSets, FiniteSetsExt

CONSTANTS
  Type,        \* request_types of the commands clients send
  MaxCommands  \* bound on the commands clients send

ASSUME MetricsAssumption ==
  /\ {"update"} \subseteq Type /\ Type \subseteq {"update", "stat", "info", "event"}
  /\ MaxCommands \in Nat
  /\ "all" \notin Worker
  /\ IsFiniteSet(Worker)

VARIABLES
  at,         \* where a worker is in its command
  type,       \* the type of the command it runs
  count, accumulator,  \* count_ and accumulator_ per owner and request type
  published,  \* the sum of the per_minute_ values published so far
  marks,      \* reads_ and writes_ of the counter's entry_metrics,
  minute,     \* their _per_minute_
  total,      \* and their _accumulator_
  collector,  \* the step metrics_collector_service::run is at
  taken,      \* its locals reads and writes
  seen,       \* what a STAT or INFO loaded, in the order it loaded it
  received,   \* commands received
  granted,    \* UPDATEs that changed the counter
  torn        \* a STAT loaded a per-minute value between the collector's two stores

metricVars == <<count, accumulator, published>>
entryVars == <<marks, minute, total>>
workVars == <<at, type, seen, received, granted, torn>>
collectVars == <<collector, taken>>
metricsVars == <<vars, metricVars, entryVars, workVars, collectVars>>

-----------------------------------------------------------------------------
\* metrics_collector_->commands_ ("all") and metrics_->commands_ of each connection.
Metric == ({"all"} \union Worker) \X {"update", "stat", "info", "event"}

\* entry_metrics counts reads and writes alike.
Kind == {"reads", "writes"}

\* Where a command is between two accesses to what is shared.
Place == {"idle", "all", "mine", "minetotal", "inner", "innertotal",
          "find", "apply", "mark", "stat", "info"}

MetricsTypeOK ==
  /\ at \in [Worker -> Place]
  /\ type \in [Worker -> Type]
  /\ count \in [Metric -> Nat] /\ accumulator \in [Metric -> Nat]
  /\ published \in [Metric -> Nat]
  /\ marks \in [Kind -> Nat] /\ minute \in [Kind -> Nat] /\ total \in [Kind -> Nat]
  /\ taken \in [Kind -> Nat]
  /\ collector \in 0 .. 7
  /\ seen \in [Worker -> Seq(Nat)]
  /\ received \in Nat /\ granted \in Nat
  /\ torn \in [Worker -> BOOLEAN]

\* The INSERT that created the counter marked one write (entry_wrapper.hpp:85).
MetricsInit ==
  /\ Init
  /\ at = [w \in Worker |-> "idle"]
  /\ type = [w \in Worker |-> "update"]
  /\ count = [m \in Metric |-> 0] /\ accumulator = [m \in Metric |-> 0]
  /\ published = [m \in Metric |-> 0]
  /\ marks = [k \in Kind |-> IF k = "writes" THEN 1 ELSE 0]
  /\ minute = [k \in Kind |-> 0] /\ total = [k \in Kind |-> 0]
  /\ taken = [k \in Kind |-> 0]
  /\ collector = 0
  /\ seen = [w \in Worker |-> << >>]
  /\ torn = [w \in Worker |-> FALSE]
  /\ received = 0 /\ granted = 0

-----------------------------------------------------------------------------
\* metric::mark: count_ and then accumulator_, two atomic additions.
Count(m) ==
  /\ count' = [count EXCEPT ![m] = @ + 1]
  /\ UNCHANGED <<accumulator, published>>

\* Mutant: mark adds the temporal count to the total.
AccumulateCount(m) ==
  /\ accumulator' = [accumulator EXCEPT ![m] = @ + count[m]]
  /\ UNCHANGED <<count, published>>

Accumulate(m) ==
  /\ accumulator' = [accumulator EXCEPT ![m] = @ + 1]
  /\ UNCHANGED <<count, published>>

\* metric::compute of each metric of a set.  Only the collector stores
\* per_minute_ and nobody else loads count_: the exchange and the store are one
\* step, and so are the metrics of one owner.
Compute(M) ==
  /\ published' = [m \in Metric |-> IF m \in M THEN published[m] + count[m] ELSE published[m]]
  /\ count' = [m \in Metric |-> IF m \in M THEN 0 ELSE count[m]]
  /\ UNCHANGED accumulator

\* Worker w goes on to s; the command stays the one it runs.
Goto(w, s) ==
  /\ at' = [at EXCEPT ![w] = s]
  /\ UNCHANGED <<type, seen, received, torn>>

-----------------------------------------------------------------------------
\* try_process_next: the command's type is marked for the server, then for the
\* connection, and the command is called.
Receive(w, t) ==
  /\ at[w] = "idle" /\ received < MaxCommands
  /\ Count(<<"all", t>>)
  /\ at' = [at EXCEPT ![w] = "all"]
  /\ type' = [type EXCEPT ![w] = t]
  /\ seen' = [seen EXCEPT ![w] = << >>]
  /\ torn' = [torn EXCEPT ![w] = FALSE]
  /\ received' = received + 1
  /\ UNCHANGED <<vars, entryVars, granted, collectVars>>

MarkAll(w) ==
  /\ at[w] = "all"
  /\ Accumulate(<<"all", type[w]>>)
  /\ Goto(w, "mine")
  /\ UNCHANGED <<vars, entryVars, granted, collectVars>>

CountMine(w) ==
  /\ at[w] = "mine"
  /\ Count(<<w, type[w]>>)
  /\ Goto(w, "minetotal")
  /\ UNCHANGED <<vars, entryVars, granted, collectVars>>

\* commands_[_type]: the handler a type is served by.
Handler(t) == CASE t = "event" -> "inner" [] t = "info" -> "info" [] OTHER -> "find"

MarkMine(w) ==
  /\ at[w] = "minetotal"
  /\ Accumulate(<<w, type[w]>>)
  /\ Goto(w, Handler(type[w]))
  /\ UNCHANGED <<vars, entryVars, granted, collectVars>>

\* event_command: the command inside the event, an UPDATE, is marked for the
\* server only, and called.
CountInner(w) ==
  /\ at[w] = "inner"
  /\ Count(<<"all", "update">>)
  /\ Goto(w, "innertotal")
  /\ UNCHANGED <<vars, entryVars, granted, collectVars>>

\* Mutant: the total of the connection is added to instead.
MarkInnerMine(w) ==
  /\ at[w] = "innertotal"
  /\ Accumulate(<<w, "update">>)
  /\ Goto(w, "find")
  /\ UNCHANGED <<vars, entryVars, granted, collectVars>>

MarkInner(w) ==
  /\ at[w] = "innertotal"
  /\ Accumulate(<<"all", "update">>)
  /\ Goto(w, "find")
  /\ UNCHANGED <<vars, entryVars, granted, collectVars>>

-----------------------------------------------------------------------------
\* An atomic addition to reads_ or writes_.
Mark(k) ==
  /\ marks' = [marks EXCEPT ![k] = @ + 1]
  /\ UNCHANGED <<minute, total>>

\* find_or_fail of a live entry.
Find(w) ==
  /\ at[w] = "find"
  /\ Mark("reads")
  /\ Goto(w, IF type[w] = "stat" THEN "stat" ELSE "apply")
  /\ UNCHANGED <<vars, metricVars, granted, collectVars>>

\* update_command: apply_quota_change, in the steps of Quota; a change is granted.
Apply(w, v) ==
  /\ at[w] = "apply"
  /\ \/ "patch" \in Change /\ Patch(w, v)
     \/ "increase" \in Change /\ Increase(w, v)
  /\ granted' = granted + 1
  /\ Goto(w, "mark")
  /\ UNCHANGED <<metricVars, entryVars, collectVars>>

Compare(w, v) ==
  /\ at[w] = "apply"
  /\ "decrease" \in Change /\ DecreaseLoad(w, v)
  /\ UNCHANGED <<metricVars, entryVars, workVars, collectVars>>

Refuse(w, v) ==
  /\ at[w] = "apply" /\ pc[w] = "idle"
  /\ "decrease" \in Change /\ counter < v
  /\ Goto(w, "idle")
  /\ UNCHANGED <<vars, metricVars, entryVars, granted, collectVars>>

Subtract(w) ==
  /\ at[w] = "apply"
  /\ DecreaseSub(w)
  /\ granted' = granted + 1
  /\ Goto(w, "mark")
  /\ UNCHANGED <<metricVars, entryVars, collectVars>>

\* The UPDATE modified the entry: one write.
MarkWrite(w) ==
  /\ at[w] = "mark"
  /\ Mark("writes")
  /\ Goto(w, "idle")
  /\ UNCHANGED <<vars, metricVars, granted, collectVars>>

-----------------------------------------------------------------------------
\* Mutant: INFO lists the totals of the connection that asks.
LoadsMine(w) ==
  IF type[w] = "stat"
    THEN <<minute["reads"], minute["writes"], total["reads"], total["writes"]>>
    ELSE <<accumulator[<<"all", "update">>], accumulator[<<"all", "event">>], accumulator[<<w, "update">>]>>

\* The loads of a STAT; those of an INFO, which adds up the totals of all types
\* and then lists them, EVENT left out.  UPDATE stands for the types listed.
Loads(w) ==
  IF type[w] = "stat"
    THEN <<minute["reads"], minute["writes"], total["reads"], total["writes"]>>
    ELSE LET all(t) == accumulator[<<"all", t>>]
         IN  <<all("update"), all("event"), all("update")>>

\* The next load, in program order, the last of which ends the command.  A per-minute value loaded
\* after the collector stored it and before it added it to the total is torn.
Load(w) ==
  LET i == Len(seen[w]) + 1 IN
  /\ at[w] \in {"stat", "info"}
  /\ seen' = [seen EXCEPT ![w] = Append(@, Loads(w)[i])]
  /\ torn' = [torn EXCEPT ![w] = @ \/ /\ at[w] = "stat"
                                      /\ \/ i = 1 /\ collector \in {3, 4}
                                         \/ i = 2 /\ collector \in {4, 5}]
  /\ at' = [at EXCEPT ![w] = IF i = Len(Loads(w)) THEN "idle" ELSE @]
  /\ UNCHANGED <<vars, metricVars, entryVars, type, received, granted, collectVars>>

-----------------------------------------------------------------------------
\* metrics_collector_service::run, on the strand, when its timer fires: per kind
\* an exchange, then the stores, then the additions; collector counts the steps.

\* Mutant: the marks are loaded and reset by a later store.
TakeKeeps(k) ==
  /\ taken' = [taken EXCEPT ![k] = marks[k]]
  /\ UNCHANGED entryVars

Take(k) ==
  /\ taken' = [taken EXCEPT ![k] = marks[k]]
  /\ marks' = [marks EXCEPT ![k] = 0]
  /\ UNCHANGED <<minute, total>>

Store(k) ==
  /\ minute' = [minute EXCEPT ![k] = taken[k]]
  /\ UNCHANGED <<marks, total, taken>>

\* Mutant: the total becomes the last minute's.
AddStores(k) ==
  /\ total' = [total EXCEPT ![k] = taken[k]]
  /\ taken' = [taken EXCEPT ![k] = 0]
  /\ UNCHANGED <<marks, minute>>

Add(k) ==
  /\ total' = [total EXCEPT ![k] = @ + taken[k]]
  /\ taken' = [taken EXCEPT ![k] = 0]
  /\ UNCHANGED <<marks, minute>>

CollectEntry ==
  /\ \/ collector = 0 /\ Take("reads")
     \/ collector = 1 /\ Take("writes")
     \/ collector = 2 /\ Store("reads")
     \/ collector = 3 /\ Store("writes")
     \/ collector = 4 /\ Add("reads")
     \/ collector = 5 /\ Add("writes")
  /\ UNCHANGED metricVars

\* The four passes over the connections, then compute_all.
CollectCommands ==
  /\ \/ collector = 6 /\ Compute(Metric \ ({"all"} \X Type))
     \/ collector = 7 /\ Compute({"all"} \X Type)
  /\ UNCHANGED <<entryVars, taken>>

Collect ==
  /\ CollectEntry \/ CollectCommands
  /\ collector' = (collector + 1) % 8
  /\ UNCHANGED <<vars, workVars>>

-----------------------------------------------------------------------------
MetricsNext ==
  \/ \E w \in Worker :
       \/ \E t \in Type : Receive(w, t)
       \/ MarkAll(w) \/ CountMine(w) \/ MarkMine(w) \/ CountInner(w) \/ MarkInner(w)
       \/ Find(w)
       \/ \E v \in Amount : Apply(w, v) \/ Compare(w, v) \/ Refuse(w, v)
       \/ Subtract(w) \/ MarkWrite(w) \/ Load(w)
  \/ Collect

MetricsSpec == MetricsInit /\ [][MetricsNext]_metricsVars

-----------------------------------------------------------------------------
(***************************************************************************)
(* Every UPDATE that changed the counter is counted as one write, once: it *)
(* is still to be marked, marked since the last collection, in the         *)
(* collector's hands or in the total.  The collector takes the marks with  *)
(* an exchange (metrics_collector_service.cpp:60) while other threads add  *)
(* to them.                                                                *)
(***************************************************************************)
WritesConserved ==
  marks["writes"] + taken["writes"] + total["writes"]
    + Cardinality({w \in Worker : at[w] = "mark"}) = 1 + granted

\* The metric a worker has counted and not yet accumulated.
Midway(w) ==
  CASE at[w] = "all"        -> <<"all", type[w]>>
    [] at[w] = "minetotal"  -> <<w, type[w]>>
    [] at[w] = "innertotal" -> <<"all", "update">>
    [] OTHER                -> << >>

(***************************************************************************)
(* For every metric the per-minute values published so far and the current *)
(* count add up to the total, but for the marks between the two additions  *)
(* of metric::mark (metric.hpp:51): compute may run there, so a minute may *)
(* show a command before the total does, by at most one per thread.        *)
(***************************************************************************)
MinutesAddUp ==
  \A m \in Metric :
    published[m] + count[m] = accumulator[m] + Cardinality({w \in Worker : Midway(w) = m})

SumOver(f, S) == MapThenSumSet(LAMBDA x : f[x], S)

\* The UPDATEs and EVENTs connection w has counted in total.
Own == [w \in Worker |-> accumulator[<<w, "update">>] + accumulator[<<w, "event">>]]

(***************************************************************************)
(* What INFO reports for UPDATE is what the connections report for UPDATE  *)
(* and for EVENT together, but for commands being marked: event_command    *)
(* marks the command inside for the server and not for the connection      *)
(* (event_command.cpp:42).                                                 *)
(***************************************************************************)
CommandsAddUp ==
  accumulator[<<"all", "update">>]
    + Cardinality({w \in Worker : at[w] \in {"inner", "innertotal"}})
  = SumOver(Own, Worker)
    + Cardinality({w \in Worker : at[w] \in {"mine", "minetotal"} /\ type[w] = "update"})

(***************************************************************************)
(* STAT never reports more for the last minute than in total, unless it    *)
(* loaded a per-minute value the collector had stored and not yet added to *)
(* the total (metrics_collector_service.cpp:62-66): a collection that      *)
(* begins or ends elsewhere in the STAT does no harm.  (The four relaxed   *)
(* loads of STAT are taken in program order.)                              *)
(***************************************************************************)
TornNeedsCollection ==
  \A w \in Worker :
    at[w] = "idle" /\ type[w] = "stat" /\ seen[w] # << >> /\ ~torn[w] =>
      seen[w][1] <= seen[w][3] /\ seen[w][2] <= seen[w][4]

(***************************************************************************)
(* INFO loads every total twice, and commands go on in between: the total  *)
(* it reports is covered by what it lists per type and the EVENTs, which   *)
(* it adds up and does not list (info_command.cpp:91 and :131).            *)
(***************************************************************************)
TotalsCovered ==
  \A w \in Worker :
    at[w] = "idle" /\ type[w] = "info" /\ seen[w] # << >> =>
      seen[w][1] + seen[w][2] <= seen[w][3] + accumulator[<<"all", "event">>]
=============================================================================
