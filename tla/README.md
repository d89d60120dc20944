# A TLA+ verification of throttr

throttr is an in-memory server for rate limiting and small key/value data: it
keeps counters (`INSERT`, `UPDATE`) and buffers (`SET`, `GET`) that expire, and
relays messages between its connections (`SUBSCRIBE`, `PUBLISH`).  One
`io_context` is run by a pool of threads.  There is almost no strand: the
handlers of one connection, the commands of different connections, the timer
and the garbage collector run on any free thread.  This directory models what
that concurrency does to the core of the server, checks it with TLC and proves
the central properties with TLAPS.

Paths below are relative to `src/src/sources/` (`.cpp`) and
`src/src/include/throttr/` (`.hpp`, `.ipp`).  `PROJECT.json` maps each
definition to its lines.

## 1. Inventory

| Component | State | Operations | Interacts with |
|---|---|---|---|
| Key store (`storage.hpp`, `entry*.hpp`, `create_service`, `update_service`, `find_service`, `commands/{insert,set,update,purge}`) | `storage_`: a multi-index of entries with `expires_at_` and `expired_` | INSERT, SET, UPDATE, PURGE, GET, QUERY | the collector erases and flags the same entries; creation dispatches `schedule_timer` to `strand_` |
| Garbage collector (`garbage_collector_service.cpp`) | `expiration_timer_`, `mutex_`, `strand_`, `scheduled_key_` | `schedule_timer`, the wait handler, `run` | walks the store between commands that take no lock |
| Quota of a counter (`update_service.cpp`, `entry.cpp`) | an atomic of the configured width | patch, increase, decrease | UPDATEs of other connections |
| Outgoing side of a connection (`connection.ipp`, `message.hpp`) | `pending_writes_` (circular buffer), messages with `in_use_` | `send`, `on_send`, `write_next`, `on_write`, `close` | every command answers through it; PUBLISH sends from foreign threads |
| Connections and subscriptions (`state.hpp`, `subscriptions_service`, `commands/{subscribe,unsubscribe,publish}`) | four connection maps, the subscription index, two mutexes | join, leave (from the destructor), SUBSCRIBE, UNSUBSCRIBE, PUBLISH | PUBLISH looks up raw pointers of connections that other threads destroy |
| Incoming side of a connection (`connection.ipp`, `messages_service`) | a fixed buffer with start and end | `on_read`, framing, compaction, dispatch | feeds the commands |
| Pools (`messages_pool`, `buffers_pool`) | thread-local available and used lists | `take_one`, `recycle`, `fit`, `prepares` | messages are released by another thread than the one that took them |
| Handler memory (`custom_allocator.hpp`) | one slot and an in-use flag | allocate, deallocate | the handlers of one connection |
| Persistence (`storage_serializer`, `state/`, `app.cpp`) | a file | dump at shutdown, restore at startup | the collector after a restart |
| Metrics (`metric.hpp`, `metrics_collector_service`) | atomics per entry and connection | mark, the periodic collection | walks the store on the strand |
| Time conversion (`time.hpp`) | none | unit conversions of a ttl | every expiration |
| Response fragments (`response_builder_service`, LIST, STATS, CONNECTIONS, CHANNELS) | none | splitting long answers | the write queue |
| Reading commands (GET, QUERY, STAT, CHANNEL, CONNECTION, WHOAMI, INFO, EVENT) | none of their own | answers that point into entries | the write queue, the store |
| Agent, server, application (`agent.hpp`, `server.hpp`, `app.cpp`) | sockets, threads | accept, connect with retry, serve, stop | join |
| Dispatch table, options, formatting | none | - | - |

What makes each of them correct, and what is hard to test in it:

* **Store and collector.** A key lives, expires, is erased after a grace period
  and never comes back; every key is eventually noticed although only some
  insertions arm the only timer; passes exclude each other; the lists a pass
  makes in its scan are still right when it applies them.  Hard because the
  timer handler, the strand and the commands meet on different threads, because a
  creation decides whether to wake the collector some time after its insertion,
  and because a pass calls `schedule_timer` with its mutex held.
* **Quota.** Clients never take out more than was put in; no update is lost;
  the width wraps.
* **Outgoing queue.** Answers arrive in order, each once; the queue never stops
  with something in it; a message being written is not recycled.  Hard because
  `on_send` and `on_write` hand the duty to write to each other without a lock,
  and because the circular buffer silently overwrites its front.
* **Subscriptions.** A subscription belongs to a registered connection; PUBLISH
  reaches everyone who stays, and nobody else although it fixes the end of its
  walk at the start; no PUBLISH touches a connection that is being destroyed; a
  closed connection goes away.
* **Incoming side.** Each command sees exactly its request, however the stream
  is cut into chunks; a full buffer never stops a request that fits.  Hard
  because the rest is moved by `memmove` at two places under different
  conditions, and chunk boundaries are chosen by the network.
* **Pools.** A message that is queued or being written is not handed out again,
  although it is released on another thread than the one that takes it.
* **Persistence.** A restart brings back what was dumped and nothing else; hard
  because other threads serve clients during dump and restore, the dump walks
  the store twice, and a crash may come at any byte.
* **Metrics.** Nothing is counted twice or lost between the additions of the
  commands and the exchanges of the collection; what STAT and INFO report
  fits together although each value is loaded on its own.
* **Reports and reading commands.** Fragments are complete and within the limit,
  the second pass ends where the first measured, whatever changes between two
  steps of either; the commands that walk the connection maps meet no connection that
  is gone, and the sums of INFO agree with each other.

## 2. Modules

| Module | Models | Proofs | Instance |
|---|---|---|---|
| `KeyLifecycle` | abstract: the life of a key seen by clients | - | - |
| `Storage` | store, strand, timer and collector; implements `KeyLifecycle` | `StorageProofs` | `MCStorage` |
| `Quota` | one counter under UPDATE | `MetricsProofs` | `MCQuota` |
| `Metrics` | extends `Quota`: marks, the collection, STAT, INFO's totals, EVENT; implements `Quota` | `MetricsProofs` | `MCMetrics` |
| `WriteQueue` | outgoing side of one connection | `PoolsProofs` | `MCWriteQueue` |
| `Pools` | extends `WriteQueue`: the message pools of the threads; implements `WriteQueue` | `PoolsProofs` | `MCPools` |
| `ReadBuffer` | incoming side of one connection | `ReadBufferProofs` | `MCReadBuffer` |
| `PubSub` | life of connections, subscriptions, PUBLISH | `DirectoryProofs` | through `Directory` |
| `Directory` | extends `PubSub`: CONNECTION, CONNECTIONS, INFO over the connection maps | `DirectoryProofs` | `MCDirectory` |
| `Persistence` | dump, restart, restore, crashes | `PersistenceProofs` | `MCPersistence` |
| `Reports` | the two passes of LIST, STATS, CONNECTIONS, CHANNELS, CHANNEL | `ReportsProofs` | `MCReports` |

`Loops` holds lemmas about induction and loops that several proof modules use.

`Metrics`, `Pools` and `Directory` compose: their steps are the steps of the
module they extend, with what the code does around them in the same handler.
A run of the larger module therefore also checks the properties of the smaller
one, in the surroundings the code gives it.

### Storage

A creation is two steps, as nothing makes them one: `Emplace` inserts, `Walk`
compares the expiration that was computed before (`created`) with that of the
first unexpired item and dispatches a task or not.  The other commands touch one
entry once and are one step.  A collector pass is several: `Scan` (lock, read the
clock once, classify), one `Mark` per key to flag, one `Erase` per key to erase,
`FindNext` (the second walk for the next deadline) and `Reschedule`.
`pc[w]` says where thread `w` is; `gc` holds the locals of the pass.
`StrandTask` is `schedule_timer` run from the strand, `TimerExpires` the moment
from which a wait can no longer be cancelled, `TimerHandler` the start of its
handler.  `Reschedule` has the three outcomes of the code: nothing to schedule,
a deadline ahead, and a deadline that has passed, in which case
`schedule_timer` calls `run`, whose `scoped_lock` waits for the mutex its own
thread owns (`"relock"`; nothing leaves it, as with a default `std::mutex`, and
it does not count as a pass that will still look at the store).  `overtaken`
remembers that an UPDATE or a SET stored an expiration below that of a creation
between its two steps, until a task is dispatched or a pass begins.

Abstractions: values, `ttl_type` and units are left out (durations are ticks);
the scan is one step, since what it reads is classified item by item and the
interesting races are between the scan and the application of its lists;
arming the timer is one step; a strand task always goes through the queue, while
`dispatch` may run it inline, which the queue covers because the task may be
taken at once by the same thread; the first unexpired item of the hashed index,
whose order is unspecified, is any unexpired item; instants wrap at `WORD`, and
two of them, whose wake-up is mistaken for "nothing to schedule", are kept out
of the inputs (`Schedulable`); clients wait while `MaxStrand` tasks are on the
strand; the wall clock only advances, though
`system_clock` may also be set back.  Data races inside the multi-index itself
are not modelled: a command that changes the container during another thread's
walk is undefined behaviour of which only the sequential outcomes are here.
`WakeLag = 1` excludes wake-ups at the very instant of the deadline, `0` allows
them.

### Quota and Metrics

A decrease is a load with a comparison (`DecreaseLoad`) and a `fetch_sub`
(`DecreaseSub`), patch and increase are one atomic operation each.  `supply`,
`consumed` and `raced` are history.

`Metrics` puts the whole command around them.  Every access to a shared atomic
is an action: the two additions of `metric::mark` for the server and for the
connection, the read marked by `find_or_fail`, the change of the quota, the
write marked after it, each load of a STAT or an INFO; and on the collector's
side each exchange, store and addition (`collector` counts the steps of
`metrics_collector_service::run`).  `published` adds up the per-minute values
of a metric; `granted` and `torn` are history.  A thread stands for the
connection it serves.  Abstractions: one entry and the four request types that
differ in their marks (the others mark like UPDATE); the inner command of an
EVENT is an UPDATE; the exchange and store of `compute` are one step, since
nobody else loads `count_` or stores `per_minute_`; the reads that LIST, STATS
and a creation mark are the same addition and left out.  The accesses of the code
are relaxed (`metrics_collector_service.cpp:62-66`, `commands/stat_command.cpp:77-80`);
in the model they are sequentially consistent.  What adds up atomic changes
(`Conservation`, `WritesConserved`, `MinutesAddUp`, `CommandsAddUp`) needs only that
each is atomic; what compares loads of several locations (`TornNeedsCollection`,
`TotalsCovered`) is claimed for a machine and compiler that keep the order of loads
and of stores.

### WriteQueue and Pools

`posted` are `on_send` handlers waiting for a thread, `pending` is
`pending_writes_`, `inflight` the writes given to asio, `done` the `on_write`
handlers waiting for a thread.  `on_send` and `on_write` are cut where another
thread may come in: between `push_back` and the test of the size (`"pushed"`),
after the removal of the front (`"popped"`) and before `write_next`.  `crossed`
remembers that an `on_send` pushed while another stood there, until a write is
started.  `push_back` and `erase` themselves are taken as atomic, though two threads
in them are a data race on the `circular_buffer`.  A write
is a whole: the bytes of two writes in flight are not interleaved, their
completions are, in any order.  After an error the socket is closed and the
queue keeps its messages, as in the code.

In `Pools` answer number n is carried by a message object, which its thread
takes from its own `available` list after `recycle` (everything in `used`
without `in_use_` comes back), `fit` and, if nothing is left, a refill.  Both
lists are circular buffers of twice the pool size that overwrite their front.
`flagged` are the messages with `in_use_` set; only `on_write` clears it, for the
front it removes.  `raced` remembers that two writes overlapped or the queue
overflowed, the two cases of section 4 in which a message is released while
it is written.

### ReadBuffer

A byte is its offset in everything the peer wrote, so the contents of the
buffer say where each byte came from.  `OnRead` appends a chunk of any length
that fits, `Dispatch` is one round of the loop of `try_process_next`, `Break`
its end with `compact_buffer_if_needed` and the start of the next read.  A
request is given by the bytes that tell its size, its size, and whether its type
is known: `get_message_size` answers 0 for an incomplete header and for an
unknown type alike.  Bytes that are not the start of a request may be taken for
one of any size (`MessageSize`), so a framing error would show.

### PubSub and Directory

The four connection maps are one set `registered`.  `join` and `leave` are two
critical sections each, in the code's order.  A connection lives while a handler
holds it: its read, or a message queued for it (`queued`, answers included); the
last one to go runs the destructor on its thread, which calls `leave`.  PUBLISH
is `Publish` (`equal_range`), then per subscription `Visit` (which map is it in)
and `Process` (second lookup and `send`), then `Reply`.  The end of the walk is
fixed by `Publish`, as in the code: subscriptions to other channels entered before
it are visited too, and when its node is erased the walk runs on, to the end of
the index or to a node that took its place (`IsEnd`).  Standing on a node that
was erased meanwhile is undefined behaviour: the walk may go on to any later
subscription, end (`Following`), or terminate the process (`FreedNode`); that it
leads to no earlier one is an assumption.  At the end of the index the walk
terminates the process or stays.
`shared_from_this` of a connection whose destructor has begun throws, and
nothing catches it on its way out of `io_context::run`: `up` becomes false.

`Directory` splits `registered` into the maps again (`MapOf`).  CONNECTION looks
its target up map by map and once more, unchecked, to read it; CONNECTIONS keeps
pointers map by map and uses them when the mutexes are released; INFO holds the
mutex of the subscriptions from its first step to its last, walks the maps,
counts the subscriptions and then the connections.  The critical sections of
`PubSub` that take that mutex wait for it (`Unlocked`).  What the rows of the
answers hold is left out.

### Persistence

`DumpBegins` opens and truncates the file and writes the count of live keys,
`DumpRecord` is the second walk reaching one key, `DumpEnds` the stop of the
context; `Start`, `RestoreRecord` and `RestoreEnd` are the next start.  INSERT,
SET, UPDATE, PURGE and the collector go on in every phase in which the pool of
threads runs, dump and restore included.  An insertion may make the container
rehash, after which a dump that is under way may reach any keys, some of them
again (`Put`).  `Crash` ends the process anywhere; during a dump (`CrashDumping`)
it leaves any prefix of the file, cut inside the count or a record too, or less
than a header, which the next start refuses.  A number the file ends in is read as
its last byte repeated (`Garbled`, `Torn`), everything behind the end as zero
(`Phantom`); a size of a buffer read that way may be more than `resize` can give,
and the exception ends the process (`RestoreThrows`).  Every restored key needs a
buffer of the restoring thread's pool: `prepared` says whether `prepares` was called
first, which the tests do and `app::serve` does not.

`shrunk`, `grown`, `dumped` and `kept` are history, each cleared when a dump begins:
the second walk missed a key the first had counted, a key was entered, the
keys that were live at some time of the dump, and those that were so all through.
Abstractions: the clock and the wake-ups are those of `Storage`, here `Collect` may
flag or erase at any time; the metrics in a record, which restore reads and drops,
are left out.

### Reports

`Begin` starts LIST, STATS, CONNECTIONS or CHANNELS, `Visit` is the first pass
meeting one item (`Put`: the open fragment is closed if the item would exceed it),
`Measure` its end, with the size of `write_buffer`; `Fill` is the second pass,
over what the first one kept.  CHANNEL has `MeasureChannel` and `FillChannel`, a
count and a second walk, each one step: what is claimed of it is for subscriptions
nobody changed since it began.  Between any two steps another thread may create,
flag or erase an item; CONNECTIONS holds the mutex of the map it is in (`Locked`).
A node is the storage of an item, and a new one is made at each creation.  Once
something was changed, the walk over the store or the subscriptions may meet any
item next, again too, or end: an insertion may rehash, and an erased node leads
anywhere or ends the process (`Following`, `Adrift`).  A second pass over a freed
node may end the process (`Lost`).

Abstractions: the contents of the fields; the reports range over one set of
items, each of CHANNELS' standing for a channel with its subscriptions.
CONNECTIONS keeps the tcp and the unix connections of a fragment in two lists and
writes the first before the second; the order claimed is that of the fragments
and of the walk.  GET and QUERY, and what the pointers of a waiting answer show when
it is written at last, are not modelled.

## 3. Runs

| Run | Instance and bounds | Checks |
|---|---|---|
| `Storage_concurrent` | 2 keys (one the zero-length key), 2 threads, ttl 1-2, clients active at instants 0-1, 1 task on the strand, time to 5 | `OneCollector`, `NeverDormant`, `ImplementsLifecycle`, `DrainedOrStuck` |
| `Storage_single_worker` | 2 keys, 1 thread, patch/increase/decrease, word of 16, time 2-6 | `TypeOK`, `AlwaysAwaited`, `ExpireOnlyWhenDue`, `CounterKeepsGrace` |
| `Metrics_concurrent` | 2 interchangeable threads, 2 commands of any type, 2-bit counter, the collector at any time | Quota: `TypeOK`, `Conservation`, `OverdraftNeedsRace`; `WritesConserved`, `MinutesAddUp`, `CommandsAddUp`, `TornNeedsCollection`, `TotalsCovered` |
| `Pools_concurrent` | 2 threads, pools of 1 message, capacity 2 with window 3, 4 answers, failing writes | WriteQueue: `TypeOK`, `NeverStalled`; `QueuedIsReserved`, `WrittenIsReserved`, `PoolsAreDisjoint` |
| `WriteQueue_single_worker` | 1 thread, window 4 below capacity 5, failing writes, 12 messages | `AnswersInOrder`, `InFlightIsInUse`, `EveryAnswerDelivered` |
| `ReadBuffer_chunks` | buffer of 5, 4 requests of size 1, 3, 5, 6 or of unknown type, all cuts, failing reads | `ReadTypeOK`, `ViewsAreRequests`, `SpinsOnlyOnUnservable`, `EveryRequestServed` |
| `Directory_concurrent` | 2 interchangeable threads, 2 connections, 2 maps, 3 commands | PubSub: `TypeOK`, `SubscriberRegistered`, `EveryoneHears`; `InfoCovers` |
| `Directory_single_worker` | 1 thread, 2 connections, 2 maps, 2 commands | `Survives`, `NoStrangerHears`, `ClosedLeaves` |
| `Persistence_restart` | 3 keys (one zero-length), a counter and a raw value, 3 commands, 3 starts, a cut number read as 0 or 4 | `QuietDumpRestores`, `PhantomNeedsRace`, `LossNeedsInsert` |
| `Reports_two_passes` | 4 items in 2 maps with names of 0-2 bytes, fragments of 7, 2 changes, walks of up to 4 items once something changed | `CutInOrder`, `OffsetMeetsSize` |
| `Storage_drain_finding` | as `Storage_concurrent` | `Drains` is violated |
| `Quota_overdraft_finding` | 2 threads, decreases only | `NoOverdraft` is violated |

Why the bounds are enough for the cases of interest.  Two keys and two threads
let a command, a strand task or a second wake-up fall between any two steps of a
pass or between the two of a creation, with one key due while another is being
flagged; `MaxTime` is past the last expiration plus grace, so that a store can
drain within the model.  A word of 16
lets `decrease` wrap below zero and reach far-future instants.  A supply of 8
wraps a 2-bit counter twice, and with two commands on two threads either may be
cut at any access by the other and by a collection.  Capacity below the window
makes the circular buffer overwrite; two threads put `on_send` between the
halves of `on_write`, and pools of one message refill, overwrite and recycle
within four answers.  A buffer of 5 is filled exactly, passed by one byte, left
with a rest in either half, and reached by a request in any number of chunks.
With two connections, two threads and three commands one connection publishes or
asks while the other joins, leaves, subscribes or unsubscribes; the publisher is a
subscriber too, so a walk has a before and an after.  Three
starts allow a dump, a restore beside clients, and a second dump of what was
restored or a crash on top of an older file; a count read as 4 is more than there
are keys.  Four items of different sizes fill
up to four fragments and end on, below and above the limit.

The type invariants of `Metrics`, `Pools`, `Directory`, `Persistence` and `Reports`
document the variables; they hold on the same instances and are not among the
properties of the runs.

Runs that stop are allowed to (`CHECK_DEADLOCK FALSE`): commands and time are
bounded, and a server without clients is idle.

One thread is a deployment of its own (`--threads 0`: `app::serve` starts
`threads_` threads and then runs the context itself, so the default of 1 gives
two).  A property that needs it is not claimed for the default.

### Fairness

* `Storage`: the clock advances, a wait past its deadline completes, and each
  thread keeps executing what it is in or what is queued for it.  asio
  guarantees the first two, `io_context::run` the third.  Clients owe nothing.
* `WriteQueue`: a write completes while the peer accepts it (a fair completion
  or a failure both satisfy it), and queued handlers get a thread.
* `ReadBuffer`: bytes the peer wrote arrive (TCP; a lasting failure closes the
  connection, which the property allows), and a handler that was started runs on.
* `Directory`: a started handler runs on and queued messages are written or
  dropped.  Fairness of `Deliver` is over all connections together; with a
  bounded number of messages that is fairness for each.
* The others have safety properties only.

## 4. Known divergences

Two runs exhibit a disagreement between the code and what a test or comment of
the repository says; `PROJECT.json` quotes the lines.

* `run` ends with `schedule_timer` under `mutex_`; when the next deadline has
  passed meanwhile, the collector locks itself out for good
  (`garbage_collector_service.cpp:145`).
* Two decreases overdraw a counter (`update_service.cpp:43`).

The models show more, which limits what the passing runs claim.

Store:

* SET of a flagged, not yet erased key succeeds and the key stays unreadable
  (`create_service.cpp:62`); `KeyLifecycle` has that outcome.
* A new key arms the timer only if it sorts before an arbitrary unexpired item,
  SET and UPDATE do not arm it, so a key may be served past its expiration until
  a later wake-up; `NeverDormant` and `DrainedOrStuck` show that the wake-up comes,
  but for the next case and the first finding.
* On two threads, an UPDATE or SET that lowers an expiration between the insertion
  of a creation and its comparison (`create_service.cpp:92`, `:109`) makes the
  comparison fail: nothing is armed, and the keys stay for good unless a later
  insertion wakes the collector (`overtaken`).  With one thread it cannot happen
  (`AlwaysAwaited`).
* On two threads, an UPDATE that extends a key between the scan and the marking
  of a pass does not keep it from being flagged (`ExpireOnlyWhenDue` needs one
  thread).

Outgoing queue and pools:

* `on_send` and `on_write` on two threads may both call `write_next` and write an
  answer twice (`connection.ipp:291`; `AnswersInOrder` needs one thread,
  `WrittenIsReserved` excludes overlapping writes).
* Two `on_send` on two threads may both push onto the empty queue, both see two
  messages and both leave the writing to others (`connection.ipp:309-311`): the
  queue stalls until another message finds it (`crossed`; the one exception of
  `NeverStalled`, and none with one thread: `EveryAnswerDelivered`).
* A window above the capacity makes the circular buffer drop answers, on one
  thread too (`AnswersInOrder` needs `WINDOW < CAPACITY`).
* The buffers of entries never return to their pool: `~entry` sets
  `recyclable_`, `recycle` asks for `in_use_` (`entry.cpp:50`).

Connections:

* PUBLISH may send through a connection that is being destroyed
  (`publish_command.cpp:152`); CONNECTION dereferences a second `find` without
  a check, and CONNECTIONS pointers after the mutexes are released.  `Survives`
  needs one thread.
* On two threads a PUBLISH may reach subscriptions of other channels: those entered
  in front of the `_end` it fixed, and, when the node of `_end` is erased, all that
  follow (`publish_command.cpp:48`).  `NoStrangerHears` needs one thread.
* `is_subscribed` scans to the end of the index, so UNSUBSCRIBE may answer
  success to a connection that never subscribed (`IsSubscribed`).
* A request of unknown type or longer than the buffer leaves its connection
  reading into no room, which completes at once, for ever (`connection.ipp:255`);
  `SpinsOnlyOnUnservable` shows that nothing else does.

Persistence:

* `main.cpp:56-67` parses the options and never sets `persistent_`, so persistence
  is reached by the tests only.
* `app::serve` restores before the main thread called `prepares`: the first
  restored key refills a pool without capacity for ever (`RestoreSpins`).
* A start without a file ends with an exception; nothing ever removes a file,
  so after a crash an older dump, or a cut one, is restored; a cut size may
  end the start with an exception (`RestoreThrows`).
* Restored values are zero (`storage_serializer.cpp:216`): the value that was
  read is not the one entered.
* A key inserted between the two walks of a dump makes the count too small, and
  restore drops as many records from the end, untouched keys among them
  (`LossNeedsInsert`: nothing else does).
* Nothing of a start arms the timer for what was restored; the collector comes
  when an insertion wakes it.

Metrics and reports:

* STAT between two stores of a collection reports a minute larger than the
  total (`torn`).
* The inner command of an EVENT is marked for the server and not for the
  connection; the per-minute values of the network metrics are never computed.
* CHANNEL counts the subscriptions and walks them again without a lock: a
  SUBSCRIBE in between writes past the buffer (`OffsetMeetsSize` excludes it).
* Answers to GET, QUERY and LIST point at `ttl_type_` or the key of the entry
  (`commands/query_command.cpp:91`): a SET pipelined behind a GET changes the unit of
  the queued answer, a PURGE or the collector leaves it pointing at freed memory.
  Not modelled, as there is nothing in the code a property could hold it to.

## 5. Proofs

Every invariant and every action property that a passing run checks is also
proved; what remains to TLC is liveness.  All theorems hold for every value of
the constants under the named assumption of each module (bounds are naturals,
durations fit the word, ids are positive, pools are not empty, a header is not
longer than its request, an item fits into a fragment; threads, and the items of a
report, are finitely many where they are counted).  The theorems about one
thread assume `SingleWorker` besides.

* **`Loops`.** Induction in a form the provers can use.  The library states it
  with an operator for the property, which they cannot instantiate;
  `SetInduction` has a set instead (a set with 0 and the successor of each of its
  naturals holds them all), from the least element of the numbers missing.  A
  loop is a function from rounds to values (`IsLoop`): it exists (`LoopExists`), is
  unique (`LoopsAgree`) and one more round goes on where it ended (`LoopGoesOn`).
  Through these lemmas the recursive functions of `Pools` and `Reports` become
  loops, about which an invariant is shown round by round.
* **`StorageProofs`.** `TypeCorrect` and `CollectorIsExclusive` are inductive
  together.  `StoreNeverDormant`, and from it `SingleWorkerAlwaysAwaited`, needs
  `WakeupInv`.  A pass that decides "nothing
  to schedule" must have found the store empty: otherwise its minimum would be the
  candidate of some entry, which is not the sentinel (`AllSchedulable`).  So a
  thread that is about to return without arming the timer is not counted as a
  wake-up, and a store filled behind its back has one of its own: an insertion
  into the empty store leaves a creation that is sure to dispatch whichever item it
  stops at (`AboutToArm`), and an insertion into a non-empty store may rely on the
  wake-up the invariant gives.  A creation loses that certainty only to an
  expiration stored below its own, which is what `overtaken` records, or to an
  entry that a pass flags, and a pass flags before it looks for its next
  deadline.  No other command takes a wake-up away, and a strand task that re-arms
  the timer replaces one wake-up by another.  With one thread nobody runs
  between the two steps of a creation, so `overtaken` stays false.
  `LifecycleImplemented` is the refinement: each action maps to one step of
  `KeyLifecycle` or a stutter under `status`.  `SingleWorkerExpiresOnlyWhenDue` and
  `SingleWorkerKeepsGrace` rest on `PassAccurate`: with one thread no command
  comes between the scan and the sweep, so the lists stay right.
* **`MetricsProofs`, the counter.** `QuotaTypeCorrect`.  `OverdraftIsARace`, for any
  number of threads: the invariant `QuotaInv` adds that what a pending decrease
  found is still there, or that an increase wrapped and left the counter a whole
  `VALUE` below the supply; in both cases the subtraction is covered.
  `SingleWorkerNeverOverdraws` follows because a race needs two threads.
  `QuotaConserved` rests on lemmas about remainders (a remainder is unique, and
  moves with its difference up to a multiple of the width).
* **`MetricsProofs`, the metrics.** `MetricsImplementsQuota`: every step is a step of
  `Quota` or leaves its variables alone, so the theorems above hold of the metrics'
  commands too.  `WritesAreConserved` from `WritesInv` (the collector holds writes
  only between its exchange and its addition), `MinutesAlwaysAddUp` from
  `MinutesInv`; both follow the set of threads between two accesses through
  each step and count it with the theorems about finite sets.
  `StatTornOnlyByCollection` and `InfoTotalsAreCovered` from `LoadInv`: at each step
  of the collector a per-minute value is what the collector has in its hands or
  at most the total, totals never shrink, and what a command has loaded so far
  is covered by what it has still to load.  `CommandsAlwaysAddUp` from
  `CommandsInv`: a sum over the threads exists and moves by one with one summand
  (`SumGrows`, by induction on the size of the set), and each addition moves one
  thread in or out of one of the two sets of commands being marked.
* **`PoolsProofs`, the queue.** `QueueTypeCorrect` and `QueueNeverStalls`: the latter
  for any capacity, window and number of threads, overwrites included; the
  theorem is about who has the duty to start the next write (`Starter`): an
  `on_send` that stands between its push and its test has it while it sees its own
  message only, and loses it to another push alone, which is `crossed`.  With one thread and
  a window below the capacity `SingleWorkerAnswersInOrder` and
  `SingleWorkerKeepsBuffers` from `WriteInv`: the queues hold consecutive answers
  from the first not yet released on (`Numbered`), and one write at most is
  started, in flight or completed, that of the front (`OneWrite`).
* **`PoolsProofs`, the pools.** `PoolsImplementQueue`, and with it `PoolsNeverStall`.
  `QueuedAlwaysReserved`, `WrittenAlwaysReserved` and `PoolsAlwaysDisjoint`, for any
  number of threads and pools of any size, from `PoolInv`: a pool knows only
  messages it made, each once, and the available ones are free (`Owned`, `Apart`);
  answers are queued in the order of their numbers, and no younger answer has the
  message of a queued one (`Ascending`, `Reserved`).  A message that recycle gives
  back has its `in_use_` clear, so it carries none of the queued answers.
* **`ReadBufferProofs`.** `BufferTypeCorrect`, `EveryViewIsItsRequest` and
  `SpinningNeedsUnservable` from one invariant, `ReadInv`: the buffer holds the
  last bytes received, in order (`Contiguous`), the first of them is the first of
  the first request not dispatched (`Framed`), and the requests follow each
  other without gaps (`Chained`).  So `get_message_size` always looks at the
  beginning of a request, which `FirstIsNext` states, and moving the rest keeps
  all three.
* **`DirectoryProofs`, PubSub.** `PubSubTypeCorrect`; `SubscribersAreRegistered` from
  `RegistryInv` (only a connection between `join` and the first half of `leave`
  has subscriptions, and two threads never move the same connection);
  `SingleWorkerSurvives` and `SingleWorkerNoStranger` from `WalkInv` (a destruction in
  progress is that of the only thread, which therefore is not walking, and what
  lies between the place of a walk and its end is of the channel: `OnCourse`);
  `PublishReachesAll` from `HearInv`: serial numbers grow, so a later subscription of
  the channel comes behind those found at the start, the end that was fixed
  comes after all of these (`DueIsHere`), and a walk that kept its place has
  served everything before it.
* **`DirectoryProofs`, Directory.** `DirectoryKeepsSubscribers` and `InfoAlwaysCovers`
  from `DirectoryInv`: `RegistryInv` as before, one INFO at a time and exactly while
  it holds the mutex (`ReaderInv`), and the maps an INFO has passed hold every
  connection with a subscription (`InfoInv`); since the mutex keeps the
  subscriptions as they are, no such connection can have left.
  `DirectoryPublishReachesAll`, `DirectorySingleWorkerNoStranger` and
  `DirectorySingleWorkerSurvives` carry over what holds of `PubSub`; the last needs `KeptInv`: while the only thread answers a
  command nobody leaves, so what it kept of the maps is there to its end.
* **`PersistenceProofs`.** `QuietDumpAlwaysRestores` from `RestoreInv`: in a dump
  that is left alone the records written and the keys still to be written make up
  the count (`DumpCounted`); the file then holds the keys saved and no others
  (`Faithful`, `Complete`); a restore has entered the records before its cursor, apart
  from the keys clients have touched since (`RestoredSoFar`).  `PhantomsNeedARace`
  from `PhantomInv`: each key counted has a record or is live where the walk still
  goes (`Covered`), so that as long as none is missed the file has as many records
  as the count says.  `LossNeedsAnInsert` from `LossInv`: a key that was live all
  through has a record once the walk has passed it (`Kept`), and as long as no key
  is entered there are no more records than were counted, so all are read
  (`ReadSoFar`).
* **`ReportsProofs`.** `ReportsCutInOrder` and `SecondPassMeetsFirst` from `ReportInv`,
  which is the type of the variables, `OffsetMeetsSize`, `WalkInv` and `ChannelInv`.
  `WalkInv`: the fragments closed and the open one, together, are the items met,
  well cut, the size carried along is that of the open fragment, the bytes counted
  are those of the items met (`Partway`), and a walk nobody disturbed has met the
  first of the items (`InStep`).  That the two passes agree is then arithmetic:
  the sum of bytes over the fragments is the sum over their concatenation.

## 6. Only model-checked

Liveness (`DrainedOrStuck`, `EveryAnswerDelivered`, `EveryRequestServed`,
`ClosedLeaves`): fairness and `ENABLED` are out of the prover's reach.

## 7. Plan

1. The restore and the dump within `Storage`, so that the wake-up of a restored
   store is followed by the real collector.
2. The byte counters of connections and subscriptions in `Metrics`.

## 8. Not modelled

* Handler memory (`custom_allocator.hpp`): the slot serves asio's allocations; when
  these are made and freed is the library's business, and a model would
  assume its own answer.
* Time conversion (`time.hpp`): divisions and multiplications without state.
  `get_expiration_point` is `Plus` of `Storage`; that `get_ttl` truncates to the
  width of a value is listed as a hazard.
* Agent and server: accepting, connecting and socket options are I/O; the
  connection that results joins in `PubSub`.  The agent's loop connects once and
  keeps no state.
* GET and QUERY, which change nothing but a count of reads, and what is read through
  the pointers of answers that wait (section 4); WHOAMI, which answers with a
  constant of its connection; the byte counters of the network metrics, marked
  like the metrics of the commands.
* The dispatch of options, formatting and logging have no state to check.
* Third-party code (asio, multi-index, circular_buffer) is modelled only by what
  this code relies on and marked external in the map.
