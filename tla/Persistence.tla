----------------------------- MODULE Persistence ----------------------------
(***************************************************************************)
(* The store across a restart.  At a signal one thread dumps the store to  *)
(* a file and stops the context; at the next start the main thread reads   *)
(* the file back.  The other threads of the pool serve clients meanwhile,  *)
(* in both cases: dump_to_file counts the keys in one walk and writes them *)
(* in another, and restore_from_file enters keys next to clients that do   *)
(* the same.  When the collector wakes up is the matter of Storage: here a *)
(* pass may come at any time.                                              *)
(*                                                                         *)
(* Every restored key takes a buffer from the thread-local pool of the     *)
(* thread that restores.  app::serve restores before boot() prepares that  *)
(* pool, only the tests prepare it first: prepared tells which.            *)
(***************************************************************************)
EXTENDS Integers, Sequences, FiniteSets

CONSTANTS
  Key,         \* keys
  Empty,       \* the zero-length key
  Item,        \* what clients store: a type, a value and an expiration
  Garbled,     \* what a number is read as when the file ends inside it
  MaxCommands, \* bound on the commands of clients
  MaxStarts    \* bound on the number of starts

Type == {"counter", "raw"}

ASSUME PersistenceAssumption ==
  /\ Empty \in Key /\ IsFiniteSet(Key)
  /\ Item \subseteq [type : Type, value : Nat, expires : Nat]
  /\ Garbled \subseteq Nat
  /\ MaxCommands \in Nat /\ MaxStarts \in Nat

VARIABLES
  phase,     \* of the process
  prepared,  \* the restoring thread called buffers_pool::prepares
  store,     \* storage_
  file,      \* the dump file
  todo,      \* keys the walk of the dump has not reached
  cursor,    \* records restored so far
  commands, starts,
  saved,     \* history: the live keys when the last dump began
  quiet,     \* history: the last dump ended and no command ran meanwhile
  dumped,    \* history: the keys that were live at some time of the last dump
  shrunk,    \* history: the last dump missed a key it had counted, or was cut
  kept,      \* history: the keys that were live all through the last dump
  grown,     \* history: a key was entered during the last dump, or it was cut
  touched    \* history: keys clients or the collector changed since the start

vars == <<phase, prepared, store, file, todo, cursor, commands, starts, saved, quiet, dumped, shrunk, kept, grown, touched>>

Entry == [type : Type, value : Nat, expires : Nat, expired : BOOLEAN, origin : {"client", "restored"}]
Absent == [type |-> "none"]

\* cut: the file ends inside the size of the buffer.
Record == [key : Key, type : Type, value : Nat, expires : Nat, cut : BOOLEAN]
NoFile == [count |-> -1, records |-> << >>]

PersistenceTypeOK ==
  /\ phase \in {"down", "restoring", "spinning", "serving", "dumping", "failed"}
  /\ prepared \in BOOLEAN /\ quiet \in BOOLEAN /\ shrunk \in BOOLEAN /\ grown \in BOOLEAN
  /\ store \in [Key -> Entry \cup {Absent}]
  /\ file \in [count : Nat, records : Seq(Record)] \cup {NoFile}
  /\ todo \subseteq Key /\ touched \subseteq Key /\ dumped \subseteq Key /\ kept \subseteq Key
  /\ cursor \in Nat /\ commands \in Nat /\ starts \in Nat
  /\ saved \in [Key -> Entry \cup {Absent}]

\* Neither absent nor flagged.
LiveIn(s, k) == s[k] # Absent /\ ~s[k].expired
Live == {k \in Key : LiveIn(store, k)}

Nothing == [k \in Key |-> Absent]

\* A first start, with no dump file or with that of an empty store.
Init ==
  /\ phase = "down"
  /\ prepared \in BOOLEAN
  /\ store = Nothing
  /\ file \in {NoFile, [count |-> 0, records |-> << >>]}
  /\ todo = {} /\ cursor = 0 /\ commands = 0 /\ starts = 0
  /\ saved = Nothing /\ quiet = TRUE /\ touched = {}
  /\ dumped = {} /\ shrunk = FALSE /\ kept = {} /\ grown = FALSE

-----------------------------------------------------------------------------
(* Start *)

\* restore_from_file opens the file; without one the exception ends the process.
Start ==
  /\ phase = "down" /\ starts < MaxStarts
  /\ starts' = starts + 1
  /\ phase' = IF file = NoFile THEN "failed" ELSE "restoring"
  /\ UNCHANGED <<prepared, store, file, todo, cursor, commands, saved, quiet, dumped, shrunk, kept, grown, touched>>

\* take_one refills a circular_buffer without capacity for ever.
RestoreSpins ==
  /\ phase = "restoring" /\ cursor < file.count /\ ~prepared
  /\ phase' = "spinning"
  /\ UNCHANGED <<prepared, store, file, todo, cursor, commands, starts, saved, quiet, dumped, shrunk, kept, grown, touched>>

\* What reading the record after the last one yields: every byte is zero.
Phantom == [key |-> Empty, type |-> "counter", value |-> 0, expires |-> 0, cut |-> FALSE]

ReadRecord(i) == IF i <= Len(file.records) THEN file.records[i] ELSE Phantom

\* Mutant: the flag and the expiration are made up anew.
EntryOfFresh(r) ==
  [type |-> r.type, value |-> 0, expires |-> 0, expired |-> FALSE, origin |-> "restored"]

\* The entry made of a record: the value that was read is not the one entered.
EntryOf(r) ==
  [type |-> r.type, value |-> 0, expires |-> r.expires, expired |-> FALSE, origin |-> "restored"]

\* One round of the loop; emplace leaves a key that is there already.
RestoreRecord ==
  /\ phase = "restoring" /\ cursor < file.count /\ prepared
  /\ LET r == ReadRecord(cursor + 1)
     IN store' = [store EXCEPT ![r.key] = IF @ = Absent THEN EntryOf(r) ELSE @]
  /\ cursor' = cursor + 1
  /\ UNCHANGED <<phase, prepared, file, todo, commands, starts, saved, quiet, dumped, shrunk, kept, grown, touched>>

\* The process ends, and everything but the file with it.
Stop ==
  /\ phase' = "down"
  /\ store' = Nothing
  /\ todo' = {} /\ cursor' = 0 /\ touched' = {}
  /\ UNCHANGED <<prepared, commands, starts, saved, dumped, kept>>

\* The size of a buffer the file ends in may be more than resize can give: the
\* exception ends the process.
RestoreThrows ==
  /\ phase = "restoring" /\ cursor < file.count /\ prepared
  /\ ReadRecord(cursor + 1).cut
  /\ Stop /\ UNCHANGED <<file, quiet, shrunk, grown>>

\* Mutant: the loop ends one record early.
RestoreEndEarly ==
  /\ phase = "restoring" /\ cursor + 1 >= file.count
  /\ phase' = "serving"
  /\ UNCHANGED <<prepared, store, file, todo, cursor, commands, starts, saved, quiet, dumped, shrunk, kept, grown, touched>>

RestoreEnd ==
  /\ phase = "restoring" /\ cursor = file.count
  /\ phase' = "serving"
  /\ UNCHANGED <<prepared, store, file, todo, cursor, commands, starts, saved, quiet, dumped, shrunk, kept, grown, touched>>

-----------------------------------------------------------------------------
(* Clients and the collector, on the threads of the pool *)

\* A key the dump has counted will not be found where its walk still goes.
Missed ==
  \E k \in todo : saved[k] # Absent /\ (k \notin todo' \/ ~LiveIn(store', k))

\* A step of a client or of the collector that may change k.
Command(k) ==
  /\ phase \in {"restoring", "spinning", "serving", "dumping"}
  /\ commands < MaxCommands
  /\ commands' = commands + 1
  /\ touched' = touched \cup {k}
  /\ quiet' = (quiet /\ phase # "dumping")
  /\ shrunk' = (shrunk \/ Missed)
  /\ kept' = IF phase = "dumping" THEN {j \in kept : LiveIn(store', j)} ELSE kept
  /\ UNCHANGED <<phase, prepared, file, cursor, starts, saved>>

Stored(e) ==
  [type |-> e.type, value |-> e.value, expires |-> e.expires, expired |-> FALSE, origin |-> "client"]

\* INSERT, or SET of a key that is absent.  The new node may make the container
\* rehash, and then a walk that is under way goes on from its place in the new
\* order: what it still reaches may be anything.
Put(k, e) ==
  /\ store[k] = Absent
  /\ store' = [store EXCEPT ![k] = Stored(e)]
  /\ IF phase = "dumping" THEN todo' \in SUBSET Key ELSE UNCHANGED todo
  /\ dumped' = IF phase = "dumping" THEN dumped \cup {k} ELSE dumped
  /\ grown' = (grown \/ phase = "dumping")
  /\ Command(k)

\* UPDATE, or SET of a raw key that is there (SET finds a flagged one too).
Change(k, e) ==
  /\ store[k] # Absent /\ store[k].type = e.type
  /\ store[k].expired => e.type = "raw"
  /\ store' = [store EXCEPT ![k].value = e.value, ![k].expires = e.expires]
  /\ UNCHANGED <<todo, dumped, grown>>
  /\ Command(k)

Purge(k) ==
  /\ k \in Live
  /\ store' = [store EXCEPT ![k] = Absent]
  /\ UNCHANGED <<todo, dumped, grown>>
  /\ Command(k)

\* What a pass of the collector does to a key: it flags it, or erases it when
\* it was flagged.
Collect(k) ==
  /\ store[k] # Absent
  /\ store' = [store EXCEPT ![k] = IF @.expired THEN Absent ELSE [@ EXCEPT !.expired = TRUE]]
  /\ UNCHANGED <<todo, dumped, grown>>
  /\ Command(k)

-----------------------------------------------------------------------------
(* Stop *)

\* Mutant: the first walk counts the flagged keys too.
DumpBeginsCountsAll ==
  /\ phase = "serving"
  /\ phase' = "dumping"
  /\ file' = [count |-> Cardinality({k \in Key : store[k] # Absent}), records |-> << >>]
  /\ todo' = Key
  /\ saved' = [k \in Key |-> IF k \in Live THEN store[k] ELSE Absent]
  /\ quiet' = TRUE /\ dumped' = Live /\ shrunk' = FALSE /\ kept' = Live /\ grown' = FALSE
  /\ UNCHANGED <<prepared, store, cursor, commands, starts, touched>>

\* The signal handler opens the file and counts.
DumpBegins ==
  /\ phase = "serving"
  /\ phase' = "dumping"
  /\ file' = [count |-> Cardinality(Live), records |-> << >>]
  /\ todo' = Key
  /\ saved' = [k \in Key |-> IF k \in Live THEN store[k] ELSE Absent]
  /\ quiet' = TRUE /\ dumped' = Live /\ shrunk' = FALSE /\ kept' = Live /\ grown' = FALSE
  /\ UNCHANGED <<prepared, store, cursor, commands, starts, touched>>

\* What the second walk passes over.
Skipped(k) == ~LiveIn(store, k)

\* The second walk reaches the place of k, in the order of the hashes.
DumpRecord(k) ==
  /\ phase = "dumping" /\ k \in todo
  /\ todo' = todo \ {k}
  /\ file' = IF Skipped(k) THEN file
             ELSE [file EXCEPT !.records = Append(@, [key |-> k, type |-> store[k].type,
                                                      value |-> store[k].value, expires |-> store[k].expires,
                                                      cut |-> FALSE])]
  /\ UNCHANGED <<phase, prepared, store, cursor, commands, starts, saved, quiet, dumped, shrunk, kept, grown, touched>>

\* The context is stopped.
DumpEnds == phase = "dumping" /\ todo = {} /\ Stop /\ UNCHANGED <<file, quiet, shrunk, grown>>

\* The process is killed; the file, which nobody removes, stays as it is.
Crash == phase \in {"restoring", "spinning", "serving"} /\ Stop /\ UNCHANGED <<file, quiet, shrunk, grown>>

\* What may be read of a record the file ends in: read_raw repeats the last
\* byte it got, and what comes after is zero.  The end is inside the key, the
\* expiration, the type or what follows it.
Torn(r) ==
  {[Phantom EXCEPT !.key = k] : k \in Key}
    \cup {[Phantom EXCEPT !.key = r.key, !.expires = e] : e \in Garbled \cup {r.expires}}
    \cup {[r EXCEPT !.cut = c] : c \in {FALSE, r.type = "raw"}}

\* The process is killed during the dump, which truncated the file of the last
\* one: what was flushed is there, up to anywhere in a record or in the count,
\* or not even the rest of the header, and such a file is refused.
CrashDumping ==
  /\ phase = "dumping" /\ Stop
  /\ \/ file' = NoFile
     \/ \E c \in Garbled : file' = [count |-> c, records |-> << >>]
     \/ \E n \in 0 .. Len(file.records) :
          LET rest == {<< >>} \cup (IF n < Len(file.records) THEN {<<r>> : r \in Torn(file.records[n + 1])} ELSE {})
          IN  \E t \in rest : file' = [file EXCEPT !.records = SubSeq(@, 1, n) \o t]
  /\ quiet' = FALSE /\ shrunk' = TRUE /\ grown' = TRUE

Next ==
  \/ Start \/ RestoreSpins \/ RestoreRecord \/ RestoreThrows \/ RestoreEnd
  \/ \E k \in Key : \/ \E e \in Item : Put(k, e) \/ Change(k, e)
                    \/ Purge(k) \/ Collect(k) \/ DumpRecord(k)
  \/ DumpBegins \/ DumpEnds \/ Crash \/ CrashDumping

Spec == Init /\ [][Next]_vars

-----------------------------------------------------------------------------
\* An entry up to its value.
Same(e, f) == e.type = f.type /\ (e # Absent => e.expires = f.expires)

(***************************************************************************)
(* When the last dump ended and the keys were left alone meanwhile, a      *)
(* restart brings back exactly the keys that were live then, with their    *)
(* types and expirations: no key is lost, none is invented, none that was  *)
(* flagged comes back to life.  Keys changed since the start aside.        *)
(***************************************************************************)
QuietDumpRestores ==
  phase = "serving" /\ quiet /\ starts > 1 => \A k \in Key \ touched : Same(store[k], saved[k])

(***************************************************************************)
(* Restore makes up a key, the zero-length one it reads off the end of the *)
(* file, only when the dump was cut short by a crash or its second walk    *)
(* missed a key the first had counted (storage_serializer.cpp:94-105): one *)
(* purged or flagged in between, or moved behind the walk by a rehash.     *)
(* Whatever else clients do meanwhile, a restored key was in the store     *)
(* while the dump was made.                                                *)
(***************************************************************************)
PhantomNeedsRace ==
  phase \in {"restoring", "serving"} /\ ~shrunk =>
    \A k \in Key : store[k] # Absent /\ store[k].origin = "restored" => k \in dumped

(***************************************************************************)
(* A key that stayed live all through the dump is lost over the restart    *)
(* only when the dump was cut short by a crash or another key was entered  *)
(* meanwhile: the new one takes a place among the counted, and the last    *)
(* records are never read (storage_serializer.cpp:100 and :167).  Keys     *)
(* that are updated, purged or collected during the dump cost no other     *)
(* key its place.                                                          *)
(***************************************************************************)
LossNeedsInsert ==
  phase = "serving" /\ ~grown => \A k \in kept \ touched : store[k] # Absent
=============================================================================
