------------------------- MODULE PersistenceProofs --------------------------
(***************************************************************************)
(* Theorems about dump and restore, for every set of keys and items and    *)
(* every number of commands, crashes and starts.                           *)
(***************************************************************************)
EXTENDS Persistence, TLAPS, FiniteSetTheorems

Slot == Entry \cup {Absent}

LEMMA Slots ==
  /\ Absent \in Slot /\ Absent \notin Entry
  /\ \A e \in Slot : e # Absent => e \in Entry
  <1>1. \A e \in Entry : e.type \in {"counter", "raw"}
    BY DEF Entry, Type
  <1>2. Absent.type = "none"
    BY DEF Absent
  <1> QED
    BY <1>1, <1>2 DEF Slot

LEMMA PhantomTyped == Phantom \in Record
  BY PersistenceAssumption DEF Phantom, Record, Type

LEMMA EntryOfTyped ==
  ASSUME NEW r \in Record
  PROVE  EntryOf(r) \in Entry
  BY DEF EntryOf, Record, Entry

LEMMA StoredTyped ==
  ASSUME NEW e \in Item
  PROVE  Stored(e) \in Entry
  BY PersistenceAssumption DEF Stored, Entry

LEMMA ReadTyped ==
  ASSUME PersistenceTypeOK, cursor < file.count
  PROVE  ReadRecord(cursor + 1) \in Record /\ file \in [count : Nat, records : Seq(Record)]
  <1>1. cursor \in Nat
    BY DEF PersistenceTypeOK
  <1>2. file # NoFile
    BY <1>1 DEF NoFile
  <1>3. file \in [count : Nat, records : Seq(Record)]
    BY <1>2 DEF PersistenceTypeOK
  <1>4. file.records \in Seq(Record)
    BY <1>3
  <1>5. cursor + 1 <= Len(file.records) => file.records[cursor + 1] \in Record
    BY <1>1, <1>4
  <1> QED
    BY <1>3, <1>5, PhantomTyped DEF ReadRecord

LEMMA RecordsTyped ==
  ASSUME PersistenceTypeOK
  PROVE  file.records \in Seq(Record)
  <1>1. CASE file = NoFile
    <2>1. file.records = << >>
      BY <1>1 DEF NoFile
    <2> QED
      BY <2>1
  <1>2. CASE file # NoFile
    <2>1. file \in [count : Nat, records : Seq(Record)]
      BY <1>2 DEF PersistenceTypeOK
    <2> QED
      BY <2>1
  <1> QED
    BY <1>1, <1>2

LEMMA KeyOfRecord ==
  ASSUME NEW s \in Seq(Record), NEW i \in DOMAIN s
  PROVE  s[i].key \in Key
  <1>1. s[i] \in Record
    OBVIOUS
  <1> QED
    BY <1>1 DEF Record

LEMMA TornTyped ==
  ASSUME NEW r \in Record
  PROVE  Torn(r) \subseteq Record
  <1> SUFFICES ASSUME NEW t \in Torn(r) PROVE t \in Record
    OBVIOUS
  <1>1. ASSUME NEW k \in Key, t = [Phantom EXCEPT !.key = k] PROVE t \in Record
    BY <1>1, PhantomTyped DEF Record
  <1>2. ASSUME NEW e \in Garbled \cup {r.expires}, t = [Phantom EXCEPT !.key = r.key, !.expires = e]
        PROVE  t \in Record
    BY <1>2, PhantomTyped, PersistenceAssumption DEF Record
  <1>3. ASSUME NEW c \in {FALSE, r.type = "raw"}, t = [r EXCEPT !.cut = c] PROVE t \in Record
    BY <1>3 DEF Record
  <1> QED
    BY <1>1, <1>2, <1>3 DEF Torn

\* The file a crash leaves is a file.
LEMMA CutTyped ==
  ASSUME NEW s \in Seq(Record), NEW n \in 0 .. Len(s),
         NEW t \in {<< >>} \cup (IF n < Len(s) THEN {<<r>> : r \in Torn(s[n + 1])} ELSE {})
  PROVE  SubSeq(s, 1, n) \o t \in Seq(Record)
  <1>1. t \in Seq(Record)
    <2>1. CASE t = << >>
      BY <2>1
    <2>2. CASE t # << >>
      <3>1. n < Len(s) /\ t \in {<<r>> : r \in Torn(s[n + 1])}
        BY <2>2
      <3>2. s[n + 1] \in Record
        BY <3>1
      <3>3. PICK r \in Torn(s[n + 1]) : t = <<r>>
        BY <3>1
      <3>4. r \in Record
        BY <3>2, TornTyped
      <3> QED
        BY <3>3, <3>4
    <2> QED
      BY <2>1, <2>2
  <1>2. SubSeq(s, 1, n) \in Seq(Record)
    <2>1. \A i \in 1 .. n : s[i] \in Record
      OBVIOUS
    <2> QED
      BY <2>1
  <1> QED
    BY <1>1, <1>2

\* A process that runs has found its file.
FileThere == phase \in {"restoring", "spinning", "serving", "dumping"} => file # NoFile

LEMMA TypeInit == Init => PersistenceTypeOK /\ FileThere
  <1> SUFFICES ASSUME Init PROVE PersistenceTypeOK /\ FileThere
    OBVIOUS
  <1>1. file \in [count : Nat, records : Seq(Record)] \cup {NoFile}
    <2>1. [count |-> 0, records |-> << >>] \in [count : Nat, records : Seq(Record)]
      OBVIOUS
    <2> QED
      BY <2>1 DEF Init
  <1> QED
    BY <1>1 DEF Init, PersistenceTypeOK, FileThere, Nothing

LEMMA StopTyped ==
  ASSUME PersistenceTypeOK, Stop, file' \in [count : Nat, records : Seq(Record)] \cup {NoFile},
         quiet' \in BOOLEAN, shrunk' \in BOOLEAN, grown' \in BOOLEAN
  PROVE  PersistenceTypeOK'
  BY DEF PersistenceTypeOK, Stop, Nothing

\* A command changes one key.
LEMMA CommandTyped ==
  ASSUME PersistenceTypeOK, NEW k \in Key, Command(k), NEW e \in Slot,
         store' = [store EXCEPT ![k] = e], todo' \subseteq Key, dumped' \subseteq Key,
         grown' \in BOOLEAN
  PROVE  PersistenceTypeOK'
  <1>1. store' \in [Key -> Entry \cup {Absent}]
    BY DEF PersistenceTypeOK, Slot
  <1>2. /\ UNCHANGED <<phase, prepared, file, cursor, starts, saved>>
        /\ commands' = commands + 1 /\ touched' = touched \cup {k}
        /\ quiet' = (quiet /\ phase # "dumping") /\ shrunk' = (shrunk \/ Missed)
        /\ kept' \subseteq kept
    BY DEF Command
  <1>3. quiet' \in BOOLEAN /\ shrunk' \in BOOLEAN
    BY <1>2, Zenon
  <1> QED
    BY <1>1, <1>2, <1>3 DEF PersistenceTypeOK

LEMMA ChangedTyped ==
  ASSUME PersistenceTypeOK, NEW k \in Key, NEW e \in Item, Change(k, e)
  PROVE  \E f \in Entry : /\ store' = [store EXCEPT ![k] = f]
                          /\ f.origin = store[k].origin
  <1>1. store[k] \in Entry
    BY Slots DEF PersistenceTypeOK, Change, Slot
  <1>2. e.value \in Nat /\ e.expires \in Nat
    BY PersistenceAssumption
  <1> DEFINE f == [store[k] EXCEPT !.value = e.value, !.expires = e.expires]
  <1>3. f \in Entry /\ f.origin = store[k].origin
    BY <1>1, <1>2 DEF Entry
  <1>4. store' = [store EXCEPT ![k] = f]
    BY DEF Change, PersistenceTypeOK
  <1> QED
    BY <1>3, <1>4

LEMMA CollectedTyped ==
  ASSUME PersistenceTypeOK, NEW k \in Key, Collect(k)
  PROVE  \E f \in Slot : /\ store' = [store EXCEPT ![k] = f]
                         /\ f # Absent => f.origin = store[k].origin
  <1>1. store[k] \in Entry
    BY Slots DEF PersistenceTypeOK, Collect, Slot
  <1> DEFINE f == IF store[k].expired THEN Absent ELSE [store[k] EXCEPT !.expired = TRUE]
  <1>2. f \in Slot /\ (f # Absent => f.origin = store[k].origin)
    BY <1>1, Slots DEF Entry, Slot
  <1>3. store' = [store EXCEPT ![k] = f]
    BY DEF Collect, PersistenceTypeOK
  <1> QED
    BY <1>2, <1>3

\* Files are told from their absence by the count.
LEMMA FileShape ==
  ASSUME NEW f, f \in [count : Nat, records : Seq(Record)] \cup {NoFile}
  PROVE  /\ f # NoFile => f \in [count : Nat, records : Seq(Record)]
         /\ f \in [count : Nat, records : Seq(Record)] => f # NoFile
  <1>1. \A g \in [count : Nat, records : Seq(Record)] : g.count \in Nat
    OBVIOUS
  <1>2. NoFile.count = -1
    BY DEF NoFile
  <1> QED
    BY <1>1, <1>2

LEMMA DumpRecordFile ==
  ASSUME PersistenceTypeOK, FileThere, NEW k \in Key, DumpRecord(k)
  PROVE  /\ file \in [count : Nat, records : Seq(Record)]
         /\ file' \in [count : Nat, records : Seq(Record)]
         /\ Skipped(k) => file' = file
         /\ ~Skipped(k) => \E r \in Record : /\ r.key = k /\ r.type = store[k].type /\ r.expires = store[k].expires
                                             /\ file'.count = file.count
                                             /\ file'.records = Append(file.records, r)
  <1>1. file \in [count : Nat, records : Seq(Record)]
    BY FileShape DEF DumpRecord, FileThere, PersistenceTypeOK
  <1>2. CASE Skipped(k)
    BY <1>1, <1>2 DEF DumpRecord
  <1>3. CASE ~Skipped(k)
    <2> DEFINE r == [key |-> k, type |-> store[k].type, value |-> store[k].value, expires |-> store[k].expires,
                   cut |-> FALSE]
    <2>1. store[k] \in Entry
      BY <1>3, Slots DEF Skipped, LiveIn, PersistenceTypeOK, Slot
    <2>2. r \in Record /\ r.key = k /\ r.type = store[k].type /\ r.expires = store[k].expires
      BY <2>1 DEF Entry, Record
    <2>3. file' = [file EXCEPT !.records = Append(@, r)]
      BY <1>3 DEF DumpRecord
    <2> HIDE DEF r
    <2>4. Append(file.records, r) \in Seq(Record)
      BY <1>1, <2>2
    <2>5. /\ file' \in [count : Nat, records : Seq(Record)]
          /\ file'.count = file.count /\ file'.records = Append(file.records, r)
      BY <1>1, <2>3, <2>4
    <2> QED
      BY <1>1, <1>3, <2>2, <2>5
  <1> QED
    BY <1>2, <1>3

LEMMA TypeStep ==
  PersistenceTypeOK /\ FileThere /\ [Next]_vars => PersistenceTypeOK' /\ FileThere'
  <1> SUFFICES ASSUME PersistenceTypeOK, FileThere, [Next]_vars PROVE PersistenceTypeOK' /\ FileThere'
    OBVIOUS
  <1>1. CASE Start
    BY <1>1 DEF Start, PersistenceTypeOK, FileThere
  <1>2. CASE RestoreSpins
    BY <1>2 DEF RestoreSpins, PersistenceTypeOK, FileThere
  <1>3. CASE RestoreRecord
    <2>1. ReadRecord(cursor + 1) \in Record
      BY <1>3, ReadTyped DEF RestoreRecord
    <2>2. ReadRecord(cursor + 1).key \in Key /\ EntryOf(ReadRecord(cursor + 1)) \in Entry
      BY <2>1, EntryOfTyped DEF Record
    <2> QED
      BY <1>3, <2>2 DEF RestoreRecord, PersistenceTypeOK, FileThere
  <1>4. CASE RestoreEnd
    BY <1>4 DEF RestoreEnd, PersistenceTypeOK, FileThere
  <1>5. ASSUME NEW k \in Key, NEW e \in Item, Put(k, e)
        PROVE  PersistenceTypeOK' /\ FileThere'
    <2>1. Stored(e) \in Slot /\ Command(k) /\ store' = [store EXCEPT ![k] = Stored(e)]
      BY <1>5, StoredTyped DEF Put, Slot
    <2>2. todo' \subseteq Key /\ dumped' \subseteq Key
      BY <1>5 DEF Put, PersistenceTypeOK
    <2>3. grown' \in BOOLEAN
      BY <1>5, Zenon DEF Put
    <2> QED
      BY <2>1, <2>2, <2>3, CommandTyped DEF Command, FileThere
  <1>6. ASSUME NEW k \in Key, NEW e \in Item, Change(k, e)
        PROVE  PersistenceTypeOK' /\ FileThere'
    <2>1. PICK f \in Entry : store' = [store EXCEPT ![k] = f]
      BY <1>6, ChangedTyped
    <2>2. Command(k) /\ todo' \subseteq Key /\ dumped' \subseteq Key /\ grown' \in BOOLEAN
      BY <1>6 DEF Change, PersistenceTypeOK
    <2> QED
      BY <2>1, <2>2, CommandTyped DEF Slot, Command, FileThere
  <1>7. ASSUME NEW k \in Key, Purge(k)
        PROVE  PersistenceTypeOK' /\ FileThere'
    <2>1. Command(k) /\ todo' \subseteq Key /\ dumped' \subseteq Key /\ grown' \in BOOLEAN /\ store' = [store EXCEPT ![k] = Absent]
      BY <1>7 DEF Purge, PersistenceTypeOK
    <2> QED
      BY <2>1, CommandTyped DEF Slot, Command, FileThere
  <1>8. ASSUME NEW k \in Key, Collect(k)
        PROVE  PersistenceTypeOK' /\ FileThere'
    <2>1. PICK f \in Slot : store' = [store EXCEPT ![k] = f]
      BY <1>8, CollectedTyped
    <2>2. Command(k) /\ todo' \subseteq Key /\ dumped' \subseteq Key /\ grown' \in BOOLEAN
      BY <1>8 DEF Collect, PersistenceTypeOK
    <2> QED
      BY <2>1, <2>2, CommandTyped DEF Command, FileThere
  <1>9. ASSUME NEW k \in Key, DumpRecord(k)
        PROVE  PersistenceTypeOK' /\ FileThere'
    <2>1. file' \in [count : Nat, records : Seq(Record)]
      BY <1>9, DumpRecordFile
    <2>2. file' # NoFile
      BY <2>1, FileShape
    <2> QED
      BY <1>9, <2>1, <2>2 DEF DumpRecord, PersistenceTypeOK, FileThere
  <1>10. CASE DumpBegins
    <2>1. Live \in SUBSET Key /\ IsFiniteSet(Live)
      BY PersistenceAssumption, FS_Subset DEF Live
    <2>2. Cardinality(Live) \in Nat
      BY <2>1, FS_CardinalityType
    <2>3. << >> \in Seq(Record)
      OBVIOUS
    <2>4. file' \in [count : Nat, records : Seq(Record)]
      BY <1>10, <2>2, <2>3 DEF DumpBegins
    <2>5. file' # NoFile
      BY <2>4, FileShape
    <2>6. saved' \in [Key -> Entry \cup {Absent}]
      BY <1>10 DEF DumpBegins, PersistenceTypeOK
    <2> QED
      BY <1>10, <2>1, <2>4, <2>5, <2>6 DEF DumpBegins, PersistenceTypeOK, FileThere
  <1>11. CASE DumpEnds \/ Crash \/ RestoreThrows
    <2>1. Stop /\ UNCHANGED <<file, quiet, shrunk, grown>>
      BY <1>11 DEF DumpEnds, Crash, RestoreThrows
    <2>2. PersistenceTypeOK'
      BY <2>1, StopTyped DEF PersistenceTypeOK
    <2> QED
      BY <2>1, <2>2 DEF Stop, FileThere
  <1>12. CASE CrashDumping
    <2>1. Stop /\ quiet' \in BOOLEAN /\ shrunk' \in BOOLEAN /\ grown' \in BOOLEAN
      BY <1>12 DEF CrashDumping
    <2>2. file \in [count : Nat, records : Seq(Record)]
      BY <1>12, FileShape DEF CrashDumping, FileThere, PersistenceTypeOK
    <2>c. ASSUME NEW c \in Garbled, file' = [count |-> c, records |-> << >>]
          PROVE  file' \in [count : Nat, records : Seq(Record)]
      <3>1. c \in Nat /\ << >> \in Seq(Record)
        BY PersistenceAssumption
      <3> QED
        BY <2>c, <3>1
    <2>3. ASSUME file' # NoFile, ~\E c \in Garbled : file' = [count |-> c, records |-> << >>]
          PROVE  file' \in [count : Nat, records : Seq(Record)]
      <3>1. PICK n \in 0 .. Len(file.records) :
              LET rest == {<< >>} \cup (IF n < Len(file.records) THEN {<<r>> : r \in Torn(file.records[n + 1])} ELSE {})
              IN  \E t \in rest : file' = [file EXCEPT !.records = SubSeq(@, 1, n) \o t]
        BY <1>12, <2>3 DEF CrashDumping
      <3>2. PICK t \in {<< >>} \cup (IF n < Len(file.records) THEN {<<r>> : r \in Torn(file.records[n + 1])} ELSE {}) :
              file' = [file EXCEPT !.records = SubSeq(@, 1, n) \o t]
        BY <3>1
      <3>3. file.records \in Seq(Record)
        BY <2>2
      <3>4. SubSeq(file.records, 1, n) \o t \in Seq(Record)
        BY <3>3, CutTyped
      <3> QED
        BY <2>2, <3>2, <3>4
    <2>4. PersistenceTypeOK'
      BY <2>1, <2>c, <2>3, StopTyped
    <2> QED
      BY <2>1, <2>4 DEF Stop, FileThere
  <1>13. CASE UNCHANGED vars
    BY <1>13 DEF vars, PersistenceTypeOK, FileThere
  <1> QED
    BY <1>1, <1>2, <1>3, <1>4, <1>5, <1>6, <1>7, <1>8, <1>9, <1>10, <1>11, <1>12, <1>13 DEF Next

-----------------------------------------------------------------------------
\* What the file of an undisturbed dump holds, as far as the dump has come:
\* every record is that of a saved key, and every saved key has one.
Faithful ==
  \A i \in DOMAIN file.records :
    LET r == file.records[i]
    IN saved[r.key] # Absent /\ r.type = saved[r.key].type /\ r.expires = saved[r.key].expires

Complete ==
  \A k \in Key \ todo : saved[k] # Absent => \E i \in DOMAIN file.records : file.records[i].key = k

\* The dump has written one record per live key it has passed.
DumpCounted ==
  /\ file.count = Cardinality(Live)
  /\ Len(file.records) = Cardinality(Live \ todo)
  /\ saved = [k \in Key |-> IF k \in Live THEN store[k] ELSE Absent]

\* What a restore has entered so far, for keys nobody else has touched.
RestoredSoFar ==
  /\ cursor <= Len(file.records)
  /\ \A k \in Key \ touched : store[k] # Absent => saved[k] # Absent /\ Same(store[k], saved[k])
  /\ \A i \in 1 .. cursor : file.records[i].key \notin touched => store[file.records[i].key] # Absent

\* The inductive invariant behind QuietDumpRestores.
RestoreInv ==
  /\ phase \in {"down", "failed"} => store = Nothing /\ cursor = 0 /\ touched = {}
  /\ phase # "dumping" => todo = {}
  /\ quiet => Faithful /\ Complete
  /\ quiet /\ phase = "dumping" => DumpCounted
  /\ quiet /\ phase # "dumping" => file = NoFile \/ file.count = Len(file.records)
  /\ quiet /\ phase \in {"restoring", "serving"} => RestoredSoFar
  /\ quiet /\ phase = "serving" => cursor = Len(file.records)

LEMMA StartRestores ==
  ASSUME PersistenceTypeOK, RestoreInv, Start
  PROVE  RestoreInv'
  <1>1. store = Nothing /\ cursor = 0 /\ touched = {} /\ todo = {} /\ phase = "down"
    BY DEF Start, RestoreInv
  <1>2. UNCHANGED <<store, file, todo, cursor, saved, quiet, touched>>
    BY DEF Start
  <1>3. phase' = (IF file = NoFile THEN "failed" ELSE "restoring")
    BY DEF Start
  <1>4. quiet' => Faithful' /\ Complete'
    BY <1>2 DEF RestoreInv, Faithful, Complete
  <1>5. quiet => file = NoFile \/ file.count = Len(file.records)
    BY <1>1 DEF RestoreInv
  <1>6. RestoredSoFar'
    <2>1. cursor' <= Len(file'.records)
      <3>1. file.records \in Seq(Record)
        BY RecordsTyped
      <3>2. Len(file.records) \in Nat
        BY <3>1
      <3> QED
        BY <1>1, <1>2, <3>2
    <2> QED
      BY <1>1, <1>2, <2>1 DEF RestoredSoFar, Nothing
  <1> QED
    BY <1>1, <1>2, <1>3, <1>4, <1>5, <1>6 DEF RestoreInv

\* An entry made of a faithful record is the saved one up to its value.
LEMMA RestoredSame ==
  ASSUME NEW r \in Record, NEW e \in Entry, r.type = e.type, r.expires = e.expires
  PROVE  Same(EntryOf(r), e) /\ EntryOf(r) # Absent
  <1>1. EntryOf(r) \in Entry
    BY EntryOfTyped
  <1> QED
    BY <1>1, Slots DEF Same, EntryOf

LEMMA RecordRestores ==
  ASSUME PersistenceTypeOK, FileThere, RestoreInv, RestoreRecord
  PROVE  RestoreInv'
  <1>0. /\ phase = "restoring" /\ cursor < file.count /\ cursor' = cursor + 1
        /\ UNCHANGED <<phase, file, todo, saved, quiet, touched>>
    BY DEF RestoreRecord
  <1>1. quiet' => Faithful' /\ Complete'
    BY <1>0 DEF RestoreInv, Faithful, Complete
  <1>2. ASSUME quiet
        PROVE  RestoredSoFar'
    <2> DEFINE s == file.records
               r == ReadRecord(cursor + 1)
    <2>1. file \in [count : Nat, records : Seq(Record)] /\ file # NoFile /\ r \in Record
      BY <1>0, ReadTyped DEF FileThere
    <2>2. s \in Seq(Record) /\ Len(s) \in Nat /\ file.count = Len(s) /\ cursor \in Nat
      BY <1>0, <1>2, <2>1 DEF RestoreInv, PersistenceTypeOK
    <2>3. cursor + 1 \in DOMAIN s /\ r = s[cursor + 1]
      BY <1>0, <2>2 DEF ReadRecord
    <2>4. r.key \in Key /\ saved[r.key] # Absent /\ r.type = saved[r.key].type /\ r.expires = saved[r.key].expires
      BY <1>2, <2>1, <2>3 DEF RestoreInv, Faithful, Record
    <2>5. saved[r.key] \in Entry
      BY <2>4, Slots DEF PersistenceTypeOK, Slot
    <2>6. Same(EntryOf(r), saved[r.key]) /\ EntryOf(r) # Absent
      BY <2>1, <2>4, <2>5, RestoredSame
    <2>7. store' = [store EXCEPT ![r.key] = IF @ = Absent THEN EntryOf(r) ELSE @]
      BY DEF RestoreRecord
    <2>8. RestoredSoFar
      BY <1>0, <1>2 DEF RestoreInv
    <2> HIDE DEF r, s
    <2>9. /\ store'[r.key] # Absent
          /\ store'[r.key] = store[r.key] \/ store'[r.key] = EntryOf(r)
          /\ \A k \in Key \ {r.key} : store'[k] = store[k]
      BY <2>4, <2>6, <2>7 DEF PersistenceTypeOK
    <2>10. cursor' <= Len(file'.records)
      BY <1>0, <2>2 DEF s
    <2>11. ASSUME NEW k \in Key \ touched', store'[k] # Absent
           PROVE  saved'[k] # Absent /\ Same(store'[k], saved'[k])
      BY <1>0, <2>4, <2>6, <2>8, <2>9, <2>11 DEF RestoredSoFar
    <2>12. ASSUME NEW i \in 1 .. cursor', file'.records[i].key \notin touched'
           PROVE  store'[file'.records[i].key] # Absent
      <3>1. CASE i = cursor + 1
        BY <1>0, <2>3, <2>9, <3>1 DEF s
      <3>2. CASE i # cursor + 1
        <4>1. i \in 1 .. cursor /\ i \in DOMAIN s
          BY <1>0, <2>2, <2>3, <2>12, <3>2
        <4>2. s[i].key \in Key
          BY <2>2, <4>1, KeyOfRecord
        <4>3. store[s[i].key] # Absent
          BY <1>0, <2>8, <2>12, <4>1 DEF RestoredSoFar, s
        <4> QED
          BY <1>0, <2>9, <4>2, <4>3 DEF s
      <3> QED
        BY <3>1, <3>2
    <2> QED
      BY <2>10, <2>11, <2>12 DEF RestoredSoFar
  <1> QED
    BY <1>0, <1>1, <1>2 DEF RestoreInv

LEMMA EndRestores ==
  ASSUME FileThere, RestoreInv, RestoreEnd
  PROVE  RestoreInv'
  <1>1. UNCHANGED <<store, file, todo, cursor, saved, quiet, touched>> /\ phase = "restoring" /\ phase' = "serving"
    BY DEF RestoreEnd
  <1>2. quiet => cursor = Len(file.records)
    BY <1>1 DEF RestoreEnd, RestoreInv, FileThere
  <1>3. (quiet' => Faithful' /\ Complete') /\ (quiet' => RestoredSoFar')
    BY <1>1 DEF RestoreInv, Faithful, Complete, RestoredSoFar
  <1> QED
    BY <1>1, <1>2, <1>3 DEF RestoreInv

\* A command puts f in the place of k.
LEMMA CommandRestores ==
  ASSUME PersistenceTypeOK, RestoreInv, NEW k \in Key, Command(k), NEW f \in Slot,
         store' = [store EXCEPT ![k] = f],
         phase # "dumping" => UNCHANGED todo
  PROVE  RestoreInv'
  <1>1. /\ phase \in {"restoring", "spinning", "serving", "dumping"}
        /\ UNCHANGED <<phase, file, cursor, saved>>
        /\ touched' = touched \cup {k} /\ quiet' = (quiet /\ phase # "dumping")
    BY DEF Command
  <1>2. quiet' => Faithful' /\ Complete'
    BY <1>1 DEF RestoreInv, Faithful, Complete
  <1>3. store'[k] = f /\ \A j \in Key \ {k} : store'[j] = store[j]
    BY DEF PersistenceTypeOK
  <1>4. ASSUME quiet', phase \in {"restoring", "serving"}
        PROVE  RestoredSoFar'
    <2>1. RestoredSoFar
      BY <1>1, <1>4 DEF RestoreInv
    <2>2. \A j \in Key \ touched' : store'[j] # Absent => saved'[j] # Absent /\ Same(store'[j], saved'[j])
      BY <1>1, <1>3, <2>1 DEF RestoredSoFar
    <2>3. ASSUME NEW i \in 1 .. cursor', file'.records[i].key \notin touched'
          PROVE  store'[file'.records[i].key] # Absent
      <3>1. file.records \in Seq(Record) /\ cursor \in Nat /\ cursor <= Len(file.records)
        BY <2>1, RecordsTyped DEF RestoredSoFar, PersistenceTypeOK
      <3>2. i \in DOMAIN file.records
        BY <1>1, <3>1
      <3>3. file.records[i].key \in Key
        BY <3>1, <3>2, KeyOfRecord
      <3> QED
        BY <1>1, <1>3, <2>1, <2>3, <3>3 DEF RestoredSoFar
    <2> QED
      BY <1>1, <2>1, <2>2, <2>3 DEF RestoredSoFar
  <1> QED
    BY <1>1, <1>2, <1>4 DEF RestoreInv

LEMMA DumpBeginsRestores ==
  ASSUME RestoreInv, DumpBegins
  PROVE  RestoreInv'
  <1>1. /\ phase' = "dumping" /\ todo' = Key /\ UNCHANGED store
        /\ file' = [count |-> Cardinality(Live), records |-> << >>]
        /\ saved' = [k \in Key |-> IF k \in Live THEN store[k] ELSE Absent]
    BY DEF DumpBegins
  <1>2. Live' = Live /\ Live \ Key = {}
    BY <1>1 DEF Live, LiveIn
  <1>3. file'.records = << >> /\ file'.count = Cardinality(Live) /\ Len(file'.records) = 0
    BY <1>1
  <1>4. Cardinality({}) = 0
    BY FS_EmptySet
  <1>5. DumpCounted'
    BY <1>1, <1>2, <1>3, <1>4 DEF DumpCounted
  <1>6. Faithful' /\ Complete'
    BY <1>1, <1>3 DEF Faithful, Complete
  <1> QED
    BY <1>1, <1>5, <1>6 DEF RestoreInv

LEMMA DumpRecordRestores ==
  ASSUME PersistenceTypeOK, FileThere, RestoreInv, NEW k \in Key, DumpRecord(k)
  PROVE  RestoreInv'
  <1>1. /\ phase = "dumping" /\ k \in todo /\ todo' = todo \ {k}
        /\ UNCHANGED <<phase, store, saved, quiet>>
    BY DEF DumpRecord
  <1>2. ASSUME quiet
        PROVE  Faithful' /\ Complete' /\ DumpCounted'
    <2>1. Faithful /\ Complete /\ DumpCounted
      BY <1>1, <1>2 DEF RestoreInv
    <2>2. file.records \in Seq(Record) /\ Live' = Live
      BY <1>1, DumpRecordFile DEF Live, LiveIn
    <2>3. CASE Skipped(k)
      <3>1. file' = file /\ k \notin Live
        BY <2>3, DumpRecordFile DEF Skipped, Live
      <3>2. saved[k] = Absent /\ Live \ todo' = Live \ todo
        BY <1>1, <2>1, <3>1 DEF DumpCounted
      <3>3. Faithful'
        BY <1>1, <2>1, <3>1 DEF Faithful
      <3>4. Complete'
        BY <1>1, <2>1, <3>1, <3>2 DEF Complete
      <3>5. DumpCounted'
        BY <1>1, <2>1, <2>2, <3>1, <3>2 DEF DumpCounted
      <3> QED
        BY <3>3, <3>4, <3>5
    <2>4. CASE ~Skipped(k)
      <3>1. PICK r \in Record : /\ r.key = k /\ r.type = store[k].type /\ r.expires = store[k].expires
                                /\ file'.count = file.count /\ file'.records = Append(file.records, r)
        BY <2>4, DumpRecordFile
      <3>2. k \in Live /\ store[k] # Absent
        BY <2>4 DEF Skipped, Live, LiveIn
      <3>3. saved[k] = store[k]
        BY <2>1, <3>2 DEF DumpCounted
      <3>4. /\ Len(file.records) \in Nat /\ Len(file'.records) = Len(file.records) + 1
            /\ file'.records[Len(file.records) + 1] = r
            /\ \A i \in DOMAIN file.records : i \in DOMAIN file'.records /\ file'.records[i] = file.records[i]
            /\ \A i \in DOMAIN file'.records : i \in DOMAIN file.records \/ i = Len(file.records) + 1
            /\ Len(file.records) + 1 \in DOMAIN file'.records
        BY <2>2, <3>1
      <3>5. Faithful'
        <4> SUFFICES ASSUME NEW i \in DOMAIN file'.records
                     PROVE  LET q == file'.records[i]
                            IN saved'[q.key] # Absent /\ q.type = saved'[q.key].type /\ q.expires = saved'[q.key].expires
          BY DEF Faithful
        <4>1. CASE i \in DOMAIN file.records
          BY <1>1, <2>1, <3>4, <4>1 DEF Faithful
        <4>2. CASE i = Len(file.records) + 1
          BY <1>1, <3>1, <3>2, <3>3, <3>4, <4>2
        <4> QED
          BY <3>4, <4>1, <4>2
      <3>6. Complete'
        <4> SUFFICES ASSUME NEW j \in Key \ todo', saved'[j] # Absent
                     PROVE  \E i \in DOMAIN file'.records : file'.records[i].key = j
          BY DEF Complete
        <4>1. CASE j = k
          BY <3>1, <3>4, <4>1
        <4>2. CASE j # k
          <5>1. PICK i \in DOMAIN file.records : file.records[i].key = j
            BY <1>1, <2>1, <4>2 DEF Complete
          <5> QED
            BY <3>4, <5>1
        <4> QED
          BY <4>1, <4>2
      <3>7. Cardinality(Live \ todo') = Cardinality(Live \ todo) + 1
        <4>1. Live \ todo' = (Live \ todo) \cup {k} /\ k \notin Live \ todo
          BY <1>1, <3>2
        <4>2. IsFiniteSet(Live \ todo)
          <5>1. (Live \ todo) \in SUBSET Key
            BY DEF Live
          <5> QED
            BY <5>1, PersistenceAssumption, FS_Subset
        <4> QED
          BY <4>1, <4>2, FS_AddElement
      <3>8. DumpCounted'
        BY <1>1, <2>1, <2>2, <3>1, <3>4, <3>7 DEF DumpCounted
      <3> QED
        BY <3>5, <3>6, <3>8
    <2> QED
      BY <2>3, <2>4
  <1> QED
    BY <1>1, <1>2 DEF RestoreInv

LEMMA StopRestores ==
  ASSUME RestoreInv, DumpEnds \/ Crash \/ CrashDumping \/ RestoreThrows
  PROVE  RestoreInv'
  <1>1. phase' = "down" /\ store' = Nothing /\ todo' = {} /\ cursor' = 0 /\ touched' = {} /\ saved' = saved
    BY DEF DumpEnds, Crash, CrashDumping, RestoreThrows, Stop
  <1>2. CASE CrashDumping
    BY <1>1, <1>2 DEF CrashDumping, RestoreInv
  <1>3. CASE DumpEnds \/ Crash \/ RestoreThrows
    <2>1. UNCHANGED <<file, quiet>> /\ todo = {}
      BY <1>3 DEF DumpEnds, Crash, RestoreThrows, RestoreInv
    <2>2. quiet' => Faithful' /\ Complete'
      BY <1>1, <2>1 DEF RestoreInv, Faithful, Complete
    <2>3. quiet => file = NoFile \/ file.count = Len(file.records)
      <3>1. Live \ {} = Live
        OBVIOUS
      <3>2. quiet /\ phase = "dumping" => file.count = Len(file.records)
        BY <2>1, <3>1 DEF RestoreInv, DumpCounted
      <3> QED
        BY <3>2 DEF RestoreInv
    <2> QED
      BY <1>1, <2>1, <2>2, <2>3 DEF RestoreInv
  <1> QED
    BY <1>2, <1>3

LEMMA RestoreStep ==
  PersistenceTypeOK /\ FileThere /\ RestoreInv /\ [Next]_vars => RestoreInv'
  <1> SUFFICES ASSUME PersistenceTypeOK, FileThere, RestoreInv, [Next]_vars
               PROVE  RestoreInv'
    OBVIOUS
  <1>1. CASE RestoreSpins
    BY <1>1 DEF RestoreSpins, RestoreInv, Faithful, Complete
  <1>2. ASSUME NEW k \in Key, NEW e \in Item, Put(k, e)
        PROVE  RestoreInv'
    <2>1. Stored(e) \in Slot
      BY StoredTyped DEF Slot
    <2>2. Command(k) /\ store' = [store EXCEPT ![k] = Stored(e)] /\ (phase # "dumping" => UNCHANGED todo)
      BY <1>2 DEF Put
    <2> QED
      BY <2>1, <2>2, CommandRestores
  <1>3. ASSUME NEW k \in Key, NEW e \in Item, Change(k, e)
        PROVE  RestoreInv'
    <2>1. PICK f \in Entry : store' = [store EXCEPT ![k] = f]
      BY <1>3, ChangedTyped
    <2>2. Command(k) /\ UNCHANGED todo /\ f \in Slot
      BY <1>3 DEF Change, Slot
    <2> QED
      BY <2>1, <2>2, CommandRestores
  <1>4. ASSUME NEW k \in Key, Purge(k)
        PROVE  RestoreInv'
    BY <1>4, CommandRestores, Slots DEF Purge
  <1>5. ASSUME NEW k \in Key, Collect(k)
        PROVE  RestoreInv'
    <2>1. PICK f \in Slot : store' = [store EXCEPT ![k] = f]
      BY <1>5, CollectedTyped
    <2>2. Command(k) /\ UNCHANGED todo
      BY <1>5 DEF Collect
    <2> QED
      BY <2>1, <2>2, CommandRestores
  <1>6. CASE UNCHANGED vars
    BY <1>6 DEF vars, RestoreInv, Faithful, Complete, DumpCounted, RestoredSoFar, Live, LiveIn
  <1> QED
    BY <1>1, <1>2, <1>3, <1>4, <1>5, <1>6, StartRestores, RecordRestores, EndRestores,
       DumpBeginsRestores, DumpRecordRestores, StopRestores DEF Next

LEMMA RestoreInvInit == Init => RestoreInv
  <1> SUFFICES ASSUME Init PROVE RestoreInv
    OBVIOUS
  <1>1. file.records = << >> /\ (file = NoFile \/ file.count = 0) /\ Len(file.records) = 0
    BY DEF Init, NoFile
  <1>2. Faithful /\ Complete
    BY <1>1 DEF Init, Faithful, Complete, Nothing
  <1> QED
    BY <1>1, <1>2 DEF Init, RestoreInv

(***************************************************************************)
(* For any keys, items, commands and crashes: when the last dump ended     *)
(* undisturbed, a restart brings back exactly the keys that were live      *)
(* then, with their types and expirations, but for those changed since:    *)
(* the two walks of dump_to_file and the loop of restore_from_file agree   *)
(* (storage_serializer.cpp:94-127 and :162-216).                           *)
(***************************************************************************)
THEOREM QuietDumpAlwaysRestores == Spec => []QuietDumpRestores
  <1>1. PersistenceTypeOK /\ RestoreInv => QuietDumpRestores
    <2> SUFFICES ASSUME PersistenceTypeOK, RestoreInv, phase = "serving", quiet, NEW k \in Key \ touched
                 PROVE  Same(store[k], saved[k])
      BY DEF QuietDumpRestores
    <2>1. RestoredSoFar /\ Complete /\ todo = {} /\ cursor = Len(file.records)
      BY DEF RestoreInv
    <2>2. CASE store[k] # Absent
      BY <2>1, <2>2 DEF RestoredSoFar
    <2>3. CASE store[k] = Absent
      <3>1. saved[k] = Absent
        <4> SUFFICES ASSUME saved[k] # Absent PROVE FALSE
          OBVIOUS
        <4>1. PICK i \in DOMAIN file.records : file.records[i].key = k
          BY <2>1 DEF Complete
        <4>2. i \in 1 .. cursor
          BY <2>1, <4>1, RecordsTyped
        <4> QED
          BY <2>1, <2>3, <4>1, <4>2 DEF RestoredSoFar
      <3> QED
        BY <2>3, <3>1 DEF Same
    <2> QED
      BY <2>2, <2>3
  <1> QED
    BY <1>1, TypeInit, TypeStep, RestoreInvInit, RestoreStep, PTL DEF Spec

-----------------------------------------------------------------------------
Counted == {k \in Key : saved[k] # Absent}

RecordOf(k) == \E i \in DOMAIN file.records : file.records[i].key = k

\* A counted key has been written, or is live where the walk still goes.
Covered == \A k \in Counted : RecordOf(k) \/ (k \in todo /\ k \in Live)

Known == \A i \in DOMAIN file.records : file.records[i].key \in dumped

RestoredKnown == \A k \in Key : store[k] # Absent /\ store[k].origin = "restored" => k \in dumped

\* The inductive invariant behind PhantomNeedsRace.
PhantomInv ==
  /\ phase \in {"down", "failed"} => store = Nothing
  /\ phase = "dumping" => Live \subseteq dumped /\ file.count = Cardinality(Counted)
  /\ phase # "dumping" => todo = {}
  /\ ~shrunk => Known
  /\ ~shrunk /\ phase = "dumping" => Covered
  /\ ~shrunk /\ phase # "dumping" => file = NoFile \/ file.count <= Len(file.records)
  /\ ~shrunk /\ phase \in {"restoring", "spinning", "serving"} => RestoredKnown

\* When every counted key has a record, there are enough of them.
LEMMA CountCovered ==
  ASSUME PersistenceTypeOK, \A k \in Counted : RecordOf(k)
  PROVE  Cardinality(Counted) <= Len(file.records)
  <1> DEFINE n == Len(file.records)
             f == [k \in Counted |-> CHOOSE i \in DOMAIN file.records : file.records[i].key = k]
  <1>1. file.records \in Seq(Record)
    BY RecordsTyped
  <1>2. n \in Nat /\ DOMAIN file.records = 1 .. n
    BY <1>1
  <1>3. \A k \in Counted : f[k] \in 1 .. n /\ file.records[f[k]].key = k
    BY <1>2 DEF RecordOf
  <1>4. f \in Injection(Counted, 1 .. n)
    <2> HIDE DEF n
    <2>1. f \in [Counted -> 1 .. n]
      BY <1>3
    <2> HIDE DEF f
    <2>2. \A j, k \in Counted : f[j] = f[k] => j = k
      BY <1>3
    <2> QED
      BY <2>1, <2>2 DEF Injection, IsInjective
  <1>5. IsFiniteSet(1 .. n) /\ Cardinality(1 .. n) = n
    BY <1>2, FS_Interval
  <1>6. Cardinality(Counted) <= Cardinality(1 .. n)
    <2> HIDE DEF n, f
    <2> QED
      BY <1>4, <1>5, FS_Injection
  <1> QED
    BY <1>5, <1>6

\* A command puts f in the place of k; it never makes up a restored entry.
LEMMA CommandPhantom ==
  ASSUME PersistenceTypeOK, PhantomInv, NEW k \in Key, Command(k), NEW f \in Slot,
         store' = [store EXCEPT ![k] = f],
         f # Absent => f.origin = "client" \/ (store[k] # Absent /\ f.origin = store[k].origin),
         phase # "dumping" => UNCHANGED <<todo, dumped>>,
         phase = "dumping" => dumped \subseteq dumped' /\ (k \in Live' => k \in dumped')
  PROVE  PhantomInv'
  <1>1. /\ phase \in {"restoring", "spinning", "serving", "dumping"}
        /\ UNCHANGED <<phase, file, cursor, saved>>
        /\ shrunk' = (shrunk \/ Missed)
    BY DEF Command
  <1>2. store'[k] = f /\ \A j \in Key \ {k} : store'[j] = store[j]
    BY DEF PersistenceTypeOK
  <1>3. Counted' = Counted /\ \A j : RecordOf(j)' <=> RecordOf(j)
    BY <1>1 DEF Counted, RecordOf
  <1>4. CASE phase # "dumping"
    <2>1. UNCHANGED <<todo, dumped, phase, file>>
      BY <1>1, <1>4
    <2>2. ~shrunk' => Known' /\ (file' = NoFile \/ file'.count <= Len(file'.records))
      BY <1>1, <1>4, <2>1 DEF PhantomInv, Known
    <2>3. ASSUME ~shrunk' PROVE RestoredKnown'
      <3>1. RestoredKnown
        BY <1>1, <1>4, <2>3 DEF PhantomInv
      <3>2. f # Absent /\ f.origin = "restored" => k \in dumped
        BY <3>1 DEF RestoredKnown
      <3> QED
        BY <1>2, <2>1, <3>1, <3>2 DEF RestoredKnown
    <2> QED
      BY <1>1, <1>4, <2>1, <2>2, <2>3 DEF PhantomInv
  <1>5. CASE phase = "dumping"
    <2>1. Live' \subseteq dumped'
      <3>1. \A j \in Key \ {k} : j \in Live' => j \in Live
        BY <1>2 DEF Live, LiveIn
      <3> QED
        BY <1>5, <3>1 DEF PhantomInv, Live
    <2>2. file'.count = Cardinality(Counted')
      BY <1>1, <1>3, <1>5 DEF PhantomInv
    <2>3. ~shrunk' => Known'
      BY <1>1, <1>5 DEF PhantomInv, Known
    <2>4. ASSUME ~shrunk' PROVE Covered'
      <3>1. Covered /\ ~Missed
        BY <1>1, <1>5, <2>4 DEF PhantomInv
      <3>2. \A j \in Counted : j \in todo => j \in todo' /\ j \in Live'
        BY <3>1 DEF Missed, Counted, Live
      <3> QED
        BY <1>3, <3>1, <3>2 DEF Covered
    <2> QED
      BY <1>1, <1>5, <2>1, <2>2, <2>3, <2>4 DEF PhantomInv
  <1> QED
    BY <1>4, <1>5

LEMMA DumpRecordPhantom ==
  ASSUME PersistenceTypeOK, FileThere, PhantomInv, NEW k \in Key, DumpRecord(k)
  PROVE  PhantomInv'
  <1>1. /\ phase = "dumping" /\ k \in todo /\ todo' = todo \ {k}
        /\ UNCHANGED <<phase, store, saved, dumped, shrunk>>
    BY DEF DumpRecord
  <1>2. Counted' = Counted /\ Live' = Live
    BY <1>1 DEF Counted, Live, LiveIn
  <1>3. file.records \in Seq(Record) /\ file'.records \in Seq(Record)
    BY DumpRecordFile
  <1>4. file'.count = file.count
    BY DumpRecordFile
  <1>5. ASSUME ~shrunk PROVE Known' /\ Covered'
    <2>1. Known /\ Covered /\ Live \subseteq dumped
      BY <1>1, <1>5 DEF PhantomInv
    <2>2. CASE Skipped(k)
      <3>1. file' = file /\ k \notin Live
        BY <2>2, DumpRecordFile DEF Skipped, Live
      <3> QED
        BY <1>1, <1>2, <2>1, <3>1 DEF Known, Covered, RecordOf
    <2>3. CASE ~Skipped(k)
      <3>1. k \in Live
        BY <2>3 DEF Skipped, Live
      <3>2. PICK r \in Record : r.key = k /\ file'.records = Append(file.records, r)
        BY <2>3, DumpRecordFile
      <3>3. /\ file'.records[Len(file.records) + 1] = r
            /\ \A i \in DOMAIN file.records : i \in DOMAIN file'.records /\ file'.records[i] = file.records[i]
            /\ \A i \in DOMAIN file'.records : i \in DOMAIN file.records \/ i = Len(file.records) + 1
            /\ Len(file.records) + 1 \in DOMAIN file'.records
        BY <1>3, <3>2
      <3>4. Known'
        BY <1>1, <2>1, <3>1, <3>2, <3>3 DEF Known
      <3>5. RecordOf(k)' /\ \A j : RecordOf(j) => RecordOf(j)'
        BY <3>2, <3>3 DEF RecordOf
      <3>6. Covered'
        BY <1>1, <1>2, <2>1, <3>5 DEF Covered
      <3> QED
        BY <3>4, <3>6
    <2> QED
      BY <2>2, <2>3
  <1> QED
    BY <1>1, <1>2, <1>4, <1>5 DEF PhantomInv

LEMMA StopPhantom ==
  ASSUME PersistenceTypeOK, PhantomInv, DumpEnds \/ Crash \/ CrashDumping \/ RestoreThrows
  PROVE  PhantomInv'
  <1>1. phase' = "down" /\ store' = Nothing /\ todo' = {} /\ dumped' = dumped
    BY DEF DumpEnds, Crash, CrashDumping, RestoreThrows, Stop
  <1>2. CASE CrashDumping
    BY <1>1, <1>2 DEF CrashDumping, PhantomInv
  <1>3. CASE DumpEnds
    <2>1. phase = "dumping" /\ todo = {} /\ UNCHANGED <<file, shrunk>>
      BY <1>3 DEF DumpEnds
    <2>2. ASSUME ~shrunk PROVE Known' /\ file'.count <= Len(file'.records)
      <3>1. Known /\ Covered /\ file.count = Cardinality(Counted)
        BY <2>1, <2>2 DEF PhantomInv
      <3>2. Cardinality(Counted) <= Len(file.records)
        BY <2>1, <3>1, CountCovered DEF Covered
      <3> QED
        BY <1>1, <2>1, <3>1, <3>2 DEF Known
    <2> QED
      BY <1>1, <2>1, <2>2 DEF PhantomInv
  <1>4. CASE Crash \/ RestoreThrows
    <2>1. phase # "dumping" /\ UNCHANGED <<file, shrunk>>
      BY <1>4 DEF Crash, RestoreThrows
    <2> QED
      BY <1>1, <2>1 DEF PhantomInv, Known
  <1> QED
    BY <1>2, <1>3, <1>4

LEMMA PhantomStep ==
  PersistenceTypeOK /\ FileThere /\ PhantomInv /\ [Next]_vars => PhantomInv'
  <1> SUFFICES ASSUME PersistenceTypeOK, FileThere, PhantomInv, [Next]_vars
               PROVE  PhantomInv'
    OBVIOUS
  <1>1. CASE Start
    <2>1. RestoredKnown'
      BY <1>1 DEF Start, PhantomInv, RestoredKnown, Nothing
    <2> QED
      BY <1>1, <2>1 DEF Start, PhantomInv, Known
  <1>2. CASE RestoreSpins \/ RestoreEnd
    BY <1>2 DEF RestoreSpins, RestoreEnd, PhantomInv, Known, RestoredKnown
  <1>3. CASE RestoreRecord
    <2> DEFINE r == ReadRecord(cursor + 1)
    <2>1. /\ phase = "restoring" /\ cursor < file.count /\ cursor \in Nat
          /\ UNCHANGED <<phase, file, todo, dumped, shrunk>>
          /\ store' = [store EXCEPT ![r.key] = IF @ = Absent THEN EntryOf(r) ELSE @]
      BY <1>3 DEF RestoreRecord, PersistenceTypeOK
    <2>2. file \in [count : Nat, records : Seq(Record)] /\ file # NoFile /\ r \in Record
      BY <2>1, ReadTyped DEF FileThere
    <2>3. ASSUME ~shrunk PROVE RestoredKnown'
      <3>1. Known /\ RestoredKnown /\ file.count <= Len(file.records)
        BY <2>1, <2>2, <2>3 DEF PhantomInv
      <3>2. cursor + 1 \in DOMAIN file.records /\ r = file.records[cursor + 1]
        BY <2>1, <2>2, <3>1 DEF ReadRecord
      <3>3. r.key \in dumped /\ r.key \in Key
        BY <2>2, <3>1, <3>2 DEF Known, Record
      <3> HIDE DEF r
      <3>4. \A k \in Key \ {r.key} : store'[k] = store[k]
        BY <2>1 DEF PersistenceTypeOK
      <3> QED
        BY <2>1, <3>1, <3>3, <3>4 DEF RestoredKnown
    <2> QED
      BY <2>1, <2>3 DEF PhantomInv, Known
  <1>4. ASSUME NEW k \in Key, NEW e \in Item, Put(k, e)
        PROVE  PhantomInv'
    <2>1. Stored(e) \in Slot /\ Stored(e).origin = "client"
      BY StoredTyped DEF Slot, Stored
    <2>2. /\ Command(k) /\ store' = [store EXCEPT ![k] = Stored(e)]
          /\ phase # "dumping" => UNCHANGED <<todo, dumped>>
          /\ phase = "dumping" => dumped' = dumped \cup {k}
      BY <1>4 DEF Put
    <2> QED
      BY <2>1, <2>2, CommandPhantom
  <1>5. ASSUME NEW k \in Key, NEW e \in Item, Change(k, e)
        PROVE  PhantomInv'
    <2>1. PICK f \in Entry : store' = [store EXCEPT ![k] = f] /\ f.origin = store[k].origin
      BY <1>5, ChangedTyped
    <2>2. Command(k) /\ store[k] # Absent /\ f \in Slot /\ UNCHANGED <<todo, dumped>>
      BY <1>5 DEF Change, Slot
    <2>3. k \in Live' => k \in Live
      BY <1>5, Slots DEF Change, Live, LiveIn, PersistenceTypeOK, Entry
    <2>4. phase = "dumping" => (k \in Live' => k \in dumped')
      BY <2>2, <2>3 DEF PhantomInv
    <2> QED
      BY <2>1, <2>2, <2>4, CommandPhantom
  <1>6. ASSUME NEW k \in Key, Purge(k)
        PROVE  PhantomInv'
    <2>1. Command(k) /\ Absent \in Slot /\ store' = [store EXCEPT ![k] = Absent] /\ UNCHANGED <<todo, dumped>>
      BY <1>6, Slots DEF Purge
    <2>2. k \notin Live'
      BY <2>1 DEF Live, LiveIn, PersistenceTypeOK
    <2> QED
      BY <2>1, <2>2, CommandPhantom
  <1>7. ASSUME NEW k \in Key, Collect(k)
        PROVE  PhantomInv'
    <2>1. PICK f \in Slot : store' = [store EXCEPT ![k] = f] /\ (f # Absent => f.origin = store[k].origin)
      BY <1>7, CollectedTyped
    <2>2. Command(k) /\ store[k] # Absent /\ UNCHANGED <<todo, dumped>>
      BY <1>7 DEF Collect
    <2>3. k \notin Live'
      BY <1>7, Slots DEF Collect, Live, LiveIn, PersistenceTypeOK, Slot, Entry
    <2> QED
      BY <2>1, <2>2, <2>3, CommandPhantom
  <1>8. CASE DumpBegins
    <2>1. /\ phase' = "dumping" /\ todo' = Key /\ UNCHANGED store /\ dumped' = Live
          /\ file' = [count |-> Cardinality(Live), records |-> << >>]
          /\ saved' = [k \in Key |-> IF k \in Live THEN store[k] ELSE Absent]
      BY <1>8 DEF DumpBegins
    <2>2. Live' = Live /\ Counted' = Live
      BY <2>1 DEF Live, LiveIn, Counted
    <2>3. file'.records = << >> /\ file'.count = Cardinality(Live)
      BY <2>1
    <2>4. Known' /\ Covered'
      BY <2>1, <2>2, <2>3 DEF Known, Covered, Live
    <2> QED
      BY <2>1, <2>2, <2>3, <2>4 DEF PhantomInv
  <1>9. CASE UNCHANGED vars
    BY <1>9 DEF vars, PhantomInv, Known, Covered, Counted, RecordOf, RestoredKnown, Live, LiveIn
  <1> QED
    BY <1>1, <1>2, <1>3, <1>4, <1>5, <1>6, <1>7, <1>8, <1>9, DumpRecordPhantom, StopPhantom DEF Next

(***************************************************************************)
(* For any keys, items, commands and crashes, a restored key was in the    *)
(* store while the dump was made, unless the second walk missed a key the  *)
(* first had counted (storage_serializer.cpp:94-105) or the dump was cut   *)
(* short: keys entered and changed meanwhile make up nothing.              *)
(***************************************************************************)
THEOREM PhantomsNeedARace == Spec => []PhantomNeedsRace
  <1>1. Init => PhantomInv
    <2> SUFFICES ASSUME Init PROVE PhantomInv
      OBVIOUS
    <2>1. file.records = << >> /\ (file = NoFile \/ file.count = 0) /\ Len(file.records) = 0
      BY DEF Init, NoFile
    <2> QED
      BY <2>1 DEF Init, PhantomInv, Known
  <1>2. PhantomInv => PhantomNeedsRace
    BY DEF PhantomInv, RestoredKnown, PhantomNeedsRace
  <1> QED
    BY <1>1, <1>2, TypeInit, TypeStep, PhantomStep, PTL DEF Spec

-----------------------------------------------------------------------------
Kept == \A k \in kept \ todo : RecordOf(k)

\* What a restore has read so far is there, but for the keys touched since.
ReadSoFar ==
  \A i \in 1 .. cursor : i \in DOMAIN file.records /\ file.records[i].key \notin touched
                           => store[file.records[i].key] # Absent

\* The inductive invariant behind LossNeedsInsert.
LossInv ==
  /\ phase \in {"down", "failed"} => cursor = 0
  /\ phase # "dumping" => todo = {}
  /\ ~grown => Kept
  /\ ~grown /\ phase = "dumping" => /\ kept \subseteq Live /\ Live \subseteq Counted
                                    /\ file.count = Cardinality(Counted)
                                    /\ Len(file.records) <= Cardinality(Counted \ todo)
  /\ ~grown /\ phase # "dumping" => file = NoFile \/ Len(file.records) <= file.count
  /\ ~grown /\ phase \in {"restoring", "spinning", "serving"} => ReadSoFar
  /\ ~grown /\ phase = "serving" => file.count <= cursor

\* A command puts f in the place of k.
LEMMA CommandLoss ==
  ASSUME PersistenceTypeOK, LossInv, NEW k \in Key, Command(k), NEW f \in Slot,
         store' = [store EXCEPT ![k] = f],
         phase # "dumping" => UNCHANGED <<todo, grown>>,
         phase = "dumping" => grown' \/ (UNCHANGED <<todo, grown>> /\ (k \in Live' => k \in Live))
  PROVE  LossInv'
  <1>1. /\ phase \in {"restoring", "spinning", "serving", "dumping"}
        /\ UNCHANGED <<phase, file, cursor, saved>> /\ touched' = touched \cup {k}
        /\ kept' = IF phase = "dumping" THEN {j \in kept : LiveIn(store', j)} ELSE kept
    BY DEF Command
  <1>2. store'[k] = f /\ \A j \in Key \ {k} : store'[j] = store[j]
    BY DEF PersistenceTypeOK
  <1>3. Counted' = Counted /\ \A j : RecordOf(j)' <=> RecordOf(j)
    BY <1>1 DEF Counted, RecordOf
  <1>4. CASE phase # "dumping"
    <2>1. UNCHANGED <<todo, grown, kept, phase, file, cursor>>
      BY <1>1, <1>4
    <2>2. ~grown' => Kept'
      BY <1>3, <2>1 DEF LossInv, Kept
    <2>3. ASSUME ~grown' PROVE ReadSoFar'
      <3>1. ReadSoFar
        BY <1>1, <1>4, <2>1, <2>3 DEF LossInv
      <3>2. file.records \in Seq(Record)
        BY RecordsTyped
      <3>3. \A i \in DOMAIN file.records : file.records[i].key \in Key
        BY <3>2, KeyOfRecord
      <3> QED
        BY <1>1, <1>2, <2>1, <3>1, <3>3 DEF ReadSoFar
    <2> QED
      BY <1>1, <1>4, <2>1, <2>2, <2>3 DEF LossInv
  <1>5. CASE phase = "dumping"
    <2>1. ASSUME ~grown' PROVE /\ Kept' /\ kept' \subseteq Live' /\ Live' \subseteq Counted'
                               /\ file'.count = Cardinality(Counted')
                               /\ Len(file'.records) <= Cardinality(Counted' \ todo')
      <3>1. UNCHANGED <<todo, grown>> /\ (k \in Live' => k \in Live)
        BY <1>5, <2>1
      <3>2. /\ Kept /\ kept \subseteq Live /\ Live \subseteq Counted
            /\ file.count = Cardinality(Counted) /\ Len(file.records) <= Cardinality(Counted \ todo)
        BY <1>5, <2>1, <3>1 DEF LossInv
      <3>3. kept' \subseteq kept /\ kept' \subseteq Live'
        BY <1>1, <1>5 DEF Live, PersistenceTypeOK
      <3>4. Live' \subseteq Live
        BY <1>2, <3>1 DEF Live, LiveIn
      <3>5. Kept'
        BY <1>3, <3>1, <3>2, <3>3 DEF Kept
      <3> QED
        BY <1>1, <1>3, <3>1, <3>2, <3>3, <3>4, <3>5
    <2> QED
      BY <1>1, <1>5, <2>1 DEF LossInv
  <1> QED
    BY <1>4, <1>5

LEMMA CountedFinite ==
  ASSUME NEW S, S \subseteq Counted
  PROVE  IsFiniteSet(S) /\ Cardinality(S) \in Nat
  <1>1. S \in SUBSET Key
    BY DEF Counted
  <1>2. IsFiniteSet(S)
    BY <1>1, PersistenceAssumption, FS_Subset
  <1> QED
    BY <1>2, FS_CardinalityType

LEMMA DumpRecordLoss ==
  ASSUME PersistenceTypeOK, FileThere, LossInv, NEW k \in Key, DumpRecord(k)
  PROVE  LossInv'
  <1>1. /\ phase = "dumping" /\ k \in todo /\ todo' = todo \ {k}
        /\ UNCHANGED <<phase, store, cursor, saved, kept, grown>>
    BY DEF DumpRecord
  <1>2. Counted' = Counted /\ Live' = Live
    BY <1>1 DEF Counted, Live, LiveIn
  <1>3. file.records \in Seq(Record) /\ file'.records \in Seq(Record) /\ file'.count = file.count
    BY DumpRecordFile
  <1>4. ASSUME ~grown PROVE Kept' /\ Len(file'.records) <= Cardinality(Counted' \ todo')
    <2>1. Kept /\ kept \subseteq Live /\ Live \subseteq Counted /\ Len(file.records) <= Cardinality(Counted \ todo)
      BY <1>1, <1>4 DEF LossInv
    <2>2. IsFiniteSet(Counted \ todo) /\ Cardinality(Counted \ todo) \in Nat
          /\ IsFiniteSet(Counted \ todo') /\ Cardinality(Counted \ todo') \in Nat
      BY CountedFinite
    <2>3. CASE Skipped(k)
      <3>1. file' = file /\ k \notin Live
        BY <2>3, DumpRecordFile DEF Skipped, Live
      <3>2. Kept'
        BY <1>1, <2>1, <3>1 DEF Kept, RecordOf
      <3>3. Cardinality(Counted \ todo) <= Cardinality(Counted \ todo')
        <4>1. (Counted \ todo) \in SUBSET (Counted \ todo')
          BY <1>1
        <4> QED
          BY <2>2, <4>1, FS_Subset
      <3>4. Len(file.records) \in Nat
        BY <1>3
      <3> QED
        BY <1>2, <2>1, <2>2, <3>1, <3>2, <3>3, <3>4
    <2>4. CASE ~Skipped(k)
      <3>1. k \in Live
        BY <2>4 DEF Skipped, Live
      <3>2. PICK r \in Record : r.key = k /\ file'.records = Append(file.records, r)
        BY <2>4, DumpRecordFile
      <3>3. /\ file'.records[Len(file.records) + 1] = r
            /\ Len(file.records) \in Nat /\ Len(file'.records) = Len(file.records) + 1
            /\ \A i \in DOMAIN file.records : i \in DOMAIN file'.records /\ file'.records[i] = file.records[i]
            /\ Len(file.records) + 1 \in DOMAIN file'.records
        BY <1>3, <3>2
      <3>4. RecordOf(k)' /\ \A j : RecordOf(j) => RecordOf(j)'
        BY <3>2, <3>3 DEF RecordOf
      <3>5. Kept'
        BY <1>1, <2>1, <3>4 DEF Kept
      <3>6. Cardinality(Counted \ todo') = Cardinality(Counted \ todo) + 1
        <4>1. Counted \ todo' = (Counted \ todo) \cup {k} /\ k \notin Counted \ todo
          BY <1>1, <2>1, <3>1
        <4> QED
          BY <2>2, <4>1, FS_AddElement
      <3> QED
        BY <1>2, <2>1, <2>2, <3>3, <3>5, <3>6
    <2> QED
      BY <2>3, <2>4
  <1> QED
    BY <1>1, <1>2, <1>3, <1>4 DEF LossInv

LEMMA StopLoss ==
  ASSUME LossInv, DumpEnds \/ Crash \/ CrashDumping \/ RestoreThrows
  PROVE  LossInv'
  <1>1. phase' = "down" /\ cursor' = 0 /\ todo' = {} /\ kept' = kept
    BY DEF DumpEnds, Crash, CrashDumping, RestoreThrows, Stop
  <1>2. CASE CrashDumping
    BY <1>1, <1>2 DEF CrashDumping, LossInv
  <1>3. CASE DumpEnds \/ Crash \/ RestoreThrows
    <2>1. todo = {} /\ UNCHANGED <<file, grown>>
      BY <1>3 DEF DumpEnds, Crash, RestoreThrows, LossInv
    <2>2. ~grown => Kept'
      BY <1>1, <2>1 DEF LossInv, Kept, RecordOf
    <2>3. ~grown => file = NoFile \/ Len(file.records) <= file.count
      <3>1. Counted \ todo = Counted
        BY <2>1
      <3> QED
        BY <3>1 DEF LossInv
    <2> QED
      BY <1>1, <2>1, <2>2, <2>3 DEF LossInv
  <1> QED
    BY <1>2, <1>3

LEMMA LossStep ==
  PersistenceTypeOK /\ FileThere /\ LossInv /\ [Next]_vars => LossInv'
  <1> SUFFICES ASSUME PersistenceTypeOK, FileThere, LossInv, [Next]_vars
               PROVE  LossInv'
    OBVIOUS
  <1>1. CASE Start
    <2>1. ReadSoFar'
      BY <1>1 DEF Start, LossInv, ReadSoFar
    <2> QED
      BY <1>1, <2>1 DEF Start, LossInv, Kept, RecordOf
  <1>2. CASE RestoreSpins
    BY <1>2 DEF RestoreSpins, LossInv, Kept, RecordOf, ReadSoFar
  <1>e. CASE RestoreEnd
    <2>1. cursor = file.count /\ cursor \in Nat
      BY <1>e DEF RestoreEnd, PersistenceTypeOK
    <2> QED
      BY <1>e, <2>1 DEF RestoreEnd, LossInv, Kept, RecordOf, ReadSoFar
  <1>3. CASE RestoreRecord
    <2> DEFINE r == ReadRecord(cursor + 1)
    <2>1. /\ phase = "restoring" /\ cursor < file.count /\ cursor \in Nat /\ cursor' = cursor + 1
          /\ UNCHANGED <<phase, file, todo, kept, grown, touched>>
          /\ store' = [store EXCEPT ![r.key] = IF @ = Absent THEN EntryOf(r) ELSE @]
      BY <1>3 DEF RestoreRecord, PersistenceTypeOK
    <2>2. r \in Record /\ file.records \in Seq(Record)
      BY <2>1, ReadTyped, RecordsTyped
    <2>3. r.key \in Key /\ EntryOf(r) # Absent
      BY <2>2, EntryOfTyped, Slots DEF Record
    <2>4. cursor + 1 \in DOMAIN file.records => r = file.records[cursor + 1]
      BY <2>2 DEF ReadRecord
    <2> HIDE DEF r
    <2>5. store'[r.key] # Absent /\ \A k \in Key : store[k] # Absent => store'[k] # Absent
      BY <2>1, <2>3 DEF PersistenceTypeOK
    <2>6. ASSUME ~grown PROVE ReadSoFar'
      <3> SUFFICES ASSUME NEW i \in 1 .. cursor', i \in DOMAIN file.records, file.records[i].key \notin touched
                   PROVE  store'[file.records[i].key] # Absent
        BY <2>1 DEF ReadSoFar
      <3>1. CASE i = cursor + 1
        BY <2>4, <2>5, <3>1
      <3>2. CASE i # cursor + 1
        <4>1. i \in 1 .. cursor /\ file.records[i].key \in Key
          BY <2>1, <2>2, <3>2, KeyOfRecord
        <4> QED
          BY <2>1, <2>5, <2>6, <4>1 DEF LossInv, ReadSoFar
      <3> QED
        BY <3>1, <3>2
    <2> QED
      BY <2>1, <2>6 DEF LossInv, Kept, RecordOf
  <1>4. ASSUME NEW k \in Key, NEW e \in Item, Put(k, e)
        PROVE  LossInv'
    <2>1. Stored(e) \in Slot
      BY StoredTyped DEF Slot
    <2>2. /\ Command(k) /\ store' = [store EXCEPT ![k] = Stored(e)]
          /\ phase # "dumping" => UNCHANGED todo
          /\ grown' = (grown \/ phase = "dumping")
      BY <1>4 DEF Put
    <2>3. (phase = "dumping" => grown') /\ (phase # "dumping" => grown' = grown)
      BY <2>2 DEF PersistenceTypeOK
    <2> QED
      BY <2>1, <2>2, <2>3, CommandLoss
  <1>5. ASSUME NEW k \in Key, NEW e \in Item, Change(k, e)
        PROVE  LossInv'
    <2>1. PICK f \in Entry : store' = [store EXCEPT ![k] = f]
      BY <1>5, ChangedTyped
    <2>2. Command(k) /\ f \in Slot /\ UNCHANGED <<todo, grown>>
      BY <1>5 DEF Change, Slot
    <2>3. k \in Live' => k \in Live
      BY <1>5, Slots DEF Change, Live, LiveIn, PersistenceTypeOK, Entry
    <2> QED
      BY <2>1, <2>2, <2>3, CommandLoss
  <1>6. ASSUME NEW k \in Key, Purge(k)
        PROVE  LossInv'
    <2>1. Command(k) /\ Absent \in Slot /\ store' = [store EXCEPT ![k] = Absent] /\ UNCHANGED <<todo, grown>>
      BY <1>6, Slots DEF Purge
    <2>2. k \notin Live'
      BY <2>1 DEF Live, LiveIn, PersistenceTypeOK
    <2> QED
      BY <2>1, <2>2, CommandLoss
  <1>7. ASSUME NEW k \in Key, Collect(k)
        PROVE  LossInv'
    <2>1. PICK f \in Slot : store' = [store EXCEPT ![k] = f]
      BY <1>7, CollectedTyped
    <2>2. Command(k) /\ UNCHANGED <<todo, grown>>
      BY <1>7 DEF Collect
    <2>3. k \notin Live'
      BY <1>7, Slots DEF Collect, Live, LiveIn, PersistenceTypeOK, Slot, Entry
    <2> QED
      BY <2>1, <2>2, <2>3, CommandLoss
  <1>8. CASE DumpBegins
    <2>1. /\ phase' = "dumping" /\ todo' = Key /\ UNCHANGED store /\ kept' = Live
          /\ file' = [count |-> Cardinality(Live), records |-> << >>]
          /\ saved' = [k \in Key |-> IF k \in Live THEN store[k] ELSE Absent]
      BY <1>8 DEF DumpBegins
    <2>2. Live' = Live /\ Counted' = Live
      BY <2>1 DEF Live, LiveIn, Counted
    <2>3. file'.count = Cardinality(Live) /\ Len(file'.records) = 0
      BY <2>1
    <2>4. Kept'
      BY <2>1 DEF Kept, Live
    <2>5. Counted' \ todo' = {} /\ Cardinality({}) = 0
      BY <2>1, <2>2, FS_EmptySet DEF Live
    <2>6. /\ kept' \subseteq Live' /\ Live' \subseteq Counted' /\ file'.count = Cardinality(Counted')
          /\ Len(file'.records) <= Cardinality(Counted' \ todo')
      <3>1. kept' = Live /\ Live' = Live /\ file'.count = Cardinality(Counted')
        BY <2>1, <2>2, <2>3
      <3>2. Cardinality(Counted' \ todo') = 0
        BY <2>5
      <3> QED
        BY <2>2, <2>3, <3>1, <3>2
    <2> QED
      BY <2>1, <2>4, <2>6 DEF LossInv
  <1>9. CASE UNCHANGED vars
    BY <1>9 DEF vars, LossInv, Kept, Counted, RecordOf, ReadSoFar, Live, LiveIn
  <1> QED
    BY <1>1, <1>2, <1>e, <1>3, <1>4, <1>5, <1>6, <1>7, <1>8, <1>9, DumpRecordLoss, StopLoss DEF Next

(***************************************************************************)
(* For any keys, items, commands and crashes, a key that stayed live all   *)
(* through a dump comes back at the restart, unless another key was        *)
(* entered meanwhile or the dump was cut short: without new keys the count *)
(* of the first walk is enough for the records of the second               *)
(* (storage_serializer.cpp:94-105 and :167).                               *)
(***************************************************************************)
THEOREM LossNeedsAnInsert == Spec => []LossNeedsInsert
  <1>1. Init => LossInv
    <2> SUFFICES ASSUME Init PROVE LossInv
      OBVIOUS
    <2>1. file = NoFile \/ (file.count = 0 /\ Len(file.records) = 0)
      BY DEF Init, NoFile
    <2> QED
      BY <2>1 DEF Init, LossInv, Kept
  <1>2. PersistenceTypeOK /\ FileThere /\ LossInv => LossNeedsInsert
    <2> SUFFICES ASSUME PersistenceTypeOK, FileThere, LossInv, phase = "serving", ~grown, NEW k \in kept \ touched
                 PROVE  store[k] # Absent
      BY DEF LossNeedsInsert
    <2>1. Kept /\ todo = {} /\ ReadSoFar /\ file.count <= cursor /\ Len(file.records) <= file.count
      BY DEF LossInv, FileThere
    <2>2. PICK i \in DOMAIN file.records : file.records[i].key = k
      BY <2>1 DEF Kept, RecordOf
    <2>3. file \in [count : Nat, records : Seq(Record)] /\ cursor \in Nat
      BY FileShape DEF FileThere, PersistenceTypeOK
    <2>4. i \in 1 .. cursor
      BY <2>1, <2>2, <2>3
    <2> QED
      BY <2>1, <2>2, <2>4 DEF ReadSoFar
  <1> QED
    BY <1>1, <1>2, TypeInit, TypeStep, LossStep, PTL DEF Spec
=============================================================================
