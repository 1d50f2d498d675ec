------------------------ MODULE SystemPackagesProofs ------------------------
(***************************************************************************)
(* Theorems about SystemPackages for any number of callers, configuration  *)
(* files, transactions, edits, disturbances and damaged packages.          *)
(***************************************************************************)
EXTENDS SystemPackages, TLAPS, FiniteSetTheorems

\* What a digest or a payload can be of.
Data == Regular \cup {None, Part, Garbled}
Entries == [outcome : Outcomes, digest : Data, payload : Data]
Items == UNION {[S -> Entries] : S \in SUBSET Names}
Ids == (Nat \X UNION {[S -> Data] : S \in SUBSET Names}) \cup (Callers \X Nat)
Glances == [before : Regular, first : Numbers]

CallRecords ==
    [kind : {None, "backup", "capture"},
     at : {"idle", "snapshot", "database", "folder", "files", "config", "sidecars", "publish"},
     todo : Seq(Names), staged : Items,
     reading : {None} \cup Glances \cup Nat \cup Ids, quiet : BOOLEAN]

PackageRecords ==
    [id : {None} \cup Glances \cup Nat \cup Ids, kind : {None, "backup", "capture"},
     items : Items, quiet : BOOLEAN, sealed : BOOLEAN]

\* A digest of bytes that were read from the source whole.
Read == {"CAPTURED_VERIFIED", "CAPTURED_UNVERIFIED"}

----------------------------------------------------------------------------
(* The inductive invariant *)

LiveTypes ==
    /\ files \in [Names -> Objects]
    /\ folder \in Nat \cup {Absent, Wrong, Unsafe}
    /\ writer \in {"idle", "writing", "dead"}
    /\ commits \in 0 .. MaxCommits
    /\ changes \in [edits : 0 .. MaxEdits, disturbed : 0 .. MaxDisturb]
    /\ held \in [Names -> SUBSET Objects]

\* Between transactions the database is as one left it; while one is under way
\* or was cut off, the journal is.
LiveShape ==
    /\ \A n \in Names : files[n] \in held[n]
    /\ <<0, 0>> \in held[Database]
    /\ writer = "idle" /\ files[Database] \in Regular => OneCommit(files[Database])
    /\ writer # "idle" => /\ OneCommit(files[Journal]) /\ files[Journal] \in held[Database]
                          /\ files[Database] \in Regular
                          /\ commits < MaxCommits

LiveInv == LiveTypes /\ LiveShape

\* The steps of each kind, and what is left to do in them.
StepShape(k) ==
    /\ k.at = "idle" => k.kind = None
    /\ k.at = "snapshot" => k.kind = "backup" /\ k.todo \in Seq(ConfigFiles) /\ k.reading = None
    /\ k.at = "files" => k.kind = "backup" /\ k.todo \in Seq(ConfigFiles)
    /\ k.at \in {"database", "folder", "config", "sidecars"} => k.kind = "capture"
    /\ k.at = "publish" => k.kind # None
    /\ k.at \in {"folder", "publish"} => k.todo = <<>>
    /\ k.at = "folder" => k.reading \in Nat
    /\ k.at \in {"files", "database", "config", "sidecars"} /\ k.reading # None =>
          k.todo # <<>> /\ k.reading \in Glances /\ k.reading.first = k.reading.before[1]

\* A backup has staged the database as one transaction left it; a capture has
\* an entry for the database before it goes on.
DatabaseShape(k) ==
    /\ k.kind = "backup" /\ k.at \in {"files", "publish"} =>
          Database \in DOMAIN k.staged /\ OneCommit(k.staged[Database].digest)
    /\ k.at = "database" => k.todo \in {<<>>, <<Database>>} /\ (k.todo = <<>> => Database \in DOMAIN k.staged)
    /\ k.kind = "capture" /\ k.at # "database" => Database \in DOMAIN k.staged

\* What is claimed as verified was there at one moment.
OneMoment(items) ==
    \A n \in DOMAIN items : items[n].outcome = "CAPTURED_VERIFIED" => items[n].digest \in held[n]

\* What is sealed verifies.
SealShape(k) ==
    k.at = "publish" => IF k.kind = "backup" THEN WholePayload(k.staged) ELSE SelfConsistent(k.staged)

\* While nothing changes, a capture reads what is there, and misses no journal.
QuietShape(k) ==
    k.kind = "capture" /\ k.quiet =>
        /\ \A n \in DOMAIN k.staged :
              k.staged[n].outcome \in Read => k.staged[n].digest \in Regular /\ k.staged[n].digest = At(n)
        /\ k.at = "sidecars" /\ files[Journal] # Absent => k.todo = <<Journal>> \/ Journal \in DOMAIN k.staged
        /\ k.at = "publish" /\ files[Journal] # Absent => Journal \in DOMAIN k.staged

CallShape(k) == StepShape(k) /\ DatabaseShape(k) /\ OneMoment(k.staged) /\ SealShape(k) /\ QuietShape(k)

\* What can be recovered from the items of a quiet capture.
Recoverable(items) ==
    items[Database].outcome = "CAPTURED_VERIFIED" /\ ~ OneCommit(items[Database].digest) =>
        /\ Journal \in DOMAIN items
        /\ items[Journal].outcome \in Read => OneCommit(items[Journal].digest)

PackageShape(p) ==
    /\ Database \in DOMAIN p.items
    /\ p.kind = "backup" => OneCommit(p.items[Database].digest)
    /\ OneMoment(p.items)
    /\ p.kind = "capture" /\ p.quiet => Recoverable(p.items)

PackagesInv ==
    /\ packages \subseteq PackageRecords
    /\ \A p \in packages : PackageShape(p)
    /\ \A p, q \in packages : p.id = q.id => p = q

CallsInv ==
    /\ call \in [Callers -> CallRecords]
    /\ attempts \in [{"backup", "capture"} -> Nat]
    /\ second \in Nat
    /\ \A c \in Callers : CallShape(call[c])

IInv == LiveInv /\ CallsInv /\ PackagesInv

----------------------------------------------------------------------------
(* The live system *)

\* The names, and what can be at them.
LEMMA NamesType ==
  /\ Database \in Names /\ Journal \in Names /\ ConfigFiles \subseteq Names
  /\ Database # Journal /\ Database \notin ConfigFiles /\ Journal \notin ConfigFiles
  /\ \A n \in Names : n = Database \/ n = Journal \/ n \in ConfigFiles
  /\ Regular \subseteq Objects /\ {Absent, Wrong, Unsafe} \subseteq Objects
  /\ Absent \notin Regular /\ Wrong \notin Regular /\ Unsafe \notin Regular
BY SourcesAssumption, ObjectAssumption DEF Names, Objects

\* Commits and edits are numbers, and so are the files they make.
LEMMA NumbersType ==
  /\ MaxCommits \in Nat /\ MaxEdits \in Nat /\ MaxDisturb \in Nat
  /\ \A n \in 0 .. MaxCommits : n \in Numbers /\ <<n, n>> \in Regular
  /\ \A n \in 0 .. MaxEdits : n \in Numbers /\ <<n, n>> \in Regular
BY SourcesAssumption DEF Numbers, Regular

\* Pages of one commit are those of a regular file.
LEMMA OneCommitRegular ==
  ASSUME NEW pages, OneCommit(pages)
  PROVE  pages \in Regular /\ pages # Absent
BY NumbersType, NamesType DEF OneCommit

\* A file with one chunk written is a regular file.
LEMMA ChunkWritten ==
  ASSUME NEW f \in Regular, NEW i \in 1 .. 2, NEW n \in Numbers
  PROVE  [f EXCEPT ![i] = n] \in Regular
<1>1. PICK x \in Numbers, y \in Numbers : f = <<x, y>>
  BY DEF Regular
<1>2. [f EXCEPT ![i] = n] = IF i = 1 THEN <<n, y>> ELSE <<x, n>>
  BY <1>1
<1> QED
  BY <1>2 DEF Regular

\* The live system is whole at first.
LEMMA LiveStart == LiveInit => LiveInv
<1> SUFFICES ASSUME LiveInit PROVE LiveInv
  OBVIOUS
<1>1. <<0, 0>> \in Regular /\ OneCommit(<<0, 0>>)
  BY NumbersType DEF OneCommit
<1>2. files \in [Names -> Objects] /\ files[Database] = <<0, 0>>
  BY <1>1, NamesType DEF LiveInit
<1>3. held \in [Names -> SUBSET Objects] /\ \A n \in Names : files[n] \in held[n]
  BY <1>2 DEF LiveInit
<1>4. <<0, 0>> \in held[Database]
  BY <1>2, <1>3, NamesType
<1>5. LiveTypes
  BY <1>2, <1>3, NumbersType DEF LiveTypes, LiveInit
<1> QED
  BY <1>1, <1>2, <1>3, <1>4, <1>5 DEF LiveInv, LiveShape, LiveInit

\* A file that is put keeps the types, and what was there is remembered.
LEMMA PutTypes ==
  ASSUME LiveInv, NEW n \in Names, NEW object \in Objects, Put(n, object)
  PROVE  /\ files' \in [Names -> Objects] /\ held' \in [Names -> SUBSET Objects]
         /\ files'[n] = object
         /\ \A m \in Names \ {n} : files'[m] = files[m]
         /\ \A m \in Names : files'[m] \in held'[m] /\ held[m] \subseteq held'[m]
BY DEF Put, LiveInv, LiveTypes, LiveShape

\* Whatever happens to the live system, the database is as a transaction left
\* it, or the journal is.
LEMMA LiveStepInv ==
  ASSUME LiveInv, LiveNext
  PROVE  LiveInv' /\ \A n \in Names : held[n] \subseteq held'[n]
<1> DEFINE Goal == LiveInv' /\ \A n \in Names : held[n] \subseteq held'[n]
<1> USE NamesType DEF LiveInv
<1>0. LiveTypes /\ LiveShape
  OBVIOUS
<1>1. CASE BeginWrite
  <2>1. files[Database] \in Objects /\ OneCommit(files[Database]) /\ Put(Journal, files[Database])
        /\ commits < MaxCommits /\ writer' = "writing"
    BY <1>0, <1>1 DEF BeginWrite, LiveShape
  <2>2. LiveTypes'
    BY <1>0, <1>1, <2>1, PutTypes DEF BeginWrite, LiveTypes
  <2> QED
    BY <1>0, <1>1, <2>1, <2>2, PutTypes DEF BeginWrite, LiveShape, OneCommit
<1>2. CASE CommitWrite
  <2>1. Absent \in Objects /\ Put(Journal, Absent) /\ writer' = "idle" /\ commits' = commits + 1
        /\ files[Database] = <<commits + 1, commits + 1>> /\ commits < MaxCommits
    BY <1>0, <1>2 DEF CommitWrite, LiveShape
  <2>2. commits + 1 \in 0 .. MaxCommits
    BY <1>0, <2>1, NumbersType DEF LiveTypes
  <2>3. OneCommit(files[Database])
    BY <2>1, <2>2 DEF OneCommit
  <2>4. files' \in [Names -> Objects] /\ held' \in [Names -> SUBSET Objects]
        /\ files'[Database] = files[Database]
        /\ \A m \in Names : files'[m] \in held'[m] /\ held[m] \subseteq held'[m]
    BY <2>1, PutTypes
  <2>5. LiveTypes'
    BY <1>0, <1>2, <2>1, <2>2, <2>4 DEF CommitWrite, LiveTypes
  <2> QED
    BY <1>0, <2>1, <2>3, <2>4, <2>5 DEF LiveShape, OneCommit
<1>3. CASE WriterDies
  BY <1>0, <1>3 DEF WriterDies, LiveTypes, LiveShape, OneCommit
<1>4. CASE RollBack
  <2>1. OneCommit(files[Journal]) /\ files[Journal] \in held[Database]
    BY <1>0, <1>4 DEF RollBack, LiveShape
  <2>2. /\ files' = [files EXCEPT ![Database] = files[Journal], ![Journal] = Absent]
        /\ held' = [held EXCEPT ![Journal] = @ \cup {Absent}]
        /\ writer' = "idle" /\ UNCHANGED <<folder, commits, changes>>
    BY <1>4 DEF RollBack
  <2>3. files' \in [Names -> Objects] /\ files'[Database] = files[Journal] /\ files'[Journal] = Absent
        /\ \A n \in ConfigFiles : files'[n] = files[n]
    BY <1>0, <2>2 DEF LiveTypes
  <2>4. held' \in [Names -> SUBSET Objects] /\ \A n \in Names : held[n] \subseteq held'[n]
        /\ Absent \in held'[Journal]
    BY <1>0, <2>2 DEF LiveTypes
  <2>5. \A n \in Names : files'[n] \in held'[n]
    BY <1>0, <2>1, <2>3, <2>4 DEF LiveShape
  <2> QED
    BY <1>0, <2>1, <2>2, <2>3, <2>4, <2>5 DEF LiveTypes, LiveShape, OneCommit
<1>5. CASE Disturb
  <2>1. changes' = [changes EXCEPT !.disturbed = @ + 1] /\ changes.disturbed < MaxDisturb
        /\ UNCHANGED <<writer, commits>>
    BY <1>5 DEF Disturb
  <2>2. changes' \in [edits : 0 .. MaxEdits, disturbed : 0 .. MaxDisturb] /\ NewFolder \in Nat
    BY <1>0, <2>1, NumbersType DEF LiveTypes, NewFolder
  <2>3. ASSUME NEW n \in Names, NEW object \in {Absent, Wrong, Unsafe},
               n \in {Database, Journal} => files[Journal] = Absent /\ writer = "idle",
               Put(n, object), UNCHANGED folder
        PROVE  Goal
    <3>1. files' \in [Names -> Objects] /\ held' \in [Names -> SUBSET Objects]
          /\ files'[n] = object /\ (\A m \in Names \ {n} : files'[m] = files[m])
          /\ \A m \in Names : files'[m] \in held'[m] /\ held[m] \subseteq held'[m]
      BY <2>3, PutTypes
    <3>2. LiveTypes'
      BY <1>0, <2>1, <2>2, <2>3, <3>1 DEF LiveTypes
    <3>3. CASE n = Database
      BY <1>0, <2>1, <2>3, <3>1, <3>2, <3>3 DEF LiveShape
    <3>4. CASE n # Database
      BY <1>0, <2>1, <2>3, <3>1, <3>2, <3>4 DEF LiveShape, OneCommit
    <3> QED
      BY <3>3, <3>4
  <2>4. CASE folder' \in {Absent, Wrong, Unsafe, NewFolder} /\ UNCHANGED <<files, held>>
    BY <1>0, <2>1, <2>2, <2>4 DEF LiveTypes, LiveShape, OneCommit
  <2> QED
    BY <1>5, <2>3, <2>4 DEF Disturb
<1>6. ASSUME NEW i \in 1 .. 2, WritePage(i)
      PROVE  Goal
  <2>1. writer = "writing" /\ files[Database] \in Regular /\ commits < MaxCommits
        /\ Put(Database, [files[Database] EXCEPT ![i] = commits + 1])
        /\ UNCHANGED <<folder, writer, commits, changes>>
    BY <1>0, <1>6 DEF WritePage, LiveShape
  <2>2. commits + 1 \in Numbers
    <3>1. commits \in 0 .. MaxCommits
      BY <1>0 DEF LiveTypes
    <3>2. commits + 1 \in 0 .. MaxCommits
      BY <3>1, <2>1, NumbersType
    <3> QED
      BY <3>2, NumbersType
  <2>3. [files[Database] EXCEPT ![i] = commits + 1] \in Regular
    BY <2>1, <2>2, ChunkWritten
  <2> DEFINE new == [files[Database] EXCEPT ![i] = commits + 1]
  <2> HIDE DEF new
  <2>4. files' \in [Names -> Objects] /\ held' \in [Names -> SUBSET Objects]
        /\ files'[Database] = new /\ files'[Journal] = files[Journal]
        /\ \A m \in Names : files'[m] \in held'[m] /\ held[m] \subseteq held'[m]
    BY <2>1, <2>3, PutTypes DEF new
  <2>5. new \in Regular
    BY <2>3 DEF new
  <2> QED
    BY <1>0, <2>1, <2>4, <2>5 DEF LiveTypes, LiveShape, OneCommit
<1>7. ASSUME NEW c \in ConfigFiles, EditConfig(c) \/ SaveConfig(c)
      PROVE  Goal
  <2>1. /\ changes' = [changes EXCEPT !.edits = changes.edits + 1] /\ changes.edits < MaxEdits
        /\ UNCHANGED <<writer, commits>>
        /\ files[c] \in Regular
    BY <1>7 DEF EditConfig, SaveConfig, At
  <2>2. changes' \in [edits : 0 .. MaxEdits, disturbed : 0 .. MaxDisturb] /\ NewFolder \in Nat
        /\ changes.edits + 1 \in 0 .. MaxEdits
    BY <1>0, <2>1, NumbersType DEF LiveTypes, NewFolder
  <2>3. folder' \in Nat \cup {Absent, Wrong, Unsafe}
    BY <1>0, <1>7, <2>2 DEF EditConfig, SaveConfig, LiveTypes
  <2>4. PICK new \in Regular : Put(c, new)
    <3>1. changes.edits + 1 \in Numbers /\ <<changes.edits + 1, changes.edits + 1>> \in Regular
      BY <2>2, NumbersType
    <3>2. \A i \in 1 .. 2 : [files[c] EXCEPT ![i] = changes.edits + 1] \in Regular
      BY <2>1, <3>1, ChunkWritten
    <3> QED
      BY <1>7, <3>1, <3>2 DEF EditConfig, SaveConfig
  <2>5. files' \in [Names -> Objects] /\ held' \in [Names -> SUBSET Objects]
        /\ files'[Database] = files[Database] /\ files'[Journal] = files[Journal]
        /\ \A m \in Names : files'[m] \in held'[m] /\ held[m] \subseteq held'[m]
    BY <2>4, PutTypes
  <2> QED
    BY <1>0, <2>1, <2>2, <2>3, <2>5 DEF LiveTypes, LiveShape, OneCommit
<1> QED
  BY <1>1, <1>2, <1>3, <1>4, <1>5, <1>6, <1>7 DEF LiveNext

----------------------------------------------------------------------------
(* What the steps of a call are made of *)

\* The required files, in some order.
LEMMA SortedType == Sorted \in Seq(ConfigFiles)
<1>1. Cardinality(ConfigFiles) \in Nat /\ ExistsBijection(1 .. Cardinality(ConfigFiles), ConfigFiles)
  BY SourcesAssumption, FS_CardinalityType
<1>2. \E f \in [1 .. Cardinality(ConfigFiles) -> ConfigFiles] : IsInjective(f)
  BY <1>1 DEF ExistsBijection, Bijection, Injection, IsInjective
<1>3. Sorted \in [1 .. Cardinality(ConfigFiles) -> ConfigFiles]
  BY <1>2 DEF Sorted, SetToSeq
<1> QED
  BY <1>1, <1>3

\* An entry, or none, is one of a manifest.
LEMMA ItemType ==
  ASSUME NEW outcome \in Outcomes, NEW digest \in Data, NEW payload \in Data
  PROVE  /\ Item(outcome, digest, payload) \in Entries
         /\ Item(outcome, digest, payload).outcome = outcome
         /\ Item(outcome, digest, payload).digest = digest
         /\ Item(outcome, digest, payload).payload = payload
BY DEF Item, Entries

\* An entry that is recorded is there, and the others are as they were.
LEMMA RecordType ==
  ASSUME NEW staged \in Items, NEW n \in Names, NEW item \in Entries
  PROVE  /\ Record(staged, n, item) \in Items
         /\ DOMAIN Record(staged, n, item) = DOMAIN staged \cup {n}
         /\ Record(staged, n, item)[n] = item
         /\ \A m \in DOMAIN staged \ {n} : Record(staged, n, item)[m] = staged[m]
<1>1. PICK S \in SUBSET Names : staged \in [S -> Entries]
  BY DEF Items
<1>2. Record(staged, n, item) \in [S \cup {n} -> Entries] /\ S \cup {n} \in SUBSET Names
  BY <1>1 DEF Record
<1> QED
  BY <1>1, <1>2 DEF Items, Record

\* A call that is over.
LEMMA IdleShape == Idle \in CallRecords /\ CallShape(Idle)
<1>1. <<>> \in [{} -> Entries] /\ DOMAIN <<>> = {}
  OBVIOUS
<1>2. <<>> \in Items
  BY <1>1 DEF Items
<1>3. <<>> \in Seq(Names)
  OBVIOUS
<1>4. Idle \in CallRecords
  BY <1>2, <1>3 DEF Idle, CallRecords
<1>5. OneMoment(Idle.staged)
  BY <1>1 DEF OneMoment, Idle
<1> QED
  BY <1>4, <1>5, PackageAssumption DEF CallShape, StepShape, DatabaseShape, SealShape, QuietShape, Idle

\* What is regular is what is at the path, once: two looks that agree, and the
\* bytes read between them, are of one content the file had.
LEMMA AtTypes ==
  ASSUME LiveInv, NEW n \in Names
  PROVE  /\ At(n) \in Objects
         /\ At(n) \in Regular => At(n) = files[n] /\ At(n) \in held[n]
         /\ n \notin ConfigFiles => At(n) = files[n]
BY NamesType DEF At, LiveInv, LiveTypes, LiveShape

\* A regular file is the pair of its chunks.
LEMMA TwoChunks ==
  ASSUME NEW f \in Regular
  PROVE  f = <<f[1], f[2]>> /\ f[1] \in Numbers
BY DEF Regular

----------------------------------------------------------------------------
(* One lemma for each step of a call: it makes a call of the same shape *)

\* The caller's record becomes another that the invariant allows.
Moves(c) == \E k \in CallRecords : CallShape(k) /\ call' = [call EXCEPT ![c] = k]

\* A call that fails is over.
LEMMA FailMoves ==
  ASSUME NEW c \in Callers, Fail(c)
  PROVE  Moves(c)
BY IdleShape DEF Moves, Fail

\* A call that begins has staged nothing.
LEMMA BeginMoves ==
  ASSUME NEW c \in Callers, CallsInv, BeginBackup(c) \/ BeginCapture(c)
  PROVE  Moves(c) /\ attempts' \in [{"backup", "capture"} -> Nat]
<1> DEFINE new(kind, at, todo) == [Idle EXCEPT !.kind = kind, !.at = at, !.todo = todo]
<1>1. ASSUME NEW kind \in {"backup", "capture"}, NEW at, NEW todo \in Seq(Names),
             \/ kind = "backup" /\ at = "snapshot" /\ todo \in Seq(ConfigFiles)
             \/ kind = "capture" /\ at = "database" /\ todo = <<Database>>
      PROVE  new(kind, at, todo) \in CallRecords /\ CallShape(new(kind, at, todo))
  <2> DEFINE k == new(kind, at, todo)
  <2>1. /\ k.kind = kind /\ k.at = at /\ k.todo = todo /\ k.staged = Idle.staged
        /\ k.reading = None /\ k.quiet = TRUE
    BY DEF Idle
  <2>2. k \in CallRecords
    BY <1>1, IdleShape DEF CallRecords, Idle
  <2>3. DOMAIN k.staged = {}
    BY <2>1 DEF Idle
  <2> HIDE DEF k
  <2>4. todo # <<>> \/ at = "snapshot"
    BY <1>1
  <2>5. CallShape(k)
    BY <1>1, <2>1, <2>3, <2>4, PackageAssumption
       DEF CallShape, StepShape, DatabaseShape, OneMoment, SealShape, QuietShape
  <2> QED
    BY <2>2, <2>5 DEF k
<1>2. attempts' \in [{"backup", "capture"} -> Nat]
  BY DEF BeginBackup, BeginCapture, Begin, CallsInv
<1>3. <<Database>> \in Seq(Names) /\ Sorted \in Seq(Names)
  BY SortedType, NamesType
<1>4. \/ call' = [call EXCEPT ![c] = new("backup", "snapshot", Sorted)]
      \/ call' = [call EXCEPT ![c] = new("capture", "database", <<Database>>)]
  BY DEF BeginBackup, BeginCapture, Begin
<1> HIDE DEF new
<1> QED
  BY <1>1, <1>2, <1>3, <1>4, SortedType DEF Moves

\* What is left of a sequence of one.
LEMMA OneElement ==
  ASSUME NEW x
  PROVE  Head(<<x>>) = x /\ Tail(<<x>>) = <<>> /\ <<x>> # <<>>
OBVIOUS

\* The snapshot of the database is of one transaction: no writer holds the lock,
\* or the pages are those a link leads to.
LEMMA SnapshotMoves ==
  ASSUME NEW c \in Callers, LiveInv, CallsInv, Snapshot(c)
  PROVE  Moves(c)
<1> DEFINE k == call[c]
<1> DEFINE pages == Behind(Database)
<1> DEFINE item == Item("CAPTURED_VERIFIED", pages, pages)
<1> DEFINE new == [k EXCEPT !.at = "files", !.staged = Record(k.staged, Database, item)]
<1>1. k \in CallRecords /\ CallShape(k) /\ k.at = "snapshot" /\ k.kind = "backup"
  BY DEF CallsInv, Snapshot, Working
<1>2. OneCommit(pages) /\ pages \in held[Database]
  <2>1. At(Database) = files[Database]
    BY NamesType, AtTypes
  <2>2. CASE files[Database] = Unsafe
    <3>1. pages = <<0, 0>>
      BY <2>1, <2>2 DEF Behind
    <3> QED
      BY <3>1, NumbersType DEF OneCommit, LiveInv, LiveShape
  <2>3. CASE files[Database] # Unsafe
    <3>1. pages = files[Database] /\ files[Database] \in Regular /\ writer = "idle"
      BY <2>1, <2>3 DEF Behind, Snapshot, SnapshotReady
    <3> QED
      BY <3>1, NamesType DEF LiveInv, LiveShape
  <2> QED
    BY <2>2, <2>3
<1>3. pages \in Data
  BY <1>2, OneCommitRegular DEF Data
<1>4. item \in Entries /\ item.digest = pages
  BY <1>3, ItemType DEF Outcomes
<1> HIDE DEF pages
<1>5. call' = [call EXCEPT ![c] = new]
  BY DEF Snapshot, CallsInv, pages
<1> HIDE DEF item
<1>6. k.staged \in Items /\ k.todo \in Seq(ConfigFiles) /\ k.reading = None
  BY <1>1 DEF CallRecords, CallShape, StepShape
<1> DEFINE staged == Record(k.staged, Database, item)
<1> HIDE DEF k
<1> DEFINE before == k.staged
<1> HIDE DEF before
<1>7. staged \in Items /\ DOMAIN staged = DOMAIN k.staged \cup {Database} /\ staged[Database] = item
      /\ \A m \in DOMAIN k.staged \ {Database} : staged[m] = k.staged[m]
  <2>1. before \in Items /\ Database \in Names /\ item \in Entries
    BY <1>4, <1>6, NamesType DEF before
  <2>2. /\ Record(before, Database, item) \in Items
        /\ DOMAIN Record(before, Database, item) = DOMAIN before \cup {Database}
        /\ Record(before, Database, item)[Database] = item
        /\ \A m \in DOMAIN before \ {Database} : Record(before, Database, item)[m] = before[m]
    BY <2>1, RecordType
  <2> QED
    BY <2>2 DEF before
<1> HIDE DEF staged
<1>8. new \in CallRecords /\ new.at = "files" /\ new.kind = "backup" /\ new.staged = staged
      /\ new.todo = k.todo /\ new.reading = None /\ new.quiet = k.quiet
  BY <1>1, <1>6, <1>7 DEF CallRecords, staged
<1> HIDE DEF new
<1>9. OneMoment(staged)
  BY <1>1, <1>2, <1>4, <1>7 DEF OneMoment, CallShape
<1>10. CallShape(new)
  BY <1>2, <1>4, <1>6, <1>7, <1>8, <1>9 DEF CallShape, StepShape, DatabaseShape, SealShape, QuietShape
<1> QED
  BY <1>5, <1>8, <1>10 DEF Moves

\* What is staged of the file that is read keeps the shape, when it claims no
\* more than was read of one moment.
LEMMA StageMoves ==
  ASSUME NEW c \in Callers, LiveInv, CallsInv,
         call[c].todo # <<>>, call[c].at \in {"files", "database", "config", "sidecars"},
         NEW item \in Entries, Stage(c, Reading(c), item),
         item.outcome = "CAPTURED_VERIFIED" => item.digest \in held[Reading(c)],
         call[c].kind = "capture" /\ item.outcome \in Read =>
             item.digest \in Regular /\ item.digest = At(Reading(c))
  PROVE  Moves(c)
<1> DEFINE k == call[c]
<1> DEFINE n == Head(k.todo)
<1> DEFINE staged == Record(k.staged, n, item)
<1> DEFINE new == [k EXCEPT !.staged = staged, !.todo = Tail(k.todo), !.reading = None]
<1>1. k \in CallRecords /\ CallShape(k) /\ k.todo # <<>> /\ k.todo \in Seq(Names)
  BY DEF CallsInv, CallRecords
<1>2. n \in Names /\ Tail(k.todo) \in Seq(Names)
  BY <1>1
<1>4. call' = [call EXCEPT ![c] = new]
  BY DEF Stage, Reading
<1>5. /\ k.at \in {"files", "database", "config", "sidecars"}
      /\ item.outcome = "CAPTURED_VERIFIED" => item.digest \in held[n]
      /\ k.kind = "capture" /\ item.outcome \in Read => item.digest \in Regular /\ item.digest = At(n)
  BY DEF Reading
<1>6. k.at = "files" => n # Database /\ Tail(k.todo) \in Seq(ConfigFiles)
  BY <1>1, NamesType DEF CallShape, StepShape
<1>7. k.at = "database" => n = Database /\ Tail(k.todo) = <<>>
  <2>1. k.at = "database" => k.todo = <<Database>>
    BY <1>1 DEF CallShape, DatabaseShape
  <2> QED
    BY <2>1, OneElement
<1>8. k.at = "sidecars" /\ k.todo = <<Journal>> => n = Journal
  BY OneElement
<1>14. k.staged \in Items
  BY <1>1 DEF CallRecords
<1> HIDE DEF k, n
<1> DEFINE before == k.staged
<1> HIDE DEF before
<1>3. staged \in Items /\ DOMAIN staged = DOMAIN k.staged \cup {n} /\ staged[n] = item
      /\ \A m \in DOMAIN k.staged \ {n} : staged[m] = k.staged[m]
  <2>1. before \in Items /\ n \in Names /\ item \in Entries
    BY <1>2, <1>14 DEF before
  <2>2. /\ Record(before, n, item) \in Items
        /\ DOMAIN Record(before, n, item) = DOMAIN before \cup {n}
        /\ Record(before, n, item)[n] = item
        /\ \A m \in DOMAIN before \ {n} : Record(before, n, item)[m] = before[m]
    BY <2>1, RecordType
  <2> QED
    BY <2>2 DEF before
<1> HIDE DEF staged
<1>9. new \in CallRecords /\ new.at = k.at /\ new.kind = k.kind /\ new.staged = staged
      /\ new.todo = Tail(k.todo) /\ new.reading = None /\ new.quiet = k.quiet
  BY <1>1, <1>2, <1>3 DEF CallRecords
<1> HIDE DEF new
<1>10. OneMoment(staged)
  BY <1>1, <1>3, <1>5 DEF OneMoment, CallShape
<1>11. StepShape(new)
  BY <1>1, <1>5, <1>6, <1>9 DEF CallShape, StepShape
<1>12. DatabaseShape(new)
  BY <1>1, <1>3, <1>5, <1>6, <1>7, <1>9, PackageAssumption DEF CallShape, StepShape, DatabaseShape
<1>13. QuietShape(new)
  <2> SUFFICES ASSUME k.kind = "capture", k.quiet PROVE QuietShape(new)
    BY <1>9 DEF QuietShape
  <2>1. QuietShape(k)
    BY <1>1 DEF CallShape
  <2>2. ASSUME NEW m \in DOMAIN staged, staged[m].outcome \in Read
        PROVE  staged[m].digest \in Regular /\ staged[m].digest = At(m)
    BY <1>3, <1>5, <2>1, <2>2 DEF QuietShape
  <2>3. k.at = "sidecars" /\ files[Journal] # Absent => Journal \in DOMAIN staged
    BY <1>3, <1>8, <2>1 DEF QuietShape
  <2> QED
    BY <1>5, <1>9, <2>2, <2>3 DEF QuietShape
<1> QED
  BY <1>4, <1>5, <1>9, <1>10, <1>11, <1>12, <1>13 DEF Moves, CallShape, SealShape

\* A source that is a regular file is opened and its first chunk read.
LEMMA OpenMoves ==
  ASSUME NEW c \in Callers, LiveInv, CallsInv,
         call[c].todo # <<>>, call[c].at \in {"files", "database", "config", "sidecars"},
         At(Reading(c)) \in Regular, OpenSource(c)
  PROVE  Moves(c)
<1> DEFINE k == call[c]
<1> DEFINE found == At(Reading(c))
<1> DEFINE glance == [before |-> found, first |-> found[1]]
<1> DEFINE new == [k EXCEPT !.reading = glance]
<1>1. k \in CallRecords /\ CallShape(k) /\ k.todo # <<>>
      /\ k.at \in {"files", "database", "config", "sidecars"}
  BY DEF CallsInv
<1>2. found \in Regular /\ found[1] \in Numbers
  BY TwoChunks
<1>3. call' = [call EXCEPT ![c] = new]
  BY DEF OpenSource
<1> HIDE DEF k, found
<1>4. glance \in Glances /\ glance.first = glance.before[1]
  BY <1>2 DEF Glances
<1> HIDE DEF glance
<1>5. new \in CallRecords /\ new.at = k.at /\ new.kind = k.kind /\ new.staged = k.staged
      /\ new.todo = k.todo /\ new.reading = glance /\ new.quiet = k.quiet
  BY <1>1, <1>4 DEF CallRecords
<1> HIDE DEF new
<1>6. CallShape(new)
  BY <1>1, <1>4, <1>5 DEF CallShape, StepShape, DatabaseShape, SealShape, QuietShape
<1> QED
  BY <1>3, <1>5, <1>6 DEF Moves

\* What is read of a source that is still what it was is all of it.
LEMMA StableRead ==
  ASSUME NEW c \in Callers, LiveInv, CallsInv, call[c].todo # <<>>, call[c].reading # None,
         call[c].at \in {"files", "database", "config", "sidecars"}, Stable(c)
  PROVE  /\ Reading(c) \in Names
         /\ Bytes(c) \in Regular /\ Bytes(c) = At(Reading(c)) /\ Bytes(c) \in held[Reading(c)]
<1>1. call[c].todo \in Seq(Names) /\ call[c].reading \in Glances
      /\ call[c].reading.first = call[c].reading.before[1]
  BY DEF CallsInv, CallRecords, CallShape, StepShape
<1>2. Reading(c) \in Names
  BY <1>1 DEF Reading
<1>3. At(Reading(c)) = call[c].reading.before /\ At(Reading(c)) \in Regular
  BY <1>1 DEF Stable, Glances
<1>4. Bytes(c) = At(Reading(c))
  BY <1>1, <1>3, TwoChunks DEF Bytes
<1> QED
  BY <1>2, <1>3, <1>4, AtTypes

\* A configuration file is opened, or the backup refuses it.
LEMMA OpenConfigMoves ==
  ASSUME NEW c \in Callers, LiveInv, CallsInv, OpenConfig(c)
  PROVE  Moves(c)
<1>1. call[c].todo # <<>> /\ call[c].at = "files"
  BY DEF OpenConfig, Working
<1>2. CASE Fail(c)
  BY <1>2, FailMoves
<1>3. CASE At(Reading(c)) \in Regular /\ OpenSource(c)
  BY <1>1, <1>3, OpenMoves
<1> QED
  BY <1>2, <1>3 DEF OpenConfig

\* What a backup copies it has read of one moment.
LEMMA CopyConfigMoves ==
  ASSUME NEW c \in Callers, LiveInv, CallsInv, CopyConfig(c)
  PROVE  Moves(c)
<1>1. call[c].reading # None /\ call[c].at = "files" /\ call[c].kind = "backup"
  BY DEF CopyConfig, Working
<1>2. call[c].todo # <<>>
  BY <1>1 DEF CallsInv, CallShape, StepShape
<1>3. CASE Fail(c)
  BY <1>3, FailMoves
<1>4. CASE Stable(c) /\ Stage(c, Reading(c), Item("CAPTURED_VERIFIED", Bytes(c), Bytes(c)))
  <2>1. Bytes(c) \in Regular /\ Bytes(c) \in held[Reading(c)]
    BY <1>1, <1>2, <1>4, StableRead
  <2> DEFINE item == Item("CAPTURED_VERIFIED", Bytes(c), Bytes(c))
  <2>2. item \in Entries /\ item.digest = Bytes(c) /\ Stage(c, Reading(c), item)
    BY <1>4, <2>1, ItemType DEF Outcomes, Data
  <2> HIDE DEF item
  <2> QED
    BY <1>1, <1>2, <2>1, <2>2, StageMoves
<1> QED
  BY <1>3, <1>4 DEF CopyConfig

\* A capture is at one of three steps when something is left to do.
LEMMA CaptureSteps ==
  ASSUME NEW c \in Callers, CallsInv, call[c].kind = "capture", call[c].todo # <<>>
  PROVE  call[c].at \in {"database", "config", "sidecars"}
BY PackageAssumption DEF CallsInv, CallRecords, CallShape, StepShape

\* An entry without a payload claims nothing.
LEMMA NothingClaimed ==
  ASSUME NEW c \in Callers, LiveInv, CallsInv, call[c].todo # <<>>,
         call[c].at \in {"files", "database", "config", "sidecars"},
         NEW outcome \in Outcomes \ Read, Stage(c, Reading(c), NoPayload(outcome))
  PROVE  Moves(c)
<1>1. NoPayload(outcome) \in Entries /\ NoPayload(outcome).outcome = outcome
  <2>1. outcome \in Outcomes /\ None \in Data
    BY DEF Data
  <2>2. Item(outcome, None, None) \in Entries /\ Item(outcome, None, None).outcome = outcome
    BY <2>1, ItemType
  <2> QED
    BY <2>2 DEF NoPayload
<1> QED
  BY <1>1, StageMoves DEF Read

\* What is at a path that is no regular file is recorded as one of three.
LEMMA RecordedType ==
  ASSUME NEW object \in {Absent, Wrong, Unsafe}
  PROVE  RecordedAs(object) \in Outcomes \ Read
BY ObjectAssumption DEF RecordedAs, Outcomes, Read

\* A capture opens what it may, and records what it may not.
LEMMA OpenItemMoves ==
  ASSUME NEW c \in Callers, LiveInv, CallsInv, OpenItem(c)
  PROVE  Moves(c)
<1>1. call[c].todo # <<>> /\ call[c].at \in {"files", "database", "config", "sidecars"}
      /\ call[c].todo \in Seq(Names)
  BY CaptureSteps DEF OpenItem, CallsInv, CallRecords
<1>2. At(Reading(c)) \in Objects
  BY <1>1, AtTypes DEF Reading
<1>3. CASE At(Reading(c)) \in Regular /\ OpenSource(c)
  BY <1>1, <1>3, OpenMoves
<1>4. CASE Stage(c, Reading(c), NoPayload("UNREADABLE"))
  BY <1>1, <1>4, NothingClaimed DEF Outcomes, Read
<1>5. CASE At(Reading(c)) \notin Regular /\ Stage(c, Reading(c), NoPayload(RecordedAs(At(Reading(c)))))
  <2>1. RecordedAs(At(Reading(c))) \in Outcomes \ Read
    BY <1>2, <1>5, RecordedType DEF Objects
  <2> QED
    BY <1>1, <1>5, <2>1, NothingClaimed
<1> QED
  BY <1>3, <1>4, <1>5 DEF OpenItem

\* What a capture claims was read of one moment, and a quiet one of this one.
LEMMA CaptureItemMoves ==
  ASSUME NEW c \in Callers, LiveInv, CallsInv, CaptureItem(c)
  PROVE  Moves(c)
<1>1. call[c].todo # <<>> /\ call[c].at \in {"files", "database", "config", "sidecars"}
      /\ call[c].reading # None
  BY CaptureSteps DEF CaptureItem
<1>2. ASSUME NEW outcome \in Outcomes \ Read, NEW data \in Data,
             Stage(c, Reading(c), Item(outcome, data, data))
      PROVE  Moves(c)
  <2>1. Item(outcome, data, data) \in Entries /\ Item(outcome, data, data).outcome = outcome
    BY <1>2, ItemType
  <2> QED
    BY <1>1, <1>2, <2>1, StageMoves DEF Read
<1>3. ASSUME NEW outcome \in Read, NEW written \in {Bytes(c), Garbled}, Stable(c),
             Stage(c, Reading(c), Item(outcome, Bytes(c), written))
      PROVE  Moves(c)
  <2>1. Bytes(c) \in Regular /\ Bytes(c) = At(Reading(c)) /\ Bytes(c) \in held[Reading(c)]
    BY <1>1, <1>3, StableRead
  <2> DEFINE item == Item(outcome, Bytes(c), written)
  <2>2. item \in Entries /\ item.digest = Bytes(c) /\ Stage(c, Reading(c), item)
    BY <1>3, <2>1, ItemType DEF Outcomes, Data, Read
  <2> HIDE DEF item
  <2> QED
    BY <1>1, <2>1, <2>2, StageMoves
<1>4. CASE ~ Stable(c)
  <2>1. PICK read \in {None, Part} : Stage(c, Reading(c), Item("CHANGED_DURING_CAPTURE", read, read))
    BY <1>4 DEF CaptureItem
  <2> QED
    BY <1>2, <2>1 DEF Data, Outcomes, Read
<1>5. CASE Stable(c) /\ Stage(c, Reading(c), Item("UNREADABLE", Part, Part))
  BY <1>2, <1>5 DEF Data, Outcomes, Read
<1>6. CASE Stable(c) /\ Stage(c, Reading(c), Item("CAPTURED_VERIFIED", Bytes(c), Bytes(c)))
  BY <1>3, <1>6 DEF Read
<1>7. CASE Stable(c) /\ \E written \in {Bytes(c), Garbled} :
                           Stage(c, Reading(c), Item("CAPTURED_UNVERIFIED", Bytes(c), written))
  BY <1>3, <1>7 DEF Read
<1> QED
  BY <1>4, <1>5, <1>6, <1>7 DEF CaptureItem

\* A call whose staged entries stay and whose step is another.
LEMMA GotoMoves ==
  ASSUME NEW c \in Callers, CallsInv,
         NEW at \in {"folder", "config", "sidecars"}, NEW todo \in Seq(Names),
         NEW reading \in {None} \cup Nat,
         call[c].kind = "capture", Database \in DOMAIN call[c].staged,
         at = "folder" => reading \in Nat /\ todo = <<>>,
         at # "folder" => reading = None,
         at = "sidecars" => todo = IF files[Journal] = Absent THEN <<>> ELSE <<Journal>>,
         call' = [call EXCEPT ![c].at = at, ![c].todo = todo, ![c].reading = reading]
  PROVE  Moves(c)
<1> DEFINE k == call[c]
<1> DEFINE new == [k EXCEPT !.at = at, !.todo = todo, !.reading = reading]
<1>1. k \in CallRecords /\ CallShape(k) /\ k.kind = "capture" /\ Database \in DOMAIN k.staged
  BY DEF CallsInv
<1>2. call' = [call EXCEPT ![c] = new]
  <2>1. call \in [Callers -> CallRecords]
    BY DEF CallsInv
  <2>2. [call EXCEPT ![c].at = at, ![c].todo = todo, ![c].reading = reading]
        = [call EXCEPT ![c] = [[[call[c] EXCEPT !.at = at] EXCEPT !.todo = todo] EXCEPT !.reading = reading]]
    BY <2>1
  <2> QED
    BY <2>2
<1> HIDE DEF k
<1>3. new \in CallRecords /\ new.at = at /\ new.kind = k.kind /\ new.staged = k.staged
      /\ new.todo = todo /\ new.reading = reading /\ new.quiet = k.quiet
  BY <1>1 DEF CallRecords
<1> HIDE DEF new
<1>4. CallShape(new)
  BY <1>1, <1>3, PackageAssumption DEF CallShape, StepShape, DatabaseShape, SealShape, QuietShape
<1> QED
  BY <1>2, <1>3, <1>4 DEF Moves

\* No file of a directory that cannot be listed is looked at.
LEMMA UnusableMoves ==
  ASSUME NEW c \in Callers, LiveInv, CallsInv, NEW outcome \in Outcomes \ Read,
         call[c].kind = "capture", call[c].at # "publish", call[c].todo = <<>>,
         Database \in DOMAIN call[c].staged, Unusable(c, outcome)
  PROVE  Moves(c)
<1> DEFINE k == call[c]
<1> DEFINE staged == [n \in {Database} \cup ConfigFiles |->
                          IF n = Database THEN k.staged[n] ELSE NoPayload(outcome)]
<1> DEFINE new == [k EXCEPT !.at = "config", !.reading = None, !.staged = staged]
<1>1. k \in CallRecords /\ CallShape(k) /\ k.kind = "capture" /\ k.todo = <<>>
      /\ Database \in DOMAIN k.staged
  BY DEF CallsInv
<1>2. call' = [call EXCEPT ![c] = new]
  <2>1. call \in [Callers -> CallRecords]
    BY DEF CallsInv
  <2>2. [call EXCEPT ![c].at = "config", ![c].reading = None, ![c].staged =
            [n \in {Database} \cup ConfigFiles |-> IF n = Database THEN @[n] ELSE NoPayload(outcome)]]
        = [call EXCEPT ![c] = new]
    BY <2>1
  <2> QED
    BY <2>2 DEF Unusable
<1>3. NoPayload(outcome) \in Entries /\ NoPayload(outcome).outcome = outcome
  <2>1. outcome \in Outcomes /\ None \in Data
    BY DEF Data
  <2>2. Item(outcome, None, None) \in Entries /\ Item(outcome, None, None).outcome = outcome
    BY <2>1, ItemType
  <2> QED
    BY <2>2 DEF NoPayload
<1>4. k.staged \in Items /\ k.staged[Database] \in Entries
  BY <1>1 DEF CallRecords, Items
<1> HIDE DEF k
<1>5. staged \in Items /\ DOMAIN staged = {Database} \cup ConfigFiles
      /\ staged[Database] = k.staged[Database]
      /\ \A n \in ConfigFiles : staged[n].outcome \notin Read
  <2>1. {Database} \cup ConfigFiles \in SUBSET Names
    BY NamesType
  <2>2. staged \in [{Database} \cup ConfigFiles -> Entries]
    BY <1>3, <1>4
  <2>3. \A n \in ConfigFiles : staged[n] = NoPayload(outcome)
    BY NamesType
  <2>4. staged \in Items
    BY <2>1, <2>2 DEF Items
  <2> QED
    BY <1>3, <2>2, <2>3, <2>4
<1> HIDE DEF staged
<1>6. new \in CallRecords /\ new.at = "config" /\ new.kind = k.kind /\ new.staged = staged
      /\ new.todo = k.todo /\ new.reading = None /\ new.quiet = k.quiet
  BY <1>1, <1>5 DEF CallRecords
<1> HIDE DEF new
<1>7. OneMoment(staged) /\ QuietShape(new)
  BY <1>1, <1>5, <1>6 DEF OneMoment, CallShape, QuietShape, Read
<1>8. CallShape(new)
  BY <1>1, <1>5, <1>6, <1>7, PackageAssumption DEF CallShape, StepShape, DatabaseShape, SealShape
<1> QED
  BY <1>2, <1>6, <1>8 DEF Moves

\* The directory is what it was when it is listed, or its files are not looked at.
LEMMA FolderMoves ==
  ASSUME NEW c \in Callers, LiveInv, CallsInv, LookAtFolder(c) \/ ListFolder(c)
  PROVE  Moves(c)
<1>1. /\ call[c].kind = "capture" /\ call[c].at \in {"database", "folder"} /\ call[c].todo = <<>>
      /\ call \in [Callers -> CallRecords]
      /\ CallShape(call[c])
  BY DEF LookAtFolder, ListFolder, Working, CallsInv, CallShape, StepShape
<1>2. Database \in DOMAIN call[c].staged
  BY <1>1 DEF CallShape, DatabaseShape
<1>3. ASSUME NEW object \in {Absent, Wrong, Unsafe}, Unusable(c, RecordedAs(object))
      PROVE  Moves(c)
  BY <1>1, <1>2, <1>3, RecordedType, UnusableMoves
<1>4. folder \in Nat \cup {Absent, Wrong, Unsafe}
  BY DEF LiveInv, LiveTypes
<1>5. <<>> \in Seq(Names) /\ Sorted \in Seq(Names)
  BY SortedType, NamesType
<1>6. CASE LookAtFolder(c)
  <2>1. CASE folder \in Nat
    <3>1. call' = [call EXCEPT ![c].at = "folder", ![c].reading = folder]
      BY <1>6, <2>1 DEF LookAtFolder
    <3>2. call' = [call EXCEPT ![c].at = "folder", ![c].todo = <<>>, ![c].reading = folder]
      BY <1>1, <3>1 DEF CallRecords
    <3> QED
      BY <1>1, <1>2, <1>5, <2>1, <3>2, GotoMoves
  <2>2. CASE folder \notin Nat
    BY <1>3, <1>4, <1>6, <2>2 DEF LookAtFolder
  <2> QED
    BY <2>1, <2>2
<1>7. CASE ListFolder(c)
  <2>1. CASE folder = call[c].reading
    <3>1. call' = [call EXCEPT ![c].at = "config", ![c].todo = Sorted, ![c].reading = None]
      BY <1>7, <2>1, ObjectAssumption DEF ListFolder, CallsInv, CallShape, StepShape, Working
    <3> QED
      BY <1>1, <1>2, <1>5, <3>1, GotoMoves
  <2>2. CASE folder # call[c].reading /\ folder \in {Absent, Unsafe}
    <3>1. Unusable(c, RecordedAs(folder))
      BY <1>7, <2>2 DEF ListFolder
    <3> QED
      BY <1>3, <2>2, <3>1
  <2>3. CASE folder # call[c].reading /\ folder \notin {Absent, Unsafe}
    <3>1. Unusable(c, "CHANGED_DURING_CAPTURE")
      BY <1>7, <2>3 DEF ListFolder
    <3>2. "CHANGED_DURING_CAPTURE" \in Outcomes \ Read
      BY DEF Outcomes, Read
    <3> QED
      BY <1>1, <1>2, <3>1, <3>2, UnusableMoves
  <2> QED
    BY <2>1, <2>2, <2>3
<1> QED
  BY <1>6, <1>7

\* The journal is looked for after everything else.
LEMMA SidecarsMoves ==
  ASSUME NEW c \in Callers, LiveInv, CallsInv, LookForSidecars(c)
  PROVE  Moves(c)
<1> DEFINE left == IF files[Journal] = Absent THEN <<>> ELSE <<Journal>>
<1>1. /\ call[c].kind = "capture" /\ call[c].at = "config" /\ call[c].todo = <<>>
      /\ call \in [Callers -> CallRecords] /\ CallShape(call[c])
      /\ call' = [call EXCEPT ![c].at = "sidecars", ![c].todo = left]
  BY DEF LookForSidecars, Working, CallsInv
<1>2. Database \in DOMAIN call[c].staged /\ call[c].reading = None
  BY <1>1 DEF CallShape, DatabaseShape, StepShape
<1>3. left \in Seq(Names)
  BY NamesType
<1>4. left = IF files[Journal] = Absent THEN <<>> ELSE <<Journal>>
  OBVIOUS
<1> HIDE DEF left
<1>5. call' = [call EXCEPT ![c].at = "sidecars", ![c].todo = left, ![c].reading = None]
  BY <1>1, <1>2 DEF CallRecords
<1> QED
  BY <1>1, <1>2, <1>3, <1>4, <1>5, GotoMoves

\* What is sealed was verified, and a quiet capture has passed by no journal.
LEMMA SealMoves ==
  ASSUME NEW c \in Callers, LiveInv, CallsInv, SealBackup(c) \/ SealCapture(c)
  PROVE  Moves(c) /\ second' \in Nat
<1> DEFINE k == call[c]
<1>1. k \in CallRecords /\ CallShape(k) /\ k.todo = <<>>
      /\ call \in [Callers -> CallRecords]
  BY DEF CallsInv, SealBackup, SealCapture
<1>2. second' \in Nat
  BY PackageAssumption DEF CallsInv, SealBackup, SealCapture, fixed
<1>3. CASE Fail(c)
  BY <1>2, <1>3, FailMoves
<1>4. ASSUME NEW id \in Ids,
             \/ k.kind = "backup" /\ k.at = "files" /\ WholePayload(k.staged)
             \/ k.kind = "capture" /\ k.at = "sidecars" /\ SelfConsistent(k.staged),
             call' = [call EXCEPT ![c].at = "publish", ![c].reading = id]
      PROVE  Moves(c)
  <2> DEFINE new == [k EXCEPT !.at = "publish", !.reading = id]
  <2>1. call' = [call EXCEPT ![c] = new]
    BY <1>1, <1>4
  <2> HIDE DEF k
  <2>2. new \in CallRecords /\ new.at = "publish" /\ new.kind = k.kind /\ new.staged = k.staged
        /\ new.todo = k.todo /\ new.reading = id /\ new.quiet = k.quiet
    BY <1>1, <1>4 DEF CallRecords
  <2> HIDE DEF new
  <2>3. OneMoment(new.staged) /\ StepShape(new) /\ SealShape(new)
    BY <1>1, <1>4, <2>2, PackageAssumption DEF CallShape, StepShape, SealShape
  <2>4. DatabaseShape(new)
    BY <1>1, <1>4, <2>2 DEF CallShape, DatabaseShape
  <2>5. QuietShape(new)
    BY <1>1, <1>4, <2>2, OneElement DEF CallShape, QuietShape
  <2>6. CallShape(new)
    BY <2>3, <2>4, <2>5 DEF CallShape
  <2> QED
    BY <2>1, <2>2, <2>6 DEF Moves
<1>5. CASE SealBackup(c) /\ ~ Fail(c)
  <2>1. k.kind = "backup" /\ k.at = "files" /\ WholePayload(k.staged)
        /\ call' = [call EXCEPT ![c].at = "publish", ![c].reading = BackupId(c, second')]
    BY <1>5 DEF SealBackup, Working
  <2>2. BackupId(c, second') \in Ids
    <3>1. PICK S \in SUBSET Names : k.staged \in [S -> Entries]
      BY <1>1 DEF CallRecords, Items
    <3>2. [n \in DOMAIN k.staged |-> k.staged[n].digest] \in [S -> Data]
      BY <3>1 DEF Entries
    <3> QED
      BY <1>2, <3>2 DEF BackupId, Ids
  <2> QED
    BY <1>2, <1>4, <2>1, <2>2
<1>6. CASE SealCapture(c) /\ ~ Fail(c)
  <2>1. k.kind = "capture" /\ k.at = "sidecars" /\ SelfConsistent(k.staged)
        /\ call' = [call EXCEPT ![c].at = "publish", ![c].reading = CaptureId(c)]
    BY <1>6 DEF SealCapture, Working
  <2>2. CaptureId(c) \in Ids
    BY DEF CaptureId, Ids, CallsInv
  <2> QED
    BY <1>2, <1>4, <2>1, <2>2
<1> QED
  BY <1>3, <1>5, <1>6

----------------------------------------------------------------------------
(* The calls, the packages, and all of it *)

\* A step of one call leaves the others what they were.
LEMMA CallsKept ==
  ASSUME CallsInv, NEW c \in Callers, Moves(c), UNCHANGED liveVars,
         attempts' \in [{"backup", "capture"} -> Nat], second' \in Nat
  PROVE  CallsInv'
<1>1. PICK k \in CallRecords : CallShape(k) /\ call' = [call EXCEPT ![c] = k]
  BY DEF Moves
<1>2. call' \in [Callers -> CallRecords]
  BY <1>1 DEF CallsInv
<1>3. ASSUME NEW d \in Callers
      PROVE  CallShape(call'[d])
  BY <1>1 DEF CallsInv
<1>4. ASSUME NEW r, CallShape(r)
      PROVE  CallShape(r)'
  BY <1>4 DEF liveVars, CallShape, StepShape, DatabaseShape, OneMoment, SealShape, QuietShape, At
<1>5. \A d \in Callers : CallShape(call[d])'
  BY <1>3, <1>4
<1> QED
  BY <1>2, <1>5 DEF CallsInv

\* What nothing but the call touches stays.
LEMMA PackagesStay ==
  ASSUME PackagesInv, UNCHANGED <<liveVars, packages>>
  PROVE  PackagesInv'
BY DEF PackagesInv, PackageShape, OneMoment, Recoverable, liveVars

\* What is published of a call is what the invariant says of a package.
LEMMA PackagePublished ==
  ASSUME NEW c \in Callers, LiveInv, CallsInv, call[c].at = "publish"
  PROVE  Package(c) \in PackageRecords /\ PackageShape(Package(c)) /\ Verifies(Package(c))
<1> DEFINE k == call[c]
<1> DEFINE p == Package(c)
<1>1. k \in CallRecords /\ CallShape(k) /\ k.at = "publish"
  BY DEF CallsInv
<1>2. /\ p = [id |-> k.reading, kind |-> k.kind, items |-> k.staged, quiet |-> k.quiet, sealed |-> TRUE]
      /\ k.kind \in {"backup", "capture"} /\ Database \in DOMAIN k.staged
  BY <1>1 DEF Package, CallRecords, CallShape, StepShape, DatabaseShape
<1> HIDE DEF k, p
<1>3. p \in PackageRecords
  BY <1>1, <1>2 DEF CallRecords, PackageRecords
<1>4. Verifies(p)
  BY <1>1, <1>2 DEF Verifies, CallShape, SealShape
<1>5. ASSUME k.kind = "capture", k.quiet
      PROVE  Recoverable(k.staged)
  <2> SUFFICES ASSUME k.staged[Database].outcome = "CAPTURED_VERIFIED",
                      ~ OneCommit(k.staged[Database].digest)
               PROVE  /\ Journal \in DOMAIN k.staged
                      /\ k.staged[Journal].outcome \in Read => OneCommit(k.staged[Journal].digest)
    BY DEF Recoverable
  <2>1. QuietShape(k)
    BY <1>1 DEF CallShape
  <2>2. k.staged[Database].digest \in Regular /\ k.staged[Database].digest = files[Database]
    BY <1>2, <1>5, <2>1, AtTypes, NamesType DEF QuietShape, Read
  <2>3. OneCommit(files[Journal])
    BY <2>2 DEF LiveInv, LiveShape
  <2>4. Journal \in DOMAIN k.staged
    BY <1>1, <1>5, <2>1, <2>3, OneCommitRegular DEF QuietShape
  <2>5. At(Journal) = files[Journal]
    BY AtTypes, NamesType
  <2> QED
    BY <1>5, <2>1, <2>3, <2>4, <2>5 DEF QuietShape
<1>6. p.kind = k.kind /\ p.items = k.staged /\ p.quiet = k.quiet
  BY <1>2
<1>7. PackageShape(p)
  BY <1>1, <1>2, <1>5, <1>6 DEF PackageShape, CallShape, DatabaseShape
<1> QED
  BY <1>3, <1>4, <1>7 DEF p

\* One rename adds one package, under an id that none has.
LEMMA PackagesPublished ==
  ASSUME NEW c \in Callers, LiveInv, CallsInv, PackagesInv, PublishPackage(c)
  PROVE  PackagesInv'
<1>1. call[c].at = "publish" /\ UNCHANGED liveVars
      /\ packages' = packages \cup IF call[c].reading \in Taken THEN {} ELSE {Package(c)}
  BY DEF PublishPackage
<1>2. Package(c) \in PackageRecords /\ PackageShape(Package(c)) /\ Package(c).id = call[c].reading
  BY <1>1, PackagePublished DEF Package
<1>3. ASSUME NEW p, PackageShape(p)
      PROVE  PackageShape(p)'
  BY <1>1, <1>3 DEF PackageShape, OneMoment, Recoverable, liveVars
<1>4. packages' \subseteq PackageRecords /\ \A p \in packages' : PackageShape(p)
  BY <1>1, <1>2 DEF PackagesInv
<1>5. \A p, q \in packages' : p.id = q.id => p = q
  BY <1>1, <1>2 DEF PackagesInv, Taken
<1>6. \A p \in packages' : PackageShape(p)'
  BY <1>3, <1>4
<1> QED
  BY <1>4, <1>5, <1>6 DEF PackagesInv

\* Damage touches a marker or a payload, and neither an id nor a digest.
LEMMA DamagedAs ==
  ASSUME PackagesInv, DamagePackage
  PROVE  \E p \in packages, q \in PackageRecords :
            /\ packages' = (packages \ {p}) \cup {q}
            /\ q.id = p.id /\ q.kind = p.kind /\ q.quiet = p.quiet
            /\ DOMAIN q.items = DOMAIN p.items
            /\ \A n \in DOMAIN p.items : q.items[n].outcome = p.items[n].outcome
                                         /\ q.items[n].digest = p.items[n].digest
            /\ ~ Verifies(q)
<1>1. PICK p \in packages, n \in Names :
        /\ p.kind = "backup"
        /\ \E q \in {[p EXCEPT !.sealed = FALSE]}
                    \cup IF n \in DOMAIN p.items THEN {[p EXCEPT !.items[n].payload = Garbled]} ELSE {} :
             packages' = (packages \ {p}) \cup {q}
  BY DEF DamagePackage
<1>2. p \in PackageRecords
  BY DEF PackagesInv
<1>3. CASE packages' = (packages \ {p}) \cup {[p EXCEPT !.sealed = FALSE]}
  <2> DEFINE q == [p EXCEPT !.sealed = FALSE]
  <2>1. q \in PackageRecords /\ q.id = p.id /\ q.kind = p.kind /\ q.quiet = p.quiet
        /\ q.items = p.items /\ ~ q.sealed
    BY <1>2 DEF PackageRecords
  <2>2. packages' = (packages \ {p}) \cup {q} /\ ~ Verifies(q)
    BY <1>3, <2>1 DEF Verifies
  <2> HIDE DEF q
  <2> QED
    BY <2>1, <2>2
<1>4. CASE n \in DOMAIN p.items /\ packages' = (packages \ {p}) \cup {[p EXCEPT !.items[n].payload = Garbled]}
  <2> DEFINE item == [p.items[n] EXCEPT !.payload = Garbled]
  <2> DEFINE items == [p.items EXCEPT ![n] = item]
  <2> DEFINE q == [p EXCEPT !.items = items]
  <2>1. PICK S \in SUBSET Names : p.items \in [S -> Entries]
    BY <1>2 DEF PackageRecords, Items
  <2>2. item \in Entries /\ item.outcome = p.items[n].outcome /\ item.digest = p.items[n].digest
        /\ item.payload = Garbled
    BY <1>4, <2>1 DEF Entries, Data
  <2>3. packages' = (packages \ {p}) \cup {q}
    BY <1>4
  <2> HIDE DEF item
  <2>4. items \in [S -> Entries] /\ items[n] = item /\ \A m \in DOMAIN p.items \ {n} : items[m] = p.items[m]
    BY <1>4, <2>1, <2>2
  <2> HIDE DEF items
  <2>5. items \in Items
    BY <2>4 DEF Items
  <2>6. q \in PackageRecords /\ q.id = p.id /\ q.kind = p.kind /\ q.quiet = p.quiet /\ q.items = items
    BY <1>2, <2>5 DEF PackageRecords
  <2> HIDE DEF q
  <2>7. DOMAIN items = DOMAIN p.items /\ n \in DOMAIN items
    BY <1>4, <2>1, <2>4
  <2>8. ~ Verifies(q)
    BY <1>1, <2>2, <2>4, <2>6, <2>7, PackageAssumption DEF Verifies, WholePayload
  <2>9. \A m \in DOMAIN p.items : q.items[m].outcome = p.items[m].outcome
                                  /\ q.items[m].digest = p.items[m].digest
    BY <2>2, <2>4, <2>6
  <2> QED
    BY <2>3, <2>6, <2>7, <2>8, <2>9
<1> QED
  BY <1>1, <1>3, <1>4

\* What a damaged package claims is what it claimed before.
LEMMA PackagesDamaged ==
  ASSUME PackagesInv, DamagePackage
  PROVE  PackagesInv'
<1>1. UNCHANGED liveVars
  BY DEF DamagePackage
<1>2. PICK p \in packages, q \in PackageRecords :
            /\ packages' = (packages \ {p}) \cup {q}
            /\ q.id = p.id /\ q.kind = p.kind /\ q.quiet = p.quiet
            /\ DOMAIN q.items = DOMAIN p.items
            /\ \A n \in DOMAIN p.items : q.items[n].outcome = p.items[n].outcome
                                         /\ q.items[n].digest = p.items[n].digest
  BY DamagedAs
<1>3. PackageShape(p)
  BY DEF PackagesInv
<1>4. PackageShape(q)
  <2>1. Database \in DOMAIN q.items /\ (q.kind = "backup" => OneCommit(q.items[Database].digest))
    BY <1>2, <1>3 DEF PackageShape
  <2>2. OneMoment(q.items)
    BY <1>2, <1>3 DEF PackageShape, OneMoment
  <2>3. ASSUME q.kind = "capture", q.quiet
        PROVE  Recoverable(q.items)
    <3>1. Recoverable(p.items)
      BY <1>2, <1>3, <2>3 DEF PackageShape
    <3> QED
      BY <1>2, <1>3, <2>3, <3>1 DEF Recoverable, PackageShape
  <2> QED
    BY <2>1, <2>2, <2>3 DEF PackageShape
<1>5. ASSUME NEW r, PackageShape(r)
      PROVE  PackageShape(r)'
  BY <1>1, <1>5 DEF PackageShape, OneMoment, Recoverable, liveVars
<1>6. packages' \subseteq PackageRecords /\ \A r \in packages' : PackageShape(r)
  BY <1>2, <1>4 DEF PackagesInv
<1>7. \A r, s \in packages' : r.id = s.id => r = s
  BY <1>2 DEF PackagesInv
<1>8. \A r \in packages' : PackageShape(r)'
  BY <1>5, <1>6
<1> QED
  BY <1>6, <1>7, <1>8 DEF PackagesInv

\* What was there at one moment stays so, whatever changes afterwards.
LEMMA MomentStays ==
  ASSUME NEW items \in Items, OneMoment(items), \A n \in Names : held[n] \subseteq held'[n]
  PROVE  OneMoment(items)'
<1>1. DOMAIN items \subseteq Names
  BY DEF Items
<1>2. \A n \in DOMAIN items : items[n].outcome = "CAPTURED_VERIFIED" => items[n].digest \in held'[n]
  BY <1>1 DEF OneMoment
<1> QED
  BY <1>2 DEF OneMoment

\* Whatever changes beside the calls, each of them is quiet no more.
LEMMA LiveStepKeeps ==
  ASSUME IInv, LiveStep
  PROVE  IInv'
<1>1. LiveInv' /\ \A n \in Names : held[n] \subseteq held'[n]
  BY LiveStepInv DEF LiveStep, IInv
<1>2. call' = [c \in Callers |-> IF call[c].at = "idle" THEN call[c] ELSE [call[c] EXCEPT !.quiet = FALSE]]
      /\ UNCHANGED <<packages, second, attempts, damage>>
  BY DEF LiveStep, fixed
<1>3. ASSUME NEW r \in CallRecords, CallShape(r), r.at = "idle" \/ ~ r.quiet
      PROVE  CallShape(r)'
  <2>1. r.staged \in Items /\ OneMoment(r.staged)
    BY <1>3 DEF CallRecords, CallShape
  <2>2. OneMoment(r.staged)'
    BY <1>1, <2>1, MomentStays
  <2>3. r.kind = "capture" => r.at # "idle"
    BY <1>3, PackageAssumption DEF CallShape, StepShape
  <2>4. QuietShape(r)'
    BY <1>3, <2>3 DEF QuietShape
  <2> QED
    BY <1>3, <2>2, <2>4 DEF CallShape, StepShape, DatabaseShape, SealShape
<1>4. ASSUME NEW c \in Callers
      PROVE  /\ call'[c] \in CallRecords /\ CallShape(call'[c])
             /\ call'[c].at = "idle" \/ ~ call'[c].quiet
  <2> DEFINE k == call[c]
  <2>1. k \in CallRecords /\ CallShape(k)
    BY DEF IInv, CallsInv
  <2>2. CASE k.at = "idle"
    BY <1>2, <2>1, <2>2
  <2>3. CASE k.at # "idle"
    <3> DEFINE new == [k EXCEPT !.quiet = FALSE]
    <3>1. call'[c] = new
      BY <1>2, <2>3
    <3> HIDE DEF k
    <3>2. new \in CallRecords /\ new.at = k.at /\ new.kind = k.kind /\ new.staged = k.staged
          /\ new.todo = k.todo /\ new.reading = k.reading /\ new.quiet = FALSE
      BY <2>1 DEF CallRecords
    <3> HIDE DEF new
    <3>3. CallShape(new)
      BY <2>1, <3>2 DEF CallShape, StepShape, DatabaseShape, SealShape, QuietShape
    <3> QED
      BY <3>1, <3>2, <3>3
  <2> QED
    BY <2>2, <2>3
<1>5. CallsInv'
  <2>1. call' \in [Callers -> CallRecords]
    BY <1>2, <1>4
  <2>2. \A c \in Callers : CallShape(call[c])'
    BY <1>3, <1>4
  <2> QED
    BY <1>2, <2>1, <2>2 DEF IInv, CallsInv
<1>6. PackagesInv'
  <2>1. ASSUME NEW p \in packages
        PROVE  PackageShape(p)'
    <3>1. p.items \in Items /\ PackageShape(p)
      BY DEF IInv, PackagesInv, PackageRecords
    <3>2. OneMoment(p.items)'
      BY <1>1, <3>1, MomentStays DEF PackageShape
    <3> QED
      BY <3>1, <3>2 DEF PackageShape, Recoverable
  <2> QED
    BY <1>2, <2>1 DEF IInv, PackagesInv
<1> QED
  BY <1>1, <1>5, <1>6 DEF IInv

\* Init implies the invariant.
LEMMA Start == Init => IInv
<1> SUFFICES ASSUME Init PROVE IInv
  OBVIOUS
<1>1. LiveInv
  BY LiveStart DEF Init
<1>2. CallsInv
  BY IdleShape DEF Init, CallsInv
<1>3. PackagesInv
  BY DEF Init, PackagesInv
<1> QED
  BY <1>1, <1>2, <1>3 DEF IInv

\* What a step of a call that is not the rename changes.
CallStep(c) ==
    \/ BeginBackup(c) \/ Snapshot(c) \/ SnapshotFails(c) \/ OpenConfig(c) \/ CopyConfig(c) \/ SealBackup(c)
    \/ BeginCapture(c) \/ OpenItem(c) \/ CaptureItem(c) \/ LookAtFolder(c) \/ ListFolder(c)
    \/ LookForSidecars(c) \/ SealCapture(c) \/ Kill(c)

\* A step of a call reads the live system and publishes nothing.
LEMMA CallStepReads ==
  ASSUME NEW c \in Callers, CallStep(c)
  PROVE  UNCHANGED <<liveVars, packages>>
BY DEF CallStep, BeginBackup, Snapshot, SnapshotFails, OpenConfig, CopyConfig, SealBackup,
       BeginCapture, Begin, OpenItem, CaptureItem, LookAtFolder, ListFolder,
       LookForSidecars, SealCapture, Kill

\* Every step of a call keeps its shape.
LEMMA CallStepMoves ==
  ASSUME IInv, NEW c \in Callers, CallStep(c)
  PROVE  Moves(c) /\ attempts' \in [{"backup", "capture"} -> Nat] /\ second' \in Nat
<1>1. LiveInv /\ CallsInv
  BY DEF IInv
<1>2. CASE BeginBackup(c) \/ BeginCapture(c)
  BY <1>1, <1>2, BeginMoves DEF BeginBackup, BeginCapture, Begin, CallsInv
<1>3. CASE SealBackup(c) \/ SealCapture(c)
  BY <1>1, <1>3, SealMoves DEF SealBackup, SealCapture, CallsInv, fixed
<1>4. CASE UNCHANGED fixed /\ ~ (BeginBackup(c) \/ BeginCapture(c) \/ SealBackup(c) \/ SealCapture(c))
  <2>1. ASSUME SnapshotFails(c) \/ Kill(c)
        PROVE  Moves(c)
    BY <2>1, FailMoves DEF SnapshotFails, Kill
  <2>2. Moves(c)
    <3>1. CASE Snapshot(c) \/ OpenConfig(c) \/ CopyConfig(c)
      BY <1>1, <3>1, SnapshotMoves, OpenConfigMoves, CopyConfigMoves
    <3>2. CASE OpenItem(c) \/ CaptureItem(c)
      BY <1>1, <3>2, OpenItemMoves, CaptureItemMoves
    <3>3. CASE LookAtFolder(c) \/ ListFolder(c) \/ LookForSidecars(c)
      BY <1>1, <3>3, FolderMoves, SidecarsMoves
    <3> QED
      BY <1>4, <2>1, <3>1, <3>2, <3>3 DEF CallStep
  <2> QED
    BY <1>1, <1>4, <2>2 DEF fixed, CallsInv
<1>5. UNCHANGED fixed \/ BeginBackup(c) \/ BeginCapture(c) \/ SealBackup(c) \/ SealCapture(c)
  BY DEF CallStep, Snapshot, SnapshotFails, OpenConfig, CopyConfig,
         OpenItem, CaptureItem, LookAtFolder, ListFolder, LookForSidecars, Kill
<1> QED
  BY <1>2, <1>3, <1>4, <1>5

\* The invariant is inductive.
LEMMA Step == IInv /\ [Next]_vars => IInv'
<1> SUFFICES ASSUME IInv, [Next]_vars PROVE IInv'
  OBVIOUS
<1> USE DEF IInv
<1>1. CASE UNCHANGED vars
  <2>1. LiveInv'
    BY <1>1 DEF vars, liveVars, LiveInv, LiveTypes, LiveShape, OneCommit
  <2>2. CallsInv'
    BY <1>1 DEF vars, liveVars, CallsInv, CallShape, StepShape, DatabaseShape, OneMoment, SealShape, QuietShape, At
  <2>3. PackagesInv'
    BY <1>1, PackagesStay DEF vars
  <2> QED
    BY <2>1, <2>2, <2>3
<1>2. CASE LiveStep
  BY <1>2, LiveStepKeeps
<1>3. ASSUME UNCHANGED liveVars PROVE LiveInv'
  BY <1>3 DEF liveVars, LiveInv, LiveTypes, LiveShape, OneCommit
<1>4. CASE DamagePackage
  <2>1. CallsInv'
    BY <1>4 DEF DamagePackage, liveVars, CallsInv, CallShape, StepShape, DatabaseShape, OneMoment,
                SealShape, QuietShape, At
  <2> QED
    BY <1>3, <1>4, <2>1, PackagesDamaged DEF DamagePackage
<1>5. ASSUME NEW c \in Callers, CallStep(c)
      PROVE  IInv'
  <2>1. UNCHANGED <<liveVars, packages>>
    BY <1>5, CallStepReads
  <2>2. CallsInv'
    BY <1>5, <2>1, CallStepMoves, CallsKept
  <2> QED
    BY <1>3, <2>1, <2>2, PackagesStay
<1>6. ASSUME NEW c \in Callers, PublishPackage(c)
      PROVE  IInv'
  <2>1. UNCHANGED <<liveVars, second, attempts>> /\ Fail(c)
    BY <1>6 DEF PublishPackage, fixed
  <2>2. Moves(c)
    BY <2>1, FailMoves
  <2>3. CallsInv'
    BY <2>1, <2>2, CallsKept DEF CallsInv
  <2> QED
    BY <1>3, <1>6, <2>1, <2>3, PackagesPublished
<1> QED
  BY <1>1, <1>2, <1>4, <1>5, <1>6 DEF Next, CallStep

\* The invariant that all the properties below rest on holds throughout.
THEOREM Invariance == Spec => []IInv
BY Start, Step, PTL DEF Spec

----------------------------------------------------------------------------
(* The properties *)

\* sqlite_snapshot.py:41-80: a backup holds the database as one transaction left
\* it, whatever was being written while it was made.
THEOREM OneCommitEach == Spec => []BackupIsOneCommit
<1>1. IInv => BackupIsOneCommit
  BY DEF IInv, PackagesInv, PackageShape, BackupIsOneCommit
<1> QED
  BY <1>1, Invariance, PTL

\* fsutil.py:151, capture_io.py:87: whatever a package claims as verified is what
\* the file held at one moment.
THEOREM OneMomentEach == Spec => []CopiesAreOfOneMoment
<1>1. IInv => CopiesAreOfOneMoment
  BY DEF IInv, PackagesInv, PackageShape, OneMoment, CopiesAreOfOneMoment
<1> QED
  BY <1>1, Invariance, PTL

\* capture_manager.py, capture_config_slot() and capture_sidecars(): the order in
\* which a capture reads, the journal last, is enough to recover from it when
\* nothing changed meanwhile.
THEOREM QuietRecovers == Spec => []QuietCaptureRecovers
<1>1. IInv => QuietCaptureRecovers
  BY DEF IInv, PackagesInv, PackageShape, Recoverable, Read, QuietCaptureRecovers
<1> QED
  BY <1>1, Invariance, PTL

\* publish_staged_backup(), publish_staged_capture(): packages appear at once and
\* whole under ids no package has, and only damage makes one fail verification.
THEOREM Refinement == Spec => ImplementsStore
<1> DEFINE intact == {p.id : p \in {q \in packages : Verifies(q)}}
<1>1. Init => Store!StoreInit
  BY DEF Init, Store!StoreInit, Taken
<1>2. IInv /\ [Next]_vars => [Store!StoreNext]_(Store!storeVars)
  <2> SUFFICES ASSUME IInv, [Next]_vars
               PROVE  Store!StoreNext \/ (Taken' = Taken /\ intact' = intact)
    BY DEF Store!storeVars
  <2>1. CASE packages' = packages
    BY <2>1 DEF Taken, Verifies, WholePayload, SelfConsistent, Regular, Numbers
  <2>2. ASSUME NEW c \in Callers, PublishPackage(c), packages' # packages
        PROVE  Store!StoreNext
    <3>1. /\ call[c].reading \notin Taken
          /\ packages' = packages \cup {Package(c)}
          /\ Package(c).id = call[c].reading
      BY <2>2 DEF PublishPackage, Package
    <3>2. Verifies(Package(c))
      BY <2>2, PackagePublished DEF PublishPackage, IInv
    <3>3. PICK id : id = call[c].reading
      OBVIOUS
    <3>4. Taken' = Taken \cup {id} /\ intact' = intact \cup {id}
      BY <3>1, <3>2, <3>3 DEF Taken, Verifies, WholePayload, SelfConsistent, Regular, Numbers
    <3>5. Store!Publish(id) /\ id \in Taken'
      BY <3>1, <3>3, <3>4 DEF Store!Publish
    <3> QED
      BY <3>5 DEF Store!StoreNext
  <2>3. ASSUME DamagePackage
        PROVE  Store!StoreNext \/ (Taken' = Taken /\ intact' = intact)
    <3>1. PICK p \in packages, q \in PackageRecords :
            packages' = (packages \ {p}) \cup {q} /\ q.id = p.id /\ ~ Verifies(q)
      BY <2>3, DamagedAs DEF IInv
    <3>2. \A r \in packages : r.id = p.id => r = p
      BY DEF IInv, PackagesInv
    <3>3. Taken' = Taken
      BY <3>1 DEF Taken
    <3>7. \A r : Verifies(r)' <=> Verifies(r)
      BY DEF Verifies, WholePayload, SelfConsistent, Regular, Numbers
    <3>8. intact' = {r.id : r \in {s \in packages' : Verifies(s)}}
      BY <3>7
    <3>4. intact' = intact \ {p.id}
      BY <3>1, <3>2, <3>8
    <3>5. CASE p.id \in intact
      BY <3>3, <3>4, <3>5 DEF Store!StoreNext, Store!Damage
    <3>6. CASE p.id \notin intact
      BY <3>3, <3>4, <3>6
    <3> QED
      BY <3>5, <3>6
  <2>4. ASSUME NEW c \in Callers, CallStep(c)
        PROVE  packages' = packages
    BY <2>4, CallStepReads
  <2> QED
    BY <2>1, <2>2, <2>3, <2>4 DEF Next, vars, LiveStep, CallStep
<1> QED
  BY <1>1, <1>2, Invariance, PTL DEF Spec, ImplementsStore, Store!StoreSpec

=============================================================================
