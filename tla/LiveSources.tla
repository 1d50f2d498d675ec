----------------------------- MODULE LiveSources -----------------------------
(***************************************************************************)
(* The live system that backups and degraded-source captures are made of:  *)
(* the SQLite database file with its rollback journal, and the files of    *)
(* the configuration directory, all of which others go on changing.        *)
(*                                                                         *)
(* A regular file is two chunks, each the number of the change that wrote  *)
(* it.  Numbers only grow, so equal chunks stand for equal fingerprints    *)
(* (size, mtime_ns, inode, device).                                        *)
(***************************************************************************)
EXTENDS Naturals, FiniteSets

CONSTANTS
    ConfigFiles,    \* REQUIRED_FILES of the configuration
    Database,       \* the database file
    Journal,        \* its rollback journal, the one sidecar it has
    Absent,         \* nothing is at a path
    Wrong,          \* a directory, or another object that is no regular file
    Unsafe,         \* a link, a junction, another reparse point
    MaxCommits,     \* bound: transactions
    MaxEdits,       \* bound: changes to configuration files
    MaxDisturb      \* bound: live objects lost or replaced

ASSUME SourcesAssumption ==
    /\ {Database, Journal} \cap ConfigFiles = {} /\ Database # Journal
    /\ IsFiniteSet(ConfigFiles)
    /\ {MaxCommits, MaxEdits, MaxDisturb} \subseteq Nat

VARIABLES
    files,      \* what is at each path
    folder,     \* the configuration directory: its inode and mtime, or another object
    writer,     \* "idle", "writing" (it holds the exclusive lock) or "dead"
    commits,    \* transactions committed so far, 0 being the initial state
    changes,    \* numbers given to edits and disturbances
    held        \* history: every content each file ever had

liveVars == <<files, folder, writer, commits, changes, held>>

Names == ConfigFiles \cup {Database, Journal}
Numbers == 0 .. MaxCommits + MaxEdits + MaxDisturb
Regular == Numbers \X Numbers
Objects == Regular \cup {Absent, Wrong, Unsafe}

\* What is no regular file is told apart from every file and every directory.
ASSUME ObjectAssumption ==
    /\ {Absent, Wrong, Unsafe} \cap (Regular \cup Nat) = {}
    /\ Absent # Wrong /\ Absent # Unsafe /\ Wrong # Unsafe

LiveInit ==
    /\ files = [n \in Names |-> IF n = Journal THEN Absent ELSE <<0, 0>>]
    /\ folder = 0
    /\ writer = "idle"
    /\ commits = 0
    /\ changes = [edits |-> 0, disturbed |-> 0]
    /\ held = [n \in Names |-> {files[n]}]

\* What a path leads to; a link in place of the directory is followed.
At(n) == IF n \in ConfigFiles /\ folder \in {Absent, Wrong} THEN Absent ELSE files[n]

\* What is read there when links are followed; they lead to the file as it was.
Behind(n) == IF At(n) = Unsafe THEN <<0, 0>> ELSE At(n)

NewFolder == changes.edits + changes.disturbed + 1

Put(n, object) ==
    /\ files' = [files EXCEPT ![n] = object]
    /\ held' = [held EXCEPT ![n] = @ \cup {object}]

\* A transaction: the journal first, the pages under the exclusive lock, and
\* the commit is the removal of the journal.
BeginWrite ==
    /\ writer = "idle"
    /\ commits < MaxCommits
    /\ files[Database] \in Regular
    /\ files[Journal] = Absent
    /\ Put(Journal, files[Database])
    /\ writer' = "writing"
    /\ UNCHANGED <<folder, commits, changes>>

WritePage(i) ==
    /\ writer = "writing"
    /\ files[Database][i] # commits + 1
    /\ i = 2 => files[Database][1] = commits + 1
    /\ Put(Database, [files[Database] EXCEPT ![i] = commits + 1])
    /\ UNCHANGED <<folder, writer, commits, changes>>

CommitWrite ==
    /\ writer = "writing"
    /\ files[Database] = <<commits + 1, commits + 1>>
    /\ Put(Journal, Absent)
    /\ writer' = "idle"
    /\ commits' = commits + 1
    /\ UNCHANGED <<folder, changes>>

\* The process dies: its lock is gone, its journal stays and is hot.
WriterDies ==
    /\ writer = "writing"
    /\ writer' = "dead"
    /\ UNCHANGED <<files, folder, commits, changes, held>>

\* The next connection that may write rolls the journal back.
RollBack ==
    /\ writer = "dead"
    /\ files' = [files EXCEPT ![Database] = files[Journal], ![Journal] = Absent]
    /\ held' = [held EXCEPT ![Journal] = @ \cup {Absent}]
    /\ writer' = "idle"
    /\ UNCHANGED <<folder, commits, changes>>

\* An editor writes half of a configuration file in place ...
EditConfig(c) ==
    LET n == changes.edits + 1
    IN  /\ changes.edits < MaxEdits
        /\ At(c) \in Regular
        /\ \E i \in 1 .. 2 : Put(c, [files[c] EXCEPT ![i] = n])
        /\ changes' = [changes EXCEPT !.edits = n]
        /\ UNCHANGED <<folder, writer, commits>>

\* ... or saves it as a new file, which the directory's mtime shows.
SaveConfig(c) ==
    LET n == changes.edits + 1
    IN  /\ changes.edits < MaxEdits
        /\ At(c) \in Regular
        /\ Put(c, <<n, n>>)
        /\ changes' = [changes EXCEPT !.edits = n]
        /\ folder' = IF folder = Unsafe THEN Unsafe ELSE NewFolder
        /\ UNCHANGED <<writer, commits>>

\* A live object is lost, or something else is put in its place.
Disturb ==
    /\ changes.disturbed < MaxDisturb
    /\ changes' = [changes EXCEPT !.disturbed = @ + 1]
    /\ \/ \E n \in Names, object \in {Absent, Wrong, Unsafe} :
            /\ n # Journal => files[n] \in Regular
            /\ n \in {Database, Journal} => files[Journal] = Absent /\ writer = "idle"
            /\ Put(n, object)
            /\ UNCHANGED folder
       \/ \E object \in {Absent, Wrong, Unsafe, NewFolder} :
            folder' = object /\ UNCHANGED <<files, held>>
    /\ UNCHANGED <<writer, commits>>

LiveNext ==
    \/ BeginWrite \/ CommitWrite \/ WriterDies \/ RollBack \/ Disturb
    \/ \E i \in 1 .. 2 : WritePage(i)
    \/ \E c \in ConfigFiles : EditConfig(c) \/ SaveConfig(c)

LiveTypeOK ==
    /\ files \in [Names -> Objects]
    /\ folder \in Nat \cup {Absent, Wrong, Unsafe}
    /\ writer \in {"idle", "writing", "dead"}
    /\ commits \in 0 .. MaxCommits
    /\ \A n \in Names : held[n] \subseteq Objects /\ files[n] \in held[n]
=============================================================================
