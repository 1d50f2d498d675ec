--------------------------- MODULE SystemPackages ---------------------------
(***************************************************************************)
(* backup/manager.py and backup/package.py, restore/capture_manager.py,    *)
(* capture_package.py and capture_io.py: a backup refuses whatever is not  *)
(* whole and stable; a degraded-source capture records what it meets and   *)
(* seals it all the same.  Both stage in a directory of their own, seal,   *)
(* and publish with one rename that replaces nothing.                      *)
(*                                                                         *)
(* Staging directories are never used again: one that is left behind is    *)
(* not modelled further.                                                   *)
(***************************************************************************)
EXTENDS LiveSources, Sequences, FiniteSetsExt, SequencesExt

CONSTANTS
    Callers,        \* processes that create backups or captures
    None,           \* no package, no record
    Garbled,        \* what a bad write leaves in a copy
    MaxSeconds,     \* bound: seconds of the clock in backup ids
    MaxBackups,     \* bound: backups begun
    MaxCaptures,    \* bound: captures begun
    Part,           \* what was read of a source that changed or failed
    MaxDamage       \* bound: backups damaged after they were published

ASSUME PackageAssumption ==
    /\ {MaxSeconds, MaxBackups, MaxCaptures, MaxDamage} \subseteq Nat
    /\ None \notin {"backup", "capture"}
    /\ {None, Part, Garbled} \cap Regular = {}

VARIABLES
    call,       \* [Callers -> what create_backup() or the capture is doing]
    packages,   \* published packages
    second,     \* the clock when it was last looked at
    attempts,   \* backups and captures begun
    damage      \* backups damaged

vars == <<liveVars, call, packages, second, attempts, damage>>
fixed == <<second, attempts, damage>>

Outcomes ==
    {"CAPTURED_VERIFIED", "CAPTURED_UNVERIFIED", "UNREADABLE", "UNSAFE_OBJECT_RECORDED",
     "MISSING", "WRONG_TYPE_RECORDED", "CHANGED_DURING_CAPTURE"}

\* One entry of a manifest: its outcome, the bytes the digest in the manifest
\* is of, and the bytes of the payload.
Item(outcome, digest, payload) == [outcome |-> outcome, digest |-> digest, payload |-> payload]
NoPayload(outcome) == Item(outcome, None, None)

\* A step of a call, the entries it has staged, the source it is reading, and
\* whether the live system has changed since the call began.
Idle == [kind |-> None, at |-> "idle", todo |-> <<>>, staged |-> <<>>, reading |-> None, quiet |-> TRUE]

Init ==
    /\ LiveInit
    /\ call = [c \in Callers |-> Idle]
    /\ packages = {}
    /\ second = 0
    /\ attempts = [backup |-> 0, capture |-> 0]
    /\ damage = 0

Goto(c, at) == call' = [call EXCEPT ![c].at = at]
Fail(c) == call' = [call EXCEPT ![c] = Idle]
Record(staged, n, item) == [m \in DOMAIN staged \cup {n} |-> IF m = n THEN item ELSE staged[m]]
Stage(c, n, item) ==
    call' = [call EXCEPT ![c].staged = Record(@, n, item), ![c].todo = Tail(@), ![c].reading = None]

Working(c, kind, at) == call[c].kind = kind /\ call[c].at = at
Reading(c) == Head(call[c].todo)
Sorted == SetToSeq(ConfigFiles)

Begin(c, kind, bound, at, todo) ==
    /\ call[c].at = "idle"
    /\ attempts[kind] < bound
    /\ call' = [call EXCEPT ![c] = [Idle EXCEPT !.kind = kind, !.at = at, !.todo = todo]]
    /\ attempts' = [attempts EXCEPT ![kind] = @ + 1]
    /\ UNCHANGED <<liveVars, packages, second, damage>>

----------------------------------------------------------------------------
(* Reading one file, for either.                                           *)

\* The source is looked at, opened, and its first chunk read.
OpenSource(c) ==
    call' = [call EXCEPT ![c].reading = [before |-> At(Reading(c)), first |-> At(Reading(c))[1]]]

\* Mutant: the source is not looked at again after it was read.
ReadAnyway(c) == At(Reading(c)) \in Regular

\* The rest is read and the source is still what it was before.
Stable(c) == At(Reading(c)) = call[c].reading.before

Bytes(c) == <<call[c].reading.first, At(Reading(c))[2]>>

----------------------------------------------------------------------------
(* Backups.                                                                *)

\* _require_sources_available(), before anything is staged.
BeginBackup(c) ==
    /\ \A n \in Names \ {Journal} : At(n) \in Regular
    /\ Begin(c, "backup", MaxBackups, "snapshot", Sorted)

\* Mutant: the pages are copied without the lock the backup API takes.
RawCopyReady == At(Database) \in Regular \cup {Unsafe}

\* The online backup waits for a writer, and what is opened read-only cannot
\* roll a hot journal back.
SnapshotReady == At(Database) \in Regular \cup {Unsafe} /\ writer = "idle" /\ files[Journal] = Absent

\* snapshot_database(), require_integrity_ok(): all pages in one step of the
\* backup API.  A link is followed.
Snapshot(c) ==
    /\ Working(c, "backup", "snapshot")
    /\ SnapshotReady
    /\ LET pages == Behind(Database)
       IN  call' = [call EXCEPT ![c].at = "files",
                                ![c].staged = Record(@, Database, Item("CAPTURED_VERIFIED", pages, pages))]
    /\ UNCHANGED <<liveVars, packages, fixed>>

\* The database is gone, its journal is hot, or the copy is not whole.
SnapshotFails(c) ==
    /\ Working(c, "backup", "snapshot")
    /\ Fail(c)
    /\ UNCHANGED <<liveVars, packages, fixed>>

OpenConfig(c) ==
    /\ Working(c, "backup", "files")
    /\ call[c].todo # <<>>
    /\ call[c].reading = None
    /\ IF At(Reading(c)) \in Regular THEN OpenSource(c) ELSE Fail(c)
    /\ UNCHANGED <<liveVars, packages, fixed>>

\* _copy_and_verify_config_file(): what was written is read again and compared.
CopyConfig(c) ==
    /\ Working(c, "backup", "files")
    /\ call[c].reading # None
    /\ \/ Stable(c) /\ Stage(c, Reading(c), Item("CAPTURED_VERIFIED", Bytes(c), Bytes(c)))
       \/ Fail(c)
    /\ UNCHANGED <<liveVars, packages, fixed>>

\* verify_payload_against_manifest(): exactly the files of the manifest.
WholePayload(items) ==
    \A n \in DOMAIN items : items[n].payload \in Regular /\ items[n].payload = items[n].digest

\* build_backup_id(): of the second and of the digest of all that is contained.
BackupId(c, t) == <<t, [n \in DOMAIN call[c].staged |-> call[c].staged[n].digest]>>

\* The manifest, its sidecar, the check of the payload and the marker.
SealBackup(c) ==
    /\ Working(c, "backup", "files")
    /\ call[c].todo = <<>>
    /\ second' \in second .. MaxSeconds
    /\ IF WholePayload(call[c].staged)
       THEN call' = [call EXCEPT ![c].at = "publish", ![c].reading = BackupId(c, second')]
       ELSE Fail(c)
    /\ UNCHANGED <<liveVars, packages, attempts, damage>>

----------------------------------------------------------------------------
(* Degraded-source captures.                                               *)

BeginCapture(c) == Begin(c, "capture", MaxCaptures, "database", <<Database>>)

\* What an object that cannot be opened is recorded as.
RecordedAs(object) ==
    CASE object = Absent -> "MISSING"
      [] object = Wrong -> "WRONG_TYPE_RECORDED"
      [] object = Unsafe -> "UNSAFE_OBJECT_RECORDED"

\* capture_regular_file_item(): what is no regular file is never opened.
OpenItem(c) ==
    /\ call[c].kind = "capture"
    /\ call[c].todo # <<>>
    /\ call[c].reading = None
    /\ IF At(Reading(c)) \in Regular
       THEN OpenSource(c) \/ Stage(c, Reading(c), NoPayload("UNREADABLE"))
       ELSE Stage(c, Reading(c), NoPayload(RecordedAs(At(Reading(c)))))
    /\ UNCHANGED <<liveVars, packages, fixed>>

\* best_effort_capture_file(): the digest is of the bytes read from the source,
\* the payload what was written of them.  Of a source that changed, nothing may
\* have been read, or anything.
CaptureItem(c) ==
    /\ call[c].kind = "capture"
    /\ call[c].todo # <<>>
    /\ call[c].reading # None
    /\ LET n == Reading(c)
       IN  IF ~ Stable(c)
           THEN \E read \in {None, Part} : Stage(c, n, Item("CHANGED_DURING_CAPTURE", read, read))
           ELSE \/ Stage(c, n, Item("UNREADABLE", Part, Part))
                \/ Stage(c, n, Item("CAPTURED_VERIFIED", Bytes(c), Bytes(c)))
                \/ \E written \in {Bytes(c), Garbled} :
                        Stage(c, n, Item("CAPTURED_UNVERIFIED", Bytes(c), written))
    /\ UNCHANGED <<liveVars, packages, fixed>>

\* _config_container_unusable_records(): no file of the directory is looked at.
Unusable(c, outcome) ==
    call' = [call EXCEPT ![c].at = "config", ![c].reading = None,
                         ![c].staged = [n \in {Database} \cup ConfigFiles |->
                                IF n = Database THEN @[n] ELSE NoPayload(outcome)]]

\* capture_config_slot(): the directory is looked at before it is listed ...
LookAtFolder(c) ==
    /\ Working(c, "capture", "database")
    /\ call[c].todo = <<>>
    /\ IF folder \in Nat
       THEN call' = [call EXCEPT ![c].at = "folder", ![c].reading = folder]
       ELSE Unusable(c, RecordedAs(folder))
    /\ UNCHANGED <<liveVars, packages, fixed>>

\* ... and after it.
ListFolder(c) ==
    /\ Working(c, "capture", "folder")
    /\ CASE folder = call[c].reading ->
                call' = [call EXCEPT ![c].at = "config", ![c].todo = Sorted, ![c].reading = None]
         [] folder \in {Absent, Unsafe} -> Unusable(c, RecordedAs(folder))
         [] OTHER -> Unusable(c, "CHANGED_DURING_CAPTURE")
    /\ UNCHANGED <<liveVars, packages, fixed>>

\* Mutant: the journal is taken for no part of the database.
SkipSidecars(c) ==
    /\ Working(c, "capture", "config")
    /\ call[c].todo = <<>>
    /\ Goto(c, "sidecars")
    /\ UNCHANGED <<liveVars, packages, fixed>>

\* capture_sidecars(): whatever is at the journal's path, if anything is.
LookForSidecars(c) ==
    /\ Working(c, "capture", "config")
    /\ call[c].todo = <<>>
    /\ call' = [call EXCEPT ![c].at = "sidecars",
                            ![c].todo = IF files[Journal] = Absent THEN <<>> ELSE <<Journal>>]
    /\ UNCHANGED <<liveVars, packages, fixed>>

\* _verify_staged_capture_self_consistency(): the payload of each entry that has
\* one, and nothing where there is none.
SelfConsistent(items) == \A n \in DOMAIN items : items[n].payload = items[n].digest

\* build_capture_id(): its random part is never drawn twice.
CaptureId(c) == <<c, attempts.capture>>

\* The manifest, its sidecar, the check of the payload and the marker.
SealCapture(c) ==
    /\ Working(c, "capture", "sidecars")
    /\ call[c].todo = <<>>
    /\ IF SelfConsistent(call[c].staged)
       THEN call' = [call EXCEPT ![c].at = "publish", ![c].reading = CaptureId(c)]
       ELSE Fail(c)
    /\ UNCHANGED <<liveVars, packages, fixed>>

----------------------------------------------------------------------------
(* Publication, and what is found afterwards.                              *)

Package(c) ==
    [id |-> call[c].reading, kind |-> call[c].kind, items |-> call[c].staged,
     quiet |-> call[c].quiet, sealed |-> TRUE]

Taken == {p.id : p \in packages}

\* Mutant: the rename replaces the package that has the id.
PublishOver(c) ==
    /\ call[c].at = "publish"
    /\ Fail(c)
    /\ packages' = {p \in packages : p.id # call[c].reading} \cup {Package(c)}
    /\ UNCHANGED <<liveVars, fixed>>

\* publish_staged_backup(), publish_staged_capture(): one rename, or a refusal.
PublishPackage(c) ==
    /\ call[c].at = "publish"
    /\ Fail(c)
    /\ packages' = packages \cup IF call[c].reading \in Taken THEN {} ELSE {Package(c)}
    /\ UNCHANGED <<liveVars, fixed>>

\* The process is killed; its staging directory is left.
Kill(c) ==
    /\ call[c].at # "idle"
    /\ Fail(c)
    /\ UNCHANGED <<liveVars, packages, fixed>>

\* A published backup is damaged: its manifest or marker, or one payload.
DamagePackage ==
    /\ damage < MaxDamage
    /\ damage' = damage + 1
    /\ \E p \in {q \in packages : q.kind = "backup"}, n \in Names :
            \E q \in {[p EXCEPT !.sealed = FALSE]}
                     \cup IF n \in DOMAIN p.items THEN {[p EXCEPT !.items[n].payload = Garbled]} ELSE {} :
                packages' = (packages \ {p}) \cup {q}
    /\ UNCHANGED <<liveVars, call, second, attempts>>

\* list_backups() looks at marker, manifest and sidecar and at no payload.
Listed == {p \in packages : p.kind = "backup" /\ p.sealed}

\* verify_backup(), verify_degraded_source_capture().
Verifies(p) == p.sealed /\ IF p.kind = "backup" THEN WholePayload(p.items) ELSE SelfConsistent(p.items)

\* The live system changes under whatever is being made.
LiveStep ==
    /\ LiveNext
    /\ call' = [c \in Callers |-> IF call[c].at = "idle" THEN call[c] ELSE [call[c] EXCEPT !.quiet = FALSE]]
    /\ UNCHANGED <<packages, fixed>>

Next ==
    \/ LiveStep \/ DamagePackage
    \/ \E c \in Callers :
        \/ BeginBackup(c) \/ Snapshot(c) \/ SnapshotFails(c) \/ OpenConfig(c) \/ CopyConfig(c) \/ SealBackup(c)
        \/ BeginCapture(c) \/ OpenItem(c) \/ CaptureItem(c) \/ LookAtFolder(c) \/ ListFolder(c)
        \/ LookForSidecars(c) \/ SealCapture(c)
        \/ PublishPackage(c) \/ Kill(c)

Spec == Init /\ [][Next]_vars

----------------------------------------------------------------------------
(* Properties.                                                             *)

\* Types: of the live system, of every call, and of every package, which has an
\* entry for the database and for each required file.
TypeOK ==
    /\ LiveTypeOK
    /\ \A c \in Callers :
        /\ call[c].kind \in {None, "backup", "capture"}
        /\ call[c].at \in {"idle", "snapshot", "database", "folder", "files", "config", "sidecars", "publish"}
        /\ DOMAIN call[c].staged \subseteq Names
        /\ Range(call[c].todo) \subseteq Names
    /\ \A p \in packages :
        /\ DOMAIN p.items \in {Names, Names \ {Journal}}
        /\ \A n \in DOMAIN p.items : p.items[n].outcome \in Outcomes
    /\ second \in 0 .. MaxSeconds /\ damage \in 0 .. MaxDamage

OneCommit(pages) == \E n \in 0 .. MaxCommits : pages = <<n, n>>

\* A backup holds the database as one transaction left it, whatever was being
\* written while it was made (sqlite_snapshot.py:41-80).
BackupIsOneCommit ==
    \A p \in packages : p.kind = "backup" => OneCommit(p.items[Database].digest)

\* What a package claims as verified is, of every file, what that file held at
\* one moment, never half of one version and half of another (fsutil.py:151,
\* capture_io.py:87).
CopiesAreOfOneMoment ==
    \A p \in packages : \A n \in DOMAIN p.items :
        p.items[n].outcome = "CAPTURED_VERIFIED" => p.items[n].digest \in held[n]

\* A capture of a live system that nothing changed meanwhile can be recovered
\* from: its database is as a transaction left it, or the journal that rolls it
\* back is in the package too, or said to be there and unreadable.
QuietCaptureRecovers ==
    \A p \in packages :
        p.kind = "capture" /\ p.quiet /\ p.items[Database].outcome = "CAPTURED_VERIFIED"
            /\ ~ OneCommit(p.items[Database].digest)
        => /\ Journal \in DOMAIN p.items
           /\ p.items[Journal].outcome \in {"CAPTURED_VERIFIED", "CAPTURED_UNVERIFIED"}
                => OneCommit(p.items[Journal].digest)

\* Packages appear at once and whole, under ids no package has, and only damage
\* ever makes one fail verification: what PackageStore promises, with no row.
Store == INSTANCE PackageStore WITH
    NoRow <- None, row <- None,
    taken <- Taken,
    intact <- {p.id : p \in {q \in packages : Verifies(q)}}

ImplementsStore == Store!StoreSpec

=============================================================================
