-------------------------- MODULE RestoreExecution --------------------------
(***************************************************************************)
(* RestoreManager.restore() (restore/manager.py) and execute_recovery()    *)
(* (restore/recovery_execution.py): the live database, configuration       *)
(* directory and SQLite sidecars are replaced by a sealed backup.  An      *)
(* attempt alternates between steps and journal transitions; it may stop   *)
(* at any of them, and nothing is ever resumed or rolled back.             *)
(*                                                                         *)
(* A path holds an object: a generation of healthy content, a damaged      *)
(* object, or nothing.  Objects are compared as hashes and fingerprints    *)
(* compare them.                                                           *)
(***************************************************************************)
EXTENDS RestoreJournal, FiniteSets

CONSTANTS Generations,   \* contents a healthy database or configuration can have
          Backups,       \* sealed backups: pairs of generations
          NoSnapshot,    \* no capture, safety backup or classification yet
          Quiet,         \* where an attempt is while nobody else writes
          MaxWrites      \* bound: writes by others during one attempt

Conditions == {"missing", "corrupt", "unreadable", "wrongType", "unsafe", "regular", "dangling", "changed"}

ASSUME RestoreAssumption ==
    /\ Backups \subseteq [database : Generations, config : Generations]
    /\ Generations \cap Conditions = {}
    /\ MaxWrites \in Nat
    /\ SidecarSuffixes \in Seq(STRING)
    /\ {"database", "config"} \cap Suffixes = {}

\* What can be at a path.  A corrupt configuration is a directory in which a
\* required file is missing or cannot be read; "unsafe" is a link (or, for a
\* sidecar, also a wrong type), "dangling" a link to nothing.
ObjectsAt(t) ==
    IF t = "database" THEN Generations \cup {"missing", "corrupt", "unreadable", "wrongType", "unsafe"}
    ELSE IF t = "config" THEN Generations \cup {"missing", "corrupt", "wrongType", "unsafe"}
    ELSE {"missing", "regular", "unsafe", "dangling"}
Objects == Generations \cup Conditions

VARIABLES live,      \* the object at each live path
          aside,     \* what this attempt moved to its superseded paths
          safety,    \* its pre-restore safety backup
          capture,   \* recovery: its degraded-source capture
          reclass,   \* recovery: the sources as reclassified after the capture
          kind,      \* "restore" or "recovery"
          target,    \* the backup it restores
          handling,  \* the path being disposed of
          pc,        \* the step, or the journal state to record next
          start,     \* history: the live objects when it began
          done,      \* history: the mutations it made
          fault,     \* history: it met something else than unfit live objects
          writes     \* history: writes by others since it began

sources == <<safety, capture, reclass>>
attempt == <<kind, target, start>>
vars == <<journal, live, aside, safety, capture, reclass, kind, target, handling, pc,
          start, done, fault, writes>>

----------------------------------------------------------------------------
(* The order of steps and transitions.                                     *)

RestoreOrder ==
    [RESTORE_INITIATED |-> "VerifyTarget", VerifyTarget |-> "TARGET_VERIFIED",
     TARGET_VERIFIED |-> "CheckSchema", CheckSchema |-> "SCHEMA_COMPATIBLE",
     SCHEMA_COMPATIBLE |-> "SafetyBackup", SafetyBackup |-> "PRE_RESTORE_SNAPSHOT_COMPLETE",
     PRE_RESTORE_SNAPSHOT_COMPLETE |-> "Probe", Probe |-> "QUIESCENCE_CONFIRMED",
     QUIESCENCE_CONFIRMED |-> "SidecarGate", SidecarGate |-> "SIDECAR_CHECK_PASSED_PRE",
     SIDECAR_CHECK_PASSED_PRE |-> "STAGING_INTENT", STAGING_INTENT |-> "Stage",
     Stage |-> "STAGING_COMPLETE", STAGING_COMPLETE |-> "DB_REPLACE_INTENT",
     DB_REPLACE_INTENT |-> "ReplaceDatabase", ReplaceDatabase |-> "DB_REPLACED",
     DB_REPLACED |-> "CONFIG_RENAME_ASIDE_INTENT", CONFIG_RENAME_ASIDE_INTENT |-> "RenameAside",
     RenameAside |-> "CONFIG_RENAMED_ASIDE", CONFIG_RENAMED_ASIDE |-> "CONFIG_INSTALL_INTENT",
     CONFIG_INSTALL_INTENT |-> "InstallConfig", InstallConfig |-> "CONFIG_REPLACED",
     CONFIG_REPLACED |-> "VERIFICATION_INTENT", VERIFICATION_INTENT |-> "Verify",
     Verify |-> "VERIFIED_SUCCESS"]

RecoveryOrder ==
    [RECOVERY_INITIATED |-> "Plan", Plan |-> "RECOVERY_PLAN_VALIDATED",
     RECOVERY_PLAN_VALIDATED |-> "CAPTURE_INTENT", CAPTURE_INTENT |-> "Capture",
     Capture |-> "CAPTURE_COMPLETE", CAPTURE_COMPLETE |-> "CAPTURE_REVERIFICATION_INTENT",
     CAPTURE_REVERIFICATION_INTENT |-> "Reverify", Reverify |-> "CAPTURE_REVERIFIED",
     CAPTURE_REVERIFIED |-> "CheckChanged", CheckChanged |-> "SOURCE_RECLASSIFICATION_INTENT",
     SOURCE_RECLASSIFICATION_INTENT |-> "Reclassify", Reclassify |-> "SOURCE_RECLASSIFIED",
     SOURCE_RECLASSIFIED |-> "PRE_MUTATION_STABILITY_INTENT",
     PRE_MUTATION_STABILITY_INTENT |-> "PreMutationStability",
     PreMutationStability |-> "PRE_MUTATION_STABILITY_CONFIRMED",
     PRE_MUTATION_STABILITY_CONFIRMED |-> "Probe", Probe |-> "QUIESCENCE_CONFIRMED",
     QUIESCENCE_CONFIRMED |-> "NextDisposition", QUIESCENCE_NOT_APPLICABLE |-> "NextDisposition",
     NextDisposition |-> "DISPOSITION_INTENT", DISPOSITION_INTENT |-> "CheckDisposal",
     CheckDisposal |-> "Dispose", Dispose |-> "DISPOSITION_COMPLETE",
     DISPOSITION_COMPLETE |-> "NextDisposition",
     FINAL_STABILITY_INTENT |-> "FinalStability", FinalStability |-> "FINAL_STABILITY_CONFIRMED",
     FINAL_STABILITY_CONFIRMED |-> "SidecarGate", SidecarGate |-> "SIDECAR_CHECK_PASSED_PRE",
     SIDECAR_CHECK_PASSED_PRE |-> "ReverifyTarget", ReverifyTarget |-> "STAGING_INTENT",
     STAGING_INTENT |-> "Stage", Stage |-> "STAGING_COMPLETE",
     STAGING_COMPLETE |-> "DB_REPLACE_INTENT", DB_REPLACE_INTENT |-> "CheckDatabase",
     CheckDatabase |-> "ReplaceDatabase", ReplaceDatabase |-> "DB_REPLACED",
     DB_REPLACED |-> "CONFIG_RENAME_ASIDE_INTENT", CONFIG_RENAME_ASIDE_INTENT |-> "CheckConfig",
     CheckConfig |-> "RenameAside", RenameAside |-> "CONFIG_RENAMED_ASIDE",
     CONFIG_RENAMED_ASIDE |-> "CONFIG_INSTALL_INTENT", CONFIG_INSTALL_INTENT |-> "CheckVacant",
     CheckVacant |-> "InstallConfig", InstallConfig |-> "CONFIG_REPLACED",
     CONFIG_REPLACED |-> "VERIFICATION_INTENT", VERIFICATION_INTENT |-> "Verify",
     Verify |-> "VERIFIED_SUCCESS"]

\* What is recorded when a step fails; a step that is not listed raises
\* without a transition.
FailureState ==
    [VerifyTarget |-> "TARGET_VERIFICATION_FAILED", CheckSchema |-> "SCHEMA_INCOMPATIBLE",
     SafetyBackup |-> "PRE_RESTORE_SNAPSHOT_FAILED", Probe |-> "QUIESCENCE_FAILED",
     SidecarGate |-> "SIDECAR_PRESENT_PRE", Stage |-> "STAGING_FAILED",
     ReplaceDatabase |-> "DB_REPLACE_FAILED", RenameAside |-> "CONFIG_REPLACE_FAILED",
     InstallConfig |-> "CONFIG_REPLACE_FAILED", Verify |-> "VERIFICATION_FAILED",
     Plan |-> "RECOVERY_PLAN_BLOCKED", Capture |-> "CAPTURE_FAILED",
     Reverify |-> "CAPTURE_REVERIFICATION_FAILED", CheckChanged |-> "CAPTURE_CHANGED_DURING_CAPTURE",
     Reclassify |-> "SOURCE_RECLASSIFICATION_BLOCKED",
     PreMutationStability |-> "PRE_MUTATION_STABILITY_MISMATCH",
     CheckDisposal |-> "DISPOSITION_FAILED", Dispose |-> "DISPOSITION_FAILED",
     FinalStability |-> "FINAL_STABILITY_MISMATCH", CheckDatabase |-> "DB_REPLACE_FAILED",
     CheckConfig |-> "CONFIG_REPLACE_FAILED", CheckVacant |-> "CONFIG_REPLACE_FAILED"]

Steps == DOMAIN FailureState \cup {"NextDisposition", "ReverifyTarget"}
Failures == {FailureState[s] : s \in DOMAIN FailureState}
States == (DOMAIN RestoreOrder \cup DOMAIN RecoveryOrder \cup Failures \cup
              {"VERIFIED_SUCCESS"}) \ Steps
Places == Steps \cup States \cup {"idle"}

Disposed == {t \in Targets : <<"DISPOSITION", t>> \in done}

\* The configuration path is vacant already: nothing to rename aside.
ConfigVacant == kind = "recovery" /\ ("config" \in Disposed \/ reclass["config"] = "missing")

\* Mutant: the replacement of the database is not announced.
AfterUnannounced(p) ==
    IF p \in Failures \cup {"VERIFIED_SUCCESS"} THEN "idle"
    ELSE IF p = "DB_REPLACED" /\ ConfigVacant THEN "CONFIG_INSTALL_INTENT"
    ELSE IF p = "STAGING_COMPLETE" THEN "ReplaceDatabase"
    ELSE IF kind = "restore" THEN RestoreOrder[p]
    ELSE RecoveryOrder[p]

\* Where an attempt goes from a step or a transition.
After(p) ==
    IF p \in Failures \cup {"VERIFIED_SUCCESS"} THEN "idle"
    ELSE IF p = "DB_REPLACED" /\ ConfigVacant THEN "CONFIG_INSTALL_INTENT"
    ELSE IF kind = "restore" THEN RestoreOrder[p]
    ELSE RecoveryOrder[p]

Proceed == pc' = After(pc) /\ UNCHANGED fault
Fail == pc' = FailureState[pc] /\ UNCHANGED fault
ProceedIf(condition) == IF condition THEN Proceed ELSE Fail

\* A step that reads the live paths and changes nothing.
Check(step, condition) ==
    /\ pc = step
    /\ ProceedIf(condition)
    /\ UNCHANGED <<journal, live, aside, sources, attempt, handling, done, writes>>

----------------------------------------------------------------------------
(* Beginning and ending.                                                   *)

\* RestoreJournal.create() and the first transition to record.
BeginAttempt(k, b) ==
    /\ kind' = k
    /\ target' = b
    /\ start' = live
    /\ journal' = <<>>
    /\ aside' = [t \in Targets |-> "missing"]
    /\ safety' = NoSnapshot /\ capture' = NoSnapshot /\ reclass' = NoSnapshot
    /\ handling' = "database"
    /\ done' = {}
    /\ fault' = FALSE
    /\ writes' = 0
    /\ UNCHANGED live

Begin(k, b) ==
    /\ pc = "idle"
    /\ BeginAttempt(k, b)
    /\ pc' = IF k = "restore" THEN "RESTORE_INITIATED" ELSE "RECOVERY_INITIATED"

\* record(): a durable transition; the attempt ends after a failure.
Record ==
    /\ pc \in States
    /\ Publish(pc, handling, TRUE)
    /\ Proceed
    /\ UNCHANGED <<live, aside, sources, attempt, handling, done, writes>>

\* Stopped between the two renames of record(): an entry without its hash.
TornRecord ==
    /\ pc \in States
    /\ Publish(pc, handling, FALSE)
    /\ pc' = "idle"
    /\ fault' = TRUE
    /\ UNCHANGED <<live, aside, sources, attempt, handling, done, writes>>

\* The process dies, or raises what nothing here catches, before a step or a
\* transition took effect.
Crash ==
    /\ pc # "idle"
    /\ pc' = "idle"
    /\ fault' = TRUE
    /\ UNCHANGED <<journal, live, aside, sources, attempt, handling, done, writes>>

\* A step fails for a reason that is not in the live objects: the backup does
\* not verify or has another schema, a lock is held, the disk refuses.
StepFails ==
    /\ pc \in DOMAIN FailureState \ {"SidecarGate", "CheckChanged"}
    /\ pc' = FailureState[pc]
    /\ fault' = TRUE
    /\ UNCHANGED <<journal, live, aside, sources, attempt, handling, done, writes>>

----------------------------------------------------------------------------
(* Steps of restore(), which recovery shares from Probe on.                *)

\* verify_backup() and the schema comparison look at the backup only.
VerifyTarget == Check("VerifyTarget", TRUE)
CheckSchema == Check("CheckSchema", TRUE)

\* create_backup(): both live sources must be healthy.
SafetyBackup ==
    /\ pc = "SafetyBackup"
    /\ IF live["database"] \in Generations /\ live["config"] \in Generations
       THEN safety' = live /\ Proceed
       ELSE UNCHANGED safety /\ Fail
    /\ UNCHANGED <<journal, live, aside, capture, reclass, attempt, handling, done, writes>>

\* BEGIN IMMEDIATE: granted on a healthy database, an OperationalError where
\* none can be opened; a corrupt file may also raise a DatabaseError, which is
\* not caught.  Path.exists() sees no missing database and no dangling link.
ProbeOutcomes(object) ==
    CASE object \in Generations \cup {"missing"} -> {"granted"}
      [] object \in {"unreadable", "wrongType"} -> {"refused"}
      [] object = "corrupt" -> {"granted", "uncaught"}
      [] OTHER -> {"granted", "refused", "uncaught"}

\* Recovery does not probe a database it has classified as degraded.
DegradedDatabase == reclass["database"] \notin Generations \cup {"missing"}

Probe ==
    /\ pc = "Probe"
    /\ IF kind = "recovery" /\ DegradedDatabase
       THEN pc' = "QUIESCENCE_NOT_APPLICABLE" /\ UNCHANGED fault
       ELSE \E outcome \in ProbeOutcomes(live["database"]) :
              \/ outcome = "granted" /\ Proceed
              \/ outcome = "refused" /\ Fail
              \/ outcome = "uncaught" /\ pc' = "idle" /\ fault' = TRUE
    /\ UNCHANGED <<journal, live, aside, sources, attempt, handling, done, writes>>

\* require_no_sidecars() follows links, so it does not see a dangling one.
NoSidecars == \A t \in Suffixes : live[t] \in {"missing", "dangling"}

SidecarGate == Check("SidecarGate", NoSidecars)

\* The backup is copied next to the live paths and verified; they are not touched.
Stage == Check("Stage", TRUE)

\* A mutation that replaces or fills a path.
Put(t, object, mutation) ==
    /\ live' = [live EXCEPT ![t] = object]
    /\ done' = done \cup {<<mutation, t>>}
    /\ UNCHANGED aside

\* A mutation that moves what is at a path to its superseded path.
MoveAside(t, mutation) ==
    /\ aside' = [aside EXCEPT ![t] = live[t]]
    /\ live' = [live EXCEPT ![t] = "missing"]
    /\ done' = done \cup {<<mutation, t>>}

Mutation(step, possible, effect) ==
    /\ pc = step
    /\ IF possible
       THEN effect /\ Proceed
       ELSE UNCHANGED <<live, aside, done>> /\ Fail
    /\ UNCHANGED <<journal, sources, attempt, handling, writes>>

\* Mutant: the database is unlinked before the staged one is moved in.
UnlinkDatabase ==
    /\ pc = "ReplaceDatabase"
    /\ live' = [live EXCEPT !["database"] = "missing"]
    /\ Fail
    /\ UNCHANGED <<journal, aside, done, sources, attempt, handling, writes>>

\* replace_database(): os.replace() overwrites all but a directory.
ReplaceDatabase ==
    Mutation("ReplaceDatabase", live["database"] # "wrongType",
             Put("database", target.database, "DB_REPLACE"))

\* rename_config_aside()
RenameAside ==
    Mutation("RenameAside", live["config"] # "missing", MoveAside("config", "CONFIG_RENAME_ASIDE"))

\* Mutant: the database path is given to the installation.
InstallOverDatabase ==
    Mutation("InstallConfig", live["config"] = "missing",
             Put("database", target.config, "CONFIG_INSTALL"))

\* install_staged_config(): the path must be vacant.
InstallConfig ==
    Mutation("InstallConfig", live["config"] = "missing",
             Put("config", target.config, "CONFIG_INSTALL"))

\* verify_restore(): no sidecars, both sources as in the backup.
Verify ==
    Check("Verify", /\ NoSidecars
                    /\ live["database"] = target.database
                    /\ live["config"] = target.config)

----------------------------------------------------------------------------
(* Steps of execute_recovery() only.                                       *)

\* build_recovery_plan(): links, and sidecars of a wrong type, block it.
WouldProceed ==
    /\ live["database"] # "unsafe"
    /\ live["config"] # "unsafe"
    /\ \A t \in Suffixes : live[t] \in {"missing", "regular"}

Plan == Check("Plan", WouldProceed)

\* build_degraded_source_capture(): every object is recorded; one that changes
\* while it is read is recorded as that.
Capture ==
    /\ pc = "Capture"
    /\ \/ capture' = live
       \/ /\ "Capture" \notin Quiet
          /\ \E t \in Targets : capture' = [live EXCEPT ![t] = "changed"]
    /\ Proceed
    /\ UNCHANGED <<journal, live, aside, safety, reclass, attempt, handling, done, writes>>

Reverify == Check("Reverify", TRUE)

CheckChanged == Check("CheckChanged", \A t \in Targets : capture[t] # "changed")

\* The second plan decides what is disposed of.
Reclassify ==
    /\ pc = "Reclassify"
    /\ reclass' = live
    /\ ProceedIf(WouldProceed)
    /\ UNCHANGED <<journal, live, aside, safety, capture, attempt, handling, done, writes>>

\* check_target_stability(): as captured, or vacant once disposed of.
Stable(t) == live[t] = IF t \in Disposed THEN "missing" ELSE capture[t]

PreMutationStability == Check("PreMutationStability", \A t \in Targets : live[t] = capture[t])

\* Mutant: an unreadable database is left to the replacement.
DisposeWrongTypes(t) ==
    IF t \in {"database", "config"} THEN reclass[t] = "wrongType" ELSE reclass[t] = "regular"

\* A wrong type, a database whose bytes could not be captured, a sidecar.
MustDispose(t) ==
    IF t = "database" THEN reclass[t] = "wrongType" \/ capture[t] = "unreadable"
    ELSE IF t = "config" THEN reclass[t] = "wrongType"
    ELSE reclass[t] = "regular"

DispositionOrder == <<"database", "config">> \o SidecarSuffixes

\* The first path in order that must be disposed of and is not yet.
NextTarget(t) ==
    \E i \in DOMAIN DispositionOrder :
        /\ t = DispositionOrder[i]
        /\ MustDispose(t) /\ t \notin Disposed
        /\ \A j \in 1 .. i - 1 : MustDispose(DispositionOrder[j]) => DispositionOrder[j] \in Disposed

\* The next disposition, or the end of them.  A configuration reclassified as
\* a wrong type but captured as a directory is not guessed about.
NextDisposition ==
    /\ pc = "NextDisposition"
    /\ \/ \E t \in Targets :
             /\ NextTarget(t)
             /\ handling' = t
             /\ IF t = "config" /\ capture[t] \in Generations \cup {"corrupt"}
                THEN pc' = "idle"
                ELSE pc' = "DISPOSITION_INTENT"
       \/ /\ \A t \in Targets : ~ NextTarget(t)
          /\ pc' = "FINAL_STABILITY_INTENT"
          /\ UNCHANGED handling
    /\ UNCHANGED <<journal, live, aside, sources, attempt, done, fault, writes>>

CheckDisposal == Check("CheckDisposal", live[handling] = capture[handling])

\* dispose_target() looks at the type again.
TypeAsExpected(t) ==
    IF t = "database" /\ capture[t] = "unreadable"
    THEN live[t] \in Generations \cup {"corrupt", "unreadable"}
    ELSE live[t] = IF t \in Suffixes THEN "regular" ELSE "wrongType"

Dispose ==
    Mutation("Dispose", TypeAsExpected(handling), MoveAside(handling, "DISPOSITION"))

\* The path is moved, but the check after the move fails.
DisposalUnproved ==
    /\ pc = "Dispose"
    /\ TypeAsExpected(handling)
    /\ MoveAside(handling, "DISPOSITION")
    /\ pc' = "DISPOSITION_FAILED"
    /\ fault' = TRUE
    /\ UNCHANGED <<journal, sources, attempt, handling, writes>>

\* Mutant: a vacated path is still expected to be as captured.
FinalAsCaptured ==
    Check("FinalStability", \A t \in Targets : live[t] = capture[t])

FinalStability == Check("FinalStability", \A t \in Targets : Stable(t))

\* verify_backup() once more; it raises without a transition.
ReverifyTarget == Check("ReverifyTarget", TRUE)

\* Mutant: the database is trusted as FINAL_STABILITY saw it.
DatabaseUnchecked == Check("CheckDatabase", TRUE)

\* The checks bound to a mutation.
CheckDatabase == Check("CheckDatabase", Stable("database"))
CheckConfig == Check("CheckConfig", live["config"] = capture["config"])
CheckVacant == Check("CheckVacant", live["config"] = "missing")

----------------------------------------------------------------------------

\* Somebody else writes, whatever was attested.
OthersWrite(t) ==
    /\ pc \notin Quiet \cup {"idle"}
    /\ writes < MaxWrites
    /\ \E object \in ObjectsAt(t) \ {live[t]} : live' = [live EXCEPT ![t] = object]
    /\ writes' = writes + 1
    /\ UNCHANGED <<journal, aside, sources, attempt, handling, pc, done, fault>>

Init ==
    /\ live \in [Targets -> Objects] /\ \A t \in Targets : live[t] \in ObjectsAt(t)
    /\ aside = [t \in Targets |-> "missing"]
    /\ safety = NoSnapshot /\ capture = NoSnapshot /\ reclass = NoSnapshot
    /\ kind = "restore" /\ target \in Backups /\ start = NoSnapshot
    /\ journal = <<>> /\ handling = "database" /\ pc = "idle"
    /\ done = {} /\ fault = FALSE /\ writes = 0

RestoreSteps ==
    \/ VerifyTarget \/ CheckSchema \/ SafetyBackup \/ Probe \/ SidecarGate \/ Stage
    \/ ReplaceDatabase \/ RenameAside \/ InstallConfig \/ Verify

RecoverySteps ==
    \/ Plan \/ Capture \/ Reverify \/ CheckChanged \/ Reclassify \/ PreMutationStability
    \/ NextDisposition \/ CheckDisposal \/ Dispose \/ DisposalUnproved \/ FinalStability
    \/ ReverifyTarget \/ CheckDatabase \/ CheckConfig \/ CheckVacant

Next ==
    \/ \E k \in {"restore", "recovery"}, b \in Backups : Begin(k, b)
    \/ Record \/ TornRecord \/ Crash \/ StepFails
    \/ RestoreSteps \/ RecoverySteps
    \/ \E t \in Targets : OthersWrite(t)

Spec == Init /\ [][Next]_vars

----------------------------------------------------------------------------
(* Properties.                                                             *)

Snapshots == [Targets -> Objects] \cup {NoSnapshot}

\* Types of all variables; a journal entry is a state of the order above.
TypeOK ==
    /\ live \in [Targets -> Objects] /\ aside \in [Targets -> Objects]
    /\ safety \in Snapshots /\ capture \in Snapshots /\ reclass \in Snapshots /\ start \in Snapshots
    /\ kind \in {"restore", "recovery"} /\ target \in Backups
    /\ handling \in Targets /\ pc \in Places
    /\ done \subseteq Mutations /\ fault \in BOOLEAN /\ writes \in 0 .. MaxWrites
    /\ journal \in Seq([state : States, of : Targets, sealed : BOOLEAN])

\* The content of a captured object is in the capture.
Readable(object) == object \in Generations \cup {"corrupt", "regular"}

\* Wherever an attempt stops, nothing that was live when it began is gone: it
\* is still live, moved aside, in the safety backup, or a captured database.
EvidenceKept ==
    start # NoSnapshot => \A t \in Targets :
        \/ start[t] \in {"missing", live[t], aside[t]}
        \/ safety # NoSnapshot /\ t \in {"database", "config"} /\ safety[t] = start[t]
        \/ capture # NoSnapshot /\ t = "database" /\ capture[t] = start[t] /\ Readable(start[t])

\* The live objects after the mutations ms of this attempt.
LiveAfter(ms) ==
    [t \in Targets |->
        IF <<"DB_REPLACE", t>> \in ms THEN target.database
        ELSE IF <<"CONFIG_INSTALL", t>> \in ms THEN target.config
        ELSE IF {<<"DISPOSITION", t>>, <<"CONFIG_RENAME_ASIDE", t>>} \cap ms # {} THEN "missing"
        ELSE start[t]]

\* The trusted journal tells a reader the live objects, up to one mutation that
\* is announced and not confirmed, wherever the attempt stopped.
JournalTellsLive ==
    start # NoSnapshot /\ writes = 0 =>
        /\ Cardinality(Intended(journal) \ Confirmed(journal)) <= 1
        /\ \E unproved \in SUBSET (Intended(journal) \ Confirmed(journal)) :
              live = LiveAfter(Confirmed(journal) \cup unproved)

\* A restore needs healthy sources and no sidecar it can see.
FitForRestore(s) ==
    /\ s["database"] \in Generations /\ s["config"] \in Generations
    /\ \A t \in Suffixes : s[t] \in {"missing", "dangling"}

\* A recovery needs that nothing is a link and no sidecar a wrong type.
FitForRecovery(s) ==
    /\ s["database"] # "unsafe" /\ s["config"] # "unsafe"
    /\ \A t \in Suffixes : s[t] \in {"missing", "regular"}

\* An attempt that met no fault and no other writer ends well exactly when the
\* objects it began with were fit for it: no check of the many refuses what an
\* earlier one admitted.
RefusesOnlyForCause ==
    pc = "idle" /\ start # NoSnapshot /\ ~ fault /\ writes = 0 =>
        IF kind = "restore"
        THEN (<<"CONFIG_INSTALL", "config">> \in done) <=> FitForRestore(start)
        ELSE (<<"CONFIG_INSTALL", "config">> \in done) <=> FitForRecovery(start)

\* Even with other writers, a recovery takes away only what its capture has
\* seen, and overwrites only what the capture holds the content of, or a link,
\* which has none: one that was captured, gave way to a safe object while the
\* sources were reclassified, and came back.
TakesOnlyWhatItCaptured ==
    [][kind = "recovery" /\ pc' # pc =>
        \A t \in Targets : live'[t] # live[t] /\ live[t] # "missing" =>
            /\ live[t] = capture[t]
            /\ aside'[t] = live[t] \/ Readable(live[t]) \/ live[t] = "unsafe"]_vars

Abstract == INSTANCE WriteAhead WITH
    intended <- Intended(journal), confirmed <- Confirmed(journal)

\* The journal runs ahead of every mutation and confirms it before the next.
ImplementsWriteAhead == Abstract!WriteAheadSpec

=============================================================================
