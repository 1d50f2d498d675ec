---------------------------- MODULE QueueAttempt ----------------------------
(***************************************************************************)
(* run_authorized_queue_attempt() of                                       *)
(* scripts/rlc_e9901_queue_attempt_harness.py: prove every reviewed        *)
(* condition, run the fresh preflight, prove the conditions again, run the *)
(* production command once, compare the database with what the command     *)
(* said, and seal the evidence.  Two harnesses may run at once, either may *)
(* be killed, both children may hang, and others keep working around them. *)
(***************************************************************************)
EXTENDS SnapshotGuard

CONSTANTS Killable,  \* attempts whose harness may die
          Load       \* bound: attempts begun and changes made by others

ASSUME KillableAssumption == Killable \subseteq Attempts

VARIABLES pc,        \* where the harness of an attempt is
          made,      \* directories created
          files,     \* evidence written: what, by whom, per directory
          listed,    \* what the SHA-256 manifest of a directory names
          folder0,   \* folder_path as the first baseline read it
          stop,      \* stop_reason
          class,     \* classification
          drifted    \* history: a reviewed condition no longer held when the
                     \* fresh preflight was over, or Resolve was in use when
                     \* it began

harnessVars == <<pc, made, files, listed, folder0, stop, class, drifted>>
vars == <<worldVars, commandVars, dirOf, guardVars, harnessVars>>

Names == {"opened", "guard_result", "binding", "recheck", "command",
          "outcome", "final", "snapshot"}
HarnessSteps == {"off", "baseline", "mkdir", "open", "await", "bind",
                 "recheck", "boundary", "command", "launch", "running",
                 "classify", "finish", "seal", "ended", "raised", "dead"}
Stops == {"none", "refused", "guard_timeout", "guard_launch", "guard",
          "binding", "drift"}
Classes == {"none", "not_launched", "timeout", "unclassified", "accepted",
            "manual", "rolled_back", "unobserved", "not_added",
            "configuration", "selection", "early"}

\* Types of all variables (QueueAttemptResult, DatabaseBaseline, the evidence
\* files, ClassificationResult; the two child processes).
TypeOK ==
    /\ CommandTypeOK
    /\ GuardTypeOK
    /\ pc \in [Attempts -> HarnessSteps]
    /\ made \subseteq Dirs
    /\ files \in [Dirs -> SUBSET (Names \X Attempts)]
    /\ listed \in [Dirs -> SUBSET Names]
    /\ folder0 \in [Attempts -> Folders]
    /\ stop \in [Attempts -> Stops]
    /\ class \in [Attempts -> Classes]
    /\ drifted \in [Attempts -> BOOLEAN]

Init ==
    /\ CommandInit
    /\ GuardInit
    /\ pc = Empty("off")
    /\ made = {}
    /\ files = [d \in Dirs |-> {}]
    /\ listed = [d \in Dirs |-> {}]
    /\ folder0 = Empty("reviewed")
    /\ stop = Empty("none")
    /\ class = Empty("none")
    /\ drifted = Empty(FALSE)

Goto(a, step) == pc' = [pc EXCEPT ![a] = step]
Stop(a, reason) == stop' = [stop EXCEPT ![a] = reason]

\* _write_evidence_file() into the attempt's directory.
Write(a, name) == files' = [files EXCEPT ![dirOf[a]] = @ \cup {<<name, a>>}]

\* _build_stopped_result() and _finalize_stopped_result(): the reason goes
\* into final_result.json, then the hashes are written.
StopWith(a, reason) == Goto(a, "finish") /\ Stop(a, reason)

\* QueueAttemptContractError before anything was written: main() reports it.
Refuse(a) == Goto(a, "ended") /\ Stop(a, "refused")

Note(a, fact) == drifted' = [drifted EXCEPT ![a] = @ \/ fact]

----------------------------------------------------------------------------
(* The reviewed conditions *)

\* verify_pre_mutation_database_baseline(): assembled, no render job at all,
\* and a folder path that leads to the reviewed directory.
DatabaseAsReviewed ==
    /\ status = "assembled"
    /\ \A b \in Attempts : rows[b] = "none"
    /\ ~ strange
    /\ Resolved(folder) = "reviewed"

\* Mutant: only where the folder path leads is compared.
SameDirectory(a) == Resolved(folder) = Resolved(folder0[a])

\* The path is still spelled as the first baseline read it.
FolderUntouched(a) == folder = folder0[a]

\* What the second pass tests again and finds changed since the first.  What
\* only the first pass tests (the interpreter, the historical preflight) may
\* change unseen and is not counted.
Drift(a) ==
    \/ broken \cap {"repository", "sources", "wrapper", "modules"} # {}
    \/ status # "assembled" \/ strange
    \/ folder # folder0[a]
    \/ output

\* Resolve shows something else, or holds a job that no command will remove.
InUse ==
    \/ ~ onTarget
    \/ Operator \in queue /\ \A b \in Attempts : prod[b] \notin Running

\* Bound: there is room for one more attempt or one more change.
WithinLoad ==
    Cardinality({a \in Attempts : pc[a] # "off"}) + disturbances < Load

----------------------------------------------------------------------------
(* _prepare_queue_attempt(): the first pass *)

\* Modules come from where they were reviewed and the historical preflight is
\* still there, besides repository, sources, wrapper and interpreter.
IdentityAsReviewed == broken \cap (Conditions \ {"collector"}) = {}

\* All of it in order, and the directory does not exist.
CheckIdentity(a) ==
    /\ pc[a] = "off"
    /\ WithinLoad
    /\ IF IdentityAsReviewed /\ dirOf[a] \notin made
       THEN Goto(a, "baseline") /\ UNCHANGED stop
       ELSE Refuse(a)
    /\ UNCHANGED <<made, files, listed, folder0, class, drifted,
                   worldVars, commandVars, guardVars>>

\* The database and the output file; the raw folder path is kept.
CheckBaseline(a) ==
    /\ pc[a] = "baseline"
    /\ folder0' = [folder0 EXCEPT ![a] = folder]
    /\ IF DatabaseAsReviewed /\ ~ output
       THEN Goto(a, "mkdir") /\ UNCHANGED stop
       ELSE Refuse(a)
    /\ UNCHANGED <<made, files, listed, class, drifted,
                   worldVars, commandVars, guardVars>>

\* mkdir(exist_ok=False) of the directory and its fresh_preflight; nothing
\* catches the FileExistsError of a directory made since it was looked for.
MakeDirectory(a) ==
    /\ pc[a] = "mkdir"
    /\ Goto(a, IF dirOf[a] \in made THEN "raised" ELSE "open")
    /\ made' = made \cup {dirOf[a]}
    /\ UNCHANGED <<files, listed, folder0, stop, class, drifted,
                   worldVars, commandVars, guardVars>>

----------------------------------------------------------------------------
(* The fresh preflight *)

\* manifest, db_preflight and fresh_preflight_invocation are written, then the
\* wrapper is launched, or the launch raises.
OpenEvidence(a) ==
    /\ pc[a] = "open"
    /\ Write(a, "opened")
    /\ \/ /\ LaunchGuard(a)
          /\ Note(a, InUse)
          /\ Goto(a, "await")
          /\ UNCHANGED stop
       \/ /\ StopWith(a, "guard_launch")
          /\ UNCHANGED <<drifted, guardVars>>
    /\ UNCHANGED <<made, listed, folder0, class, worldVars, commandVars>>

\* The wrapper exits: it passed and its standard error is empty, or not.
GuardReports(a) ==
    /\ pc[a] = "await"
    /\ guard[a] = "exited"
    /\ Write(a, "guard_result")
    /\ Note(a, Drift(a))
    /\ \/ verdict[a] = "passed" /\ Goto(a, "bind") /\ UNCHANGED stop
       \/ StopWith(a, "guard")
    /\ UNCHANGED <<made, listed, folder0, class, worldVars, commandVars, guardVars>>

\* Its time is up.
GuardTimesOut(a) ==
    /\ pc[a] = "await"
    /\ KillGuard(a)
    /\ StopWith(a, "guard_timeout")
    /\ UNCHANGED <<made, files, listed, folder0, class, drifted,
                   worldVars, commandVars>>

\* verify_fresh_preflight_snapshot_binding().
BindSnapshot(a) ==
    /\ pc[a] = "bind"
    /\ Write(a, "binding")
    /\ IF Bound(a) THEN Goto(a, "recheck") /\ UNCHANGED stop
                   ELSE StopWith(a, "binding")
    /\ UNCHANGED <<made, listed, folder0, class, drifted,
                   worldVars, commandVars, guardVars>>

----------------------------------------------------------------------------
(* _verify_no_mutation_boundary_drift(): the second pass *)

\* Sources, wrapper, repository.
RecheckIdentity(a) ==
    /\ pc[a] = "recheck"
    /\ IF broken \cap {"sources", "wrapper", "repository"} = {}
       THEN Goto(a, "boundary") /\ UNCHANGED <<files, stop>>
       ELSE StopWith(a, "drift") /\ Write(a, "recheck")
    /\ UNCHANGED <<made, listed, folder0, class, drifted,
                   worldVars, commandVars, guardVars>>

\* Database, raw folder path, output file, module provenance.
RecheckBaseline(a) ==
    /\ pc[a] = "boundary"
    /\ Write(a, "recheck")
    /\ IF DatabaseAsReviewed /\ FolderUntouched(a) /\ ~ output
          /\ "modules" \notin broken
       THEN Goto(a, "command") /\ UNCHANGED stop
       ELSE StopWith(a, "drift")
    /\ UNCHANGED <<made, listed, folder0, class, drifted,
                   worldVars, commandVars, guardVars>>

----------------------------------------------------------------------------
(* The production command *)

\* Mutant: the invocation record is not written before the launch.
SkipRecord(a) ==
    /\ pc[a] = "command"
    /\ Goto(a, "launch")
    /\ UNCHANGED <<made, files, listed, folder0, stop, class, drifted,
                   worldVars, commandVars, guardVars>>

\* execution_environment and production_command are written.
RecordCommand(a) ==
    /\ pc[a] = "command"
    /\ Write(a, "command")
    /\ Goto(a, "launch")
    /\ UNCHANGED <<made, listed, folder0, stop, class, drifted,
                   worldVars, commandVars, guardVars>>

\* The two outcomes that are classified before the database is looked at.
Outcome(a, class_) ==
    /\ class' = [class EXCEPT ![a] = class_]
    /\ Goto(a, "classify")

\* subprocess.run() starts the command or raises OSError.
LaunchCommand(a) ==
    /\ pc[a] = "launch"
    /\ \/ /\ StartCommand(a)
          /\ Goto(a, "running")
          /\ UNCHANGED class
       \/ /\ Outcome(a, "not_launched")
          /\ UNCHANGED commandVars
    /\ UNCHANGED <<made, files, listed, folder0, stop, drifted, worldVars, guardVars>>

\* The command exits.
CommandReports(a) ==
    /\ pc[a] = "running"
    /\ prod[a] = "exited"
    /\ Goto(a, "classify")
    /\ UNCHANGED <<made, files, listed, folder0, stop, class, drifted,
                   worldVars, commandVars, guardVars>>

\* Its time is up: it is killed wherever it is.
CommandTimesOut(a) ==
    /\ pc[a] = "running"
    /\ KillCommand(a)
    /\ Outcome(a, "timeout")
    /\ UNCHANGED <<made, files, listed, folder0, stop, drifted, worldVars, guardVars>>

----------------------------------------------------------------------------
(* Classification *)

\* Mutant: the fragments are looked up and an unknown text keeps its own name.
TextItself(text) == text

\* The category whose fragments the text contains; without one nothing is
\* claimed.
TextClass(text) ==
    IF text \in {"nothing", "success", "other"} THEN "unclassified" ELSE text

\* The attempt's row is the only one in the table.
OnlyRow(a) == {b \in Attempts : rows[b] # "none"} = {a} /\ ~ strange

\* Exit 0, one new row that is queued for the expected output, the episode
\* render_queued, its folder path untouched, no output yet.
Accepted(a) ==
    /\ said[a] = "success"
    /\ OnlyRow(a)
    /\ rows[a] = "queued"
    /\ Resolved(planned[a]) = "reviewed"
    /\ status = "render_queued"
    /\ FolderUntouched(a)
    /\ ~ output

\* classify_queue_attempt_outcome() over one read of the database, which may
\* fail; text and row must agree and standard error be empty.
Classification(a) ==
    IF class[a] # "none" THEN {class[a]}
    ELSE {"unclassified"} \cup
         {IF Accepted(a) THEN "accepted" ELSE TextClass(said[a])}

\* Postflight, classification and their files.
Classify(a) ==
    /\ pc[a] = "classify"
    /\ \E class_ \in Classification(a) : class' = [class EXCEPT ![a] = class_]
    /\ Write(a, "outcome")
    /\ Goto(a, "finish")
    /\ UNCHANGED <<made, listed, folder0, stop, drifted,
                   worldVars, commandVars, guardVars>>

----------------------------------------------------------------------------
(* The seal *)

\* What _write_sha256_manifest() finds in the directory.
Present(d) == {f[1] : f \in files[d]}
              \cup (IF snapshot[d] # "none" THEN {"snapshot"} ELSE {})

\* Mutant: the hashes are taken before the final result is written.
FinishUnlisted(a) ==
    /\ pc[a] = "finish"
    /\ Write(a, "final")
    /\ listed' = [listed EXCEPT ![dirOf[a]] = Present(dirOf[a])]
    /\ Goto(a, "ended")
    /\ UNCHANGED <<made, folder0, stop, class, drifted,
                   worldVars, commandVars, guardVars>>

\* final_result.json.
Finish(a) ==
    /\ pc[a] = "finish"
    /\ Write(a, "final")
    /\ Goto(a, "seal")
    /\ UNCHANGED <<made, listed, folder0, stop, class, drifted,
                   worldVars, commandVars, guardVars>>

\* sha256_manifest.json over everything else in the directory.
Seal(a) ==
    /\ pc[a] = "seal"
    /\ listed' = [listed EXCEPT ![dirOf[a]] = Present(dirOf[a])]
    /\ Goto(a, "ended")
    /\ UNCHANGED <<made, files, folder0, stop, class, drifted,
                   worldVars, commandVars, guardVars>>

\* The same list of files names the temporary file of a collector that still
\* publishes, and the file is gone when it is to be read: nothing catches that.
SealRaises(a) ==
    /\ pc[a] = "seal"
    /\ collector[a] = "publishing"
    /\ Goto(a, "raised")
    /\ UNCHANGED <<made, files, listed, folder0, stop, class, drifted,
                   worldVars, commandVars, guardVars>>

----------------------------------------------------------------------------
\* The harness process dies; its children go on.
Die(a) ==
    /\ a \in Killable
    /\ pc[a] \notin {"off", "ended", "raised", "dead"}
    /\ Goto(a, "dead")
    /\ UNCHANGED <<made, files, listed, folder0, stop, class, drifted,
                   worldVars, commandVars, guardVars>>

\* Mutant: the command is waited for without a timeout.
AwaitAnswer(a) == CommandReports(a)

\* Exactly one of the two ends the wait.
AwaitCommand(a) == CommandReports(a) \/ CommandTimesOut(a)

Harness(a) ==
    \/ CheckIdentity(a) \/ CheckBaseline(a) \/ MakeDirectory(a)
    \/ OpenEvidence(a) \/ GuardReports(a) \/ GuardTimesOut(a)
    \/ BindSnapshot(a) \/ RecheckIdentity(a) \/ RecheckBaseline(a)
    \/ RecordCommand(a) \/ LaunchCommand(a) \/ AwaitCommand(a)
    \/ Classify(a) \/ Finish(a) \/ Seal(a) \/ SealRaises(a)

Children(a) ==
    \/ CommandStep(a) /\ UNCHANGED <<worldVars, guardVars>>
    \/ GuardStep(a) /\ UNCHANGED <<worldVars, commandVars>>

Others ==
    /\ WithinLoad
    /\ \/ Disturbance /\ UNCHANGED guardVars
       \/ \E d \in Dirs : /\ Alter(d)
                          /\ UNCHANGED <<strange, output, onTarget, broken, folder,
                                         commandVars>>

Next ==
    /\ UNCHANGED dirOf
    /\ \/ \E a \in Attempts : Harness(a) \/ Die(a)
       \/ (\E a \in Attempts : Children(a)) /\ UNCHANGED harnessVars
       \/ Others /\ UNCHANGED harnessVars

Step(a) == UNCHANGED dirOf /\ Harness(a)

\* The harness keeps running, and time runs out while it waits; nothing is
\* assumed of its children.
Spec == Init /\ [][Next]_vars /\ \A a \in Attempts : WF_vars(Step(a))

----------------------------------------------------------------------------
(* Properties *)

Launched(a) == prod[a] # "off"
HasJob(a) == held[a] \in queue

\* Each class the harness gives is what the command really did, although it
\* judges by text and rows: nothing ran if it was not launched; no claim ever
\* existed for the two no-claim classes; Resolve was never asked for a job
\* when its configuration failed; no job was added, or the job it held is
\* gone, for the next two, and the claim is released; a manual reconciliation
\* has its claim row to reconcile; an accepted attempt owns its queued row.
ClassificationIsTrue ==
    \A a \in Attempts :
        /\ class[a] = "not_launched" => ~ Launched(a)
        /\ class[a] \in {"early", "selection"} => did[a] = {}
        /\ class[a] = "configuration" => did[a] = {"claimed"} /\ rows[a] = "none"
        /\ class[a] = "not_added" => did[a] = {"claimed", "asked"} /\ rows[a] = "none"
        /\ class[a] = "unobserved" => "asked" \in did[a] /\ rows[a] = "none"
        /\ class[a] = "rolled_back" => ~ HasJob(a) /\ rows[a] = "none"
        /\ class[a] = "manual" => rows[a] = "claiming"
        /\ class[a] = "accepted" => rows[a] = "queued" /\ "asked" \in did[a]

\* A command that ran has its invocation on disk whenever the harness died, in
\* a directory where every piece of evidence is of that attempt, although two
\* attempts may have been given one directory and both found it absent.
LaunchIsOnRecord ==
    \A a \in Attempts : Launched(a) =>
        /\ <<"command", a>> \in files[dirOf[a]]
        /\ \A f \in files[dirOf[a]] : f[2] = a

\* A drift before the fresh preflight was over, in what the second pass tests
\* and down to the spelling of the folder path, or a Resolve in use when the
\* preflight began, keeps the command from being launched.  An interpreter
\* exchanged after the first pass is in no test of the code and not in this.
DriftStops == \A a \in Attempts : drifted[a] => ~ Launched(a)

\* The hashes of a finished attempt name all its evidence; only the snapshot
\* may be missing, and only when the preflight was abandoned at its timeout
\* and its collector finished afterwards.  Evidence is left without hashes by
\* an exception only in that case too: the collector was still publishing.
SealedIsComplete ==
    \A a \in Attempts :
        /\ pc[a] = "ended" /\ stop[a] # "refused"
           => /\ "final" \in listed[dirOf[a]]
              /\ Present(dirOf[a]) \ listed[dirOf[a]]
                 \subseteq (IF stop[a] = "guard_timeout" THEN {"snapshot"} ELSE {})
        /\ pc[a] = "raised" /\ <<"opened", a>> \in files[dirOf[a]]
           => stop[a] = "guard_timeout"

\* A harness that is not killed ends, with a result or with an exception, even
\* if neither child ever answers.
EveryRunEnds ==
    \A a \in Attempts : (pc[a] # "off") ~> (pc[a] \in {"ended", "raised", "dead"})
=============================================================================
