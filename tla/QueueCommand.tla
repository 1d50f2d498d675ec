---------------------------- MODULE QueueCommand ----------------------------
(***************************************************************************)
(* What an authorised queue attempt works on and the one command it may    *)
(* run: `python -m cli.main render queue RLC-E9901 broadcast_master`, a    *)
(* process of its own, as scripts/rlc_e9901_queue_attempt_harness.py sees  *)
(* it from outside.  The harness knows the command by its exit code, its   *)
(* text and the database; `did` records what the command really did.       *)
(*                                                                         *)
(* Around it others work: the operator in Resolve, somebody at the         *)
(* checkout, another Redline process (the disturbances).                   *)
(***************************************************************************)
EXTENDS Naturals, FiniteSets

CONSTANTS Attempts,         \* runs of the harness, each with its command
          Operator,         \* the render job an operator adds by hand
          MaxDisturbances   \* bound: changes made by others

ASSUME OperatorAssumption == Operator \notin Attempts
ASSUME BoundAssumption == MaxDisturbances \in Nat

VARIABLES rows,       \* the render_jobs row of an attempt
          strange,    \* a render_jobs row of another render exists
          status,     \* the episode's status
          folder,     \* how episodes.folder_path is written
          output,     \* the expected output file exists
          queue,      \* Resolve's jobs, by who added them
          onTarget,   \* Resolve shows the expected project and timeline
          broken,     \* what no longer is as reviewed
          disturbances,
          prod,       \* where the command of an attempt is
          planned,    \* the folder its render plan was built from
          before,     \* jobs listed before its AddRenderJob()
          held,       \* the job id it holds
          said,       \* what its text will match
          did         \* history: what it did to the database and Resolve

worldVars == <<strange, output, onTarget, broken, disturbances, folder>>
commandVars == <<rows, status, queue, prod, planned, before, held, said, did>>

\* Every condition an attempt binds itself to before it runs anything.
Conditions == {"repository", "sources", "wrapper", "interpreter", "modules",
               "history", "collector"}

RowStates == {"none", "claiming", "queued"}
Folders == {"reviewed", "same_place", "elsewhere"}

\* The texts the harness tells apart; "other" matches none of its fragments.
Texts == {"nothing", "success", "early", "selection", "configuration",
          "not_added", "unobserved", "rolled_back", "manual", "other"}

Running == {"database", "queue", "claim", "configure", "add", "finalize",
            "delete", "release"}

Jobs == Attempts \cup {Operator}
NoJob == "no_job"
ASSUME JobAssumption == NoJob \notin Jobs
Empty(default) == [a \in Attempts |-> default]

CommandTypeOK ==
    /\ rows \in [Attempts -> RowStates]
    /\ status \in {"assembled", "render_queued"}
    /\ folder \in Folders
    /\ strange \in BOOLEAN /\ output \in BOOLEAN /\ onTarget \in BOOLEAN
    /\ queue \subseteq Jobs
    /\ broken \subseteq Conditions
    /\ disturbances \in 0 .. MaxDisturbances
    /\ prod \in [Attempts -> Running \cup {"off", "exited", "killed"}]
    /\ planned \in [Attempts -> Folders]
    /\ before \in [Attempts -> SUBSET Jobs]
    /\ held \in [Attempts -> Jobs \cup {NoJob}]
    /\ said \in [Attempts -> Texts]
    /\ did \in [Attempts -> SUBSET {"claimed", "asked", "added"}]

CommandInit ==
    /\ rows = Empty("none")
    /\ status = "assembled"
    /\ folder = "reviewed"
    /\ strange = FALSE
    /\ output = FALSE
    /\ queue = {}
    /\ onTarget = TRUE
    /\ broken = {}
    /\ disturbances = 0
    /\ prod = Empty("off")
    /\ planned = Empty("reviewed")
    /\ before = Empty({})
    /\ held = Empty(NoJob)
    /\ said = Empty("nothing")
    /\ did = Empty({})

\* Path(folder_path).resolve(): two spellings of one directory are one.
Resolved(f) == IF f = "same_place" THEN "reviewed" ELSE f

\* The output path of an active row is the one the attempt plans.
Occupied(a) == \E b \in Attempts : /\ rows[b] # "none"
                                   /\ Resolved(planned[b]) = Resolved(planned[a])

Does(a, deeds) == did' = [did EXCEPT ![a] = @ \cup deeds]
Continue(a, step) == prod' = [prod EXCEPT ![a] = step]

\* The command prints a text and exits.
Exit(a, text) == Continue(a, "exited") /\ said' = [said EXCEPT ![a] = text]

\* It prints a text after it has released its claim.
ReleaseThenSay(a, text) == Continue(a, "release") /\ said' = [said EXCEPT ![a] = text]

----------------------------------------------------------------------------
(* The command, one step per database transaction and Resolve call *)

\* The process starts, connects, and reads the episode it plans for.
StartCommand(a) ==
    /\ prod[a] = "off"
    /\ planned' = [planned EXCEPT ![a] = folder]
    /\ \/ Continue(a, "database") /\ UNCHANGED said
       \/ Exit(a, "other")
    /\ UNCHANGED <<rows, status, queue, before, held, did>>

\* _reject_collisions(): the output on disk, then an active row with it.
CheckDatabase(a) ==
    /\ prod[a] = "database"
    /\ IF (output /\ Resolved(planned[a]) = "reviewed") \/ Occupied(a)
       THEN Exit(a, "early")
       ELSE \/ Continue(a, "queue") /\ UNCHANGED said
            \/ Exit(a, "early")
    /\ UNCHANGED <<rows, status, queue, planned, before, held, did>>

\* A job in Resolve with this output, a timeline without video, a failed call.
CheckQueue(a) ==
    /\ prod[a] = "queue"
    /\ \/ /\ \A b \in queue \cap Attempts :
                Resolved(planned[b]) # Resolved(planned[a])
          /\ Continue(a, "claim")
          /\ UNCHANGED said
       \/ \E text \in {"selection", "other"} : Exit(a, text)
    /\ UNCHANGED <<rows, status, queue, planned, before, held, did>>

\* claim_render_output(): the row, or the unique index refuses it.
Claim(a) ==
    /\ prod[a] = "claim"
    /\ IF Occupied(a)
       THEN /\ Exit(a, "selection")
            /\ UNCHANGED <<rows, did>>
       ELSE /\ rows' = [rows EXCEPT ![a] = "claiming"]
            /\ Does(a, {"claimed"})
            /\ Continue(a, "configure")
            /\ UNCHANGED said
    /\ UNCHANGED <<status, queue, planned, before, held>>

\* queue_render_job() up to SetRenderSettings().
Configure(a) ==
    /\ prod[a] = "configure"
    /\ \/ /\ before' = [before EXCEPT ![a] = queue]
          /\ Continue(a, "add")
          /\ UNCHANGED said
       \/ /\ \E text \in {"configuration", "other"} : ReleaseThenSay(a, text)
          /\ UNCHANGED before
    /\ UNCHANGED <<rows, status, queue, planned, held, did>>

\* The job id is known: returned by the call, or the only new one listed.
Hold(a, job) == Continue(a, "finalize") /\ held' = [held EXCEPT ![a] = job]

\* AddRenderJob() and the reconciliation of its answer.
Add(a) ==
    /\ prod[a] = "add"
    /\ \/ \* the job is in the queue
          /\ queue' = queue \cup {a}
          /\ Does(a, {"asked", "added"})
          /\ \/ Hold(a, a) /\ UNCHANGED said
             \/ ReleaseThenSay(a, "unobserved") /\ UNCHANGED held
             \/ ReleaseThenSay(a, "other") /\ UNCHANGED held
       \/ \* it is not; somebody's only new job is taken for it
          /\ Does(a, {"asked"})
          /\ UNCHANGED queue
          /\ \/ /\ \E job \in Jobs : queue \ before[a] = {job} /\ Hold(a, job)
                /\ UNCHANGED said
             \/ /\ \E text \in {"not_added", "unobserved", "other"} :
                       ReleaseThenSay(a, text)
                /\ UNCHANGED held
    /\ UNCHANGED <<rows, status, planned, before>>

\* finalize_render_output_claim(): row and episode in one transaction.
Finalize(a) ==
    /\ prod[a] = "finalize"
    /\ \/ /\ rows' = [rows EXCEPT ![a] = "queued"]
          /\ status' = "render_queued"
          /\ Exit(a, "success")
       \/ /\ Continue(a, "delete")
          /\ UNCHANGED <<rows, status, said>>
    /\ UNCHANGED <<queue, planned, before, held, did>>

\* Mutant: the text of a full rollback is printed though the job stayed.
DeleteUnproved(a) ==
    /\ prod[a] = "delete"
    /\ ReleaseThenSay(a, "rolled_back")
    /\ UNCHANGED <<rows, status, queue, planned, before, held, did>>

\* delete_render_job(): without it the claim stays for a person to look at.
Delete(a) ==
    /\ prod[a] = "delete"
    /\ \/ /\ queue' = queue \ {held[a]}
          /\ ReleaseThenSay(a, "rolled_back")
       \/ /\ Exit(a, "manual")
          /\ UNCHANGED queue
    /\ UNCHANGED <<rows, status, planned, before, held, did>>

\* release_render_output_claim().
Release(a) ==
    /\ prod[a] = "release"
    /\ \/ /\ rows' = [rows EXCEPT ![a] = "none"]
          /\ Exit(a, said[a])
       \/ /\ Exit(a, "manual")
          /\ UNCHANGED rows
    /\ UNCHANGED <<status, queue, planned, before, held, did>>

CommandStep(a) == \/ CheckDatabase(a) \/ CheckQueue(a) \/ Claim(a)
                  \/ Configure(a) \/ Add(a) \/ Finalize(a)
                  \/ Delete(a) \/ Release(a)

\* subprocess.run() kills the command when its time is up.
KillCommand(a) ==
    /\ prod[a] \in Running \cup {"exited"}
    /\ Continue(a, IF prod[a] = "exited" THEN "exited" ELSE "killed")
    /\ UNCHANGED <<rows, status, queue, planned, before, held, said, did>>

----------------------------------------------------------------------------
(* What others do meanwhile.  None of it is taken back, and a job id is not   *)
(* given twice.                                                              *)

Disturb == disturbances < MaxDisturbances /\ disturbances' = disturbances + 1

\* The checkout, the interpreter or a module on the path changes.
Break(condition) ==
    /\ condition \notin broken
    /\ Disturb
    /\ broken' = broken \cup {condition}
    /\ UNCHANGED <<strange, output, onTarget, folder, commandVars>>

\* Another Redline process: a render of another episode, a new folder path.
OtherRender ==
    /\ ~ strange
    /\ Disturb
    /\ strange' = TRUE
    /\ UNCHANGED <<output, onTarget, broken, folder, commandVars>>

MoveFolder(f) ==
    /\ folder = "reviewed" /\ f # "reviewed"
    /\ Disturb
    /\ folder' = f
    /\ UNCHANGED <<strange, output, onTarget, broken, commandVars>>

\* The operator: another timeline, a job of his own, a file at the output.
OperatorLeaves ==
    /\ onTarget
    /\ Disturb
    /\ onTarget' = FALSE
    /\ UNCHANGED <<strange, output, broken, folder, commandVars>>

OperatorQueues ==
    /\ Operator \notin queue
    /\ \A a \in Attempts : held[a] # Operator
    /\ Disturb
    /\ queue' = queue \cup {Operator}
    /\ UNCHANGED <<strange, output, onTarget, broken, folder,
                   rows, status, prod, planned, before, held, said, did>>

OutputAppears ==
    /\ ~ output
    /\ Disturb
    /\ output' = TRUE
    /\ UNCHANGED <<strange, onTarget, broken, folder, commandVars>>

Disturbance ==
    \/ \E condition \in Conditions : Break(condition)
    \/ OtherRender
    \/ \E f \in Folders : MoveFolder(f)
    \/ OperatorLeaves
    \/ OperatorQueues
    \/ OutputAppears
=============================================================================
