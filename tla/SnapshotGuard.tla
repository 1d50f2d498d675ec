--------------------------- MODULE SnapshotGuard ---------------------------
(***************************************************************************)
(* The fresh preflight of an attempt: the wrapper process                  *)
(* (scripts/rlc_e9901_snapshot_preflight_contract.py), the collector it    *)
(* launches (scripts/phase14_resolve_context_snapshot.py) and the checker  *)
(* it runs on the snapshot (scripts/rlc_e9901_preflight_assertion.py).     *)
(* Killing the wrapper does not kill the collector.                        *)
(***************************************************************************)
EXTENDS QueueCommand

CONSTANTS Dirs,       \* evidence directories
          DirChoices  \* the ones the attempts may be given

ASSUME DirChoicesAssumption == DirChoices \subseteq [Attempts -> Dirs]

VARIABLES dirOf,      \* the evidence directory an attempt was given
          guard,      \* where the wrapper of an attempt is
          collector,  \* where its collector is
          snapshot,   \* the snapshot file of a directory: none, as captured,
                      \* or altered since
          reported,   \* the snapshot whose hash the wrapper reported
          verdict     \* render_preflight_status

guardVars == <<guard, collector, snapshot, reported, verdict>>

GuardTypeOK ==
    /\ dirOf \in [Attempts -> Dirs]
    /\ guard \in [Attempts -> {"off", "verify", "wait", "evaluate", "exited", "killed"}]
    /\ collector \in [Attempts -> {"off", "guarding", "collecting", "publishing",
                                   "published", "failed", "killed"}]
    /\ snapshot \in [Dirs -> {"none", "captured", "altered"}]
    /\ reported \in [Attempts -> {"none", "captured", "altered"}]
    /\ verdict \in [Attempts -> {"none", "passed", "failed"}]

GuardInit ==
    /\ dirOf \in DirChoices
    /\ guard = Empty("off")
    /\ collector = Empty("off")
    /\ snapshot = [d \in Dirs |-> "none"]
    /\ reported = Empty("none")
    /\ verdict = Empty("none")

Report(a, status_) ==
    /\ guard' = [guard EXCEPT ![a] = "exited"]
    /\ verdict' = [verdict EXCEPT ![a] = status_]

Reach(a, step) == collector' = [collector EXCEPT ![a] = step]

----------------------------------------------------------------------------
(* The wrapper *)

\* The repository, the collector, the checker and the interpreter are those
\* that were reviewed.
InvocationAsReviewed == broken \cap {"repository", "collector", "interpreter"} = {}

\* _canonicalize_and_validate_evidence_path(): the snapshot does not exist yet.
PathIsFree(a) == snapshot[dirOf[a]] = "none"

\* _prepare_verified_invocation(), then the collector is launched.
VerifyInvocation(a) ==
    /\ guard[a] = "verify"
    /\ \/ /\ InvocationAsReviewed
          /\ PathIsFree(a)
          /\ guard' = [guard EXCEPT ![a] = "wait"]
          /\ Reach(a, "guarding")
          /\ UNCHANGED verdict
       \/ Report(a, "failed") /\ UNCHANGED collector
    /\ UNCHANGED <<snapshot, reported>>

\* The collector exits, or is killed when its time is up.
CollectorEnds(a) ==
    /\ guard[a] = "wait"
    /\ \/ /\ collector[a] = "published"
          /\ guard' = [guard EXCEPT ![a] = "evaluate"]
          /\ UNCHANGED <<collector, verdict>>
       \/ /\ collector[a] = "failed"
          /\ Report(a, "failed")
          /\ UNCHANGED collector
       \/ /\ Reach(a, IF collector[a] = "published" THEN "published" ELSE "killed")
          /\ Report(a, "failed")
    /\ UNCHANGED <<snapshot, reported>>

\* evaluate_offline_preflight(): the guard states in the file were safe when it
\* was captured; product, version, preset and video items may refuse it.
Judgements == {"passed", "failed"}

\* The file is read, hashed and judged.
Evaluate(a) ==
    /\ guard[a] = "evaluate"
    /\ reported' = [reported EXCEPT ![a] = snapshot[dirOf[a]]]
    /\ \E status_ \in Judgements : Report(a, status_)
    /\ UNCHANGED <<collector, snapshot>>

----------------------------------------------------------------------------
(* The collector *)

\* enforce_safe_guard_state(): the expected project and timeline, no job.
Safe == onTarget /\ queue = {}

\* enforce_execution_interlock(), connect, first look at the guard state.
FirstGuard(a) ==
    /\ collector[a] = "guarding"
    /\ \/ Safe /\ Reach(a, "collecting")
       \/ Reach(a, "failed")
    /\ UNCHANGED <<guard, snapshot, reported, verdict>>

\* Everything is read; the second look must be safe too and equal the first.
SecondGuard(a) ==
    /\ collector[a] = "collecting"
    /\ \/ Safe /\ Reach(a, "publishing")
       \/ Reach(a, "failed")
    /\ UNCHANGED <<guard, snapshot, reported, verdict>>

\* write_json_no_overwrite(): os.link() creates the file or fails; the file
\* may stay although the temporary one could not be removed.
Publish(a) ==
    /\ collector[a] = "publishing"
    /\ \/ /\ snapshot[dirOf[a]] = "none"
          /\ snapshot' = [snapshot EXCEPT ![dirOf[a]] = "captured"]
          /\ \E step \in {"published", "failed"} : Reach(a, step)
       \/ /\ Reach(a, "failed")
          /\ UNCHANGED snapshot
    /\ UNCHANGED <<guard, reported, verdict>>

GuardStep(a) == \/ VerifyInvocation(a) \/ CollectorEnds(a) \/ Evaluate(a)
                \/ FirstGuard(a) \/ SecondGuard(a) \/ Publish(a)

\* Somebody changes a snapshot file.
Alter(d) ==
    /\ snapshot[d] = "captured"
    /\ Disturb
    /\ snapshot' = [snapshot EXCEPT ![d] = "altered"]
    /\ UNCHANGED <<guard, collector, reported, verdict>>

----------------------------------------------------------------------------
(* What the harness does with the wrapper *)

\* subprocess.run() starts it; FALSE when the launch raises.
LaunchGuard(a) ==
    /\ guard' = [guard EXCEPT ![a] = "verify"]
    /\ UNCHANGED <<collector, snapshot, reported, verdict>>

\* The harness' timeout kills the wrapper, not the wrapper's child.
KillGuard(a) ==
    /\ guard' = [guard EXCEPT ![a] = IF @ = "exited" THEN "exited" ELSE "killed"]
    /\ UNCHANGED <<collector, snapshot, reported, verdict>>

\* The snapshot on disk is the one whose hash was reported.
Bound(a) == snapshot[dirOf[a]] # "none" /\ snapshot[dirOf[a]] = reported[a]
=============================================================================
