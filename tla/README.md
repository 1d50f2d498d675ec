# Redline OS in TLA+

Redline OS drives DaVinci Resolve through the life of an episode: create it,
assemble its timeline, queue and start renders, follow them, archive the result,
and back up and restore its own database. It keeps the state of that pipeline in
one SQLite file. Resolve keeps its own state and is only reachable by scripted
calls. Every CLI command is a process of its own and the MCP server is one more,
all over the same database and the same Resolve, and no lock is held between
them. The specifications here are about what that arrangement keeps and does not
keep when several commands overlap, and when a command dies half way.

Seven state machines are modelled: rendering, the assembly of an episode, its
whole life from build to archive, the making of backups and captures, restore and
recovery, the asset registry with its reconciliation, and the authorised queue
attempt of `scripts/`.

Paths below are those of the repository (`redline_core/...` is
`src/redline_core/...`).

## Inventory

| Component | State | Operations | Hard behaviour | Correct when |
|---|---|---|---|---|
| render (`redline_core/render`) | `render_jobs` rows, `episodes.status`; Resolve's queue | `queue_render`, `get_render_status`, `cancel_render`, `start_render` | several processes, three stores (SQLite, Resolve, files) with no common transaction, crashes, unconfirmed calls | one active row per output; rows follow jobs and never run ahead of them; no job is lost silently |
| database (`redline_core/db`) | episodes, render_jobs, archives | claim/finalize/release of outputs and assembly, guarded and unguarded updates, `commit_verified_archive`, migrations | which writes have a guard and which do not | transactions keep the uniqueness and lifecycle rules whatever their order |
| resolve adapter (`redline_core/resolve`) | none of its own; Resolve's loaded project, render settings, queue, media pools | one method per scripted operation | the loaded project and the settings are shared by all processes; calls may succeed without saying so | an unconfirmed outcome is reported, never guessed |
| episode manager (`redline_core/episode`) with media and timeline | `episodes.status`, `assembly_claim_token`, the two paths; Resolve project | `create_episode`, `build_episode` | racing and forced retries, takeover of a running attempt, crashes between stages, project switches | one ordinary attempt per episode, single takeover, assembled means complete |
| build orchestrator, workflows (`build`, `workflows`) | the copied manifest and its provenance record | preflight, build, persist provenance, render | sequences the managers; the manifest may be saved again meanwhile, the process may die between two files | an archive never takes half a provenance for a whole one |
| archive (`redline_core/archive`) | archive packages on disk, archives row, `episodes.status` | `create_archive`, `verify_archive`, `recover_archive` | files hashed and copied one by one while others edit; publish then commit, failure in between, two archivers | a package is a snapshot and enough to make the episode again; it appears once and whole; the row names it |
| backup (`redline_core/backup`) | backup packages on disk | create, list, verify | snapshot beside writers, an id of one second, crash before publication | only whole packages of one moment are published, none is replaced |
| restore and recovery (`redline_core/restore`) | journal, staged files, live database and configuration; capture packages | restore, inspect, plan, execute recovery, capture | crash between any two renames, torn journal records, writers after the quiescence probe, a capture of whatever is there | an interrupted restore is classified rightly and never resumed wrongly; a capture says what it is |
| asset registry (`redline_core/asset`) | registry database | initialize, insert, update, list, observe | last writer wins; a file of unknown origin; a unique index that is partial | no two live records at one path |
| asset reconciliation (`asset/reconciliation`) | none (pure) | validate, index, match, classify, plan | three matching passes whose conflicts overlap; inputs captured at different moments | every record and observation is accounted for once |
| queue attempt (`scripts/rlc_e9901_*`, `phase14_resolve_context_snapshot.py`) | an evidence directory per attempt; three processes | prepare, preflight, recheck, run the command once, classify, seal | children that hang or outlive their parent, conditions that drift, a command known only by its text | what is claimed of the command is what it did; evidence is complete and of one attempt |
| manifest, config, logging, runtime | none | parse, validate, compose | - | - |
| CLI, MCP server, control room, other scripts | none | transport, reports, diagnostics | each command is a process | - |

`PROJECT.json` lists the same components with their files and status, and the
hazards with the lines where they bite.

## Modules

| Module | Models | Lines of code it stands for |
|---|---|---|
| `RenderDatabase` | the transactions of `db/database.py` that rendering and archiving use, and the partial unique index | `database.py` 24-28, 254-259, 469-599, 646-789; `schema.sql` |
| `ResolveQueue` | Resolve's render queue as `resolve/adapter.py` uses it; the operator at the Resolve window | `adapter.py` 110-117, 1019-1069, 1558-1897, 2089-2143 |
| `RenderPipeline` | `render/manager.py` run by several processes, on top of the two above; all render properties | `manager.py` 49-368, `adapter.py` 882-1004, 1132-1144, 1354-1453 |
| `EpisodeAssembly` | `build_episode()` run by several processes: the claim, the stages in Resolve, releases, crashes, with rendering and archiving as other writers of the status | `episode/manager.py` 111-450, 578-628, `database.py` 291-414, `adapter.py` 304-722 |
| `AssemblyClaim` | the abstract claim of ADR-0001 | the promise, not the code |
| `ArchiveSources` | the files an archive is made from, stable reads, inventories, content and evidence plans | `fsutil.py`, `archive/integrity.py`, `content.py`, `supplement.py`, `evidence.py` |
| `ArchivePackage` | staging, sealing, publication and verification of one package | `archive/package.py` |
| `EpisodeBuild` | `build` and `build --render`: preflight, `create_episode()`, assembly and rendering in short, persisted provenance | `build/*.py`, `episode/manager.py`, `workflows/build_render.py` |
| `EpisodeArchive` | `create_archive()`, `recover_archive()`, `verify_archive()` by several processes, on top of the three above; the properties of the life of an episode | `archive/manager.py` |
| `PackageStore` | the abstract store of packages, for archives and for backups and captures | the promise, not the code |
| `LiveSources` | a database with its journal and a configuration directory that others go on changing | the world of the next module |
| `SystemPackages` | `create_backup()` and the degraded-source capture, file by file | `backup/*.py`, `restore/capture_*.py`, `fsutil.py` |
| `RestoreExecution` | `RestoreManager.restore()` and `execute_recovery()` step by step, with crashes, faults and other writers; all restore properties | `restore/manager.py` 154-302, `recovery_execution.py` 216-506 and the modules they call |
| `RestoreJournal` | the journal of an attempt: what is published, what a reader trusts | `restore/journal.py` 42-105, 207-347 |
| `WriteAhead` | the abstract write-ahead journal | the promise, not the code |
| `AssetRegistry` | the registry database: schema check, insert, update, what a record accepts | `asset/sqlite_repository.py`, `models.py`, `schema.sql`, `path_policy.py` |
| `ReconciliationInputs`, `ReconciliationMatching`, `ReconciliationPlan` | the pure planner as operators: validation and scope, matching, classification and plan | `asset/reconciliation/*.py` |
| `AssetReconciliation` | callers of the registry, changing files, and one reconciliation of what was captured | the interface of the two above |
| `QueueCommand` | the one command an attempt may run, as seen from outside, and what others do meanwhile | `render/manager.py` and `adapter.py` once more, `rlc_e9901_queue_attempt_harness.py` |
| `SnapshotGuard` | preflight wrapper, collector and offline checker | `rlc_e9901_snapshot_preflight_contract.py`, `rlc_e9901_preflight_assertion.py`, `phase14_resolve_context_snapshot.py` |
| `QueueAttempt` | `run_authorized_queue_attempt()` with its children; all properties of attempts | `rlc_e9901_queue_attempt_harness.py` |
| `MC...` | instances for TLC | - |
| `RenderPipelineProofs`, `EpisodeAssemblyProofs`, `RestoreExecutionProofs`, `QueueAttemptProofs`, `EpisodeArchiveProofs`, `SystemPackagesProofs`, `AssetReconciliationProofs` | theorems | - |

The lines of the newer modules are in the map of `PROJECT.json`, definition by
definition. `RenderPipeline` extends `ResolveQueue`, which extends
`RenderDatabase`: they are one state machine in three layers, and only
`RenderPipeline` has processes. The other machines are layered in the same way:
`RestoreExecution` over `RestoreJournal`, `SystemPackages` over `LiveSources`,
`QueueAttempt` over `SnapshotGuard` over `QueueCommand`, `AssetReconciliation` over
the planner over `AssetRegistry`. `EpisodeArchive` composes `EpisodeBuild` (over
`RenderDatabase` and `ArchiveSources`) with `ArchivePackage`.

### RenderPipeline

The variables of the database are the columns that matter: `epStatus`
(`episodes.status`), `rowStatus`, `rowPlan`, `rowRid` (`render_jobs.status`, the
identity columns, `resolve_job_id`) and `archiveOf` (the archives row). A *plan*
is a `RenderOutputPlan`; only its episode and its output path are told apart. The
variables of Resolve are the loaded project (`current`), the render settings of
each project (`settings`), its queue (`qStatus`, `qPlan`) and the output `files`.

A process runs one handler at a time; `pc` and the locals `row, plan, rid,
before, seen, live` are its stack. It takes a step per transaction and per Resolve
call that another process can disturb:

| Handler | Steps |
|---|---|
| `queue_render` | `QueueRender` (plan, output not on disk), `CheckDatabase`, `CheckResolve`, `Claim`, `PrepareJob` (to `SetRenderSettings`), `AddAccepted`/`AddRefused` (`AddRenderJob` and the identification of the job), `Finalize`, `DeleteAccepted`, `ReleaseClaim` |
| `get_render_status` | `Poll` (read), `PollAsk` (Resolve), `PollWrite` (row), `PollEpisode` (episode: a second transaction) |
| `cancel_render` | `Cancel` (read), `CancelAsk` (Resolve), `CancelWrite` |
| `start_render` | `Start` (read, output not on disk), `StartAsk` (Resolve), `StartWrite` |

`HandlerFails` is any step that raises without compensation (database locked,
Resolve refuses, a precondition is gone), `Crash` the death of the process.
`ArchiveEpisode` is the commit of `create_archive()`. `Environment` is what
happens at the Resolve window: another project is opened, a render is started,
a render ends.

`CustomNameReported` is a constant because the code does not know: the queue-time
collision check compares `CustomName`, which Resolve's job list need not contain
(the start-time check compares `OutputFilename` for that reason). Where it is
FALSE, the check of Resolve's queue finds nothing, and only the claim in SQLite
separates submitters.

### EpisodeAssembly

An attempt is one call of `build_episode()`; its uuid token is the attempt. A
forced claim has two steps, the SELECT and the compare-and-swap, so every
interleaving the docstring of `_claim_episode_for_assembly_cas()` reasons about is
there. `import_media()` is split where it matters: `OpenProject` loads the project,
`ImportMedia` imports into whatever project is loaded by then, which is how
Resolve's MediaStorage works. The other stages load their project and act on it in
one step. A stage may fail with or without its effect in Resolve. `Finish` and
`BuildError` are the two releases; both may raise, and then the claim stays.
`QueueRender`, `CompleteRender` and `ArchiveEpisode` write the same status column
with the guards (mostly none) they have in the code.

`replaced`, `stale` and `acquired` are history variables; so is `orphans` in
`RenderPipeline`. No guard of the modules that model the code depends on them.

### EpisodeBuild, EpisodeArchive

One episode from nothing to its archive. The content of a file is the number of
its version: a file written again has a version it never had, so equal versions
are equal bytes and a digest is what it digests. `disk` is every file that can be in
the workspace, below a media root, below the evidence path, and the operator's
manifest; `recorded` is what `manifest_provenance.json` says. `tracked`, `folder`,
`folderPath`, `project` and `projectPath` are the row, the directory, the Resolve
project and the two columns that `create_episode()` sets one after the other.

| Code | Action |
|---|---|
| `BuildPreflight.prepare()`, lookup | `Prepare`, `LookUp` |
| `create_episode()` | `InsertEpisode`, `CreateFolder`, `RecordFolder`, `DuplicateProject`, `RecordProject` |
| `build_episode()` | `ClaimAssembly`, `Assemble` (in detail in `EpisodeAssembly`) |
| `persist_manifest_provenance()` | `CheckProvenance`, `CopyManifest`, `RecordProvenance` |
| rendering | `ClaimRender`, `QueueAfterBuild`, `AcceptRender`, `RenderWrites`, `PollRender`, `PollEpisode` (in detail in `RenderPipeline`) |
| `create_archive()`: rows, then the render job it selects and its output | `BeginArchive` (archives row and episode), `SelectRenderJob` |
| `build_source_inventory()` | `Enumerate`, `HashFile` per file, `Settle` |
| content plan, final path, evidence | `PlanContent`, `RejectFinal`, `ResolveEvidence` |
| `build_archive_package()` | `Stage`, `Copying` and `CheckCopy` per file, `Complete` (compare all, seal), `Recheck`, `PublishPackage` |
| `commit_verified_archive()` | `Commit`; when it fails the package stays unregistered |
| `recover_archive()` | `RecoverVerify`, `RecoverRows` (archives row and episode), `RecoverJob`, `RecoverRegister` |
| death of a process | `KillBuilder`, `KillArchiver` |
| people and disks | `Edit` (save, remove, link), `Damage` |

An archive id is what it is derived from: the files outside the evidence and their
roles. `seen` is a history variable, the disks an archiver has lived through, and
`damaged` remembers which packages were damaged after publication.

### LiveSources, SystemPackages

A file is two chunks, so that a reader can meet half of a change. A transaction
writes the journal, two pages under the lock, and removes the journal; its process
may die in between and leave a hot journal, which the next writer rolls back
(`BeginWrite`, `WritePage`, `CommitWrite`, `WriterDies`, `RollBack`). Configuration
files are edited in place or saved anew; live objects are lost or replaced
(`Disturb`).

| Code | Action |
|---|---|
| `create_backup()`: sources, snapshot | `BeginBackup`, `Snapshot` (the backup API takes the lock; a hot journal makes it fail), `SnapshotFails` |
| copies of configuration files | `OpenConfig`, `CopyConfig`: opened, read in two parts, compared with what it was |
| seal and publish | `SealBackup` (id of the second and the digest), `PublishPackage` |
| capture: database, directory, files, sidecars | `BeginCapture`, `OpenItem`, `CaptureItem`, `LookAtFolder`, `ListFolder`, `LookForSidecars`, `SealCapture`, `PublishPackage` |
| death, damage | `Kill`, `DamagePackage` |

A backup refuses what is not whole and stable. A capture records it with its
outcome and goes on. `quiet` says whether the live system changed since a call
began, `held` every content a file ever had; both are history.

### RestoreExecution

`live` is what is at each live path: the database, the configuration directory
and the SQLite sidecars. An object is a generation of healthy content or one of the
conditions the classifiers tell apart (missing, corrupt, unreadable, wrong type, a
link). Hashes and fingerprints compare objects, so they are compared as objects.
`aside` is what an attempt moved to its superseded paths; `safety`, `capture` and
`reclass` are its safety backup, its degraded-source capture and the second
classification. The attempt goes through `pc`, which is a step or a journal state
to record, in the order of the tables `RestoreOrder` and `RecoveryOrder`; a step
that fails goes to the state in `FailureState`, after which the attempt ends.

| Code | Action |
|---|---|
| `RestoreJournal.create()` | `Begin` |
| `record()`: JSON file, then its hash, two renames | `Record`; `TornRecord` stops between the renames, `Crash` before the first |
| fresh verification, schema check | `VerifyTarget`, `CheckSchema`, `ReverifyTarget`: they read the backup only, and fail by `StepFails` |
| safety backup; probe; sidecar gate; staging | `SafetyBackup`, `Probe`, `SidecarGate`, `Stage` |
| `replace_database()`, `rename_config_aside()`, `install_staged_config()` | `ReplaceDatabase`, `RenameAside`, `InstallConfig` |
| `verify_restore()` | `Verify` |
| recovery plan, capture, its verification, second plan | `Plan`, `Capture`, `Reverify`, `CheckChanged`, `Reclassify` |
| the loop over dispositions | `NextDisposition`, `CheckDisposal`, `Dispose`, `DisposalUnproved` |
| stability checks, one of them before each mutation | `PreMutationStability`, `FinalStability`, `CheckDatabase`, `CheckConfig`, `CheckVacant` |
| anything that raises without a transition, the death of the process | `Crash` |
| another writer, contrary to the attestations | `OthersWrite` |

`start`, `done`, `fault` and `writes` are history variables: the live objects the
attempt began with, the renames it made, whether it met anything but unfit live
objects, and how often others wrote. The guards of `Begin` to `CheckVacant` read
one of them only through `Disposed`, which is the `disposed` dictionary of the code.

### AssetRegistry and reconciliation

A row of the registry is its record; size and modification time are the content
they were read from. The database file starts in any state a tool may have left
it in (version row, tables, path index), and `InitializeRegistry` creates it, accepts
it or refuses it. `update()` is by record id and compares nothing, so a caller that
holds a row it read earlier (`ReadRow`, then `WriteBack`) writes over what others
did meanwhile.

`Reconcile(in)` and `Plan(in)` are the whole planner over a snapshot and a request.
`Classify` keeps the order of the code: every step claims the records and
observations its decisions are about, and a later step skips what is claimed. The
decisions of most steps have nothing in common, so `ClaimAll` takes them together
(`EvidenceApart` to `LeftApart` prove that they are apart). Conflicts do share records
and observations, and `ClaimConflicts` takes them one after the other in their order
(`ConflictAt`). A conflict group is a component of the graph of shared keys; `Component`
is all that lies in every set of candidates closed under sharing an end.
`AssetReconciliation` lets records, evidence and observations be captured one after
the other while rows and files change.

### QueueCommand, SnapshotGuard, QueueAttempt

`run_authorized_queue_attempt()` proves the reviewed conditions, runs a fresh
preflight as a child process, proves the conditions again, runs
`render queue` once as another child, compares the database with what the command
printed, and seals its evidence directory. `broken` are the conditions that no
longer hold; `did` is what the command really did, against which the classification
is judged.

| Code | Action |
|---|---|
| `_prepare_queue_attempt()` | `CheckIdentity`, `CheckBaseline`, `MakeDirectory` |
| fresh preflight | `OpenEvidence`, then the wrapper (`VerifyInvocation`, `CollectorEnds`, `Evaluate`) and the collector, `GuardReports` or `GuardTimesOut`, `BindSnapshot` |
| second pass | `RecheckIdentity`, `RecheckBaseline` |
| production command | `RecordCommand`, `LaunchCommand`, then the command step by step, `CommandReports` or `CommandTimesOut` |
| `classify_queue_attempt_outcome()` | `Classify` |
| `final_result.json`, `sha256_manifest.json` | `Finish`, `Seal`, or `SealRaises` |
| others | `Break`, `OtherRender`, `MoveFolder`, `OperatorLeaves`, `OperatorQueues`, `OutputAppears`, `Alter` |

Killing a parent does not kill its child, as in the code: an abandoned collector may
still publish its snapshot, an abandoned command may still finish. A harness ends with a
result or a refusal (`"ended"`), or with an exception that nothing catches
(`"raised"`): its `mkdir` finds the directory made since it was looked for, or a
temporary file of a collector vanishes between `rglob()` and `read_bytes()` of the seal.

## Runs

| Run | Instance | Question |
|---|---|---|
| `RenderSerial` | one process that may die anywhere, 2 episodes (projects), 3 presets, 2 rows, 2 Resolve jobs, operator | what holds as long as commands do not overlap: recorded ids are right, no file has two live jobs, cancelled jobs are stopped |
| `RenderConcurrent` | two processes that may die, 1 episode, 2 presets, 2 rows, 2 jobs | what every interleaving keeps: one active row per output, rows not ahead of jobs, rendered means a file, no job forgotten silently |
| `RenderPolling` | two processes, one of which lives and keeps polling; 1 preset, 2 rows, 1 job | rows converge to complete |
| `RenderLostCompletion` | two processes, one keeps polling | violated: completion never reaches the episode |
| `AssemblyRetries` | 3 attempts at one episode, or one at each of two over one Resolve (`MCOneEach`); each ordinary or forced | who may start; each claim is taken over once; what is assembled is complete in its own project; the abstract claim is implemented |
| `AssemblyStaleForce` | 1 episode, 3 attempts | violated: a stale forced claim succeeds |
| `EpisodeLifecycle` | one episode, three commands of two builders and two archivers or recoverers, all of which may die; one edit, one damage | folder and project are there before a status or a column says so, whoever went on after a death; a package is a snapshot, appears once and whole, has what its own render job rendered and agrees with the row; the package store is implemented |
| `SystemPackages` | two callers: two backups, or a capture; one transaction whose process may die, one edit, one lost or replaced object, one damage | a backup is one commit, copies are of one moment, a quiet capture can be recovered from; the package store is implemented |
| `RestoreAlone` | library attempts one after the other, 2 sidecars, faults, crashes and torn records anywhere, nobody else writes | no evidence is lost, the journal tells the live objects, no check refuses what an earlier one admitted, the write-ahead journal is implemented |
| `RestoreDisturbed` | no sidecar, three writes by others during an attempt | a recovery takes away only what its capture has seen |
| `AssetReconciliation` | 2 assets, 2 paths, 2 contents of different size, 2 observers; claims of a known and an unknown id; four writes, two where the registry is reconciled | live paths are unique, also when an old row is written back; the matching never breaks its own invariant; each subject is decided once; what was matched is not reported missing or new; a trusted claim is not silently overruled |
| `QueueAttempts` | two attempts in one directory or two, one of which may be killed, or one attempt and one change by others | the classification is true; a launch is on record; drift stops the command; sealed evidence is complete; every run ends |

The type invariants of `RenderPipeline`, `EpisodeAssembly`, `RestoreExecution` and
`QueueAttempt` are checked by a run each. Those of `EpisodeArchive`, `SystemPackages`
and `AssetReconciliation` document their variables; adding `INVARIANT TypeOK` to the
configuration checks them on the same instance.

### Bounds

- `Procs`: two processes make every pairwise race; the liveness runs use one that
  dies and one that lives. The safety theorems are proved for any number.
- `Jobs`, `Rids` bound how many rows are inserted and jobs accepted in a
  behaviour. Two of each give a second submission after a finished, cancelled,
  lost or orphaned first one, which is where retries go wrong. A run that has
  used up its rows or jobs only refuses more submissions.
- `Plans`: two presets of one episode share a project and its settings; a third
  plan of another episode adds project switching. Two plans with one output are
  the same plan here: the presets of the configuration give different files. In
  `EpisodeLifecycle` there is one preset.
- `Attempts` of an assembly: three, because the stale forced claim needs a failed
  episode, an observer and another forced attempt.
- `EpisodeLifecycle`: `Editable` and `Removable` are a medium outside the workspace
  and the render master: the medium may be saved again or removed and the master
  removed, at any moment between being read and being copied. `MaxEdits` allows one such
  change, which is what a check made too early misses, not while both archivers build
  (`EditsOne`): they read the same sources, and neither reads what the other staged.
  `MaxDamage` is one damaged package, not after an edit. `Linkable` is empty there: a link is refused where
  a missing file is. `MaxCalls` 3 is the build, archive and recovery commands begun:
  a builder that goes on where another died and one archiver, or one builder and two
  archivers.
- `SystemPackages`: `MaxCommits`, `MaxEdits`, `MaxDisturb` are one each: one change
  tears a copy, one dead writer leaves a journal. `MaxSeconds` 1 lets two backups
  have one second or two. `MCOneKind`: backups compete with backups for an id, and
  captures, whose ids are random, are made without them.
- `Backups`: one backup of generations `g1` and `g2`. A live database or
  configuration equals it or not, and attempts follow each other on what the
  previous one left, so restoring twice and restoring over a half-restored system
  both occur. All states of the live paths are initial.
- `SidecarSuffixes`: the code has three; two give an order among them, and none
  is used where other writers multiply the states.
- `Quiet` names the places where nobody else writes: all of them in `RestoreAlone`,
  as the attestations demand. In `RestoreDisturbed` it is only the window between a
  check and its rename, which no code can close. There `MaxWrites` is 3: one write
  defeats a check, a second can undo the first, and a third exchanges the object again
  (7 million states).
- `AssetReconciliation`: `MaxWrites` 4 lets two rows be inserted, one of them changed
  by another caller and the row that was read before written back, while the other
  row is live. A file changes, and evidence or a snapshot is taken, where `MaxCaptured`
  rows were written at most, two: two records, active or deprecated, or one and a change of it. One file
  changes; two rows of evidence make an identity shared or contradictory. `MCScopes` is one scope, a
  complete root with an incomplete, excluded one inside and a partly failed list of
  names, so that some records should have been seen and some not;
  `included_asset_ids` is empty. `MCView` leaves out what nobody will read again once the
  snapshot is taken.
- `QueueAttempts`: `Load` 2 is attempts begun plus changes by others, so every
  single change meets an attempt at every step, and two attempts meet each other.
  A change by others is never taken back. The safety properties were also checked
  by hand with `MaxDisturbances = 2` and `Load = 3` (6.3 million states).
- Symmetry over processes, rows, jobs and attempts is used only in runs without
  liveness properties. Deadlock is not checked: commands come from people, and
  when every output exists and nothing is live there is nothing left to do.

### Fairness

`PollingSpec` assumes of a process outside `Killable` that it finishes the calls
it begins (weak fairness of its steps), that it polls every job again and again,
and that Resolve and SQLite do not refuse the same poll for ever (strong fairness
of the polling steps per job). This is the documented use of
`get_render_status()`, a cheap call that a client repeats. Nothing is assumed of
processes that may die, of the operator, or of a render ending. The polling runs
have one project: with several, the operator may keep another project loaded and
every answer is then `unknown`.

`Spec` of `QueueAttempt` assumes that a harness goes on (weak fairness of its
steps), and nothing of its children, which may hang. A wait ends because
`subprocess.run()` has a timeout: the expiry is a step of the harness. That is what
`EveryRunEnds` rests on, and its mutant takes the timeout away.

The other specifications state no fairness: their commands come from people and
nothing in the code retries them.

## What the runs found

Two sentences of the documentation are not kept by the code and have a run each;
the `findings` of `PROJECT.json` quote them.

- A crash between the two transactions of a completed poll leaves the episode
  `render_queued` for ever (`CompletionReachesEpisode`).
- A failed episode looks the same before and after another forced attempt, so a
  stale compare-and-swap succeeds (`StaleObservationLoses`).

Others came up while modelling. The models behave as the code does in each case, and
the properties are stated so that they hold of it:

- `_mark_episode_render_queued()` (`database.py` 525) has no guard, so another preset
  of an archived episode takes it back to `render_queued`; ADR-0001 (117) calls the
  archived state terminal.
- `queue_render()` (`render/manager.py` 78) does not look at its claim again before it
  submits, so `cancel_render()` of a claiming row lets a job be added without a
  claim; `ARCHITECTURE.md` (597-598) says otherwise. With two processes this also
  leaves a cancelled row with a live job, which is why `CancelledNotLive` is a
  property of commands that do not overlap. `RowOwnsItsJob` is one for another
  reason: settings and `AddRenderJob` are separate calls with no lock. The two-process
  races themselves are therefore under no property that holds.
- A poll that is late (`render/manager.py` 143) writes `rendered` over `archived`, and
  `RenderedIsReal` admits it: the episode was rendered. The archives row stays; ADR-0001
  (117), which calls the state terminal, is again what the code does not keep.
- `create_archive()` (`archive/manager.py` 463) takes the file at the output path of the
  render job it selects, and no hash of a render is kept anywhere. If another job has
  rendered to that path since, its bytes are archived as the master of the older job.
  `ArchiveIsWhole` therefore says that the master is at the path of the job and not
  which job wrote it; the documents promise nothing of the bytes.
- In a recovery a link that was captured, gives way to a regular database while the
  sources are classified again, and is put back before the replacement, is overwritten by
  `os.replace()` without having been moved aside. The stability check compares it
  with the capture and finds it unchanged. It takes three writes by others, and the
  attestations exclude them; `TakesOnlyWhatItCaptured` says which objects can go
  without a copy, and a link has no content to lose.
- `release_assembly_claim()` (`database.py` 403) overwrites the status of an episode
  that was rendered meanwhile; ADR-0001 (275-277).
- `persist_manifest_provenance()` (`manifest_provenance.py` 139) copies the manifest as
  it is by then, with the media of the one that was planned; `orchestrator.py` 143.
- `build_restore_services()` loads the live configuration before any restore or
  recovery command, so the recovery of a missing configuration, which
  `execute_recovery()` performs, cannot be reached from the command line.
- `list_backups()` (`backup/manager.py` 143-145) reports a package whose payload is
  damaged; it reads the marker and the manifest only.
- `update()` of the registry (`sqlite_repository.py` 276-322) is last writer wins;
  `ASSET_REGISTRY_ARCHITECTURE.md` (361).
- `classify_reconciliation()` (`classification.py` 296-297) skips a match when a conflict
  group has claimed one of its ends, and the other end is then in no item of the
  plan. `EverySubjectDecided` says how far that goes, and that it
  never makes a matched record or observation one that is missing or new.
- A `content_conflict` by hash (`classification.py` 455-460) does not block proposals,
  and a record can be `record_not_observed` although two observations are at its
  path (`ARCHITECTURE.md` 631).
- A collector that outlives the preflight's timeout may publish its snapshot after
  `sha256_manifest.json` was written (harness 2208-2209), or make the harness raise while
  it writes the hashes, so that a stopped attempt has a final result and no hashes.
  `SealedIsComplete` admits both in that one case and in no other.
- The second pass of the harness (1162-1180) does not test the interpreter again, nor the
  historical preflight. A Python exchanged while the preflight runs is not noticed,
  and `DriftStops` speaks of what the second pass tests.
- A render job that an operator adds between the listing and `AddRenderJob()` can be
  taken for the attempt's own, and is then accepted or deleted with it.

## What is proved

Every safety property and every action property that a run checks is also a theorem,
for any processes, rows, files, packages, generations, attempts or assets, any bounds,
and any choice of who may die. So are the three implementations of an abstract
specification. The theorems rest on assumptions about the constants, stated and named in
the modules and evaluated by TLC in the runs:

| Assumptions | Say |
|---|---|
| `PlanAssumption`, `SentinelAssumption`, `CustomNameAssumption`, `ProcsAssumption`, `JobAssumption` | a plan has an episode and an output, null values are no ids, only processes die |
| `AttemptAssumption` (assembly, archive), `ClaimAssumption`, `BuildAssumption`, `FactsAssumption` | null values are no processes; one episode, its outputs lie in its workspace, Resolve's ids are used once |
| `SourcesAssumption`, `LocationAssumption` (archive) | versions are numbers, files are read in an order, what is copied as evidence is neither in the workspace nor media |
| `SourcesAssumption`, `ObjectAssumption`, `PackageAssumption` (packages) | database, journal and finitely many configuration files are different; no object is two kinds of thing |
| `RestoreAssumption` | conditions are not generations, suffixes are strings other than `database` and `config` |
| `AssetsAssumption`, `NoneAssumption`, `OutcomeAssumption` | assets are finitely many numbers; null values are no data |
| `OperatorAssumption`, `BoundAssumption`, `DirChoicesAssumption`, `KillableAssumption` | the operator is no attempt, the choices give each attempt a directory |

A few theorems have a hypothesis of their own, where the code promises nothing else:

| Hypothesis | Of | Says |
|---|---|---|
| `Alone` | `OwnJob`, `CancelledIsDead`, `OneLiveJob` | there is one process: commands do not overlap, though each may die anywhere |
| `OutputsApart`, `CustomNameReported` | `OneLiveJob` | outputs of two episodes differ (`episode/manager.py` 91-104), and Resolve's list shows where a job writes |
| `ProvenanceKept` | `ArchiveWhole` | only Redline writes `project/episode_manifest`, and no medium lies there |
| `MutationSteps \subseteq Quiet` | `TakesOnlyCaptured` | nobody writes between a check and its rename |
| `"Capture" \in Quiet` | `RefusesForCause` | nobody writes while the sources are captured |

`RenderPipelineProofs`:

- `TypeCorrect`. Types alone are not inductive, because a handler uses its locals
  (`PlanOutput[plan[p]]`, `row[p]`). `Shape` adds what they hold at each step
  (`LocalShape`), that an existing row has a plan (`RowShape`) and an existing job
  a plan (`JobShape`). One lemma per action shows `Shape` preserved.
- `OneActiveRow`. Every step is at most one of the seven transactions
  (`OneTransactionPerStep`), and each of them either goes through the index or
  keeps a row active that was active before (`TransactionKeepsOneActiveRow`).
- `NeverAhead`. What a row shows must have been reached by its job, also when it
  is written late. So the invariant `Truth` speaks of answers in flight as well:
  an answer a process holds was reached (`AnswersStayTrue`), jobs only advance
  (`JobsOnlyAdvance`), hence what was reached stays reached (`ReachedIsStable`).
- `OnlyRealRenders`. A completed job may write another output than its row names, but
  never one of another episode: `InEpisode` carries the episode from the row
  through the settings of the project to the job.
- `NoJobUnknown`. Each live job is in a row, in a handler's hands or in `orphans`;
  a live job was live before or has just been added (`LiveJobs`), and whoever drops an id
  first writes it to a row, deletes the job or reports it.
- `OwnJob`, `CancelledIsDead`, `OneLiveJob` from `Serial`. With one process the settings stay
  between `SetRenderSettings` and `AddRenderJob` and no job appears after the listing
  (`ListedBefore`), so the job that is new is its own (`HeldIsOwn`), and what a cancel or
  a poll writes is of the row it read (`CancelKnows`, `PollKnows`). `NoRival`: once the
  queue was looked through, no other job has the output.

`EpisodeAssemblyProofs`: `IInv` joins the types, what an attempt has done by each
step (`AttemptShape`), who can hold a claim and that a claimed episode is never
eligible again (`ClaimShape`), and that a replaced token never returns
(`ReplacedShape`). From it follow `OneOrdinaryAttempt`, `OneTakeover`,
`AssemblyComplete`, and `Refinement`: every step is a step of `AssemblyClaim` or
leaves the claim alone. `ClaimShape` is itself shown on the abstract steps only,
through `ClaimStep`.

`EpisodeArchiveProofs`: `IInv` has four parts.

- `Types` and, with it, `TypeCorrect`: an archiver at work has a render job, and a staging
  directory from `Stage` on.
- `EpisodeInv`: the status is a ladder (`Ladder`: no row, provenance or archive before the
  episode is assembled), and `create_episode()` sets folder, project and paths in one
  order whoever goes on with it (`Created`). `ProjectIsThere`, which is
  `AssembledHasProject`, follows.
- `AttemptInv`: an inventory holds what was listed, a plan all of it and the master
  (`PlanShape`); a staging directory belongs to its plan and job, and a sealed one is
  whole and, after the last look, equal to one disk the archiver has lived through
  (`StagingShape`). This is where `Snapshot` comes from: the last look compares the
  disk of one moment, so the witness is that moment.
- `StoreInv`: a package verifies unless it was damaged, ids are used once, and every
  manifest that an archiver, a recovery or the row relies on is stored. `PackagesSealed`,
  `RowMatchesPackage` and `Refinement` (`PackageStore` is implemented) follow.

`ArchiveWhole` adds `MasterInv` and `WholeInv`: the provenance is written once and after
the copy (`OneRecord`), so a workspace that holds the copy when an archiver plans
holds all of it, and goes on doing so. The master in it is the file at the output path of
the render job that is archived (`MasterIn`); which job wrote it is not known.

`SystemPackagesProofs`: `LiveInv` says that between transactions the database is as one
commit left it and otherwise the journal is. `CallShape` follows a call: the snapshot of
a backup is of one commit (`DatabaseShape`), verified copies are of contents the file
had (`OneMoment`), and while nothing changes a capture has what is there and misses no
journal (`QuietShape`), which works because the journal is read last. `PackagesInv`
keeps it after publication: `OneCommitEach`, `OneMomentEach`, `QuietRecovers`,
and `Refinement`.

`RestoreExecutionProofs`:

- `TypeCorrect`. A step is taken from a table, so its result has a type only where
  the table of this kind of attempt has an entry: `OrderShape` says that a restore
  is never at a step of a recovery, and what `capture` and `reclass` hold by when.
- `Refinement`: `WriteAhead` is implemented, with `intended` and `confirmed` read from
  the trusted part of the journal. While an attempt runs, its whole journal is
  sealed (`SealedShape`); a torn entry ends it. `JournalShape` then relates the
  journal, `done` and `pc`: before the intent, between intent and rename, after it.
- `JournalTells`: the journal gives the live objects up to one mutation. At most one
  is open, by the discipline of the refinement (`Discipline`). `Progress` says which
  mutations can have been made by each place, for instance that no disposition
  follows the replacement of the database; so the live objects are those that
  `done` accounts for (`Accounted`), whatever the order of the set.
- `TakesOnlyCaptured`, beside other writers. `Watch`: in each window the object is the
  captured one, because its check comes immediately before, and a database that could
  not be read was moved aside before the replacement.
- `EvidenceSurvives` and `RefusesForCause`, as long as nobody else wrote. `RestoreCourse`,
  `RecoveryCourse` and `CommonCourse` say what an attempt knows at each place: the safety
  backup or the capture is what it began with, the second classification is the first,
  what is disposed of is what is due (`Due`). Hence no late check can refuse what
  an early one admitted (`CheckCourse`), and what is taken away is kept (`Evidence`).

`QueueAttemptProofs`, for any choice of directories:

- `TypeCorrect`, from one lemma per layer: what a step of the command, of the world,
  of the preflight and of the harness does to the types.
- `LaunchRecorded`, which is `LaunchIsOnRecord`. A record on disk says nothing unless
  nobody else writes there. `Owned`: an attempt past `mkdir` is the only one that is
  past it for its directory, because `mkdir(exist_ok=False)` succeeds once. `Clean`:
  a directory nobody made is empty. `Recorded`: the invocation is there from before the launch on.
- `EvidenceSealed`, which is `SealedIsComplete`. What can still appear after the seal
  is a snapshot, so `CollectorShape` and `GuardShape` say which collectors can still
  publish: none whose wrapper has exited, only one whose wrapper was killed, and a
  wrapper is killed only by the timeout. `SealShape` relates the hashes to what is
  present from the seal on. The same shapes show that only such a collector can be
  publishing while the hashes are taken, and `RaisedShape` that every other exception
  comes before the attempt wrote anything.
- `ClassificationTrue`: what a command says is true of what it did (`CommandShape`,
  `JobShape`), and a class is given after the command ended and by what it said
  (`ClassShape`).
- `DriftKept`: a drift, in what the second pass tests, does not go away, so it meets the wrapper or the second pass,
  whichever is still to come (`DriftShape`).

`AssetReconciliationProofs`:

- `PathsUnique`: the index was there before the first row, or was looked for before
  the file was accepted (`RegistryInv`).
- `NeverBreaks`: `build_matching_state()` gives each record and observation one match at
  most, and its ownership check does not raise (`MatchingOwns`). Trusted claims and
  paths are unique, rivals are dropped, and two strong candidates with a common end are in
  a conflict, which drops both. The theorem says more than the check of the code, which
  compares strong matches with the conflicts of strong identity only: they are in
  no conflict at all (`IdentityApart`).
- `SubjectsDecided`: through the ranks of `Classify`, what is claimed is decided
  once (`Tidy`) and is in an item, or its match is in one (`Accounted`); the ranks before
  the pairs only decide blocked items (`Contested`). The item of a pair names its record
  alone, as in the code, so its observation is decided through the record.
  Conflicts are finitely many (`ConflictsFinite`) and have an order, so they can be taken
  one after the other (`AfterExists`: the first rank without a member would be a
  contradiction). The ranks that report something as missing, out of scope or new come
  last and find both ends of every match claimed (`Honest`).
- `ClaimsFollowed`: a trusted observation that is matched is matched to what it claims
  (`TrustedMatch`), and every item about the observation itself asks for review.

Only model-checked: the liveness properties `RowConverges` and `EveryRunEnds`, since
liveness under fairness and `ENABLED` are out of the proof system's reach. The type
invariants of `SystemPackages` and `AssetReconciliation` are not theorems as such; the
inductive invariants contain what of them the proofs need.

## Not modelled, and abstractions

- Resolve calls inside one adapter method are one step, except the two splits
  above. In `cancel_render()` the status query and the deletion are one step, and
  in `start_render()` the checks and `StartRendering`, so the race between a check
  and its call inside one method is not shown.
- A Resolve job that ended is not rendered again from the Resolve window. Renders
  that fail leave no file. Output files are removed by hand in `EpisodeLifecycle` only.
- A project is opened in Resolve at any time, also while it renders.
- SQLite's lock is not modelled where transactions are single steps; every database
  step may fail instead. `SystemPackages` has it.
- `create_render_job` and `create_accepted_render_job`, which no manager calls; the
  migrations of `init_schema()` and the import of legacy archives.
- The CLI's single-stage commands (import, timeline, clips), which take no claim.
- Archives: the archives row and the episode row are read together, which one
  transaction writes and `commit_verified_archive()` looks at again; so are the list of
  render jobs, the job that is taken and whether its output is a file. Directories, sizes, names that differ only in case, and the metadata
  snapshots other than the render job. Staging directories that a dead process left
  are never used again and not counted.
- `restore()` makes no check between its probe and its replacement, so no property is
  stated of it beside other writers; the documentation leaves that to attestations.
- In `RestoreExecution` a capture, a safety backup, a staging and a verification are
  one step each; `SystemPackages` has the steps of the first two. A configuration
  directory that cannot be listed is left out. `restore_plan()` writes nothing.
- `SystemPackages`: a capture made while a transaction is being written can hold torn
  pages with the journal already gone, and says nothing of it, so
  `QuietCaptureRecovers` is about captures that nothing changed under. A
  configuration directory exchanged after the second look is read through, and a
  link at the database's path is followed by the snapshot.
- Reconciliation: the scopes of the run leave `included_asset_ids` empty; weak candidates, serialization and the limits other than the group
  size. `verify_assets_for_episode()` and the in-memory registry keep nothing.
- Queue attempts: a change by others is never taken back, so a condition that fails
  only between the two looks is not in the model, and is not noticed by the code
  either. Between the last check and the launch a condition may still change, which
  is why `DriftStops` speaks of drift before the fresh preflight was over.
- The Test D harness (`phase14_test_d_queue_attempt.py`) and its queue snapshot
  (`phase14_render_queue_snapshot.py`) repeat this protocol for another episode; the
  comparison of snapshots and the static probes read and report.
- Manifest and configuration parsing, runtime composition, CLI, MCP server and
  control room keep no state of the pipeline.
- Wording, logging, diagnostics, parsing and path formatting.

## Plan

Done: rendering, assembly, the life of an episode from build to archive, backups and
captures, restore and recovery, registry and reconciliation, queue attempts; the
abstract specifications `AssemblyClaim`, `WriteAhead` and `PackageStore` with their
implementations; theorems about all safety and action properties of the runs.

Left, in this order:

1. `ResolveAdapter`: the interleavings inside cancel and start.
2. Weak candidates of the reconciliation and its remaining limits.
3. The Test D harness, where it differs from the attempt modelled here; migrations.
4. The type invariants of `SystemPackages` and `AssetReconciliation` as theorems.
