--------------------------- MODULE ArchiveSources ---------------------------
(***************************************************************************)
(* The files an archive is made from and the pure half of archiving them:  *)
(* fsutil.py and archive/integrity.py (stable reads, inventories),         *)
(* archive/content.py, supplement.py and evidence.py (plans), and the      *)
(* manifests of build/manifest_provenance.py.                              *)
(*                                                                         *)
(* The content of a file is a version number; a file written again gets a  *)
(* version it never had, so equal versions are equal bytes.  A digest is   *)
(* the data it digests.  An inventory or the files of a plan are functions *)
(* from file to version, Absent for what they do not hold.                 *)
(***************************************************************************)
EXTENDS Naturals, FiniteSets

CONSTANTS Workspace,    \* files that can appear below the episode folder
          Media,        \* files below an approved media root
          Evidence,     \* files below <evidence_path>/<episode_id>
          Manifest,     \* the operator's episode manifest, outside all of these
          Copy,         \* project/episode_manifest/<manifest>, in the workspace
          Provenance,   \* project/episode_manifest/manifest_provenance.json
          MediaOf,      \* the media a version of the manifest names
          Foreign,      \* evidence versions whose episode_id is another's
          Editable,     \* files somebody may save again
          Removable,    \* files somebody may remove
          Linkable,     \* files that may become a link (a medium or a manifest
                        \* is resolved first, so a link there is just another
                        \* file)
          Rank,         \* the order files are read in: the workspace first, the
                        \* evidence last
          MaxEdits,     \* bound: how often somebody edits
          MaxVersion,   \* bound: how often a file is written
          Absent, Link  \* no such file; a symlink, junction or device

Versions == 1..MaxVersion
Contents == Versions \cup {Absent, Link}
Files == Workspace \cup Media \cup Evidence \cup {Manifest}

ASSUME SourcesAssumption ==
    /\ MaxVersion \in Nat \ {0} /\ MaxEdits \in Nat
    /\ Rank \in [Files -> Nat] /\ \A f, g \in Files : Rank[f] = Rank[g] => f = g
    /\ Absent \notin Versions /\ Link \notin Versions /\ Absent # Link
    /\ {Copy, Provenance} \subseteq Workspace
    /\ Editable \cup Removable \subseteq Files
    /\ Linkable \subseteq (Workspace \cup Evidence)
    /\ MediaOf \in [Versions -> SUBSET Files]
    /\ Foreign \subseteq Evidence \X Versions

\* A package keeps evidence apart from the workspace and from what is copied
\* one by one, so a file of Evidence is none of theirs.
ASSUME LocationAssumption ==
    /\ Evidence \cap (Workspace \cup Media) = {}
    /\ Manifest \notin Workspace

VARIABLES disk,     \* content of every file
          written,  \* how often each file was written
          edits,    \* how often somebody edited one
          recorded  \* what manifest_provenance.json says: the SHA-256 of the
                    \* copy beside it and the media of the build

sourceVars == <<disk, written, edits, recorded>>

Roles == {"render_master", "episode_manifest", "manifest_provenance", "source_media"}

SourcesTypeOK ==
    /\ disk \in [Files -> Contents]
    /\ written \in [Files -> 0..MaxVersion]
    /\ edits \in 0..MaxEdits
    /\ recorded \in [sha : Contents, media : SUBSET Files]

----------------------------------------------------------------------------
(* Files change. *)

\* f is written with bytes it never had.
Save(f) ==
    /\ written[f] < MaxVersion
    /\ written' = [written EXCEPT ![f] = @ + 1]
    /\ disk' = [disk EXCEPT ![f] = written'[f]]

Replace(f, c) ==
    /\ disk[f] # c
    /\ disk' = [disk EXCEPT ![f] = c]
    /\ UNCHANGED written

\* Somebody saves f again, removes it or puts a link in its place.
Edit(f) ==
    /\ edits < MaxEdits
    /\ edits' = edits + 1
    /\ \/ f \in Editable /\ Save(f)
       \/ f \in Removable /\ Replace(f, Absent)
       \/ f \in Linkable /\ Replace(f, Link)
    /\ UNCHANGED recorded

----------------------------------------------------------------------------
(* fsutil.py, archive/integrity.py *)

\* is_unsafe_link() and the S_ISREG test: an entry that may be read.
Regular(f) == disk[f] \in Versions

\* open_stable_source() and hash_stable_file() raise, or read one version.
Stable(f, c) == Regular(f) /\ disk[f] = c

\* The names _enumerate_source_tree() finds below a root.
Entries(root) == {f \in root : disk[f] # Absent}

\* The walk of _enumerate_source_tree() meets nothing it refuses.
Enumerable(root) == \A f \in Entries(root) : Regular(f)

\* What an inventory of root taken now would hold.
Inventory(root) == [f \in Files |-> IF f \in root THEN disk[f] ELSE Absent]

\* The file of a set that is read first.
Foremost(files) == CHOOSE f \in files : \A g \in files : Rank[f] <= Rank[g]

Held(files) == {f \in DOMAIN files : files[f] # Absent}

Only(files, root) == [f \in Files |-> IF f \in root THEN files[f] ELSE Absent]

----------------------------------------------------------------------------
(* build/manifest_provenance.py, manifest/validator.py *)

\* _is_contained_in_any_root(): ingest and assets may lie in the workspace.
Approved == Media \cup Workspace

\* validate_manifest(): every medium is an existing file in an approved root.
ValidManifest(v) ==
    /\ v \in Versions
    /\ MediaOf[v] # {}
    /\ \A f \in MediaOf[v] : f \in Approved /\ Regular(f)

----------------------------------------------------------------------------
(* archive/content.py: what a plan preserves and what its identity is *)

\* build_content_plan(): the workspace, the external artifacts and the roles
\* of both.
ContentPlan(inventory, external, roles) ==
    [files |-> [f \in Files |-> IF f \in external THEN disk[f] ELSE inventory[f]],
     roles |-> roles]

\* compute_content_set_digest() and _derive_archive_id(): supplements do not
\* take part.
ArchiveId(plan) ==
    [files |-> Only(plan.files, Files \ Evidence), roles |-> plan.roles]

\* The files copied one by one although they are not in the workspace.
External(plan) == Held(plan.files) \ (Workspace \cup Evidence)

----------------------------------------------------------------------------
(* archive/evidence.py, archive/supplement.py *)

\* _require_no_conflicting_episode_identity() for every file found.
EvidenceIsOwn == \A f \in Entries(Evidence) : <<f, disk[f]>> \notin Foreign

\* resolve_episode_evidence() raises nothing.
EvidenceResolvable == Enumerable(Evidence) /\ EvidenceIsOwn

\* build_package_plan(): file supplements beside the content.
PackagePlan(plan) ==
    [plan EXCEPT !.files = [f \in Files |-> IF f \in Evidence THEN disk[f] ELSE plan.files[f]]]

----------------------------------------------------------------------------
(* archive/package.py: the source side re-verified before sealing *)

\* _reconcile_complete_content_plan(): a fresh inventory of the workspace and
\* fresh hashes of the external artifacts are those of the plan.
ContentUnchanged(plan) ==
    /\ Enumerable(Workspace)
    /\ Only(plan.files, Workspace) = Inventory(Workspace)
    /\ \A f \in External(plan) : Stable(f, plan.files[f])

\* _reconcile_supplements(): every planned piece of evidence is what it was;
\* evidence that arrived since is not looked for.
SupplementsUnchanged(plan) ==
    \A f \in Held(plan.files) \cap Evidence : Stable(f, plan.files[f])

=============================================================================
