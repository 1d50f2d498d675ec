---------------------------- MODULE AssetRegistry ----------------------------
(***************************************************************************)
(* The SQLite asset registry: asset/models.py, asset/path_policy.py,       *)
(* asset/schema.sql and asset/sqlite_repository.py.                        *)
(*                                                                         *)
(* A row is what the repository stores of one asset.  The size and the     *)
(* modification time of a file are one value, "facts": the content they    *)
(* were read from, which has a size and, unlike any other, a time.  Every  *)
(* write is one SQLite transaction.                                        *)
(***************************************************************************)
EXTENDS Integers, FiniteSets

CONSTANTS
    Assets,     \* asset ids, numbered in the order Redline OS sorts them
    Paths,      \* normalized paths below the approved assets root
    Contents,   \* what a file can hold; its size, times and digests follow
    Directory,  \* what is at a path when it is no regular file
    None        \* SQL's NULL, Python's None

ASSUME AssetsAssumption == Assets \subseteq Nat /\ IsFiniteSet(Assets)
ASSUME NoneAssumption == {None, Directory} \cap (Paths \cup Contents \cup Assets) = {}

VARIABLES
    schema,         \* what the database file declares, see Schemas
    registry,       \* the committed rows of asset_registry
    initialized     \* initialize_asset_registry_database() accepted the file

registryVars == <<schema, registry, initialized>>

Lifecycles == {"declared", "active", "deprecated"}
Availabilities == {"unknown", "available", "missing", "non_file"}
Verifications == {"unverified", "verified", "failed"}

\* A database file: its version row, its tables, its unique path index.
Schemas ==
    [version : {None, "1", "2"},
     table : {"absent", "altered", "v1"},
     pathIndex : {"absent", "other", "live"}]

Unprepared == [version |-> None, table |-> "absent", pathIndex |-> "absent"]
SchemaV1 == [version |-> "1", table |-> "v1", pathIndex |-> "live"]

Completed == {<<"missing", "verified">>, <<"non_file", "verified">>, <<"unknown", "failed">>}

\* Which availability and verification go with a lifecycle.
ValidState(lifecycle, availability, verification) ==
    \/ <<availability, verification>> \in Completed
    \/ /\ lifecycle \in {"declared", "deprecated"}
       /\ <<availability, verification>> = <<"unknown", "unverified">>
    \/ /\ lifecycle \in {"active", "deprecated"}
       /\ <<availability, verification>> = <<"available", "verified">>

\* What AssetRegistryRecord accepts.
Records ==
    {r \in [asset : Assets, path : Paths \cup {None}, lifecycle : Lifecycles,
            availability : Availabilities, verification : Verifications,
            facts : Contents \cup {None}] :
        /\ ValidState(r.lifecycle, r.availability, r.verification)
        /\ (r.facts # None) = (r.availability = "available")}

Live(r) == r.lifecycle # "deprecated" /\ r.path # None

RowOf(rows, a) == CHOOSE r \in rows : r.asset = a
Registered(rows) == {r.asset : r \in rows}

\* The partial unique index, where the file has it.
PathFree(rows, r) ==
    schema.pathIndex = "live" /\ Live(r) =>
        \A other \in rows : Live(other) /\ other.asset # r.asset => other.path # r.path

\* Mutant: any index of that name will do.
IndexPresent == schema.pathIndex # "absent"

\* The predicate of the path index must be the approved one.
IndexApproved == schema.pathIndex = "live"

SchemaValid == schema.version = "1" /\ schema.table = "v1" /\ IndexApproved

\* A file that does not have the version row must not have a table either.
NothingPartial == schema.table = "absent" /\ schema.pathIndex = "absent"

\* initialize_asset_registry_database(): create it or accept it, else roll back.
InitializeRegistry ==
    /\ \/ schema.version = None /\ NothingPartial /\ schema' = SchemaV1
       \/ SchemaValid /\ UNCHANGED schema
    /\ initialized' = TRUE
    /\ UNCHANGED registry

\* SQLiteAssetRepository.insert(): one row, or an integrity error.
Insert(r) ==
    /\ schema.table # "absent"
    /\ r.asset \notin Registered(registry)
    /\ PathFree(registry, r)
    /\ registry' = registry \cup {r}
    /\ UNCHANGED <<schema, initialized>>

\* Mutant: the path index stops new rows only.
UpdateUnindexed(r) ==
    /\ r.asset \in Registered(registry)
    /\ registry' = (registry \ {RowOf(registry, r.asset)}) \cup {r}
    /\ UNCHANGED <<schema, initialized>>

\* SQLiteAssetRepository.update(): the row of that record id, whatever it
\* holds by now; the asset id of a record never changes.
Update(r) ==
    /\ r.asset \in Registered(registry)
    /\ PathFree(registry, r)
    /\ registry' = (registry \ {RowOf(registry, r.asset)}) \cup {r}
    /\ UNCHANGED <<schema, initialized>>

\* list_records(): every row of one committed state.
ListRecords == registry

\* observe_asset_path(): a missing file is an observation, not an error.
ObservePath(content) ==
    CASE content = None ->
            [availability |-> "missing", verification |-> "verified", facts |-> None]
      [] content = Directory ->
            [availability |-> "non_file", verification |-> "verified", facts |-> None]
      [] OTHER ->
            [availability |-> "available", verification |-> "verified", facts |-> content]

RegistryInit ==
    /\ schema \in Schemas
    /\ registry = {}
    /\ initialized = FALSE
=============================================================================
