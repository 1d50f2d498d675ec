------------------------ MODULE ReconciliationInputs ------------------------
(***************************************************************************)
(* What one reconciliation is planned from, asset/reconciliation/models.py,*)
(* validation.py, evidence.py and scope.py: a snapshot of the registry with*)
(* its identity evidence, and a request with observations and their scope. *)
(*                                                                         *)
(* Everything here is a pure operator over                                 *)
(*   in = [records, evidence, observations, scope, trusted]                *)
(* An identity key is a pair <<evidence kind, content>>.                   *)
(***************************************************************************)
EXTENDS AssetRegistry, FiniteSetsExt

CONSTANTS
    Observers,      \* observation ids, numbered in their sort order
    Claims,         \* asset ids that observations may claim
    Sources,        \* where observations come from
    Kinds,          \* kinds of strong identity evidence
    Roots,          \* normalized root and subtree keys
    Beneath,        \* [Roots -> the roots and paths a key contains]
    Depth,          \* [Roots -> Nat], components of a key
    Size,           \* [Contents -> Nat], of a file with a content
    MaxGroup        \* max_duplicate_group_size

Keys == Kinds \X Contents

EvidenceRows == [asset : Assets, key : Keys]

Observations ==
    [id : Observers, source : Sources, path : Paths \cup {None},
     claim : Claims \cup {None}, keys : SUBSET Keys,
     availability : Availabilities, verification : Verifications,
     facts : Contents \cup {None}]

\* A scope: its roots, the assets it names and its filters.
RootScopes == [key : Roots, complete : BOOLEAN, inaccessible : SUBSET Roots, failed : BOOLEAN]
Scopes ==
    [roots : SUBSET RootScopes, assets : SUBSET Assets, allSeen : BOOLEAN,
     failures : SUBSET Assets, included : SUBSET Assets, lifecycles : SUBSET Lifecycles,
     excluded : SUBSET Roots, byMedia : BOOLEAN]

Within(keys, path) == \E k \in keys : path \in Beneath[k]

\* The root that decides for a record is the deepest one that contains it.
SelectedRoot(record, scope) ==
    LET containing == {r \in scope.roots : record.path \in Beneath[r.key]}
    IN  CHOOSE r \in containing : \A other \in containing : Depth[other.key] <= Depth[r.key]

\* A filter that names nothing lets everything through, and one that names
\* something a record does not have, its media type or extension, nothing.
FiltersInclude(record, scope) ==
    /\ ~ Within(scope.excluded, record.path)
    /\ ~ scope.byMedia
    /\ scope.included # {} => record.asset \in scope.included
    /\ scope.lifecycles # {} => record.lifecycle \in scope.lifecycles

SeenByPath(record, scope) ==
    /\ record.path # None
    /\ Within({r.key : r \in scope.roots}, record.path)
    /\ LET root == SelectedRoot(record, scope)
       IN  /\ ~ Within(root.inaccessible, record.path)
           /\ ~ root.failed
           /\ root.complete
    /\ FiltersInclude(record, scope)

SeenByName(record, scope) ==
    /\ record.asset \in scope.assets
    /\ record.asset \notin scope.failures
    /\ scope.allSeen

\* evaluate_record_observability(): the two channels do not cancel each other.
ExpectedObservable(record, scope) == SeenByPath(record, scope) \/ SeenByName(record, scope)

\* Evidence rows of one asset, kind and value are one row, the latest.
EvidenceOf(in, a) == {e.key : e \in {row \in in.evidence : row.asset = a}}
KeyHolders(in, k) == {e.asset : e \in {row \in in.evidence : row.key = k}}
KeyObservers(in, k) == {o.id : o \in {obs \in in.observations : k \in obs.keys}}

\* A scope has a root or a name, and never the same root twice.
ScopeWellFormed(scope) ==
    /\ scope.roots # {} \/ scope.assets # {}
    /\ \A r, s \in scope.roots : r.key = s.key => r = s

\* validate_reconciliation_inputs(): ids are unique, no evidence is orphaned.
Validated(in) ==
    /\ \A r, s \in in.records : r.asset = s.asset => r = s
    /\ \A o, p \in in.observations : o.id = p.id => o = p
    /\ {e.asset : e \in in.evidence} \subseteq Registered(in.records)
    /\ ScopeWellFormed(in.scope)

SamePath(items, path) == {i \in items : i.path # None /\ i.path = path}

\* Records, or observations, at one path.
RecordsAt(in, path) == {r.asset : r \in SamePath(in.records, path)}
ObserversAt(in, path) == {o.id : o \in SamePath(in.observations, path)}

TrustedClaims(in, a) ==
    {o.id : o \in {obs \in in.observations : obs.source \in in.trusted /\ obs.claim = a}}

ClaimedBy(in) == {o.claim : o \in {obs \in in.observations : obs.source \in in.trusted}} \ {None}

PathCollisions(groups) == {g \in groups : Cardinality(g) > 1}
RecordCollisions(in) == PathCollisions({RecordsAt(in, p) : p \in Paths})
ObserverCollisions(in) == PathCollisions({ObserversAt(in, p) : p \in Paths})

\* build_indexes(): a group that is too large refuses the whole plan.
GroupsBounded(in) ==
    \A g \in {RecordsAt(in, p) : p \in Paths} \cup {ObserversAt(in, p) : p \in Paths}
             \cup {KeyHolders(in, k) : k \in Keys} \cup {KeyObservers(in, k) : k \in Keys}
             \cup {TrustedClaims(in, a) : a \in Assets} : Cardinality(g) <= MaxGroup

RecordWith(in, a) == RowOf(in.records, a)
ObservationWith(in, id) == CHOOSE o \in in.observations : o.id = id
=============================================================================
