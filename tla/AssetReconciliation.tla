------------------------- MODULE AssetReconciliation -------------------------
(***************************************************************************)
(* The asset registry in use: callers observe files and write rows, other  *)
(* callers hold rows they read earlier, files change, and one caller takes *)
(* a snapshot, collects observations and plans a reconciliation.  The      *)
(* planner is pure; everything it is given was captured at another moment. *)
(***************************************************************************)
EXTENDS ReconciliationPlan

CONSTANTS
    Trusted,        \* trusted_asset_id_source_ids
    ScopeChoices,   \* scopes a caller may declare
    MaxWrites,      \* bound: rows written to the registry
    MaxCaptured,    \* bound: rows written where files change or are reconciled
    MaxEdits,       \* bound: changes to files
    MaxEvidence     \* bound: rows of identity evidence

\* A reconciliation that has not ended has no outcome.
ASSUME OutcomeAssumption == None \notin {"refused", "too_large", "planned", "broken"}

VARIABLES
    disk,           \* [Paths -> Contents \cup {Directory, None}]
    edits,          \* changes to files so far
    writes,         \* rows written so far
    held,           \* a row some caller read and may write back
    evidence,       \* identity evidence that was collected for assets
    records,        \* the records of the snapshot, None before it
    captured,       \* the evidence of the snapshot, None before it
    observations,   \* what observers reported
    outcome,        \* None, or how the reconciliation ended
    plan            \* the plan, None without one

vars == <<schema, registry, initialized, disk, edits, writes, held, evidence,
          records, captured, observations, outcome, plan>>

callerVars == <<disk, edits, evidence>>
planVars == <<records, captured, observations, outcome, plan>>

Init ==
    /\ RegistryInit
    /\ disk \in [Paths -> Contents \cup {None}]
    /\ edits = 0
    /\ writes = 0
    /\ held = None
    /\ evidence = {}
    /\ records = None
    /\ captured = None
    /\ observations = {}
    /\ outcome = None
    /\ plan = None

\* A bound: after fewer writes than that somebody may edit a file, collect
\* evidence or take the snapshot; after more of them there is only writing.
MayWrite == writes < (IF evidence = {} /\ edits = 0 THEN MaxWrites ELSE MaxCaptured)
MayCapture == writes <= MaxCaptured

\* Once the planner has its records, a row that changes does not reach it.
Writing == records = None /\ MayWrite

\* initialize_asset_registry_database()
Initialize ==
    /\ records = None
    /\ ~ initialized
    /\ InitializeRegistry
    /\ UNCHANGED <<writes, held, callerVars, planVars>>

RecordFor(a, p, lifecycle) ==
    LET seen == ObservePath(disk[p])
    IN  [asset |-> a, path |-> p, lifecycle |-> lifecycle, availability |-> seen.availability,
         verification |-> seen.verification, facts |-> seen.facts]

Undeclared(a) ==
    [asset |-> a, path |-> None, lifecycle |-> "declared", availability |-> "unknown",
     verification |-> "unverified", facts |-> None]

\* A caller declares an asset, or observes its file and inserts it, be it as an
\* asset that is no longer used.
Register(a) ==
    /\ captured = None
    /\ MayWrite
    /\ \E r \in {Undeclared(a)} \cup {RecordFor(a, p, l) : p \in Paths, l \in {"active", "deprecated"}} :
            r \in Records /\ Insert(r)
    /\ writes' = writes + 1
    /\ UNCHANGED <<held, callerVars, planVars>>

\* get_by_asset_id(): the row is a value, it does not follow the database.
ReadRow(a) ==
    /\ Writing
    /\ held = None
    /\ a \in Registered(ListRecords)
    /\ held' = RowOf(registry, a)
    /\ UNCHANGED <<registryVars, writes, callerVars, planVars>>

\* What callers make of a row: verify it, move it, deprecate it.
Rewritten(r) ==
    {RecordFor(r.asset, p, r.lifecycle) : p \in Paths}
    \cup {[r EXCEPT !.lifecycle = l] : l \in {"active", "deprecated"}}

WriteBack ==
    /\ Writing
    /\ held # None
    /\ \E r \in Rewritten(held) : r \in Records /\ Update(r)
    /\ held' = None
    /\ writes' = writes + 1
    /\ UNCHANGED <<callerVars, planVars>>

\* Another caller reads and writes a row in one go.
UpdateRow(a) ==
    /\ Writing
    /\ a \in Registered(registry)
    /\ \E r \in Rewritten(RowOf(registry, a)) : r \in Records /\ Update(r)
    /\ writes' = writes + 1
    /\ UNCHANGED <<held, callerVars, planVars>>

\* Somebody replaces, removes or adds a file that will still be looked at.
EditFile(p) ==
    /\ edits < MaxEdits
    /\ MayCapture
    /\ outcome = None
    /\ \E id \in Observers : \A o \in observations : o.id < id
    /\ \E c \in (Contents \cup {Directory, None}) \ {disk[p]} : disk' = [disk EXCEPT ![p] = c]
    /\ edits' = edits + 1
    /\ UNCHANGED <<registryVars, writes, held, evidence, planVars>>

\* Somebody hashes the file of a registered asset.
CollectEvidence(a) ==
    /\ captured = None
    /\ MayCapture
    /\ Cardinality(evidence) < MaxEvidence
    /\ a \in Registered(registry)
    /\ \E k \in Kinds :
        LET p == RowOf(registry, a).path
        IN  /\ p # None
            /\ disk[p] \in Contents
            /\ evidence' = evidence \cup {[asset |-> a, key |-> <<k, disk[p]>>]}
    /\ UNCHANGED <<registryVars, writes, held, disk, edits, planVars>>

\* RegistrySnapshot: the records first, the detached evidence after them.
SnapshotRecords ==
    /\ initialized
    /\ records = None
    /\ MayCapture
    /\ records' = ListRecords
    /\ held' = None
    /\ UNCHANGED <<registryVars, writes, callerVars, captured, observations, outcome, plan>>

SnapshotEvidence ==
    /\ records # None
    /\ captured = None
    /\ captured' = evidence
    /\ UNCHANGED <<registryVars, writes, held, callerVars, records, observations, outcome, plan>>

\* One observer reports what it found at a path, and what it was told.  The
\* observations come after the snapshot: an observation that is older than the
\* evidence differs from a younger one in which of them saw the edited file.
Observe(id) ==
    /\ captured # None
    /\ outcome = None
    /\ \A o \in observations : o.id < id
    /\ \E p \in Paths, source \in Sources, claim \in Claims \cup {None}, kinds \in SUBSET Kinds :
        LET seen == ObservePath(disk[p])
        IN  observations' = observations \cup
                {[id |-> id, source |-> source, path |-> p, claim |-> claim,
                  keys |-> IF disk[p] \in Contents THEN kinds \X {disk[p]} ELSE {},
                  availability |-> seen.availability, verification |-> seen.verification,
                  facts |-> seen.facts]}
    /\ UNCHANGED <<registryVars, writes, held, callerVars, records, captured, outcome, plan>>

Input(scope) ==
    [records |-> records, evidence |-> captured, observations |-> observations,
     scope |-> scope, trusted |-> Trusted]

\* The whole planner: validate, index, match, classify, plan.
PlanReconciliation ==
    /\ captured # None
    /\ outcome = None
    /\ \E scope \in ScopeChoices :
        LET in == Input(scope)
        IN  /\ outcome' = Reconcile(in)
            /\ plan' = IF outcome' = "planned" THEN Plan(in) ELSE None
    /\ UNCHANGED <<registryVars, writes, held, callerVars, records, captured, observations>>

Next ==
    \/ Initialize
    \/ \E a \in Assets : Register(a) \/ ReadRow(a) \/ UpdateRow(a) \/ CollectEvidence(a)
    \/ WriteBack
    \/ \E p \in Paths : EditFile(p)
    \/ SnapshotRecords
    \/ SnapshotEvidence
    \/ \E id \in Observers : Observe(id)
    \/ PlanReconciliation

Spec == Init /\ [][Next]_vars

-----------------------------------------------------------------------------
\* Every row and every observation is one the models accept, and every plan
\* item is about something that was given.
TypeOK ==
    /\ schema \in Schemas
    /\ registry \subseteq Records
    /\ disk \in [Paths -> Contents \cup {Directory, None}]
    /\ evidence \subseteq EvidenceRows
    /\ observations \subseteq Observations
    /\ held \in Records \cup {None}
    /\ records # None => records \subseteq Records
    /\ plan # None => \A d \in plan.items :
            d.assets \subseteq Registered(records) /\ d.observers \subseteq {o.id : o \in observations}

\* A registry file that initialize_asset_registry_database() created or
\* accepted has at most one row that is not deprecated at each path, whatever
\* was written to it before and whoever writes back an old row.
LivePathsUnique ==
    initialized => \A r, s \in registry : Live(r) /\ Live(s) /\ r.path = s.path => r = s

\* What the planner matched.
Matched == plan.matching

\* The ownership check at the end of the matching never raises, and more than
\* it checks holds: no record and no observation is in two associations, and
\* what strong identity matched is part of no conflict of any of the passes.
MatchingNeverBreaks ==
    /\ outcome # "broken"
    /\ plan # None => IdentityApart(Matched, Matched.conflicts)

ItemsOf(id) == {d \in plan.items : id \in d.observers}
ItemsOn(a) == {d \in plan.items : a \in d.assets}

OtherEndBlocked(items) == \E d \in items : d.blocked

\* However the conflicts, duplicate paths and matches of one call overlap, no
\* record and no observation is in two items of the plan.  A record that is in
\* none was matched, to an observation that is in an item that blocks proposals;
\* an observation that is in none was matched, to a record that is in an item.
\* And what was found is not left over: a record that was matched is not reported
\* as missing or out of scope, and an observation that was matched not as new,
\* not even when a conflict takes the other end of the match.
EverySubjectDecided ==
    plan # None =>
        LET pairs == Matched.pairs
        IN  /\ \A d, e \in plan.items : d # e =>
                    d.assets \cap e.assets = {} /\ d.observers \cap e.observers = {}
            /\ \A a \in Registered(records) : ItemsOn(a) = {} =>
                    \E m \in pairs : m.asset = a /\ OtherEndBlocked(ItemsOf(m.observer))
            /\ \A o \in observations : ItemsOf(o.id) = {} =>
                    \E m \in pairs : m.observer = o.id /\ ItemsOn(m.asset) # {}
            /\ \A m \in pairs, d \in plan.items :
                    d.class \in LeftOver => m.asset \notin d.assets /\ m.observer \notin d.observers

\* What a trusted source says of an observation is never silently overruled:
\* if the observation is matched, it is to the record the source names, and
\* every item that is about the observation itself needs review.
TrustedClaimDecides ==
    plan # None =>
        LET pairs == Matched.pairs
        IN  \A o \in observations : o.source \in Trusted /\ o.claim # None =>
                /\ \A m \in pairs : m.observer = o.id => m.asset = o.claim
                /\ \A d \in ItemsOf(o.id) : d.review

=============================================================================
