------------------------- MODULE ReconciliationPlan -------------------------
(***************************************************************************)
(* asset/reconciliation/classification.py and planner.py: one decision per *)
(* subject, by the first of fifteen ranks that applies, and the plan.      *)
(*                                                                         *)
(* A decision names the records and observations that are its subject.     *)
(* "done" is what the ranks before have claimed.                           *)
(***************************************************************************)
EXTENDS ReconciliationMatching

NothingDone == [decisions |-> {}, assets |-> {}, observers |-> {}]

ReviewByDefault ==
    {"registry_identity_evidence_conflict", "registry_identity_collision",
     "authoritative_identity_conflict", "content_conflict", "duplicate_path_conflict",
     "ambiguous_match", "unknown_authoritative_asset_id", "path_changed",
     "lifecycle_conflict", "availability_changed", "new_unregistered_observation"}

Decision(as, ids, class, review, blocked) ==
    [assets |-> as, observers |-> ids, class |-> class, review |-> review, blocked |-> blocked]

Decided(as, ids, class) == Decision(as, ids, class, class \in ReviewByDefault, FALSE)
BlockedDecision(as, ids, class) == Decision(as, ids, class, TRUE, TRUE)

\* Nothing of what a decision is about is claimed.
Unclaimed(done, d) == d.assets \cap done.assets = {} /\ d.observers \cap done.observers = {}

\* Mutant: a decision is added without looking at what is claimed.
ClaimAnyway(done, d) ==
    [decisions |-> done.decisions \cup {d},
     assets |-> done.assets \cup d.assets,
     observers |-> done.observers \cup d.observers]

\* A decision claims its subject, unless part of it is claimed already.
Claim(done, d) ==
    IF ~ Unclaimed(done, d) THEN done
    ELSE [decisions |-> done.decisions \cup {d},
          assets |-> done.assets \cup d.assets,
          observers |-> done.observers \cup d.observers]

\* The same for the decisions of one rank, whose subjects have nothing in common:
\* in which order they are taken makes no difference.
ClaimAll(done, decisions) ==
    LET free == {d \in decisions : Unclaimed(done, d)}
    IN  [decisions |-> done.decisions \cup free,
         assets |-> done.assets \cup UNION {d.assets : d \in free},
         observers |-> done.observers \cup UNION {d.observers : d \in free}]

\* Sorted tuples of ids compare like this as sets.
IdsBefore(S, T) ==
    LET m == Min((S \ T) \cup (T \ S))
    IN  S # T /\ IF m \in S THEN \E t \in T : t > m ELSE \A s \in S : s < m

ConflictRank(c) ==
    CASE c.kind = "authoritative_identity" -> 1
      [] c.kind = "content" -> 2
      [] c.kind = "mixed_identity_collision" -> 3
      [] c.kind = "observation_identity_collision" -> 4
      [] c.kind = "registry_identity_collision" -> 5

\* The order of conflict groups is that of their subjects' canonical keys.
ConflictBefore(c, d) ==
    \/ ConflictRank(c) < ConflictRank(d)
    \/ /\ ConflictRank(c) = ConflictRank(d)
       /\ \/ IdsBefore(c.assets, d.assets)
          \/ c.assets = d.assets /\ IdsBefore(c.observers, d.observers)

ConflictClass(c) ==
    CASE c.kind = "authoritative_identity" -> "authoritative_identity_conflict"
      [] c.kind = "content" -> "content_conflict"
      [] c.kind = "registry_identity_collision" -> "registry_identity_collision"
      [] OTHER -> "ambiguous_match"

\* Rank 1: two values of one kind of evidence for one record.
EvidenceContradicts(in, a) ==
    \E k, l \in EvidenceOf(in, a) : k[1] = l[1] /\ k # l

EvidenceConflicts(in) ==
    {BlockedDecision({a}, {}, "registry_identity_evidence_conflict") :
        a \in {b \in Registered(in.records) : EvidenceContradicts(in, b)}}

ConflictDecision(c) == BlockedDecision(c.assets, c.observers, ConflictClass(c))

\* The conflict that i - 1 others go before.
ConflictAt(conflicts, i) ==
    CHOOSE c \in conflicts : Cardinality({d \in conflicts : ConflictBefore(d, c)}) = i - 1

\* Ranks 2, 3, 4a, 6b: what matching found contradictory, one after the other,
\* because conflicts share records and observations.
ClaimConflicts(done, conflicts) ==
    LET after[i \in 0 .. Cardinality(conflicts)] ==
            IF i = 0 THEN done ELSE Claim(after[i - 1], ConflictDecision(ConflictAt(conflicts, i)))
    IN  after[Cardinality(conflicts)]

\* Rank 5: observations, or records, at one path.
DuplicatePaths(in) ==
    {BlockedDecision({}, g, "duplicate_path_conflict") : g \in ObserverCollisions(in)}
    \cup {BlockedDecision(g, {}, "duplicate_path_conflict") : g \in RecordCollisions(in)}

WithCode(in, code) == {o \in in.observations : BlockingCode(in, o) = code}

\* Rank 6a: trusted observations that claim one record together.
AmbiguousClaims(in) ==
    LET several == WithCode(in, "trusted_asset_id_claimed_by_multiple_observations")
    IN  {BlockedDecision({}, {o.id : o \in {p \in several : p.claim = a}}, "ambiguous_match") :
            a \in {o.claim : o \in several}}

\* Rank 7: a trusted source names a record there is not.
UnknownClaims(in) ==
    {BlockedDecision({}, {o.id}, "unknown_authoritative_asset_id") :
        o \in WithCode(in, "unknown_trusted_asset_id")}

\* The digest of the evidence and that of the observation, both verified.
ContentDiffers(in, r, o) ==
    /\ r.verification = "verified"
    /\ o.verification = "verified"
    /\ \E k \in EvidenceOf(in, r.asset), l \in o.keys :
            k[1] = "full_content_hash" /\ l[1] = "full_content_hash" /\ k # l

AvailabilityClass(r, o) ==
    CASE o.availability = "available" /\ r.availability = "available" -> "same"
      [] o.availability = "available" /\ r.availability \in {"missing", "unknown"} -> "metadata_drift"
      [] OTHER -> "availability_changed"

Moved(r, o) == r.path # None /\ o.path # None /\ r.path # o.path

\* Ranks 8-10, 13, 14: the first rule that applies to a matched pair, whose
\* subject is the record alone.  Only a size that differs asks for review of a
\* drift, a time or a path that does is reported.
PairDecision(in, pair) ==
    LET r == RecordWith(in, pair.asset)
        o == ObservationWith(in, pair.observer)
        as == {r.asset}
    IN  CASE pair.kind = "unique_strong_identity" /\ Moved(r, o) -> Decided(as, {}, "path_changed")
          [] r.lifecycle = "deprecated" -> BlockedDecision(as, {}, "lifecycle_conflict")
          [] ContentDiffers(in, r, o) -> Decided(as, {}, "content_conflict")
          [] AvailabilityClass(r, o) # "same" -> Decided(as, {}, AvailabilityClass(r, o))
          [] r.facts # o.facts -> Decision(as, {}, "metadata_drift", Size[r.facts] # Size[o.facts], FALSE)
          [] Moved(r, o) -> Decided(as, {}, "metadata_drift")
          [] OTHER -> Decided(as, {}, "unchanged")

\* The pairs of which nothing is claimed yet.
FreePairs(done, pairs) ==
    {p \in pairs : p.asset \notin done.assets /\ p.observer \notin done.observers}

\* Mutant: a pair of which a conflict has claimed an end leaves its other end.
ClaimFreePairs(in, done, pairs) ==
    LET free == FreePairs(done, pairs)
    IN  [decisions |-> done.decisions \cup {PairDecision(in, p) : p \in free},
         assets |-> done.assets \cup {p.asset : p \in free},
         observers |-> done.observers \cup {p.observer : p \in free}]

\* A pair of which a conflict has claimed an end uses up its other end as well.
ClaimPairs(in, done, pairs) ==
    LET free == FreePairs(done, pairs)
    IN  [decisions |-> done.decisions \cup {PairDecision(in, p) : p \in free},
         assets |-> done.assets \cup {p.asset : p \in pairs},
         observers |-> done.observers \cup {p.observer : p \in pairs}]

\* What the planner says of records and observations that nobody claimed.
LeftOver == {"record_not_observed", "insufficient_scope", "new_unregistered_observation"}

\* Ranks 11, 15: a record nobody claimed, by whether it should have been seen.
UnseenRecords(in, done) ==
    {Decided({r.asset}, {},
             IF ExpectedObservable(r, in.scope) THEN "record_not_observed" ELSE "insufficient_scope") :
        r \in {s \in in.records : s.asset \notin done.assets}}

\* Rank 12: an observation nobody claimed.
NewObservations(in, done) ==
    {Decided({}, {o.id}, "new_unregistered_observation") :
        o \in {p \in in.observations : p.id \notin done.observers}}

\* classify_reconciliation()
Classify(in, matching) ==
    LET evidence == ClaimAll(NothingDone, EvidenceConflicts(in))
        conflicts == ClaimConflicts(evidence, matching.conflicts)
        paths == ClaimAll(conflicts, DuplicatePaths(in))
        claims == ClaimAll(ClaimAll(paths, AmbiguousClaims(in)), UnknownClaims(in))
        paired == ClaimPairs(in, claims, matching.pairs)
        records == ClaimAll(paired, UnseenRecords(in, paired))
    IN  ClaimAll(records, NewObservations(in, records)).decisions

ConflictClasses ==
    {"registry_identity_evidence_conflict", "registry_identity_collision",
     "authoritative_identity_conflict", "content_conflict", "duplicate_path_conflict",
     "ambiguous_match", "unknown_authoritative_asset_id", "lifecycle_conflict"}

\* plan_reconciliation(): the decisions and the counts of its summary, with the
\* matching they come from, which the code keeps to itself.
PlanOf(decisions, matching) ==
    [items |-> decisions,
     matching |-> matching,
     conflicts |-> Cardinality({d \in decisions : d.class \in ConflictClasses}),
     unmatched |-> Cardinality({d \in decisions : d.class = "new_unregistered_observation"}),
     blocked |-> Cardinality({d \in decisions : d.blocked}),
     review |-> Cardinality({d \in decisions : d.review})]

\* One reconciliation: a refusal, a broken invariant or a plan.
Reconcile(in) ==
    IF ~ Validated(in) THEN "refused"
    ELSE IF ~ GroupsBounded(in) THEN "too_large"
    ELSE LET matching == Matching(in)
         IN  IF OwnershipHolds(matching) THEN "planned" ELSE "broken"

Plan(in) ==
    LET matching == Matching(in)
    IN  PlanOf(Classify(in, matching), matching)
=============================================================================
