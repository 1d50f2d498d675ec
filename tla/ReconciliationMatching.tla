----------------------- MODULE ReconciliationMatching -----------------------
(***************************************************************************)
(* asset/reconciliation/matching.py: which record an observation is, by    *)
(* trusted asset id first, exact path second and strong identity third.    *)
(***************************************************************************)
EXTENDS ReconciliationInputs

RecordBlocked(in, a) == \E g \in RecordCollisions(in) : a \in g

\* Why an observation is not matched; "none" when it may be.
BlockingCode(in, o) ==
    LET claims == TrustedClaims(in, o.claim)
    IN  CASE \E g \in ObserverCollisions(in) : o.id \in g -> "duplicate_observation_path"
          [] o.claim = None \/ o.id \notin claims -> "none"
          [] Cardinality(claims) > 1 -> "trusted_asset_id_claimed_by_multiple_observations"
          [] o.claim \notin Registered(in.records) -> "unknown_trusted_asset_id"
          [] RecordBlocked(in, o.claim) -> "registry_path_collision"
          [] OTHER -> "none"

Unblocked(in) == {o \in in.observations : BlockingCode(in, o) = "none"}

Pair(a, id, kind) == [asset |-> a, observer |-> id, kind |-> kind]
Conflict(kind, as, ids) == [kind |-> kind, assets |-> as, observers |-> ids]

\* Mutant: the path of a record goes before what a trusted source says.
PathFirstCandidates(in) ==
    {<<o.claim, o.id>> : o \in {obs \in Unblocked(in) :
        obs.source \in in.trusted /\ obs.claim # None /\ RecordsAt(in, obs.path) = {}}}

\* The record a trusted source names.
TrustedCandidates(in) ==
    {<<o.claim, o.id>> : o \in {obs \in Unblocked(in) :
        obs.source \in in.trusted /\ obs.claim # None}}

\* The only record at the path of the only observation of it.
PathCandidates(in) ==
    {<<CHOOSE a \in RecordsAt(in, o.path) : TRUE, o.id>> :
        o \in {obs \in Unblocked(in) :
            /\ ObserversAt(in, obs.path) = {obs.id}
            /\ Cardinality(RecordsAt(in, obs.path)) = 1}}

\* Both agree, or one of them speaks, or they contradict each other.
AuthoritativePairs(in) ==
    LET trusted == TrustedCandidates(in)
        byPath == PathCandidates(in)
    IN  {Pair(c[1], c[2], "trusted_asset_id_and_exact_path") : c \in trusted \cap byPath}
        \cup {Pair(c[1], c[2], "trusted_asset_id") :
                c \in {t \in trusted : \A p \in byPath : p[2] # t[2]}}
        \cup {Pair(c[1], c[2], "exact_path") :
                c \in {p \in byPath : \A t \in trusted : p[2] # t[2]}}

AuthoritativeConflicts(in) ==
    {Conflict("authoritative_identity", {c[1][1], c[2][1]}, {c[1][2]}) :
        c \in {both \in TrustedCandidates(in) \X PathCandidates(in) :
            both[1][2] = both[2][2] /\ both[1][1] # both[2][1]}}

\* Two observations may each name the same record: neither gets it.
Rivals(pairs, p) == {q \in pairs : q.asset = p.asset}

KeptPairs(pairs) == {p \in pairs : Rivals(pairs, p) = {p}}

RivalConflicts(pairs) ==
    {Conflict("authoritative_identity", {p.asset}, {q.observer : q \in Rivals(pairs, p)}) :
        p \in pairs \ KeptPairs(pairs)}

AssetsIn(conflicts) == UNION {c.assets : c \in conflicts}
ObserversIn(conflicts) == UNION {c.observers : c \in conflicts}

\* Mutant: a record in a conflict can still be matched by identity.
EligibleInConflict(in, conflicts, k) ==
    [assets |-> {a \in KeyHolders(in, k) : ~ RecordBlocked(in, a)},
     observers |-> {o.id : o \in {obs \in Unblocked(in) : k \in obs.keys}} \ ObserversIn(conflicts)]

\* Per identity key, the records and observations that are still free to match.
Eligible(in, conflicts, k) ==
    [assets |-> {a \in KeyHolders(in, k) : ~ RecordBlocked(in, a) /\ a \notin AssetsIn(conflicts)},
     observers |-> {o.id : o \in {obs \in Unblocked(in) : k \in obs.keys}} \ ObserversIn(conflicts)]

CollisionKind(e) ==
    CASE Cardinality(e.observers) = 1 -> "registry_identity_collision"
      [] Cardinality(e.assets) = 1 -> "observation_identity_collision"
      [] OTHER -> "mixed_identity_collision"

Shared(e) == e.assets # {} /\ e.observers # {}
Unique(e) == Cardinality(e.assets) = 1 /\ Cardinality(e.observers) = 1

\* One record and one observation share a key nobody else has.
CandidatePairs(in, conflicts) ==
    UNION {e.assets \X e.observers :
        e \in {f \in {Eligible(in, conflicts, k) : k \in Keys} : Unique(f)}}

KeyCollisions(in, conflicts) ==
    {Conflict(CollisionKind(e), e.assets, e.observers) :
        e \in {f \in {Eligible(in, conflicts, k) : k \in Keys} : Shared(f) /\ ~ Unique(f)}}

\* The candidate pairs that one pair is connected to, through shared ends: those
\* in every set that has it and whatever shares an end with what it has.
Component(candidates, pair) ==
    LET Sharing(S) == {q \in candidates : \E p \in S : p[1] = q[1] \/ p[2] = q[2]}
    IN  {q \in candidates :
            \A S \in SUBSET candidates : pair \in S /\ Sharing(S) \subseteq S => q \in S}

CandidateConflicts(candidates) ==
    {Conflict("mixed_identity_collision", {q[1] : q \in g}, {q[2] : q \in g}) :
        g \in {h \in {Component(candidates, p) : p \in candidates} : \E p, q \in h : p # q}}

\* A candidate against what trusted ids and paths already decided.
Settled(pairs, c) == \E p \in pairs : p.asset = c[1] /\ p.observer = c[2]
Touching(pairs, c) == {p \in pairs : p.asset = c[1] \/ p.observer = c[2]}

OverruledConflict(pairs, c) ==
    LET existing == Touching(pairs, c)
    IN  Conflict(IF \E p \in existing : p.kind # "exact_path" THEN "authoritative_identity" ELSE "content",
                 {c[1]} \cup {p.asset : p \in existing},
                 {c[2]} \cup {p.observer : p \in existing})

\* build_matching_state()
Matching(in) ==
    LET proposed == AuthoritativePairs(in)
        pairs == KeptPairs(proposed)
        conflicts == AuthoritativeConflicts(in) \cup RivalConflicts(proposed)
        candidates == CandidatePairs(in, conflicts)
        unclear == KeyCollisions(in, conflicts) \cup CandidateConflicts(candidates)
        clean == {c \in candidates : c[1] \notin AssetsIn(unclear) /\ c[2] \notin ObserversIn(unclear)}
        fresh == {c \in clean : Touching(pairs, c) = {}}
        overruled == {OverruledConflict(pairs, c) : c \in {d \in clean \ fresh : ~ Settled(pairs, d)}}
    IN  [pairs |-> pairs \cup {Pair(c[1], c[2], "unique_strong_identity") : c \in fresh},
         conflicts |-> conflicts \cup unclear \cup overruled,
         strong |-> unclear \cup overruled]

\* What strong identity matched has no part in the conflicts.
IdentityApart(matching, conflicts) ==
    \A p \in matching.pairs : p.kind = "unique_strong_identity" =>
        p.asset \notin AssetsIn(conflicts) /\ p.observer \notin ObserversIn(conflicts)

\* _verify_slice7_ownership_invariants(): nothing belongs to two pairs, and
\* strong identity has not both matched something and put it into a conflict.
OwnershipHolds(matching) ==
    /\ \A p, q \in matching.pairs : p.asset = q.asset \/ p.observer = q.observer => p = q
    /\ IdentityApart(matching, matching.strong)
=============================================================================
