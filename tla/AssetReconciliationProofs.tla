---------------------- MODULE AssetReconciliationProofs ----------------------
(***************************************************************************)
(* Theorems about AssetReconciliation for any number of assets, paths,     *)
(* observers, kinds of evidence and sources, and for any scope.            *)
(*                                                                         *)
(* The registry has an inductive invariant.  The planner is pure: what it  *)
(* does is shown of its operators, rank by rank, and PlanInv carries it to *)
(* the plan.                                                               *)
(***************************************************************************)
EXTENDS AssetReconciliation, FiniteSetTheorems, FunctionTheorems, WellFoundedInduction, TLAPS

----------------------------------------------------------------------------
(* The registry *)

\* Where the unique index is on the rows that are not deprecated.
Indexed(rows) == \A r, s \in rows : Live(r) /\ Live(s) /\ r.path = s.path => r = s

\* A file that was accepted has the index, a file without a table has no rows,
\* and the index was there before the first row or has never been looked at.
RegistryInv ==
    /\ \A r, s \in registry : r.asset = s.asset => r = s
    /\ schema.pathIndex = "live" => Indexed(registry)
    /\ schema.table = "absent" => registry = {}
    /\ initialized => schema.pathIndex = "live"

\* A row that is inserted or written back takes no path that another has.
LEMMA WriteKeeps ==
  ASSUME RegistryInv, NEW r, Insert(r) \/ Update(r)
  PROVE  RegistryInv'
<1>1. UNCHANGED <<schema, initialized>> /\ PathFree(registry, r)
  BY DEF Insert, Update
<1>2. CASE Insert(r)
  <2>1. registry' = registry \cup {r} /\ (\A s \in registry : s.asset # r.asset)
        /\ schema.table # "absent"
    BY <1>2 DEF Insert, Registered
  <2>2. schema.pathIndex = "live" => Indexed(registry')
    BY <1>1, <2>1 DEF RegistryInv, Indexed, PathFree
  <2> QED
    BY <1>1, <2>1, <2>2 DEF RegistryInv, Indexed, Live
<1>3. CASE Update(r)
  <2> DEFINE old == RowOf(registry, r.asset)
  <2>1. old \in registry /\ old.asset = r.asset
    <3>1. \E s \in registry : s.asset = r.asset
      BY <1>3 DEF Update, Registered
    <3> QED
      BY <3>1 DEF RowOf
  <2>2. registry' = (registry \ {old}) \cup {r}
    BY <1>3 DEF Update
  <2> HIDE DEF old
  <2>3. \A s \in registry \ {old} : s.asset # r.asset
    BY <2>1 DEF RegistryInv
  <2>4. schema.pathIndex = "live" => Indexed(registry')
    BY <1>1, <2>2, <2>3 DEF RegistryInv, Indexed, PathFree
  <2>5. schema.table # "absent"
    BY <2>1 DEF RegistryInv
  <2> QED
    BY <1>1, <2>2, <2>3, <2>4, <2>5 DEF RegistryInv, Indexed, Live
<1> QED
  BY <1>2, <1>3

\* Every step that touches the registry at all.
LEMMA RegistryStep == RegistryInv /\ [Next]_vars => RegistryInv'
<1> SUFFICES ASSUME RegistryInv, [Next]_vars PROVE RegistryInv'
  OBVIOUS
<1>1. CASE UNCHANGED registryVars
  BY <1>1 DEF registryVars, RegistryInv, Indexed, Live
<1>2. CASE Initialize
  <2>1. UNCHANGED registry /\ initialized' = TRUE
    BY <1>2 DEF Initialize, InitializeRegistry
  <2>2. CASE schema.table = "absent" /\ schema' = SchemaV1
    <3>1. registry = {}
      BY <2>2 DEF RegistryInv
    <3> QED
      BY <2>1, <2>2, <3>1 DEF RegistryInv, Indexed, SchemaV1
  <2>3. CASE schema.pathIndex = "live" /\ UNCHANGED schema
    BY <2>1, <2>3 DEF RegistryInv, Indexed, Live
  <2> QED
    BY <1>2, <2>2, <2>3
       DEF Initialize, InitializeRegistry, NothingPartial, SchemaValid, IndexApproved
<1>3. ASSUME NEW a \in Assets, Register(a)
      PROVE  RegistryInv'
  BY <1>3, WriteKeeps DEF Register
<1>4. CASE WriteBack
  BY <1>4, WriteKeeps DEF WriteBack
<1>5. ASSUME NEW a \in Assets, UpdateRow(a)
      PROVE  RegistryInv'
  BY <1>5, WriteKeeps DEF UpdateRow
<1> QED
  BY <1>1, <1>2, <1>3, <1>4, <1>5
     DEF Next, vars, registryVars, ReadRow, CollectEvidence, EditFile, SnapshotRecords,
         SnapshotEvidence, Observe, PlanReconciliation

\* asset/schema.sql's partial unique index and initialize_asset_registry_database():
\* a registry that was created or accepted has at most one row that is not
\* deprecated at each path, whoever writes back an old row.
THEOREM PathsUnique == Spec => []LivePathsUnique
<1>1. Init => RegistryInv
  BY DEF Init, RegistryInit, RegistryInv, Indexed
<1>2. RegistryInv => LivePathsUnique
  BY DEF RegistryInv, Indexed, LivePathsUnique
<1> QED
  BY <1>1, <1>2, RegistryStep, PTL DEF Spec

----------------------------------------------------------------------------
(* Matching *)

\* What an id names: one observation.
IdsUnique(in) == \A o, p \in in.observations : o.id = p.id => o = p

\* A trusted source names one record, and a path has one.
LEMMA CandidatesUnique ==
  ASSUME NEW in, IdsUnique(in)
  PROVE  /\ \A s, t \in TrustedCandidates(in) : s[2] = t[2] => s = t
         /\ \A s, t \in PathCandidates(in) : s[2] = t[2] => s = t
<1> DEFINE at(o) == CHOOSE a \in RecordsAt(in, o.path) : TRUE
<1>1. \A s \in TrustedCandidates(in) : \E o \in in.observations : s = <<o.claim, o.id>>
  BY DEF TrustedCandidates, Unblocked
<1>2. \A s \in PathCandidates(in) : \E o \in in.observations : s = <<at(o), o.id>>
  BY DEF PathCandidates, Unblocked
<1> HIDE DEF at
<1>3. \A s, t \in TrustedCandidates(in) : s[2] = t[2] => s = t
  BY <1>1 DEF IdsUnique
<1>4. ASSUME NEW s \in PathCandidates(in), NEW t \in PathCandidates(in), s[2] = t[2]
      PROVE  s = t
  <2>1. PICK o \in in.observations : s = <<at(o), o.id>>
    BY <1>2
  <2>2. PICK p \in in.observations : t = <<at(p), p.id>>
    BY <1>2
  <2>3. o = p
    BY <1>4, <2>1, <2>2 DEF IdsUnique
  <2> QED
    BY <2>1, <2>2, <2>3
<1> QED
  BY <1>3, <1>4

\* Trusted ids and paths together give an observation one record.
LEMMA AuthoritativeUnique ==
  ASSUME NEW in, IdsUnique(in)
  PROVE  \A p, q \in AuthoritativePairs(in) : p.observer = q.observer => p = q
<1> DEFINE trusted == TrustedCandidates(in)
<1> DEFINE byPath == PathCandidates(in)
<1>1. (\A s, t \in trusted : s[2] = t[2] => s = t) /\ (\A s, t \in byPath : s[2] = t[2] => s = t)
  BY CandidatesUnique
<1>2. ASSUME NEW p \in AuthoritativePairs(in)
      PROVE  \/ \E c \in trusted \cap byPath : p = Pair(c[1], c[2], "trusted_asset_id_and_exact_path")
             \/ \E c \in trusted : (\A b \in byPath : b[2] # c[2]) /\ p = Pair(c[1], c[2], "trusted_asset_id")
             \/ \E c \in byPath : (\A t \in trusted : t[2] # c[2]) /\ p = Pair(c[1], c[2], "exact_path")
  BY <1>2 DEF AuthoritativePairs
<1> HIDE DEF trusted, byPath
<1>3. ASSUME NEW p \in AuthoritativePairs(in), NEW q \in AuthoritativePairs(in), p.observer = q.observer
      PROVE  p = q
  BY <1>1, <1>2, <1>3 DEF Pair
<1> QED
  BY <1>3

\* What they give is never by strong identity.
LEMMA AuthoritativeKinds ==
  ASSUME NEW in
  PROVE  \A p \in AuthoritativePairs(in) : p.kind # "unique_strong_identity"
BY DEF AuthoritativePairs, Pair

\* What is kept of them gives a record one observation.
LEMMA KeptUnique ==
  ASSUME NEW pairs
  PROVE  /\ KeptPairs(pairs) \subseteq pairs
         /\ \A p, q \in KeptPairs(pairs) : p.asset = q.asset => p = q
BY DEF KeptPairs, Rivals

\* A candidate by strong identity is in no conflict that was found before.
LEMMA CandidateFree ==
  ASSUME NEW in, NEW conflicts, NEW c \in CandidatePairs(in, conflicts)
  PROVE  /\ c = <<c[1], c[2]>>
         /\ c[1] \notin AssetsIn(conflicts) /\ c[2] \notin ObserversIn(conflicts)
BY DEF CandidatePairs, Eligible

\* Two candidates that share an end are in a conflict.
LEMMA SharedEndsConflict ==
  ASSUME NEW candidates, NEW c \in candidates, NEW d \in candidates, c # d,
         c[1] = d[1] \/ c[2] = d[2]
  PROVE  c[1] \in AssetsIn(CandidateConflicts(candidates)) /\ c[2] \in ObserversIn(CandidateConflicts(candidates))
<1> DEFINE g == Component(candidates, c)
<1>1. c \in g /\ d \in g
  BY DEF Component
<1> HIDE DEF g
<1> DEFINE conflict == Conflict("mixed_identity_collision", {q[1] : q \in g}, {q[2] : q \in g})
<1>2. conflict \in CandidateConflicts(candidates)
  BY <1>1 DEF CandidateConflicts, g
<1>3. c[1] \in conflict.assets /\ c[2] \in conflict.observers
  BY <1>1 DEF Conflict
<1> HIDE DEF conflict
<1> QED
  BY <1>2, <1>3 DEF AssetsIn, ObserversIn

\* build_matching_state() gives every record and every observation at most one
\* match, and matches nothing by strong identity that is part of a conflict.
LEMMA MatchingOwns ==
  ASSUME NEW in, IdsUnique(in)
  PROVE  OwnershipHolds(Matching(in)) /\ IdentityApart(Matching(in), Matching(in).conflicts)
<1> DEFINE proposed == AuthoritativePairs(in)
           pairs == KeptPairs(proposed)
           conflicts == AuthoritativeConflicts(in) \cup RivalConflicts(proposed)
           candidates == CandidatePairs(in, conflicts)
           unclear == KeyCollisions(in, conflicts) \cup CandidateConflicts(candidates)
           clean == {c \in candidates : c[1] \notin AssetsIn(unclear) /\ c[2] \notin ObserversIn(unclear)}
           fresh == {c \in clean : Touching(pairs, c) = {}}
           byIdentity == {Pair(c[1], c[2], "unique_strong_identity") : c \in fresh}
           overruled == {OverruledConflict(pairs, c) : c \in {d \in clean \ fresh : ~ Settled(pairs, d)}}
<1>1. /\ Matching(in).pairs = pairs \cup byIdentity
      /\ Matching(in).conflicts = conflicts \cup unclear \cup overruled
      /\ Matching(in).strong = unclear \cup overruled
  BY DEF Matching
<1>2. /\ \A p, q \in pairs : p.asset = q.asset \/ p.observer = q.observer => p = q
      /\ \A p \in pairs : p.kind # "unique_strong_identity"
  BY KeptUnique, AuthoritativeUnique, AuthoritativeKinds
<1>3. \A c \in candidates : /\ c = <<c[1], c[2]>>
                            /\ c[1] \notin AssetsIn(conflicts) /\ c[2] \notin ObserversIn(conflicts)
  BY CandidateFree
<1> HIDE DEF candidates, conflicts, pairs, proposed
<1>4. \A c, d \in clean : c[1] = d[1] \/ c[2] = d[2] => c = d
  <2> SUFFICES ASSUME NEW c \in clean, NEW d \in clean, c[1] = d[1] \/ c[2] = d[2], c # d
               PROVE  FALSE
    OBVIOUS
  <2>1. c[1] \in AssetsIn(CandidateConflicts(candidates))
    BY SharedEndsConflict
  <2> QED
    BY <2>1 DEF AssetsIn
<1>5. \A c \in fresh : c \in clean /\ \A p \in pairs : p.asset # c[1] /\ p.observer # c[2]
  BY DEF Touching
<1>6. \A c \in fresh : c[1] \notin AssetsIn(overruled) /\ c[2] \notin ObserversIn(overruled)
  <2> SUFFICES ASSUME NEW c \in fresh, NEW d \in clean \ fresh
               PROVE  /\ c[1] \notin OverruledConflict(pairs, d).assets
                      /\ c[2] \notin OverruledConflict(pairs, d).observers
    BY DEF AssetsIn, ObserversIn
  <2>1. c[1] # d[1] /\ c[2] # d[2]
    BY <1>4, <1>5
  <2>2. OverruledConflict(pairs, d).assets = {d[1]} \cup {p.asset : p \in Touching(pairs, d)}
        /\ OverruledConflict(pairs, d).observers = {d[2]} \cup {p.observer : p \in Touching(pairs, d)}
    BY DEF OverruledConflict, Conflict
  <2> QED
    BY <1>5, <2>1, <2>2 DEF Touching
<1>7. \A p \in byIdentity : \E c \in fresh : p = Pair(c[1], c[2], "unique_strong_identity")
  OBVIOUS
<1>8. \A c \in fresh : c \in candidates /\ c[1] \notin AssetsIn(unclear) /\ c[2] \notin ObserversIn(unclear)
  OBVIOUS
<1> HIDE DEF unclear, clean, fresh, byIdentity, overruled
<1>9. \A p, q \in pairs \cup byIdentity : p.asset = q.asset \/ p.observer = q.observer => p = q
  BY <1>2, <1>4, <1>5, <1>7 DEF Pair
<1>10. ASSUME NEW p \in pairs \cup byIdentity, p.kind = "unique_strong_identity"
       PROVE  /\ p.asset \notin AssetsIn(conflicts \cup unclear \cup overruled)
              /\ p.observer \notin ObserversIn(conflicts \cup unclear \cup overruled)
              /\ p.asset \notin AssetsIn(unclear \cup overruled)
              /\ p.observer \notin ObserversIn(unclear \cup overruled)
  <2>1. PICK c \in fresh : p.asset = c[1] /\ p.observer = c[2]
    BY <1>2, <1>7, <1>10 DEF Pair
  <2> QED
    BY <1>3, <1>6, <1>8, <2>1 DEF AssetsIn, ObserversIn
<1> QED
  BY <1>1, <1>9, <1>10 DEF OwnershipHolds, IdentityApart

----------------------------------------------------------------------------
(* Decisions *)

\* No record and no observation is in two of them.
Apart(decisions) ==
    \A d, e \in decisions :
        /\ \A a \in d.assets : a \in e.assets => d = e
        /\ \A id \in d.observers : id \in e.observers => d = e

\* What is decided is claimed, and decided once.
Tidy(done) ==
    /\ Apart(done.decisions)
    /\ \A d \in done.decisions : d.assets \subseteq done.assets /\ d.observers \subseteq done.observers

\* A record that is claimed is decided, or its match is in an item that blocks
\* proposals; an observation that is claimed is decided, or its match is.
Accounted(done, pairs) ==
    /\ \A a \in done.assets :
        \/ \E d \in done.decisions : a \in d.assets
        \/ \E p \in pairs : p.asset = a /\ \E d \in done.decisions : d.blocked /\ p.observer \in d.observers
    /\ \A id \in done.observers :
        \/ \E d \in done.decisions : id \in d.observers
        \/ \E p \in pairs : p.observer = id /\ \E d \in done.decisions : p.asset \in d.assets

Blocking(decisions) == \A d \in decisions : d.blocked /\ d.review /\ d.class \notin LeftOver

\* What is called left over was not matched.
Honest(decisions, pairs) ==
    \A d \in decisions : d.class \in LeftOver =>
        \A p \in pairs : p.asset \notin d.assets /\ p.observer \notin d.observers

\* The ranks before the pairs decide what they claim, and block it.
Contested(done) == Tidy(done) /\ Accounted(done, {}) /\ Blocking(done.decisions)

\* A rank whose decisions are apart adds those that nobody claimed.
LEMMA ClaimAllKeeps ==
  ASSUME NEW done, NEW decisions, NEW pairs, Apart(decisions), Tidy(done), Accounted(done, pairs)
  PROVE  LET new == ClaimAll(done, decisions)
         IN  /\ Tidy(new) /\ Accounted(new, pairs)
             /\ new.decisions \subseteq done.decisions \cup decisions
             /\ done.assets \subseteq new.assets /\ done.observers \subseteq new.observers
             /\ \A d \in decisions : Unclaimed(done, d) =>
                    d.assets \subseteq new.assets /\ d.observers \subseteq new.observers
<1> DEFINE free == {d \in decisions : Unclaimed(done, d)}
           new == ClaimAll(done, decisions)
<1>1. /\ new.decisions = done.decisions \cup free
      /\ new.assets = done.assets \cup UNION {d.assets : d \in free}
      /\ new.observers = done.observers \cup UNION {d.observers : d \in free}
  BY DEF ClaimAll
<1>2. \A d \in free : d \in decisions /\ d.assets \cap done.assets = {} /\ d.observers \cap done.observers = {}
  BY DEF Unclaimed
<1>3. \A d \in decisions : Unclaimed(done, d) => d \in free
  OBVIOUS
<1> HIDE DEF free, new
<1>4. Apart(new.decisions)
  BY <1>1, <1>2 DEF Apart, Tidy
<1>5. Tidy(new)
  BY <1>1, <1>4 DEF Tidy
<1>6. Accounted(new, pairs)
  BY <1>1 DEF Accounted
<1> QED
  BY <1>1, <1>2, <1>3, <1>5, <1>6 DEF new

\* So it is with one decision.
LEMMA ClaimKeeps ==
  ASSUME NEW done, NEW d, Contested(done), d.blocked, d.review, d.class \notin LeftOver
  PROVE  Contested(Claim(done, d))
<1>1. CASE ~ Unclaimed(done, d)
  BY <1>1 DEF Claim
<1>2. CASE Unclaimed(done, d)
  <2> DEFINE new == Claim(done, d)
  <2>1. /\ new.decisions = done.decisions \cup {d}
        /\ new.assets = done.assets \cup d.assets
        /\ new.observers = done.observers \cup d.observers
    BY <1>2 DEF Claim
  <2> HIDE DEF new
  <2>2. Tidy(new)
    BY <1>2, <2>1 DEF Contested, Tidy, Apart, Unclaimed
  <2>3. Accounted(new, {}) /\ Blocking(new.decisions)
    BY <2>1 DEF Contested, Accounted, Blocking
  <2> QED
    BY <2>2, <2>3 DEF Contested, new
<1> QED
  BY <1>1, <1>2

\* A rank of blocking decisions.
LEMMA ClaimAllContested ==
  ASSUME NEW done, NEW decisions, Contested(done), Apart(decisions), Blocking(decisions)
  PROVE  Contested(ClaimAll(done, decisions))
<1> DEFINE new == ClaimAll(done, decisions)
<1>1. Tidy(new) /\ Accounted(new, {}) /\ new.decisions \subseteq done.decisions \cup decisions
  BY ClaimAllKeeps DEF Contested
<1> HIDE DEF new
<1>2. Blocking(new.decisions)
  BY <1>1 DEF Contested, Blocking
<1> QED
  BY <1>1, <1>2 DEF Contested, new

\* A set of numbers has a least one.
LEMMA Least ==
  ASSUME NEW T \in SUBSET Nat, T # {}
  PROVE  \E m \in T : \A k \in T : m <= k
<1>1. PICK x \in T : \A y \in T : ~ (<<y, x>> \in OpToRel(<, Nat))
  BY NatLessThanWellFounded, WFMin, Zenon
<1>2. \A y \in T : <<y, x>> \in OpToRel(<, Nat) <=> y < x
  BY DEF OpToRel
<1>3. \A y \in T : ~ (y < x)
  BY <1>1, <1>2, Zenon
<1> QED
  BY <1>3

\* What n conflicts of the order have claimed.
IsAfter(after, done, conflicts, n) ==
    after = [i \in 0 .. n |->
                IF i = 0 THEN done ELSE Claim(after[i - 1], ConflictDecision(ConflictAt(conflicts, i)))]

\* The conflicts can be taken one after the other.
LEMMA AfterExists ==
  ASSUME NEW done, NEW conflicts, NEW n \in Nat
  PROVE  \E after : IsAfter(after, done, conflicts, n)
<1> DEFINE T == {k \in Nat : ~ \E after : IsAfter(after, done, conflicts, k)}
<1> SUFFICES T = {}
  OBVIOUS
<1> SUFFICES ASSUME T # {} PROVE FALSE
  OBVIOUS
<1>1. T \in SUBSET Nat
  OBVIOUS
<1>2. PICK m \in T : \A k \in T : m <= k
  BY <1>1, Least
<1>3. m \in Nat /\ ~ \E after : IsAfter(after, done, conflicts, m)
  OBVIOUS
<1>4. CASE m = 0
  <2> DEFINE f == [i \in 0 .. 0 |-> done]
  <2>1. f = [i \in 0 .. 0 |->
                IF i = 0 THEN done ELSE Claim(f[i - 1], ConflictDecision(ConflictAt(conflicts, i)))]
    OBVIOUS
  <2>2. IsAfter(f, done, conflicts, m)
    BY <1>4, <2>1 DEF IsAfter
  <2> QED
    BY <1>3, <2>2
<1>5. CASE m # 0
  <2>1. m - 1 \in Nat /\ ~ (m - 1 \in T)
    BY <1>2, <1>3, <1>5
  <2>2. PICK f : IsAfter(f, done, conflicts, m - 1)
    BY <2>1
  <2> DEFINE step(g, i) == Claim(g[i - 1], ConflictDecision(ConflictAt(conflicts, i)))
             g == [i \in 0 .. m |-> IF i = m THEN step(f, i) ELSE f[i]]
  <2>3. f = [i \in 0 .. m - 1 |-> IF i = 0 THEN done ELSE step(f, i)]
    BY <2>2 DEF IsAfter
  <2>4. \A i \in 1 .. m : step(g, i) = step(f, i)
    <3>1. \A i \in 1 .. m : g[i - 1] = f[i - 1]
      BY <1>3
    <3> QED
      BY <3>1
  <2> HIDE DEF step
  <2>5. ASSUME NEW i \in 0 .. m
        PROVE  g[i] = IF i = 0 THEN done ELSE step(g, i)
    <3>1. CASE i = m
      BY <1>3, <1>5, <2>4, <3>1
    <3>2. CASE i # m
      <4>1. i \in 0 .. m - 1 /\ g[i] = f[i]
        BY <1>3, <3>2
      <4>2. f[i] = IF i = 0 THEN done ELSE step(f, i)
        BY <2>3, <4>1
      <4> QED
        BY <1>3, <2>4, <4>1, <4>2
    <3> QED
      BY <3>1, <3>2
  <2>6. g = [i \in 0 .. m |-> g[i]]
    OBVIOUS
  <2> HIDE DEF g
  <2>7. g = [i \in 0 .. m |-> IF i = 0 THEN done ELSE step(g, i)]
    BY <2>5, <2>6
  <2>8. IsAfter(g, done, conflicts, m)
    BY <2>7 DEF IsAfter, step
  <2> QED
    BY <1>3, <2>8
<1> QED
  BY <1>4, <1>5

\* Ranks 2, 3, 4a and 6b decide and block what they claim.
LEMMA ConflictsContested ==
  ASSUME NEW done, NEW conflicts, IsFiniteSet(conflicts), Contested(done)
  PROVE  Contested(ClaimConflicts(done, conflicts))
<1> DEFINE n == Cardinality(conflicts)
           after == CHOOSE f : IsAfter(f, done, conflicts, n)
<1>1. n \in Nat
  BY FS_CardinalityType
<1>2. ClaimConflicts(done, conflicts) = after[n]
  BY DEF ClaimConflicts, IsAfter
<1> HIDE DEF n
<1>3. IsAfter(after, done, conflicts, n)
  BY <1>1, AfterExists
<1> HIDE DEF after
<1>4. \A i \in 0 .. n : after[i] = IF i = 0 THEN done
                                   ELSE Claim(after[i - 1], ConflictDecision(ConflictAt(conflicts, i)))
  BY <1>3 DEF IsAfter
<1> DEFINE T == {i \in 0 .. n : ~ Contested(after[i])}
<1>5. T = {}
  <2> SUFFICES ASSUME T # {} PROVE FALSE
    OBVIOUS
  <2>1. T \in SUBSET Nat
    BY <1>1
  <2>2. PICK m \in T : \A k \in T : m <= k
    BY <2>1, Least
  <2>3. m \in 0 .. n /\ ~ Contested(after[m])
    OBVIOUS
  <2>4. m # 0
    BY <1>4, <2>3
  <2>5. m - 1 \in 0 .. n /\ ~ (m - 1 \in T)
    BY <1>1, <2>2, <2>3, <2>4
  <2>6. Contested(after[m - 1])
    BY <2>5
  <2> DEFINE d == ConflictDecision(ConflictAt(conflicts, m))
  <2>7. d.blocked /\ d.review /\ d.class \notin LeftOver
    <3> DEFINE c == ConflictAt(conflicts, m)
    <3>1. d = Decision(c.assets, c.observers, ConflictClass(c), TRUE, TRUE)
      BY DEF ConflictDecision, BlockedDecision
    <3>2. ConflictClass(c) \notin LeftOver
      BY DEF ConflictClass, LeftOver
    <3> HIDE DEF c, d
    <3> QED
      BY <3>1, <3>2 DEF Decision
  <2> HIDE DEF d
  <2>8. after[m] = Claim(after[m - 1], d)
    BY <1>4, <2>3, <2>4 DEF d
  <2> QED
    BY <2>3, <2>6, <2>7, <2>8, ClaimKeeps
<1> QED
  BY <1>1, <1>2, <1>5

\* A path or an id does not name two records or two observations.
LEMMA PathsApart ==
  ASSUME NEW in, Validated(in)
  PROVE  /\ \A g, h \in ObserverCollisions(in) : \A id \in g : id \in h => g = h
         /\ \A g, h \in RecordCollisions(in) : \A a \in g : a \in h => g = h
<1>1. ASSUME NEW p, NEW q, NEW id \in ObserversAt(in, p), id \in ObserversAt(in, q)
      PROVE  p = q
  BY <1>1 DEF ObserversAt, SamePath, Validated
<1>2. ASSUME NEW p, NEW q, NEW a \in RecordsAt(in, p), a \in RecordsAt(in, q)
      PROVE  p = q
  BY <1>2 DEF RecordsAt, SamePath, Validated
<1>3. \A g \in ObserverCollisions(in) : \E p \in Paths : g = ObserversAt(in, p)
  BY DEF ObserverCollisions, PathCollisions
<1>4. \A g \in RecordCollisions(in) : \E p \in Paths : g = RecordsAt(in, p)
  BY DEF RecordCollisions, PathCollisions
<1> QED
  BY <1>1, <1>2, <1>3, <1>4

\* Decisions of one class, about sets that are equal or have nothing in common.
LEMMA ApartBySubject ==
  ASSUME NEW D,
         \A d, e \in D : d.assets = e.assets /\ d.observers = e.observers => d = e,
         \A d, e \in D : \A a \in d.assets : a \in e.assets => d.assets = e.assets /\ d.observers = e.observers,
         \A d, e \in D : \A id \in d.observers : id \in e.observers => d.assets = e.assets /\ d.observers = e.observers
  PROVE  Apart(D)
BY DEF Apart

\* A blocking decision is its subject and its class.
LEMMA BlockedFields ==
  ASSUME NEW D, NEW class, class \notin LeftOver, \A d \in D : \E as, ids : d = BlockedDecision(as, ids, class)
  PROVE  /\ \A d, e \in D : d.assets = e.assets /\ d.observers = e.observers => d = e
         /\ Blocking(D)
<1>1. ASSUME NEW d \in D
      PROVE  /\ d = BlockedDecision(d.assets, d.observers, class)
             /\ d.blocked = TRUE /\ d.review = TRUE /\ d.class = class
  <2>1. PICK as, ids : d = BlockedDecision(as, ids, class)
    OBVIOUS
  <2> QED
    BY <2>1 DEF BlockedDecision, Decision
<1>2. Blocking(D)
  <2> SUFFICES ASSUME NEW d \in D PROVE d.blocked /\ d.review /\ d.class \notin LeftOver
    BY DEF Blocking
  <2> QED
    BY <1>1
<1>3. ASSUME NEW d \in D, NEW e \in D, d.assets = e.assets /\ d.observers = e.observers
      PROVE  d = e
  <2>1. d = BlockedDecision(d.assets, d.observers, class)
    BY <1>1
  <2>2. e = BlockedDecision(e.assets, e.observers, class)
    BY <1>1
  <2> QED
    BY <1>3, <2>1, <2>2 DEF BlockedDecision, Decision
<1> QED
  BY <1>2, <1>3

\* Rank 1 decides records, one by one.
LEMMA EvidenceApart ==
  ASSUME NEW in
  PROVE  Apart(EvidenceConflicts(in)) /\ Blocking(EvidenceConflicts(in))
<1> DEFINE D == EvidenceConflicts(in)
           class == "registry_identity_evidence_conflict"
<1>1. \A d \in D : \E a : d = BlockedDecision({a}, {}, class)
  BY DEF EvidenceConflicts
<1> HIDE DEF D, class
<1>2. class \notin LeftOver /\ \A d \in D : \E as, ids : d = BlockedDecision(as, ids, class)
  BY <1>1 DEF class, LeftOver
<1>3. \A d \in D : d.observers = {} /\ \E a : d.assets = {a}
  <2> TAKE d \in D
  <2>1. PICK a : d = BlockedDecision({a}, {}, class)
    BY <1>1
  <2> QED
    BY <2>1 DEF BlockedDecision, Decision
<1>4. \A d, e \in D : \A a \in d.assets : a \in e.assets => d.assets = e.assets /\ d.observers = e.observers
  BY <1>3
<1>5. \A d, e \in D : \A id \in d.observers : id \in e.observers => d.assets = e.assets /\ d.observers = e.observers
  BY <1>3
<1>6. (\A d, e \in D : d.assets = e.assets /\ d.observers = e.observers => d = e) /\ Blocking(D)
  BY <1>2, BlockedFields
<1> QED
  BY <1>4, <1>5, <1>6, ApartBySubject DEF D

\* Rank 5 decides groups at one path.
LEMMA DuplicatesApart ==
  ASSUME NEW in, Validated(in)
  PROVE  Apart(DuplicatePaths(in)) /\ Blocking(DuplicatePaths(in))
<1> DEFINE D == DuplicatePaths(in)
           class == "duplicate_path_conflict"
<1>1. \A d \in D : \/ \E g \in ObserverCollisions(in) : d = BlockedDecision({}, g, class)
                   \/ \E g \in RecordCollisions(in) : d = BlockedDecision(g, {}, class)
  BY DEF DuplicatePaths
<1> HIDE DEF D, class
<1>2. class \notin LeftOver /\ \A d \in D : \E as, ids : d = BlockedDecision(as, ids, class)
  BY <1>1 DEF class, LeftOver
<1>3. \A d \in D : \/ d.assets = {} /\ d.observers \in ObserverCollisions(in)
                   \/ d.observers = {} /\ d.assets \in RecordCollisions(in)
  <2> TAKE d \in D
  <2>1. CASE \E g \in ObserverCollisions(in) : d = BlockedDecision({}, g, class)
    BY <2>1 DEF BlockedDecision, Decision
  <2>2. CASE \E g \in RecordCollisions(in) : d = BlockedDecision(g, {}, class)
    BY <2>2 DEF BlockedDecision, Decision
  <2> QED
    BY <1>1, <2>1, <2>2
<1>4. \A d, e \in D : \A a \in d.assets : a \in e.assets => d.assets = e.assets /\ d.observers = e.observers
  BY <1>3, PathsApart
<1>5. \A d, e \in D : \A id \in d.observers : id \in e.observers => d.assets = e.assets /\ d.observers = e.observers
  BY <1>3, PathsApart
<1>6. (\A d, e \in D : d.assets = e.assets /\ d.observers = e.observers => d = e) /\ Blocking(D)
  BY <1>2, BlockedFields
<1> QED
  BY <1>4, <1>5, <1>6, ApartBySubject DEF D

\* Rank 6a decides observations by the record they claim.
LEMMA AmbiguousApart ==
  ASSUME NEW in, Validated(in)
  PROVE  Apart(AmbiguousClaims(in)) /\ Blocking(AmbiguousClaims(in))
<1> DEFINE several == WithCode(in, "trusted_asset_id_claimed_by_multiple_observations")
           claiming(a) == {o.id : o \in {p \in several : p.claim = a}}
           D == AmbiguousClaims(in)
           class == "ambiguous_match"
<1>1. several \subseteq in.observations
  BY DEF WithCode
<1>2. \A d \in D : \E a : d = BlockedDecision({}, claiming(a), class)
  BY DEF AmbiguousClaims
<1> HIDE DEF several
<1>3. \A a, b : \A id \in claiming(a) : id \in claiming(b) => a = b
  BY <1>1 DEF Validated
<1> HIDE DEF claiming, D, class
<1>4. class \notin LeftOver /\ \A d \in D : \E as, ids : d = BlockedDecision(as, ids, class)
  BY <1>2 DEF class, LeftOver
<1>5. \A d \in D : d.assets = {} /\ \E a : d.observers = claiming(a)
  <2> TAKE d \in D
  <2>1. PICK a : d = BlockedDecision({}, claiming(a), class)
    BY <1>2
  <2> QED
    BY <2>1 DEF BlockedDecision, Decision
<1>6. \A d, e \in D : \A a \in d.assets : a \in e.assets => d.assets = e.assets /\ d.observers = e.observers
  BY <1>5
<1>7. \A d, e \in D : \A id \in d.observers : id \in e.observers => d.assets = e.assets /\ d.observers = e.observers
  <2> TAKE d, e \in D
  <2>1. PICK a : d.observers = claiming(a)
    BY <1>5
  <2>2. PICK b : e.observers = claiming(b)
    BY <1>5
  <2>3. \A id \in claiming(a) : id \in claiming(b) => a = b
    BY <1>3
  <2> QED
    BY <1>5, <2>1, <2>2, <2>3
<1>8. (\A d, e \in D : d.assets = e.assets /\ d.observers = e.observers => d = e) /\ Blocking(D)
  BY <1>4, BlockedFields
<1> QED
  BY <1>6, <1>7, <1>8, ApartBySubject DEF D

\* Rank 7 decides observations, one by one.
LEMMA UnknownApart ==
  ASSUME NEW in
  PROVE  Apart(UnknownClaims(in)) /\ Blocking(UnknownClaims(in))
<1> DEFINE D == UnknownClaims(in)
           class == "unknown_authoritative_asset_id"
<1>1. \A d \in D : \E id : d = BlockedDecision({}, {id}, class)
  BY DEF UnknownClaims
<1> HIDE DEF D, class
<1>2. class \notin LeftOver /\ \A d \in D : \E as, ids : d = BlockedDecision(as, ids, class)
  BY <1>1 DEF class, LeftOver
<1>3. \A d \in D : d.assets = {} /\ \E id : d.observers = {id}
  <2> TAKE d \in D
  <2>1. PICK id : d = BlockedDecision({}, {id}, class)
    BY <1>1
  <2> QED
    BY <2>1 DEF BlockedDecision, Decision
<1>4. \A d, e \in D : \A a \in d.assets : a \in e.assets => d.assets = e.assets /\ d.observers = e.observers
  BY <1>3
<1>5. \A d, e \in D : \A id \in d.observers : id \in e.observers => d.assets = e.assets /\ d.observers = e.observers
  BY <1>3
<1>6. (\A d, e \in D : d.assets = e.assets /\ d.observers = e.observers => d = e) /\ Blocking(D)
  BY <1>2, BlockedFields
<1> QED
  BY <1>4, <1>5, <1>6, ApartBySubject DEF D

\* Records and observations that are left are decided one by one.
LEMMA LeftApart ==
  ASSUME NEW in, NEW done
  PROVE  /\ Validated(in) => Apart(UnseenRecords(in, done))
         /\ Apart(NewObservations(in, done))
<1>1. \A d \in UnseenRecords(in, done) : \E r \in in.records :
        d = Decided({r.asset}, {},
                IF ExpectedObservable(r, in.scope) THEN "record_not_observed" ELSE "insufficient_scope")
  BY DEF UnseenRecords
<1>2. \A d \in NewObservations(in, done) : \E id : d = Decided({}, {id}, "new_unregistered_observation")
  BY DEF NewObservations
<1>3. Validated(in) => \A r, s \in in.records : r.asset = s.asset => r = s
  BY DEF Validated
<1>4. Validated(in) => Apart(UnseenRecords(in, done))
  <2> SUFFICES ASSUME Validated(in), NEW d \in UnseenRecords(in, done), NEW e \in UnseenRecords(in, done)
               PROVE  /\ \A a \in d.assets : a \in e.assets => d = e
                      /\ \A id \in d.observers : id \in e.observers => d = e
    BY DEF Apart
  <2>1. PICK r \in in.records :
            d = Decided({r.asset}, {},
                IF ExpectedObservable(r, in.scope) THEN "record_not_observed" ELSE "insufficient_scope")
    BY <1>1
  <2>2. PICK s \in in.records :
            e = Decided({s.asset}, {},
                IF ExpectedObservable(s, in.scope) THEN "record_not_observed" ELSE "insufficient_scope")
    BY <1>1
  <2>3. d.assets = {r.asset} /\ e.assets = {s.asset} /\ d.observers = {} /\ e.observers = {}
    BY <2>1, <2>2 DEF Decided, Decision
  <2>4. r.asset = s.asset => d = e
    BY <1>3, <2>1, <2>2
  <2> QED
    BY <2>3, <2>4
<1>5. Apart(NewObservations(in, done))
  <2> DEFINE D == NewObservations(in, done)
  <2> HIDE DEF D
  <2>1. \A d \in D : d.assets = {} /\ \E id : d.observers = {id} /\ d = Decided({}, {id}, "new_unregistered_observation")
    <3> TAKE d \in D
    <3>1. PICK id : d = Decided({}, {id}, "new_unregistered_observation")
      BY <1>2 DEF D
    <3> QED
      BY <3>1 DEF Decided, Decision
  <2>2. \A d, e \in D : \A id \in d.observers : id \in e.observers => d = e
    <3> SUFFICES ASSUME NEW d \in D, NEW e \in D, NEW id \in d.observers, id \in e.observers
                 PROVE  d = e
      OBVIOUS
    <3>1. d = Decided({}, {id}, "new_unregistered_observation")
      BY <2>1
    <3>2. e = Decided({}, {id}, "new_unregistered_observation")
      BY <2>1
    <3> QED
      BY <3>1, <3>2
  <2> QED
    BY <2>1, <2>2 DEF Apart, D
<1> QED
  BY <1>4, <1>5
----------------------------------------------------------------------------
(* What matching finds is about what it was given *)

Ids(in) == {o.id : o \in in.observations}

\* A candidate is a registered record and an observation.
Given(in, c) == c = <<c[1], c[2]>> /\ c[1] \in Registered(in.records) /\ c[2] \in Ids(in)

\* What an observation that may be matched claims on trust is registered.
LEMMA TrustedGiven ==
  ASSUME NEW in, NEW c \in TrustedCandidates(in)
  PROVE  Given(in, c)
<1>1. PICK o \in in.observations : /\ BlockingCode(in, o) = "none" /\ c = <<o.claim, o.id>>
                                   /\ o.source \in in.trusted /\ o.claim # None
  BY DEF TrustedCandidates, Unblocked
<1>2. o.id \in TrustedClaims(in, o.claim)
  BY <1>1 DEF TrustedClaims
<1>3. o.claim \in Registered(in.records)
  BY <1>1, <1>2 DEF BlockingCode
<1> QED
  BY <1>1, <1>3 DEF Given, Ids

\* The record at a path is registered.
LEMMA PathGiven ==
  ASSUME NEW in, NEW c \in PathCandidates(in)
  PROVE  Given(in, c)
<1>1. PICK o \in in.observations : /\ Cardinality(RecordsAt(in, o.path)) = 1
                                   /\ c = <<CHOOSE a \in RecordsAt(in, o.path) : TRUE, o.id>>
  BY DEF PathCandidates, Unblocked
<1>2. RecordsAt(in, o.path) # {}
  BY <1>1, FS_EmptySet
<1>3. c[1] \in RecordsAt(in, o.path)
  BY <1>1, <1>2
<1> QED
  BY <1>1, <1>3 DEF Given, Ids, RecordsAt, SamePath, Registered

\* What is matched by trusted ids and paths.
LEMMA AuthoritativeGiven ==
  ASSUME NEW in, NEW p \in AuthoritativePairs(in)
  PROVE  p.asset \in Registered(in.records) /\ p.observer \in Ids(in)
<1>1. PICK c \in TrustedCandidates(in) \cup PathCandidates(in) : p.asset = c[1] /\ p.observer = c[2]
  BY DEF AuthoritativePairs, Pair
<1> QED
  BY <1>1, TrustedGiven, PathGiven DEF Given

\* What shares a key is registered, as its evidence is, and observed.
LEMMA EligibleGiven ==
  ASSUME NEW in, Validated(in), NEW conflicts, NEW k
  PROVE  /\ Eligible(in, conflicts, k).assets \subseteq Registered(in.records)
         /\ Eligible(in, conflicts, k).observers \subseteq Ids(in)
BY DEF Eligible, KeyHolders, Validated, Unblocked, Ids

\* So is a candidate by strong identity.
LEMMA IdentityGiven ==
  ASSUME NEW in, Validated(in), NEW conflicts, NEW c \in CandidatePairs(in, conflicts)
  PROVE  Given(in, c)
<1>1. PICK k \in Keys : c \in Eligible(in, conflicts, k).assets \X Eligible(in, conflicts, k).observers
  BY DEF CandidatePairs
<1> QED
  BY <1>1, EligibleGiven DEF Given

ConflictKinds ==
    {"authoritative_identity", "content", "mixed_identity_collision",
     "observation_identity_collision", "registry_identity_collision"}

\* A conflict between records and observations that were given.
About(in, c) ==
    \E kind \in ConflictKinds, as \in SUBSET Registered(in.records), ids \in SUBSET Ids(in) :
        c = Conflict(kind, as, ids)

\* A trusted id against a path.
LEMMA AuthoritativeAbout ==
  ASSUME NEW in, NEW c \in AuthoritativeConflicts(in)
  PROVE  About(in, c)
<1>1. PICK s \in TrustedCandidates(in), t \in PathCandidates(in) :
            c = Conflict("authoritative_identity", {s[1], t[1]}, {s[2]})
  BY DEF AuthoritativeConflicts
<1>2. {s[1], t[1]} \subseteq Registered(in.records) /\ {s[2]} \subseteq Ids(in)
  BY TrustedGiven, PathGiven DEF Given
<1> QED
  BY <1>1, <1>2 DEF About, ConflictKinds

\* Observations that name one record.
LEMMA RivalAbout ==
  ASSUME NEW in, NEW c \in RivalConflicts(AuthoritativePairs(in))
  PROVE  About(in, c)
<1> DEFINE pairs == AuthoritativePairs(in)
<1>1. \A p \in pairs : p.asset \in Registered(in.records) /\ p.observer \in Ids(in)
  BY AuthoritativeGiven
<1> HIDE DEF pairs
<1>2. PICK p \in pairs : c = Conflict("authoritative_identity", {p.asset}, {q.observer : q \in Rivals(pairs, p)})
  BY DEF RivalConflicts, pairs
<1>3. {p.asset} \subseteq Registered(in.records) /\ {q.observer : q \in Rivals(pairs, p)} \subseteq Ids(in)
  BY <1>1 DEF Rivals
<1> QED
  BY <1>2, <1>3 DEF About, ConflictKinds

\* Records and observations that share a key.
LEMMA CollisionAbout ==
  ASSUME NEW in, Validated(in), NEW conflicts, NEW c \in KeyCollisions(in, conflicts)
  PROVE  About(in, c)
<1>1. PICK k \in Keys : LET e == Eligible(in, conflicts, k)
                        IN  c = Conflict(CollisionKind(e), e.assets, e.observers)
  BY DEF KeyCollisions
<1>2. CollisionKind(Eligible(in, conflicts, k)) \in ConflictKinds
  BY DEF CollisionKind, ConflictKinds
<1> QED
  BY <1>1, <1>2, EligibleGiven DEF About

\* Candidates that share ends.
LEMMA CandidateAbout ==
  ASSUME NEW in, NEW candidates, \A c \in candidates : Given(in, c), NEW c \in CandidateConflicts(candidates)
  PROVE  About(in, c)
<1>1. PICK p \in candidates : LET g == Component(candidates, p)
                              IN  c = Conflict("mixed_identity_collision", {q[1] : q \in g}, {q[2] : q \in g})
  BY DEF CandidateConflicts
<1> DEFINE g == Component(candidates, p)
<1>2. g \subseteq candidates
  BY DEF Component
<1> HIDE DEF g
<1>3. {q[1] : q \in g} \subseteq Registered(in.records) /\ {q[2] : q \in g} \subseteq Ids(in)
  BY <1>2 DEF Given
<1> QED
  BY <1>1, <1>3 DEF About, ConflictKinds, g

\* A candidate against what was matched.
LEMMA OverruledAbout ==
  ASSUME NEW in, NEW pairs, NEW c, Given(in, c),
         \A p \in pairs : p.asset \in Registered(in.records) /\ p.observer \in Ids(in)
  PROVE  About(in, OverruledConflict(pairs, c))
<1> DEFINE as == {c[1]} \cup {p.asset : p \in Touching(pairs, c)}
           ids == {c[2]} \cup {p.observer : p \in Touching(pairs, c)}
<1>1. as \in SUBSET Registered(in.records) /\ ids \in SUBSET Ids(in)
  BY DEF Given, Touching
<1> QED
  BY <1>1 DEF OverruledConflict, About, ConflictKinds

\* Everything that matching finds.
LEMMA MatchingGiven ==
  ASSUME NEW in, Validated(in)
  PROVE  /\ \A p \in Matching(in).pairs : p.asset \in Registered(in.records) /\ p.observer \in Ids(in)
         /\ \A c \in Matching(in).conflicts : About(in, c)
<1> DEFINE proposed == AuthoritativePairs(in)
           pairs == KeptPairs(proposed)
           conflicts == AuthoritativeConflicts(in) \cup RivalConflicts(proposed)
           candidates == CandidatePairs(in, conflicts)
           unclear == KeyCollisions(in, conflicts) \cup CandidateConflicts(candidates)
           clean == {c \in candidates : c[1] \notin AssetsIn(unclear) /\ c[2] \notin ObserversIn(unclear)}
           fresh == {c \in clean : Touching(pairs, c) = {}}
           byIdentity == {Pair(c[1], c[2], "unique_strong_identity") : c \in fresh}
           overruled == {OverruledConflict(pairs, c) : c \in {d \in clean \ fresh : ~ Settled(pairs, d)}}
<1>1. Matching(in).pairs = pairs \cup byIdentity
      /\ Matching(in).conflicts = conflicts \cup unclear \cup overruled
  BY DEF Matching
<1>2. \A p \in pairs : p.asset \in Registered(in.records) /\ p.observer \in Ids(in)
  BY KeptUnique, AuthoritativeGiven
<1>3. \A c \in conflicts : About(in, c)
  BY AuthoritativeAbout, RivalAbout
<1> HIDE DEF conflicts, pairs
<1>4. \A c \in candidates : Given(in, c)
  BY IdentityGiven
<1> HIDE DEF candidates
<1>5. \A c \in unclear : About(in, c)
  BY <1>4, CollisionAbout, CandidateAbout
<1> HIDE DEF unclear
<1>6. \A c \in fresh : c \in candidates
  OBVIOUS
<1>7. \A p \in byIdentity : \E c \in fresh : p = Pair(c[1], c[2], "unique_strong_identity")
  OBVIOUS
<1>8. \A p \in byIdentity : p.asset \in Registered(in.records) /\ p.observer \in Ids(in)
  BY <1>4, <1>6, <1>7 DEF Given, Pair
<1>9. \A c \in overruled : About(in, c)
  <2> TAKE c \in overruled
  <2>1. PICK d \in candidates : c = OverruledConflict(pairs, d)
    OBVIOUS
  <2> QED
    BY <1>2, <1>4, <2>1, OverruledAbout
<1> HIDE DEF byIdentity, overruled
<1> QED
  BY <1>1, <1>2, <1>3, <1>5, <1>8, <1>9

\* There are finitely many conflicts.
LEMMA ConflictsFinite ==
  ASSUME NEW in, Validated(in), IsFiniteSet(in.observations), Registered(in.records) \subseteq Assets
  PROVE  IsFiniteSet(Matching(in).conflicts)
<1> DEFINE R == Registered(in.records)
           I == Ids(in)
           D == (ConflictKinds \X SUBSET R) \X SUBSET I
           C == {Conflict(d[1][1], d[1][2], d[2]) : d \in D}
           f == [d \in D |-> Conflict(d[1][1], d[1][2], d[2])]
           named == [o \in in.observations |-> o.id]
<1>1. IsFiniteSet(R)
  BY FS_Subset, AssetsAssumption
<1>2. IsFiniteSet(I)
  <2>1. named \in Surjection(in.observations, I)
    <3>1. named \in [in.observations -> I] /\ \A id \in I : \E o \in in.observations : named[o] = id
      BY DEF Ids
    <3> QED
      BY <3>1, Fun_IsSurj
  <2> QED
    BY <2>1, FS_Surjection
<1>3. IsFiniteSet(ConflictKinds)
  <2>1. ConflictKinds = ((({"authoritative_identity"} \cup {"content"}) \cup {"mixed_identity_collision"})
                         \cup {"observation_identity_collision"}) \cup {"registry_identity_collision"}
    BY DEF ConflictKinds
  <2> QED
    <3>1. IsFiniteSet({"authoritative_identity"})
      BY FS_Singleton
    <3>2. IsFiniteSet({"authoritative_identity"} \cup {"content"})
      BY <3>1, FS_AddElement
    <3>3. IsFiniteSet(({"authoritative_identity"} \cup {"content"}) \cup {"mixed_identity_collision"})
      BY <3>2, FS_AddElement
    <3>4. IsFiniteSet((({"authoritative_identity"} \cup {"content"}) \cup {"mixed_identity_collision"})
                      \cup {"observation_identity_collision"})
      BY <3>3, FS_AddElement
    <3> QED
      BY <2>1, <3>4, FS_AddElement
<1> HIDE DEF R, I
<1>4. IsFiniteSet(D)
  BY <1>1, <1>2, <1>3, FS_SUBSET, FS_Product
<1>5. f \in [D -> C] /\ \A c \in C : \E d \in D : f[d] = c
  OBVIOUS
<1>6. f \in Surjection(D, C)
  BY <1>5, Fun_IsSurj
<1>7. IsFiniteSet(C)
  BY <1>4, <1>6, FS_Surjection
<1>8. \A c \in Matching(in).conflicts : c \in C
  <2> TAKE c \in Matching(in).conflicts
  <2>1. PICK kind \in ConflictKinds, as \in SUBSET R, ids \in SUBSET I : c = Conflict(kind, as, ids)
    BY MatchingGiven DEF About, R, I
  <2>2. <<<<kind, as>>, ids>> \in D
    OBVIOUS
  <2>3. \A d \in D : Conflict(d[1][1], d[1][2], d[2]) \in C
    OBVIOUS
  <2>4. Conflict(kind, as, ids) \in C
    BY <2>2, <2>3
  <2> QED
    BY <2>1, <2>4
<1> HIDE DEF C
<1> QED
  BY <1>7, <1>8, FS_Subset

----------------------------------------------------------------------------
(* Classification *)

\* The subject of a match is its record, and no match is called left over.
LEMMA PairSubject ==
  ASSUME NEW in, NEW p, p.asset \in Registered(in.records)
  PROVE  LET d == PairDecision(in, p)
         IN  d.assets = {p.asset} /\ d.observers = {} /\ d.class \notin LeftOver
<1> DEFINE r == RecordWith(in, p.asset)
           o == ObservationWith(in, p.observer)
           moved == Moved(r, o)
           differs == ContentDiffers(in, r, o)
           class == AvailabilityClass(r, o)
           as == {r.asset}
           resized == Size[r.facts] # Size[o.facts]
<1>1. r.asset = p.asset
  BY DEF RecordWith, RowOf, Registered
<1>2. PairDecision(in, p) =
            CASE p.kind = "unique_strong_identity" /\ moved -> Decided(as, {}, "path_changed")
              [] r.lifecycle = "deprecated" -> BlockedDecision(as, {}, "lifecycle_conflict")
              [] differs -> Decided(as, {}, "content_conflict")
              [] class # "same" -> Decided(as, {}, class)
              [] r.facts # o.facts -> Decision(as, {}, "metadata_drift", resized, FALSE)
              [] moved -> Decided(as, {}, "metadata_drift")
              [] OTHER -> Decided(as, {}, "unchanged")
  BY DEF PairDecision
<1>3. class \in {"same", "metadata_drift", "availability_changed"}
  BY DEF AvailabilityClass
<1> HIDE DEF r, o, moved, differs, class, resized
<1>4. \E c \in {"path_changed", "lifecycle_conflict", "content_conflict", "metadata_drift",
                "availability_changed", "unchanged"} :
            \E review, blocked : PairDecision(in, p) = Decision(as, {}, c, review, blocked)
  BY <1>2, <1>3 DEF Decided, BlockedDecision
<1> QED
  BY <1>1, <1>4 DEF Decision, LeftOver

\* Ranks 8 to 10, 13 and 14: a match that no conflict touches is decided, and
\* the end that is left of one that a conflict does is used up with it.
LEMMA ClaimPairsKeeps ==
  ASSUME NEW in, NEW done, NEW pairs, Contested(done),
         \A p \in pairs : p.asset \in Registered(in.records) /\ p.observer \in Ids(in),
         \A p, q \in pairs : p.asset = q.asset \/ p.observer = q.observer => p = q
  PROVE  LET new == ClaimPairs(in, done, pairs)
         IN  /\ Tidy(new) /\ Accounted(new, pairs)
             /\ \A d \in new.decisions : d.class \notin LeftOver /\ (d.review \/ d.observers = {})
             /\ \A p \in pairs : p.asset \in new.assets /\ p.observer \in new.observers
<1> DEFINE free == FreePairs(done, pairs)
           new == ClaimPairs(in, done, pairs)
<1>1. /\ new.decisions = done.decisions \cup {PairDecision(in, p) : p \in free}
      /\ new.assets = done.assets \cup {p.asset : p \in pairs}
      /\ new.observers = done.observers \cup {p.observer : p \in pairs}
  BY DEF ClaimPairs
<1>2. \A p \in pairs : p \in free <=> p.asset \notin done.assets /\ p.observer \notin done.observers
  BY DEF FreePairs
<1>3. \A p \in free : p \in pairs
  BY DEF FreePairs
<1> HIDE DEF free, new
<1>4. \A d \in new.decisions : d \in done.decisions \/ \E p \in free : d = PairDecision(in, p)
  BY <1>1
<1>5. \A p \in free : /\ PairDecision(in, p) \in new.decisions
                      /\ PairDecision(in, p).assets = {p.asset}
                      /\ PairDecision(in, p).observers = {}
                      /\ PairDecision(in, p).class \notin LeftOver
  BY <1>1, <1>3, PairSubject
<1>6. \A d \in done.decisions : d.assets \subseteq done.assets /\ d.observers \subseteq done.observers
  BY DEF Contested, Tidy
<1>7. Apart(new.decisions)
  <2> SUFFICES ASSUME NEW d \in new.decisions, NEW e \in new.decisions
               PROVE  /\ \A a \in d.assets : a \in e.assets => d = e
                      /\ \A id \in d.observers : id \in e.observers => d = e
    BY DEF Apart
  <2>1. CASE d \in done.decisions /\ e \in done.decisions
    BY <2>1 DEF Contested, Tidy, Apart
  <2>2. ASSUME NEW p \in free, d = PairDecision(in, p), e \in done.decisions
        PROVE  /\ \A a \in d.assets : a \notin e.assets
               /\ \A id \in d.observers : id \notin e.observers
    BY <1>2, <1>3, <1>5, <1>6, <2>2
  <2>3. ASSUME NEW p \in free, e = PairDecision(in, p), d \in done.decisions
        PROVE  /\ \A a \in d.assets : a \notin e.assets
               /\ \A id \in d.observers : id \notin e.observers
    BY <1>2, <1>3, <1>5, <1>6, <2>3
  <2>4. ASSUME NEW p \in free, NEW q \in free, d = PairDecision(in, p), e = PairDecision(in, q)
        PROVE  /\ \A a \in d.assets : a \in e.assets => d = e
               /\ \A id \in d.observers : id \in e.observers => d = e
    <3>1. p.asset = q.asset \/ p.observer = q.observer => p = q
      BY <1>3
    <3> QED
      BY <1>5, <2>4, <3>1
  <2> QED
    BY <1>4, <2>1, <2>2, <2>3, <2>4
<1>8. Tidy(new)
  BY <1>1, <1>3, <1>4, <1>5, <1>6, <1>7 DEF Tidy
<1>9. /\ \A a \in done.assets : \E d \in done.decisions : a \in d.assets
      /\ \A id \in done.observers : \E d \in done.decisions : id \in d.observers
      /\ \A d \in done.decisions : d.blocked /\ d \in new.decisions
  BY <1>1 DEF Contested, Accounted, Blocking
<1>10. Accounted(new, pairs)
  <2>1. ASSUME NEW a \in new.assets
        PROVE  \/ \E d \in new.decisions : a \in d.assets
               \/ \E p \in pairs : p.asset = a /\ \E d \in new.decisions : d.blocked /\ p.observer \in d.observers
    <3>1. CASE a \in done.assets
      BY <1>9, <3>1
    <3>2. ASSUME NEW p \in pairs, a = p.asset, a \notin done.assets
          PROVE  \/ \E d \in new.decisions : a \in d.assets
                 \/ \E d \in new.decisions : d.blocked /\ p.observer \in d.observers
      <4>1. CASE p \in free
        BY <1>5, <3>2, <4>1
      <4>2. CASE p \notin free
        BY <1>2, <1>9, <3>2, <4>2
      <4> QED
        BY <4>1, <4>2
    <3> QED
      BY <1>1, <3>1, <3>2
  <2>2. ASSUME NEW id \in new.observers
        PROVE  \/ \E d \in new.decisions : id \in d.observers
               \/ \E p \in pairs : p.observer = id /\ \E d \in new.decisions : p.asset \in d.assets
    <3>1. CASE id \in done.observers
      BY <1>9, <3>1
    <3>2. ASSUME NEW p \in pairs, id = p.observer, id \notin done.observers
          PROVE  \/ \E d \in new.decisions : id \in d.observers
                 \/ \E d \in new.decisions : p.asset \in d.assets
      <4>1. CASE p \in free
        BY <1>5, <3>2, <4>1
      <4>2. CASE p \notin free
        BY <1>2, <1>9, <3>2, <4>2
      <4> QED
        BY <4>1, <4>2
    <3> QED
      BY <1>1, <3>1, <3>2
  <2> QED
    BY <2>1, <2>2 DEF Accounted
<1>11. \A d \in new.decisions : d.class \notin LeftOver /\ (d.review \/ d.observers = {})
  BY <1>4, <1>5 DEF Contested, Blocking
<1> QED
  BY <1>1, <1>8, <1>10, <1>11 DEF new

\* The snapshot and the observations that a plan is made from.
Sound(in) ==
    /\ Validated(in)
    /\ IsFiniteSet(in.observations)
    /\ Registered(in.records) \subseteq Assets

\* classify_reconciliation() decides everything once, or uses it up with a match
\* whose other end is in an item that blocks proposals.
LEMMA ClassifyDecides ==
  ASSUME NEW in, Sound(in)
  PROVE  LET matching == Matching(in)
             D == Classify(in, matching)
             done == [decisions |-> D, assets |-> Registered(in.records), observers |-> Ids(in)]
         IN  /\ Apart(D)
             /\ Accounted(done, matching.pairs)
             /\ Honest(D, matching.pairs)
             /\ \A d \in D : d.review \/ d.observers = {}
<1> DEFINE matching == Matching(in)
           pairs == matching.pairs
           proven == ClaimAll(NothingDone, EvidenceConflicts(in))
           conflicts == ClaimConflicts(proven, matching.conflicts)
           paths == ClaimAll(conflicts, DuplicatePaths(in))
           claims == ClaimAll(ClaimAll(paths, AmbiguousClaims(in)), UnknownClaims(in))
           paired == ClaimPairs(in, claims, pairs)
           left == ClaimAll(paired, UnseenRecords(in, paired))
           all == ClaimAll(left, NewObservations(in, left))
<1>1. Classify(in, matching) = all.decisions
  BY DEF Classify
<1>2. Validated(in) /\ IdsUnique(in)
  BY DEF Sound, Validated, IdsUnique
<1>3. /\ \A p \in pairs : p.asset \in Registered(in.records) /\ p.observer \in Ids(in)
      /\ \A p, q \in pairs : p.asset = q.asset \/ p.observer = q.observer => p = q
      /\ IsFiniteSet(matching.conflicts)
  <2>1. IsFiniteSet(matching.conflicts)
    BY ConflictsFinite DEF Sound
  <2>2. OwnershipHolds(matching)
    BY <1>2, MatchingOwns
  <2> QED
    BY <1>2, <2>1, <2>2, MatchingGiven DEF OwnershipHolds
<1> HIDE DEF matching
<1>4. Contested(NothingDone)
  BY DEF NothingDone, Contested, Tidy, Apart, Accounted, Blocking
<1>5. Contested(proven)
  BY <1>4, EvidenceApart, ClaimAllContested
<1> HIDE DEF proven
<1>6. Contested(conflicts)
  BY <1>3, <1>5, ConflictsContested
<1> HIDE DEF conflicts
<1>7. Contested(paths)
  BY <1>2, <1>6, DuplicatesApart, ClaimAllContested
<1> HIDE DEF paths
<1>8. Contested(claims)
  <2>1. Contested(ClaimAll(paths, AmbiguousClaims(in)))
    BY <1>2, <1>7, AmbiguousApart, ClaimAllContested
  <2> QED
    BY <2>1, UnknownApart, ClaimAllContested
<1> HIDE DEF claims
<1>9. /\ Tidy(paired) /\ Accounted(paired, pairs)
      /\ \A d \in paired.decisions : d.class \notin LeftOver /\ (d.review \/ d.observers = {})
      /\ \A p \in pairs : p.asset \in paired.assets /\ p.observer \in paired.observers
  BY <1>3, <1>8, ClaimPairsKeeps
<1> HIDE DEF paired, pairs
<1>10. /\ Tidy(left) /\ Accounted(left, pairs)
       /\ left.decisions \subseteq paired.decisions \cup UnseenRecords(in, paired)
       /\ paired.assets \subseteq left.assets /\ paired.observers \subseteq left.observers
       /\ \A d \in UnseenRecords(in, paired) : Unclaimed(paired, d) => d.assets \subseteq left.assets
  BY <1>2, <1>9, LeftApart, ClaimAllKeeps
<1>11. Registered(in.records) \subseteq left.assets
  <2> SUFFICES ASSUME NEW r \in in.records, r.asset \notin paired.assets PROVE r.asset \in left.assets
    BY <1>10 DEF Registered
  <2> DEFINE class == IF ExpectedObservable(r, in.scope) THEN "record_not_observed" ELSE "insufficient_scope"
  <2>1. Decided({r.asset}, {}, class) \in UnseenRecords(in, paired)
    BY DEF UnseenRecords
  <2> HIDE DEF class
  <2>2. Unclaimed(paired, Decided({r.asset}, {}, class)) /\ Decided({r.asset}, {}, class).assets = {r.asset}
    BY DEF Unclaimed, Decided, Decision
  <2> QED
    BY <1>10, <2>1, <2>2
<1> HIDE DEF left
<1>12. /\ Tidy(all) /\ Accounted(all, pairs)
       /\ all.decisions \subseteq left.decisions \cup NewObservations(in, left)
       /\ left.assets \subseteq all.assets /\ left.observers \subseteq all.observers
       /\ \A d \in NewObservations(in, left) : Unclaimed(left, d) => d.observers \subseteq all.observers
  BY <1>10, LeftApart, ClaimAllKeeps
<1>13. Ids(in) \subseteq all.observers
  <2> SUFFICES ASSUME NEW o \in in.observations, o.id \notin left.observers PROVE o.id \in all.observers
    BY <1>12 DEF Ids
  <2> DEFINE d == Decided({}, {o.id}, "new_unregistered_observation")
  <2>1. d \in NewObservations(in, left)
    BY DEF NewObservations
  <2>2. Unclaimed(left, d) /\ d.observers = {o.id}
    BY DEF Unclaimed, Decided, Decision
  <2> QED
    BY <1>12, <2>1, <2>2
<1> HIDE DEF all
<1>14. Apart(all.decisions)
  BY <1>12 DEF Tidy
<1>15. Accounted([decisions |-> all.decisions, assets |-> Registered(in.records), observers |-> Ids(in)], pairs)
  BY <1>11, <1>12, <1>13 DEF Accounted
<1>16. \A d \in UnseenRecords(in, paired) : d.observers = {} /\ \A a \in d.assets : a \notin paired.assets
  <2> TAKE d \in UnseenRecords(in, paired)
  <2>1. PICK r \in in.records : r.asset \notin paired.assets /\ \E class : d = Decided({r.asset}, {}, class)
    BY DEF UnseenRecords
  <2> QED
    BY <2>1 DEF Decided, Decision
<1>17. \A d \in NewObservations(in, left) : d.review /\ d.assets = {} /\ \A id \in d.observers : id \notin left.observers
  <2> TAKE d \in NewObservations(in, left)
  <2>1. PICK id : d = Decided({}, {id}, "new_unregistered_observation") /\ id \notin left.observers
    BY DEF NewObservations
  <2>2. "new_unregistered_observation" \in ReviewByDefault
    BY DEF ReviewByDefault
  <2> QED
    BY <2>1, <2>2 DEF Decided, Decision
<1>18. \A d \in all.decisions :
          d \in paired.decisions \/ d \in UnseenRecords(in, paired) \/ d \in NewObservations(in, left)
  BY <1>10, <1>12
<1>19. Honest(all.decisions, pairs)
  <2> SUFFICES ASSUME NEW d \in all.decisions, d.class \in LeftOver, NEW p \in pairs
               PROVE  p.asset \notin d.assets /\ p.observer \notin d.observers
    BY DEF Honest
  <2>1. p.asset \in paired.assets /\ p.observer \in left.observers
    BY <1>9, <1>10
  <2> QED
    BY <1>9, <1>16, <1>17, <1>18, <2>1
<1>20. \A d \in all.decisions : d.review \/ d.observers = {}
  BY <1>9, <1>16, <1>17, <1>18
<1> QED
  BY <1>1, <1>14, <1>15, <1>19, <1>20 DEF matching, pairs

----------------------------------------------------------------------------
(* Plans *)

\* A plan is what the planner makes of the captured snapshot and observations,
\* and nothing is captured any more once it is there.
PlanInv ==
    /\ IsFiniteSet(observations)
    /\ Registered(registry) \subseteq Assets
    /\ records # None => Registered(records) \subseteq Assets
    /\ captured # None => records # None
    /\ plan # None =>
        /\ captured # None
        /\ outcome # None
        /\ \E scope \in ScopeChoices : Sound(Input(scope)) /\ plan = Plan(Input(scope))

\* A row that is inserted is of an asset, and one that is written is of one that was there.
LEMMA RegisteredStep ==
  ASSUME Registered(registry) \subseteq Assets, [Next]_vars
  PROVE  Registered(registry)' \subseteq Assets
<1>1. ASSUME NEW r, Update(r) PROVE Registered(registry)' \subseteq Assets
  BY <1>1 DEF Update, Registered
<1>2. ASSUME NEW a \in Assets, Register(a) PROVE Registered(registry)' \subseteq Assets
  BY <1>2 DEF Register, Insert, Records, Registered
<1>3. CASE UNCHANGED registry
  BY <1>3 DEF Registered
<1> QED
  BY <1>1, <1>2, <1>3
     DEF Next, vars, registryVars, callerVars, planVars, Initialize, InitializeRegistry, ReadRow, WriteBack, UpdateRow,
         CollectEvidence, EditFile, SnapshotRecords, SnapshotEvidence, Observe, PlanReconciliation

\* What a plan was made from does not change.
LEMMA PlanStep ==
  ASSUME PlanInv, [Next]_vars
  PROVE  PlanInv'
<1>1. Registered(registry)' \subseteq Assets
  BY RegisteredStep DEF PlanInv
<1>2. CASE UNCHANGED planVars
  BY <1>1, <1>2 DEF PlanInv, planVars, Input
<1>3. CASE SnapshotRecords
  BY <1>1, <1>3 DEF SnapshotRecords, ListRecords, PlanInv, registryVars
<1>4. CASE SnapshotEvidence
  BY <1>1, <1>4 DEF SnapshotEvidence, PlanInv
<1>5. ASSUME NEW id \in Observers, Observe(id)
      PROVE  PlanInv'
  <2>1. PICK o : observations' = observations \cup {o}
    BY <1>5 DEF Observe
  <2>2. IsFiniteSet(observations')
    BY <2>1, FS_AddElement DEF PlanInv
  <2> QED
    BY <1>1, <1>5, <2>2 DEF Observe, PlanInv
<1>6. CASE PlanReconciliation
  <2>1. PICK scope \in ScopeChoices :
            /\ outcome' = Reconcile(Input(scope))
            /\ plan' = IF Reconcile(Input(scope)) = "planned" THEN Plan(Input(scope)) ELSE None
    BY <1>6 DEF PlanReconciliation
  <2>2. UNCHANGED <<records, captured, observations>> /\ captured # None
    BY <1>6 DEF PlanReconciliation
  <2>3. Input(scope)' = Input(scope)
    BY <2>2 DEF Input
  <2>4. CASE Reconcile(Input(scope)) = "planned"
    <3>1. Validated(Input(scope))
      BY <2>4 DEF Reconcile
    <3>2. Sound(Input(scope))
      BY <2>2, <3>1 DEF Sound, PlanInv, Input
    <3>3. outcome' # None
      BY <2>1, <2>4, OutcomeAssumption
    <3> QED
      BY <1>1, <2>1, <2>2, <2>3, <2>4, <3>2, <3>3 DEF PlanInv
  <2>5. CASE Reconcile(Input(scope)) # "planned"
    BY <1>1, <2>1, <2>2, <2>5 DEF PlanInv
  <2> QED
    BY <2>4, <2>5
<1> QED
  BY <1>2, <1>3, <1>4, <1>5, <1>6
     DEF Next, vars, planVars, Initialize, Register, ReadRow, WriteBack, UpdateRow, CollectEvidence, EditFile

\* What the properties say of the matching is true of that of the plan.
LEMMA PlanIsMatched ==
  ASSUME PlanInv, plan # None
  PROVE  \E in : /\ Sound(in) /\ Matched = Matching(in) /\ plan.items = Classify(in, Matching(in))
                 /\ in.records = records /\ in.observations = observations /\ in.trusted = Trusted
<1>1. PICK scope \in ScopeChoices : Sound(Input(scope)) /\ plan = Plan(Input(scope))
  BY DEF PlanInv
<1>2. Matched = Matching(Input(scope))
  BY <1>1 DEF Matched, Plan, PlanOf
<1>3. plan.items = Classify(Input(scope), Matching(Input(scope)))
  BY <1>1 DEF Plan, PlanOf
<1>4. Input(scope).records = records /\ Input(scope).observations = observations /\ Input(scope).trusted = Trusted
  BY DEF Input
<1> QED
  BY <1>1, <1>2, <1>3, <1>4

\* A plan decides every record and every observation it was given, and calls
\* none of them left over that was matched.
LEMMA PlanDecides == PlanInv => EverySubjectDecided
<1> SUFFICES ASSUME PlanInv, plan # None PROVE EverySubjectDecided
  BY DEF EverySubjectDecided
<1>1. PICK in : /\ Sound(in) /\ Matched = Matching(in) /\ plan.items = Classify(in, Matching(in))
                /\ in.records = records /\ in.observations = observations
  BY PlanIsMatched
<1> DEFINE D == plan.items
           pairs == Matched.pairs
           done == [decisions |-> D, assets |-> Registered(records), observers |-> Ids(in)]
<1>2. Apart(D) /\ Accounted(done, pairs) /\ Honest(D, pairs)
  BY <1>1, ClassifyDecides
<1>3. \A o \in observations : o.id \in Ids(in)
  BY <1>1 DEF Ids
<1> HIDE DEF D, pairs
<1>4. /\ \A a : ItemsOn(a) = {d \in D : a \in d.assets}
      /\ \A id : ItemsOf(id) = {d \in D : id \in d.observers}
  BY DEF ItemsOn, ItemsOf, D
<1>5. \A d, e \in D : d # e => d.assets \cap e.assets = {} /\ d.observers \cap e.observers = {}
  BY <1>2 DEF Apart
<1>6. ASSUME NEW a \in Registered(records), ItemsOn(a) = {}
      PROVE  \E m \in pairs : m.asset = a /\ OtherEndBlocked(ItemsOf(m.observer))
  BY <1>2, <1>4, <1>6 DEF Accounted, OtherEndBlocked
<1>7. ASSUME NEW o \in observations, ItemsOf(o.id) = {}
      PROVE  \E m \in pairs : m.observer = o.id /\ ItemsOn(m.asset) # {}
  BY <1>2, <1>3, <1>4, <1>7 DEF Accounted
<1>8. \A m \in pairs, d \in D :
        d.class \in LeftOver => m.asset \notin d.assets /\ m.observer \notin d.observers
  BY <1>2 DEF Honest
<1> QED
  BY <1>5, <1>6, <1>7, <1>8 DEF EverySubjectDecided, D, pairs

\* At first nothing is captured.
LEMMA PlanInit == Init => PlanInv
BY FS_EmptySet DEF Init, RegistryInit, PlanInv, Registered

\* _verify_slice7_ownership_invariants() never raises, for any snapshot, any
\* observations and any scope that validation lets through, and what strong
\* identity matched is in no conflict of the passes before either.
THEOREM NeverBreaks == Spec => []MatchingNeverBreaks
<1>1. ASSUME NEW in
      PROVE  Reconcile(in) # "broken"
  <2>1. Validated(in) => OwnershipHolds(Matching(in))
    BY MatchingOwns DEF Validated, IdsUnique
  <2> QED
    BY <2>1 DEF Reconcile
<1>2. Init => outcome # "broken"
  BY OutcomeAssumption DEF Init
<1>3. outcome # "broken" /\ [Next]_vars => (outcome # "broken")'
  BY <1>1 DEF Next, vars, planVars, callerVars, Initialize, Register, ReadRow, WriteBack, UpdateRow,
         CollectEvidence, EditFile, SnapshotRecords, SnapshotEvidence, Observe, PlanReconciliation
<1>4. ASSUME PlanInv, plan # None
      PROVE  IdentityApart(Matched, Matched.conflicts)
  <2>1. PICK in : Sound(in) /\ Matched = Matching(in)
    BY <1>4, PlanIsMatched
  <2> QED
    BY <2>1, MatchingOwns DEF Sound, Validated, IdsUnique
<1>5. PlanInv /\ outcome # "broken" => MatchingNeverBreaks
  BY <1>4 DEF MatchingNeverBreaks
<1> QED
  BY <1>2, <1>3, <1>5, PlanInit, PlanStep, PTL DEF Spec

\* classify_reconciliation(): however the conflicts, duplicate paths and matches
\* overlap, nothing that was given is decided twice, and nothing is in no item
\* but the end of a match whose other end is in one.
THEOREM SubjectsDecided == Spec => []EverySubjectDecided
BY PlanInit, PlanStep, PlanDecides, PTL DEF Spec

\* A trusted observation that is matched at all is matched to what it claims.
LEMMA TrustedMatch ==
  ASSUME NEW in, Validated(in), NEW o \in in.observations, o.source \in in.trusted, o.claim # None,
         NEW p \in Matching(in).pairs, p.observer = o.id
  PROVE  p.asset = o.claim
<1> DEFINE trusted == TrustedCandidates(in)
           byPath == PathCandidates(in)
           proposed == AuthoritativePairs(in)
           pairs == KeptPairs(proposed)
           conflicts == AuthoritativeConflicts(in) \cup RivalConflicts(proposed)
           candidates == CandidatePairs(in, conflicts)
           t == <<o.claim, o.id>>
<1>1. \A q \in in.observations : q.id = o.id => q = o
  BY DEF Validated
<1>2. \A c \in trusted : c[2] = o.id => c = t
  BY <1>1 DEF TrustedCandidates, Unblocked
<1>3. o \in Unblocked(in) => t \in trusted
  BY DEF TrustedCandidates
<1>4. \A c \in byPath : c[2] = o.id => o \in Unblocked(in)
  <2> TAKE c \in byPath
  <2>1. PICK q \in Unblocked(in) : c = <<CHOOSE a \in RecordsAt(in, q.path) : TRUE, q.id>>
    BY DEF PathCandidates
  <2> QED
    BY <1>1, <2>1 DEF Unblocked
<1>5. \A c \in candidates : c[2] = o.id => o \in Unblocked(in) /\ o.id \notin ObserversIn(conflicts)
  <2> TAKE c \in candidates
  <2> HIDE DEF conflicts
  <2>1. PICK k \in Keys : c \in Eligible(in, conflicts, k).assets \X Eligible(in, conflicts, k).observers
    BY DEF CandidatePairs
  <2>2. c[2] \notin ObserversIn(conflicts) /\ \E q \in Unblocked(in) : c[2] = q.id
    BY <2>1 DEF Eligible
  <2>3. PICK q \in Unblocked(in) : c[2] = q.id
    BY <2>2
  <2>4. q \in in.observations
    BY DEF Unblocked
  <2> QED
    BY <1>1, <2>2, <2>3, <2>4
<1>6. \A q \in proposed : q.observer = o.id => q.asset = o.claim
  BY <1>2, <1>3, <1>4 DEF AuthoritativePairs, Pair
<1>7. ASSUME t \in trusted, o.id \notin ObserversIn(conflicts)
      PROVE  \E q \in pairs : q.observer = o.id
  <2>1. \A c \in byPath : c[2] = o.id => c[1] = o.claim
    <3> SUFFICES ASSUME NEW c \in byPath, c[2] = o.id, c[1] # o.claim PROVE FALSE
      OBVIOUS
    <3> DEFINE conflict == Conflict("authoritative_identity", {o.claim, c[1]}, {o.id})
    <3>1. conflict \in AuthoritativeConflicts(in)
      <4> DEFINE both == <<t, c>>
      <4>1. both \in TrustedCandidates(in) \X PathCandidates(in) /\ both[1][2] = both[2][2] /\ both[1][1] # both[2][1]
        BY <1>7
      <4>2. conflict = Conflict("authoritative_identity", {both[1][1], both[2][1]}, {both[1][2]})
        OBVIOUS
      <4> HIDE DEF both, conflict
      <4> QED
        BY <4>1, <4>2 DEF AuthoritativeConflicts
    <3>2. o.id \in conflict.observers
      BY DEF Conflict
    <3> QED
      BY <1>7, <3>1, <3>2 DEF ObserversIn
  <2>2. \E q \in proposed : q.observer = o.id
    <3>0. \A kind : Pair(t[1], t[2], kind).observer = o.id
      BY DEF Pair
    <3>1. CASE t \in byPath
      <4>1. Pair(t[1], t[2], "trusted_asset_id_and_exact_path") \in proposed
        BY <1>7, <3>1 DEF AuthoritativePairs
      <4> QED
        BY <3>0, <4>1
    <3>2. CASE t \notin byPath
      <4>1. \A c \in byPath : c[2] # o.id
        BY <2>1, <3>2, PathGiven DEF Given
      <4>2. Pair(t[1], t[2], "trusted_asset_id") \in proposed
        BY <1>7, <4>1 DEF AuthoritativePairs
      <4> QED
        BY <3>0, <4>2
    <3> QED
      BY <3>1, <3>2
  <2>3. PICK q \in proposed : q.observer = o.id
    BY <2>2
  <2>4. q \in pairs
    <3> SUFFICES ASSUME q \notin pairs PROVE FALSE
      OBVIOUS
    <3> DEFINE conflict == Conflict("authoritative_identity", {q.asset}, {r.observer : r \in Rivals(proposed, q)})
    <3>1. conflict \in RivalConflicts(proposed)
      BY DEF RivalConflicts
    <3>2. o.id \in conflict.observers
      BY <2>3 DEF Conflict, Rivals
    <3> QED
      BY <1>7, <3>1, <3>2 DEF ObserversIn
  <2> QED
    BY <2>3, <2>4
<1>8. \/ p \in pairs
      \/ \E c \in candidates : Touching(pairs, c) = {} /\ p = Pair(c[1], c[2], "unique_strong_identity")
  BY DEF Matching
<1>9. CASE p \in pairs
  BY <1>6, <1>9, KeptUnique
<1>10. ASSUME NEW c \in candidates, Touching(pairs, c) = {}, p = Pair(c[1], c[2], "unique_strong_identity")
       PROVE  FALSE
  <2>1. c[2] = o.id
    BY <1>10 DEF Pair
  <2>2. \E q \in pairs : q.observer = o.id
    BY <1>3, <1>5, <1>7, <2>1
  <2> QED
    BY <1>10, <2>1, <2>2 DEF Touching
<1> QED
  BY <1>8, <1>9, <1>10

\* A plan follows what trusted sources claim, or asks for review.
LEMMA PlanFollows == PlanInv => TrustedClaimDecides
<1> SUFFICES ASSUME PlanInv, plan # None, NEW o \in observations, o.source \in Trusted, o.claim # None
             PROVE  /\ \A m \in Matched.pairs : m.observer = o.id => m.asset = o.claim
                    /\ \A d \in ItemsOf(o.id) : d.review
  BY DEF TrustedClaimDecides
<1>1. PICK in : /\ Sound(in) /\ Matched = Matching(in) /\ plan.items = Classify(in, Matching(in))
                /\ in.observations = observations /\ in.trusted = Trusted
  BY PlanIsMatched
<1>2. \A m \in Matched.pairs : m.observer = o.id => m.asset = o.claim
  BY <1>1, TrustedMatch DEF Sound
<1>3. \A d \in plan.items : d.review \/ d.observers = {}
  BY <1>1, ClassifyDecides
<1> QED
  BY <1>2, <1>3 DEF ItemsOf

\* An observation of a trusted source is matched to the record it names or to
\* none, and what a plan says of the observation itself needs review, whatever
\* paths, keys and other observations say.
THEOREM ClaimsFollowed == Spec => []TrustedClaimDecides
BY PlanInit, PlanStep, PlanFollows, PTL DEF Spec

=============================================================================
