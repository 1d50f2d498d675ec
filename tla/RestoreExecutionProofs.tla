----------------------- MODULE RestoreExecutionProofs -----------------------
(***************************************************************************)
(* Theorems about RestoreExecution for any generations, backups, sidecars  *)
(* and number of attempts.                                                 *)
(*                                                                         *)
(* The inductive invariant IInv says where in the order of its kind an     *)
(* attempt can be, and which mutation is announced or made at each place:  *)
(* the journal runs ahead of every mutation, and tells the live objects.   *)
(* Watch adds what was checked for the next mutation, Settled what a quiet *)
(* attempt has done by each place: it takes only what it captured, loses   *)
(* nothing, and refuses nothing that was fit.                              *)
(***************************************************************************)
EXTENDS RestoreExecution, FiniteSetTheorems, WellFoundedInduction, TLAPS

MutationKinds == {"DB_REPLACE", "CONFIG_RENAME_ASIDE", "CONFIG_INSTALL", "DISPOSITION"}

\* The step that makes a mutation, and the places where it is announced and
\* not made yet.
StepOf ==
    [DB_REPLACE |-> "ReplaceDatabase", CONFIG_RENAME_ASIDE |-> "RenameAside",
     CONFIG_INSTALL |-> "InstallConfig", DISPOSITION |-> "Dispose"]
CheckOf ==
    [DB_REPLACE |-> "CheckDatabase", CONFIG_RENAME_ASIDE |-> "CheckConfig",
     CONFIG_INSTALL |-> "CheckVacant", DISPOSITION |-> "CheckDisposal"]

MutationSteps == {"ReplaceDatabase", "RenameAside", "InstallConfig", "Dispose"}

\* Only a disposition can be of more than one path.
Concerns(m, t) == m[1] = "DISPOSITION" => m[2] = t

\* At place p, with path t in hand: m is announced; m is made, not confirmed.
Announced(m, p, t) == p \in {StepOf[m[1]], CheckOf[m[1]]} /\ Concerns(m, t)
Made(m, p, t) == p = CompletionState[m[1]] /\ Concerns(m, t)

\* The attempt ended or has only its last transition to record.
Over(p) == p \in Failures \cup {"idle"}

Order(k) == IF k = "restore" THEN DOMAIN RestoreOrder ELSE DOMAIN RecoveryOrder

\* An attempt is in the order of its kind.
OrderShape == ~ Over(pc) => pc \in Order(kind) \cup {"VERIFIED_SUCCESS"}

\* All transitions of a running attempt are sealed.
SealedShape == pc # "idle" => \A i \in DOMAIN journal : journal[i].sealed

\* What the journal and the history say of each mutation while an attempt runs.
JournalShape ==
    ~ Over(pc) => \A m \in Mutations :
        /\ m \in Intended(journal) <=> m \in done \/ Announced(m, pc, handling)
        /\ m \in done <=> m \in Confirmed(journal) \/ Made(m, pc, handling)

IInv == TypeOK /\ OrderShape /\ SealedShape /\ JournalShape

----------------------------------------------------------------------------
(* The order of steps and transitions.                                     *)

\* Every failure state and every place of an order is a place, and transitions,
\* steps and failures are apart.
LEMMA PlacesApart ==
  /\ DOMAIN RestoreOrder \subseteq Steps \cup States
  /\ DOMAIN RecoveryOrder \subseteq Steps \cup States
  /\ Failures \subseteq States
  /\ "VERIFIED_SUCCESS" \in States
  /\ Failures \cap (DOMAIN RestoreOrder \cup DOMAIN RecoveryOrder \cup Steps \cup {"VERIFIED_SUCCESS"}) = {}
  /\ "idle" \notin Steps \cup States
  /\ States \cap Steps = {}
  BY DEF Steps, States, Failures, RestoreOrder, RecoveryOrder, FailureState

\* The orders lead from place to place of the same order.
LEMMA OrdersLead ==
  /\ \A p \in DOMAIN RestoreOrder : RestoreOrder[p] \in DOMAIN RestoreOrder \cup {"VERIFIED_SUCCESS"}
  /\ \A p \in DOMAIN RecoveryOrder : RecoveryOrder[p] \in DOMAIN RecoveryOrder \cup {"VERIFIED_SUCCESS"}
  BY DEF RestoreOrder, RecoveryOrder

\* So does an attempt.
LEMMA AfterLeads ==
  ASSUME kind \in {"restore", "recovery"}, NEW p \in Order(kind), ~ Over(p)
  PROVE  /\ After(p) \in Order(kind) \cup {"VERIFIED_SUCCESS"}
         /\ ~ Over(After(p))
  <1>1. p \notin Failures \cup {"VERIFIED_SUCCESS"}
    BY DEF Over, Order, RestoreOrder, RecoveryOrder
  <1>2. "CONFIG_INSTALL_INTENT" \in DOMAIN RecoveryOrder
    BY DEF RecoveryOrder
  <1>3. After(p) \in Order(kind) \cup {"VERIFIED_SUCCESS"}
    <2>1. CASE kind = "restore"
      <3>1. After(p) = RestoreOrder[p]
        BY <1>1, <2>1 DEF After, ConfigVacant
      <3>2. QED
        BY <2>1, <3>1, OrdersLead DEF Order
    <2>2. CASE kind = "recovery"
      <3>1. After(p) \in {RecoveryOrder[p], "CONFIG_INSTALL_INTENT"}
        BY <1>1, <2>2 DEF After
      <3>2. QED
        BY <1>2, <2>2, <3>1, OrdersLead DEF Order
    <2>3. QED
      BY <2>1, <2>2
  <1>4. QED
    BY <1>3, PlacesApart DEF Over, Order

\* From a transition an attempt goes to where the mutation it announces is made
\* or checked, and nowhere where another one is.
LEMMA AfterTransition ==
  ASSUME kind \in {"restore", "recovery"}, NEW p \in Order(kind) \cap States, ~ Over(p),
         NEW k \in MutationKinds
  PROVE  /\ After(p) \in {StepOf[k], CheckOf[k]} <=> p = IntentState[k]
         /\ After(p) # CompletionState[k]
  <1>1. p \notin Failures \cup {"VERIFIED_SUCCESS"}
    BY DEF Over, Order, RestoreOrder, RecoveryOrder
  <1>2. p \notin Steps
    BY PlacesApart
  <1>3. CASE kind = "restore"
    BY <1>1, <1>2, <1>3
    DEF After, ConfigVacant, Order, MutationKinds, StepOf, CheckOf, IntentState, CompletionState,
        RestoreOrder, Steps, FailureState
  <1>4. CASE kind = "recovery" /\ p = "DB_REPLACED" /\ ConfigVacant
    BY <1>1, <1>4 DEF After, MutationKinds, StepOf, CheckOf, IntentState, CompletionState
  <1>5. CASE kind = "recovery" /\ ~ (p = "DB_REPLACED" /\ ConfigVacant)
    <2>1. After(p) = RecoveryOrder[p]
      BY <1>1, <1>5 DEF After
    <2>2. QED
      BY <2>1, <1>2, <1>5
      DEF Order, MutationKinds, StepOf, CheckOf, IntentState, CompletionState,
          RecoveryOrder, Steps, FailureState
  <1>6. QED
    BY <1>3, <1>4, <1>5

\* From a step that makes nothing, it goes to where the same mutation is announced.
LEMMA AfterCheck ==
  ASSUME kind \in {"restore", "recovery"}, NEW p \in Order(kind) \cap Steps, p \notin MutationSteps,
         NEW k \in MutationKinds
  PROVE  /\ After(p) \in {StepOf[k], CheckOf[k]} <=> p \in {StepOf[k], CheckOf[k]}
         /\ After(p) # CompletionState[k]
  <1>1. p \notin Failures \cup {"VERIFIED_SUCCESS", "DB_REPLACED"}
    BY PlacesApart DEF Steps, FailureState
  <1>2. CASE kind = "restore"
    BY <1>1, <1>2
    DEF After, Order, MutationKinds, MutationSteps, StepOf, CheckOf, CompletionState,
        RestoreOrder, Steps, FailureState
  <1>3. CASE kind = "recovery"
    BY <1>1, <1>3
    DEF After, Order, MutationKinds, MutationSteps, StepOf, CheckOf, CompletionState,
        RecoveryOrder, Steps, FailureState
  <1>4. QED
    BY <1>2, <1>3

\* From a mutation it goes to its confirmation.
LEMMA AfterMutation ==
  ASSUME kind \in {"restore", "recovery"}, NEW j \in MutationKinds, StepOf[j] \in Order(kind),
         NEW k \in MutationKinds
  PROVE  /\ After(StepOf[j]) \notin {StepOf[k], CheckOf[k]}
         /\ After(StepOf[j]) = CompletionState[k] <=> k = j
  <1>1. StepOf[j] \notin Failures \cup {"VERIFIED_SUCCESS", "DB_REPLACED"}
    BY PlacesApart DEF Order, StepOf, MutationKinds
  <1>2. CASE kind = "restore"
    BY <1>1, <1>2
    DEF After, Order, MutationKinds, StepOf, CheckOf, CompletionState, RestoreOrder
  <1>3. CASE kind = "recovery"
    BY <1>1, <1>3
    DEF After, Order, MutationKinds, StepOf, CheckOf, CompletionState, RecoveryOrder
  <1>4. QED
    BY <1>2, <1>3

----------------------------------------------------------------------------
(* The journal.                                                            *)

\* A sealed transition after sealed ones adds what it names and no more.
LEMMA SealedTransition ==
  ASSUME journal \in Seq([state : States, of : Targets, sealed : BOOLEAN]),
         \A i \in DOMAIN journal : journal[i].sealed,
         NEW s \in States, NEW t \in Targets, Publish(s, t, TRUE)
  PROVE  /\ \A i \in DOMAIN journal' : journal'[i].sealed
         /\ \A m \in Mutations :
              /\ m \in Intended(journal)' <=>
                    m \in Intended(journal) \/ (s = IntentState[m[1]] /\ Concerns(m, t))
              /\ m \in Confirmed(journal)' <=>
                    m \in Confirmed(journal) \/ (s = CompletionState[m[1]] /\ Concerns(m, t))
  <1> DEFINE e == [state |-> s, of |-> t, sealed |-> TRUE]
  <1>1. /\ Len(journal') = Len(journal) + 1
        /\ DOMAIN journal = 1 .. Len(journal) /\ DOMAIN journal' = 1 .. Len(journal) + 1
        /\ journal'[Len(journal) + 1] = e
        /\ \A i \in 1 .. Len(journal) : journal'[i] = journal[i]
        /\ Len(journal) \in Nat
    BY DEF Publish
  <1>2. \A i \in DOMAIN journal' : journal'[i].sealed
    BY <1>1
  <1>3. Trusted(journal) = DOMAIN journal /\ Trusted(journal)' = DOMAIN journal'
    BY <1>1, <1>2 DEF Trusted
  <1>4. ASSUME NEW m \in Mutations
        PROVE  /\ m \in Intended(journal)' <=>
                    m \in Intended(journal) \/ (s = IntentState[m[1]] /\ Concerns(m, t))
               /\ m \in Confirmed(journal)' <=>
                    m \in Confirmed(journal) \/ (s = CompletionState[m[1]] /\ Concerns(m, t))
    <2>1. \A role : Names(e, role, m) <=> s = role[m[1]] /\ Concerns(m, t)
      BY DEF Names, Concerns
    <2>2. m \in Intended(journal)' <=> \E i \in 1 .. Len(journal) + 1 : Names(journal'[i], IntentState, m)
      BY <1>1, <1>3 DEF Intended
    <2>3. m \in Intended(journal) <=> \E i \in 1 .. Len(journal) : Names(journal[i], IntentState, m)
      BY <1>1, <1>3 DEF Intended
    <2>4. m \in Confirmed(journal)' <=> \E i \in 1 .. Len(journal) + 1 : Names(journal'[i], CompletionState, m)
      BY <1>1, <1>3 DEF Confirmed
    <2>5. m \in Confirmed(journal) <=> \E i \in 1 .. Len(journal) : Names(journal[i], CompletionState, m)
      BY <1>1, <1>3 DEF Confirmed
    <2>6. m \in Intended(journal)' <=> m \in Intended(journal) \/ Names(e, IntentState, m)
      BY <1>1, <2>2, <2>3
    <2>7. m \in Confirmed(journal)' <=> m \in Confirmed(journal) \/ Names(e, CompletionState, m)
      BY <1>1, <2>4, <2>5
    <2>8. QED
      BY <2>1, <2>6, <2>7
  <1>5. QED
    BY <1>2, <1>4

\* A torn transition adds nothing to what a reader trusts.
LEMMA TornTransition ==
  ASSUME journal \in Seq([state : States, of : Targets, sealed : BOOLEAN]),
         NEW s \in States, NEW t \in Targets, Publish(s, t, FALSE)
  PROVE  Intended(journal)' = Intended(journal) /\ Confirmed(journal)' = Confirmed(journal)
  <1>1. /\ DOMAIN journal = 1 .. Len(journal) /\ DOMAIN journal' = 1 .. Len(journal) + 1
        /\ ~ journal'[Len(journal) + 1].sealed
        /\ \A i \in 1 .. Len(journal) : journal'[i] = journal[i]
        /\ Len(journal) \in Nat
    BY DEF Publish
  <1>2. Trusted(journal)' = Trusted(journal) /\ Trusted(journal) \subseteq 1 .. Len(journal)
    <2>1. ASSUME NEW i \in 1 .. Len(journal)
          PROVE  (\A k \in 1 .. i : journal'[k].sealed) <=> (\A k \in 1 .. i : journal[k].sealed)
      BY <1>1
    <2>2. ~ \A k \in 1 .. Len(journal) + 1 : journal'[k].sealed
      BY <1>1
    <2>3. QED
      BY <1>1, <2>1, <2>2 DEF Trusted
  <1>3. QED
    BY <1>1, <1>2 DEF Intended, Confirmed

----------------------------------------------------------------------------
(* How the shapes are kept, whatever the step is.                          *)

Shapes == OrderShape /\ SealedShape /\ JournalShape

\* The attempt ends, or has only its failure to record.
LEMMA Ends ==
  ASSUME IInv, pc # "idle", Over(pc'), UNCHANGED journal
  PROVE  Shapes' /\ pc' \in Places
  BY PlacesApart DEF IInv, Shapes, OrderShape, SealedShape, JournalShape, Over, Places

\* A running attempt is in its order.
LEMMA InOrder ==
  ASSUME IInv, pc \in Steps
  PROVE  pc \in Order(kind) \cap Steps /\ ~ Over(pc) /\ kind \in {"restore", "recovery"}
  BY PlacesApart DEF IInv, TypeOK, OrderShape, Over

\* A step that makes no mutation goes on.
LEMMA GoesOn ==
  ASSUME IInv, pc \in Steps \ MutationSteps, pc' = After(pc),
         UNCHANGED <<journal, done, kind, handling>>
  PROVE  Shapes' /\ pc' \in Places
  <1>1. pc \in Order(kind) \cap Steps /\ ~ Over(pc) /\ kind \in {"restore", "recovery"}
    BY InOrder
  <1>2. After(pc) \in Order(kind) \cup {"VERIFIED_SUCCESS"} /\ ~ Over(After(pc))
    BY <1>1, AfterLeads
  <1>3. OrderShape' /\ SealedShape' /\ pc' \in Places
    BY <1>1, <1>2, PlacesApart DEF IInv, OrderShape, SealedShape, Order, Places, Over
  <1>4. ASSUME NEW m \in Mutations
        PROVE  /\ Announced(m, pc', handling') <=> Announced(m, pc, handling)
               /\ ~ Made(m, pc', handling') /\ ~ Made(m, pc, handling)
    <2>1. m[1] \in MutationKinds
      BY <1>4 DEF Mutations, MutationKinds
    <2>2. pc # CompletionState[m[1]]
      BY <2>1, <1>1 DEF Steps, FailureState, CompletionState, MutationKinds
    <2>3. QED
      BY <1>1, <2>1, <2>2, AfterCheck DEF Announced, Made
  <1>5. JournalShape'
    BY <1>1, <1>4 DEF IInv, JournalShape, Intended, Confirmed, Trusted
  <1>6. QED
    BY <1>3, <1>5 DEF Shapes

\* A step of recovery that makes and checks no mutation may go elsewhere, and
\* take another path in hand.
LEMMA GoesElsewhere ==
  ASSUME IInv, pc \in {"Probe", "NextDisposition"}, kind = "recovery",
         pc' \in {"QUIESCENCE_NOT_APPLICABLE", "DISPOSITION_INTENT", "FINAL_STABILITY_INTENT"},
         UNCHANGED <<journal, done, kind>>
  PROVE  Shapes' /\ pc' \in Places
  <1>1. pc \in Steps
    BY DEF Steps, FailureState
  <1>2. ~ Over(pc)
    BY <1>1, InOrder
  <1>3. pc' \in DOMAIN RecoveryOrder
    BY DEF RecoveryOrder
  <1>4. OrderShape' /\ SealedShape' /\ pc' \in Places
    BY <1>2, <1>3, PlacesApart DEF IInv, OrderShape, SealedShape, Order, Places, Over
  <1>5. ASSUME NEW m \in Mutations
        PROVE  /\ ~ Announced(m, pc', handling') /\ ~ Announced(m, pc, handling)
               /\ ~ Made(m, pc', handling') /\ ~ Made(m, pc, handling)
    BY DEF Mutations, Announced, Made, StepOf, CheckOf, CompletionState
  <1>6. JournalShape'
    BY <1>2, <1>5 DEF IInv, JournalShape, Intended, Confirmed, Trusted
  <1>7. QED
    BY <1>4, <1>6 DEF Shapes

\* A mutation is made where it is announced.
LEMMA Makes ==
  ASSUME IInv, NEW k \in MutationKinds, pc = StepOf[k], pc' = After(pc),
         UNCHANGED <<journal, kind, handling>>,
         NEW t, <<k, t>> \in Mutations, k = "DISPOSITION" => t = handling,
         done' = done \cup {<<k, t>>}
  PROVE  Shapes' /\ pc' \in Places /\ <<k, t>> \in Intended(journal)
  <1>1. pc \in Steps
    BY DEF Steps, FailureState, StepOf, MutationKinds
  <1>2. pc \in Order(kind) \cap Steps /\ ~ Over(pc) /\ kind \in {"restore", "recovery"}
    BY <1>1, InOrder
  <1>3. After(pc) \in Order(kind) \cup {"VERIFIED_SUCCESS"} /\ ~ Over(After(pc))
    BY <1>2, AfterLeads
  <1>4. OrderShape' /\ SealedShape' /\ pc' \in Places
    BY <1>2, <1>3, PlacesApart DEF IInv, OrderShape, SealedShape, Order, Places, Over
  <1>5. ASSUME NEW m \in Mutations
        PROVE  /\ Announced(m, pc, handling) <=> m = <<k, t>>
               /\ Made(m, pc', handling') <=> m = <<k, t>>
               /\ ~ Announced(m, pc', handling') /\ ~ Made(m, pc, handling)
    <2>1. /\ m[1] \in MutationKinds
          /\ m[1] = k /\ Concerns(m, handling) <=> m = <<k, t>>
      BY <1>5 DEF Mutations, MutationKinds, Concerns
    <2>2. /\ pc # CompletionState[m[1]]
          /\ pc \in {StepOf[m[1]], CheckOf[m[1]]} <=> m[1] = k
      BY <2>1 DEF StepOf, CheckOf, CompletionState, MutationKinds
    <2>3. /\ After(pc) \notin {StepOf[m[1]], CheckOf[m[1]]}
          /\ After(pc) = CompletionState[m[1]] <=> m[1] = k
      BY <1>2, <2>1, AfterMutation
    <2>4. QED
      BY <2>1, <2>2, <2>3 DEF Announced, Made
  <1>6. Intended(journal)' = Intended(journal) /\ Confirmed(journal)' = Confirmed(journal)
    BY DEF Intended, Confirmed, Trusted
  <1>7. JournalShape' /\ <<k, t>> \in Intended(journal)
    BY <1>2, <1>5, <1>6 DEF IInv, JournalShape
  <1>8. QED
    BY <1>4, <1>7 DEF Shapes

\* A transition is recorded.
LEMMA Records ==
  ASSUME IInv, Record
  PROVE  Shapes' /\ pc' \in Places
  <1>1. pc # "idle" /\ pc \in States /\ pc' = After(pc) /\ Publish(pc, handling, TRUE)
    BY PlacesApart DEF Record, Proceed
  <1>2. UNCHANGED <<kind, handling, done>>
    BY DEF Record, attempt
  <1>3. /\ \A i \in DOMAIN journal' : journal'[i].sealed
        /\ \A m \in Mutations :
              /\ m \in Intended(journal)' <=>
                    m \in Intended(journal) \/ (pc = IntentState[m[1]] /\ Concerns(m, handling))
              /\ m \in Confirmed(journal)' <=>
                    m \in Confirmed(journal) \/ (pc = CompletionState[m[1]] /\ Concerns(m, handling))
    BY <1>1, SealedTransition DEF IInv, TypeOK, SealedShape
  <1>4. CASE pc \in Failures \cup {"VERIFIED_SUCCESS"}
    <2>1. pc' = "idle"
      BY <1>1, <1>4 DEF After
    <2>2. QED
      BY <2>1, <1>3 DEF Shapes, OrderShape, SealedShape, JournalShape, Over, Places
  <1>5. CASE pc \notin Failures \cup {"VERIFIED_SUCCESS"}
    <2>1. pc \in Order(kind) \cap States /\ ~ Over(pc) /\ kind \in {"restore", "recovery"}
      BY <1>1, <1>5 DEF IInv, TypeOK, OrderShape, Over
    <2>2. After(pc) \in Order(kind) \cup {"VERIFIED_SUCCESS"} /\ ~ Over(After(pc))
      BY <2>1, AfterLeads
    <2>3. OrderShape' /\ SealedShape' /\ pc' \in Places
      BY <1>1, <1>2, <1>3, <2>2, PlacesApart DEF OrderShape, SealedShape, Order, Places
    <2>4. ASSUME NEW m \in Mutations
          PROVE  /\ Announced(m, pc', handling') <=> pc = IntentState[m[1]] /\ Concerns(m, handling)
                 /\ Made(m, pc, handling) <=> pc = CompletionState[m[1]] /\ Concerns(m, handling)
                 /\ ~ Announced(m, pc, handling) /\ ~ Made(m, pc', handling')
      <3>1. m[1] \in MutationKinds
        BY <2>4 DEF Mutations, MutationKinds
      <3>2. pc \notin {StepOf[m[1]], CheckOf[m[1]]}
        <4>1. {StepOf[m[1]], CheckOf[m[1]]} \subseteq Steps
          BY <3>1 DEF StepOf, CheckOf, Steps, FailureState, MutationKinds
        <4>2. QED
          BY <4>1, <1>1, PlacesApart
      <3>3. QED
        BY <1>1, <1>2, <2>1, <3>1, <3>2, AfterTransition DEF Announced, Made
    <2>5. ASSUME NEW m \in Mutations
          PROVE  ~ (pc = IntentState[m[1]] /\ pc = CompletionState[m[1]])
      BY <2>5 DEF Mutations, IntentState, CompletionState
    <2>6. JournalShape'
      BY <1>2, <1>3, <2>1, <2>4, <2>5 DEF IInv, JournalShape
    <2>7. QED
      BY <2>3, <2>6 DEF Shapes
  <1>6. QED
    BY <1>4, <1>5

----------------------------------------------------------------------------
(* Every action keeps the invariant; Unmoved says that it neither records   *)
(* nor mutates anything.                                                    *)

Unmoved == UNCHANGED <<journal, done>>

\* A failure is recorded next.
LEMMA FailureFollows ==
  ASSUME NEW s \in DOMAIN FailureState
  PROVE  Over(FailureState[s])
  BY DEF Over, Failures

\* A check of the live paths goes on, or fails and changes nothing.
LEMMA CheckStep ==
  ASSUME IInv, NEW s \in Steps \ MutationSteps, NEW c, s \notin DOMAIN FailureState => c, Check(s, c)
  PROVE  IInv' /\ Unmoved
  <1>1. pc = s /\ pc # "idle"
    BY PlacesApart DEF Check
  <1>2. CASE c
    <2>1. Shapes' /\ pc' \in Places
      BY <1>1, <1>2, GoesOn DEF Check, ProceedIf, Proceed, attempt
    <2>2. TypeOK'
      BY <2>1, <1>2 DEF IInv, TypeOK, Check, ProceedIf, Proceed, attempt, sources
    <2>3. QED
      BY <2>1, <2>2 DEF IInv, Shapes, Check, Unmoved
  <1>3. CASE ~ c
    <2>1. pc' = FailureState[s] /\ UNCHANGED fault
      BY <1>1, <1>3 DEF Check, ProceedIf, Fail
    <2>2. Shapes' /\ pc' \in Places
      BY <1>1, <1>3, <2>1, FailureFollows, Ends DEF Check
    <2>3. TypeOK'
      BY <2>1, <2>2 DEF IInv, TypeOK, Check, attempt, sources
    <2>4. QED
      BY <2>2, <2>3 DEF IInv, Shapes, Check, Unmoved
  <1>4. QED
    BY <1>2, <1>3

\* The checks of restore() and execute_recovery().
SomeCheck ==
    \/ VerifyTarget \/ CheckSchema \/ SidecarGate \/ Stage \/ Verify
    \/ Plan \/ Reverify \/ CheckChanged \/ PreMutationStability \/ CheckDisposal
    \/ FinalStability \/ ReverifyTarget \/ CheckDatabase \/ CheckConfig \/ CheckVacant

\* Every check is one of a step, made or failed.
LEMMA CheckOfSome ==
  ASSUME SomeCheck
  PROVE  \E s \in Steps \ MutationSteps, c \in BOOLEAN : (s \notin DOMAIN FailureState => c) /\ Check(s, c)
  <1>0. /\ {"VerifyTarget", "CheckSchema", "SidecarGate", "Stage", "Verify", "Plan", "Reverify",
            "CheckChanged", "PreMutationStability", "CheckDisposal", "FinalStability",
            "CheckDatabase", "CheckConfig", "CheckVacant"} \subseteq DOMAIN FailureState \ MutationSteps
        /\ "ReverifyTarget" \in Steps \ MutationSteps
    BY DEF FailureState, MutationSteps, Steps
  <1> USE <1>0 DEF Steps
  <1>1. CASE VerifyTarget
    BY <1>1 DEF VerifyTarget
  <1>2. CASE CheckSchema
    BY <1>2 DEF CheckSchema
  <1>3. CASE SidecarGate
    BY <1>3 DEF SidecarGate, NoSidecars
  <1>4. CASE Stage
    BY <1>4 DEF Stage
  <1>5. CASE Verify
    BY <1>5 DEF Verify, NoSidecars
  <1>6. CASE Plan
    BY <1>6 DEF Plan, WouldProceed
  <1>7. CASE Reverify
    BY <1>7 DEF Reverify
  <1>8. CASE CheckChanged
    BY <1>8 DEF CheckChanged
  <1>9. CASE PreMutationStability
    BY <1>9 DEF PreMutationStability
  <1>10. CASE CheckDisposal
    BY <1>10 DEF CheckDisposal
  <1>11. CASE FinalStability
    BY <1>11 DEF FinalStability, Stable
  <1>12. CASE ReverifyTarget
    BY <1>12 DEF ReverifyTarget
  <1>13. CASE CheckDatabase
    BY <1>13 DEF CheckDatabase, Stable
  <1>14. CASE CheckConfig
    BY <1>14 DEF CheckConfig
  <1>15. CASE CheckVacant
    BY <1>15 DEF CheckVacant
  <1>16. QED
    BY <1>1, <1>2, <1>3, <1>4, <1>5, <1>6, <1>7, <1>8, <1>9, <1>10, <1>11, <1>12, <1>13, <1>14, <1>15 DEF SomeCheck

\* A check moves nothing.
LEMMA Checks ==
  ASSUME IInv, SomeCheck
  PROVE  IInv' /\ Unmoved
  BY CheckOfSome, CheckStep

\* The steps that look at the live paths and keep what they saw.
LEMMA Observations ==
  ASSUME IInv, SafetyBackup \/ Probe \/ Capture \/ Reclassify \/ NextDisposition
  PROVE  IInv' /\ Unmoved
  <1> USE DEF Unmoved, attempt, sources
  <1>0. /\ {"SafetyBackup", "Probe", "Capture", "Reclassify"} \subseteq DOMAIN FailureState \ MutationSteps
        /\ {"SafetyBackup", "Probe", "Capture", "Reclassify", "NextDisposition"} \subseteq Steps \ MutationSteps
        /\ pc # "idle" /\ Over("idle")
    BY PlacesApart
    DEF FailureState, MutationSteps, Steps, Over, SafetyBackup, Probe, Capture, Reclassify, NextDisposition
  <1>1. CASE SafetyBackup
    <2>1. pc = "SafetyBackup" /\ (pc' = After(pc) \/ pc' = FailureState[pc])
      BY <1>1 DEF SafetyBackup, Proceed, Fail
    <2>2. Shapes' /\ pc' \in Places
      BY <1>0, <1>1, <2>1, GoesOn, Ends, FailureFollows DEF SafetyBackup
    <2>3. TypeOK'
      BY <1>1, <2>2 DEF SafetyBackup, Proceed, Fail, IInv, TypeOK, Snapshots
    <2>4. QED
      BY <1>1, <2>2, <2>3 DEF SafetyBackup, IInv, Shapes
  <1>2. CASE Probe
    <2>1. /\ pc = "Probe"
          /\ \/ pc' = "QUIESCENCE_NOT_APPLICABLE" /\ kind = "recovery"
             \/ pc' = After(pc)
             \/ pc' = FailureState[pc]
             \/ pc' = "idle"
      BY <1>2 DEF Probe, Proceed, Fail
    <2>2. Shapes' /\ pc' \in Places
      BY <1>0, <1>2, <2>1, GoesOn, GoesElsewhere, Ends, FailureFollows DEF Probe
    <2>3. fault' \in BOOLEAN
      BY <1>2 DEF Probe, Proceed, Fail, IInv, TypeOK
    <2>4. TypeOK'
      BY <1>2, <2>2, <2>3 DEF Probe, IInv, TypeOK
    <2>5. QED
      BY <1>2, <2>2, <2>4 DEF Probe, IInv, Shapes
  <1>3. CASE Capture
    <2>1. Shapes' /\ pc' \in Places
      BY <1>0, <1>3, GoesOn DEF Capture, Proceed
    <2>2. capture' \in Snapshots
      BY <1>3 DEF Capture, IInv, TypeOK, Snapshots, Objects, Conditions
    <2>3. TypeOK'
      BY <1>3, <2>1, <2>2 DEF Capture, Proceed, IInv, TypeOK
    <2>4. QED
      BY <1>3, <2>1, <2>3 DEF Capture, IInv, Shapes
  <1>4. CASE Reclassify
    <2>1. pc = "Reclassify" /\ (pc' = After(pc) \/ pc' = FailureState[pc]) /\ UNCHANGED fault
      BY <1>4 DEF Reclassify, ProceedIf, Proceed, Fail
    <2>2. Shapes' /\ pc' \in Places
      BY <1>0, <1>4, <2>1, GoesOn, Ends, FailureFollows DEF Reclassify
    <2>3. TypeOK'
      BY <1>4, <2>1, <2>2 DEF Reclassify, IInv, TypeOK, Snapshots
    <2>4. QED
      BY <1>4, <2>2, <2>3 DEF Reclassify, IInv, Shapes
  <1>5. CASE NextDisposition
    <2>1. kind = "recovery"
      <3>1. pc \in Order(kind) /\ kind \in {"restore", "recovery"}
        BY <1>0, <1>5, InOrder DEF NextDisposition
      <3>2. pc \notin DOMAIN RestoreOrder
        BY <1>5 DEF NextDisposition, RestoreOrder
      <3>3. QED
        BY <3>1, <3>2 DEF Order
    <2>2. /\ pc = "NextDisposition" /\ handling' \in Targets
          /\ pc' \in {"idle", "DISPOSITION_INTENT", "FINAL_STABILITY_INTENT"}
      BY <1>5 DEF NextDisposition, IInv, TypeOK
    <2>3. Shapes' /\ pc' \in Places
      BY <1>0, <1>5, <2>1, <2>2, GoesElsewhere, Ends DEF NextDisposition
    <2>4. TypeOK'
      BY <1>5, <2>2, <2>3 DEF NextDisposition, IInv, TypeOK
    <2>5. QED
      BY <1>5, <2>3, <2>4 DEF NextDisposition, IInv, Shapes
  <1>6. QED
    BY <1>1, <1>2, <1>3, <1>4, <1>5

\* One mutation, announced before, or none.
MutatesAnnounced ==
    /\ UNCHANGED journal
    /\ \/ UNCHANGED done
       \/ \E m \in Intended(journal) : done' = done \cup {m}

\* The backup holds healthy objects.
LEMMA TargetTypes ==
  ASSUME TypeOK
  PROVE  target.database \in Objects /\ target.config \in Objects
  BY RestoreAssumption DEF TypeOK, Objects

\* Moving aside or putting in place keeps the types.
LEMMA EffectTypes ==
  ASSUME TypeOK, NEW t \in Targets, NEW mutation, <<mutation, t>> \in Mutations,
         MoveAside(t, mutation) \/ \E object \in Objects : Put(t, object, mutation)
  PROVE  /\ live' \in [Targets -> Objects] /\ aside' \in [Targets -> Objects]
         /\ done' \subseteq Mutations /\ done' = done \cup {<<mutation, t>>}
  <1>1. "missing" \in Objects
    BY DEF Objects, Conditions
  <1>2. CASE MoveAside(t, mutation)
    BY <1>1, <1>2 DEF MoveAside, TypeOK
  <1>3. CASE \E object \in Objects : Put(t, object, mutation)
    BY <1>3 DEF Put, TypeOK
  <1>4. QED
    BY <1>2, <1>3

\* A mutation step makes its mutation, or fails and changes nothing.
LEMMA MutationStep ==
  ASSUME IInv, NEW k \in MutationKinds, NEW t \in Targets, <<k, t>> \in Mutations,
         pc = StepOf[k], k = "DISPOSITION" => t = handling,
         UNCHANGED <<journal, sources, attempt, handling, writes>>,
         \/ /\ MoveAside(t, k) \/ \E object \in Objects : Put(t, object, k)
            /\ Proceed \/ (pc' = FailureState[pc] /\ fault' \in BOOLEAN)
         \/ UNCHANGED <<live, aside, done>> /\ Fail
  PROVE  IInv' /\ MutatesAnnounced
  <1>1. pc # "idle" /\ Over(FailureState[pc])
    BY FailureFollows, PlacesApart DEF StepOf, MutationKinds, FailureState
  <1>2. CASE /\ MoveAside(t, k) \/ \E object \in Objects : Put(t, object, k)
             /\ Proceed \/ (pc' = FailureState[pc] /\ fault' \in BOOLEAN)
    <2>1. /\ live' \in [Targets -> Objects] /\ aside' \in [Targets -> Objects]
          /\ done' \subseteq Mutations /\ done' = done \cup {<<k, t>>}
      BY <1>2, EffectTypes DEF IInv
    <2>2. <<k, t>> \in Intended(journal)
      <3>1. pc \in Steps
        BY DEF Steps, FailureState, StepOf, MutationKinds
      <3>2. ~ Over(pc)
        BY <3>1, InOrder
      <3>3. Announced(<<k, t>>, pc, handling)
        BY DEF Announced, Concerns
      <3>4. QED
        BY <3>2, <3>3 DEF IInv, JournalShape
    <2>3. fault' \in BOOLEAN
      BY <1>2 DEF Proceed, IInv, TypeOK
    <2>4. Shapes' /\ pc' \in Places
      <3>1. CASE Proceed
        BY <2>1, <3>1, Makes DEF Proceed, attempt
      <3>2. CASE pc' = FailureState[pc]
        BY <1>1, <3>2, Ends
      <3>3. QED
        BY <1>2, <3>1, <3>2
    <2>5. TypeOK'
      BY <2>1, <2>3, <2>4 DEF IInv, TypeOK, sources, attempt
    <2>6. QED
      BY <2>1, <2>2, <2>4, <2>5 DEF IInv, Shapes, MutatesAnnounced
  <1>3. CASE UNCHANGED <<live, aside, done>> /\ Fail
    <2>1. Shapes' /\ pc' \in Places
      BY <1>1, <1>3, Ends DEF Fail
    <2>2. TypeOK'
      BY <1>3, <2>1 DEF IInv, TypeOK, sources, attempt, Fail
    <2>3. QED
      BY <1>3, <2>1, <2>2 DEF IInv, Shapes, MutatesAnnounced
  <1>4. QED
    BY <1>2, <1>3

\* The five actions that touch the live paths.
LEMMA MutationActions ==
  ASSUME IInv, ReplaceDatabase \/ RenameAside \/ InstallConfig \/ Dispose \/ DisposalUnproved
  PROVE  IInv' /\ MutatesAnnounced
  <1>1. target.database \in Objects /\ target.config \in Objects
    BY TargetTypes DEF IInv
  <1>2. /\ {"database", "config", handling} \subseteq Targets
        /\ {<<"DB_REPLACE", "database">>, <<"CONFIG_RENAME_ASIDE", "config">>,
            <<"CONFIG_INSTALL", "config">>, <<"DISPOSITION", handling>>} \subseteq Mutations
    BY DEF IInv, TypeOK, Targets, Mutations
  <1>3. /\ MutationKinds = {"DB_REPLACE", "CONFIG_RENAME_ASIDE", "CONFIG_INSTALL", "DISPOSITION"}
        /\ StepOf["DB_REPLACE"] = "ReplaceDatabase" /\ StepOf["CONFIG_RENAME_ASIDE"] = "RenameAside"
        /\ StepOf["CONFIG_INSTALL"] = "InstallConfig" /\ StepOf["DISPOSITION"] = "Dispose"
        /\ FailureState["Dispose"] = "DISPOSITION_FAILED"
    BY DEF MutationKinds, StepOf, FailureState
  <1>4. CASE ReplaceDatabase
    BY <1>1, <1>2, <1>3, <1>4, MutationStep DEF ReplaceDatabase, Mutation
  <1>5. CASE RenameAside
    BY <1>2, <1>3, <1>5, MutationStep DEF RenameAside, Mutation
  <1>6. CASE InstallConfig
    BY <1>1, <1>2, <1>3, <1>6, MutationStep DEF InstallConfig, Mutation
  <1>7. CASE Dispose
    BY <1>2, <1>3, <1>7, MutationStep DEF Dispose, Mutation
  <1>8. CASE DisposalUnproved
    BY <1>2, <1>3, <1>8, MutationStep DEF DisposalUnproved
  <1>9. QED
    BY <1>4, <1>5, <1>6, <1>7, <1>8

\* Crashes, failures and other writers leave the journal alone.
LEMMA Interruptions ==
  ASSUME IInv, Crash \/ StepFails \/ \E t \in Targets : OthersWrite(t)
  PROVE  IInv' /\ Unmoved
  <1> USE DEF sources, attempt, Unmoved
  <1>1. CASE Crash
    <2>1. Shapes' /\ pc' \in Places
      BY <1>1, Ends DEF Crash, Over
    <2>2. QED
      BY <1>1, <2>1 DEF Crash, IInv, TypeOK, Shapes
  <1>2. CASE StepFails
    <2>1. pc \in DOMAIN FailureState /\ pc # "idle" /\ pc' = FailureState[pc]
      BY <1>2 DEF StepFails, FailureState
    <2>2. Shapes' /\ pc' \in Places
      BY <1>2, <2>1, Ends, FailureFollows DEF StepFails
    <2>3. QED
      BY <1>2, <2>2 DEF StepFails, IInv, TypeOK, Shapes
  <1>3. CASE \E t \in Targets : OthersWrite(t)
    <2>1. PICK t \in Targets : OthersWrite(t)
      BY <1>3
    <2>2. ObjectsAt(t) \subseteq Objects
      BY DEF ObjectsAt, Objects, Conditions
    <2>3. live' \in [Targets -> Objects] /\ writes' \in 0 .. MaxWrites
      BY <2>1, <2>2, RestoreAssumption DEF OthersWrite, IInv, TypeOK
    <2>4. TypeOK'
      BY <2>1, <2>3 DEF OthersWrite, IInv, TypeOK
    <2>5. OrderShape' /\ SealedShape' /\ JournalShape'
      BY <2>1 DEF OthersWrite, IInv, OrderShape, SealedShape, JournalShape, Intended, Confirmed, Trusted
    <2>6. QED
      BY <2>1, <2>4, <2>5 DEF OthersWrite, IInv
  <1>4. QED
    BY <1>1, <1>2, <1>3

\* A new attempt has an empty journal.
LEMMA Begins ==
  ASSUME IInv, NEW k \in {"restore", "recovery"}, NEW b \in Backups, Begin(k, b)
  PROVE  IInv' /\ Intended(journal)' = {} /\ Confirmed(journal)' = {} /\ done' = {}
  <1>1. journal' = <<>> /\ done' = {} /\ kind' = k
    BY DEF Begin, BeginAttempt
  <1>2. Intended(journal)' = {} /\ Confirmed(journal)' = {}
    BY <1>1 DEF Intended, Confirmed, Trusted
  <1>3. \/ pc' = "idle"
        \/ pc' = "RESTORE_INITIATED" /\ k = "restore"
        \/ pc' = "RECOVERY_INITIATED" /\ k = "recovery"
    BY DEF Begin
  <1>4. pc' \in Places /\ OrderShape'
    BY <1>1, <1>3, PlacesApart DEF OrderShape, Order, Over, Places, RestoreOrder, RecoveryOrder
  <1>5. TypeOK'
    <2>1. "missing" \in Objects /\ "database" \in Targets
      BY DEF Objects, Conditions, Targets
    <2>2. live' \in [Targets -> Objects] /\ aside' \in [Targets -> Objects]
      BY <2>1 DEF Begin, BeginAttempt, IInv, TypeOK
    <2>3. safety' \in Snapshots /\ capture' \in Snapshots /\ reclass' \in Snapshots /\ start' \in Snapshots
      BY DEF Begin, BeginAttempt, IInv, TypeOK, Snapshots
    <2>4. writes' \in 0 .. MaxWrites
      BY RestoreAssumption DEF Begin, BeginAttempt
    <2>5. journal' \in Seq([state : States, of : Targets, sealed : BOOLEAN])
      BY <1>1
    <2>6. QED
      BY <1>1, <1>4, <2>1, <2>2, <2>3, <2>4, <2>5 DEF Begin, BeginAttempt, TypeOK
  <1>6. SealedShape'
    BY <1>1 DEF SealedShape
  <1>7. \A m \in Mutations : ~ Announced(m, pc', handling') /\ ~ Made(m, pc', handling')
    BY <1>3 DEF Announced, Made, Mutations, StepOf, CheckOf, CompletionState
  <1>8. JournalShape'
    BY <1>1, <1>2, <1>7 DEF JournalShape
  <1>9. QED
    BY <1>1, <1>2, <1>4, <1>5, <1>6, <1>8 DEF IInv

\* A torn transition ends the attempt and tells a reader nothing.
LEMMA Torn ==
  ASSUME IInv, TornRecord
  PROVE  IInv' /\ UNCHANGED done /\ Intended(journal)' = Intended(journal)
               /\ Confirmed(journal)' = Confirmed(journal)
  <1>1. Intended(journal)' = Intended(journal) /\ Confirmed(journal)' = Confirmed(journal)
    BY TornTransition DEF TornRecord, IInv, TypeOK
  <1>2. TypeOK'
    BY DEF TornRecord, Publish, IInv, TypeOK, sources, attempt, Places
  <1>3. Shapes'
    BY DEF TornRecord, Shapes, OrderShape, SealedShape, JournalShape, Over
  <1>4. QED
    BY <1>1, <1>2, <1>3 DEF IInv, Shapes, TornRecord

----------------------------------------------------------------------------
(* The theorems.                                                           *)

\* No attempt runs at first.
LEMMA InitIInv == Init => IInv
  <1> SUFFICES ASSUME Init PROVE IInv
    OBVIOUS
  <1>1. "missing" \in Objects /\ "database" \in Targets /\ "idle" \in Places
    BY DEF Objects, Conditions, Targets, Places
  <1>2. writes \in 0 .. MaxWrites
    BY RestoreAssumption DEF Init
  <1>3. journal \in Seq([state : States, of : Targets, sealed : BOOLEAN])
    BY DEF Init
  <1>4. TypeOK
    BY <1>1, <1>2, <1>3 DEF Init, TypeOK, Snapshots
  <1>5. QED
    BY <1>4 DEF Init, IInv, OrderShape, SealedShape, JournalShape, Over

\* What an action does to the journal and to the mutations made.
Effect ==
    \/ Unmoved \/ MutatesAnnounced \/ Record
    \/ UNCHANGED done /\ Intended(journal)' = Intended(journal) /\ Confirmed(journal)' = Confirmed(journal)
    \/ Intended(journal)' = {} /\ Confirmed(journal)' = {} /\ done' = {}

\* Every step keeps the invariant, and has one of the effects on the journal and
\* the objects.
LEMMA NextIInv ==
  ASSUME IInv, [Next]_vars
  PROVE  IInv' /\ Effect
  <1>1. CASE \E k \in {"restore", "recovery"}, b \in Backups : Begin(k, b)
    BY <1>1, Begins DEF Effect
  <1>2. CASE Record
    <2>1. Shapes' /\ pc' \in Places
      BY <1>2, Records
    <2>2. journal' \in Seq([state : States, of : Targets, sealed : BOOLEAN])
      BY <1>2 DEF Record, Publish, IInv, TypeOK
    <2>3. TypeOK'
      BY <1>2, <2>1, <2>2 DEF Record, Proceed, IInv, TypeOK, sources, attempt
    <2>4. QED
      BY <1>2, <2>1, <2>3 DEF IInv, Shapes, Effect
  <1>3. CASE TornRecord
    BY <1>3, Torn DEF Effect
  <1>4. CASE Crash \/ StepFails \/ \E t \in Targets : OthersWrite(t)
    BY <1>4, Interruptions DEF Effect
  <1>5. CASE RestoreSteps
    BY <1>5, Checks, Observations, MutationActions DEF RestoreSteps, SomeCheck, Effect
  <1>6. CASE RecoverySteps
    BY <1>6, Checks, Observations, MutationActions DEF RecoverySteps, SomeCheck, Effect
  <1>7. CASE UNCHANGED vars
    BY <1>7 DEF vars, sources, attempt, IInv, TypeOK, OrderShape, SealedShape, JournalShape,
                Intended, Confirmed, Trusted, Effect, Unmoved
  <1>8. QED
    BY <1>1, <1>2, <1>3, <1>4, <1>5, <1>6, <1>7 DEF Next

\* Types, order and journal are inductive.
LEMMA Invariance == Spec => []IInv
  <1>1. Init => IInv
    BY InitIInv
  <1>2. IInv /\ [Next]_vars => IInv'
    BY NextIInv
  <1>3. QED
    BY <1>1, <1>2, PTL DEF Spec

\* Every variable keeps its type, and no attempt leaves the order of steps and
\* transitions of its kind, wherever crashes, failures and other writers hit it.
THEOREM TypeCorrect == Spec => []TypeOK
  <1>1. IInv => TypeOK
    BY DEF IInv
  <1>2. QED
    BY Invariance, <1>1, PTL

\* A recorded transition announces one mutation when all others are confirmed,
\* confirms the one that was made, or says nothing of any.
LEMMA RecordedStep ==
  ASSUME IInv, Record
  PROVE  Abstract!WriteAheadNext \/ UNCHANGED Abstract!journalVars
  <1>1. /\ pc # "idle" /\ pc \in States /\ UNCHANGED done
        /\ Publish(pc, handling, TRUE)
    BY PlacesApart DEF Record
  <1>2. \A m \in Mutations :
           /\ m \in Intended(journal)' <=>
                 m \in Intended(journal) \/ (pc = IntentState[m[1]] /\ Concerns(m, handling))
           /\ m \in Confirmed(journal)' <=>
                 m \in Confirmed(journal) \/ (pc = CompletionState[m[1]] /\ Concerns(m, handling))
    BY <1>1, SealedTransition DEF IInv, TypeOK, SealedShape
  <1>3. /\ Intended(journal) \subseteq Mutations /\ Intended(journal)' \subseteq Mutations
        /\ Confirmed(journal) \subseteq Mutations /\ Confirmed(journal)' \subseteq Mutations
        /\ done \subseteq Mutations
    BY DEF Intended, Confirmed, IInv, TypeOK
  <1>4. ASSUME NEW m \in Mutations, NEW n \in Mutations, Concerns(m, handling), Concerns(n, handling)
        PROVE  /\ IntentState[m[1]] = IntentState[n[1]] => m = n
               /\ CompletionState[m[1]] = CompletionState[n[1]] => m = n
               /\ IntentState[m[1]] # CompletionState[n[1]]
    BY <1>4 DEF Mutations, Concerns, IntentState, CompletionState
  <1>5. CASE \E m \in Mutations : pc = IntentState[m[1]] /\ Concerns(m, handling)
    <2>1. PICK m \in Mutations : pc = IntentState[m[1]] /\ Concerns(m, handling)
      BY <1>5
    <2>2. Confirmed(journal)' = Confirmed(journal)
      BY <1>2, <1>3, <1>4, <2>1
    <2>3. Intended(journal)' = Intended(journal) \cup {m}
      BY <1>2, <1>3, <1>4, <2>1
    <2>4. Intended(journal) = Confirmed(journal)
      <3>1. ~ Over(pc)
        BY <2>1, PlacesApart DEF Over, Failures, FailureState, IntentState, Mutations
      <3>2. ASSUME NEW n \in Mutations
            PROVE  ~ Announced(n, pc, handling) /\ ~ Made(n, pc, handling)
        BY <2>1, <3>2 DEF Announced, Made, Mutations, StepOf, CheckOf, IntentState, CompletionState
      <3>3. QED
        BY <1>3, <3>1, <3>2 DEF IInv, JournalShape
    <2>5. CASE m \in Intended(journal)
      BY <1>1, <2>2, <2>3, <2>5 DEF Abstract!journalVars
    <2>6. CASE m \notin Intended(journal)
      BY <1>1, <2>1, <2>2, <2>3, <2>4, <2>6 DEF Abstract!WriteAheadNext, Abstract!Intend
    <2>7. QED
      BY <2>5, <2>6
  <1>6. CASE \E m \in Mutations : pc = CompletionState[m[1]] /\ Concerns(m, handling)
    <2>1. PICK m \in Mutations : pc = CompletionState[m[1]] /\ Concerns(m, handling)
      BY <1>6
    <2>2. Intended(journal)' = Intended(journal)
      BY <1>2, <1>3, <1>4, <2>1
    <2>3. Confirmed(journal)' = Confirmed(journal) \cup {m}
      BY <1>2, <1>3, <1>4, <2>1
    <2>4. m \in done
      <3>1. ~ Over(pc)
        BY <2>1, PlacesApart DEF Over, Failures, FailureState, CompletionState, Mutations
      <3>2. QED
        BY <2>1, <3>1 DEF IInv, JournalShape, Made
    <2>5. CASE m \in Confirmed(journal)
      BY <1>1, <2>2, <2>3, <2>5 DEF Abstract!journalVars
    <2>6. CASE m \notin Confirmed(journal)
      BY <1>1, <2>1, <2>2, <2>3, <2>4, <2>6 DEF Abstract!WriteAheadNext, Abstract!Confirm
    <2>7. QED
      BY <2>5, <2>6
  <1>7. CASE \A m \in Mutations : Concerns(m, handling) => pc \notin {IntentState[m[1]], CompletionState[m[1]]}
    <2>1. Intended(journal)' = Intended(journal) /\ Confirmed(journal)' = Confirmed(journal)
      BY <1>2, <1>3, <1>7
    <2>2. QED
      BY <1>1, <2>1 DEF Abstract!journalVars
  <1>8. QED
    BY <1>5, <1>6, <1>7

\* Every step is a step of the write-ahead journal or leaves it alone.
LEMMA AbstractStep ==
  ASSUME IInv, Effect
  PROVE  [Abstract!WriteAheadNext]_(Abstract!journalVars)
  <1>1. CASE Unmoved
    BY <1>1 DEF Unmoved, Abstract!journalVars, Intended, Confirmed, Trusted
  <1>2. CASE MutatesAnnounced
    <2>1. Intended(journal)' = Intended(journal) /\ Confirmed(journal)' = Confirmed(journal)
      BY <1>2 DEF MutatesAnnounced, Intended, Confirmed, Trusted
    <2>2. CASE UNCHANGED done
      BY <2>1, <2>2 DEF Abstract!journalVars
    <2>3. ASSUME NEW m \in Intended(journal), done' = done \cup {m}
          PROVE  Abstract!WriteAheadNext \/ UNCHANGED Abstract!journalVars
      <3>1. m \in Mutations
        BY DEF Intended
      <3>2. CASE m \in done
        BY <2>1, <2>3, <3>2 DEF Abstract!journalVars
      <3>3. CASE m \notin done
        BY <2>1, <2>3, <3>1, <3>3 DEF Abstract!WriteAheadNext, Abstract!Mutate
      <3>4. QED
        BY <3>2, <3>3
    <2>4. QED
      BY <1>2, <2>2, <2>3 DEF MutatesAnnounced
  <1>3. CASE Record
    BY <1>3, RecordedStep
  <1>4. CASE UNCHANGED done /\ Intended(journal)' = Intended(journal) /\ Confirmed(journal)' = Confirmed(journal)
    BY <1>4 DEF Abstract!journalVars
  <1>5. CASE Intended(journal)' = {} /\ Confirmed(journal)' = {} /\ done' = {}
    BY <1>5 DEF Abstract!WriteAheadNext, Abstract!Start
  <1>6. QED
    BY <1>1, <1>2, <1>3, <1>4, <1>5 DEF Effect

\* The journal announces every mutation before it is made and confirms it before
\* the next is announced: an attempt, crashes and torn records included,
\* implements WriteAhead.
THEOREM Refinement == Spec => ImplementsWriteAhead
  <1>1. Init => Abstract!WriteAheadInit
    BY DEF Init, Abstract!WriteAheadInit, Intended, Confirmed, Trusted
  <1>2. IInv /\ [Next]_vars => [Abstract!WriteAheadNext]_(Abstract!journalVars)
    BY NextIInv, AbstractStep
  <1>3. QED
    BY Invariance, <1>1, <1>2, PTL DEF Spec, ImplementsWriteAhead, Abstract!WriteAheadSpec

----------------------------------------------------------------------------
(* What the journal tells a reader of the live objects.                    *)

\* The write-ahead discipline: at most one mutation is announced and not confirmed.
AtMostOneOpen ==
    /\ Confirmed(journal) \subseteq done /\ done \subseteq Intended(journal)
    /\ \A m, n \in Intended(journal) \ Confirmed(journal) : m = n

\* At most one mutation is announced and not confirmed.
LEMMA Discipline == Spec => []AtMostOneOpen
  <1>1. Init => AtMostOneOpen
    BY DEF Init, AtMostOneOpen, Intended, Confirmed, Trusted
  <1>2. AtMostOneOpen /\ [Abstract!WriteAheadNext]_(Abstract!journalVars) => AtMostOneOpen'
    BY DEF AtMostOneOpen, Abstract!WriteAheadNext, Abstract!journalVars,
           Abstract!Start, Abstract!Intend, Abstract!Mutate, Abstract!Confirm
  <1>3. IInv /\ AtMostOneOpen /\ [Next]_vars => AtMostOneOpen'
    BY <1>2, NextIInv, AbstractStep
  <1>4. QED
    BY <1>1, <1>3, Invariance, PTL DEF Spec

\* Places that are only reached after a mutation.
PostInstall == {"CONFIG_REPLACED", "VERIFICATION_INTENT", "Verify", "VERIFIED_SUCCESS"}
PostReplace ==
    PostInstall \cup {"DB_REPLACED", "CONFIG_RENAME_ASIDE_INTENT", "CheckConfig", "RenameAside",
                      "CONFIG_RENAMED_ASIDE", "CONFIG_INSTALL_INTENT", "CheckVacant", "InstallConfig"}

Progress ==
    ~ Over(pc) =>
        /\ <<"DB_REPLACE", "database">> \in done => pc \in PostReplace
        /\ <<"CONFIG_INSTALL", "config">> \in done => pc \in PostInstall

\* While nobody else writes, the mutations made account for the live objects.
Accounted == start # NoSnapshot /\ writes = 0 => live = LiveAfter(done)

\* The later places of an order are followed by later places.
LEMMA ProgressKept ==
  ASSUME kind \in {"restore", "recovery"}, NEW p \in Order(kind), ~ Over(p)
  PROVE  /\ p \in PostReplace => After(p) \in PostReplace
         /\ p \in PostInstall => After(p) \in PostInstall
  <1>1. p \notin Failures \cup {"VERIFIED_SUCCESS"}
    BY DEF Over, Order, RestoreOrder, RecoveryOrder
  <1>2. CASE kind = "restore"
    BY <1>1, <1>2 DEF After, ConfigVacant, Order, PostReplace, PostInstall, RestoreOrder
  <1>3. CASE kind = "recovery" /\ p = "DB_REPLACED" /\ ConfigVacant
    BY <1>1, <1>3 DEF After, PostReplace, PostInstall
  <1>4. CASE kind = "recovery" /\ ~ (p = "DB_REPLACED" /\ ConfigVacant)
    <2>1. After(p) = RecoveryOrder[p]
      BY <1>1, <1>4 DEF After
    <2>2. QED
      BY <1>4, <2>1 DEF Order, PostReplace, PostInstall, RecoveryOrder
  <1>5. QED
    BY <1>2, <1>3, <1>4

\* At a mutation, what is made later has not been made.
LEMMA NotLater ==
  ASSUME IInv, Progress
  PROVE  /\ pc = "Dispose" => done \cap {<<"DB_REPLACE", "database">>, <<"CONFIG_INSTALL", "config">>} = {}
         /\ pc = "RenameAside" => <<"CONFIG_INSTALL", "config">> \notin done
  <1>1. {"Dispose", "RenameAside"} \subseteq Steps
    BY DEF Steps, FailureState
  <1>2. pc \in {"Dispose", "RenameAside"} => ~ Over(pc)
    BY <1>1, InOrder
  <1>3. "Dispose" \notin PostReplace \cup PostInstall /\ "RenameAside" \notin PostInstall
    BY DEF PostReplace, PostInstall
  <1>4. QED
    BY <1>2, <1>3 DEF Progress

\* The mutations made account for what a mutation leaves.
LEMMA MutationAccounted ==
  ASSUME IInv, Progress, Accounted, UNCHANGED <<start, writes, target>>,
         NEW t \in Targets, NEW k, <<k, t>> \in Mutations,
         \/ k = "DB_REPLACE" /\ Put(t, target.database, k)
         \/ k = "CONFIG_INSTALL" /\ Put(t, target.config, k)
         \/ k = "CONFIG_RENAME_ASIDE" /\ pc = "RenameAside" /\ MoveAside(t, k)
         \/ k = "DISPOSITION" /\ pc = "Dispose" /\ MoveAside(t, k)
  PROVE  Accounted'
  <1> SUFFICES ASSUME start # NoSnapshot, writes = 0 PROVE live' = LiveAfter(done)'
    BY DEF Accounted
  <1>1. live = LiveAfter(done) /\ live \in [Targets -> Objects] /\ done \subseteq Mutations
    BY DEF Accounted, IInv, TypeOK
  <1>2. done' = done \cup {<<k, t>>}
    BY DEF Put, MoveAside
  <1>3. \A u \in Targets : /\ <<"DB_REPLACE", u>> \in Mutations => u = "database"
                           /\ <<"CONFIG_INSTALL", u>> \in Mutations => u = "config"
                           /\ <<"CONFIG_RENAME_ASIDE", u>> \in Mutations => u = "config"
    BY DEF Mutations
  <1>4. ASSUME NEW u \in Targets, u # t
        PROVE  live'[u] = LiveAfter(done)'[u]
    <2>1. live'[u] = live[u]
      BY <1>1, <1>4 DEF Put, MoveAside
    <2>2. \A j : <<j, u>> \in done' <=> <<j, u>> \in done
      BY <1>2, <1>4
    <2>3. QED
      BY <1>1, <2>1, <2>2 DEF LiveAfter
  <1>5. live'[t] = LiveAfter(done)'[t]
    <2>1. CASE k = "DB_REPLACE"
      <3>1. live'[t] = target.database
        BY <1>1, <2>1 DEF Put, MoveAside
      <3>2. QED
        BY <1>2, <2>1, <3>1 DEF LiveAfter
    <2>2. CASE k = "CONFIG_INSTALL"
      <3>1. live'[t] = target.config
        BY <1>1, <2>2 DEF Put, MoveAside
      <3>2. t = "config" /\ <<"DB_REPLACE", t>> \notin done'
        BY <1>1, <1>2, <1>3, <2>2
      <3>3. QED
        BY <1>2, <2>2, <3>1, <3>2 DEF LiveAfter
    <2>3. CASE k \in {"CONFIG_RENAME_ASIDE", "DISPOSITION"}
      <3>1. live'[t] = "missing"
        BY <1>1, <2>3 DEF Put, MoveAside
      <3>2. <<"DB_REPLACE", t>> \notin done' /\ <<"CONFIG_INSTALL", t>> \notin done'
        BY <1>1, <1>2, <1>3, <2>3, NotLater
      <3>3. QED
        BY <1>2, <2>3, <3>1, <3>2 DEF LiveAfter
    <2>4. QED
      BY <2>1, <2>2, <2>3
  <1>6. live' = [u \in Targets |-> live'[u]] /\ LiveAfter(done)' = [u \in Targets |-> LiveAfter(done)'[u]]
    <2>1. live' \in [Targets -> {live'[u] : u \in Targets}]
      BY <1>1 DEF Put, MoveAside
    <2>2. QED
      BY <2>1 DEF LiveAfter
  <1>7. QED
    BY <1>4, <1>5, <1>6

Kept == UNCHANGED <<live, done, start, target, kind, writes>>

\* How an attempt moves where nothing is mutated.
Moves == Over(pc') \/ pc' = After(pc) \/ pc \in {"Probe", "NextDisposition"} \/ UNCHANGED pc

\* Actions that mutate nothing.
LEMMA KeptSteps ==
  ASSUME IInv,
         \/ SomeCheck
         \/ SafetyBackup \/ Probe \/ Capture \/ Reclassify \/ NextDisposition
         \/ Record \/ TornRecord \/ Crash \/ StepFails
  PROVE  Kept /\ Moves /\ pc # "idle"
  <1> USE DEF Kept, attempt, sources, Moves
  <1>1. ASSUME NEW s \in Steps, NEW c, s \notin DOMAIN FailureState => c, Check(s, c)
        PROVE  Kept /\ Moves /\ pc # "idle"
    BY <1>1, FailureFollows, PlacesApart DEF Check, ProceedIf, Proceed, Fail
  <1>2. CASE SomeCheck
    <2>1. \E s \in Steps, c \in BOOLEAN : (s \notin DOMAIN FailureState => c) /\ Check(s, c)
      BY <1>2, CheckOfSome
    <2>2. QED
      BY <1>1, <2>1
  <1>3. CASE SafetyBackup \/ Reclassify
    BY <1>3, FailureFollows DEF SafetyBackup, Reclassify, ProceedIf, Proceed, Fail, FailureState
  <1>4. CASE Probe \/ NextDisposition \/ Capture
    BY <1>4 DEF Probe, NextDisposition, Capture, Proceed
  <1>5. CASE Record
    BY <1>5, PlacesApart DEF Record, Proceed
  <1>6. CASE TornRecord \/ Crash
    BY <1>6, PlacesApart DEF TornRecord, Crash, Over
  <1>7. CASE StepFails
    BY <1>7, FailureFollows DEF StepFails, FailureState
  <1>8. QED
    BY <1>2, <1>3, <1>4, <1>5, <1>6, <1>7

\* They keep what was shown of progress and of the live objects.
LEMMA KeptAccounts ==
  ASSUME IInv, Progress, Accounted, Kept, Moves, pc # "idle"
  PROVE  Progress' /\ Accounted'
  <1>1. Accounted'
    BY DEF Accounted, Kept, LiveAfter
  <1>2. CASE Over(pc')
    BY <1>1, <1>2 DEF Progress
  <1>3. CASE pc \in {"Probe", "NextDisposition"}
    <2>1. ~ Over(pc)
      BY <1>3, InOrder DEF Steps, FailureState
    <2>2. QED
      BY <1>1, <1>3, <2>1 DEF Progress, Kept, PostReplace, PostInstall
  <1>4. CASE pc' = After(pc) /\ ~ Over(pc')
    <2>1. pc \notin Failures \cup {"VERIFIED_SUCCESS"} /\ ~ Over(pc)
      BY <1>4 DEF After, Over
    <2>2. pc \in Order(kind) /\ kind \in {"restore", "recovery"}
      BY <2>1 DEF IInv, TypeOK, OrderShape
    <2>3. QED
      BY <1>1, <1>4, <2>1, <2>2, ProgressKept DEF Progress, Kept
  <1>5. CASE UNCHANGED pc
    BY <1>1, <1>5 DEF Progress, Kept
  <1>6. QED
    BY <1>2, <1>3, <1>4, <1>5 DEF Moves

\* So do the mutations.
LEMMA MutationsAccount ==
  ASSUME IInv, Progress, Accounted,
         ReplaceDatabase \/ RenameAside \/ InstallConfig \/ Dispose \/ DisposalUnproved
  PROVE  Progress' /\ Accounted'
  <1> USE DEF attempt, sources
  <1>1. /\ {"database", "config", handling} \subseteq Targets
        /\ {<<"DB_REPLACE", "database">>, <<"CONFIG_RENAME_ASIDE", "config">>,
            <<"CONFIG_INSTALL", "config">>, <<"DISPOSITION", handling>>} \subseteq Mutations
    BY DEF IInv, TypeOK, Targets, Mutations
  <1>2. pc \in Steps /\ kind \in {"restore", "recovery"}
    BY DEF Steps, FailureState, ReplaceDatabase, RenameAside, InstallConfig, Dispose, DisposalUnproved,
           Mutation, IInv, TypeOK
  <1>3. pc \in Order(kind) \cap Steps /\ ~ Over(pc)
    BY <1>2, InOrder
  <1>4. CASE /\ Kept /\ Over(pc')
    BY <1>3, <1>4, KeptAccounts DEF Moves, Over
  <1>5. CASE DisposalUnproved
    <2>1. Accounted'
      BY <1>1, <1>5, MutationAccounted DEF DisposalUnproved
    <2>2. Over(pc')
      BY <1>5 DEF DisposalUnproved, Over, Failures, FailureState
    <2>3. QED
      BY <2>1, <2>2 DEF Progress
  <1>6. ASSUME NEW k \in MutationKinds, NEW t \in Targets, <<k, t>> \in Mutations, pc = StepOf[k],
               \/ k = "DB_REPLACE" /\ Put(t, target.database, k)
               \/ k = "CONFIG_INSTALL" /\ Put(t, target.config, k)
               \/ k = "CONFIG_RENAME_ASIDE" /\ MoveAside(t, k)
               \/ k = "DISPOSITION" /\ MoveAside(t, k),
               UNCHANGED <<start, target, kind, writes>>, Proceed
        PROVE  Progress' /\ Accounted'
    <2>1. Accounted'
      BY <1>6, MutationAccounted DEF StepOf
    <2>2. done' = done \cup {<<k, t>>} /\ pc' = After(pc)
      BY <1>6 DEF Put, MoveAside, Proceed
    <2>3. /\ pc \in PostReplace => After(pc) \in PostReplace
          /\ pc \in PostInstall => After(pc) \in PostInstall
      BY <1>2, <1>3, ProgressKept
    <2>4. After(pc) = CompletionState[k]
      BY <1>2, <1>3, <1>6, AfterMutation
    <2>5. /\ k = "DB_REPLACE" => After(pc) \in PostReplace
          /\ k = "CONFIG_INSTALL" => After(pc) \in PostReplace \cap PostInstall
      BY <2>4 DEF CompletionState, PostReplace, PostInstall
    <2>6. Progress'
      BY <1>3, <2>2, <2>3, <2>5 DEF Progress
    <2>7. QED
      BY <2>1, <2>6
  <1>7. ASSUME UNCHANGED <<live, aside, done>>, Fail, UNCHANGED <<start, target, kind, writes>>
        PROVE  Progress' /\ Accounted'
    <2>1. pc \in DOMAIN FailureState
      BY DEF FailureState, ReplaceDatabase, RenameAside, InstallConfig, Dispose, DisposalUnproved, Mutation
    <2>2. QED
      BY <1>4, <1>7, <2>1, FailureFollows DEF Fail, Kept
  <1>8. /\ MutationKinds = {"DB_REPLACE", "CONFIG_RENAME_ASIDE", "CONFIG_INSTALL", "DISPOSITION"}
        /\ StepOf["DB_REPLACE"] = "ReplaceDatabase" /\ StepOf["CONFIG_RENAME_ASIDE"] = "RenameAside"
        /\ StepOf["CONFIG_INSTALL"] = "InstallConfig" /\ StepOf["DISPOSITION"] = "Dispose"
    BY DEF MutationKinds, StepOf
  <1>9. CASE ReplaceDatabase
    BY <1>1, <1>6, <1>7, <1>8, <1>9 DEF ReplaceDatabase, Mutation
  <1>10. CASE RenameAside
    BY <1>1, <1>6, <1>7, <1>8, <1>10 DEF RenameAside, Mutation
  <1>11. CASE InstallConfig
    BY <1>1, <1>6, <1>7, <1>8, <1>11 DEF InstallConfig, Mutation
  <1>12. CASE Dispose
    BY <1>1, <1>6, <1>7, <1>8, <1>12 DEF Dispose, Mutation
  <1>13. QED
    BY <1>5, <1>9, <1>10, <1>11, <1>12

\* The mutations made account for the live objects wherever an attempt is.
LEMMA AlwaysAccounted == Spec => [](Progress /\ Accounted)
  <1>1. Init => Progress /\ Accounted
    BY DEF Init, Progress, Accounted, Over
  <1>2. ASSUME IInv, Progress /\ Accounted, [Next]_vars
        PROVE  (Progress /\ Accounted)'
    <2>1. CASE \E k \in {"restore", "recovery"}, b \in Backups : Begin(k, b)
      <3>1. done' = {} /\ start' = live /\ live' = live
        BY <2>1 DEF Begin, BeginAttempt
      <3>2. live = [t \in Targets |-> live[t]]
        BY <1>2 DEF IInv, TypeOK
      <3>3. QED
        BY <3>1, <3>2 DEF Progress, Accounted, LiveAfter
    <2>2. CASE \E t \in Targets : OthersWrite(t)
      <3>1. writes' # 0
        BY <1>2, <2>2, RestoreAssumption DEF OthersWrite, IInv, TypeOK
      <3>2. QED
        BY <1>2, <2>2, <3>1 DEF OthersWrite, Progress, Accounted
    <2>3. CASE ReplaceDatabase \/ RenameAside \/ InstallConfig \/ Dispose \/ DisposalUnproved
      BY <1>2, <2>3, MutationsAccount
    <2>4. CASE UNCHANGED vars
      BY <1>2, <2>4 DEF vars, Progress, Accounted, LiveAfter
    <2>5. CASE Next /\ ~ (\E k \in {"restore", "recovery"}, b \in Backups : Begin(k, b))
               /\ ~ (\E t \in Targets : OthersWrite(t))
               /\ ~ (ReplaceDatabase \/ RenameAside \/ InstallConfig \/ Dispose \/ DisposalUnproved)
      <3>1. Kept /\ Moves /\ pc # "idle"
        BY <1>2, <2>5, KeptSteps DEF Next, RestoreSteps, RecoverySteps, SomeCheck
      <3>2. QED
        BY <1>2, <3>1, KeptAccounts
    <2>6. QED
      BY <1>2, <2>1, <2>2, <2>3, <2>4, <2>5
  <1>3. QED
    BY <1>1, <1>2, Invariance, PTL DEF Spec

\* Wherever an attempt that is alone is stopped, the trusted part of its journal
\* tells the live objects up to one announced mutation.
THEOREM JournalTells == Spec => []JournalTellsLive
  <1>1. ASSUME AtMostOneOpen, Accounted
        PROVE  JournalTellsLive
    <2> DEFINE open == Intended(journal) \ Confirmed(journal)
    <2>1. Cardinality(open) <= 1
      <3>1. CASE open = {}
        BY <3>1, FS_EmptySet
      <3>2. CASE open # {}
        <4>1. PICK m : open = {m}
          BY <1>1, <3>2 DEF AtMostOneOpen
        <4>2. QED
          BY <4>1, FS_Singleton
      <3>3. QED
        BY <3>1, <3>2
    <2>2. done \ Confirmed(journal) \in SUBSET open
      BY <1>1 DEF AtMostOneOpen
    <2>3. done = Confirmed(journal) \cup (done \ Confirmed(journal))
      BY <1>1 DEF AtMostOneOpen
    <2>4. QED
      BY <1>1, <2>1, <2>2, <2>3 DEF JournalTellsLive, Accounted
  <1>2. QED
    BY <1>1, Discipline, AlwaysAccounted, PTL

----------------------------------------------------------------------------
(* Under other writers: what a recovery takes away.                        *)

\* Each path holds an object that can be there.
ObjectShape == \A t \in Targets : live[t] \in ObjectsAt(t)

\* Mutations put and leave objects that can be there.
LEMMA PutFits ==
  ASSUME IInv, ObjectShape,
         ReplaceDatabase \/ RenameAside \/ InstallConfig \/ Dispose \/ DisposalUnproved
  PROVE  ObjectShape'
  <1>1. /\ handling \in Targets /\ live \in [Targets -> Objects]
        /\ target.database \in Generations /\ target.config \in Generations
    BY RestoreAssumption DEF IInv, TypeOK
  <1>2. \A t : "missing" \in ObjectsAt(t)
    BY DEF ObjectsAt
  <1>3. Generations \subseteq ObjectsAt("database") /\ Generations \subseteq ObjectsAt("config")
    BY DEF ObjectsAt
  <1>4. \/ live' = live
        \/ \E t \in Targets : live' = [live EXCEPT ![t] = "missing"]
        \/ live' = [live EXCEPT !["database"] = target.database]
        \/ live' = [live EXCEPT !["config"] = target.config]
    BY <1>1 DEF ReplaceDatabase, RenameAside, InstallConfig, Dispose, DisposalUnproved, Mutation,
                Put, MoveAside, Targets
  <1>5. \A t \in Targets : \/ live'[t] = live[t] \/ live'[t] = "missing"
                           \/ t = "database" /\ live'[t] = target.database
                           \/ t = "config" /\ live'[t] = target.config
    BY <1>1, <1>4
  <1>6. ASSUME NEW t \in Targets
        PROVE  live'[t] \in ObjectsAt(t)
    BY <1>1, <1>2, <1>3, <1>5 DEF ObjectShape
  <1>7. \A t \in Targets : ObjectsAt(t)' = ObjectsAt(t)
    BY DEF ObjectsAt
  <1>8. QED
    BY <1>6, <1>7 DEF ObjectShape

\* Every step is of one of these classes.
LEMMA StepClasses ==
  ASSUME IInv, [Next]_vars
  PROVE  \/ \E k \in {"restore", "recovery"}, b \in Backups : Begin(k, b)
         \/ \E t \in Targets : OthersWrite(t)
         \/ ReplaceDatabase \/ RenameAside \/ InstallConfig \/ Dispose \/ DisposalUnproved
         \/ /\ \/ SomeCheck
               \/ SafetyBackup \/ Probe \/ Capture \/ Reclassify \/ NextDisposition
               \/ Record \/ TornRecord \/ Crash \/ StepFails
            /\ Kept /\ Moves /\ pc # "idle"
         \/ UNCHANGED vars
  <1>1. \/ SomeCheck
        \/ SafetyBackup \/ Probe \/ Capture \/ Reclassify \/ NextDisposition
        \/ Record \/ TornRecord \/ Crash \/ StepFails
        => Kept /\ Moves /\ pc # "idle"
    BY KeptSteps
  <1>2. QED
    BY <1>1 DEF Next, RestoreSteps, RecoverySteps, SomeCheck

\* What an attempt knows of the objects fits where it is.
LEMMA ObjectsFit == Spec => []ObjectShape
  <1>1. Init => ObjectShape
    BY DEF Init, ObjectShape
  <1>2. ASSUME IInv, ObjectShape, [Next]_vars
        PROVE  ObjectShape'
    <2>1. CASE live' = live
      BY <1>2, <2>1 DEF ObjectShape, ObjectsAt
    <2>2. CASE \E t \in Targets : OthersWrite(t)
      <3>1. PICK t \in Targets : OthersWrite(t)
        BY <2>2
      <3>2. PICK object \in ObjectsAt(t) : live' = [live EXCEPT ![t] = object]
        BY <3>1 DEF OthersWrite
      <3>3. \A u \in Targets : live'[u] \in ObjectsAt(u)
        BY <1>2, <3>2 DEF ObjectShape, IInv, TypeOK
      <3>4. QED
        BY <3>3 DEF ObjectShape, ObjectsAt
    <2>3. CASE ReplaceDatabase \/ RenameAside \/ InstallConfig \/ Dispose \/ DisposalUnproved
      BY <1>2, <2>3, PutFits
    <2>4. QED
      BY <1>2, <2>1, <2>2, <2>3, StepClasses DEF Begin, BeginAttempt, Kept, vars
  <1>3. QED
    BY <1>1, <1>2, Invariance, PTL DEF Spec

\* Where all dispositions are made and the database is not yet replaced.
BeforeReplace ==
    {"FINAL_STABILITY_INTENT", "FinalStability", "FINAL_STABILITY_CONFIRMED", "SidecarGate",
     "SIDECAR_CHECK_PASSED_PRE", "ReverifyTarget", "STAGING_INTENT", "Stage", "STAGING_COMPLETE",
     "DB_REPLACE_INTENT", "CheckDatabase", "ReplaceDatabase"}

\* In the window before it takes something away a recovery has seen it, and it
\* does not overwrite a database it could not capture.
Watch ==
    kind = "recovery" =>
        /\ pc = "Dispose" => live[handling] = capture[handling]
        /\ pc = "ReplaceDatabase" => Stable("database")
        /\ pc = "RenameAside" => live["config"] = capture["config"]
        /\ pc \in BeforeReplace /\ capture["database"] = "unreadable" => "database" \in Disposed

\* Each window is entered from its check.
LEMMA WindowEntered ==
  ASSUME kind = "recovery", NEW p \in DOMAIN RecoveryOrder
  PROVE  /\ After(p) = "Dispose" => p = "CheckDisposal"
         /\ After(p) = "ReplaceDatabase" => p = "CheckDatabase"
         /\ After(p) = "RenameAside" => p = "CheckConfig"
         /\ After(p) \in BeforeReplace => p \in BeforeReplace
  <1>1. p \notin Failures \cup {"VERIFIED_SUCCESS"}
    BY PlacesApart DEF RecoveryOrder
  <1>2. After(p) \in {RecoveryOrder[p], "CONFIG_INSTALL_INTENT"}
    BY <1>1 DEF After
  <1>3. QED
    BY <1>2 DEF RecoveryOrder, BeforeReplace

\* No window is entered elsewhere.
LEMMA NoWindow ==
  ASSUME IInv, Watch, kind' = kind, pc # "idle",
         Over(pc') \/ pc' = After(pc) \/ pc' = "QUIESCENCE_NOT_APPLICABLE",
         pc \notin {"CheckDisposal", "CheckDatabase", "CheckConfig"},
         done \subseteq done', pc = "Capture" \/ capture' = capture
  PROVE  Watch'
  <1> SUFFICES ASSUME kind = "recovery" PROVE Watch'
    BY DEF Watch
  <1>1. \A p : Over(p) \/ p = "QUIESCENCE_NOT_APPLICABLE" =>
            p \notin BeforeReplace /\ p \notin {"Dispose", "RenameAside", "ReplaceDatabase"}
    BY DEF Over, Failures, FailureState, BeforeReplace
  <1>2. CASE Over(pc') \/ pc' = "QUIESCENCE_NOT_APPLICABLE"
    BY <1>1, <1>2 DEF Watch
  <1>3. CASE pc' = After(pc) /\ ~ Over(pc')
    <2>1. pc \notin Failures \cup {"VERIFIED_SUCCESS"} /\ ~ Over(pc)
      BY <1>3 DEF After, Over
    <2>2. pc \in DOMAIN RecoveryOrder
      BY <2>1 DEF IInv, OrderShape, Order
    <2>3. /\ pc' \notin {"Dispose", "ReplaceDatabase", "RenameAside"}
          /\ pc' \in BeforeReplace => pc \in BeforeReplace
      BY <1>3, <2>2, WindowEntered
    <2>4. pc \in BeforeReplace => pc # "Capture"
      BY DEF BeforeReplace
    <2>5. Disposed \subseteq Disposed'
      BY DEF Disposed
    <2>6. QED
      BY <2>3, <2>4, <2>5 DEF Watch
  <1>4. QED
    BY <1>2, <1>3

\* A window is entered as its check leaves it.
LEMMA WindowChecked ==
  ASSUME IInv, Watch, CheckDisposal \/ CheckDatabase \/ CheckConfig
  PROVE  Watch'
  <1> SUFFICES ASSUME kind = "recovery" PROVE Watch'
    BY DEF Watch, CheckDisposal, CheckDatabase, CheckConfig, Check, attempt
  <1>1. /\ pc \in {"CheckDisposal", "CheckDatabase", "CheckConfig"}
        /\ UNCHANGED <<live, capture, handling, done, kind>>
        /\ pc' = After(pc) \/ Over(pc')
        /\ pc = "CheckDisposal" /\ ~ Over(pc') => live[handling] = capture[handling]
        /\ pc = "CheckDatabase" /\ ~ Over(pc') => Stable("database")
        /\ pc = "CheckConfig" /\ ~ Over(pc') => live["config"] = capture["config"]
    <2>1. \A s \in {"CheckDisposal", "CheckDatabase", "CheckConfig"} : Over(FailureState[s])
      BY FailureFollows DEF FailureState
    <2>2. QED
      BY <2>1 DEF CheckDisposal, CheckDatabase, CheckConfig, Check, ProceedIf, Proceed, Fail, attempt, sources
  <1>2. pc \in DOMAIN RecoveryOrder
    BY <1>1 DEF RecoveryOrder
  <1>3. Disposed' = Disposed /\ (Stable("database"))' = Stable("database")
    BY <1>1 DEF Disposed, Stable
  <1>4. CASE Over(pc')
    BY <1>4 DEF Watch, Over, Failures, FailureState, BeforeReplace
  <1>5. CASE pc' = After(pc) /\ ~ Over(pc')
    BY <1>1, <1>2, <1>3, <1>5, WindowEntered DEF Watch
  <1>6. QED
    BY <1>1, <1>4, <1>5

\* The dispositions are over when none is due.
LEMMA NoneDue ==
  ASSUME IInv, Watch, NextDisposition
  PROVE  Watch'
  <1>1. /\ pc' \in {"idle", "DISPOSITION_INTENT", "FINAL_STABILITY_INTENT"}
        /\ UNCHANGED <<kind, capture, reclass, done>>
    BY DEF NextDisposition, attempt, sources
  <1>2. CASE pc' \in {"idle", "DISPOSITION_INTENT"}
    BY <1>2 DEF Watch, BeforeReplace
  <1>3. CASE pc' = "FINAL_STABILITY_INTENT"
    <2>1. ~ NextTarget("database")
      BY <1>3 DEF NextDisposition, Targets
    <2>2. 1 \in DOMAIN DispositionOrder /\ DispositionOrder[1] = "database"
      BY RestoreAssumption DEF DispositionOrder
    <2>3. ~ (MustDispose("database") /\ "database" \notin Disposed)
      BY <2>1, <2>2 DEF NextTarget
    <2>4. capture["database"] = "unreadable" => "database" \in Disposed
      BY <2>3 DEF MustDispose
    <2>5. Disposed' = Disposed
      BY <1>1 DEF Disposed
    <2>6. QED
      BY <1>1, <1>3, <2>4, <2>5 DEF Watch
  <1>4. QED
    BY <1>1, <1>2, <1>3

\* All other steps enter no window.
LEMMA OtherSteps ==
  ASSUME IInv,
         \/ SomeCheck /\ ~ CheckDisposal /\ ~ CheckDatabase /\ ~ CheckConfig
         \/ SafetyBackup \/ Probe \/ Capture \/ Reclassify
         \/ Record \/ TornRecord \/ Crash \/ StepFails
         \/ ReplaceDatabase \/ RenameAside \/ InstallConfig \/ Dispose \/ DisposalUnproved
  PROVE  /\ kind' = kind /\ pc # "idle"
         /\ Over(pc') \/ pc' = After(pc) \/ pc' = "QUIESCENCE_NOT_APPLICABLE"
         /\ Over(pc') \/ pc \notin {"CheckDisposal", "CheckDatabase", "CheckConfig"}
         /\ done \subseteq done' /\ (pc = "Capture" \/ capture' = capture)
  <1> USE DEF attempt, sources
  <1>1. Over("idle") /\ \A s \in DOMAIN FailureState : Over(FailureState[s])
    BY FailureFollows DEF Over
  <1>2. CASE SomeCheck /\ ~ CheckDisposal /\ ~ CheckDatabase /\ ~ CheckConfig
    BY <1>1, <1>2 DEF SomeCheck, VerifyTarget, CheckSchema, SidecarGate, Stage, Verify, Plan, Reverify,
         CheckChanged, PreMutationStability, FinalStability, ReverifyTarget, CheckVacant, Check,
         ProceedIf, Proceed, Fail, FailureState
  <1>3. CASE SafetyBackup \/ Probe \/ Capture \/ Reclassify
    BY <1>1, <1>3 DEF SafetyBackup, Probe, Capture, Reclassify, ProceedIf, Proceed, Fail, FailureState
  <1>4. CASE Record
    BY <1>4, PlacesApart DEF Record, Proceed, Steps, FailureState
  <1>5. CASE TornRecord \/ Crash
    BY <1>1, <1>5, PlacesApart DEF TornRecord, Crash
  <1>6. CASE StepFails
    BY <1>1, <1>6 DEF StepFails, FailureState
  <1>7. CASE ReplaceDatabase \/ RenameAside \/ InstallConfig \/ Dispose \/ DisposalUnproved
    BY <1>1, <1>7 DEF ReplaceDatabase, RenameAside, InstallConfig, Dispose, DisposalUnproved, Mutation,
         Put, MoveAside, Proceed, Fail, FailureState
  <1>8. QED
    BY <1>2, <1>3, <1>4, <1>5, <1>6, <1>7

\* What was checked is still so at the mutation it was checked for.
LEMMA WatchNext ==
  ASSUME MutationSteps \subseteq Quiet, IInv, Watch, [Next]_vars
  PROVE  Watch'
  <1>1. CASE \E k \in {"restore", "recovery"}, b \in Backups : Begin(k, b)
    BY <1>1 DEF Begin, Watch, BeforeReplace
  <1>2. CASE \E t \in Targets : OthersWrite(t)
    <2>1. pc \notin MutationSteps /\ UNCHANGED <<pc, kind, capture, done>>
      BY <1>2 DEF OthersWrite, sources, attempt
    <2>2. Disposed' = Disposed
      BY <2>1 DEF Disposed
    <2>3. QED
      BY <2>1, <2>2 DEF Watch, MutationSteps
  <1>3. CASE UNCHANGED vars
    BY <1>3 DEF vars, Watch, Stable, Disposed
  <1>4. CASE CheckDisposal \/ CheckDatabase \/ CheckConfig
    BY <1>4, WindowChecked
  <1>5. CASE NextDisposition
    BY <1>5, NoneDue
  <1>6. CASE \/ SomeCheck /\ ~ CheckDisposal /\ ~ CheckDatabase /\ ~ CheckConfig
             \/ SafetyBackup \/ Probe \/ Capture \/ Reclassify
             \/ Record \/ TornRecord \/ Crash \/ StepFails
             \/ ReplaceDatabase \/ RenameAside \/ InstallConfig \/ Dispose \/ DisposalUnproved
    <2>1. /\ kind' = kind /\ pc # "idle"
          /\ Over(pc') \/ pc' = After(pc) \/ pc' = "QUIESCENCE_NOT_APPLICABLE"
          /\ Over(pc') \/ pc \notin {"CheckDisposal", "CheckDatabase", "CheckConfig"}
          /\ done \subseteq done' /\ (pc = "Capture" \/ capture' = capture)
      BY <1>6, OtherSteps
    <2>2. CASE Over(pc')
      BY <2>2 DEF Watch, Over, Failures, FailureState, BeforeReplace
    <2>3. CASE ~ Over(pc')
      BY <2>1, <2>3, NoWindow
    <2>4. QED
      BY <2>2, <2>3
  <1>7. QED
    BY <1>1, <1>2, <1>3, <1>4, <1>5, <1>6, StepClasses

\* What a mutation takes away has been seen.
LEMMA TakesSeen ==
  ASSUME IInv, ObjectShape, Watch, kind = "recovery",
         ReplaceDatabase \/ RenameAside \/ InstallConfig \/ Dispose \/ DisposalUnproved,
         NEW t \in Targets, live'[t] # live[t], live[t] # "missing"
  PROVE  /\ live[t] = capture[t]
         /\ aside'[t] = live[t] \/ Readable(live[t]) \/ live[t] = "unsafe"
  <1>1. /\ live \in [Targets -> Objects] /\ aside \in [Targets -> Objects] /\ handling \in Targets
        /\ {"database", "config"} \subseteq Targets
    BY DEF IInv, TypeOK, Targets
  <1>2. CASE ReplaceDatabase
    <2>1. /\ pc = "ReplaceDatabase" /\ live["database"] # "wrongType"
          /\ live' = [live EXCEPT !["database"] = target.database]
      BY <1>2 DEF ReplaceDatabase, Mutation, Put
    <2>2. t = "database"
      BY <1>1, <2>1
    <2>3. Stable("database") /\ (capture["database"] = "unreadable" => "database" \in Disposed)
      BY <2>1 DEF Watch, BeforeReplace
    <2>4. live["database"] = capture["database"] /\ capture["database"] # "unreadable"
      BY <2>2, <2>3 DEF Stable
    <2>5. live["database"] \in Generations \cup {"corrupt", "unsafe"}
      BY <2>1, <2>2, <2>4 DEF ObjectShape, ObjectsAt
    <2>6. QED
      BY <2>2, <2>4, <2>5 DEF Readable
  <1>3. CASE RenameAside
    <2>1. /\ pc = "RenameAside" /\ live' = [live EXCEPT !["config"] = "missing"]
          /\ aside' = [aside EXCEPT !["config"] = live["config"]]
      BY <1>3 DEF RenameAside, Mutation, MoveAside
    <2>2. QED
      BY <1>1, <2>1 DEF Watch
  <1>4. CASE InstallConfig
    BY <1>1, <1>4 DEF InstallConfig, Mutation, Put
  <1>5. CASE Dispose \/ DisposalUnproved
    <2>1. /\ pc = "Dispose" /\ live' = [live EXCEPT ![handling] = "missing"]
          /\ aside' = [aside EXCEPT ![handling] = live[handling]]
      BY <1>5 DEF Dispose, DisposalUnproved, Mutation, MoveAside
    <2>2. QED
      BY <1>1, <2>1 DEF Watch
  <1>6. QED
    BY <1>2, <1>3, <1>4, <1>5

\* If nobody else writes between the check of a mutation and its rename, which
\* no code can prevent, a recovery takes away only what its capture has seen,
\* however often others write anywhere else.
THEOREM TakesOnlyCaptured ==
  ASSUME MutationSteps \subseteq Quiet
  PROVE  Spec => TakesOnlyWhatItCaptured
  <1>1. Init => Watch
    BY DEF Init, Watch
  <1>2. IInv /\ Watch /\ [Next]_vars => Watch'
    BY WatchNext
  <1>3. ASSUME IInv, ObjectShape, Watch, [Next]_vars
        PROVE  [kind = "recovery" /\ pc' # pc =>
                  \A t \in Targets : live'[t] # live[t] /\ live[t] # "missing" =>
                      /\ live[t] = capture[t]
                      /\ aside'[t] = live[t] \/ Readable(live[t]) \/ live[t] = "unsafe"]_vars
    <2> SUFFICES ASSUME kind = "recovery", pc' # pc,
                        NEW t \in Targets, live'[t] # live[t], live[t] # "missing"
                 PROVE  /\ live[t] = capture[t]
                        /\ aside'[t] = live[t] \/ Readable(live[t]) \/ live[t] = "unsafe"
      OBVIOUS
    <2>1. ReplaceDatabase \/ RenameAside \/ InstallConfig \/ Dispose \/ DisposalUnproved
      BY <1>3, StepClasses DEF Begin, BeginAttempt, OthersWrite, Kept, vars
    <2>2. QED
      BY <1>3, <2>1, TakesSeen
  <1>4. QED
    BY <1>1, <1>2, <1>3, Invariance, ObjectsFit, PTL DEF Spec, TakesOnlyWhatItCaptured


----------------------------------------------------------------------------
(* While nobody else writes: what an attempt knows where.                  *)

\* An attempt is under way or over, and nobody else wrote during it.
Calm == start # NoSnapshot /\ writes = 0

\* Places of a restore after its safety backup, and after its sidecar check.
PastSidecars ==
    {"SIDECAR_CHECK_PASSED_PRE", "STAGING_INTENT", "Stage", "STAGING_COMPLETE", "DB_REPLACE_INTENT",
     "ReplaceDatabase"} \cup PostReplace
PastSafety ==
    {"PRE_RESTORE_SNAPSHOT_COMPLETE", "Probe", "QUIESCENCE_CONFIRMED", "SidecarGate"} \cup PastSidecars

\* Places of a recovery after its dispositions, its stability check, its
\* reclassification, the check of what changed during its capture, its capture.
PastDisposal == BeforeReplace \cup PostReplace
AtDisposal == {"DISPOSITION_INTENT", "CheckDisposal", "Dispose"}
PastStability ==
    {"PRE_MUTATION_STABILITY_CONFIRMED", "Probe", "QUIESCENCE_CONFIRMED", "QUIESCENCE_NOT_APPLICABLE",
     "NextDisposition", "DISPOSITION_COMPLETE"} \cup AtDisposal \cup PastDisposal
PastReclass ==
    {"SOURCE_RECLASSIFIED", "PRE_MUTATION_STABILITY_INTENT", "PreMutationStability"} \cup PastStability
PastChanged == {"SOURCE_RECLASSIFICATION_INTENT", "Reclassify"} \cup PastReclass
PastCapture ==
    {"CAPTURE_COMPLETE", "CAPTURE_REVERIFICATION_INTENT", "Reverify", "CAPTURE_REVERIFIED",
     "CheckChanged"} \cup PastChanged

\* Where the configuration is about to be moved aside, and where it is gone.
Occupied == {"CONFIG_RENAME_ASIDE_INTENT", "CheckConfig", "RenameAside"}
Vacated == {"CONFIG_RENAMED_ASIDE", "CONFIG_INSTALL_INTENT", "CheckVacant", "InstallConfig"}

Healthy(s) == s["database"] \in Generations /\ s["config"] \in Generations
NoVisibleSidecar(s) == \A t \in Suffixes : s[t] \in {"missing", "dangling"}

\* What a recovery that began with s must dispose of.
Due(s) ==
    {t \in Targets : IF t = "database" THEN s[t] \in {"wrongType", "unreadable"}
                     ELSE IF t = "config" THEN s[t] = "wrongType"
                     ELSE s[t] = "regular"}

\* A restore: its safety backup is what it began with.
RestoreCourse ==
    kind = "restore" =>
        /\ pc \in PastSafety => safety = start /\ Healthy(start)
        /\ pc \in PastSidecars => NoVisibleSidecar(start)
        /\ pc \notin PostReplace => done = {}
        /\ Disposed = {}

\* A recovery: its capture and its classification are what it began with, and it
\* disposes of what is due.
RecoveryCourse ==
    kind = "recovery" =>
        /\ pc \in PastCapture =>
              \/ capture = start
              \/ pc \notin PastChanged /\ "Capture" \notin Quiet /\ \E t \in Targets : capture[t] = "changed"
        /\ pc \in PastReclass => reclass = start /\ FitForRecovery(start)
        /\ pc \notin PastStability => done = {}
        /\ Disposed \subseteq Due(start)
        /\ pc \in PastDisposal => Due(start) \subseteq Disposed
        /\ pc \in AtDisposal => handling \in Due(start) \ Disposed

\* Both: the replacement, the renaming and the installation are made in order.
CommonCourse ==
    /\ <<"DB_REPLACE", "database">> \in done <=> pc \in PostReplace
    /\ <<"CONFIG_INSTALL", "config">> \in done <=> pc \in PostInstall
    /\ <<"CONFIG_RENAME_ASIDE", "config">> \in done => pc \in Vacated \cup PostInstall
    /\ pc \in Vacated => live["config"] = "missing"
    /\ pc \in Occupied => live["config"] = start["config"] /\ start["config"] # "missing"

Course == Calm /\ ~ Over(pc) => RestoreCourse /\ RecoveryCourse /\ CommonCourse

\* An attempt that is over installed the backup if and only if that was right.
Fit == IF kind = "restore" THEN FitForRestore(start) ELSE FitForRecovery(start)
Installed == <<"CONFIG_INSTALL", "config">> \in done
Outcome == Calm /\ Over(pc) /\ ~ fault => (Installed <=> Fit)

\* What was live when an attempt began could be there.
StartFits == start # NoSnapshot => \A t \in Targets : start[t] \in ObjectsAt(t)

\* A running attempt that is alone, with all that is shown of it.
Ground ==
    /\ IInv /\ Accounted /\ StartFits
    /\ Calm /\ ~ Over(pc)
    /\ RestoreCourse /\ RecoveryCourse /\ CommonCourse

\* Sidecars are neither the database nor the configuration.
LEMMA TargetsApart ==
  /\ "database" \in Targets /\ "config" \in Targets /\ "database" # "config"
  /\ Suffixes \subseteq Targets /\ "database" \notin Suffixes /\ "config" \notin Suffixes
  /\ Targets = {"database", "config"} \cup Suffixes
  BY RestoreAssumption DEF Targets

\* What is live, by what was done.
LEMMA LiveNow ==
  ASSUME IInv, Accounted, Calm
  PROVE  /\ \A t \in Suffixes : live[t] = IF t \in Disposed THEN "missing" ELSE start[t]
         /\ <<"DB_REPLACE", "database">> \in done => live["database"] = target.database
         /\ <<"DB_REPLACE", "database">> \notin done =>
               live["database"] = IF "database" \in Disposed THEN "missing" ELSE start["database"]
         /\ Installed => live["config"] = target.config
         /\ ~ Installed =>
               live["config"] = IF "config" \in Disposed \/ <<"CONFIG_RENAME_ASIDE", "config">> \in done
                                THEN "missing" ELSE start["config"]
  <1>1. live = LiveAfter(done) /\ done \subseteq Mutations
    BY DEF Accounted, Calm, IInv, TypeOK
  <1>2. ASSUME NEW t \in Targets
        PROVE  /\ <<"DB_REPLACE", t>> \in done => t = "database"
               /\ <<"CONFIG_INSTALL", t>> \in done => t = "config"
               /\ <<"CONFIG_RENAME_ASIDE", t>> \in done => t = "config"
               /\ t \in Disposed <=> <<"DISPOSITION", t>> \in done
    BY <1>1 DEF Mutations, Disposed
  <1>3. ASSUME NEW t \in Targets
        PROVE  live[t] = IF <<"DB_REPLACE", t>> \in done THEN target.database
                         ELSE IF <<"CONFIG_INSTALL", t>> \in done THEN target.config
                         ELSE IF t \in Disposed \/ <<"CONFIG_RENAME_ASIDE", t>> \in done THEN "missing"
                         ELSE start[t]
    BY <1>1, <1>2 DEF LiveAfter
  <1>4. ASSUME NEW t \in Suffixes
        PROVE  live[t] = IF t \in Disposed THEN "missing" ELSE start[t]
    BY <1>2, <1>3, TargetsApart
  <1>5. QED
    BY <1>2, <1>3, <1>4, TargetsApart DEF Installed

\* The places of both orders follow each other as they are named.
LEMMA CommonLeads ==
  ASSUME kind \in {"restore", "recovery"}, NEW p \in Order(kind), ~ Over(p)
  PROVE  /\ After(p) \in PostReplace <=> p \in PostReplace \cup {"ReplaceDatabase"}
         /\ After(p) \in PostInstall <=> p \in PostInstall \cup {"InstallConfig"}
         /\ p \in (Vacated \ {"InstallConfig"}) \cup PostInstall => After(p) \in Vacated \cup PostInstall
         /\ After(p) \in Vacated =>
               \/ p \in (Vacated \ {"InstallConfig"}) \cup {"RenameAside"}
               \/ p = "DB_REPLACED" /\ ConfigVacant
         /\ After(p) \in Occupied =>
               \/ p \in Occupied \ {"RenameAside"}
               \/ p = "DB_REPLACED" /\ ~ ConfigVacant
  <1>1. p \notin Failures \cup {"VERIFIED_SUCCESS"}
    BY DEF Over, Order, RestoreOrder, RecoveryOrder
  <1> USE DEF PostReplace, PostInstall, Vacated, Occupied
  <1>2. CASE kind = "restore"
    BY <1>1, <1>2 DEF After, ConfigVacant, Order, RestoreOrder
  <1>3. CASE kind = "recovery" /\ p = "DB_REPLACED" /\ ConfigVacant
    BY <1>1, <1>3 DEF After
  <1>4. CASE kind = "recovery" /\ ~ (p = "DB_REPLACED" /\ ConfigVacant)
    <2>1. After(p) = RecoveryOrder[p]
      BY <1>1, <1>4 DEF After
    <2>2. QED
      BY <1>4, <2>1 DEF Order, RecoveryOrder
  <1>5. QED
    BY <1>2, <1>3, <1>4

\* Those of a restore.
LEMMA RestoreLeads ==
  ASSUME kind = "restore", NEW p \in Order(kind), ~ Over(p)
  PROVE  /\ After(p) \in PastSafety => p \in PastSafety \cup {"SafetyBackup"}
         /\ After(p) \in PastSidecars => p \in PastSidecars \cup {"SidecarGate"}
  <1>1. After(p) = RestoreOrder[p]
    BY DEF After, ConfigVacant, Over, Order, RestoreOrder
  <1>2. QED
    BY <1>1 DEF Order, RestoreOrder, PastSafety, PastSidecars, PostReplace, PostInstall

\* Those of a recovery.
LEMMA RecoveryLeads ==
  ASSUME kind = "recovery", NEW p \in Order(kind), ~ Over(p)
  PROVE  /\ After(p) \in PastCapture => p \in PastCapture \cup {"Capture"}
         /\ After(p) \in PastChanged => p \in PastChanged \cup {"CheckChanged"}
         /\ After(p) \in PastReclass => p \in PastReclass \cup {"Reclassify"}
         /\ p \in PastStability => After(p) \in PastStability
         /\ After(p) \in PastDisposal => p \in PastDisposal
         /\ After(p) \in AtDisposal => p \in (AtDisposal \ {"Dispose"}) \cup {"NextDisposition"}
         /\ p \in PastChanged => After(p) \in PastChanged
  <1>1. p \notin Failures \cup {"VERIFIED_SUCCESS"}
    BY DEF Over, Order, RecoveryOrder
  <1> USE DEF Order, RecoveryOrder, PastCapture, PastChanged, PastReclass, PastStability, PastDisposal,
              AtDisposal, BeforeReplace, PostReplace, PostInstall
  <1>2. CASE p = "DB_REPLACED" /\ ConfigVacant
    BY <1>1, <1>2 DEF After
  <1>3. CASE ~ (p = "DB_REPLACED" /\ ConfigVacant)
    <2>1. After(p) = RecoveryOrder[p]
      BY <1>1, <1>3 DEF After
    <2>2. QED
      BY <2>1
  <1>4. QED
    BY <1>2, <1>3

\* A place of its order that an attempt leaves.
LEMMA LeavesPlace ==
  ASSUME IInv, ~ Over(pc), pc' = After(pc), ~ Over(pc')
  PROVE  pc \in Order(kind) /\ kind \in {"restore", "recovery"}
  <1>1. pc # "VERIFIED_SUCCESS"
    BY DEF After, Over
  <1>2. QED
    BY <1>1 DEF IInv, TypeOK, OrderShape

\* At the end of the replacement the configuration is live or vacant as
\* ConfigVacant says.
LEMMA VacantOrNot ==
  ASSUME Ground, pc = "DB_REPLACED"
  PROVE  /\ ConfigVacant => live["config"] = "missing"
         /\ ~ ConfigVacant => live["config"] = start["config"] /\ start["config"] # "missing"
  <1>1. ~ Installed /\ <<"CONFIG_RENAME_ASIDE", "config">> \notin done
    BY DEF Ground, CommonCourse, Installed, PostInstall, Vacated
  <1>2. live["config"] = IF "config" \in Disposed THEN "missing" ELSE start["config"]
    BY <1>1, LiveNow DEF Ground
  <1>3. CASE kind = "restore"
    <2>1. Healthy(start) /\ Disposed = {}
      BY <1>3 DEF Ground, RestoreCourse, PastSafety, PastSidecars, PostReplace
    <2>2. "missing" \notin Generations
      BY RestoreAssumption DEF Conditions
    <2>3. QED
      BY <1>2, <1>3, <2>1, <2>2 DEF ConfigVacant, Healthy
  <1>4. CASE kind = "recovery"
    <2>1. reclass = start
      BY <1>4 DEF Ground, RecoveryCourse, PastReclass, PastStability, PastDisposal, PostReplace
    <2>2. QED
      BY <1>2, <1>4, <2>1 DEF ConfigVacant
  <1>5. QED
    BY <1>3, <1>4 DEF Ground, IInv, TypeOK

\* A step that makes no mutation and chooses no disposition goes on, if it found
\* what its place is for.
LEMMA Onward ==
  ASSUME Ground, pc' = After(pc), ~ Over(pc'),
         UNCHANGED <<live, start, done, kind, handling, writes>>,
         pc \notin MutationSteps \cup {"NextDisposition"},
         kind = "restore" =>
            /\ IF pc = "SafetyBackup" THEN safety' = start /\ Healthy(start) ELSE safety' = safety
            /\ pc = "SidecarGate" => NoVisibleSidecar(start),
         kind = "recovery" =>
            /\ IF pc = "Capture"
               THEN capture' = start \/ ("Capture" \notin Quiet /\ \E t \in Targets : capture'[t] = "changed")
               ELSE capture' = capture
            /\ pc = "CheckChanged" => capture = start
            /\ IF pc = "Reclassify" THEN reclass' = start /\ FitForRecovery(start) ELSE reclass' = reclass
  PROVE  RestoreCourse' /\ RecoveryCourse' /\ CommonCourse'
  <1> USE DEF Ground
  <1>1. pc \in Order(kind) /\ kind \in {"restore", "recovery"}
    BY LeavesPlace
  <1>2. Disposed' = Disposed /\ pc \notin {"ReplaceDatabase", "RenameAside", "InstallConfig", "Dispose"}
    BY DEF Disposed, MutationSteps
  <1>3. CommonCourse'
    <2>1. /\ pc' \in PostReplace <=> pc \in PostReplace
          /\ pc' \in PostInstall <=> pc \in PostInstall
          /\ pc \in Vacated \cup PostInstall => pc' \in Vacated \cup PostInstall
      BY <1>1, <1>2, CommonLeads
    <2>2. pc' \in Vacated => live["config"] = "missing"
      BY <1>1, <1>2, CommonLeads, VacantOrNot DEF CommonCourse
    <2>3. pc' \in Occupied => live["config"] = start["config"] /\ start["config"] # "missing"
      BY <1>1, <1>2, CommonLeads, VacantOrNot DEF CommonCourse
    <2>4. QED
      BY <2>1, <2>2, <2>3 DEF CommonCourse
  <1>4. CASE kind = "restore"
    <2>1. /\ pc' \in PastSafety => pc \in PastSafety \cup {"SafetyBackup"}
          /\ pc' \in PastSidecars => pc \in PastSidecars \cup {"SidecarGate"}
      BY <1>1, <1>4, RestoreLeads
    <2>2. pc' \notin PostReplace => pc \notin PostReplace
      BY <1>1, CommonLeads
    <2>3. "SafetyBackup" \notin PastSafety
      BY DEF PastSafety, PastSidecars, PostReplace, PostInstall
    <2>4. QED
      BY <1>2, <1>3, <1>4, <2>1, <2>2, <2>3 DEF RestoreCourse, RecoveryCourse
  <1>5. CASE kind = "recovery"
    <2>1. /\ pc' \in PastCapture => pc \in PastCapture \cup {"Capture"}
          /\ pc' \in PastChanged => pc \in PastChanged \cup {"CheckChanged"}
          /\ pc' \in PastReclass => pc \in PastReclass \cup {"Reclassify"}
          /\ pc \in PastStability => pc' \in PastStability
          /\ pc' \in PastDisposal => pc \in PastDisposal
          /\ pc' \in AtDisposal => pc \in AtDisposal
          /\ pc \in PastChanged => pc' \in PastChanged
      BY <1>1, <1>2, <1>5, RecoveryLeads
    <2>2. /\ "Capture" \notin PastCapture /\ "CheckChanged" \notin PastChanged
          /\ "Reclassify" \in PastChanged /\ "CheckChanged" \in PastCapture /\ PastReclass \subseteq PastChanged
          /\ PastChanged \subseteq PastCapture /\ "Reclassify" \notin PastReclass
      BY DEF PastCapture, PastChanged, PastReclass, PastStability, PastDisposal, AtDisposal, BeforeReplace,
             PostReplace, PostInstall
    <2>3. pc' \in PastCapture =>
              \/ capture' = start
              \/ pc' \notin PastChanged /\ "Capture" \notin Quiet /\ \E t \in Targets : capture'[t] = "changed"
      <3>1. CASE pc = "Capture"
        <4>1. pc' \notin PastChanged
          BY <2>1, <2>2, <3>1
        <4>2. QED
          BY <1>5, <3>1, <4>1
      <3>2. CASE pc = "CheckChanged"
        BY <1>5, <3>2
      <3>3. CASE pc \notin {"Capture", "CheckChanged"}
        BY <1>5, <2>1, <3>3 DEF RecoveryCourse
      <3>4. QED
        BY <3>1, <3>2, <3>3
    <2>4. pc' \in PastReclass => reclass' = start /\ FitForRecovery(start)
      BY <1>5, <2>1, <2>2 DEF RecoveryCourse
    <2>5. FitForRecovery(start)' = FitForRecovery(start) /\ Due(start)' = Due(start)
      BY DEF FitForRecovery, Due
    <2>6. RecoveryCourse'
      BY <1>2, <1>5, <2>1, <2>3, <2>4, <2>5 DEF RecoveryCourse
    <2>7. QED
      BY <1>3, <1>5, <2>6 DEF RestoreCourse
  <1>6. QED
    BY <1>1, <1>4, <1>5

\* Which kind of attempt makes which step.
LEMMA KindOfStep ==
  ASSUME IInv, ~ Over(pc)
  PROVE  /\ kind \in {"restore", "recovery"}
         /\ pc = "SafetyBackup" => kind = "restore"
         /\ pc \in {"Plan", "Capture", "CheckChanged", "Reclassify", "PreMutationStability", "NextDisposition",
                    "CheckDisposal", "Dispose", "FinalStability", "CheckDatabase", "CheckConfig", "CheckVacant"}
               => kind = "recovery"
  BY DEF IInv, TypeOK, OrderShape, Order, RestoreOrder, RecoveryOrder

\* Before anything is done all is live as it was.
LEMMA Untouched ==
  ASSUME Ground, done = {}
  PROVE  live = start
  <1>1. live = LiveAfter({}) /\ live \in [Targets -> Objects]
    BY DEF Ground, Accounted, Calm, IInv, TypeOK
  <1>2. start \in [Targets -> Objects]
    BY DEF Ground, Calm, IInv, TypeOK, Snapshots
  <1>3. LiveAfter({}) = [t \in Targets |-> start[t]]
    BY DEF LiveAfter
  <1>4. QED
    BY <1>1, <1>2, <1>3

\* What a plan looks at is what makes a recovery fit.
LEMMA PlansFit ==
  ASSUME Ground, pc \in {"Plan", "Reclassify"}
  PROVE  live = start /\ (WouldProceed <=> FitForRecovery(start)) /\ ~ Installed
  <1>1. kind = "recovery"
    BY KindOfStep DEF Ground
  <1>2. pc \notin PastStability
    BY DEF PastStability, AtDisposal, PastDisposal, BeforeReplace, PostReplace, PostInstall
  <1>3. done = {}
    BY <1>1, <1>2 DEF Ground, RecoveryCourse
  <1>4. QED
    BY <1>3, Untouched DEF WouldProceed, FitForRecovery, Installed

\* Neither sidecar check stops an attempt that is fit, nor does the last one.
LEMMA SidecarsGone ==
  ASSUME Ground, pc \in {"SidecarGate", "Verify"}
  PROVE  /\ kind = "restore" => (NoSidecars <=> NoVisibleSidecar(start))
         /\ kind = "recovery" => NoSidecars
         /\ kind = "restore" /\ pc = "Verify" => NoVisibleSidecar(start)
  <1>1. \A t \in Suffixes : live[t] = IF t \in Disposed THEN "missing" ELSE start[t]
    BY LiveNow DEF Ground
  <1>2. CASE kind = "restore"
    <2>1. Disposed = {}
      BY <1>2 DEF Ground, RestoreCourse
    <2>2. "Verify" \in PastSidecars
      BY DEF PastSidecars, PostReplace, PostInstall
    <2>3. QED
      BY <1>1, <1>2, <2>1, <2>2 DEF NoSidecars, NoVisibleSidecar, Ground, RestoreCourse
  <1>3. CASE kind = "recovery"
    <2>1. pc \in PastReclass /\ pc \in PastDisposal
      BY DEF PastReclass, PastStability, PastDisposal, BeforeReplace, PostReplace, PostInstall
    <2>2. FitForRecovery(start) /\ Due(start) \subseteq Disposed
      BY <1>3, <2>1 DEF Ground, RecoveryCourse
    <2>3. ASSUME NEW t \in Suffixes
          PROVE  live[t] = "missing"
      <3>1. start[t] \in {"missing", "regular"}
        BY <2>2 DEF FitForRecovery
      <3>2. start[t] = "regular" => t \in Due(start)
        BY TargetsApart DEF Due
      <3>3. QED
        BY <1>1, <2>2, <3>1, <3>2
    <2>4. QED
      BY <1>3, <2>3 DEF NoSidecars
  <1>4. QED
    BY <1>2, <1>3 DEF Ground, IInv, TypeOK

\* Until its database is replaced, a recovery finds each path as captured or
\* disposed of.
LEMMA AsCaptured ==
  ASSUME Ground, kind = "recovery", pc \in PastReclass, pc \notin PostReplace
  PROVE  /\ capture = start /\ reclass = start /\ FitForRecovery(start)
         /\ \A t \in Targets : live[t] = IF t \in Disposed THEN "missing" ELSE start[t]
  <1>1. pc \in PastChanged /\ pc \in PastCapture
    BY DEF PastChanged, PastCapture
  <1>2. capture = start /\ reclass = start /\ FitForRecovery(start)
    BY <1>1 DEF Ground, RecoveryCourse
  <1>3. <<"DB_REPLACE", "database">> \notin done /\ ~ Installed /\ <<"CONFIG_RENAME_ASIDE", "config">> \notin done
    BY DEF Ground, CommonCourse, Installed, PostReplace, Vacated
  <1>4. QED
    BY <1>2, <1>3, LiveNow, TargetsApart DEF Ground

\* The checks bound to mutations, and the two of everything, find what they expect.
LEMMA FoundAsSeen ==
  ASSUME Ground
  PROVE  /\ pc = "PreMutationStability" => \A t \in Targets : live[t] = capture[t]
         /\ pc = "CheckDisposal" => live[handling] = capture[handling]
         /\ pc = "FinalStability" => \A t \in Targets : Stable(t)
         /\ pc = "CheckDatabase" => Stable("database")
         /\ pc = "CheckConfig" => live["config"] = capture["config"]
         /\ pc = "CheckVacant" => live["config"] = "missing"
  <1> USE DEF PastReclass, PastStability, PastDisposal, AtDisposal, BeforeReplace, PostReplace, PostInstall
  <1>0. handling \in Targets
    BY DEF Ground, IInv, TypeOK
  <1>1. CASE pc = "PreMutationStability"
    <2>1. kind = "recovery"
      BY <1>1, KindOfStep DEF Ground
    <2>2. done = {} /\ capture = start
      BY <1>1, <2>1, AsCaptured DEF Ground, RecoveryCourse
    <2>3. QED
      BY <1>1, <2>2, Untouched
  <1>2. CASE pc = "CheckDisposal"
    <2>1. kind = "recovery"
      BY <1>2, KindOfStep DEF Ground
    <2>2. handling \notin Disposed
      BY <1>2, <2>1 DEF Ground, RecoveryCourse
    <2>3. QED
      BY <1>0, <1>2, <2>1, <2>2, AsCaptured
  <1>3. CASE pc \in {"FinalStability", "CheckDatabase"}
    <2>1. kind = "recovery"
      BY <1>3, KindOfStep DEF Ground
    <2>2. QED
      BY <1>3, <2>1, AsCaptured, TargetsApart DEF Stable
  <1>4. CASE pc = "CheckConfig"
    <2>1. kind = "recovery"
      BY <1>4, KindOfStep DEF Ground
    <2>2. capture = start
      BY <1>4, <2>1 DEF Ground, RecoveryCourse, PastCapture, PastChanged
    <2>3. QED
      BY <1>4, <2>2 DEF Ground, CommonCourse, Occupied
  <1>5. CASE pc = "CheckVacant"
    BY <1>5 DEF Ground, CommonCourse, Vacated
  <1>6. QED
    BY <1>1, <1>2, <1>3, <1>4, <1>5

\* Every object of an attempt that is alone is captured whole.
LEMMA CapturedWhole ==
  ASSUME Ground, pc = "CheckChanged"
  PROVE  /\ (\A t \in Targets : capture[t] # "changed") => capture = start
         /\ "Capture" \in Quiet => \A t \in Targets : capture[t] # "changed"
  <1>1. kind = "recovery" /\ pc \in PastCapture
    BY KindOfStep DEF Ground, PastCapture
  <1>2. capture = start \/ ("Capture" \notin Quiet /\ \E t \in Targets : capture[t] = "changed")
    BY <1>1 DEF Ground, RecoveryCourse
  <1>3. \A t \in Targets : start[t] # "changed"
    BY RestoreAssumption DEF Ground, StartFits, Calm, ObjectsAt, Conditions
  <1>4. QED
    BY <1>2, <1>3

\* A set of natural numbers that is not empty has a least element.
LEMMA Least ==
  ASSUME NEW T \in SUBSET Nat, T # {}
  PROVE  \E m \in T : \A k \in T : m <= k
  <1>1. PICK x \in T : \A y \in T : ~ (<<y, x>> \in OpToRel(<, Nat))
    BY NatLessThanWellFounded, WFMin, Zenon
  <1>2. \A y \in T : <<y, x>> \in OpToRel(<, Nat) <=> y < x
    BY DEF OpToRel
  <1>3. \A y \in T : ~ (y < x)
    BY <1>1, <1>2, Zenon
  <1>4. QED
    BY <1>3

\* Every path has its turn in the order of dispositions.
LEMMA InTurn ==
  /\ \A i \in DOMAIN DispositionOrder : DispositionOrder[i] \in Targets
  /\ \A t \in Targets : \E i \in DOMAIN DispositionOrder : DispositionOrder[i] = t
  /\ DOMAIN DispositionOrder \subseteq Nat
  <1> DEFINE S == SidecarSuffixes
             D == DispositionOrder
  <1>1. S \in Seq(STRING) /\ Len(S) \in Nat /\ DOMAIN S = 1 .. Len(S)
    BY RestoreAssumption
  <1>2. DOMAIN D = 1 .. (2 + Len(S)) /\ D[1] = "database" /\ D[2] = "config"
    BY <1>1 DEF DispositionOrder
  <1>3. \A i \in 1 .. Len(S) : D[i + 2] = S[i]
    BY <1>1 DEF DispositionOrder
  <1>4. ASSUME NEW i \in DOMAIN D
        PROVE  D[i] \in Targets
    <2>1. CASE i \in {1, 2}
      BY <1>2, <2>1 DEF Targets
    <2>2. CASE i \notin {1, 2}
      <3>1. i - 2 \in 1 .. Len(S) /\ (i - 2) + 2 = i
        BY <1>1, <1>2, <2>2
      <3>2. D[i] = S[i - 2]
        BY <1>3, <3>1
      <3>3. QED
        BY <1>1, <3>1, <3>2 DEF Targets, Suffixes
    <2>3. QED
      BY <2>1, <2>2
  <1>5. ASSUME NEW t \in Targets
        PROVE  \E i \in DOMAIN D : D[i] = t
    <2>1. CASE t \in {"database", "config"}
      BY <1>1, <1>2, <2>1
    <2>2. CASE t \in Suffixes
      <3>1. PICK i \in 1 .. Len(S) : t = S[i]
        BY <1>1, <2>2 DEF Suffixes
      <3>2. i + 2 \in DOMAIN D /\ D[i + 2] = t
        BY <1>1, <1>2, <1>3, <3>1
      <3>3. QED
        BY <3>2
    <2>3. QED
      BY <2>1, <2>2 DEF Targets
  <1>6. DOMAIN D \subseteq Nat
    BY <1>1, <1>2
  <1>7. QED
    BY <1>4, <1>5, <1>6

\* While something is due and not disposed of, there is a next path.
LEMMA NextExists ==
  ASSUME NEW t \in Targets, MustDispose(t), t \notin Disposed
  PROVE  \E u \in Targets : NextTarget(u)
  <1> DEFINE D == DispositionOrder
             T == {i \in DOMAIN D : MustDispose(D[i]) /\ D[i] \notin Disposed}
  <1>1. T \in SUBSET Nat /\ T # {}
    BY InTurn
  <1>2. PICK m \in T : \A k \in T : m <= k
    BY <1>1, Least
  <1>3. m \in Nat /\ m \in DOMAIN D /\ DOMAIN D = 1 .. Len(D) /\ Len(D) \in Nat
    BY <1>1, RestoreAssumption DEF DispositionOrder
  <1>4. \A j \in 1 .. m - 1 : MustDispose(D[j]) => D[j] \in Disposed
    <2>1. ASSUME NEW j \in 1 .. m - 1, MustDispose(D[j]), D[j] \notin Disposed
          PROVE  FALSE
      <3>1. j \in T /\ j < m
        BY <1>3, <2>1
      <3>2. QED
        BY <1>2, <1>3, <3>1
    <2>2. QED
      BY <2>1
  <1>5. NextTarget(D[m]) /\ D[m] \in Targets
    BY <1>2, <1>3, <1>4, InTurn DEF NextTarget
  <1>6. QED
    BY <1>5

\* The dispositions of a recovery that is alone are the ones that are due; it
\* never has to guess about the configuration.
LEMMA NextCourse ==
  ASSUME Ground, NextDisposition
  PROVE  /\ pc' # "idle"
         /\ RestoreCourse' /\ RecoveryCourse' /\ CommonCourse'
  <1> USE DEF Ground
  <1>1. pc = "NextDisposition" /\ kind = "recovery"
    BY KindOfStep DEF NextDisposition
  <1>2. UNCHANGED <<live, done, kind, start, capture, reclass>> /\ Disposed' = Disposed
    BY DEF NextDisposition, sources, attempt, Disposed
  <1>3. /\ pc \in PastReclass /\ pc \in PastStability /\ pc \notin PostReplace /\ pc \notin PostInstall
        /\ "FINAL_STABILITY_INTENT" \in PastReclass \cap PastStability \cap PastDisposal
        /\ "DISPOSITION_INTENT" \in PastReclass \cap PastStability
        /\ "FINAL_STABILITY_INTENT" \notin AtDisposal /\ "DISPOSITION_INTENT" \notin PastDisposal
        /\ {"FINAL_STABILITY_INTENT", "DISPOSITION_INTENT"}
              \cap (PostReplace \cup PostInstall \cup Vacated \cup Occupied) = {}
        /\ pc \notin Vacated \cup PostInstall
    BY <1>1 DEF PastReclass, PastStability, PastDisposal, AtDisposal, BeforeReplace, PostReplace, PostInstall,
                Vacated, Occupied
  <1>4. capture = start /\ reclass = start /\ FitForRecovery(start)
    BY <1>1, <1>3, AsCaptured
  <1>5. \A t \in Targets : MustDispose(t) <=> t \in Due(start)
    BY <1>4 DEF MustDispose, Due
  <1>6. \A t : NextTarget(t) => MustDispose(t) /\ t \notin Disposed
    BY DEF NextTarget
  <1>7. pc' \in {"DISPOSITION_INTENT", "FINAL_STABILITY_INTENT"} => CommonCourse'
    BY <1>2, <1>3 DEF CommonCourse
  <1>8. ASSUME NEW t \in Targets, NextTarget(t), handling' = t,
               IF t = "config" /\ capture[t] \in Generations \cup {"corrupt"}
               THEN pc' = "idle" ELSE pc' = "DISPOSITION_INTENT"
        PROVE  pc' = "DISPOSITION_INTENT" /\ handling' \in Due(start) \ Disposed
    <2>1. t \in Due(start) \ Disposed
      BY <1>5, <1>6, <1>8
    <2>2. t = "config" => capture[t] = "wrongType"
      BY <1>4, <2>1 DEF Due
    <2>3. "wrongType" \notin Generations \cup {"corrupt"}
      BY RestoreAssumption DEF Conditions
    <2>4. QED
      BY <1>8, <2>1, <2>2, <2>3
  <1>9. ASSUME \A t \in Targets : ~ NextTarget(t)
         PROVE  Due(start) \subseteq Disposed
    <2>1. Due(start) \subseteq Targets
      BY DEF Due
    <2>2. QED
      BY <1>5, <1>9, <2>1, NextExists
  <1>10. \/ pc' = "DISPOSITION_INTENT" /\ handling' \in Due(start) \ Disposed
         \/ pc' = "FINAL_STABILITY_INTENT" /\ Due(start) \subseteq Disposed
    BY <1>8, <1>9 DEF NextDisposition
  <1>11. Due(start)' = Due(start) /\ FitForRecovery(start)' = FitForRecovery(start)
    BY <1>2 DEF Due, FitForRecovery
  <1>12. RecoveryCourse'
    BY <1>1, <1>2, <1>3, <1>4, <1>10, <1>11 DEF RecoveryCourse
  <1>13. QED
    BY <1>1, <1>2, <1>7, <1>10, <1>12 DEF RestoreCourse

\* What is due is of the type it was found with, and is moved aside.
LEMMA DisposeCourse ==
  ASSUME Ground, pc = "Dispose"
  PROVE  /\ TypeAsExpected(handling) /\ kind = "recovery"
         /\ live[handling] = start[handling]
         /\ handling \notin Disposed
         /\ MoveAside(handling, "DISPOSITION") /\ pc' = "DISPOSITION_COMPLETE"
            /\ UNCHANGED <<sources, attempt, writes>>
              => RestoreCourse' /\ RecoveryCourse' /\ CommonCourse'
  <1> USE DEF Ground
  <1>1. kind = "recovery" /\ handling \in Targets
    BY KindOfStep DEF IInv, TypeOK
  <1>2. /\ pc \in PastReclass /\ pc \in AtDisposal /\ pc \notin PostReplace /\ pc \notin PostInstall
        /\ pc \notin Vacated
        /\ "DISPOSITION_COMPLETE" \in PastReclass \cap PastStability
        /\ "DISPOSITION_COMPLETE" \notin PastDisposal \cup AtDisposal \cup PostReplace \cup PostInstall
                                          \cup Vacated \cup Occupied
    BY DEF PastReclass, PastStability, PastDisposal, AtDisposal, BeforeReplace, PostReplace, PostInstall,
           Vacated, Occupied
  <1>3. /\ capture = start /\ reclass = start /\ FitForRecovery(start)
        /\ handling \in Due(start) /\ handling \notin Disposed /\ live[handling] = start[handling]
    BY <1>1, <1>2, AsCaptured DEF RecoveryCourse
  <1>4. TypeAsExpected(handling)
    BY <1>3, TargetsApart DEF TypeAsExpected, Due
  <1>5. ASSUME MoveAside(handling, "DISPOSITION"), pc' = "DISPOSITION_COMPLETE",
               UNCHANGED <<sources, attempt, writes>>
        PROVE  RestoreCourse' /\ RecoveryCourse' /\ CommonCourse'
    <2>1. done' = done \cup {<<"DISPOSITION", handling>>} /\ UNCHANGED <<capture, reclass, start, kind>>
      BY <1>5 DEF MoveAside, sources, attempt
    <2>2. Disposed' = Disposed \cup {handling}
      BY <1>1, <2>1 DEF Disposed
    <2>3. Due(start)' = Due(start) /\ FitForRecovery(start)' = FitForRecovery(start)
      BY <2>1 DEF Due, FitForRecovery
    <2>4. RecoveryCourse'
      BY <1>1, <1>2, <1>3, <1>5, <2>1, <2>2, <2>3 DEF RecoveryCourse
    <2>5. CommonCourse'
      BY <1>2, <1>5, <2>1 DEF CommonCourse
    <2>6. QED
      BY <1>1, <2>1, <2>4, <2>5 DEF RestoreCourse
  <1>6. QED
    BY <1>1, <1>3, <1>4, <1>5

\* No directory is at the path of the database when it is replaced.
LEMMA ReplaceCourse ==
  ASSUME Ground, pc = "ReplaceDatabase"
  PROVE  /\ live["database"] # "wrongType"
         /\ kind = "restore" => safety = start
         /\ kind = "recovery" =>
               /\ capture = start
               /\ live["database"] \in {"missing", start["database"]}
               /\ live["database"] # "missing" => Readable(start["database"])
         /\ Put("database", target.database, "DB_REPLACE") /\ pc' = "DB_REPLACED"
            /\ UNCHANGED <<sources, attempt, handling, writes>>
              => RestoreCourse' /\ RecoveryCourse' /\ CommonCourse'
  <1> USE DEF Ground
  <1>1. kind \in {"restore", "recovery"}
    BY DEF IInv, TypeOK
  <1>2. /\ pc \in PastSafety \cap PastSidecars \cap PastReclass \cap PastDisposal \cap PastCapture
        /\ pc \notin PostReplace \cup PostInstall \cup Vacated
        /\ "DB_REPLACED" \in PostReplace \cap PastReclass \cap PastDisposal \cap PastStability
        /\ "DB_REPLACED" \notin AtDisposal \cup PostInstall \cup Vacated \cup Occupied
    BY DEF PastSafety, PastSidecars, PastReclass, PastStability, PastDisposal, PastCapture, PastChanged,
           AtDisposal, BeforeReplace, PostReplace, PostInstall, Vacated, Occupied
  <1>3. {"missing", "corrupt", "unreadable", "wrongType", "unsafe", "regular"} \cap Generations = {}
    BY RestoreAssumption DEF Conditions
  <1>4. ASSUME kind = "restore"
        PROVE  live["database"] # "wrongType" /\ safety = start
    <2>1. safety = start /\ Healthy(start) /\ Disposed = {}
      BY <1>2, <1>4 DEF RestoreCourse
    <2>2. live["database"] = start["database"]
      BY <1>2, <2>1, LiveNow DEF CommonCourse
    <2>3. QED
      BY <1>3, <1>4, <2>1, <2>2 DEF Healthy
  <1>5. ASSUME kind = "recovery"
        PROVE  /\ live["database"] # "wrongType" /\ capture = start
               /\ live["database"] \in {"missing", start["database"]}
               /\ live["database"] # "missing" => Readable(start["database"])
    <2>1. /\ capture = start /\ FitForRecovery(start) /\ Due(start) \subseteq Disposed
          /\ live["database"] = IF "database" \in Disposed THEN "missing" ELSE start["database"]
      BY <1>2, <1>5, AsCaptured, TargetsApart DEF RecoveryCourse
    <2>2. "database" \notin Disposed => start["database"] \notin {"wrongType", "unreadable"}
      BY <2>1, TargetsApart DEF Due
    <2>3. start["database"] # "unsafe"
      BY <2>1 DEF FitForRecovery
    <2>4. start["database"] \in Generations \cup {"missing", "corrupt", "unreadable", "wrongType", "unsafe"}
      BY TargetsApart DEF StartFits, Calm, ObjectsAt
    <2>5. QED
      BY <1>3, <2>1, <2>2, <2>3, <2>4 DEF Readable
  <1>6. ASSUME Put("database", target.database, "DB_REPLACE"), pc' = "DB_REPLACED",
               UNCHANGED <<sources, attempt, handling, writes>>
        PROVE  RestoreCourse' /\ RecoveryCourse' /\ CommonCourse'
    <2>1. done' = done \cup {<<"DB_REPLACE", "database">>}
          /\ UNCHANGED <<safety, capture, reclass, start, kind, handling>>
      BY <1>6 DEF Put, sources, attempt
    <2>2. Disposed' = Disposed
      BY <2>1 DEF Disposed
    <2>3. /\ Due(start)' = Due(start) /\ FitForRecovery(start)' = FitForRecovery(start)
          /\ Healthy(start)' = Healthy(start) /\ NoVisibleSidecar(start)' = NoVisibleSidecar(start)
      BY <2>1 DEF Due, FitForRecovery, Healthy, NoVisibleSidecar
    <2>4. RecoveryCourse'
      <3>1. kind = "recovery" => capture = start
        BY <1>5
      <3>2. QED
        BY <1>2, <1>6, <2>1, <2>2, <2>3, <3>1 DEF RecoveryCourse
    <2>5. RestoreCourse'
      BY <1>2, <1>6, <2>1, <2>2, <2>3 DEF RestoreCourse
    <2>6. CommonCourse'
      BY <1>2, <1>6, <2>1 DEF CommonCourse
    <2>7. QED
      BY <2>4, <2>5, <2>6
  <1>7. QED
    BY <1>1, <1>4, <1>5, <1>6

\* Neither of the renames of the configuration is refused, and they leave the
\* course of the attempt.
LEMMA ConfigCourse ==
  ASSUME Ground, pc \in {"RenameAside", "InstallConfig"}
  PROVE  /\ pc = "RenameAside" => live["config"] = start["config"] /\ live["config"] # "missing"
         /\ pc = "InstallConfig" => live["config"] = "missing"
         /\ /\ \/ /\ pc = "RenameAside" /\ pc' = "CONFIG_RENAMED_ASIDE"
                  /\ MoveAside("config", "CONFIG_RENAME_ASIDE")
               \/ /\ pc = "InstallConfig" /\ pc' = "CONFIG_REPLACED"
                  /\ Put("config", target.config, "CONFIG_INSTALL")
            /\ UNCHANGED <<sources, attempt, handling, writes>>
            => RestoreCourse' /\ RecoveryCourse' /\ CommonCourse'
  <1> USE DEF Ground
  <1>1. /\ {pc, "CONFIG_RENAMED_ASIDE", "CONFIG_REPLACED"}
              \subseteq PastSafety \cap PastSidecars \cap PastReclass \cap PastDisposal \cap PastCapture
                        \cap PastStability \cap PastChanged \cap PostReplace
        /\ {"CONFIG_RENAMED_ASIDE", "CONFIG_REPLACED"} \cap (AtDisposal \cup Occupied) = {}
        /\ pc = "RenameAside" => pc \in Occupied /\ pc \notin PostInstall
        /\ pc = "InstallConfig" => pc \in Vacated
        /\ "CONFIG_RENAMED_ASIDE" \in Vacated /\ "CONFIG_RENAMED_ASIDE" \notin PostInstall
        /\ "CONFIG_REPLACED" \in PostInstall /\ "CONFIG_REPLACED" \notin Vacated
    BY DEF PastSafety, PastSidecars, PastReclass, PastStability, PastDisposal, PastCapture, PastChanged,
           AtDisposal, BeforeReplace, PostReplace, PostInstall, Vacated, Occupied
  <1>2. /\ pc = "RenameAside" => live["config"] = start["config"] /\ live["config"] # "missing"
        /\ pc = "InstallConfig" => live["config"] = "missing"
    BY <1>1 DEF CommonCourse
  <1>3. ASSUME \/ /\ pc = "RenameAside" /\ pc' = "CONFIG_RENAMED_ASIDE"
                  /\ MoveAside("config", "CONFIG_RENAME_ASIDE")
               \/ /\ pc = "InstallConfig" /\ pc' = "CONFIG_REPLACED"
                  /\ Put("config", target.config, "CONFIG_INSTALL"),
               UNCHANGED <<sources, attempt, handling, writes>>
        PROVE  RestoreCourse' /\ RecoveryCourse' /\ CommonCourse'
    <2>1. /\ UNCHANGED <<safety, capture, reclass, start, kind, handling>>
          /\ pc' \in {"CONFIG_RENAMED_ASIDE", "CONFIG_REPLACED"}
          /\ \/ done' = done \cup {<<"CONFIG_RENAME_ASIDE", "config">>}
             \/ done' = done \cup {<<"CONFIG_INSTALL", "config">>}
      BY <1>3 DEF Put, MoveAside, sources, attempt
    <2>2. Disposed' = Disposed
      BY <2>1 DEF Disposed
    <2>3. /\ Due(start)' = Due(start) /\ FitForRecovery(start)' = FitForRecovery(start)
          /\ Healthy(start)' = Healthy(start) /\ NoVisibleSidecar(start)' = NoVisibleSidecar(start)
      BY <2>1 DEF Due, FitForRecovery, Healthy, NoVisibleSidecar
    <2>4. RecoveryCourse'
      BY <1>1, <2>1, <2>2, <2>3 DEF RecoveryCourse
    <2>5. RestoreCourse'
      BY <1>1, <2>1, <2>2, <2>3 DEF RestoreCourse
    <2>6. CASE pc = "RenameAside"
      <3>1. /\ done' = done \cup {<<"CONFIG_RENAME_ASIDE", "config">>} /\ pc' = "CONFIG_RENAMED_ASIDE"
            /\ live' = [live EXCEPT !["config"] = "missing"]
        BY <1>3, <2>6 DEF MoveAside
      <3>2. live'["config"] = "missing"
        BY <3>1, TargetsApart DEF IInv, TypeOK
      <3>3. CommonCourse'
        BY <1>1, <2>6, <3>1, <3>2 DEF CommonCourse
      <3>4. QED
        BY <2>4, <2>5, <3>3
    <2>7. CASE pc = "InstallConfig"
      <3>1. done' = done \cup {<<"CONFIG_INSTALL", "config">>} /\ pc' = "CONFIG_REPLACED"
        BY <1>3, <2>7 DEF Put
      <3>2. CommonCourse'
        BY <1>1, <2>7, <3>1 DEF CommonCourse
      <3>3. QED
        BY <2>4, <2>5, <3>2
    <2>8. QED
      BY <2>6, <2>7
  <1>4. QED
    BY <1>2, <1>3

\* What goes on is not over.
LEMMA GoesOnRunning ==
  ASSUME IInv, pc \in Steps, pc' = After(pc)
  PROVE  ~ Over(pc')
  BY InOrder, AfterLeads

\* A check of an attempt that is alone goes on with what it found, or stops an
\* attempt that is not fit, before anything was installed.
LEMMA CheckCourse ==
  ASSUME Ground, SomeCheck
  PROVE  /\ UNCHANGED <<live, start, done, kind, handling, writes, fault, aside, safety, capture>>
         /\ ~ Over(pc') => RestoreCourse' /\ RecoveryCourse' /\ CommonCourse'
         /\ Over(pc') /\ "Capture" \in Quiet => ~ Installed /\ ~ Fit
  <1> USE DEF attempt, sources
  <1>1. /\ pc \in {"VerifyTarget", "CheckSchema", "SidecarGate", "Stage", "Verify", "Plan", "Reverify",
                   "CheckChanged", "PreMutationStability", "CheckDisposal", "FinalStability",
                   "ReverifyTarget", "CheckDatabase", "CheckConfig", "CheckVacant"}
        /\ UNCHANGED <<live, start, done, kind, handling, writes, fault, aside, safety, capture, reclass>>
        /\ pc' \in {After(pc), FailureState[pc]}
    BY DEF SomeCheck, VerifyTarget, CheckSchema, SidecarGate, Stage, Verify, Plan, Reverify, CheckChanged,
           PreMutationStability, CheckDisposal, FinalStability, ReverifyTarget, CheckDatabase, CheckConfig,
           CheckVacant, Check, ProceedIf, Proceed, Fail
  <1>2. pc \in Steps \ MutationSteps /\ pc # "NextDisposition"
    BY <1>1 DEF Steps, FailureState, MutationSteps
  <1>3. \/ pc' = After(pc)
        \/ /\ pc' = FailureState[pc]
           /\ \/ pc = "SidecarGate" /\ ~ NoSidecars
              \/ pc = "Verify" /\ ~ (/\ NoSidecars /\ live["database"] = target.database
                                     /\ live["config"] = target.config)
              \/ pc = "Plan" /\ ~ WouldProceed
              \/ pc = "CheckChanged" /\ ~ (\A t \in Targets : capture[t] # "changed")
              \/ pc = "PreMutationStability" /\ ~ (\A t \in Targets : live[t] = capture[t])
              \/ pc = "CheckDisposal" /\ live[handling] # capture[handling]
              \/ pc = "FinalStability" /\ ~ (\A t \in Targets : Stable(t))
              \/ pc = "CheckDatabase" /\ ~ Stable("database")
              \/ pc = "CheckConfig" /\ live["config"] # capture["config"]
              \/ pc = "CheckVacant" /\ live["config"] # "missing"
    BY DEF SomeCheck, VerifyTarget, CheckSchema, SidecarGate, Stage, Verify, Plan, Reverify, CheckChanged,
           PreMutationStability, CheckDisposal, FinalStability, ReverifyTarget, CheckDatabase, CheckConfig,
           CheckVacant, Check, ProceedIf, Proceed, Fail
  <1>4. ASSUME pc' = After(pc), ~ Over(pc'), pc = "SidecarGate", kind = "restore"
        PROVE  NoVisibleSidecar(start)
    <2>1. NoSidecars
      <3>1. SidecarGate
        BY <1>4 DEF SomeCheck, VerifyTarget, CheckSchema, SidecarGate, Stage, Verify, Plan, Reverify,
             CheckChanged, PreMutationStability, CheckDisposal, FinalStability, ReverifyTarget,
             CheckDatabase, CheckConfig, CheckVacant, Check
      <3>2. Over(FailureState["SidecarGate"])
        BY FailureFollows DEF FailureState
      <3>3. QED
        BY <1>4, <3>1, <3>2 DEF SidecarGate, Check, ProceedIf, Fail
    <2>2. QED
      BY <1>4, <2>1, SidecarsGone
  <1>5. ASSUME pc' = After(pc), ~ Over(pc'), pc = "CheckChanged"
        PROVE  capture = start
    <2>1. CheckChanged
      BY <1>5 DEF SomeCheck, VerifyTarget, CheckSchema, SidecarGate, Stage, Verify, Plan, Reverify,
           CheckChanged, PreMutationStability, CheckDisposal, FinalStability, ReverifyTarget,
           CheckDatabase, CheckConfig, CheckVacant, Check
    <2>2. Over(FailureState["CheckChanged"])
      BY FailureFollows DEF FailureState
    <2>3. \A t \in Targets : capture[t] # "changed"
      BY <1>5, <2>1, <2>2 DEF CheckChanged, Check, ProceedIf, Fail
    <2>4. QED
      BY <1>5, <2>3, CapturedWhole
  <1>6. ASSUME ~ Over(pc')
        PROVE  RestoreCourse' /\ RecoveryCourse' /\ CommonCourse'
    <2>1. pc' = After(pc)
      <3>1. pc # "ReverifyTarget" => Over(FailureState[pc])
        BY <1>1, FailureFollows DEF FailureState
      <3>2. QED
        BY <1>3, <1>6, <3>1
    <2>2. pc \notin {"SafetyBackup", "Capture", "Reclassify"}
      BY <1>1
    <2>3. QED
      BY <1>1, <1>2, <1>4, <1>5, <1>6, <2>1, <2>2, Onward
  <1>7. ASSUME Over(pc'), "Capture" \in Quiet
        PROVE  ~ Installed /\ ~ Fit
    <2>1. pc' # After(pc)
      BY <1>2, <1>7, GoesOnRunning DEF Ground
    <2>2. /\ pc = "CheckChanged" => \A t \in Targets : capture[t] # "changed"
          /\ pc = "PreMutationStability" => \A t \in Targets : live[t] = capture[t]
          /\ pc = "CheckDisposal" => live[handling] = capture[handling]
          /\ pc = "FinalStability" => \A t \in Targets : Stable(t)
          /\ pc = "CheckDatabase" => Stable("database")
          /\ pc = "CheckConfig" => live["config"] = capture["config"]
          /\ pc = "CheckVacant" => live["config"] = "missing"
      BY <1>7, CapturedWhole, FoundAsSeen
    <2>3. pc = "Verify" => NoSidecars /\ live["database"] = target.database /\ live["config"] = target.config
      <3>1. ASSUME pc = "Verify"
            PROVE  <<"DB_REPLACE", "database">> \in done /\ Installed
        BY <3>1 DEF Ground, CommonCourse, Installed, PostReplace, PostInstall
      <3>2. QED
        BY <3>1, SidecarsGone, LiveNow DEF Ground, IInv, TypeOK
    <2>4. CASE pc = "SidecarGate" /\ ~ NoSidecars
      <3>1. kind = "restore" /\ ~ NoVisibleSidecar(start)
        BY <2>4, SidecarsGone DEF Ground, IInv, TypeOK
      <3>2. pc \notin PostInstall
        BY <2>4 DEF PostInstall
      <3>3. QED
        BY <3>1, <3>2 DEF Ground, CommonCourse, Installed, Fit, FitForRestore, NoVisibleSidecar
    <2>5. CASE pc = "Plan" /\ ~ WouldProceed
      <3>1. kind = "recovery"
        BY <2>5, KindOfStep DEF Ground
      <3>2. QED
        BY <2>5, <3>1, PlansFit DEF Fit
    <2>6. QED
      BY <1>3, <2>1, <2>2, <2>3, <2>4, <2>5
  <1>8. QED
    BY <1>1, <1>6, <1>7

\* The steps that keep what they saw: they see what was live at first, and the
\* only ones that stop do so before anything was installed, for cause.
LEMMA ObservationCourse ==
  ASSUME Ground, SafetyBackup \/ Capture \/ Reclassify
  PROVE  /\ live = start /\ UNCHANGED <<live, start, done, kind, handling, writes, fault, aside>>
         /\ ~ Over(pc') => RestoreCourse' /\ RecoveryCourse' /\ CommonCourse'
         /\ Over(pc') => ~ Installed /\ ~ Fit
  <1> USE DEF attempt
  <1>1. /\ pc \in {"SafetyBackup", "Capture", "Reclassify"}
        /\ UNCHANGED <<live, start, done, kind, handling, writes, aside>>
    BY DEF SafetyBackup, Capture, Reclassify
  <1>2. pc \in Steps /\ pc \notin MutationSteps \cup {"NextDisposition"}
    BY <1>1 DEF Steps, FailureState, MutationSteps
  <1>3. done = {} /\ live = start /\ ~ Installed
    <2>1. pc \notin PostReplace /\ pc \notin PastStability
      BY <1>1 DEF PastStability, AtDisposal, PastDisposal, BeforeReplace, PostReplace, PostInstall
    <2>2. done = {}
      BY <2>1 DEF Ground, RestoreCourse, RecoveryCourse, IInv, TypeOK
    <2>3. QED
      BY <2>2, Untouched DEF Installed
  <1>4. UNCHANGED fault
    BY DEF SafetyBackup, Capture, Reclassify, ProceedIf, Proceed, Fail
  <1>5. \A s \in {"SafetyBackup", "Capture", "Reclassify"} : Over(FailureState[s])
    BY FailureFollows DEF FailureState
  <1>6. CASE SafetyBackup
    <2>1. kind = "restore" /\ pc = "SafetyBackup"
      BY <1>6, KindOfStep DEF Ground, SafetyBackup
    <2>2. CASE Healthy(live)
      <3>1. safety' = live /\ pc' = After(pc)
        BY <1>6, <2>2 DEF SafetyBackup, Healthy, Proceed
      <3>2. ~ Over(pc')
        BY <1>2, <3>1, GoesOnRunning DEF Ground
      <3>3. RestoreCourse' /\ RecoveryCourse' /\ CommonCourse'
        BY <1>1, <1>2, <1>3, <2>1, <2>2, <3>1, <3>2, Onward
      <3>4. QED
        BY <1>1, <1>3, <1>4, <3>2, <3>3
    <2>3. CASE ~ Healthy(live)
      <3>1. pc' = FailureState["SafetyBackup"]
        BY <1>6, <2>3 DEF SafetyBackup, Healthy, Fail
      <3>2. ~ Fit
        BY <1>3, <2>1, <2>3 DEF Fit, FitForRestore, Healthy
      <3>3. QED
        BY <1>1, <1>3, <1>4, <1>5, <3>1, <3>2
    <2>4. QED
      BY <2>2, <2>3
  <1>7. CASE Capture
    <2>1. kind = "recovery" /\ pc = "Capture" /\ pc' = After(pc)
      BY <1>7, KindOfStep DEF Ground, Capture, Proceed
    <2>2. ~ Over(pc')
      BY <1>2, <2>1, GoesOnRunning DEF Ground
    <2>3. capture' = start \/ ("Capture" \notin Quiet /\ \E t \in Targets : capture'[t] = "changed")
      <3>1. live \in [Targets -> Objects]
        BY DEF Ground, IInv, TypeOK
      <3>2. QED
        BY <1>3, <1>7, <3>1 DEF Capture
    <2>4. reclass' = reclass
      BY <1>7 DEF Capture
    <2>5. RestoreCourse' /\ RecoveryCourse' /\ CommonCourse'
      BY <1>1, <1>2, <2>1, <2>2, <2>3, <2>4, Onward
    <2>6. QED
      BY <1>1, <1>3, <1>4, <2>2, <2>5
  <1>8. CASE Reclassify
    <2>1. kind = "recovery" /\ pc = "Reclassify" /\ reclass' = live /\ capture' = capture
      BY <1>8, KindOfStep DEF Ground, Reclassify
    <2>2. WouldProceed <=> FitForRecovery(start)
      BY <2>1, PlansFit
    <2>3. CASE WouldProceed
      <3>1. pc' = After(pc)
        BY <1>8, <2>3 DEF Reclassify, ProceedIf, Proceed
      <3>2. ~ Over(pc')
        BY <1>2, <3>1, GoesOnRunning DEF Ground
      <3>3. RestoreCourse' /\ RecoveryCourse' /\ CommonCourse'
        BY <1>1, <1>2, <1>3, <2>1, <2>2, <2>3, <3>1, <3>2, Onward
      <3>4. QED
        BY <1>1, <1>3, <1>4, <3>2, <3>3
    <2>4. CASE ~ WouldProceed
      <3>1. pc' = FailureState["Reclassify"]
        BY <1>8, <2>4 DEF Reclassify, ProceedIf, Fail
      <3>2. QED
        BY <1>1, <1>3, <1>4, <1>5, <2>1, <2>2, <2>4, <3>1 DEF Fit
    <2>5. QED
      BY <2>3, <2>4
  <1>9. QED
    BY <1>6, <1>7, <1>8

\* A lock is granted on the database of an attempt that is alone.
LEMMA ProbeCourse ==
  ASSUME Ground, Probe
  PROVE  /\ UNCHANGED <<live, start, done, kind, handling, writes, aside, safety, capture>>
         /\ ~ Over(pc') => RestoreCourse' /\ RecoveryCourse' /\ CommonCourse'
         /\ Over(pc') => fault'
  <1> USE DEF attempt, sources
  <1>1. /\ pc = "Probe" /\ pc \in Steps /\ pc \notin MutationSteps \cup {"NextDisposition"}
        /\ UNCHANGED <<live, start, done, kind, handling, writes, aside, safety, capture, reclass>>
    BY DEF Probe, Steps, FailureState, MutationSteps
  <1>2. /\ pc \in PastSafety \cap PastReclass \cap PastStability
        /\ pc \notin PostReplace \cup PostInstall \cup Vacated
        /\ "QUIESCENCE_NOT_APPLICABLE" \in PastReclass \cap PastStability
        /\ "QUIESCENCE_NOT_APPLICABLE"
              \notin PastDisposal \cup AtDisposal \cup PostReplace \cup PostInstall \cup Vacated \cup Occupied
    BY <1>1 DEF PastSafety, PastSidecars, PastReclass, PastStability, PastDisposal, AtDisposal, BeforeReplace,
                PostReplace, PostInstall, Vacated, Occupied
  <1>3. CASE kind = "recovery" /\ DegradedDatabase
    <2>1. pc' = "QUIESCENCE_NOT_APPLICABLE"
      BY <1>3 DEF Probe
    <2>2. Disposed' = Disposed /\ Due(start)' = Due(start) /\ FitForRecovery(start)' = FitForRecovery(start)
      BY <1>1 DEF Disposed, Due, FitForRecovery
    <2>3. capture = start /\ reclass = start /\ FitForRecovery(start)
      BY <1>2, <1>3, AsCaptured
    <2>4. RecoveryCourse' /\ CommonCourse' /\ RestoreCourse'
      BY <1>1, <1>2, <1>3, <2>1, <2>2, <2>3 DEF Ground, RecoveryCourse, CommonCourse, RestoreCourse
    <2>5. ~ Over("QUIESCENCE_NOT_APPLICABLE")
      BY DEF Over, Failures, FailureState
    <2>6. QED
      BY <1>1, <2>1, <2>4, <2>5
  <1>4. CASE ~ (kind = "recovery" /\ DegradedDatabase)
    <2>1. live["database"] \in Generations \cup {"missing"}
      <3>1. CASE kind = "restore"
        <4>1. Healthy(start) /\ done = {}
          BY <1>2, <3>1 DEF Ground, RestoreCourse
        <4>2. QED
          BY <4>1, Untouched DEF Healthy
      <3>2. CASE kind = "recovery"
        <4>1. reclass = start /\ live["database"] \in {"missing", start["database"]}
          BY <1>2, <3>2, AsCaptured, TargetsApart
        <4>2. QED
          BY <1>4, <3>2, <4>1 DEF DegradedDatabase
      <3>3. QED
        BY <3>1, <3>2 DEF Ground, IInv, TypeOK
    <2>2. ProbeOutcomes(live["database"]) = {"granted"}
      <3>1. live["database"] \notin {"unreadable", "wrongType", "corrupt"}
        BY <2>1, RestoreAssumption DEF Conditions
      <3>2. QED
        BY <2>1, <3>1 DEF ProbeOutcomes
    <2>3. pc' = After(pc)
      BY <1>4, <2>2 DEF Probe, Proceed
    <2>4. ~ Over(pc')
      BY <1>1, <2>3, GoesOnRunning DEF Ground
    <2>5. RestoreCourse' /\ RecoveryCourse' /\ CommonCourse'
      BY <1>1, <2>3, <2>4, Onward
    <2>6. QED
      BY <1>1, <2>4, <2>5
  <1>5. QED
    BY <1>3, <1>4

\* A transition goes on; the last one confirms that the backup was installed,
\* and is recorded only by an attempt that was fit.
LEMMA RecordCourse ==
  ASSUME Ground, Record
  PROVE  /\ UNCHANGED <<live, start, done, kind, handling, writes, fault, aside, safety, capture>>
         /\ ~ Over(pc') => RestoreCourse' /\ RecoveryCourse' /\ CommonCourse'
         /\ Over(pc') => Installed /\ Fit
  <1> USE DEF attempt, sources
  <1>1. /\ pc \in States /\ pc' = After(pc) /\ kind \in {"restore", "recovery"}
        /\ UNCHANGED <<live, start, done, kind, handling, writes, fault, aside, safety, capture, reclass>>
    BY DEF Record, Proceed, Ground, IInv, TypeOK
  <1>2. pc \notin Steps
    BY <1>1, PlacesApart
  <1>3. /\ pc \notin MutationSteps \cup {"NextDisposition"}
        /\ pc \notin {"SafetyBackup", "SidecarGate", "Capture", "CheckChanged", "Reclassify"}
    BY <1>2 DEF Steps, FailureState, MutationSteps
  <1>4. ~ Over(pc') => RestoreCourse' /\ RecoveryCourse' /\ CommonCourse'
    BY <1>1, <1>3, Onward
  <1>5. ASSUME Over(pc')
        PROVE  Installed /\ Fit
    <2>1. pc = "VERIFIED_SUCCESS"
      BY <1>1, <1>5, AfterLeads DEF Ground, IInv, OrderShape
    <2>2. pc \in PostInstall /\ pc \in PastSafety /\ pc \in PastSidecars /\ pc \in PastReclass
      BY <2>1 DEF PostInstall, PastSafety, PastSidecars, PastReclass, PastStability, PastDisposal, PostReplace
    <2>3. Installed
      BY <2>2 DEF Ground, CommonCourse, Installed
    <2>4. CASE kind = "restore"
      BY <2>2, <2>3, <2>4 DEF Ground, RestoreCourse, Fit, FitForRestore, Healthy, NoVisibleSidecar
    <2>5. CASE kind = "recovery"
      BY <2>2, <2>3, <2>5 DEF Ground, RecoveryCourse, Fit
    <2>6. QED
      BY <1>1, <2>4, <2>5
  <1>6. QED
    BY <1>1, <1>4, <1>5

\* A mutation of an attempt that is alone is not refused, and what it takes from
\* a path was there at first and is moved aside, captured or in the safety backup.
LEMMA MutationCourse ==
  ASSUME Ground, ReplaceDatabase \/ RenameAside \/ InstallConfig \/ Dispose \/ DisposalUnproved
  PROVE  /\ UNCHANGED <<start, kind, handling, writes, safety, capture>>
         /\ ~ Over(pc') => RestoreCourse' /\ RecoveryCourse' /\ CommonCourse'
         /\ Over(pc') => fault'
         /\ \/ /\ Put("database", target.database, "DB_REPLACE")
               /\ \/ safety = start
                  \/ live["database"] = "missing"
                  \/ /\ capture = start /\ live["database"] = start["database"]
                     /\ Readable(start["database"])
            \/ Put("config", target.config, "CONFIG_INSTALL") /\ live["config"] = "missing"
            \/ \E t \in Targets, k \in MutationKinds : MoveAside(t, k) /\ live[t] = start[t]
  <1> USE DEF attempt, sources
  <1>1. UNCHANGED <<start, kind, handling, writes, safety, capture>>
    BY DEF ReplaceDatabase, RenameAside, InstallConfig, Dispose, DisposalUnproved, Mutation
  <1>2. ASSUME NEW k \in MutationKinds, pc = StepOf[k], pc' = After(pc)
        PROVE  pc' = CompletionState[k] /\ ~ Over(pc')
    <2>1. pc \in Steps
      BY <1>2 DEF MutationKinds, StepOf, Steps, FailureState
    <2>2. pc \in Order(kind) /\ ~ Over(pc) /\ kind \in {"restore", "recovery"}
      BY <2>1, InOrder DEF Ground
    <2>3. QED
      BY <1>2, <2>2, AfterMutation, AfterLeads
  <1>3. CASE ReplaceDatabase
    <2>1. pc = "ReplaceDatabase" /\ live["database"] # "wrongType"
      BY <1>3, ReplaceCourse DEF ReplaceDatabase, Mutation
    <2>2. /\ Put("database", target.database, "DB_REPLACE") /\ pc' = After(pc)
          /\ UNCHANGED <<sources, attempt, handling, writes>>
      BY <1>3, <2>1 DEF ReplaceDatabase, Mutation, Proceed
    <2>3. pc' = "DB_REPLACED" /\ ~ Over(pc')
      BY <1>2, <2>1, <2>2 DEF MutationKinds, StepOf, CompletionState
    <2>4. kind \in {"restore", "recovery"}
      BY DEF Ground, IInv, TypeOK
    <2>5. \/ safety = start
          \/ live["database"] = "missing"
          \/ capture = start /\ live["database"] = start["database"] /\ Readable(start["database"])
      BY <2>1, <2>4, ReplaceCourse
    <2>6. QED
      BY <1>1, <2>1, <2>2, <2>3, <2>5, ReplaceCourse
  <1>4. CASE RenameAside
    <2>1. pc = "RenameAside" /\ live["config"] # "missing" /\ live["config"] = start["config"]
      BY <1>4, ConfigCourse DEF RenameAside, Mutation
    <2>2. /\ MoveAside("config", "CONFIG_RENAME_ASIDE") /\ pc' = After(pc)
          /\ UNCHANGED <<sources, attempt, handling, writes>>
      BY <1>4, <2>1 DEF RenameAside, Mutation, Proceed
    <2>3. pc' = "CONFIG_RENAMED_ASIDE" /\ ~ Over(pc')
      BY <1>2, <2>1, <2>2 DEF MutationKinds, StepOf, CompletionState
    <2>4. RestoreCourse' /\ RecoveryCourse' /\ CommonCourse'
      BY <2>1, <2>2, <2>3, ConfigCourse
    <2>5. "CONFIG_RENAME_ASIDE" \in MutationKinds /\ "config" \in Targets
      BY DEF MutationKinds, Targets
    <2>6. QED
      BY <1>1, <2>1, <2>2, <2>3, <2>4, <2>5
  <1>5. CASE InstallConfig
    <2>1. pc = "InstallConfig" /\ live["config"] = "missing"
      BY <1>5, ConfigCourse DEF InstallConfig, Mutation
    <2>2. /\ Put("config", target.config, "CONFIG_INSTALL") /\ pc' = After(pc)
          /\ UNCHANGED <<sources, attempt, handling, writes>>
      BY <1>5, <2>1 DEF InstallConfig, Mutation, Proceed
    <2>3. pc' = "CONFIG_REPLACED" /\ ~ Over(pc')
      BY <1>2, <2>1, <2>2 DEF MutationKinds, StepOf, CompletionState
    <2>4. RestoreCourse' /\ RecoveryCourse' /\ CommonCourse'
      BY <2>1, <2>2, <2>3, ConfigCourse
    <2>5. QED
      BY <1>1, <2>1, <2>2, <2>3, <2>4
  <1>6. CASE Dispose \/ DisposalUnproved
    <2>1. pc = "Dispose" /\ TypeAsExpected(handling) /\ live[handling] = start[handling]
      BY <1>6, DisposeCourse DEF Dispose, DisposalUnproved, Mutation
    <2>2. /\ MoveAside(handling, "DISPOSITION") /\ UNCHANGED <<sources, attempt, handling, writes>>
          /\ \/ pc' = After(pc)
             \/ pc' = "DISPOSITION_FAILED" /\ fault'
      BY <1>6, <2>1 DEF Dispose, DisposalUnproved, Mutation, Proceed
    <2>3. handling \in Targets /\ "DISPOSITION" \in MutationKinds
      BY DEF Ground, IInv, TypeOK, MutationKinds
    <2>4. CASE pc' = After(pc)
      <3>1. pc' = "DISPOSITION_COMPLETE" /\ ~ Over(pc')
        BY <1>2, <2>1, <2>4 DEF MutationKinds, StepOf, CompletionState
      <3>2. QED
        BY <1>1, <2>1, <2>2, <2>3, <3>1, DisposeCourse
    <2>5. CASE pc' = "DISPOSITION_FAILED" /\ fault'
      <3>1. Over(pc')
        BY <2>5 DEF Over, Failures, FailureState
      <3>2. QED
        BY <1>1, <2>1, <2>2, <2>3, <2>5, <3>1
    <2>6. QED
      BY <2>2, <2>4, <2>5
  <1>7. QED
    BY <1>3, <1>4, <1>5, <1>6

\* The steps of an attempt under way; the others begin one or are not its own.
OwnStep ==
    \/ SomeCheck
    \/ SafetyBackup \/ Probe \/ Capture \/ Reclassify \/ NextDisposition
    \/ Record \/ TornRecord \/ Crash \/ StepFails
    \/ ReplaceDatabase \/ RenameAside \/ InstallConfig \/ Dispose \/ DisposalUnproved

\* Evidence depends on these variables only.
LEMMA EvidenceStays ==
  ASSUME UNCHANGED <<live, aside, safety, capture, start>>
  PROVE  EvidenceKept' = EvidenceKept
  BY DEF EvidenceKept

\* So do the outcome and the fitness on these.
LEMMA OutcomeStays ==
  ASSUME UNCHANGED <<start, done, kind>>
  PROVE  Installed' = Installed /\ Fit' = Fit
  BY DEF Installed, Fit, FitForRestore, FitForRecovery

\* What a mutation takes remains.
LEMMA MutationKeepsEvidence ==
  ASSUME Ground, ReplaceDatabase \/ RenameAside \/ InstallConfig \/ Dispose \/ DisposalUnproved, EvidenceKept
  PROVE  EvidenceKept'
  <1>1. /\ live \in [Targets -> Objects] /\ aside \in [Targets -> Objects] /\ start # NoSnapshot
        /\ "database" \in Targets /\ "config" \in Targets
    BY TargetsApart DEF Ground, IInv, TypeOK, Calm
  <1>2. UNCHANGED <<start, safety, capture>>
    BY MutationCourse
  <1>3. \A t \in Targets : \/ start[t] \in {"missing", live[t], aside[t]}
                           \/ safety # NoSnapshot /\ t \in {"database", "config"} /\ safety[t] = start[t]
                           \/ capture # NoSnapshot /\ t = "database" /\ capture[t] = start[t] /\ Readable(start[t])
    BY <1>1 DEF EvidenceKept
  <1>4. ASSUME NEW u \in Targets, live'[u] = live[u], aside'[u] = aside[u]
        PROVE  \/ start[u] \in {"missing", live'[u], aside'[u]}
               \/ safety # NoSnapshot /\ u \in {"database", "config"} /\ safety[u] = start[u]
               \/ capture # NoSnapshot /\ u = "database" /\ capture[u] = start[u] /\ Readable(start[u])
    BY <1>3, <1>4
  <1>5. CASE Put("database", target.database, "DB_REPLACE")
             /\ \/ safety = start
                \/ live["database"] = "missing"
                \/ capture = start /\ live["database"] = start["database"] /\ Readable(start["database"])
    <2>1. aside' = aside /\ \A u \in Targets : u # "database" => live'[u] = live[u]
      BY <1>1, <1>5 DEF Put
    <2>2. \/ start["database"] \in {"missing", aside["database"]}
          \/ safety # NoSnapshot /\ safety["database"] = start["database"]
          \/ /\ capture # NoSnapshot /\ capture["database"] = start["database"]
             /\ Readable(start["database"])
      BY <1>1, <1>3, <1>5
    <2>3. QED
      BY <1>1, <1>2, <1>4, <2>1, <2>2 DEF EvidenceKept
  <1>6. CASE Put("config", target.config, "CONFIG_INSTALL") /\ live["config"] = "missing"
    <2>1. aside' = aside /\ \A u \in Targets : u # "config" => live'[u] = live[u]
      BY <1>1, <1>6 DEF Put
    <2>2. \/ start["config"] \in {"missing", aside["config"]}
          \/ safety # NoSnapshot /\ safety["config"] = start["config"]
      BY <1>1, <1>3, <1>6, TargetsApart
    <2>3. QED
      BY <1>1, <1>2, <1>4, <2>1, <2>2 DEF EvidenceKept
  <1>7. ASSUME NEW t \in Targets, NEW k \in MutationKinds, MoveAside(t, k), live[t] = start[t]
        PROVE  EvidenceKept'
    <2>1. aside'[t] = start[t]
      BY <1>1, <1>7 DEF MoveAside
    <2>2. \A u \in Targets : u # t => live'[u] = live[u] /\ aside'[u] = aside[u]
      BY <1>1, <1>7 DEF MoveAside
    <2>3. QED
      BY <1>1, <1>2, <1>4, <2>1, <2>2 DEF EvidenceKept
  <1>8. QED
    BY <1>5, <1>6, <1>7, MutationCourse

\* An attempt that is alone stays on its course, loses nothing, and ends without
\* a fault only as it should.
LEMMA OwnStepCourse ==
  ASSUME Ground, OwnStep
  PROVE  /\ UNCHANGED <<start, kind, writes>>
         /\ ~ Over(pc') => RestoreCourse' /\ RecoveryCourse' /\ CommonCourse'
         /\ Over(pc') /\ "Capture" \in Quiet => fault' \/ (Installed' <=> Fit')
         /\ EvidenceKept => EvidenceKept'
  <1>1. CASE SomeCheck
    BY <1>1, CheckCourse, EvidenceStays, OutcomeStays
  <1>2. CASE SafetyBackup \/ Capture \/ Reclassify
    <2>1. EvidenceKept'
      BY <1>2, ObservationCourse DEF EvidenceKept
    <2>2. QED
      BY <1>2, <2>1, ObservationCourse, OutcomeStays
  <1>3. CASE Probe
    BY <1>3, ProbeCourse, EvidenceStays
  <1>4. CASE NextDisposition
    <2>1. /\ UNCHANGED <<live, aside, safety, capture, start, kind, writes>>
          /\ pc' \in {"idle", "DISPOSITION_INTENT", "FINAL_STABILITY_INTENT"}
      BY <1>4 DEF NextDisposition, sources, attempt
    <2>2. {"DISPOSITION_INTENT", "FINAL_STABILITY_INTENT"} \cap Failures = {}
      BY DEF Failures, FailureState
    <2>3. ~ Over(pc')
      BY <1>4, <2>1, <2>2, NextCourse DEF Over
    <2>4. QED
      BY <1>4, <2>1, <2>3, NextCourse, EvidenceStays
  <1>5. CASE Record
    BY <1>5, RecordCourse, EvidenceStays, OutcomeStays
  <1>6. CASE TornRecord \/ Crash \/ StepFails
    <2>1. UNCHANGED <<live, aside, safety, capture, start, kind, writes>> /\ fault'
      BY <1>6 DEF TornRecord, Crash, StepFails, sources, attempt
    <2>2. Over(pc')
      BY <1>6, FailureFollows DEF TornRecord, Crash, StepFails, Over
    <2>3. QED
      BY <2>1, <2>2, EvidenceStays
  <1>7. CASE ReplaceDatabase \/ RenameAside \/ InstallConfig \/ Dispose \/ DisposalUnproved
    BY <1>7, MutationCourse, MutationKeepsEvidence
  <1>8. QED
    BY <1>1, <1>2, <1>3, <1>4, <1>5, <1>6, <1>7 DEF OwnStep

\* An attempt that is over records that at most.
LEMMA OverStep ==
  ASSUME IInv, Over(pc), OwnStep
  PROVE  /\ UNCHANGED <<live, aside, safety, capture, start, done, kind, writes>>
         /\ Over(pc') /\ (fault' \/ UNCHANGED fault)
  <1> USE DEF sources, attempt
  <1>1. pc \notin Steps
    BY InOrder
  <1>2. Record \/ TornRecord \/ Crash
    <2>1. ~ SomeCheck
      BY <1>1, CheckOfSome DEF Check
    <2>2. QED
      BY <1>1, <2>1 DEF OwnStep, SafetyBackup, Probe, Capture, Reclassify, NextDisposition, StepFails,
           ReplaceDatabase, RenameAside, InstallConfig, Dispose, DisposalUnproved, Mutation, Steps, FailureState
  <1>3. CASE Record
    <2>1. pc \in Failures
      BY <1>3, PlacesApart DEF Record, Over
    <2>2. QED
      BY <1>3, <2>1 DEF Record, Proceed, After, Over
  <1>4. CASE TornRecord \/ Crash
    BY <1>4 DEF TornRecord, Crash, Over
  <1>5. QED
    BY <1>2, <1>3, <1>4

\* Nothing that was live is gone, while nobody else writes.
Evidence == writes = 0 => EvidenceKept

\* What is shown of an attempt that is alone, and what it rests on.
Settled == StartFits /\ Course /\ Evidence

\* An attempt begins on its course, with nothing lost.
LEMMA BeginCourse ==
  ASSUME IInv, ObjectShape, NEW k \in {"restore", "recovery"}, NEW b \in Backups, Begin(k, b)
  PROVE  Settled' /\ ~ Over(pc')
  <1>1. /\ start' = live /\ live' = live /\ done' = {} /\ kind' = k
        /\ \/ pc' = "RESTORE_INITIATED" /\ k = "restore"
           \/ pc' = "RECOVERY_INITIATED" /\ k = "recovery"
    BY DEF Begin, BeginAttempt
  <1>2. StartFits'
    BY <1>1 DEF StartFits, ObjectShape, ObjectsAt
  <1>3. EvidenceKept'
    BY <1>1 DEF EvidenceKept
  <1>4. pc' \notin PastSafety \cup PastCapture
    BY <1>1 DEF PastSafety, PastSidecars, PastCapture, PastChanged, PastReclass, PastStability, PastDisposal,
                AtDisposal, BeforeReplace, PostReplace, PostInstall
  <1>5. /\ PostReplace \subseteq PastSafety /\ PastSidecars \subseteq PastSafety
        /\ PostInstall \cup Vacated \cup Occupied \subseteq PostReplace
        /\ PastReclass \cup PastDisposal \cup AtDisposal \subseteq PastCapture
    BY DEF PastSafety, PastSidecars, PastCapture, PastChanged, PastReclass, PastStability, PastDisposal,
           AtDisposal, BeforeReplace, PostReplace, PostInstall, Vacated, Occupied
  <1>6. Disposed' = {}
    BY <1>1 DEF Disposed
  <1>7. RestoreCourse' /\ RecoveryCourse' /\ CommonCourse'
    BY <1>1, <1>4, <1>5, <1>6 DEF RestoreCourse, RecoveryCourse, CommonCourse
  <1>8. ~ Over(pc')
    BY <1>1 DEF Over, Failures, FailureState
  <1>9. QED
    BY <1>2, <1>3, <1>7, <1>8 DEF Settled, Course, Evidence

\* Every step keeps what is shown; an attempt that is alone and read without a
\* change ends as it should.
LEMMA SettledNext ==
  ASSUME IInv, Accounted, ObjectShape, Settled, [Next]_vars
  PROVE  Settled' /\ ("Capture" \in Quiet /\ Outcome => Outcome')
  <1>1. CASE \E k \in {"restore", "recovery"}, b \in Backups : Begin(k, b)
    BY <1>1, BeginCourse DEF Outcome
  <1>2. CASE \E t \in Targets : OthersWrite(t)
    <2>1. writes' # 0 /\ start' = start
      BY <1>2, RestoreAssumption DEF OthersWrite, attempt, IInv, TypeOK
    <2>2. StartFits'
      BY <2>1 DEF StartFits, Settled, ObjectsAt
    <2>3. QED
      BY <2>1, <2>2 DEF Settled, Course, Evidence, Outcome, Calm
  <1>3. CASE UNCHANGED vars
    <2>1. UNCHANGED <<live, aside, safety, capture, reclass, kind, target, handling, pc, start, done, fault, writes>>
      BY <1>3 DEF vars, sources, attempt
    <2>2. StartFits' /\ Disposed' = Disposed /\ EvidenceKept' = EvidenceKept /\ Fit' = Fit
      BY <2>1, EvidenceStays, OutcomeStays DEF StartFits, Settled, ObjectsAt, Disposed
    <2>3. Due(start)' = Due(start) /\ FitForRecovery(start)' = FitForRecovery(start)
          /\ Healthy(start)' = Healthy(start) /\ NoVisibleSidecar(start)' = NoVisibleSidecar(start)
      BY <2>1 DEF Due, FitForRecovery, Healthy, NoVisibleSidecar
    <2>4. RestoreCourse' = RestoreCourse /\ RecoveryCourse' = RecoveryCourse /\ CommonCourse' = CommonCourse
      BY <2>1, <2>2, <2>3 DEF RestoreCourse, RecoveryCourse, CommonCourse
    <2>5. QED
      BY <2>1, <2>2, <2>4 DEF Settled, Course, Evidence, Outcome, Calm, Installed
  <1>4. CASE OwnStep
    <2>1. UNCHANGED <<start, kind, writes>>
      BY <1>4 DEF OwnStep, SomeCheck, VerifyTarget, CheckSchema, SidecarGate, Stage, Verify, Plan, Reverify,
                  CheckChanged, PreMutationStability, CheckDisposal, FinalStability, ReverifyTarget,
                  CheckDatabase, CheckConfig, CheckVacant, Check, SafetyBackup, Probe, Capture, Reclassify,
                  NextDisposition, Record, TornRecord, Crash, StepFails, ReplaceDatabase, RenameAside,
                  InstallConfig, Dispose, DisposalUnproved, Mutation, sources, attempt
    <2>2. StartFits'
      BY <2>1 DEF StartFits, Settled, ObjectsAt
    <2>3. CASE ~ Calm
      <3>1. ~ Calm'
        BY <2>1, <2>3 DEF Calm
      <3>2. Evidence'
        BY <3>1 DEF Evidence, EvidenceKept, Calm
      <3>3. QED
        BY <2>2, <3>1, <3>2 DEF Settled, Course, Outcome
    <2>4. CASE Calm /\ Over(pc)
      <3>1. /\ EvidenceKept' = EvidenceKept /\ Installed' = Installed /\ Fit' = Fit
            /\ Over(pc') /\ (fault' \/ UNCHANGED fault)
        BY <1>4, <2>4, OverStep, EvidenceStays, OutcomeStays
      <3>2. QED
        BY <2>1, <2>2, <2>4, <3>1 DEF Settled, Course, Evidence, Outcome, Calm
    <2>5. CASE Calm /\ ~ Over(pc)
      <3>1. Ground
        BY <2>5 DEF Ground, Settled, Course
      <3>2. QED
        BY <1>4, <2>1, <2>2, <3>1, OwnStepCourse DEF Settled, Course, Evidence, Outcome, Calm
    <2>6. QED
      BY <2>3, <2>4, <2>5
  <1>5. QED
    BY <1>1, <1>2, <1>3, <1>4, StepClasses DEF OwnStep

\* So it is always.
LEMMA AlwaysSettled == Spec => []Settled
  <1>1. Init => Settled
    BY DEF Init, Settled, StartFits, Course, Evidence, EvidenceKept, Calm
  <1>2. IInv /\ (Progress /\ Accounted) /\ ObjectShape /\ Settled /\ [Next]_vars => Settled'
    BY SettledNext
  <1>3. QED
    BY <1>1, <1>2, Invariance, AlwaysAccounted, ObjectsFit, PTL DEF Spec

\* Wherever an attempt stops, by a refusal, a failure or a crash, everything that
\* was live when it began is still live, moved aside, in its safety backup or, for
\* the database, in its capture with its content; as long as nobody else writes.
THEOREM EvidenceSurvives == Spec => [](writes = 0 => EvidenceKept)
  <1>1. Settled => (writes = 0 => EvidenceKept)
    BY DEF Settled, Evidence
  <1>2. QED
    BY <1>1, AlwaysSettled, PTL

\* If nobody else writes while the sources are captured, an attempt that met no
\* fault and no other writer installed the backup if and only if what it began
\* with was fit for it: no later check refuses what an earlier one admitted.
THEOREM RefusesForCause ==
  ASSUME "Capture" \in Quiet
  PROVE  Spec => []RefusesOnlyForCause
  <1>1. Init => Outcome
    BY DEF Init, Outcome, Calm
  <1>2. IInv /\ (Progress /\ Accounted) /\ ObjectShape /\ Settled /\ Outcome /\ [Next]_vars => Outcome'
    BY SettledNext
  <1>3. Outcome => RefusesOnlyForCause
    BY DEF Outcome, RefusesOnlyForCause, Over, Calm, Installed, Fit
  <1>4. QED
    BY <1>1, <1>2, <1>3, Invariance, AlwaysAccounted, ObjectsFit, AlwaysSettled, PTL DEF Spec

=============================================================================
