----------------------- MODULE EpisodeAssemblyProofs -----------------------
(***************************************************************************)
(* Proofs about EpisodeAssembly for any number of episodes and attempts.   *)
(*                                                                         *)
(* The inductive invariant IInv says what an attempt at each step has done *)
(* and what the claim of an episode can be; the properties follow from it. *)
(***************************************************************************)
EXTENDS EpisodeAssembly, TLAPS

\* Steps of an attempt that has the claim or had it.
Working == Stages \cup {"finish", "fail"}

\* What an attempt has done by the time it is at a step.
AttemptShape ==
    \A a \in Attempts :
        /\ pc[a] = "new" => a \notin forced
        /\ pc[a] \in {"new", "cas"} => a \notin acquired
        /\ pc[a] = "cas" => a \in forced /\ observed[a] \in Observation /\ observed[a].status \notin Terminal
        /\ pc[a] \in Working => a \in acquired
        /\ pc[a] \in {"markers", "place", "payload", "finish"} => EpisodeOf[a] \in timelines
        /\ pc[a] \in {"place", "payload", "finish"} => a \in marked
        /\ pc[a] \in {"payload", "finish"} => <<a, EpisodeOf[a]>> \in pool /\ a \in clips

\* The claim of an episode is held by an attempt that got it, and an episode
\* that was ever claimed is not open to an ordinary attempt any more.
ClaimShape ==
    /\ \A e \in Episodes : claim[e] # NoAttempt => claim[e] \in acquired /\ EpisodeOf[claim[e]] = e
    /\ \A a \in acquired : ~ Eligible(EpisodeOf[a])

\* A replaced claim was held once and is not held again.
ReplacedShape ==
    \A a \in Attempts : replaced[a] # NoAttempt =>
        /\ a \in acquired
        /\ replaced[a] \in acquired
        /\ claim[EpisodeOf[replaced[a]]] # replaced[a]

IInv == TypeOK /\ AttemptShape /\ ClaimShape /\ ReplacedShape
             /\ OrdinaryOnce /\ ClaimReplacedOnce /\ AssembledIsComplete

----------------------------------------------------------------------------

\* Nothing is claimed or built at the start.
LEMMA InitIInv == Init => IInv
  BY AttemptAssumption, SMT
  DEF Init, IInv, TypeOK, AttemptShape, ClaimShape, ReplacedShape, OrdinaryOnce,
      ClaimReplacedOnce, AssembledIsComplete, EpisodeStatus, Steps, Working, Stages,
      Terminal, Fresh

\* No action of one attempt changes the types.
LEMMA TypeStep ==
  ASSUME IInv, Next
  PROVE  TypeOK'
  <1> USE AttemptAssumption DEF IInv, TypeOK
  <1>1. ASSUME NEW a \in Attempts, Attempt(a) PROVE TypeOK'
    <2> USE DEF Move, Steps, Stages
    <2>1. CASE BuildEpisode(a)
      BY <2>1 DEF BuildEpisode, TakeClaim, Refused, resolveVars
    <2>2. CASE BuildEpisodeForced(a)
      BY <2>2 DEF BuildEpisodeForced, Observation, resolveVars, history
    <2>3. CASE CompareAndSwap(a)
      <3>1. observed[a].token \in Attempts \cup {NoAttempt}
        BY <2>3 DEF CompareAndSwap, AttemptShape, Observation
      <3>2. QED
        BY <2>3, <3>1 DEF CompareAndSwap, TakeClaim, Refused, resolveVars
    <2>4. CASE OpenProject(a)
      BY <2>4 DEF OpenProject, history
    <2>5. CASE ImportMedia(a)
      BY <2>5 DEF ImportMedia, history
    <2>6. CASE BuildTimeline(a)
      BY <2>6 DEF BuildTimeline, history
    <2>7. CASE AddMarkers(a)
      BY <2>7 DEF AddMarkers, history
    <2>8. CASE PlaceClips(a)
      BY <2>8 DEF PlaceClips, history
    <2>9. CASE ObservePayload(a)
      BY <2>9 DEF ObservePayload, history
    <2>10. CASE StageFails(a)
      BY <2>10 DEF StageFails, resolveVars, history
    <2>11. CASE Finish(a)
      BY <2>11 DEF Finish, ReleaseAssemblyClaim, EpisodeStatus, resolveVars, history
    <2>12. CASE BuildError(a)
      BY <2>12 DEF BuildError, ReleaseAssemblyClaim, EpisodeStatus, resolveVars, history
    <2>13. CASE Crash(a)
      BY <2>13 DEF Crash, resolveVars, history
    <2>14. QED
      BY <1>1, <2>1, <2>2, <2>3, <2>4, <2>5, <2>6, <2>7, <2>8, <2>9, <2>10, <2>11, <2>12, <2>13
      DEF Attempt
  <1>2. CASE Downstream
    BY <1>2 DEF Downstream, QueueRender, CompleteRender, ArchiveEpisode, EpisodeStatus, history
  <1>3. QED
    BY <1>1, <1>2 DEF Next

\* What an attempt has done stays done, and each step adds its own part.
LEMMA AttemptStep ==
  ASSUME IInv, Next, TypeOK'
  PROVE  AttemptShape'
  <1> USE AttemptAssumption DEF IInv, TypeOK, AttemptShape, Move, Working, Stages
  <1>1. ASSUME NEW a \in Attempts, Attempt(a) PROVE AttemptShape'
    <2>1. CASE BuildEpisode(a)
      BY <2>1 DEF BuildEpisode, TakeClaim, Refused, resolveVars
    <2>2. CASE BuildEpisodeForced(a)
      BY <2>2 DEF BuildEpisodeForced, Observation, resolveVars, history
    <2>3. CASE CompareAndSwap(a)
      BY <2>3 DEF CompareAndSwap, TakeClaim, Refused, resolveVars
    <2>4. CASE OpenProject(a)
      BY <2>4 DEF OpenProject, history
    <2>5. CASE ImportMedia(a)
      BY <2>5 DEF ImportMedia, history
    <2>6. CASE BuildTimeline(a)
      BY <2>6 DEF BuildTimeline, history
    <2>7. CASE AddMarkers(a)
      BY <2>7 DEF AddMarkers, history
    <2>8. CASE PlaceClips(a)
      BY <2>8 DEF PlaceClips, history
    <2>9. CASE ObservePayload(a)
      BY <2>9 DEF ObservePayload, history
    <2>10. CASE StageFails(a)
      BY <2>10 DEF StageFails, resolveVars, history
    <2>11. CASE Finish(a)
      BY <2>11 DEF Finish, resolveVars, history
    <2>12. CASE BuildError(a)
      BY <2>12 DEF BuildError, resolveVars, history
    <2>13. CASE Crash(a)
      BY <2>13 DEF Crash, resolveVars, history
    <2>14. QED
      BY <1>1, <2>1, <2>2, <2>3, <2>4, <2>5, <2>6, <2>7, <2>8, <2>9, <2>10, <2>11, <2>12, <2>13
      DEF Attempt
  <1>2. CASE Downstream
    BY <1>2 DEF Downstream, QueueRender, CompleteRender, ArchiveEpisode, history
  <1>3. QED
    BY <1>1, <1>2 DEF Next

----------------------------------------------------------------------------
(* The abstract claim.  Only three things ever happen to the row: somebody *)
(* acquires it, the holder resolves it, rendering moves the status on.     *)

\* A step of the attempts or of rendering is a step of the abstract claim or
\* leaves its variables alone.
LEMMA ClaimStep ==
  ASSUME IInv, Next
  PROVE  Promise!ClaimNext \/ UNCHANGED <<epStatus, claim, acquired>>
  <1> USE AttemptAssumption DEF IInv, TypeOK
  <1>1. ASSUME NEW a \in Attempts, Attempt(a)
        PROVE  \/ \E force \in BOOLEAN : Promise!Acquire(a, force)
               \/ Promise!Resolve(a)
               \/ UNCHANGED <<epStatus, claim, acquired>>
    <2>1. CASE BuildEpisode(a)
      <3>1. CASE Eligible(EpisodeOf[a]) /\ TakeClaim(a)
        <4>1. a \notin acquired /\ epStatus[EpisodeOf[a]] \notin Promise!Terminal
          BY <2>1, <3>1 DEF BuildEpisode, AttemptShape, Eligible, Fresh, Promise!Terminal
        <4>2. Promise!Acquire(a, FALSE)
          BY <2>1, <3>1, <4>1
          DEF BuildEpisode, TakeClaim, Eligible, Fresh, Promise!Acquire, Promise!Fresh
        <4>3. QED
          BY <4>2
      <3>2. CASE Refused(a)
        BY <2>1, <3>2 DEF BuildEpisode, Refused
      <3>3. QED
        BY <2>1, <3>1, <3>2 DEF BuildEpisode
    <2>2. CASE CompareAndSwap(a)
      <3>1. CASE StillAsObserved(a) /\ TakeClaim(a)
        <4>1. a \notin acquired /\ epStatus[EpisodeOf[a]] \notin Promise!Terminal
          BY <2>2, <3>1 DEF CompareAndSwap, AttemptShape, StillAsObserved, Terminal, Promise!Terminal
        <4>2. Promise!Acquire(a, TRUE)
          BY <2>2, <3>1, <4>1 DEF CompareAndSwap, TakeClaim, Promise!Acquire
        <4>3. QED
          BY <4>2
      <3>2. CASE Refused(a)
        BY <2>2, <3>2 DEF CompareAndSwap, Refused
      <3>3. QED
        BY <2>2, <3>1, <3>2 DEF CompareAndSwap
    <2>3. CASE Finish(a) \/ BuildError(a)
      BY <2>3 DEF Finish, BuildError, ReleaseAssemblyClaim, Promise!Resolve, history
    <2>4. CASE \/ BuildEpisodeForced(a) \/ OpenProject(a) \/ ImportMedia(a) \/ BuildTimeline(a)
               \/ AddMarkers(a) \/ PlaceClips(a) \/ ObservePayload(a) \/ StageFails(a) \/ Crash(a)
      BY <2>4 DEF BuildEpisodeForced, OpenProject, ImportMedia, BuildTimeline, AddMarkers,
                  PlaceClips, ObservePayload, StageFails, Crash, history
    <2>5. QED
      BY <1>1, <2>1, <2>2, <2>3, <2>4 DEF Attempt
  <1>2. ASSUME NEW e \in Episodes, QueueRender(e) \/ CompleteRender(e) \/ ArchiveEpisode(e),
               UNCHANGED <<claim, acquired>>
        PROVE  Promise!Downstream(e)
    BY <1>2 DEF QueueRender, CompleteRender, ArchiveEpisode, Promise!Downstream
  <1>3. CASE Downstream
    BY <1>2, <1>3 DEF Downstream, history, Promise!ClaimNext
  <1>4. QED
    BY <1>1, <1>3 DEF Next, Promise!ClaimNext

\* Who holds the claim has acquired it, and an acquired episode is never
\* eligible again: it is held, or its status is no longer a fresh one.
LEMMA ClaimShapeStep ==
  ASSUME IInv, Next
  PROVE  ClaimShape'
  <1> USE AttemptAssumption DEF IInv, TypeOK, ClaimShape, Eligible
  <1>1. ASSUME NEW a \in Attempts, NEW force \in BOOLEAN, Promise!Acquire(a, force) PROVE ClaimShape'
    BY <1>1 DEF Promise!Acquire
  <1>2. ASSUME NEW a \in Attempts, Promise!Resolve(a) PROVE ClaimShape'
    BY <1>2 DEF Promise!Resolve, Fresh
  <1>3. ASSUME NEW e \in Episodes, Promise!Downstream(e) PROVE ClaimShape'
    BY <1>3 DEF Promise!Downstream, Fresh
  <1>4. CASE UNCHANGED <<epStatus, claim, acquired>>
    BY <1>4
  <1>5. QED
    BY <1>1, <1>2, <1>3, <1>4, ClaimStep DEF Promise!ClaimNext

\* An attempt that acquires the claim was forced or found its episode eligible.
LEMMA AcquiredHow ==
  ASSUME IInv, Next
  PROVE  /\ forced \subseteq forced'
         /\ \/ acquired' = acquired
            \/ \E a \in Attempts :
                  /\ acquired' = acquired \cup {a}
                  /\ a \in forced' \/ Eligible(EpisodeOf[a])
  <1> USE AttemptAssumption DEF IInv, TypeOK
  <1> DEFINE How == \/ acquired' = acquired
                    \/ \E a \in Attempts :
                          /\ acquired' = acquired \cup {a}
                          /\ a \in forced' \/ Eligible(EpisodeOf[a])
  <1>1. ASSUME NEW a \in Attempts, Attempt(a) PROVE forced \subseteq forced' /\ How
    <2>1. CASE BuildEpisode(a)
      BY <2>1 DEF BuildEpisode, TakeClaim, Refused
    <2>2. CASE CompareAndSwap(a)
      BY <2>2 DEF CompareAndSwap, TakeClaim, Refused, AttemptShape
    <2>3. CASE \/ BuildEpisodeForced(a) \/ OpenProject(a) \/ ImportMedia(a) \/ BuildTimeline(a)
               \/ AddMarkers(a) \/ PlaceClips(a) \/ ObservePayload(a) \/ StageFails(a) \/ Crash(a)
               \/ Finish(a) \/ BuildError(a)
      BY <2>3 DEF BuildEpisodeForced, OpenProject, ImportMedia, BuildTimeline, AddMarkers,
                  PlaceClips, ObservePayload, StageFails, Crash, Finish, BuildError, history
    <2>4. QED
      BY <1>1, <2>1, <2>2, <2>3 DEF Attempt
  <1>2. CASE Downstream
    BY <1>2 DEF Downstream, history
  <1>3. QED
    BY <1>1, <1>2 DEF Next

\* A second ordinary attempt finds no eligible episode.
LEMMA OrdinaryStep ==
  ASSUME IInv, Next
  PROVE  OrdinaryOnce'
  BY AcquiredHow DEF IInv, ClaimShape, OrdinaryOnce

\* A token that was replaced is not in any row, so nobody can replace it again.
LEMMA ReplacedStep ==
  ASSUME IInv, Next, TypeOK'
  PROVE  ReplacedShape' /\ ClaimReplacedOnce'
  <1> USE AttemptAssumption DEF IInv, TypeOK, ReplacedShape, ClaimReplacedOnce
  <1>1. ASSUME NEW a \in Attempts, CompareAndSwap(a) PROVE ReplacedShape' /\ ClaimReplacedOnce'
    <2>1. CASE StillAsObserved(a) /\ TakeClaim(a) /\ replaced' = [replaced EXCEPT ![a] = observed[a].token]
      <3>1. a \notin acquired /\ claim[EpisodeOf[a]] = observed[a].token
        BY <1>1, <2>1 DEF CompareAndSwap, AttemptShape, StillAsObserved
      <3>2. observed[a].token # NoAttempt =>
               /\ observed[a].token \in acquired
               /\ EpisodeOf[observed[a].token] = EpisodeOf[a]
        BY <3>1 DEF ClaimShape
      <3>3. acquired' = acquired \cup {a} /\ claim' = [claim EXCEPT ![EpisodeOf[a]] = a]
        BY <2>1 DEF TakeClaim
      <3>4. ASSUME NEW b \in Attempts, replaced'[b] # NoAttempt
            PROVE  /\ b \in acquired'
                   /\ replaced'[b] \in acquired'
                   /\ claim'[EpisodeOf[replaced'[b]]] # replaced'[b]
        <4>1. CASE b = a
          BY <2>1, <3>1, <3>2, <3>3, <3>4, <4>1
        <4>2. CASE b # a
          BY <2>1, <3>1, <3>3, <3>4, <4>2
        <4>3. QED
          BY <4>1, <4>2
      <3>5. ASSUME NEW b \in acquired, replaced[b] # NoAttempt
            PROVE  replaced[b] # observed[a].token
        BY <3>1, <3>2, <3>5
      <3>6. ClaimReplacedOnce'
        BY <2>1, <3>1, <3>3, <3>5
      <3>7. QED
        BY <3>4, <3>6
    <2>2. CASE Refused(a) /\ UNCHANGED replaced
      BY <2>2 DEF Refused
    <2>3. QED
      BY <1>1, <2>1, <2>2 DEF CompareAndSwap
  <1>2. ASSUME UNCHANGED replaced PROVE ReplacedShape' /\ ClaimReplacedOnce'
    <2>1. ASSUME NEW a \in Attempts, NEW force \in BOOLEAN, Promise!Acquire(a, force)
          PROVE  ReplacedShape' /\ ClaimReplacedOnce'
      BY <1>2, <2>1 DEF Promise!Acquire
    <2>2. ASSUME NEW a \in Attempts, Promise!Resolve(a) PROVE ReplacedShape' /\ ClaimReplacedOnce'
      BY <1>2, <2>2 DEF Promise!Resolve
    <2>3. ASSUME UNCHANGED <<claim, acquired>> PROVE ReplacedShape' /\ ClaimReplacedOnce'
      BY <1>2, <2>3
    <2>4. QED
      BY <2>1, <2>2, <2>3, ClaimStep DEF Promise!ClaimNext, Promise!Downstream
  <1>3. ASSUME NEW a \in Attempts, Attempt(a), ~ CompareAndSwap(a) PROVE UNCHANGED replaced
    BY <1>3 DEF Attempt, BuildEpisode, BuildEpisodeForced, OpenProject, ImportMedia, BuildTimeline,
                AddMarkers, PlaceClips, ObservePayload, StageFails, Crash, Finish, BuildError, history
  <1>4. Downstream => UNCHANGED replaced
    BY DEF Downstream, history
  <1>5. QED
    BY <1>1, <1>2, <1>3, <1>4 DEF Next

\* What Resolve was given is never taken away, and acquired only grows.
LEMMA ResolveGrows ==
  ASSUME IInv, Next
  PROVE  pool \subseteq pool' /\ timelines \subseteq timelines' /\ marked \subseteq marked'
           /\ clips \subseteq clips' /\ acquired \subseteq acquired'
  <1> DEFINE Grows == pool \subseteq pool' /\ timelines \subseteq timelines' /\ marked \subseteq marked'
                        /\ clips \subseteq clips' /\ acquired \subseteq acquired'
  <1>1. ASSUME NEW a \in Attempts, Attempt(a) PROVE Grows
    BY <1>1 DEF Attempt, BuildEpisode, BuildEpisodeForced, CompareAndSwap, TakeClaim, Refused,
                OpenProject, ImportMedia, BuildTimeline, AddMarkers, PlaceClips, ObservePayload,
                StageFails, Crash, Finish, BuildError, resolveVars, history
  <1>2. CASE Downstream
    BY <1>2 DEF Downstream, history
  <1>3. QED
    BY <1>1, <1>2 DEF Next

\* Only Finish makes an episode assembled, and it has everything by then.
LEMMA CompleteStep ==
  ASSUME IInv, Next
  PROVE  AssembledIsComplete'
  <1> USE AttemptAssumption DEF IInv, TypeOK
  <1>1. ASSUME NEW e \in Episodes, epStatus'[e] = "assembled"
        PROVE  /\ e \in timelines
               /\ \E a \in acquired : EpisodeOf[a] = e /\ <<a, e>> \in pool /\ a \in marked /\ a \in clips
    <2>1. CASE epStatus[e] = "assembled"
      BY <2>1 DEF AssembledIsComplete
    <2>2. ASSUME NEW a \in Attempts, Finish(a), epStatus[e] # "assembled"
          PROVE  e \in timelines /\ EpisodeOf[a] = e /\ a \in acquired
                   /\ <<a, e>> \in pool /\ a \in marked /\ a \in clips
      <3>1. EpisodeOf[a] = e
        BY <1>1, <2>2 DEF Finish, ReleaseAssemblyClaim
      <3>2. QED
        BY <2>2, <3>1 DEF Finish, AttemptShape, Working
    <2>3. ASSUME NEW a \in Attempts, Attempt(a), ~ Finish(a) PROVE epStatus[e] = "assembled"
      <3>1. CASE BuildError(a)
        BY <1>1, <3>1 DEF BuildError, ReleaseAssemblyClaim
      <3>2. CASE ~ BuildError(a)
        BY <1>1, <2>3, <3>2 DEF Attempt, BuildEpisode, BuildEpisodeForced, CompareAndSwap,
           OpenProject, ImportMedia, BuildTimeline, AddMarkers, PlaceClips, ObservePayload,
           StageFails, Crash
      <3>3. QED
        BY <3>1, <3>2
    <2>4. ASSUME Downstream PROVE epStatus[e] = "assembled"
      BY <1>1, <2>4 DEF Downstream, QueueRender, CompleteRender, ArchiveEpisode
    <2>5. ASSUME NEW a \in Attempts, Finish(a), epStatus[e] # "assembled"
          PROVE  /\ e \in timelines
                 /\ \E b \in acquired : EpisodeOf[b] = e /\ <<b, e>> \in pool /\ b \in marked /\ b \in clips
      BY <2>2, <2>5
    <2>6. epStatus[e] = "assembled" \/ \E a \in Attempts : Finish(a)
      BY <2>3, <2>4 DEF Next
    <2>7. QED
      BY <2>1, <2>5, <2>6
  <1>2. QED
    BY <1>1, ResolveGrows DEF AssembledIsComplete

----------------------------------------------------------------------------

\* IInv is preserved by every step.
LEMMA NextIInv == IInv /\ [Next]_vars => IInv'
  <1>1. CASE IInv /\ Next
    BY <1>1, TypeStep, AttemptStep, ClaimShapeStep, ReplacedStep, OrdinaryStep, CompleteStep DEF IInv
  <1>2. CASE IInv /\ UNCHANGED vars
    <2>1. TypeOK'
      BY <1>2 DEF IInv, vars, TypeOK
    <2>2. AttemptShape'
      BY <1>2 DEF IInv, vars, AttemptShape
    <2>3. ClaimShape'
      BY <1>2 DEF IInv, vars, ClaimShape, Eligible
    <2>4. ReplacedShape'
      BY <1>2 DEF IInv, vars, ReplacedShape
    <2>5. OrdinaryOnce' /\ ClaimReplacedOnce'
      BY <1>2 DEF IInv, vars, OrdinaryOnce, ClaimReplacedOnce
    <2>6. AssembledIsComplete'
      BY <1>2 DEF IInv, vars, AssembledIsComplete
    <2>7. QED
      BY <2>1, <2>2, <2>3, <2>4, <2>5, <2>6 DEF IInv
  <1>3. QED
    BY <1>1, <1>2

\* IInv holds in every reachable state.
THEOREM Invariance == Spec => []IInv
  BY InitIInv, NextIInv, PTL DEF Spec

\* Every variable keeps its type.
THEOREM TypeCorrect == Spec => []TypeOK
  <1>1. IInv => TypeOK
    BY DEF IInv
  <1>2. QED
    BY Invariance, <1>1, PTL

\* Of all attempts at an episode at most one ever started without force, whatever
\* died, failed, was superseded or was overwritten by rendering in between.
THEOREM OneOrdinaryAttempt == Spec => []OrdinaryOnce
  <1>1. IInv => OrdinaryOnce
    BY DEF IInv
  <1>2. QED
    BY Invariance, <1>1, PTL

\* No claim is taken over by two forced attempts.
THEOREM OneTakeover == Spec => []ClaimReplacedOnce
  <1>1. IInv => ClaimReplacedOnce
    BY DEF IInv
  <1>2. QED
    BY Invariance, <1>1, PTL

\* An assembled episode has the media, markers and clips of one attempt.
THEOREM AssemblyComplete == Spec => []AssembledIsComplete
  <1>1. IInv => AssembledIsComplete
    BY DEF IInv
  <1>2. QED
    BY Invariance, <1>1, PTL

\* The attempts, with their stages, crashes and two-statement claims, implement
\* the claim of AssemblyClaim.
THEOREM Refinement == Spec => ImplementsClaim
  <1>1. Init => Promise!ClaimInit
    BY DEF Init, Promise!ClaimInit
  <1>2. IInv /\ [Next]_vars => [Promise!ClaimNext]_(Promise!claimVars)
    <2>1. CASE IInv /\ Next
      BY <2>1, ClaimStep DEF Promise!claimVars
    <2>2. CASE UNCHANGED vars
      BY <2>2 DEF vars, Promise!claimVars
    <2>3. QED
      BY <2>1, <2>2
  <1>3. QED
    BY Invariance, <1>1, <1>2, PTL DEF Spec, ImplementsClaim, Promise!ClaimSpec

=============================================================================
