------------------------- MODULE QueueAttemptProofs -------------------------
(***************************************************************************)
(* Theorems about QueueAttempt for every number of attempts, directories   *)
(* and changes made by others, and any choice of the attempts that may die. *)
(***************************************************************************)
EXTENDS QueueAttempt, TLAPS

\* The attempt's harness has its directory to itself.
Holding == {"open", "await", "bind", "recheck", "boundary", "command", "launch",
            "running", "classify", "finish", "seal"}

\* Nothing stopped the attempt yet.
Unstopped == {"off", "baseline", "mkdir", "open", "await", "bind", "recheck",
              "boundary", "command", "launch", "running", "classify"}

\* The preflight of the attempt is over.
PastGuard == {"bind", "recheck", "boundary", "command", "launch", "running",
              "classify", "finish", "seal", "ended"}

Sealed(a) == pc[a] = "ended" /\ stop[a] # "refused"

\* The attempt, one of its processes, or what it left needs the directory.
Claimed(a) == pc[a] \in Holding \/ Launched(a) \/ guard[a] # "off" \/ Sealed(a)

\* Nothing in its directory was written by the attempt.
Unwritten(a) == \A f \in files[dirOf[a]] : f[2] # a

\* What is left unlisted when the hashes of directory d are written.
Unlisted(a) == IF stop[a] = "guard_timeout" THEN {"snapshot"} ELSE {}

----------------------------------------------------------------------------
(* The inductive invariant *)

\* A claimed directory exists, holds the evidence of one attempt, and nobody
\* else claims it.
Owned ==
    \A a \in Attempts : Claimed(a) =>
        /\ dirOf[a] \in made
        /\ \A f \in files[dirOf[a]] : f[2] = a
        /\ \A b \in Attempts : Claimed(b) /\ dirOf[b] = dirOf[a] => a = b

\* A directory that was not created holds nothing.
Clean == \A d \in Dirs : d \notin made => files[d] = {}

\* The invocation is written before the launch and stays.
Recorded ==
    \A a \in Attempts :
        pc[a] = "launch" \/ Launched(a) => <<"command", a>> \in files[dirOf[a]]

\* The collector runs only under a wrapper that waits for it or was killed.
CollectorShape ==
    \A a \in Attempts :
        /\ guard[a] \in {"off", "verify"} => collector[a] = "off"
        /\ guard[a] = "evaluate" => collector[a] = "published"
        /\ guard[a] = "exited" => collector[a] \in {"off", "published", "failed", "killed"}

\* A wrapper is killed only by the timeout that stops its attempt.
GuardShape ==
    \A a \in Attempts :
        /\ pc[a] \in Unstopped => stop[a] = "none"
        /\ pc[a] \in {"finish", "seal"} => stop[a] # "refused"
        /\ pc[a] = "open" => guard[a] = "off"
        /\ pc[a] \in {"off", "baseline", "mkdir"} => guard[a] = "off"
        /\ pc[a] \in PastGuard /\ stop[a] # "guard_timeout" => guard[a] \in {"off", "exited"}

\* The final result is there before the hashes, and the hashes name it all.
SealShape ==
    \A a \in Attempts :
        /\ pc[a] = "seal" => <<"final", a>> \in files[dirOf[a]]
        /\ Sealed(a) => /\ "final" \in listed[dirOf[a]]
                        /\ Present(dirOf[a]) \ listed[dirOf[a]] \subseteq Unlisted(a)

\* An attempt writes nothing before it made its directory; only one that was
\* stopped at the timeout may raise later.
RaisedShape ==
    \A a \in Attempts :
        /\ pc[a] \in {"off", "baseline", "mkdir"} => Unwritten(a)
        /\ pc[a] = "raised" => Unwritten(a) \/ stop[a] = "guard_timeout"

Attended == /\ Owned /\ Clean /\ Recorded /\ CollectorShape /\ GuardShape
            /\ SealShape /\ RaisedShape
IInv == TypeOK /\ Attended

----------------------------------------------------------------------------
(* Types *)

HarnessTypeOK ==
    /\ pc \in [Attempts -> HarnessSteps]
    /\ made \subseteq Dirs
    /\ files \in [Dirs -> SUBSET (Names \X Attempts)]
    /\ listed \in [Dirs -> SUBSET Names]
    /\ folder0 \in [Attempts -> Folders]
    /\ stop \in [Attempts -> Stops]
    /\ class \in [Attempts -> Classes]
    /\ drifted \in [Attempts -> BOOLEAN]

USE DEF Empty, Goto, Stop, Write, StopWith, Refuse, Note

\* Types hold at first.
LEMMA TypeInit == Init => TypeOK
<1> SUFFICES ASSUME Init PROVE TypeOK
  OBVIOUS
<1>1. CommandTypeOK
  <2> USE DEF Init, CommandInit
  <2>1. /\ status \in {"assembled", "render_queued"} /\ folder \in Folders
        /\ queue \subseteq Jobs /\ broken \subseteq Conditions
        /\ disturbances \in 0 .. MaxDisturbances
    BY BoundAssumption DEF Folders
  <2>2. strange \in BOOLEAN /\ output \in BOOLEAN /\ onTarget \in BOOLEAN
    OBVIOUS
  <2>3. /\ rows \in [Attempts -> RowStates]
        /\ prod \in [Attempts -> Running \cup {"off", "exited", "killed"}]
        /\ planned \in [Attempts -> Folders]
        /\ said \in [Attempts -> Texts]
    BY DEF RowStates, Folders, Texts
  <2>4. /\ before \in [Attempts -> SUBSET Jobs]
        /\ held \in [Attempts -> Jobs \cup {NoJob}]
        /\ did \in [Attempts -> SUBSET {"claimed", "asked", "added"}]
    OBVIOUS
  <2> QED
    BY <2>1, <2>2, <2>3, <2>4 DEF CommandTypeOK
<1>2. GuardTypeOK
  BY DirChoicesAssumption DEF Init, GuardInit, GuardTypeOK
<1>3. HarnessTypeOK
  BY DEF Init, HarnessTypeOK, HarnessSteps, Stops, Classes, Folders
<1> QED
  BY <1>1, <1>2, <1>3 DEF TypeOK, HarnessTypeOK

\* A step of the command keeps the types of the world and of the command.
LEMMA CommandTypes ==
  ASSUME NEW a \in Attempts, CommandTypeOK, UNCHANGED worldVars,
         CommandStep(a) \/ StartCommand(a) \/ KillCommand(a)
  PROVE  CommandTypeOK'
<1> USE DEF worldVars, Continue, Exit, ReleaseThenSay, Does, Hold, RowStates, Texts,
            Running, Jobs, CommandTypeOK
<1>1. CASE CheckDatabase(a)
  BY <1>1 DEF CheckDatabase
<1>2. CASE CheckQueue(a)
  BY <1>2 DEF CheckQueue
<1>3. CASE Claim(a)
  BY <1>3 DEF Claim
<1>4. CASE Configure(a)
  BY <1>4 DEF Configure
<1>5. CASE Add(a)
  BY <1>5 DEF Add
<1>6. CASE Finalize(a)
  BY <1>6 DEF Finalize
<1>7. CASE Delete(a)
  BY <1>7 DEF Delete
<1>8. CASE Release(a)
  BY <1>8 DEF Release
<1>9. CASE StartCommand(a)
  BY <1>9 DEF StartCommand
<1>10. CASE KillCommand(a)
  BY <1>10 DEF KillCommand
<1> QED
  BY <1>1, <1>2, <1>3, <1>4, <1>5, <1>6, <1>7, <1>8, <1>9, <1>10 DEF CommandStep

\* A change by others keeps them.
LEMMA WorldTypes ==
  ASSUME CommandTypeOK, Disturbance
  PROVE  CommandTypeOK'
<1> USE DEF commandVars, Disturb, CommandTypeOK, Jobs, Folders, Conditions
<1>0. disturbances' \in 0 .. MaxDisturbances
  BY BoundAssumption
     DEF Disturbance, Break, OtherRender, MoveFolder, OperatorLeaves, OperatorQueues, OutputAppears
<1>1. ASSUME NEW condition \in Conditions, Break(condition) PROVE CommandTypeOK'
  BY <1>0, <1>1 DEF Break
<1>2. CASE OtherRender
  BY <1>0, <1>2 DEF OtherRender
<1>3. ASSUME NEW f \in Folders, MoveFolder(f) PROVE CommandTypeOK'
  BY <1>0, <1>3 DEF MoveFolder
<1>4. CASE OperatorLeaves
  BY <1>0, <1>4 DEF OperatorLeaves
<1>5. CASE OperatorQueues
  BY <1>0, <1>5 DEF OperatorQueues
<1>6. CASE OutputAppears
  BY <1>0, <1>6 DEF OutputAppears
<1> QED
  BY <1>1, <1>2, <1>3, <1>4, <1>5, <1>6 DEF Disturbance

\* A step of the wrapper or its collector, its launch, its end by timeout, and
\* a changed snapshot keep the types of the preflight.
LEMMA GuardTypes ==
  ASSUME NEW a \in Attempts, NEW d \in Dirs, GuardTypeOK, UNCHANGED dirOf,
         GuardStep(a) \/ LaunchGuard(a) \/ KillGuard(a) \/ Alter(d)
  PROVE  GuardTypeOK'
<1> USE DEF Report, Reach, GuardTypeOK
<1>1. CASE VerifyInvocation(a)
  BY <1>1 DEF VerifyInvocation
<1>2. CASE CollectorEnds(a)
  BY <1>2 DEF CollectorEnds
<1>3. CASE Evaluate(a)
  BY <1>3 DEF Evaluate, Judgements
<1>4. CASE FirstGuard(a)
  BY <1>4 DEF FirstGuard
<1>5. CASE SecondGuard(a)
  BY <1>5 DEF SecondGuard
<1>6. CASE Publish(a)
  BY <1>6 DEF Publish
<1>7. CASE LaunchGuard(a)
  BY <1>7 DEF LaunchGuard
<1>8. CASE KillGuard(a)
  BY <1>8 DEF KillGuard
<1>9. CASE Alter(d)
  BY <1>9 DEF Alter
<1> QED
  BY <1>1, <1>2, <1>3, <1>4, <1>5, <1>6, <1>7, <1>8, <1>9 DEF GuardStep

\* A step of the harness, or its end, keeps the types of the harness.
LEMMA HarnessTypes ==
  ASSUME NEW a \in Attempts, TypeOK, Harness(a) \/ Die(a)
  PROVE  HarnessTypeOK'
<1> USE DEF HarnessTypeOK, HarnessSteps, Stops
<1>0. HarnessTypeOK /\ dirOf[a] \in Dirs /\ folder \in Folders
  BY DEF TypeOK, CommandTypeOK, GuardTypeOK
<1>1. CASE CheckIdentity(a)
  BY <1>0, <1>1 DEF CheckIdentity
<1>2. CASE CheckBaseline(a)
  BY <1>0, <1>2 DEF CheckBaseline
<1>3. CASE MakeDirectory(a)
  BY <1>0, <1>3 DEF MakeDirectory
<1>4. CASE OpenEvidence(a)
  <2>1. files' \in [Dirs -> SUBSET (Names \X Attempts)]
    BY <1>0, <1>4 DEF OpenEvidence, Names
  <2>2. drifted' \in [Attempts -> BOOLEAN]
    BY <1>0, <1>4 DEF OpenEvidence
  <2> QED
    BY <1>0, <1>4, <2>1, <2>2 DEF OpenEvidence
<1>5. CASE GuardReports(a)
  BY <1>0, <1>5 DEF GuardReports, Names
<1>6. CASE GuardTimesOut(a)
  BY <1>0, <1>6 DEF GuardTimesOut
<1>7. CASE BindSnapshot(a)
  BY <1>0, <1>7 DEF BindSnapshot, Names
<1>8. CASE RecheckIdentity(a)
  BY <1>0, <1>8 DEF RecheckIdentity, Names
<1>9. CASE RecheckBaseline(a)
  BY <1>0, <1>9 DEF RecheckBaseline, Names
<1>10. CASE RecordCommand(a)
  BY <1>0, <1>10 DEF RecordCommand, Names
<1>11. CASE LaunchCommand(a)
  BY <1>0, <1>11 DEF LaunchCommand, Outcome, Classes
<1>12. CASE CommandReports(a)
  BY <1>0, <1>12 DEF CommandReports
<1>13. CASE CommandTimesOut(a)
  BY <1>0, <1>13 DEF CommandTimesOut, Outcome, Classes
<1>14. CASE Classify(a)
  <2>1. \E class_ \in Classes : class' = [class EXCEPT ![a] = class_]
    BY <1>0, <1>14 DEF Classify, Classification, TextClass, Classes, TypeOK, CommandTypeOK, Texts
  <2>2. files' \in [Dirs -> SUBSET (Names \X Attempts)]
    BY <1>0, <1>14 DEF Classify, Names
  <2> QED
    BY <1>0, <1>14, <2>1, <2>2 DEF Classify
<1>15. CASE Finish(a)
  BY <1>0, <1>15 DEF Finish, Names
<1>16. CASE Seal(a)
  <2>1. Present(dirOf[a]) \subseteq Names
    BY <1>0 DEF Present, Names
  <2> QED
    BY <1>0, <1>16, <2>1 DEF Seal
<1>17. CASE SealRaises(a)
  BY <1>0, <1>17 DEF SealRaises
<1>18. CASE Die(a)
  BY <1>0, <1>18 DEF Die
<1> QED
  BY <1>1, <1>2, <1>3, <1>4, <1>5, <1>6, <1>7, <1>8, <1>9, <1>10, <1>11, <1>12, <1>13, <1>14, <1>15, <1>16, <1>17,
     <1>18
     DEF Harness, AwaitCommand

\* The types are kept by every step.
LEMMA TypeNext ==
  ASSUME TypeOK, [Next]_vars
  PROVE  TypeOK'
<1>0. CommandTypeOK /\ GuardTypeOK /\ HarnessTypeOK
  BY DEF TypeOK, HarnessTypeOK
<1>1. ASSUME NEW a \in Attempts, Harness(a) \/ Die(a), UNCHANGED dirOf PROVE TypeOK'
  <2>1. HarnessTypeOK'
    BY <1>1, HarnessTypes
  <2>2. CommandTypeOK'
    <3>1. \/ UNCHANGED worldVars /\ (StartCommand(a) \/ KillCommand(a))
          \/ UNCHANGED <<worldVars, commandVars>>
      BY <1>1 DEF Harness, AwaitCommand, CheckIdentity, CheckBaseline, MakeDirectory,
           OpenEvidence, GuardReports, GuardTimesOut, BindSnapshot, RecheckIdentity,
           RecheckBaseline, RecordCommand, LaunchCommand, CommandReports,
           CommandTimesOut, Classify, Finish, Seal, SealRaises, Die
    <3>2. CASE UNCHANGED <<worldVars, commandVars>>
      BY <1>0, <3>2 DEF worldVars, commandVars, CommandTypeOK
    <3> QED
      BY <1>0, <3>1, <3>2, CommandTypes
  <2>3. GuardTypeOK'
    <3>1. LaunchGuard(a) \/ KillGuard(a) \/ UNCHANGED guardVars
      BY <1>1 DEF Harness, AwaitCommand, CheckIdentity, CheckBaseline, MakeDirectory,
           OpenEvidence, GuardReports, GuardTimesOut, BindSnapshot, RecheckIdentity,
           RecheckBaseline, RecordCommand, LaunchCommand, CommandReports,
           CommandTimesOut, Classify, Finish, Seal, SealRaises, Die
    <3>2. CASE UNCHANGED guardVars
      BY <1>0, <1>1, <3>2 DEF guardVars, GuardTypeOK
    <3>3. dirOf[a] \in Dirs
      BY <1>0 DEF GuardTypeOK
    <3> QED
      BY <1>0, <1>1, <3>1, <3>2, <3>3, GuardTypes
  <2> QED
    BY <2>1, <2>2, <2>3 DEF TypeOK, HarnessTypeOK
<1>2. ASSUME NEW a \in Attempts, Children(a), UNCHANGED <<dirOf, harnessVars>> PROVE TypeOK'
  <2>1. HarnessTypeOK'
    BY <1>0, <1>2 DEF harnessVars, HarnessTypeOK
  <2>2. CASE CommandStep(a) /\ UNCHANGED <<worldVars, guardVars>>
    <3>1. CommandTypeOK'
      BY <1>0, <2>2, CommandTypes
    <3>2. GuardTypeOK'
      BY <1>0, <1>2, <2>2 DEF guardVars, GuardTypeOK
    <3> QED
      BY <2>1, <3>1, <3>2 DEF TypeOK, HarnessTypeOK
  <2>3. CASE GuardStep(a) /\ UNCHANGED <<worldVars, commandVars>>
    <3>1. CommandTypeOK'
      BY <1>0, <2>3 DEF worldVars, commandVars, CommandTypeOK
    <3>2. GuardTypeOK'
      <4>1. dirOf[a] \in Dirs
        BY <1>0 DEF GuardTypeOK
      <4> QED
        BY <1>0, <1>2, <2>3, <4>1, GuardTypes
    <3> QED
      BY <2>1, <3>1, <3>2 DEF TypeOK, HarnessTypeOK
  <2> QED
    BY <1>2, <2>2, <2>3 DEF Children
<1>3. ASSUME Others, UNCHANGED <<dirOf, harnessVars>> PROVE TypeOK'
  <2>1. HarnessTypeOK'
    BY <1>0, <1>3 DEF harnessVars, HarnessTypeOK
  <2>2. CASE Disturbance /\ UNCHANGED guardVars
    <3>1. CommandTypeOK'
      BY <1>0, <2>2, WorldTypes
    <3>2. GuardTypeOK'
      BY <1>0, <1>3, <2>2 DEF guardVars, GuardTypeOK
    <3> QED
      BY <2>1, <3>1, <3>2 DEF TypeOK, HarnessTypeOK
  <2>3. ASSUME NEW d \in Dirs, Alter(d),
               UNCHANGED <<strange, output, onTarget, broken, folder, commandVars>>
        PROVE  TypeOK'
    <3>1. disturbances' \in 0 .. MaxDisturbances
      BY <1>0, <2>3, BoundAssumption DEF Alter, Disturb, CommandTypeOK
    <3>2. CommandTypeOK'
      BY <1>0, <2>3, <3>1 DEF commandVars, CommandTypeOK
    <3>3. GuardTypeOK'
      BY <1>0, <1>3, <2>3 DEF Alter, GuardTypeOK
    <3> QED
      BY <2>1, <3>2, <3>3 DEF TypeOK, HarnessTypeOK
  <2> QED
    BY <1>3, <2>2, <2>3 DEF Others
<1>4. CASE UNCHANGED vars
  BY <1>4 DEF vars, worldVars, commandVars, guardVars, harnessVars, TypeOK,
       CommandTypeOK, GuardTypeOK
<1> QED
  BY <1>1, <1>2, <1>3, <1>4 DEF Next

\* Every variable keeps its type.
THEOREM TypeCorrect == Spec => []TypeOK
<1>1. TypeOK /\ [Next]_vars => TypeOK'
  BY TypeNext
<1> QED
  BY TypeInit, <1>1, PTL DEF Spec

----------------------------------------------------------------------------
(* The directories, the invocation record and the hashes *)

\* What the preflight's processes of attempt a look like after a step.
CollectorShapeOf(a) ==
    /\ guard[a] \in {"off", "verify"} => collector[a] = "off"
    /\ guard[a] = "evaluate" => collector[a] = "published"
    /\ guard[a] = "exited" => collector[a] \in {"off", "published", "failed", "killed"}

GuardShapeOf(a) ==
    /\ pc[a] \in Unstopped => stop[a] = "none"
    /\ pc[a] \in {"finish", "seal"} => stop[a] # "refused"
    /\ pc[a] = "open" => guard[a] = "off"
    /\ pc[a] \in {"off", "baseline", "mkdir"} => guard[a] = "off"
    /\ pc[a] \in PastGuard /\ stop[a] # "guard_timeout" => guard[a] \in {"off", "exited"}

\* Only the evidence in the attempt's directory grows, and it is its own.
OwnFiles(a) ==
    /\ \A d \in Dirs \ {dirOf[a]} : files'[d] = files[d]
    /\ files[dirOf[a]] \subseteq files'[dirOf[a]]
    /\ \A f \in files'[dirOf[a]] : f \in files[dirOf[a]] \/ f[2] = a

\* No other attempt changes.
OwnState(a) ==
    /\ pc' = [pc EXCEPT ![a] = pc'[a]]
    /\ \A b \in Attempts \ {a} :
           prod'[b] = prod[b] /\ guard'[b] = guard[b] /\ stop'[b] = stop[b]

\* What an attempt writes is its own and is there afterwards.
LEMMA WriteOwn ==
  ASSUME NEW a \in Attempts, TypeOK, NEW name \in Names,
         Write(a, name) \/ UNCHANGED files
  PROVE  OwnFiles(a) /\ (Write(a, name) => <<name, a>> \in files'[dirOf[a]])
  BY DEF OwnFiles, TypeOK, GuardTypeOK

\* No directory is claimed and nothing runs at first.
LEMMA AttendedInit == Init => Attended
<1> SUFFICES ASSUME Init PROVE Attended
  OBVIOUS
<1> USE DEF Init, GuardInit, CommandInit
<1>1. \A d \in Dirs : files[d] = {}
  OBVIOUS
<1>2. \A a \in Attempts : dirOf[a] \in Dirs
  BY DirChoicesAssumption
<1>3. Owned /\ Clean /\ Recorded /\ CollectorShape /\ GuardShape /\ SealShape
  BY DEF Owned, Clean, Recorded, CollectorShape, GuardShape, SealShape, Claimed, Launched,
         Sealed, Holding, PastGuard
<1>4. RaisedShape
  BY <1>1, <1>2 DEF RaisedShape, Unwritten
<1> QED
  BY <1>3, <1>4 DEF Attended

\* A step of an attempt that holds its directory, changes only what is its own
\* and goes on holding it.
LEMMA HolderStep ==
  ASSUME TypeOK, Attended, NEW a \in Attempts, pc[a] \in Holding, pc'[a] \in Holding,
         UNCHANGED <<made, listed, dirOf, collector, snapshot>>,
         OwnFiles(a), OwnState(a),
         pc'[a] = "launch" \/ prod'[a] # "off" => <<"command", a>> \in files'[dirOf[a]],
         pc'[a] = "seal" => <<"final", a>> \in files'[dirOf[a]],
         CollectorShapeOf(a)',
         GuardShapeOf(a)'
  PROVE  Attended'
<1> USE DEF OwnFiles, OwnState
<1>1. /\ pc' = [pc EXCEPT ![a] = pc'[a]] /\ pc \in [Attempts -> HarnessSteps]
      /\ dirOf \in [Attempts -> Dirs] /\ files \in [Dirs -> SUBSET (Names \X Attempts)]
  BY DEF TypeOK, GuardTypeOK
<1>2. Claimed(a) /\ \A b \in Attempts \ {a} : Claimed(b)' <=> Claimed(b)
  BY <1>1 DEF Claimed, Launched, Sealed
<1>3. Owned'
  BY <1>1, <1>2 DEF Attended, Owned
<1>4. dirOf[a] \in made
  BY <1>2 DEF Attended, Owned
<1>5. Clean'
  BY <1>1, <1>4 DEF Attended, Clean
<1>6. Recorded'
  BY <1>1 DEF Attended, Recorded, Launched
<1>7. CollectorShape'
  BY <1>1 DEF Attended, CollectorShape, CollectorShapeOf
<1>8. GuardShape'
  BY <1>1 DEF Attended, GuardShape, GuardShapeOf
<1>9. SealShape'
  <2> SUFFICES ASSUME NEW b \in Attempts
               PROVE  /\ pc'[b] = "seal" => <<"final", b>> \in files'[dirOf[b]]
                      /\ Sealed(b)' => /\ "final" \in listed[dirOf[b]]
                                       /\ Present(dirOf[b])' \ listed[dirOf[b]]
                                          \subseteq Unlisted(b)'
    BY DEF SealShape
  <2>1. CASE b = a
    BY <1>1, <2>1 DEF Sealed, Holding
  <2>2. CASE b # a
    <3>1. pc'[b] = pc[b] /\ stop'[b] = stop[b] /\ (Sealed(b)' <=> Sealed(b))
      BY <1>1, <2>2 DEF Sealed
    <3>2. pc[b] = "seal" => <<"final", b>> \in files'[dirOf[b]]
      BY <1>1 DEF Attended, SealShape
    <3>3. Sealed(b) => dirOf[b] # dirOf[a]
      BY <1>2, <2>2 DEF Attended, Owned, Claimed
    <3>4. Sealed(b) => Present(dirOf[b])' = Present(dirOf[b])
      BY <1>1, <3>3 DEF Present
    <3> QED
      BY <3>1, <3>2, <3>4 DEF Attended, SealShape, Unlisted
  <2> QED
    BY <2>1, <2>2
<1>10. RaisedShape'
  <2> SUFFICES ASSUME NEW b \in Attempts
               PROVE  /\ pc'[b] \in {"off", "baseline", "mkdir"} => Unwritten(b)'
                      /\ pc'[b] = "raised" => Unwritten(b)' \/ stop'[b] = "guard_timeout"
    BY DEF RaisedShape
  <2>1. CASE b = a
    BY <2>1 DEF Holding
  <2>2. CASE b # a
    <3>1. pc'[b] = pc[b] /\ stop'[b] = stop[b]
      BY <1>1, <2>2
    <3>2. \A f \in files'[dirOf[b]] : f \in files[dirOf[b]] \/ f[2] = a
      BY <1>1
    <3>3. Unwritten(b) => Unwritten(b)'
      BY <2>2, <3>2 DEF Unwritten
    <3> QED
      BY <3>1, <3>3 DEF Attended, RaisedShape
  <2> QED
    BY <2>1, <2>2
<1> QED
  BY <1>3, <1>5, <1>6, <1>7, <1>8, <1>9, <1>10 DEF Attended

\* Every step between the creation of the directory and the hashes is one.
LEMMA HolderNext ==
  ASSUME TypeOK, Attended, NEW a \in Attempts, UNCHANGED dirOf,
         \/ OpenEvidence(a) \/ GuardReports(a) \/ GuardTimesOut(a) \/ BindSnapshot(a)
         \/ RecheckIdentity(a) \/ RecheckBaseline(a) \/ RecordCommand(a)
         \/ LaunchCommand(a) \/ AwaitCommand(a) \/ Classify(a) \/ Finish(a)
  PROVE  Attended'
<1> USE DEF Holding, PastGuard, Unstopped, commandVars, guardVars
<1>0. /\ pc \in [Attempts -> HarnessSteps] /\ stop \in [Attempts -> Stops]
      /\ prod \in [Attempts -> Running \cup {"off", "exited", "killed"}]
      /\ guard \in [Attempts -> {"off", "verify", "wait", "evaluate", "exited", "killed"}]
  BY DEF TypeOK, GuardTypeOK, CommandTypeOK
<1>1. /\ CollectorShapeOf(a) /\ GuardShapeOf(a)
      /\ pc[a] = "launch" \/ prod[a] # "off" => <<"command", a>> \in files[dirOf[a]]
  BY DEF Attended, CollectorShape, GuardShape, CollectorShapeOf, GuardShapeOf, Recorded, Launched
<1>2. CASE OpenEvidence(a)
  <2>1. OwnFiles(a) /\ (Write(a, "opened") => <<"opened", a>> \in files'[dirOf[a]])
    BY <1>2, WriteOwn DEF OpenEvidence, Names
  <2>2. pc[a] \in Holding /\ pc'[a] \in Holding /\ OwnState(a)
    BY <1>0, <1>2 DEF OpenEvidence, LaunchGuard, OwnState
  <2>3. CollectorShapeOf(a)' /\ GuardShapeOf(a)'
    BY <1>0, <1>1, <1>2 DEF OpenEvidence, LaunchGuard, CollectorShapeOf, GuardShapeOf
  <2>4. UNCHANGED <<made, listed, collector, snapshot>>
    BY <1>2 DEF OpenEvidence, LaunchGuard
  <2>5. /\ pc'[a] = "launch" \/ prod'[a] # "off" => <<"command", a>> \in files'[dirOf[a]]
        /\ pc'[a] = "seal" => <<"final", a>> \in files'[dirOf[a]]
    BY <1>0, <1>1, <1>2, <2>1 DEF OpenEvidence, LaunchGuard, OwnFiles
  <2> QED
    BY <2>1, <2>2, <2>3, <2>4, <2>5, HolderStep
<1>3. CASE GuardReports(a)
  <2>1. OwnFiles(a) /\ (Write(a, "guard_result") => <<"guard_result", a>> \in files'[dirOf[a]])
    BY <1>3, WriteOwn DEF GuardReports, Names
  <2>2. pc[a] \in Holding /\ pc'[a] \in Holding /\ OwnState(a)
    BY <1>0, <1>3 DEF GuardReports, OwnState
  <2>3. CollectorShapeOf(a)' /\ GuardShapeOf(a)'
    BY <1>0, <1>1, <1>3 DEF GuardReports, CollectorShapeOf, GuardShapeOf
  <2>4. UNCHANGED <<made, listed, collector, snapshot>>
    BY <1>3 DEF GuardReports
  <2>5. /\ pc'[a] = "launch" \/ prod'[a] # "off" => <<"command", a>> \in files'[dirOf[a]]
        /\ pc'[a] = "seal" => <<"final", a>> \in files'[dirOf[a]]
    BY <1>0, <1>1, <1>3, <2>1 DEF GuardReports, OwnFiles
  <2> QED
    BY <2>1, <2>2, <2>3, <2>4, <2>5, HolderStep
<1>4. CASE GuardTimesOut(a)
  <2>1. OwnFiles(a) /\ (Write(a, "opened") => <<"opened", a>> \in files'[dirOf[a]])
    BY <1>4, WriteOwn DEF GuardTimesOut, Names
  <2>2. pc[a] \in Holding /\ pc'[a] \in Holding /\ OwnState(a)
    BY <1>0, <1>4 DEF GuardTimesOut, KillGuard, OwnState
  <2>3. CollectorShapeOf(a)' /\ GuardShapeOf(a)'
    BY <1>0, <1>1, <1>4 DEF GuardTimesOut, KillGuard, CollectorShapeOf, GuardShapeOf
  <2>4. UNCHANGED <<made, listed, collector, snapshot>>
    BY <1>4 DEF GuardTimesOut, KillGuard
  <2>5. /\ pc'[a] = "launch" \/ prod'[a] # "off" => <<"command", a>> \in files'[dirOf[a]]
        /\ pc'[a] = "seal" => <<"final", a>> \in files'[dirOf[a]]
    BY <1>0, <1>1, <1>4, <2>1 DEF GuardTimesOut, KillGuard, OwnFiles
  <2> QED
    BY <2>1, <2>2, <2>3, <2>4, <2>5, HolderStep
<1>5. CASE BindSnapshot(a)
  <2>1. OwnFiles(a) /\ (Write(a, "binding") => <<"binding", a>> \in files'[dirOf[a]])
    BY <1>5, WriteOwn DEF BindSnapshot, Names
  <2>2. pc[a] \in Holding /\ pc'[a] \in Holding /\ OwnState(a)
    BY <1>0, <1>5 DEF BindSnapshot, OwnState
  <2>3. CollectorShapeOf(a)' /\ GuardShapeOf(a)'
    BY <1>0, <1>1, <1>5 DEF BindSnapshot, CollectorShapeOf, GuardShapeOf
  <2>4. UNCHANGED <<made, listed, collector, snapshot>>
    BY <1>5 DEF BindSnapshot
  <2>5. /\ pc'[a] = "launch" \/ prod'[a] # "off" => <<"command", a>> \in files'[dirOf[a]]
        /\ pc'[a] = "seal" => <<"final", a>> \in files'[dirOf[a]]
    BY <1>0, <1>1, <1>5, <2>1 DEF BindSnapshot, OwnFiles
  <2> QED
    BY <2>1, <2>2, <2>3, <2>4, <2>5, HolderStep
<1>6. CASE RecheckIdentity(a)
  <2>1. OwnFiles(a) /\ (Write(a, "recheck") => <<"recheck", a>> \in files'[dirOf[a]])
    BY <1>6, WriteOwn DEF RecheckIdentity, Names
  <2>2. pc[a] \in Holding /\ pc'[a] \in Holding /\ OwnState(a)
    BY <1>0, <1>6 DEF RecheckIdentity, OwnState
  <2>3. CollectorShapeOf(a)' /\ GuardShapeOf(a)'
    BY <1>0, <1>1, <1>6 DEF RecheckIdentity, CollectorShapeOf, GuardShapeOf
  <2>4. UNCHANGED <<made, listed, collector, snapshot>>
    BY <1>6 DEF RecheckIdentity
  <2>5. /\ pc'[a] = "launch" \/ prod'[a] # "off" => <<"command", a>> \in files'[dirOf[a]]
        /\ pc'[a] = "seal" => <<"final", a>> \in files'[dirOf[a]]
    BY <1>0, <1>1, <1>6, <2>1 DEF RecheckIdentity, OwnFiles
  <2> QED
    BY <2>1, <2>2, <2>3, <2>4, <2>5, HolderStep
<1>7. CASE RecheckBaseline(a)
  <2>1. OwnFiles(a) /\ (Write(a, "recheck") => <<"recheck", a>> \in files'[dirOf[a]])
    BY <1>7, WriteOwn DEF RecheckBaseline, Names
  <2>2. pc[a] \in Holding /\ pc'[a] \in Holding /\ OwnState(a)
    BY <1>0, <1>7 DEF RecheckBaseline, OwnState
  <2>3. CollectorShapeOf(a)' /\ GuardShapeOf(a)'
    BY <1>0, <1>1, <1>7 DEF RecheckBaseline, CollectorShapeOf, GuardShapeOf
  <2>4. UNCHANGED <<made, listed, collector, snapshot>>
    BY <1>7 DEF RecheckBaseline
  <2>5. /\ pc'[a] = "launch" \/ prod'[a] # "off" => <<"command", a>> \in files'[dirOf[a]]
        /\ pc'[a] = "seal" => <<"final", a>> \in files'[dirOf[a]]
    BY <1>0, <1>1, <1>7, <2>1 DEF RecheckBaseline, OwnFiles
  <2> QED
    BY <2>1, <2>2, <2>3, <2>4, <2>5, HolderStep
<1>8. CASE RecordCommand(a)
  <2>1. OwnFiles(a) /\ (Write(a, "command") => <<"command", a>> \in files'[dirOf[a]])
    BY <1>8, WriteOwn DEF RecordCommand, Names
  <2>2. pc[a] \in Holding /\ pc'[a] \in Holding /\ OwnState(a)
    BY <1>0, <1>8 DEF RecordCommand, OwnState
  <2>3. CollectorShapeOf(a)' /\ GuardShapeOf(a)'
    BY <1>0, <1>1, <1>8 DEF RecordCommand, CollectorShapeOf, GuardShapeOf
  <2>4. UNCHANGED <<made, listed, collector, snapshot>>
    BY <1>8 DEF RecordCommand
  <2>5. /\ pc'[a] = "launch" \/ prod'[a] # "off" => <<"command", a>> \in files'[dirOf[a]]
        /\ pc'[a] = "seal" => <<"final", a>> \in files'[dirOf[a]]
    BY <1>0, <1>1, <1>8, <2>1 DEF RecordCommand, OwnFiles
  <2> QED
    BY <2>1, <2>2, <2>3, <2>4, <2>5, HolderStep
<1>9. CASE LaunchCommand(a)
  <2>1. OwnFiles(a) /\ (Write(a, "opened") => <<"opened", a>> \in files'[dirOf[a]])
    BY <1>9, WriteOwn DEF LaunchCommand, Names
  <2>2. pc[a] \in Holding /\ pc'[a] \in Holding /\ OwnState(a)
    BY <1>0, <1>9 DEF LaunchCommand, Outcome, StartCommand, Continue, Exit, OwnState
  <2>3. CollectorShapeOf(a)' /\ GuardShapeOf(a)'
    BY <1>0, <1>1, <1>9 DEF LaunchCommand, Outcome, StartCommand, Continue, Exit, CollectorShapeOf, GuardShapeOf
  <2>4. UNCHANGED <<made, listed, collector, snapshot>>
    BY <1>9 DEF LaunchCommand, Outcome, StartCommand, Continue, Exit
  <2>5. /\ pc'[a] = "launch" \/ prod'[a] # "off" => <<"command", a>> \in files'[dirOf[a]]
        /\ pc'[a] = "seal" => <<"final", a>> \in files'[dirOf[a]]
    BY <1>0, <1>1, <1>9, <2>1 DEF LaunchCommand, Outcome, StartCommand, Continue, Exit, OwnFiles
  <2> QED
    BY <2>1, <2>2, <2>3, <2>4, <2>5, HolderStep
<1>10. CASE CommandReports(a)
  <2>1. OwnFiles(a) /\ (Write(a, "opened") => <<"opened", a>> \in files'[dirOf[a]])
    BY <1>10, WriteOwn DEF CommandReports, Names
  <2>2. pc[a] \in Holding /\ pc'[a] \in Holding /\ OwnState(a)
    BY <1>0, <1>10 DEF CommandReports, OwnState
  <2>3. CollectorShapeOf(a)' /\ GuardShapeOf(a)'
    BY <1>0, <1>1, <1>10 DEF CommandReports, CollectorShapeOf, GuardShapeOf
  <2>4. UNCHANGED <<made, listed, collector, snapshot>>
    BY <1>10 DEF CommandReports
  <2>5. /\ pc'[a] = "launch" \/ prod'[a] # "off" => <<"command", a>> \in files'[dirOf[a]]
        /\ pc'[a] = "seal" => <<"final", a>> \in files'[dirOf[a]]
    BY <1>0, <1>1, <1>10, <2>1 DEF CommandReports, OwnFiles
  <2> QED
    BY <2>1, <2>2, <2>3, <2>4, <2>5, HolderStep
<1>11. CASE CommandTimesOut(a)
  <2>1. OwnFiles(a) /\ (Write(a, "opened") => <<"opened", a>> \in files'[dirOf[a]])
    BY <1>11, WriteOwn DEF CommandTimesOut, Names
  <2>2. pc[a] \in Holding /\ pc'[a] \in Holding /\ OwnState(a)
    BY <1>0, <1>11 DEF CommandTimesOut, Outcome, KillCommand, Continue, OwnState
  <2>3. CollectorShapeOf(a)' /\ GuardShapeOf(a)'
    BY <1>0, <1>1, <1>11 DEF CommandTimesOut, Outcome, KillCommand, Continue, CollectorShapeOf, GuardShapeOf
  <2>4. UNCHANGED <<made, listed, collector, snapshot>>
    BY <1>11 DEF CommandTimesOut, Outcome, KillCommand, Continue
  <2>5. /\ pc'[a] = "launch" \/ prod'[a] # "off" => <<"command", a>> \in files'[dirOf[a]]
        /\ pc'[a] = "seal" => <<"final", a>> \in files'[dirOf[a]]
    BY <1>0, <1>1, <1>11, <2>1
       DEF CommandTimesOut, Outcome, KillCommand, Continue, Running, OwnFiles
  <2> QED
    BY <2>1, <2>2, <2>3, <2>4, <2>5, HolderStep
<1>12. CASE Classify(a)
  <2>1. OwnFiles(a) /\ (Write(a, "outcome") => <<"outcome", a>> \in files'[dirOf[a]])
    BY <1>12, WriteOwn DEF Classify, Names
  <2>2. pc[a] \in Holding /\ pc'[a] \in Holding /\ OwnState(a)
    BY <1>0, <1>12 DEF Classify, OwnState
  <2>3. CollectorShapeOf(a)' /\ GuardShapeOf(a)'
    BY <1>0, <1>1, <1>12 DEF Classify, CollectorShapeOf, GuardShapeOf
  <2>4. UNCHANGED <<made, listed, collector, snapshot>>
    BY <1>12 DEF Classify
  <2>5. /\ pc'[a] = "launch" \/ prod'[a] # "off" => <<"command", a>> \in files'[dirOf[a]]
        /\ pc'[a] = "seal" => <<"final", a>> \in files'[dirOf[a]]
    BY <1>0, <1>1, <1>12, <2>1 DEF Classify, OwnFiles
  <2> QED
    BY <2>1, <2>2, <2>3, <2>4, <2>5, HolderStep
<1>13. CASE Finish(a)
  <2>1. OwnFiles(a) /\ (Write(a, "final") => <<"final", a>> \in files'[dirOf[a]])
    BY <1>13, WriteOwn DEF Finish, Names
  <2>2. pc[a] \in Holding /\ pc'[a] \in Holding /\ OwnState(a)
    BY <1>0, <1>13 DEF Finish, OwnState
  <2>3. CollectorShapeOf(a)' /\ GuardShapeOf(a)'
    BY <1>0, <1>1, <1>13 DEF Finish, CollectorShapeOf, GuardShapeOf
  <2>4. UNCHANGED <<made, listed, collector, snapshot>>
    BY <1>13 DEF Finish
  <2>5. /\ pc'[a] = "launch" \/ prod'[a] # "off" => <<"command", a>> \in files'[dirOf[a]]
        /\ pc'[a] = "seal" => <<"final", a>> \in files'[dirOf[a]]
    BY <1>0, <1>1, <1>13, <2>1 DEF Finish, OwnFiles
  <2> QED
    BY <2>1, <2>2, <2>3, <2>4, <2>5, HolderStep
<1> QED
  BY <1>2, <1>3, <1>4, <1>5, <1>6, <1>7, <1>8, <1>9, <1>10, <1>11, <1>12, <1>13 DEF AwaitCommand

\* The reads before the directory is made, and the end of a harness, leave
\* every claim as it is or end one.
LEMMA UnclaimedNext ==
  ASSUME TypeOK, Attended, NEW a \in Attempts, UNCHANGED dirOf,
         CheckIdentity(a) \/ CheckBaseline(a) \/ Die(a)
  PROVE  Attended'
<1> USE DEF guardVars, commandVars
<1>1. /\ UNCHANGED <<made, files, listed, prod, collector, snapshot, guard>>
      /\ pc' = [pc EXCEPT ![a] = pc'[a]] /\ pc \in [Attempts -> HarnessSteps]
      /\ pc'[a] \in {"baseline", "mkdir", "ended", "dead"}
      /\ \A b \in Attempts \ {a} : pc'[b] = pc[b] /\ stop'[b] = stop[b]
      /\ stop \in [Attempts -> Stops]
  BY DEF TypeOK, CheckIdentity, CheckBaseline, Die
<1>2. /\ pc'[a] = "ended" => pc[a] \in {"off", "baseline"} /\ stop'[a] = "refused"
      /\ pc'[a] \in {"baseline", "mkdir"} =>
             pc[a] \in {"off", "baseline"} /\ stop'[a] = stop[a]
  BY <1>1 DEF TypeOK, CheckIdentity, CheckBaseline, Die
<1>3. \A b \in Attempts : Claimed(b)' => Claimed(b)
  BY <1>1, <1>2 DEF Claimed, Launched, Sealed, Holding
<1>4. Owned'
  BY <1>1, <1>3 DEF Attended, Owned
<1>5. Clean' /\ Recorded' /\ CollectorShape'
  BY <1>1 DEF Attended, Clean, Recorded, Launched, CollectorShape
<1>6. GuardShape'
  BY <1>1, <1>2 DEF Attended, GuardShape, Unstopped, PastGuard
<1>7. SealShape'
  BY <1>1, <1>2 DEF Attended, SealShape, Sealed, Present, Unlisted
<1>8. RaisedShape'
  BY <1>1, <1>2 DEF Attended, RaisedShape, Unwritten
<1> QED
  BY <1>4, <1>5, <1>6, <1>7, <1>8 DEF Attended

\* mkdir() gives the directory to one attempt: it was not there, so nobody
\* claimed it and nothing was in it.
LEMMA MakeNext ==
  ASSUME TypeOK, Attended, NEW a \in Attempts, UNCHANGED dirOf, MakeDirectory(a)
  PROVE  Attended'
<1> USE DEF guardVars, commandVars
<1>1. /\ UNCHANGED <<files, listed, prod, collector, snapshot, guard>>
      /\ pc' = [pc EXCEPT ![a] = pc'[a]] /\ pc \in [Attempts -> HarnessSteps]
      /\ made' = made \cup {dirOf[a]} /\ pc[a] = "mkdir"
      /\ \A b \in Attempts \ {a} : pc'[b] = pc[b] /\ stop'[b] = stop[b]
      /\ dirOf \in [Attempts -> Dirs] /\ stop \in [Attempts -> Stops]
  BY DEF TypeOK, GuardTypeOK, MakeDirectory
<1>2. \/ pc'[a] = "open" /\ dirOf[a] \notin made /\ stop'[a] = stop[a]
      \/ pc'[a] = "raised" /\ stop'[a] = stop[a]
  BY <1>1 DEF TypeOK, MakeDirectory
<1>3. \A b \in Attempts \ {a} : Claimed(b)' <=> Claimed(b)
  BY <1>1 DEF Claimed, Launched, Sealed
<1>4. Owned'
  <2>1. CASE pc'[a] = "open" /\ dirOf[a] \notin made
    <3>1. \A b \in Attempts \ {a} : Claimed(b) => dirOf[b] # dirOf[a]
      BY <2>1 DEF Attended, Owned
    <3>2. files[dirOf[a]] = {}
      BY <1>1, <2>1 DEF Attended, Clean
    <3> QED
      BY <1>1, <1>3, <3>1, <3>2 DEF Attended, Owned
  <2>2. CASE pc'[a] = "raised" /\ stop'[a] = stop[a]
    <3>1. Claimed(a)' => Claimed(a)
      BY <1>1, <2>2 DEF Claimed, Launched, Sealed, Holding
    <3> QED
      BY <1>1, <1>3, <3>1 DEF Attended, Owned
  <2> QED
    BY <1>2, <2>1, <2>2
<1>5. Clean' /\ Recorded' /\ CollectorShape'
  BY <1>1, <1>2 DEF Attended, Clean, Recorded, Launched, CollectorShape
<1>6. GuardShape'
  BY <1>1, <1>2 DEF Attended, GuardShape, Unstopped, PastGuard
<1>7. SealShape'
  BY <1>1, <1>2 DEF Attended, SealShape, Sealed, Present, Unlisted
<1>8. RaisedShape'
  BY <1>1, <1>2 DEF Attended, RaisedShape, Unwritten
<1> QED
  BY <1>4, <1>5, <1>6, <1>7, <1>8 DEF Attended

\* The hashes are taken over all that is there, and nobody else writes there.
LEMMA SealNext ==
  ASSUME TypeOK, Attended, NEW a \in Attempts, UNCHANGED dirOf, Seal(a)
  PROVE  Attended'
<1> USE DEF guardVars, commandVars
<1>1. /\ UNCHANGED <<made, files, prod, collector, snapshot, guard, stop>>
      /\ pc' = [pc EXCEPT ![a] = "ended"] /\ pc \in [Attempts -> HarnessSteps]
      /\ listed' = [listed EXCEPT ![dirOf[a]] = Present(dirOf[a])] /\ pc[a] = "seal"
      /\ dirOf \in [Attempts -> Dirs] /\ listed \in [Dirs -> SUBSET Names]
  BY DEF TypeOK, GuardTypeOK, Seal
<1>2. Claimed(a) /\ \A b \in Attempts : Claimed(b)' => Claimed(b)
  BY <1>1 DEF Claimed, Launched, Sealed, Holding
<1>3. Owned'
  BY <1>1, <1>2 DEF Attended, Owned
<1>4. Clean' /\ Recorded' /\ CollectorShape' /\ GuardShape'
  BY <1>1 DEF Attended, Clean, Recorded, Launched, CollectorShape, GuardShape,
              Unstopped, PastGuard
<1>5. SealShape'
  <2> SUFFICES ASSUME NEW b \in Attempts
               PROVE  /\ pc'[b] = "seal" => <<"final", b>> \in files'[dirOf[b]]
                      /\ Sealed(b)' => /\ "final" \in listed'[dirOf[b]]
                                       /\ Present(dirOf[b])' \ listed'[dirOf[b]]
                                          \subseteq Unlisted(b)'
    BY <1>1 DEF SealShape
  <2>1. Present(dirOf[b])' = Present(dirOf[b]) /\ Unlisted(b)' = Unlisted(b)
    BY <1>1 DEF Present, Unlisted
  <2>2. CASE b = a
    <3>1. "final" \in Present(dirOf[a])
      <4>1. <<"final", a>> \in files[dirOf[a]]
        BY <1>1 DEF Attended, SealShape
      <4>2. "final" \in {f[1] : f \in files[dirOf[a]]}
        <5>1. <<"final", a>>[1] = "final"
          OBVIOUS
        <5> QED
          BY <4>1, <5>1
      <4> QED
        BY <4>2 DEF Present
    <3> QED
      BY <1>1, <2>1, <2>2, <3>1
  <2>3. CASE b # a
    <3>1. (Sealed(b)' => Sealed(b)) /\ pc'[b] = pc[b]
      BY <1>1, <2>3 DEF Sealed
    <3>2. Sealed(b) => dirOf[b] # dirOf[a]
      BY <1>2, <2>3 DEF Attended, Owned, Claimed
    <3>3. Sealed(b)' => listed'[dirOf[b]] = listed[dirOf[b]]
      BY <1>1, <3>1, <3>2
    <3> QED
      BY <1>1, <2>1, <3>1, <3>3 DEF Attended, SealShape
  <2> QED
    BY <2>2, <2>3
<1>6. RaisedShape'
  BY <1>1 DEF Attended, RaisedShape, Unwritten
<1> QED
  BY <1>3, <1>4, <1>5, <1>6 DEF Attended

\* A collector that still publishes while the hashes are taken has outlived a
\* wrapper killed at the timeout.
LEMMA SealRaisesNext ==
  ASSUME TypeOK, Attended, NEW a \in Attempts, UNCHANGED dirOf, SealRaises(a)
  PROVE  Attended'
<1> USE DEF guardVars, commandVars
<1>1. /\ UNCHANGED <<made, files, listed, prod, collector, snapshot, guard, stop>>
      /\ pc' = [pc EXCEPT ![a] = "raised"] /\ pc \in [Attempts -> HarnessSteps]
      /\ pc[a] = "seal" /\ collector[a] = "publishing"
      /\ guard \in [Attempts -> {"off", "verify", "wait", "evaluate", "exited", "killed"}]
  BY DEF TypeOK, GuardTypeOK, SealRaises
<1>2. \A b \in Attempts : Claimed(b)' => Claimed(b)
  BY <1>1 DEF Claimed, Launched, Sealed, Holding
<1>3. stop[a] = "guard_timeout"
  <2>1. guard[a] \notin {"off", "exited"}
    BY <1>1 DEF Attended, CollectorShape
  <2> QED
    BY <1>1, <2>1 DEF Attended, GuardShape, PastGuard
<1>4. Owned'
  BY <1>1, <1>2 DEF Attended, Owned
<1>5. Clean' /\ Recorded' /\ CollectorShape' /\ GuardShape'
  BY <1>1 DEF Attended, Clean, Recorded, Launched, CollectorShape, GuardShape,
              Unstopped, PastGuard
<1>6. SealShape'
  BY <1>1 DEF Attended, SealShape, Sealed, Present, Unlisted
<1>7. RaisedShape'
  BY <1>1, <1>3 DEF Attended, RaisedShape, Unwritten
<1> QED
  BY <1>4, <1>5, <1>6, <1>7 DEF Attended

\* A step of the command starts and ends no claim.
LEMMA CommandNext ==
  ASSUME TypeOK, Attended, NEW a \in Attempts, CommandStep(a),
         UNCHANGED <<dirOf, guardVars, harnessVars>>
  PROVE  Attended'
<1>1. prod \in [Attempts -> Running \cup {"off", "exited", "killed"}]
  BY DEF TypeOK, CommandTypeOK
<1>2. \A b \in Attempts : Launched(b)' <=> Launched(b)
  BY <1>1 DEF CommandStep, CheckDatabase, CheckQueue, Claim, Configure, Add, Finalize, Delete,
              Release, Hold, Exit, ReleaseThenSay, Continue, Launched, Running
<1> QED
  BY <1>2 DEF Attended, Owned, Clean, Recorded, CollectorShape, GuardShape, SealShape,
              RaisedShape, Unwritten, Claimed, Sealed, Present, Unlisted, harnessVars, guardVars

\* A step of the wrapper or the collector: what a collector publishes late is
\* in the directory of an attempt that was stopped at the timeout.
LEMMA GuardNext ==
  ASSUME TypeOK, Attended, NEW a \in Attempts, GuardStep(a),
         UNCHANGED <<dirOf, commandVars, harnessVars>>
  PROVE  Attended'
<1> USE DEF Report, Reach
<1>1. /\ UNCHANGED <<pc, made, files, listed, stop, prod>>
      /\ dirOf \in [Attempts -> Dirs] /\ snapshot \in [Dirs -> {"none", "captured", "altered"}]
      /\ guard \in [Attempts -> {"off", "verify", "wait", "evaluate", "exited", "killed"}]
      /\ collector \in [Attempts -> {"off", "guarding", "collecting", "publishing",
                                      "published", "failed", "killed"}]
  BY DEF TypeOK, GuardTypeOK, harnessVars, commandVars
<1>2. /\ CollectorShapeOf(a) /\ GuardShapeOf(a)
  BY DEF Attended, CollectorShape, GuardShape, CollectorShapeOf, GuardShapeOf
<1>3. /\ guard[a] # "off"
      /\ guard'[a] # "off" /\ CollectorShapeOf(a)'
      /\ guard[a] \in {"exited", "killed"} => guard'[a] = guard[a]
      /\ \A b \in Attempts \ {a} : guard'[b] = guard[b] /\ collector'[b] = collector[b]
  BY <1>1, <1>2 DEF GuardStep, VerifyInvocation, CollectorEnds, Evaluate, FirstGuard,
       SecondGuard, Publish, CollectorShapeOf
<1>4. \/ UNCHANGED snapshot
      \/ /\ collector[a] = "publishing"
         /\ snapshot' = [snapshot EXCEPT ![dirOf[a]] = "captured"]
  BY DEF GuardStep, VerifyInvocation, CollectorEnds, Evaluate, FirstGuard, SecondGuard, Publish
<1>5. \A b \in Attempts : Claimed(b)' <=> Claimed(b)
  BY <1>1, <1>3 DEF Claimed, Launched, Sealed
<1>6. Owned'
  BY <1>1, <1>5 DEF Attended, Owned
<1>7. Clean' /\ Recorded'
  BY <1>1 DEF Attended, Clean, Recorded, Launched
<1>8. CollectorShape'
  BY <1>3 DEF Attended, CollectorShape, CollectorShapeOf
<1>9. GuardShape'
  BY <1>1, <1>2, <1>3 DEF Attended, GuardShape, GuardShapeOf
<1>10. SealShape'
  <2> SUFFICES ASSUME NEW b \in Attempts, Sealed(b)
               PROVE  Present(dirOf[b])' \ listed[dirOf[b]] \subseteq Unlisted(b)
    BY <1>1 DEF Attended, SealShape, Sealed, Unlisted
  <2>1. Present(dirOf[b]) \ listed[dirOf[b]] \subseteq Unlisted(b)
    BY DEF Attended, SealShape
  <2>2. CASE UNCHANGED snapshot
    BY <1>1, <2>1, <2>2 DEF Present
  <2>3. CASE /\ collector[a] = "publishing"
             /\ snapshot' = [snapshot EXCEPT ![dirOf[a]] = "captured"]
    <3>1. CASE dirOf[b] = dirOf[a]
      <4>1. a = b
        BY <1>3, <3>1 DEF Attended, Owned, Claimed
      <4>2. guard[b] \notin {"off", "exited"}
        BY <1>2, <2>3, <4>1 DEF CollectorShapeOf
      <4>3. stop[b] = "guard_timeout"
        BY <1>2, <4>1, <4>2 DEF GuardShapeOf, Sealed, PastGuard
      <4>4. Present(dirOf[b])' \subseteq Present(dirOf[b]) \cup {"snapshot"}
        BY <1>1 DEF Present
      <4> QED
        BY <2>1, <4>3, <4>4 DEF Unlisted
    <3>2. CASE dirOf[b] # dirOf[a]
      BY <1>1, <2>1, <2>3, <3>2 DEF Present
    <3> QED
      BY <3>1, <3>2
  <2> QED
    BY <1>4, <2>2, <2>3
<1>11. RaisedShape'
  BY <1>1 DEF Attended, RaisedShape, Unwritten
<1> QED
  BY <1>6, <1>7, <1>8, <1>9, <1>10, <1>11 DEF Attended

\* What others do touches no evidence but a snapshot that is there already.
LEMMA OthersNext ==
  ASSUME TypeOK, Attended, Others, UNCHANGED <<dirOf, harnessVars>>
  PROVE  Attended'
<1>1. UNCHANGED <<pc, made, files, listed, stop>>
  BY DEF harnessVars
<1>2. UNCHANGED <<prod, guard, collector>>
  BY DEF Others, Disturbance, Break, OtherRender, MoveFolder, OperatorLeaves, OperatorQueues,
         OutputAppears, Alter, guardVars, commandVars
<1>3. \A d \in Dirs : snapshot'[d] # "none" <=> snapshot[d] # "none"
  <2>1. CASE Disturbance /\ UNCHANGED guardVars
    BY <2>1 DEF guardVars
  <2>2. ASSUME NEW d \in Dirs, Alter(d)
        PROVE  \A e \in Dirs : snapshot'[e] # "none" <=> snapshot[e] # "none"
    BY <2>2 DEF Alter, TypeOK, GuardTypeOK
  <2> QED
    BY <2>1, <2>2 DEF Others
<1>4. \A a \in Attempts : Present(dirOf[a])' = Present(dirOf[a])
  <2>1. dirOf \in [Attempts -> Dirs]
    BY DEF TypeOK, GuardTypeOK
  <2> QED
    BY <1>1, <1>3, <2>1 DEF Present
<1>5. Owned' /\ Clean' /\ Recorded' /\ CollectorShape' /\ GuardShape'
  BY <1>1, <1>2 DEF Attended, Owned, Clean, Recorded, CollectorShape, GuardShape, Claimed,
       Launched, Sealed
<1>6. SealShape'
  BY <1>1, <1>4 DEF Attended, SealShape, Sealed, Unlisted
<1>7. RaisedShape'
  BY <1>1 DEF Attended, RaisedShape, Unwritten
<1> QED
  BY <1>5, <1>6, <1>7 DEF Attended

----------------------------------------------------------------------------
\* Every step keeps directories owned, launches recorded and seals complete.
LEMMA AttendedNext ==
  ASSUME TypeOK, Attended, [Next]_vars
  PROVE  Attended'
<1>1. ASSUME NEW a \in Attempts, Harness(a) \/ Die(a), UNCHANGED dirOf PROVE Attended'
  BY <1>1, UnclaimedNext, MakeNext, HolderNext, SealNext, SealRaisesNext DEF Harness
<1>2. ASSUME NEW a \in Attempts, Children(a), UNCHANGED <<dirOf, harnessVars>> PROVE Attended'
  BY <1>2, CommandNext, GuardNext DEF Children
<1>3. CASE Others /\ UNCHANGED <<dirOf, harnessVars>>
  BY <1>3, OthersNext
<1>4. CASE UNCHANGED vars
  BY <1>4 DEF vars, commandVars, guardVars, harnessVars, Attended, Owned, Clean, Recorded,
       CollectorShape, GuardShape, SealShape, RaisedShape, Unwritten, Claimed, Launched, Sealed,
       Present, Unlisted
<1> QED
  BY <1>1, <1>2, <1>3, <1>4 DEF Next

\* Types and attended attempts hold together.
LEMMA Invariance == Spec => []IInv
<1>1. Init => IInv
  BY TypeInit, AttendedInit DEF IInv
<1>2. IInv /\ [Next]_vars => IInv'
  BY TypeNext, AttendedNext DEF IInv
<1> QED
  BY <1>1, <1>2, PTL DEF Spec

\* A command that ran has its invocation on disk, among evidence of its own
\* attempt only, for any number of attempts given the same directory.
THEOREM LaunchRecorded == Spec => []LaunchIsOnRecord
<1>1. IInv => LaunchIsOnRecord
  BY DEF IInv, Attended, Recorded, Owned, Claimed, LaunchIsOnRecord
<1> QED
  BY <1>1, Invariance, PTL

\* The hashes of a finished attempt name all that is there; only a snapshot
\* that came after the preflight's timeout may be missing, and only after that
\* timeout may evidence be left without hashes by an exception.
THEOREM EvidenceSealed == Spec => []SealedIsComplete
<1>1. IInv => SealedIsComplete
  <2> SUFFICES ASSUME IInv, NEW a \in Attempts
               PROVE  /\ Sealed(a) => /\ "final" \in listed[dirOf[a]]
                                      /\ Present(dirOf[a]) \ listed[dirOf[a]]
                                         \subseteq Unlisted(a)
                      /\ pc[a] = "raised" /\ <<"opened", a>> \in files[dirOf[a]]
                         => stop[a] = "guard_timeout"
    BY DEF SealedIsComplete, Sealed, Unlisted
  <2>1. <<"opened", a>> \in files[dirOf[a]] => ~ Unwritten(a)
    BY DEF Unwritten
  <2> QED
    BY <2>1 DEF IInv, Attended, SealShape, RaisedShape
<1> QED
  BY <1>1, Invariance, PTL

----------------------------------------------------------------------------
(* What the command did, what it said, and what the harness makes of it *)

\* The command of the attempt has not been started, nor given up.
BeforeLaunch == {"off", "baseline", "mkdir", "open", "await", "bind", "recheck",
                 "boundary", "command", "launch"}

\* What the text says of the database and of Resolve is so; the claim itself is
\* released in the step that follows.
Honest(a) ==
    /\ said[a] \in {"early", "selection"} => did[a] = {}
    /\ said[a] = "configuration" => did[a] = {"claimed"}
    /\ said[a] = "not_added" => did[a] = {"claimed", "asked"}
    /\ said[a] = "unobserved" => "asked" \in did[a]
    /\ said[a] = "rolled_back" => held[a] \in Jobs \ queue

\* Where the command is tells what it did, and how far its claim has come.
CommandShape(a) ==
    /\ prod[a] \in {"off", "database", "queue", "claim"} => did[a] = {} /\ rows[a] = "none"
    /\ prod[a] \in {"configure", "add"} => did[a] = {"claimed"} /\ rows[a] = "claiming"
    /\ prod[a] \in {"finalize", "delete"} =>
          "asked" \in did[a] /\ rows[a] = "claiming" /\ held[a] \in Jobs
    /\ prod[a] = "release" =>
          /\ rows[a] = "claiming" /\ Honest(a)
          /\ said[a] \in {"configuration", "not_added", "unobserved", "rolled_back", "other"}
    /\ prod[a] = "exited" =>
          /\ Honest(a)
          /\ said[a] \in {"configuration", "not_added", "unobserved", "rolled_back"} => rows[a] = "none"
          /\ said[a] = "manual" => rows[a] = "claiming"
          /\ said[a] = "success" => rows[a] = "queued" /\ "asked" \in did[a]

\* A job that is in the queue, or that a command holds, was added by the command
\* whose job it is.
JobShape ==
    /\ \A b \in queue \cap Attempts : "added" \in did[b]
    /\ \A a \in Attempts : held[a] \in Attempts => "added" \in did[held[a]]

\* A class is given after the command ended, by what it said.
ClassShape(a) ==
    /\ pc[a] \in BeforeLaunch => prod[a] = "off"
    /\ pc[a] \in BeforeLaunch \cup {"running"} => class[a] = "none"
    /\ pc[a] = "classify" /\ class[a] = "none" => prod[a] = "exited"
    /\ class[a] = "not_launched" => prod[a] = "off"
    /\ class[a] \notin {"none", "not_launched", "timeout", "unclassified"} =>
          /\ prod[a] = "exited"
          /\ class[a] = said[a] \/ (class[a] = "accepted" /\ said[a] = "success")

----------------------------------------------------------------------------
(* What drifted *)

\* Resolve is in use and no command will change that.
Occupies ==
    \/ ~ onTarget
    \/ /\ Operator \in queue
       /\ \A b \in Attempts : /\ prod[b] = "add" => Operator \in before[b]
                              /\ prod[b] \in {"finalize", "delete"} => held[b] # Operator

\* The collector will not find Resolve free.
GuardFails(a) ==
    /\ guard[a] # "evaluate"
    /\ guard[a] = "wait" => collector[a] \in {"guarding", "failed", "killed"}
    /\ guard[a] = "exited" => verdict[a] = "failed"

\* The part of the drift that is looked for last.
LateDrift(a) ==
    \/ "modules" \in broken
    \/ status # "assembled" \/ strange
    \/ folder # folder0[a]
    \/ output

DriftShape(a) ==
    /\ drifted[a] => ~ Launched(a)
    /\ drifted[a] => pc[a] \notin {"off", "baseline", "mkdir", "open", "command", "launch", "running"}
    /\ drifted[a] /\ pc[a] = "await" => Occupies /\ GuardFails(a)
    /\ drifted[a] /\ pc[a] \in {"bind", "recheck"} => Drift(a)
    /\ drifted[a] /\ pc[a] = "boundary" => LateDrift(a)
    /\ folder = folder0[a] \/ folder # "reviewed"

Truth ==
    /\ JobShape
    /\ \A a \in Attempts : CommandShape(a) /\ ClassShape(a) /\ DriftShape(a)

\* All of it at the start.
LEMMA TruthInit == Init => Truth
<1> SUFFICES ASSUME Init PROVE Truth
  OBVIOUS
<1>1. JobShape
  BY JobAssumption DEF Init, CommandInit, JobShape, Jobs
<1>2. ASSUME NEW a \in Attempts
      PROVE  CommandShape(a) /\ ClassShape(a) /\ DriftShape(a)
  BY DEF Init, CommandInit, CommandShape, ClassShape, DriftShape, BeforeLaunch, Launched
<1> QED
  BY <1>1, <1>2 DEF Truth

Commands == JobShape /\ \A a \in Attempts : CommandShape(a)

\* A step of one command that adds at most its own job, and holds at most its
\* own or one that is there, leaves what the others said true.
LEMMA OwnCommand ==
  ASSUME CommandTypeOK, Commands, NEW a \in Attempts,
         \A b \in Attempts \ {a} : /\ prod'[b] = prod[b] /\ rows'[b] = rows[b] /\ held'[b] = held[b]
                                   /\ said'[b] = said[b] /\ did'[b] = did[b],
         \/ queue' \subseteq queue
         \/ queue' = queue \cup {a} /\ "added" \notin did[a] /\ "added" \in did'[a],
         did[a] \subseteq did'[a],
         \/ held'[a] = held[a]
         \/ held'[a] \in queue
         \/ held'[a] = a /\ "added" \in did'[a],
         CommandShape(a)'
  PROVE  Commands'
<1>1. \A b \in Attempts : did[b] \subseteq did'[b]
  OBVIOUS
<1>2. \A b \in Attempts : held'[b] = held[b] \/ held'[b] \in queue \/ (held'[b] = b /\ "added" \in did'[b])
  OBVIOUS
<1>3. JobShape'
  <2>1. \A b \in queue' \cap Attempts : "added" \in did'[b]
    BY <1>1 DEF Commands, JobShape
  <2>2. \A b \in Attempts : held'[b] \in Attempts => "added" \in did'[held'[b]]
    BY <1>1, <1>2 DEF Commands, JobShape
  <2> QED
    BY <2>1, <2>2 DEF JobShape
<1>4. ASSUME NEW b \in Attempts \ {a}
      PROVE  CommandShape(b)'
  <2>1. CommandShape(b)
    BY DEF Commands
  <2>2. Honest(b) => Honest(b)'
    <3>1. held[b] \in Jobs \ queue => held[b] \in Jobs \ queue'
      BY DEF Commands, JobShape
    <3> QED
      BY <3>1 DEF Honest
  <2> QED
    BY <2>1, <2>2 DEF CommandShape
<1> QED
  BY <1>3, <1>4 DEF Commands

\* Every step of a command leaves a command of which the texts are true.
LEMMA CommandsStep ==
  ASSUME CommandTypeOK, Commands, NEW a \in Attempts,
         CommandStep(a) \/ StartCommand(a) \/ KillCommand(a)
  PROVE  Commands'
<1> USE DEF Continue, Exit, ReleaseThenSay, Does, Hold, Running
<1>0. /\ CommandShape(a)
      /\ rows \in [Attempts -> RowStates] /\ prod \in [Attempts -> Running \cup {"off", "exited", "killed"}]
      /\ held \in [Attempts -> Jobs \cup {NoJob}] /\ said \in [Attempts -> Texts]
      /\ did \in [Attempts -> SUBSET {"claimed", "asked", "added"}] /\ queue \subseteq Jobs
  BY DEF Commands, CommandTypeOK
<1>1. CASE CheckDatabase(a)
  BY <1>0, <1>1, OwnCommand DEF CheckDatabase, CommandShape, Honest
<1>2. CASE CheckQueue(a)
  BY <1>0, <1>2, OwnCommand DEF CheckQueue, CommandShape, Honest
<1>3. CASE Claim(a)
  BY <1>0, <1>3, OwnCommand DEF Claim, CommandShape, Honest
<1>4. CASE Configure(a)
  BY <1>0, <1>4, OwnCommand DEF Configure, CommandShape, Honest
<1>5. CASE Add(a)
  <2>1. did[a] = {"claimed"} /\ rows[a] = "claiming" /\ prod[a] = "add"
    BY <1>0, <1>5 DEF Add, CommandShape
  <2>2. CASE queue' = queue \cup {a} /\ did' = [did EXCEPT ![a] = @ \cup {"asked", "added"}]
    <3>1. CommandShape(a)'
      BY <1>0, <1>5, <2>1, <2>2 DEF Add, CommandShape, Honest, Jobs
    <3> QED
      BY <1>0, <1>5, <2>1, <2>2, <3>1, OwnCommand DEF Add
  <2>3. CASE queue' = queue /\ did' = [did EXCEPT ![a] = @ \cup {"asked"}]
    <3>1. held'[a] = held[a] \/ held'[a] \in queue
      BY <1>0, <1>5, <2>3, <2>1 DEF Add
    <3>2. CommandShape(a)'
      BY <1>0, <1>5, <2>1, <2>3, <3>1 DEF Add, CommandShape, Honest
    <3> QED
      BY <1>0, <1>5, <2>1, <2>3, <3>1, <3>2, OwnCommand DEF Add
  <2> QED
    BY <1>5, <2>2, <2>3 DEF Add
<1>6. CASE Finalize(a)
  BY <1>0, <1>6, OwnCommand DEF Finalize, CommandShape, Honest
<1>7. CASE Delete(a)
  BY <1>0, <1>7, OwnCommand DEF Delete, CommandShape, Honest
<1>8. CASE Release(a)
  BY <1>0, <1>8, OwnCommand DEF Release, CommandShape, Honest
<1>9. CASE StartCommand(a)
  BY <1>0, <1>9, OwnCommand DEF StartCommand, CommandShape, Honest
<1>10. CASE KillCommand(a)
  BY <1>0, <1>10, OwnCommand DEF KillCommand, CommandShape, Honest
<1> QED
  BY <1>1, <1>2, <1>3, <1>4, <1>5, <1>6, <1>7, <1>8, <1>9, <1>10 DEF CommandStep

\* The operator queues no job that a command holds.
LEMMA CommandsDisturbed ==
  ASSUME CommandTypeOK, Commands, Disturbance
  PROVE  Commands'
<1>1. CASE UNCHANGED commandVars
  BY <1>1 DEF commandVars, Commands, JobShape, CommandShape, Honest
<1>2. CASE OperatorQueues
  <2>1. /\ queue' = queue \cup {Operator} /\ \A a \in Attempts : held[a] # Operator
        /\ UNCHANGED <<rows, prod, held, said, did>>
    BY <1>2 DEF OperatorQueues
  <2>2. JobShape'
    BY <2>1, OperatorAssumption DEF Commands, JobShape
  <2> QED
    BY <2>1, <2>2 DEF Commands, CommandShape, Honest
<1> QED
  BY <1>1, <1>2 DEF Disturbance, Break, OtherRender, MoveFolder, OperatorLeaves, OutputAppears

\* A harness or its end leaves the world alone, and the command too, except
\* that it starts it from "launch" and may kill it while it waits.
LEMMA HarnessFrame ==
  ASSUME NEW a \in Attempts, Harness(a) \/ Die(a)
  PROVE  /\ UNCHANGED worldVars
         /\ \/ UNCHANGED commandVars
            \/ pc[a] = "launch" /\ StartCommand(a)
            \/ pc[a] = "running" /\ KillCommand(a)
BY DEF Harness, AwaitCommand, CheckIdentity, CheckBaseline, MakeDirectory, OpenEvidence,
       GuardReports, GuardTimesOut, BindSnapshot, RecheckIdentity, RecheckBaseline,
       RecordCommand, LaunchCommand, CommandReports, CommandTimesOut, Classify, Finish,
       Seal, SealRaises, Die

\* What is said of the commands is kept by every step.
LEMMA CommandsNext ==
  ASSUME TypeOK, Commands, [Next]_vars
  PROVE  Commands'
<1>0. CommandTypeOK
  BY DEF TypeOK
<1>1. CASE UNCHANGED commandVars
  BY <1>1 DEF commandVars, Commands, JobShape, CommandShape, Honest
<1>2. ASSUME NEW a \in Attempts, Harness(a) \/ Die(a) PROVE Commands'
  BY <1>0, <1>1, <1>2, HarnessFrame, CommandsStep
<1>3. ASSUME NEW a \in Attempts, Children(a) PROVE Commands'
  BY <1>0, <1>1, <1>3, CommandsStep DEF Children
<1>4. CASE Others
  BY <1>0, <1>1, <1>4, CommandsDisturbed DEF Others
<1>5. CASE UNCHANGED vars
  BY <1>1, <1>5 DEF vars
<1> QED
  BY <1>2, <1>3, <1>4, <1>5 DEF Next

\* A command that is under way was launched and has not exited, and its step
\* does not undo that.
LEMMA CommandMoves ==
  ASSUME NEW a \in Attempts, CommandTypeOK, CommandStep(a)
  PROVE  /\ prod[a] \in Running
         /\ prod'[a] \in Running \cup {"exited"}
         /\ \A b \in Attempts \ {a} : prod'[b] = prod[b] /\ said'[b] = said[b]
<1> USE DEF Continue, Exit, ReleaseThenSay, Hold, Running, CommandTypeOK
<1>1. CASE CheckDatabase(a)
  BY <1>1 DEF CheckDatabase
<1>2. CASE CheckQueue(a)
  BY <1>2 DEF CheckQueue
<1>3. CASE Claim(a)
  BY <1>3 DEF Claim
<1>4. CASE Configure(a)
  BY <1>4 DEF Configure
<1>5. CASE Add(a)
  BY <1>5 DEF Add
<1>6. CASE Finalize(a)
  BY <1>6 DEF Finalize
<1>7. CASE Delete(a)
  BY <1>7 DEF Delete
<1>8. CASE Release(a)
  BY <1>8 DEF Release
<1> QED
  BY <1>1, <1>2, <1>3, <1>4, <1>5, <1>6, <1>7, <1>8 DEF CommandStep

\* Every step leaves each class one that its command's end accounts for.
LEMMA ClassesNext ==
  ASSUME TypeOK, \A a \in Attempts : ClassShape(a), [Next]_vars
  PROVE  \A a \in Attempts : ClassShape(a)'
<1>0. /\ CommandTypeOK /\ pc \in [Attempts -> HarnessSteps]
      /\ class \in [Attempts -> Classes] /\ said \in [Attempts -> Texts]
      /\ prod \in [Attempts -> Running \cup {"off", "exited", "killed"}]
  BY DEF TypeOK, CommandTypeOK
<1>1. ASSUME NEW a \in Attempts, Harness(a) \/ Die(a)
      PROVE  \A b \in Attempts : ClassShape(b)'
  <2>1. ASSUME NEW b \in Attempts \ {a} PROVE ClassShape(b)'
    <3>1. prod'[b] = prod[b] /\ said'[b] = said[b]
      BY <1>0, <1>1, HarnessFrame DEF commandVars, StartCommand, KillCommand, Continue, Exit
    <3>2. pc'[b] = pc[b] /\ class'[b] = class[b]
      BY <1>0, <1>1 DEF Harness, AwaitCommand, CheckIdentity, CheckBaseline, MakeDirectory,
           OpenEvidence, GuardReports, GuardTimesOut, BindSnapshot, RecheckIdentity,
           RecheckBaseline, RecordCommand, LaunchCommand, CommandReports, CommandTimesOut,
           Outcome, Classify, Finish, Seal, SealRaises, Die
    <3> QED
      BY <3>1, <3>2 DEF ClassShape
  <2>2. ClassShape(a)
    OBVIOUS
  <2>3. ASSUME UNCHANGED <<prod, said, class>>,
               \/ pc[a] \in BeforeLaunch /\ pc'[a] \in BeforeLaunch
               \/ pc'[a] \notin BeforeLaunch \cup {"running", "classify"}
        PROVE  ClassShape(a)'
    BY <2>2, <2>3 DEF ClassShape, BeforeLaunch
  <2>4. ASSUME \/ CheckIdentity(a) \/ CheckBaseline(a) \/ MakeDirectory(a) \/ OpenEvidence(a)
             \/ GuardReports(a) \/ GuardTimesOut(a) \/ BindSnapshot(a) \/ RecheckIdentity(a)
             \/ RecheckBaseline(a) \/ RecordCommand(a) \/ Finish(a) \/ Seal(a)
             \/ SealRaises(a) \/ Die(a)
        PROVE  ClassShape(a)'
    <3>1. UNCHANGED <<prod, said, class>>
      BY <2>4 DEF CheckIdentity, CheckBaseline, MakeDirectory, OpenEvidence, GuardReports,
           GuardTimesOut, BindSnapshot, RecheckIdentity, RecheckBaseline, RecordCommand,
           Finish, Seal, SealRaises, Die, commandVars
    <3>2. \/ pc[a] \in BeforeLaunch /\ pc'[a] \in BeforeLaunch
          \/ pc'[a] \notin BeforeLaunch \cup {"running", "classify"}
      BY <1>0, <2>4 DEF CheckIdentity, CheckBaseline, MakeDirectory, OpenEvidence, GuardReports,
           GuardTimesOut, BindSnapshot, RecheckIdentity, RecheckBaseline, RecordCommand,
           Finish, Seal, SealRaises, Die, BeforeLaunch
    <3> QED
      BY <2>3, <3>1, <3>2
  <2>5. ASSUME LaunchCommand(a) PROVE ClassShape(a)'
    BY <1>0, <2>2, <2>5 DEF LaunchCommand, Outcome, StartCommand, Continue, Exit, commandVars,
         ClassShape, BeforeLaunch
  <2>6. ASSUME CommandReports(a) PROVE ClassShape(a)'
    BY <1>0, <2>2, <2>6 DEF CommandReports, commandVars, ClassShape, BeforeLaunch
  <2>7. ASSUME CommandTimesOut(a) PROVE ClassShape(a)'
    BY <1>0, <2>2, <2>7 DEF CommandTimesOut, KillCommand, Outcome, Continue, ClassShape, BeforeLaunch
  <2>8. ASSUME Classify(a) PROVE ClassShape(a)'
    <3>1. /\ pc[a] = "classify" /\ pc'[a] = "finish" /\ UNCHANGED <<prod, said>>
          /\ class'[a] \in Classification(a)
      BY <1>0, <2>8 DEF Classify, commandVars
    <3>2. CASE class[a] # "none"
      BY <2>2, <3>1, <3>2 DEF Classification, ClassShape, BeforeLaunch
    <3>3. CASE class[a] = "none"
      <4>1. prod[a] = "exited"
        BY <2>2, <3>1, <3>3 DEF ClassShape
      <4>2. class'[a] = "unclassified" \/ class'[a] = said[a]
            \/ (class'[a] = "accepted" /\ said[a] = "success")
        BY <3>1, <3>3 DEF Classification, Accepted, TextClass
      <4>3. said[a] # "not_launched" /\ said[a] # "none"
        BY <1>0 DEF Texts
      <4> QED
        BY <3>1, <4>1, <4>2, <4>3 DEF ClassShape, BeforeLaunch
    <3> QED
      BY <3>2, <3>3
  <2>9. ClassShape(a)'
    BY <1>1, <2>4, <2>5, <2>6, <2>7, <2>8 DEF Harness, AwaitCommand
  <2> QED
    BY <2>1, <2>9
<1>2. CASE UNCHANGED <<pc, class, prod, said>>
  BY <1>2 DEF ClassShape
<1>3. ASSUME NEW a \in Attempts, Children(a), UNCHANGED harnessVars
      PROVE  \A b \in Attempts : ClassShape(b)'
  <2>1. CASE UNCHANGED commandVars
    BY <1>2, <1>3, <2>1 DEF commandVars, harnessVars
  <2>2. CASE CommandStep(a)
    <3>1. /\ prod[a] \in Running /\ prod'[a] \in Running \cup {"exited"}
          /\ \A b \in Attempts \ {a} : prod'[b] = prod[b] /\ said'[b] = said[b]
      BY <1>0, <2>2, CommandMoves
    <3>2. UNCHANGED <<pc, class>>
      BY <1>3 DEF harnessVars
    <3>3. ClassShape(a)'
      <4>1. /\ pc[a] \notin BeforeLaunch
            /\ ~ (pc[a] = "classify" /\ class[a] = "none")
            /\ class[a] \in {"none", "timeout", "unclassified"}
            /\ pc[a] = "running" => class[a] = "none"
        BY <3>1 DEF ClassShape, Running
      <4> QED
        BY <3>2, <4>1 DEF ClassShape
    <3>4. \A b \in Attempts \ {a} : ClassShape(b)'
      BY <3>1, <3>2 DEF ClassShape
    <3> QED
      BY <3>3, <3>4
  <2> QED
    BY <1>3, <2>1, <2>2 DEF Children
<1>4. ASSUME Others, UNCHANGED harnessVars
      PROVE  \A b \in Attempts : ClassShape(b)'
  BY <1>2, <1>4 DEF Others, Disturbance, Break, OtherRender, MoveFolder, OperatorLeaves,
       OperatorQueues, OutputAppears, commandVars, harnessVars
<1>5. CASE UNCHANGED vars
  BY <1>2, <1>5 DEF vars, commandVars, harnessVars
<1> QED
  BY <1>1, <1>3, <1>4, <1>5 DEF Next

----------------------------------------------------------------------------
(* Nothing undoes a drift *)

\* A step of a command does not make Resolve free again, unfix the reviewed
\* conditions, or touch what it does not own.
LEMMA OccupiesCommand ==
  ASSUME CommandTypeOK, NEW a \in Attempts, Operator \in queue,
         \A b \in Attempts : /\ prod[b] = "add" => Operator \in before[b]
                             /\ prod[b] \in {"finalize", "delete"} => held[b] # Operator,
         CommandStep(a) \/ StartCommand(a) \/ KillCommand(a)
  PROVE  /\ Operator \in queue'
         /\ \A b \in Attempts : /\ prod'[b] = "add" => Operator \in before'[b]
                                /\ prod'[b] \in {"finalize", "delete"} => held'[b] # Operator
<1> USE DEF Continue, Exit, ReleaseThenSay, Hold, Running, CommandTypeOK
<1>1. CASE CheckDatabase(a)
  BY <1>1 DEF CheckDatabase
<1>2. CASE CheckQueue(a)
  BY <1>2 DEF CheckQueue
<1>3. CASE Claim(a)
  BY <1>3 DEF Claim
<1>4. CASE Configure(a)
  BY <1>4 DEF Configure
<1>5. CASE Add(a)
  <2>1. \/ prod' = [prod EXCEPT ![a] = "finalize"]
           /\ \E job \in Jobs \ {Operator} : held' = [held EXCEPT ![a] = job]
        \/ prod' = [prod EXCEPT ![a] = "release"] /\ held' = held
    BY <1>5, OperatorAssumption DEF Add, Jobs
  <2>2. Operator \in queue' /\ before' = before
    BY <1>5 DEF Add
  <2> QED
    BY <2>1, <2>2
<1>6. CASE Finalize(a)
  BY <1>6 DEF Finalize
<1>7. CASE Delete(a)
  BY <1>7 DEF Delete
<1>8. CASE Release(a)
  BY <1>8 DEF Release
<1>9. CASE StartCommand(a)
  BY <1>9 DEF StartCommand
<1>10. CASE KillCommand(a)
  BY <1>10 DEF KillCommand
<1> QED
  BY <1>1, <1>2, <1>3, <1>4, <1>5, <1>6, <1>7, <1>8, <1>9, <1>10 DEF CommandStep

\* Resolve once in use stays in use, whoever moves.
LEMMA OccupiesNext ==
  ASSUME TypeOK, Occupies, [Next]_vars
  PROVE  Occupies'
<1>0. CommandTypeOK
  BY DEF TypeOK
<1>1. CASE UNCHANGED <<onTarget, commandVars>>
  BY <1>1 DEF commandVars, Occupies
<1>2. ASSUME NEW a \in Attempts, CommandStep(a) \/ StartCommand(a) \/ KillCommand(a),
             UNCHANGED onTarget
      PROVE  Occupies'
  <2>1. CASE ~ onTarget
    BY <1>2, <2>1 DEF Occupies
  <2>2. CASE onTarget
    BY <1>0, <1>2, <2>2, OccupiesCommand DEF Occupies
  <2> QED
    BY <2>1, <2>2
<1>3. ASSUME NEW a \in Attempts, Harness(a) \/ Die(a) PROVE Occupies'
  BY <1>1, <1>2, <1>3, HarnessFrame DEF worldVars
<1>4. ASSUME NEW a \in Attempts, Children(a) PROVE Occupies'
  BY <1>1, <1>2, <1>4 DEF Children, worldVars
<1>5. CASE Others
  <2>1. ~ onTarget => ~ onTarget'
    BY <1>5 DEF Others, Disturbance, Break, OtherRender, MoveFolder, OperatorLeaves,
         OperatorQueues, OutputAppears, Alter
  <2>2. OperatorQueues \/ UNCHANGED commandVars
    BY <1>5 DEF Others, Disturbance, Break, OtherRender, MoveFolder, OperatorLeaves, OutputAppears
  <2>3. CASE UNCHANGED commandVars
    BY <2>1, <2>3 DEF commandVars, Occupies
  <2>4. CASE OperatorQueues
    BY <2>1, <2>4 DEF OperatorQueues, Occupies
  <2> QED
    BY <2>2, <2>3, <2>4
<1>6. CASE UNCHANGED vars
  BY <1>1, <1>6 DEF vars, worldVars
<1> QED
  BY <1>3, <1>4, <1>5, <1>6 DEF Next

\* A condition once broken stays broken: what is reviewed is never put back.
LEMMA WorldDrifts ==
  ASSUME TypeOK, [Next]_vars
  PROVE  /\ broken \subseteq broken'
         /\ status # "assembled" => status' # "assembled"
         /\ strange => strange'
         /\ output => output'
         /\ folder' = folder \/ (folder = "reviewed" /\ folder' # "reviewed")
<1>0. CommandTypeOK
  BY DEF TypeOK
<1>1. CASE UNCHANGED <<worldVars, status>>
  BY <1>1 DEF worldVars
<1>2. ASSUME NEW a \in Attempts, CommandStep(a) \/ StartCommand(a) \/ KillCommand(a)
      PROVE  status' = status \/ status' = "render_queued"
  BY <1>2 DEF CommandStep, CheckDatabase, CheckQueue, Claim, Configure, Add, Finalize, Delete,
       Release, StartCommand, KillCommand
<1>3. ASSUME NEW a \in Attempts, Harness(a) \/ Die(a) \/ Children(a)
      PROVE  UNCHANGED worldVars /\ (status' = status \/ status' = "render_queued")
  BY <1>2, <1>3, HarnessFrame DEF Children, commandVars
<1>4. CASE Others
  BY <1>4 DEF Others, Disturbance, Break, OtherRender, MoveFolder, OperatorLeaves,
       OperatorQueues, OutputAppears, Alter, commandVars
<1>5. CASE UNCHANGED vars
  BY <1>1, <1>5 DEF vars, commandVars
<1> QED
  BY <1>3, <1>4, <1>5 DEF Next, worldVars

\* A drift of attempt a stays one while it keeps its first baseline.
LEMMA DriftStays ==
  ASSUME TypeOK, [Next]_vars, NEW a \in Attempts, folder0'[a] = folder0[a],
         folder = folder0[a] \/ folder # "reviewed"
  PROVE  /\ Drift(a) => Drift(a)'
         /\ LateDrift(a) => LateDrift(a)'
         /\ folder' = folder0'[a] \/ folder' # "reviewed"
<1>1. /\ broken \subseteq broken'
      /\ status # "assembled" => status' # "assembled"
      /\ strange => strange'
      /\ output => output'
      /\ folder' = folder \/ (folder = "reviewed" /\ folder' # "reviewed")
  BY WorldDrifts
<1> QED
  BY <1>1 DEF Drift, LateDrift

\* With Resolve in use the collector never gets past its first look.
LEMMA GuardFailsStays ==
  ASSUME GuardTypeOK, Occupies, NEW a \in Attempts, GuardFails(a), CollectorShapeOf(a),
         NEW b \in Attempts, GuardStep(b)
  PROVE  GuardFails(a)'
<1> USE DEF Report, Reach, GuardTypeOK
<1>0. ~ Safe
  BY DEF Occupies, Safe
<1>1. CASE a # b
  BY <1>1 DEF GuardFails, GuardStep, VerifyInvocation, CollectorEnds, Evaluate, FirstGuard,
       SecondGuard, Publish
<1>2. CASE a = b
  BY <1>0, <1>2 DEF GuardFails, CollectorShapeOf, GuardStep, VerifyInvocation, CollectorEnds,
       Evaluate, FirstGuard, SecondGuard, Publish
<1> QED
  BY <1>1, <1>2

\* The drift of an attempt survives the steps that are not its own.
LEMMA DriftFrame ==
  ASSUME TypeOK, [Next]_vars, NEW a \in Attempts, DriftShape(a),
         pc'[a] = pc[a], drifted'[a] = drifted[a], folder0'[a] = folder0[a],
         Launched(a)' <=> Launched(a),
         Occupies /\ GuardFails(a) => GuardFails(a)'
  PROVE  DriftShape(a)'
<1>1. /\ Drift(a) => Drift(a)'
      /\ LateDrift(a) => LateDrift(a)'
      /\ folder' = folder0'[a] \/ folder' # "reviewed"
  BY DriftStays DEF DriftShape
<1>2. Occupies => Occupies'
  BY OccupiesNext
<1> QED
  BY <1>1, <1>2 DEF DriftShape

\* A step of the attempt's own harness: the preflight cannot pass over a
\* Resolve in use, and the second pass finds every drift left.
LEMMA DriftHarness ==
  ASSUME TypeOK, Truth, [Next]_vars,
         NEW a \in Attempts, Harness(a) \/ Die(a)
  PROVE  DriftShape(a)'
<1>0. /\ pc \in [Attempts -> HarnessSteps] /\ drifted \in [Attempts -> BOOLEAN]
      /\ folder0 \in [Attempts -> Folders] /\ guard[a] \in {"off", "verify", "wait", "evaluate", "exited", "killed"}
      /\ guard \in [Attempts -> {"off", "verify", "wait", "evaluate", "exited", "killed"}]
      /\ prod \in [Attempts -> Running \cup {"off", "exited", "killed"}]
  BY DEF TypeOK, GuardTypeOK, CommandTypeOK
<1>1. DriftShape(a) /\ ClassShape(a)
  BY DEF Truth
<1>2. UNCHANGED worldVars
  BY HarnessFrame
<1>3. ASSUME folder0' = folder0, drifted'[a] = drifted[a], prod'[a] = prod[a],
             \/ ~ drifted[a]
             \/ pc'[a] \in {"finish", "seal", "ended", "raised", "dead", "classify"}
             \/ pc[a] = "bind" /\ pc'[a] = "recheck"
             \/ pc[a] = "recheck" /\ pc'[a] = "boundary" /\ LateDrift(a)
      PROVE  DriftShape(a)'
  <2>1. /\ Drift(a) => Drift(a)'
        /\ LateDrift(a) => LateDrift(a)'
        /\ folder' = folder0'[a] \/ folder' # "reviewed"
    BY <1>1, <1>3, DriftStays DEF DriftShape
  <2> QED
    BY <1>1, <1>3, <2>1 DEF DriftShape, Launched
<1>4. CASE CheckIdentity(a)
  BY <1>0, <1>1, <1>3, <1>4 DEF CheckIdentity, commandVars, DriftShape
<1>5. CASE CheckBaseline(a)
  BY <1>0, <1>1, <1>2, <1>5 DEF CheckBaseline, commandVars, DriftShape, worldVars
<1>6. CASE MakeDirectory(a)
  BY <1>0, <1>1, <1>3, <1>6 DEF MakeDirectory, commandVars, DriftShape
<1>7. CASE OpenEvidence(a)
  <2>1. ~ drifted[a] /\ ~ Launched(a)
    BY <1>0, <1>1, <1>7 DEF OpenEvidence, DriftShape, ClassShape, BeforeLaunch, Launched
  <2>2. folder0' = folder0 /\ UNCHANGED commandVars
    BY <1>7 DEF OpenEvidence
  <2>3. CASE pc'[a] = "finish" /\ drifted' = drifted
    BY <1>3, <2>1, <2>2, <2>3 DEF commandVars
  <2>4. CASE /\ LaunchGuard(a) /\ pc'[a] = "await" /\ drifted'[a] = (drifted[a] \/ InUse)
    <3>1. GuardFails(a)'
      BY <1>0, <2>4 DEF LaunchGuard, GuardFails
    <3>2. InUse => Occupies'
      <4>1. InUse => Occupies
        BY DEF InUse, Occupies, Running
      <4> QED
        BY <4>1, OccupiesNext
    <3>3. folder' = folder0'[a] \/ folder' # "reviewed"
      BY <1>1, <1>2, <2>2 DEF DriftShape, worldVars
    <3>4. ~ Launched(a)'
      BY <2>1, <2>2 DEF Launched, commandVars
    <3> QED
      BY <2>1, <2>4, <3>1, <3>2, <3>3, <3>4 DEF DriftShape
  <2> QED
    BY <1>0, <1>7, <2>3, <2>4 DEF OpenEvidence
<1>8. CASE GuardReports(a)
  <2>1. ~ Launched(a) /\ ~ Launched(a)'
    BY <1>0, <1>1, <1>8 DEF GuardReports, ClassShape, BeforeLaunch, Launched, commandVars
  <2>2. drifted'[a] = (drifted[a] \/ Drift(a)) /\ folder0' = folder0
    BY <1>0, <1>8 DEF GuardReports
  <2>3. /\ Drift(a) => Drift(a)'
        /\ folder' = folder0'[a] \/ folder' # "reviewed"
    BY <1>1, <2>2, DriftStays DEF DriftShape
  <2>4. pc'[a] = "finish" \/ (pc'[a] = "bind" /\ ~ drifted[a])
    BY <1>0, <1>1, <1>8 DEF GuardReports, DriftShape, GuardFails
  <2> QED
    BY <2>1, <2>2, <2>3, <2>4 DEF DriftShape
<1>9. CASE GuardTimesOut(a)
  BY <1>0, <1>3, <1>9 DEF GuardTimesOut, commandVars
<1>10. CASE BindSnapshot(a)
  BY <1>0, <1>3, <1>10 DEF BindSnapshot, commandVars
<1>11. CASE RecheckIdentity(a)
  <2>1. /\ pc[a] = "recheck" /\ folder0' = folder0 /\ drifted' = drifted /\ prod' = prod
        /\ \/ pc'[a] = "finish"
           \/ pc'[a] = "boundary" /\ broken \cap {"sources", "wrapper", "repository"} = {}
    BY <1>0, <1>11 DEF RecheckIdentity, commandVars
  <2>2. broken \cap {"sources", "wrapper", "repository"} = {} /\ Drift(a) => LateDrift(a)
    BY DEF Drift, LateDrift
  <2> QED
    BY <1>1, <1>3, <2>1, <2>2 DEF DriftShape
<1>12. CASE RecheckBaseline(a)
  <2>1. LateDrift(a) => pc'[a] = "finish"
    BY <1>0, <1>12 DEF RecheckBaseline, LateDrift, DatabaseAsReviewed, FolderUntouched
  <2> QED
    BY <1>1, <1>3, <1>12, <2>1 DEF RecheckBaseline, commandVars, DriftShape
<1>13. CASE RecordCommand(a)
  BY <1>0, <1>1, <1>3, <1>13 DEF RecordCommand, commandVars, DriftShape
<1>14. CASE LaunchCommand(a)
  BY <1>0, <1>1, <1>2, <1>14 DEF LaunchCommand, Outcome, DriftShape, worldVars
<1>15. CASE CommandReports(a)
  BY <1>0, <1>1, <1>3, <1>15 DEF CommandReports, commandVars, DriftShape
<1>16. CASE CommandTimesOut(a)
  BY <1>0, <1>1, <1>2, <1>16 DEF CommandTimesOut, Outcome, DriftShape, worldVars
<1>17. CASE Classify(a)
  BY <1>0, <1>1, <1>3, <1>17 DEF Classify, commandVars, DriftShape
<1>18. CASE Finish(a)
  BY <1>0, <1>1, <1>3, <1>18 DEF Finish, commandVars, DriftShape
<1>19. CASE Seal(a)
  BY <1>0, <1>1, <1>3, <1>19 DEF Seal, commandVars, DriftShape
<1>20. CASE SealRaises(a)
  BY <1>0, <1>1, <1>3, <1>20 DEF SealRaises, commandVars, DriftShape
<1>21. CASE Die(a)
  BY <1>0, <1>3, <1>21 DEF Die, commandVars
<1> QED
  BY <1>4, <1>5, <1>6, <1>7, <1>8, <1>9, <1>10, <1>11, <1>12, <1>13, <1>14, <1>15, <1>16,
     <1>17, <1>18, <1>19, <1>20, <1>21 DEF Harness, AwaitCommand

\* Every step leaves each drifted attempt one that will not be launched.
LEMMA DriftsNext ==
  ASSUME TypeOK, Attended, Truth, [Next]_vars
  PROVE  \A a \in Attempts : DriftShape(a)'
<1>0. /\ CommandTypeOK /\ GuardTypeOK
      /\ pc \in [Attempts -> HarnessSteps] /\ drifted \in [Attempts -> BOOLEAN]
      /\ folder0 \in [Attempts -> Folders]
  BY DEF TypeOK
<1>1. \A a \in Attempts : DriftShape(a) /\ CollectorShapeOf(a) /\ GuardShapeOf(a)
  BY DEF Truth, Attended, CollectorShape, GuardShape, CollectorShapeOf, GuardShapeOf
<1>2. ASSUME NEW a \in Attempts, UNCHANGED harnessVars, Launched(a)' <=> Launched(a),
             Occupies /\ GuardFails(a) => GuardFails(a)'
      PROVE  DriftShape(a)'
  BY <1>1, <1>2, DriftFrame DEF harnessVars
<1>3. ASSUME NEW a \in Attempts, Harness(a) \/ Die(a), NEW b \in Attempts
      PROVE  DriftShape(b)'
  <2>1. CASE a = b
    BY <1>1, <1>3, <2>1, DriftHarness
  <2>2. CASE a # b
    <3>1. pc'[b] = pc[b] /\ drifted'[b] = drifted[b] /\ folder0'[b] = folder0[b]
      BY <1>0, <1>3, <2>2 DEF Harness, AwaitCommand, CheckIdentity, CheckBaseline,
           MakeDirectory, OpenEvidence, GuardReports, GuardTimesOut, BindSnapshot,
           RecheckIdentity, RecheckBaseline, RecordCommand, LaunchCommand, CommandReports,
           CommandTimesOut, Outcome, Classify, Finish, Seal, SealRaises, Die
    <3>2. Launched(b)' <=> Launched(b)
      BY <1>0, <1>3, <2>2, HarnessFrame
         DEF StartCommand, KillCommand, Continue, Exit, commandVars, CommandTypeOK, Launched
    <3>3. GuardFails(b) => GuardFails(b)'
      <4>1. LaunchGuard(a) \/ KillGuard(a) \/ UNCHANGED guardVars
        BY <1>3 DEF Harness, AwaitCommand, CheckIdentity, CheckBaseline, MakeDirectory,
             OpenEvidence, GuardReports, GuardTimesOut, BindSnapshot, RecheckIdentity,
             RecheckBaseline, RecordCommand, LaunchCommand, CommandReports,
             CommandTimesOut, Classify, Finish, Seal, SealRaises, Die
      <4> QED
        BY <1>0, <2>2, <4>1 DEF LaunchGuard, KillGuard, guardVars, GuardTypeOK, GuardFails
    <3> QED
      BY <1>1, <3>1, <3>2, <3>3, DriftFrame
  <2> QED
    BY <2>1, <2>2
<1>4. ASSUME NEW a \in Attempts, Children(a), UNCHANGED harnessVars, NEW b \in Attempts
      PROVE  DriftShape(b)'
  <2>1. CASE CommandStep(a) /\ UNCHANGED guardVars
    <3>1. Launched(b)' <=> Launched(b)
      BY <1>0, <2>1, CommandMoves DEF Launched, Running
    <3>2. GuardFails(b) => GuardFails(b)'
      BY <2>1 DEF guardVars, GuardFails
    <3> QED
      BY <1>2, <1>4, <3>1, <3>2
  <2>2. CASE GuardStep(a) /\ UNCHANGED commandVars
    <3>1. Launched(b)' <=> Launched(b)
      BY <2>2 DEF commandVars, Launched
    <3>2. Occupies /\ GuardFails(b) => GuardFails(b)'
      BY <1>0, <1>1, <2>2, GuardFailsStays
    <3> QED
      BY <1>2, <1>4, <3>1, <3>2
  <2> QED
    BY <1>4, <2>1, <2>2 DEF Children
<1>5. ASSUME Others, UNCHANGED harnessVars, NEW b \in Attempts
      PROVE  DriftShape(b)'
  <2>1. Launched(b)' <=> Launched(b)
    BY <1>5 DEF Others, Disturbance, Break, OtherRender, MoveFolder, OperatorLeaves,
         OperatorQueues, OutputAppears, commandVars, Launched
  <2>2. GuardFails(b) => GuardFails(b)'
    BY <1>5 DEF Others, Alter, guardVars, GuardFails
  <2> QED
    BY <1>2, <1>5, <2>1, <2>2
<1>6. CASE UNCHANGED vars
  <2> SUFFICES ASSUME NEW b \in Attempts PROVE DriftShape(b)'
    OBVIOUS
  <2>1. /\ UNCHANGED harnessVars
        /\ Launched(b)' <=> Launched(b)
        /\ GuardFails(b) => GuardFails(b)'
    BY <1>6 DEF vars, commandVars, guardVars, Launched, GuardFails
  <2> QED
    BY <1>2, <2>1
<1>7. \/ UNCHANGED vars
      \/ \E a \in Attempts : Harness(a) \/ Die(a)
      \/ \E a \in Attempts : Children(a) /\ UNCHANGED harnessVars
      \/ Others /\ UNCHANGED harnessVars
  BY DEF Next
<1> QED
  BY <1>3, <1>4, <1>5, <1>6, <1>7

\* All of it is kept by every step.
LEMMA TruthNext ==
  ASSUME TypeOK, Attended, Truth, [Next]_vars
  PROVE  Truth'
<1>1. Commands'
  BY CommandsNext DEF Truth, Commands
<1>2. \A a \in Attempts : ClassShape(a)'
  BY ClassesNext DEF Truth
<1>3. \A a \in Attempts : DriftShape(a)'
  BY DriftsNext
<1> QED
  BY <1>1, <1>2, <1>3 DEF Truth, Commands

\* In every state the texts, the classes and the drifts are what they should be.
LEMMA TruthHolds == Spec => []Truth
<1>1. Init => IInv /\ Truth
  BY TypeInit, AttendedInit, TruthInit DEF IInv
<1>2. IInv /\ Truth /\ [Next]_vars => (IInv /\ Truth)'
  BY TypeNext, AttendedNext, TruthNext DEF IInv
<1> QED
  BY <1>1, <1>2, PTL DEF Spec

\* What the harness concludes from text and rows is what the command really
\* did to the database and to Resolve, for any number of attempts and changes.
THEOREM ClassificationTrue == Spec => []ClassificationIsTrue
<1>1. TypeOK /\ Truth => ClassificationIsTrue
  <2> SUFFICES ASSUME TypeOK, Truth, NEW a \in Attempts
               PROVE  /\ class[a] = "not_launched" => ~ Launched(a)
                      /\ class[a] \in {"early", "selection"} => did[a] = {}
                      /\ class[a] = "configuration" => did[a] = {"claimed"} /\ rows[a] = "none"
                      /\ class[a] = "not_added" => did[a] = {"claimed", "asked"} /\ rows[a] = "none"
                      /\ class[a] = "unobserved" => "asked" \in did[a] /\ rows[a] = "none"
                      /\ class[a] = "rolled_back" => ~ HasJob(a) /\ rows[a] = "none"
                      /\ class[a] = "manual" => rows[a] = "claiming"
                      /\ class[a] = "accepted" => rows[a] = "queued" /\ "asked" \in did[a]
    BY DEF ClassificationIsTrue
  <2>1. ClassShape(a) /\ CommandShape(a)
    BY DEF Truth
  <2>2. class[a] = "not_launched" => ~ Launched(a)
    BY <2>1 DEF ClassShape, Launched
  <2>3. class[a] \in {"early", "selection", "configuration", "not_added", "unobserved",
                      "rolled_back", "manual"}
        => prod[a] = "exited" /\ said[a] = class[a]
    BY <2>1 DEF ClassShape
  <2>4. class[a] = "accepted"
        => prod[a] = "exited" /\ said[a] = "success"
    <3>1. said[a] # "accepted"
      BY DEF TypeOK, CommandTypeOK, Texts
    <3> QED
      BY <2>1, <3>1 DEF ClassShape
  <2> QED
    BY <2>1, <2>2, <2>3, <2>4 DEF CommandShape, Honest, HasJob
<1> QED
  BY <1>1, TruthHolds, TypeCorrect, PTL

\* A drift before the fresh preflight was over, in what the second pass tests,
\* or a Resolve in use when the preflight began, keeps the command from being
\* launched, whatever happens after.
THEOREM DriftKept == Spec => []DriftStops
<1>1. Truth => DriftStops
  BY DEF Truth, DriftShape, DriftStops
<1> QED
  BY <1>1, TruthHolds, PTL

=============================================================================
