------------------------- MODULE ScopedMeasureProofs -------------------------
(***************************************************************************)
(* Proofs about ScopedMeasure for every number of steps and of attempts:   *)
(* no identity is used twice, nothing is lost, nothing consistent is       *)
(* refused, and the steps implement CampaignSteps.  IInv is the inductive  *)
(* invariant.                                                              *)
(***************************************************************************)
EXTENDS ScopedMeasure, WellFoundedInduction, TLAPS

(***************************************************************************)
(* The controller: what is in memory is what state.json holds, and each    *)
(* point of measure is reached only with the marker that leads to it.      *)
(***************************************************************************)
ControllerInv ==
    /\ state = saved
    /\ pc \in {"verify", "cleanup", "unlink", "adopt"}
          => Current # 0 /\ marker[Current] = "full"
    /\ pc \in {"stat", "launch", "exec"} => Current # 0
    /\ pc = "unlink" => Current \in receipts
    /\ pc = "launch" => launches[Current] = 0

\* No process was started under an identity later than all the recorded ones.
LaunchesRecorded ==
    /\ \A id \in Stamps : launches[id] = 0 <=> child[id] = "none"
    /\ \A id \in Stamps : launches[id] # 0 => \E s \in Steps : id <= saved[s]

(***************************************************************************)
(* The chain of evidence for one identity, each link written only after    *)
(* the one before: the finished file, its copy in the store, the local     *)
(* completion, the marker in the store, the receipt, the unlinked file.    *)
(***************************************************************************)
Evidence(id) ==
    /\ child[id] \in {"none", "launched"} => directory[id] = "absent" /\ bulk[id] = "none"
    /\ child[id] \in {"closed", "synced"} => bulk[id] = "full"
    /\ child[id] \in {"synced", "putting"} => remote[id] = "full"
    /\ child[id] = "putting" => completion[id] = "full"
    /\ child[id] \in {"none", "launched", "probing", "closed", "synced"}
          => completion[id] = "none"
    /\ child[id] \notin {"committed", "failed"} => marker[id] = "none"
    /\ completion[id] = "full"
          => remote[id] = "full" /\ bulk[id] \in {"full", "freed"} /\ directory[id] # "absent"
    /\ marker[id] = "full" => completion[id] = "full"
    /\ id \in receipts => marker[id] = "full"
    /\ bulk[id] = "freed" => id \in receipts

EvidenceInv == \A id \in Stamps : Evidence(id)

(***************************************************************************)
(* Adopted steps: what measure returned is still what state.json records,  *)
(* so that a rerun returns it again, and the controller is past no step    *)
(* that is not settled.                                                    *)
(***************************************************************************)
AdoptInv ==
    /\ \A s \in Steps : adopted[s] # 0 => adopted[s] = saved[s] /\ marker[adopted[s]] = "full"
    /\ pc \in {"stat", "plan", "launch", "exec"} => adopted[step] = 0
    /\ pc # "down" => \A t \in Steps : t < step => adopted[t] # 0

IInv ==
    /\ TypeOK /\ ControllerInv /\ IdentityUsedOnce /\ LaunchesRecorded /\ EvidenceInv
    /\ AdoptInv /\ NoFalseAlarm

-----------------------------------------------------------------------------
(* Facts about the constants and the stamps *)

\* A bounded, non-empty set of naturals has a greatest element.
LEMMA GreatestElement ==
    ASSUME NEW n \in Nat, NEW S, S \subseteq 0 .. n, S # {}
    PROVE  Max(S) \in S /\ \A y \in S : y <= Max(S)
<1> DEFINE T == {k \in Nat : k <= n /\ n - k \in S}
<1>1. T \subseteq Nat /\ T # {}
  <2>1. PICK x \in S : TRUE
    OBVIOUS
  <2>2. n - x \in T
    BY <2>1
  <2> QED
    BY <2>2
<1>2. PICK k \in T : \A j \in T : <<j, k>> \notin OpToRel(<, Nat)
  <2> HIDE DEF T
  <2> QED
    BY <1>1, NatLessThanWellFounded, WFMin
<1>3. \A j \in T : ~(j < k)
  BY <1>2 DEF OpToRel
<1>4. n - k \in S /\ \A y \in S : n - k >= y
  <2>1. ASSUME NEW y \in S PROVE n - k >= y
    <3>1. n - y \in T
      OBVIOUS
    <3> QED
      BY <3>1, <1>3
  <2> QED
    BY <1>2, <2>1
<1>5. Max(S) \in S /\ \A y \in S : Max(S) >= y
  BY <1>4 DEF Max
<1> QED
  BY <1>5

\* Steps and stamps are numbers, and there is a first step.
LEMMA ConstantFacts ==
    /\ 1 \in Steps /\ \A s \in Steps : s \in Nat /\ 1 <= s /\ (s < NumSteps => s + 1 \in Steps)
    /\ Stamps \subseteq 0 .. MaxStamp /\ 0 \notin Stamps
    /\ \A i \in 0 .. MaxStamp : i # 0 => i \in Stamps
BY ScopedMeasureAssumption DEF Steps, Stamps

\* A new stamp is later than every recorded one.
LEMMA NewStampIsLater ==
    ASSUME TypeOK, NEW now \in Stamps
    PROVE  NewStamp(now) \in Nat /\ \A s \in Steps : NewStamp(now) > state[s]
<1> DEFINE S == {state[s] : s \in Steps}
<1>1. S \subseteq 0 .. MaxStamp /\ S # {}
  BY ConstantFacts DEF TypeOK
<1>2. Max(S) \in S /\ \A y \in S : y <= Max(S)
  <2> HIDE DEF S
  <2> QED
    BY <1>1, GreatestElement, ScopedMeasureAssumption
<1>3. \A s \in Steps : state[s] <= Max(S)
  BY <1>2
<1>4. Max(S) \in 0 .. MaxStamp
  BY <1>1, <1>2
<1> HIDE DEF S
<1>5. NewStamp(now) = IF now > Max(S) THEN now ELSE Max(S) + 1
  BY DEF NewStamp, S
<1> QED
  BY <1>3, <1>4, <1>5, ConstantFacts, ScopedMeasureAssumption DEF TypeOK

-----------------------------------------------------------------------------
(* The initial states *)

LEMMA InitIInv == Init => IInv
<1> SUFFICES ASSUME Init PROVE IInv
  OBVIOUS
<1> USE ConstantFacts, ScopedMeasureAssumption DEF Init
<1>1. TypeOK
  <2>1. 0 \in 0 .. MaxStamp
    OBVIOUS
  <2>2. /\ saved \in [Steps -> 0 .. MaxStamp] /\ state \in [Steps -> 0 .. MaxStamp]
        /\ adopted \in [Steps -> 0 .. MaxStamp]
    BY <2>1
  <2> QED
    BY <2>2 DEF TypeOK
<1>2. ControllerInv /\ IdentityUsedOnce /\ LaunchesRecorded
  BY DEF ControllerInv, IdentityUsedOnce, LaunchesRecorded
<1>3. EvidenceInv
  BY DEF EvidenceInv, Evidence
<1>4. AdoptInv /\ NoFalseAlarm
  BY DEF AdoptInv, NoFalseAlarm
<1> QED
  BY <1>1, <1>2, <1>3, <1>4 DEF IInv

-----------------------------------------------------------------------------
(* Which actions touch what *)

\* Only PlanStep writes the state; the markers stay where they are, and only a
\* measuring process writes one.
LEMMA ControllerFrame ==
    /\ Start => UNCHANGED <<saved, directory, bulk, completion, receipts, remote, marker,
                           child, launches, adopted, refused>>
    /\ ReadMarker \/ Verify => UNCHANGED <<saved, directory, bulk, completion, receipts, remote,
                                         marker, child, launches, adopted, step, state>>
    /\ CleanupMeasurement => UNCHANGED <<saved, directory, completion, remote, marker, child,
                                        launches, adopted, refused, step, state>>
    /\ Adopt => UNCHANGED <<saved, directory, bulk, completion, receipts, remote, marker,
                           child, launches, refused, state>>
    /\ ArchiveAttempt => UNCHANGED <<saved, bulk, completion, receipts, remote, marker, child,
                                    launches, adopted, refused, step, state>>
    /\ PlanStep => UNCHANGED <<directory, bulk, completion, receipts, remote, marker, child,
                              launches, adopted, refused, step>>
    /\ Launch => UNCHANGED <<saved, directory, bulk, completion, receipts, remote, marker,
                            adopted, refused, step, state>>
    /\ Execute \/ ControllerStops
          => UNCHANGED <<saved, directory, bulk, completion, receipts, remote, marker, child,
                         launches, adopted, refused, step, state>>
BY DEF Start, ReadMarker, Verify, CleanupMeasurement, WriteCleanupReceipt, Adopt, ArchiveAttempt,
       PlanStep, Launch, Execute, ControllerStops, Goto, diskVars, storeVars

LEMMA ChildFrame ==
    ASSUME NEW id \in Stamps, Child(id)
    PROVE  UNCHANGED <<saved, receipts, launches, pc, step, state, executed, adopted, refused>>
BY DEF Child, CreateDirectory, RunSucceeds, SyncToS3, WriteCompletion, PutMarker, ChildFails,
       ChildStep

-----------------------------------------------------------------------------
(* Type correctness *)

\* The identity of a step is a stamp once there is one.
LEMMA CurrentFacts ==
    TypeOK => Current \in 0 .. MaxStamp /\ (Current # 0 => Current \in Stamps)
BY ConstantFacts DEF TypeOK, Current

LEMMA TypeStep == TypeOK /\ ControllerInv /\ EvidenceInv /\ [Next]_vars => TypeOK'
<1> SUFFICES ASSUME TypeOK, ControllerInv, EvidenceInv, [Next]_vars PROVE TypeOK'
  OBVIOUS
<1> USE ConstantFacts, CurrentFacts
    DEF TypeOK, Goto, diskVars, storeVars, flagVars
<1>1. CASE Start
  BY <1>1, ScopedMeasureAssumption DEF Start
<1>2. CASE ReadMarker
  <2>1. refused' \in {refused, refused \cup {Current}} /\ (refused' # refused => Current # 0)
    BY <1>2 DEF ReadMarker
  <2>2. pc' \in {"down", "plan", "stat", "verify"} /\ UNCHANGED <<retry, retainLocal, executed>>
    BY <1>2 DEF ReadMarker
  <2> QED
    BY <1>2, <2>1, <2>2, ControllerFrame
<1>3. CASE Verify
  <2>1. refused' \in {refused, refused \cup {Current}} /\ Current # 0
    BY <1>3 DEF Verify, ControllerInv
  <2>2. pc' \in {"down", "cleanup"} /\ UNCHANGED <<retry, retainLocal, executed>>
    BY <1>3 DEF Verify
  <2> QED
    BY <1>3, <2>1, <2>2, ControllerFrame
<1>4. CASE CleanupMeasurement
  BY <1>4 DEF CleanupMeasurement, WriteCleanupReceipt, ControllerInv
<1>5. CASE Adopt
  BY <1>5 DEF Adopt
<1>6. CASE ArchiveAttempt
  BY <1>6 DEF ArchiveAttempt
<1>7. CASE PlanStep
  <2>1. PICK now \in Stamps :
            NewStamp(now) \in Stamps /\ state' = [state EXCEPT ![step] = NewStamp(now)]
    BY <1>7 DEF PlanStep
  <2>2. state' \in [Steps -> 0 .. MaxStamp] /\ saved' = state'
    BY <1>7, <2>1 DEF PlanStep, SaveState
  <2> QED
    BY <1>7, <2>2 DEF PlanStep
<1>8. CASE Launch
  BY <1>8 DEF Launch, ControllerInv
<1>9. CASE Execute
  BY <1>9 DEF Execute
<1>10. CASE ControllerStops
  BY <1>10 DEF ControllerStops
<1>11. ASSUME NEW id \in Stamps, Child(id) PROVE TypeOK'
  <2> USE DEF ChildStep
  <2>1. CASE CreateDirectory(id)
    BY <2>1 DEF CreateDirectory
  <2>2. CASE RunSucceeds(id)
    BY <2>2 DEF RunSucceeds
  <2>3. CASE SyncToS3(id)
    BY <2>3 DEF SyncToS3, Sync, EvidenceInv, Evidence
  <2>4. CASE WriteCompletion(id)
    BY <2>4 DEF WriteCompletion, EvidenceInv, Evidence
  <2>5. CASE PutMarker(id)
    BY <2>5 DEF PutMarker
  <2>6. CASE ChildFails(id)
    BY <2>6 DEF ChildFails
  <2> QED
    BY <1>11, <2>1, <2>2, <2>3, <2>4, <2>5, <2>6 DEF Child
<1>12. CASE UNCHANGED vars
  BY <1>12 DEF vars
<1> QED
  BY <1>1, <1>2, <1>3, <1>4, <1>5, <1>6, <1>7, <1>8, <1>9, <1>10, <1>11, <1>12 DEF Next

-----------------------------------------------------------------------------
(* The markers *)

\* A marker is written once and for all.
LEMMA MarkerStays ==
    TypeOK /\ EvidenceInv /\ [Next]_vars
        => \A id \in Stamps : marker[id] = "full" => marker'[id] = "full"
<1> SUFFICES ASSUME TypeOK, EvidenceInv, [Next]_vars, NEW id \in Stamps, marker[id] = "full"
             PROVE  marker'[id] = "full"
  OBVIOUS
<1>1. ASSUME NEW i \in Stamps, Child(i) PROVE marker'[id] = "full"
  <2>1. CASE PutMarker(i)
    BY <2>1 DEF PutMarker, ChildStep, EvidenceInv, Evidence, TypeOK
  <2>2. CASE ChildFails(i)
    BY <2>2 DEF ChildFails, ChildStep, EvidenceInv, Evidence, TypeOK
  <2>3. CASE CreateDirectory(i) \/ RunSucceeds(i) \/ SyncToS3(i) \/ WriteCompletion(i)
    BY <2>3 DEF CreateDirectory, RunSucceeds, SyncToS3, WriteCompletion, storeVars
  <2> QED
    BY <1>1, <2>1, <2>2, <2>3 DEF Child
<1>2. CASE UNCHANGED vars
  BY <1>2 DEF vars, storeVars
<1> QED
  BY <1>1, <1>2, ControllerFrame DEF Next

-----------------------------------------------------------------------------
(* The controller and the identities *)

LEMMA ControllerStep ==
    TypeOK /\ ControllerInv /\ LaunchesRecorded /\ EvidenceInv /\ [Next]_vars => ControllerInv'
<1> SUFFICES ASSUME TypeOK, ControllerInv, LaunchesRecorded, EvidenceInv, [Next]_vars
             PROVE ControllerInv'
  OBVIOUS
<1> USE ConstantFacts, CurrentFacts, ControllerFrame
    DEF ControllerInv, Current, Goto
<1>1. CASE Start
  BY <1>1 DEF Start
<1>2. CASE ReadMarker
  BY <1>2 DEF ReadMarker, TypeOK
<1>3. CASE Verify
  BY <1>3 DEF Verify
<1>4. CASE CleanupMeasurement
  BY <1>4 DEF CleanupMeasurement, WriteCleanupReceipt
<1>5. CASE Adopt
  BY <1>5 DEF Adopt
<1>6. CASE ArchiveAttempt
  BY <1>6 DEF ArchiveAttempt
<1>7. CASE PlanStep
  <2>1. PICK now \in Stamps :
            NewStamp(now) \in Stamps /\ state' = [state EXCEPT ![step] = NewStamp(now)]
    BY <1>7 DEF PlanStep
  <2>2. state' = saved' /\ Current' = NewStamp(now) /\ pc' = "launch"
    BY <1>7, <2>1 DEF PlanStep, SaveState, TypeOK
  <2>3. launches[NewStamp(now)] = 0
    BY <2>1, NewStampIsLater DEF LaunchesRecorded, TypeOK
  <2>4. Current' # 0 /\ launches'[Current'] = 0
    BY <1>7, <2>1, <2>2, <2>3
  <2> QED
    BY <2>2, <2>4
<1>8. CASE Launch
  BY <1>8 DEF Launch
<1>9. CASE Execute
  BY <1>9 DEF Execute
<1>10. CASE ControllerStops
  BY <1>10 DEF ControllerStops
<1>11. ASSUME NEW id \in Stamps, Child(id) PROVE ControllerInv'
  <2>1. Current \in Stamps /\ marker[Current] = "full" => marker'[Current] = "full"
    BY MarkerStays
  <2>2. UNCHANGED <<saved, receipts, launches, pc, step, state>>
    BY <1>11, ChildFrame
  <2> QED
    BY <2>1, <2>2
<1>12. CASE UNCHANGED vars
  BY <1>12 DEF vars, diskVars, storeVars
<1> QED
  BY <1>1, <1>2, <1>3, <1>4, <1>5, <1>6, <1>7, <1>8, <1>9, <1>10, <1>11, <1>12 DEF Next

\* Two steps never share an identity, and none is launched twice.
LEMMA IdentityStep ==
    TypeOK /\ ControllerInv /\ IdentityUsedOnce /\ LaunchesRecorded /\ [Next]_vars
        => IdentityUsedOnce' /\ LaunchesRecorded'
<1> SUFFICES ASSUME TypeOK, ControllerInv, IdentityUsedOnce, LaunchesRecorded, [Next]_vars
             PROVE IdentityUsedOnce' /\ LaunchesRecorded'
  OBVIOUS
<1> USE ConstantFacts DEF IdentityUsedOnce, LaunchesRecorded
<1>1. CASE UNCHANGED <<saved, child, launches>>
  BY <1>1
<1>2. CASE PlanStep
  <2>1. PICK now \in Stamps :
            NewStamp(now) \in Stamps /\ state' = [state EXCEPT ![step] = NewStamp(now)]
    BY <1>2 DEF PlanStep
  <2>2. saved' = [saved EXCEPT ![step] = NewStamp(now)]
    BY <1>2, <2>1 DEF PlanStep, SaveState, ControllerInv
  <2>3. \A s \in Steps : NewStamp(now) > saved[s]
    BY <2>1, NewStampIsLater DEF ControllerInv
  <2>4. IdentityUsedOnce'
    BY <1>2, <2>2, <2>3, ControllerFrame DEF TypeOK
  <2>5. \A s \in Steps : saved[s] \in Nat /\ saved'[s] \in Nat /\ saved[s] <= saved'[s]
    <3>1. NewStamp(now) \in Nat /\ \A s \in Steps : saved[s] \in Nat
      BY <2>1, NewStampIsLater DEF TypeOK
    <3>2. \A s \in Steps : saved'[s] = IF s = step THEN NewStamp(now) ELSE saved[s]
      BY <2>2 DEF TypeOK
    <3> QED
      BY <2>3, <3>1, <3>2
  <2>6. \A id \in Stamps : launches[id] # 0 => \E s \in Steps : id <= saved'[s]
    <3> SUFFICES ASSUME NEW id \in Stamps, launches[id] # 0
                 PROVE  \E s \in Steps : id <= saved'[s]
      OBVIOUS
    <3>1. PICK s \in Steps : id <= saved[s]
      OBVIOUS
    <3>2. id \in Nat
      BY ScopedMeasureAssumption
    <3>3. id <= saved'[s]
      BY <2>5, <3>1, <3>2
    <3> QED
      BY <3>3
  <2> QED
    BY <1>2, <2>4, <2>6, ControllerFrame
<1>3. CASE Launch
  <2>1. Current \in Stamps /\ launches[Current] = 0
    BY <1>3, CurrentFacts DEF Launch, ControllerInv
  <2>2. \A id \in Stamps : launches'[id] = IF id = Current THEN 1 ELSE launches[id]
    BY <1>3, <2>1 DEF Launch, TypeOK
  <2>3. \A id \in Stamps : child'[id] = IF id = Current THEN "launched" ELSE child[id]
    BY <1>3 DEF Launch, TypeOK
  <2>4. Current <= saved[step] /\ step \in Steps /\ saved' = saved
    BY <1>3, <2>1, ControllerFrame DEF ControllerInv, Current, TypeOK
  <2> QED
    BY <2>1, <2>2, <2>3, <2>4
<1>4. ASSUME NEW id \in Stamps, Child(id) PROVE IdentityUsedOnce' /\ LaunchesRecorded'
  <2>1. child[id] # "none" /\ child'[id] # "none"
    BY <1>4 DEF Child, CreateDirectory, RunSucceeds, SyncToS3, WriteCompletion, PutMarker,
                ChildFails, ChildStep, TypeOK
  <2>2. \A i \in Stamps : i # id => child'[i] = child[i]
    BY <1>4 DEF Child, CreateDirectory, RunSucceeds, SyncToS3, WriteCompletion, PutMarker,
                ChildFails, ChildStep, TypeOK
  <2> QED
    BY <1>4, <2>1, <2>2, ChildFrame
<1> QED
  BY <1>1, <1>2, <1>3, <1>4, ControllerFrame DEF Next, vars, diskVars

-----------------------------------------------------------------------------
(* The chain of evidence *)

\* An identity whose files and process a step leaves alone keeps its evidence.
LEMMA EvidenceFrame ==
    ASSUME NEW id \in Stamps, Evidence(id),
           child'[id] = child[id], directory'[id] = directory[id], bulk'[id] = bulk[id],
           remote'[id] = remote[id], completion'[id] = completion[id],
           marker'[id] = marker[id], id \in receipts' <=> id \in receipts
    PROVE  Evidence(id)'
BY DEF Evidence

LEMMA EvidenceStep ==
    TypeOK /\ ControllerInv /\ LaunchesRecorded /\ EvidenceInv /\ [Next]_vars => EvidenceInv'
<1> SUFFICES ASSUME TypeOK, ControllerInv, LaunchesRecorded, EvidenceInv, [Next]_vars,
                    NEW id \in Stamps
             PROVE  Evidence(id)'
  BY DEF EvidenceInv
<1>0. Evidence(id)
  BY DEF EvidenceInv
<1>1. CASE UNCHANGED <<directory, bulk, completion, receipts, remote, marker, child>>
  BY <1>0, <1>1, EvidenceFrame
<1>2. CASE CleanupMeasurement
  <2>1. marker[Current] = "full"
    BY <1>2 DEF CleanupMeasurement, WriteCleanupReceipt, ControllerInv
  <2>2. UNCHANGED <<directory, completion, remote, marker, child>>
    BY <1>2, ControllerFrame
  <2>3. CASE id # Current
    <3>1. bulk'[id] = bulk[id] /\ (id \in receipts' <=> id \in receipts)
      BY <1>2, <2>3 DEF CleanupMeasurement, WriteCleanupReceipt, TypeOK
    <3> QED
      BY <1>0, <2>2, <3>1, EvidenceFrame
  <2>4. CASE id = Current
    <3>1. bulk'[id] \in {bulk[id], "freed"} /\ (id \in receipts => id \in receipts')
      BY <1>2, <2>4 DEF CleanupMeasurement, WriteCleanupReceipt, TypeOK
    <3>2. bulk'[id] = "freed" => id \in receipts'
      BY <1>0, <1>2, <2>4 DEF CleanupMeasurement, WriteCleanupReceipt, TypeOK, ControllerInv,
                              Evidence
    <3>3. child[id] \in {"committed", "failed"} /\ completion[id] = "full"
      BY <1>0, <2>1, <2>4 DEF Evidence
    <3> QED
      BY <1>0, <2>1, <2>2, <2>4, <3>1, <3>2, <3>3 DEF Evidence
  <2> QED
    BY <2>3, <2>4
<1>3. CASE ArchiveAttempt
  <2>1. \/ directory'[id] = directory[id]
        \/ directory[id] = "present" /\ directory'[id] = "archived"
    BY <1>3 DEF ArchiveAttempt, TypeOK
  <2> QED
    BY <1>0, <1>3, <2>1, ControllerFrame DEF Evidence
<1>4. CASE Launch
  <2>1. child[Current] = "none" /\ Current \in Stamps
    BY <1>4, CurrentFacts DEF Launch, ControllerInv, LaunchesRecorded
  <2>2. child'[id] = IF id = Current THEN "launched" ELSE child[id]
    BY <1>4 DEF Launch, TypeOK
  <2> QED
    BY <1>0, <1>4, <2>1, <2>2, ControllerFrame DEF Evidence
<1>5. ASSUME NEW i \in Stamps, Child(i) PROVE Evidence(id)'
  <2>1. receipts' = receipts
    BY <1>5, ChildFrame
  <2>2. CASE i # id
    <3>1. /\ child'[id] = child[id] /\ directory'[id] = directory[id] /\ bulk'[id] = bulk[id]
          /\ remote'[id] = remote[id] /\ completion'[id] = completion[id]
          /\ marker'[id] = marker[id]
      BY <1>5, <2>2 DEF Child, CreateDirectory, RunSucceeds, SyncToS3, Sync, WriteCompletion,
                        PutMarker, ChildFails, ChildStep, storeVars, TypeOK
    <3> QED
      BY <1>0, <2>1, <3>1, EvidenceFrame
  <2>3. CASE i = id
    <3> USE <1>0, <2>1, <2>3 DEF Evidence, ChildStep, storeVars, TypeOK
    <3>1. CASE CreateDirectory(id)
      BY <3>1 DEF CreateDirectory
    <3>2. CASE RunSucceeds(id)
      BY <3>2 DEF RunSucceeds
    <3>3. CASE SyncToS3(id)
      BY <3>3 DEF SyncToS3, Sync
    <3>4. CASE WriteCompletion(id)
      BY <3>4 DEF WriteCompletion
    <3>5. CASE PutMarker(id)
      BY <3>5 DEF PutMarker
    <3>6. CASE ChildFails(id)
      BY <3>6 DEF ChildFails
    <3> QED
      BY <1>5, <3>1, <3>2, <3>3, <3>4, <3>5, <3>6 DEF Child
  <2> QED
    BY <2>2, <2>3
<1> QED
  BY <1>1, <1>2, <1>3, <1>4, <1>5, ControllerFrame DEF Next, vars, diskVars, storeVars

-----------------------------------------------------------------------------
(* The adopted steps and the refusals *)

LEMMA AdoptStep ==
    TypeOK /\ ControllerInv /\ EvidenceInv /\ AdoptInv /\ [Next]_vars => AdoptInv'
<1> SUFFICES ASSUME TypeOK, ControllerInv, EvidenceInv, AdoptInv, [Next]_vars
             PROVE  AdoptInv'
  OBVIOUS
<1> USE ConstantFacts, ControllerFrame DEF AdoptInv
<1>0. \A s \in Steps : adopted[s] # 0 => adopted[s] \in Stamps /\ marker'[adopted[s]] = "full"
  BY MarkerStays DEF TypeOK
<1>1. CASE Start
  BY <1>1 DEF Start
<1>2. CASE ReadMarker
  <2>1. adopted[step] # 0 => marker[Current] = "full"
    BY <1>2 DEF Current, ControllerInv, TypeOK
  <2>2. adopted[step] # 0 => Current # 0
    BY DEF Current, ControllerInv, TypeOK
  <2> QED
    BY <1>2, <2>1, <2>2 DEF ReadMarker, Goto
<1>3. CASE Verify
  BY <1>3 DEF Verify, Goto
<1>4. CASE CleanupMeasurement
  BY <1>4 DEF CleanupMeasurement, WriteCleanupReceipt, Goto
<1>5. CASE Adopt
  <2>1. adopted' = [adopted EXCEPT ![step] = Current] /\ Current # 0
    BY <1>5 DEF Adopt, ControllerInv
  <2>2. Current = saved[step] /\ marker[Current] = "full"
    BY <1>5 DEF Adopt, ControllerInv, Current
  <2>3. \A s \in Steps : adopted'[s] # 0 => adopted'[s] = saved'[s] /\ marker'[adopted'[s]] = "full"
    BY <1>5, <2>1, <2>2 DEF TypeOK
  <2>4. pc' # "down" => \A t \in Steps : t < step' => adopted'[t] # 0
    <3>1. step \in Steps /\ pc = "adopt" /\ adopted'[step] # 0
      BY <1>5, <2>1 DEF Adopt, TypeOK
    <3>2. \A t \in Steps : t # step => adopted'[t] = adopted[t]
      BY <2>1 DEF TypeOK
    <3>3. \A t \in Steps : t < step' => t < step \/ t = step
      <4>1. step' = step \/ step' = step + 1
        BY <1>5 DEF Adopt
      <4> QED
        BY <3>1, <4>1
    <3> QED
      BY <3>1, <3>2, <3>3
  <2>5. pc' \notin {"stat", "plan", "launch", "exec"}
    BY <1>5 DEF Adopt
  <2> QED
    BY <2>3, <2>4, <2>5
<1>6. CASE ArchiveAttempt
  BY <1>6 DEF ArchiveAttempt, Goto
<1>7. CASE PlanStep
  <2>1. pc = "plan" /\ pc' = "launch" /\ UNCHANGED <<adopted, marker, step>>
    BY <1>7 DEF PlanStep
  <2>2. \A s \in Steps : s # step => saved'[s] = saved[s]
    BY <1>7 DEF PlanStep, SaveState, ControllerInv, TypeOK
  <2> QED
    BY <2>1, <2>2
<1>8. CASE Launch
  BY <1>8 DEF Launch, Goto
<1>9. CASE Execute
  BY <1>9 DEF Execute
<1>10. CASE ControllerStops
  BY <1>10 DEF ControllerStops, Goto
<1>11. ASSUME NEW id \in Stamps, Child(id) PROVE AdoptInv'
  BY <1>0, <1>11, ChildFrame
<1>12. CASE UNCHANGED vars
  BY <1>12 DEF vars, diskVars, storeVars
<1> QED
  BY <1>1, <1>2, <1>3, <1>4, <1>5, <1>6, <1>7, <1>8, <1>9, <1>10, <1>11, <1>12 DEF Next

\* What is refused has the evidence the code asks for but for its directory.
LEMMA NoFalseAlarmStep ==
    TypeOK /\ ControllerInv /\ EvidenceInv /\ NoFalseAlarm /\ [Next]_vars => NoFalseAlarm'
<1> SUFFICES ASSUME TypeOK, ControllerInv, EvidenceInv, NoFalseAlarm, [Next]_vars
             PROVE  NoFalseAlarm'
  OBVIOUS
<1> USE ControllerFrame DEF NoFalseAlarm
<1>1. CASE UNCHANGED <<directory, refused>>
  BY <1>1
<1>2. CASE ReadMarker
  <2>1. Current # 0 /\ HasReceipt(Current) => marker[Current] = "full"
    BY CurrentFacts DEF HasReceipt, EvidenceInv, Evidence
  <2> QED
    BY <1>2, <2>1 DEF ReadMarker
<1>3. CASE Verify
  <2>1. Current \in Stamps /\ marker[Current] = "full"
    BY <1>3, CurrentFacts DEF Verify, ControllerInv
  <2>2. ~FilesMatch(Current) => directory[Current] = "archived"
    BY <2>1 DEF FilesMatch, HasReceipt, EvidenceInv, Evidence, TypeOK
  <2> QED
    BY <1>3, <2>1, <2>2 DEF Verify
<1>4. CASE ArchiveAttempt
  <2>1. \A id \in Stamps : directory[id] = "archived" => directory'[id] = "archived"
    BY <1>4 DEF ArchiveAttempt, TypeOK
  <2> QED
    BY <1>4, <2>1 DEF TypeOK
<1>5. ASSUME NEW id \in Stamps, Child(id) PROVE NoFalseAlarm'
  <2>1. \A i \in Stamps : directory[i] = "archived" => directory'[i] = "archived"
    BY <1>5 DEF Child, CreateDirectory, RunSucceeds, SyncToS3, WriteCompletion, PutMarker,
                ChildFails, ChildStep, EvidenceInv, Evidence, TypeOK
  <2> QED
    BY <1>5, <2>1, ChildFrame DEF TypeOK
<1> QED
  BY <1>1, <1>2, <1>3, <1>4, <1>5 DEF Next, vars, diskVars

-----------------------------------------------------------------------------
(* Theorems *)

\* The invariant is inductive: types, the controller's knowledge, the identities, the
\* chain of evidence (WriteCompletion before the marker, receipt before unlink) and the
\* adopted steps hold together at every step of runner, process and crash.
THEOREM InductiveInvariant == Spec => []IInv
<1>1. IInv /\ [Next]_vars => IInv'
  BY TypeStep, ControllerStep, IdentityStep, EvidenceStep, AdoptStep, NoFalseAlarmStep DEF IInv
<1> QED
  BY InitIInv, <1>1, PTL DEF Spec

\* No identity is launched twice and no two steps share one (newMeasurementStamp, PlanStep).
THEOREM IdentityUsedOnceTheorem == Spec => []IdentityUsedOnce
<1>1. IInv => IdentityUsedOnce
  BY DEF IInv
<1> QED
  BY <1>1, InductiveInvariant, PTL

\* No measurement is lost: what measure returned and what the clean-up unlinked is in the
\* object store, whatever crashed when (committed, cleanupMeasurement).
THEOREM NothingLostTheorem == Spec => []NothingLost
<1>1. IInv => NothingLost
  <2> SUFFICES ASSUME IInv PROVE NothingLost
    OBVIOUS
  <2>1. AdoptedDurable
    BY ConstantFacts DEF IInv, TypeOK, AdoptInv, EvidenceInv, Evidence, AdoptedDurable
  <2>2. FreedCovered
    BY DEF IInv, EvidenceInv, Evidence, FreedCovered
  <2> QED
    BY <2>1, <2>2 DEF IInv, NothingLost
<1> QED
  BY <1>1, InductiveInvariant, PTL

\* committed never calls files inconsistent that a crash left behind, but for an attempt
\* that was archived while its process went on.
THEOREM NoFalseAlarmTheorem == Spec => []NoFalseAlarm
<1>1. IInv => NoFalseAlarm
  BY DEF IInv
<1> QED
  BY <1>1, InductiveInvariant, PTL

\* The runner implements CampaignSteps: each step of it settles the next unsettled step
\* with an identity of its own, or changes nothing that CampaignSteps speaks of.
THEOREM AdoptsOnceTheorem == Spec => AdoptsOnce
<1>1. Init => Abstract!Init
  BY DEF Init, Abstract!Init
<1>2. IInv /\ [Next]_vars => [Abstract!Next]_adopted
  <2> SUFFICES ASSUME IInv, [Next]_vars, adopted' # adopted
               PROVE  Abstract!Next
    BY DEF Abstract!Next
  <2>1. Adopt
    BY ControllerFrame, ChildFrame DEF Next, vars
  <2>2. step \in Steps /\ Current \in Stamps /\ Current = saved[step]
    BY <2>1, CurrentFacts DEF Adopt, IInv, ControllerInv, TypeOK, Current
  <2>3. adopted' = [adopted EXCEPT ![step] = Current]
    BY <2>1 DEF Adopt
  <2>4. adopted[step] = 0
    BY <2>2, <2>3 DEF IInv, AdoptInv, TypeOK
  <2>5. \A t \in Steps : t < step => adopted[t] # 0
    BY <2>1 DEF Adopt, IInv, AdoptInv
  <2>6. Current # 0 /\ \A t \in Steps : adopted[t] # Current
    BY <2>2, <2>4, ConstantFacts DEF IInv, AdoptInv, IdentityUsedOnce
  <2>7. Abstract!Settle(step, Current)
    BY <2>3, <2>4, <2>5, <2>6 DEF Abstract!Settle
  <2> QED
    BY <2>2, <2>7 DEF Abstract!Next
<1> QED
  BY <1>1, <1>2, InductiveInvariant, PTL DEF Spec, AdoptsOnce, Abstract!Spec

=============================================================================
