---------------------------- MODULE ScopedMeasure ----------------------------
(***************************************************************************)
(* The measurement steps of a continental campaign on one machine: measure *)
(* and committed in internal/continental/runner.go, the clean-up of bulk   *)
(* files in cleanup.go, and what the measuring process does to the disk    *)
(* and the object store (cmd/measure-ipid, internal/upload).               *)
(*                                                                         *)
(* The controller is started again and again and may stop anywhere; the    *)
(* kernel lock keeps it alone on its workspace.  A measuring process that  *)
(* it started may outlive it, and so may the last transfer of a process    *)
(* that was killed: both are a child that goes on.  A file is abstracted   *)
(* to how much of the measurement it holds, evidence to the content it     *)
(* was computed from.  The identity of a measurement is its time stamp,    *)
(* which is all that tells steps of the same payload apart.                *)
(***************************************************************************)
EXTENDS Integers, FiniteSets, FiniteSetsExt

CONSTANTS
    NumSteps,    \* steps of the campaign, run in their order
    BulkSteps,   \* steps whose bulk file is removed once committed: those of
                 \* kind ipid of a runner for one protocol
    RetryFlags,  \* values of --retry-incomplete the controller is started with
    MaxStamp     \* bound: seconds of the clock, and so attempts

ASSUME ScopedMeasureAssumption ==
    /\ NumSteps \in Nat \ {0}
    /\ BulkSteps \subseteq 1 .. NumSteps
    /\ RetryFlags \subseteq BOOLEAN
    /\ MaxStamp \in Nat \ {0}

Steps == 1 .. NumSteps
Stamps == 1 .. MaxStamp

VARIABLES
    saved,       \* state.json: per step its identity, 0 = not recorded
    directory,   \* per identity: the local measurement directory
    bulk,        \* its bulk file
    completion,  \* its local measurement-complete.json: evidence of the bulk file
    receipts,    \* identities with a clean-up receipt
    remote,      \* the bulk file in the object store
    marker,      \* measurement-complete.json in the object store
    child,       \* per identity: where its measuring process is
    launches,    \* ghost: how many processes were started for it
    pc,          \* where the controller is
    step,        \* its current step
    state,       \* r.state.Steps
    retry,       \* --retry-incomplete
    retainLocal, \* --retain-local
    executed,    \* committed is called after Execute
    adopted,     \* ghost: per step, the identity last returned by measure
    refused      \* ghost: identities whose files, receipt or marker it found inconsistent

diskVars == <<saved, directory, bulk, completion, receipts>>
storeVars == <<remote, marker>>
flagVars == <<retry, retainLocal>>
vars == <<diskVars, storeVars, child, launches, pc, step, state, flagVars, executed,
          adopted, refused>>

Init ==
    /\ saved = [s \in Steps |-> 0]
    /\ directory = [i \in Stamps |-> "absent"]
    /\ bulk = [i \in Stamps |-> "none"]
    /\ completion = [i \in Stamps |-> "none"]
    /\ receipts = {}
    /\ remote = [i \in Stamps |-> "none"]
    /\ marker = [i \in Stamps |-> "none"]
    /\ child = [i \in Stamps |-> "none"]
    /\ launches = [i \in Stamps |-> 0]
    /\ pc = "down"
    /\ step = 1
    /\ state = [s \in Steps |-> 0]
    /\ retry = FALSE /\ retainLocal = FALSE
    /\ executed = FALSE
    /\ adopted = [s \in Steps |-> 0]
    /\ refused = {}

-----------------------------------------------------------------------------
(* The controller: one call of measure per step *)

Current == state[step]

Goto(point) == pc' = point /\ UNCHANGED <<step, state, flagVars, executed>>

\* main takes the lock; Prepare reads state.json.
Start ==
    /\ pc = "down"
    /\ pc' = "read"
    /\ step' = 1
    /\ state' = saved
    /\ retry' \in RetryFlags /\ retainLocal' \in BOOLEAN
    /\ executed' = FALSE
    /\ UNCHANGED <<diskVars, storeVars, child, launches, adopted, refused>>

\* readCleanupReceipt; validateCleanupReceipt agrees, since a marker is never
\* written twice with different content.
HasReceipt(id) == id \in receipts

\* committed up to the marker, and what measure does when there is none.
ReadMarker ==
    /\ pc = "read"
    /\ \/ Current = 0 /\ Goto("plan") /\ UNCHANGED refused
       \/ /\ Current # 0 /\ marker[Current] = "none"
          /\ IF HasReceipt(Current) THEN Goto("down") /\ refused' = refused \cup {Current}
             ELSE Goto(IF executed THEN "down" ELSE "stat") /\ UNCHANGED refused
       \/ Current # 0 /\ marker[Current] # "none" /\ Goto("verify") /\ UNCHANGED refused
    /\ UNCHANGED <<diskVars, storeVars, child, launches, adopted>>

\* Every file the marker names: present and unchanged, or a bulk file that the
\* receipt allows to be missing.
FilesPresent(id) == directory[id] = "present" /\ bulk[id] = marker[id]

FilesMatch(id) ==
    /\ directory[id] = "present"
    /\ \/ bulk[id] = marker[id]
       \/ bulk[id] = "freed" /\ HasReceipt(id)

Verify ==
    /\ pc = "verify"
    /\ IF FilesMatch(Current) THEN Goto("cleanup") /\ UNCHANGED refused
       ELSE Goto("down") /\ refused' = refused \cup {Current}
    /\ UNCHANGED <<diskVars, storeVars, child, launches, adopted>>

\* cleanupMeasurement: the receipt is durable before the file is unlinked.
UnlinkFirst(id) ==
    /\ pc = "cleanup" /\ bulk[id] # "freed"
    /\ bulk' = [bulk EXCEPT ![id] = "freed"]
    /\ Goto("unlink")
    /\ UNCHANGED receipts

WriteCleanupReceipt(id) ==
    /\ pc = "cleanup" /\ bulk[id] # "freed"
    /\ receipts' = receipts \cup {id}
    /\ Goto("unlink")
    /\ UNCHANGED bulk

CleanupMeasurement ==
    /\ \/ step \in BulkSteps /\ ~retainLocal /\ WriteCleanupReceipt(Current)
       \/ /\ pc = "cleanup"
          /\ step \notin BulkSteps \/ retainLocal \/ bulk[Current] = "freed"
          /\ Goto("adopt")
          /\ UNCHANGED <<receipts, bulk>>
       \/ /\ pc = "unlink"
          /\ bulk' = [bulk EXCEPT ![Current] = "freed"]
          /\ Goto("adopt")
          /\ UNCHANGED receipts
    /\ UNCHANGED <<saved, directory, completion, storeVars, child, launches, adopted,
                   refused>>

\* measure returns the identity and Run goes on with the next step.
Adopt ==
    /\ pc = "adopt"
    /\ adopted' = [adopted EXCEPT ![step] = Current]
    /\ pc' = IF step < NumSteps THEN "read" ELSE "down"
    /\ step' = IF step < NumSteps THEN step + 1 ELSE step
    /\ executed' = FALSE
    /\ UNCHANGED <<diskVars, storeVars, child, launches, state, flagVars, refused>>

\* An uncommitted attempt: its directory stops the run or is archived.
ArchiveAttempt ==
    /\ pc = "stat"
    /\ \/ directory[Current] # "present" /\ Goto("plan") /\ UNCHANGED directory
       \/ directory[Current] = "present" /\ ~retry /\ Goto("down") /\ UNCHANGED directory
       \/ /\ directory[Current] = "present" /\ retry
          /\ directory' = [directory EXCEPT ![Current] = "archived"]
          /\ Goto("plan")
    /\ UNCHANGED <<saved, bulk, completion, receipts, storeVars, child, launches,
                   adopted, refused>>

\* The new stamp is later than every recorded one, whatever the clock says.
ClockStamp(now) == now

NewStamp(now) ==
    LET prior == Max({state[s] : s \in Steps})
    IN  IF now > prior THEN now ELSE prior + 1

\* AtomicJSON of the state with the new step.
StateUnsaved == UNCHANGED saved

SaveState == saved' = state'

PlanStep ==
    /\ pc = "plan"
    /\ \E now \in Stamps :
          /\ NewStamp(now) \in Stamps
          /\ state' = [state EXCEPT ![step] = NewStamp(now)]
    /\ SaveState
    /\ pc' = "launch"
    /\ UNCHANGED <<directory, bulk, completion, receipts, storeVars, child, launches,
                   step, flagVars, executed, adopted, refused>>

Launch ==
    /\ pc = "launch"
    /\ child' = [child EXCEPT ![Current] = "launched"]
    /\ launches' = [launches EXCEPT ![Current] = @ + 1]
    /\ Goto("exec")
    /\ UNCHANGED <<diskVars, storeVars, adopted, refused>>

\* Execute returns: without error when the process ended well.
Execute ==
    /\ pc = "exec" /\ child[Current] \in {"committed", "failed"}
    /\ IF child[Current] = "committed"
       THEN pc' = "read" /\ executed' = TRUE ELSE pc' = "down" /\ UNCHANGED executed
    /\ UNCHANGED <<diskVars, storeVars, child, launches, step, state, flagVars, adopted,
                   refused>>

\* An interrupt, an I/O or store error, or a crash.
ControllerStops ==
    /\ pc # "down"
    /\ Goto("down")
    /\ UNCHANGED <<diskVars, storeVars, child, launches, adopted, refused>>

-----------------------------------------------------------------------------
(* The measuring process *)

ChildStep(id, from, to) ==
    /\ child[id] = from
    /\ child' = [child EXCEPT ![id] = to]
    /\ UNCHANGED <<saved, receipts, launches, pc, step, state, flagVars, executed,
                   adopted, refused>>

\* CreateDirectory, the snapshot and the new file.
CreateDirectory(id) ==
    /\ ChildStep(id, "launched", "probing")
    /\ directory' = [directory EXCEPT ![id] = "present"]
    /\ bulk' = [bulk EXCEPT ![id] = "partial"]
    /\ UNCHANGED <<completion, storeVars>>

\* measurement.Run returns without error: the file is complete and closed.
RunSucceeds(id) ==
    /\ ChildStep(id, "probing", "closed")
    /\ bulk' = [bulk EXCEPT ![id] = "full"]
    /\ UNCHANGED <<directory, completion, storeVars>>

\* syncToS3 of a directory that is still in its place.
Sync(id) == remote' = [remote EXCEPT ![id] = bulk[id]]

SyncToS3(id) ==
    /\ directory[id] = "present"
    /\ ChildStep(id, "closed", "synced")
    /\ Sync(id)
    /\ UNCHANGED <<directory, bulk, completion, marker>>

WriteCompletion(id) ==
    /\ directory[id] = "present"
    /\ ChildStep(id, "synced", "putting")
    /\ completion' = [completion EXCEPT ![id] = bulk[id]]
    /\ UNCHANGED <<directory, bulk, storeVars>>

\* The put of the marker succeeds, and the process with it.  An s3cmd that has
\* the file open does not notice that its directory is moved.
PutMarker(id) ==
    /\ ChildStep(id, "putting", "committed")
    /\ marker' = [marker EXCEPT ![id] = completion[id]]
    /\ UNCHANGED <<directory, bulk, completion, remote>>

\* The process fails or is killed; a transfer may have got through in part, and
\* the marker though the put is reported as failed.
ChildFails(id) ==
    \E from \in {"launched", "probing", "closed", "synced", "putting"} :
        /\ ChildStep(id, from, "failed")
        /\ remote' \in {remote, IF from = "closed"
                                THEN [remote EXCEPT ![id] = "partial"] ELSE remote}
        /\ marker' \in {marker, IF from = "putting"
                                THEN [marker EXCEPT ![id] = completion[id]] ELSE marker}
        /\ UNCHANGED <<directory, bulk, completion>>

Child(id) ==
    CreateDirectory(id) \/ RunSucceeds(id) \/ SyncToS3(id) \/ WriteCompletion(id)
        \/ PutMarker(id) \/ ChildFails(id)

-----------------------------------------------------------------------------
Next ==
    \/ Start \/ ReadMarker \/ Verify \/ CleanupMeasurement \/ Adopt \/ ArchiveAttempt
    \/ PlanStep \/ Launch \/ Execute \/ ControllerStops
    \/ \E id \in Stamps : Child(id)

Spec == Init /\ [][Next]_vars

-----------------------------------------------------------------------------
(* Properties *)

\* Types; in particular no evidence, local or in the store, is ever taken of a
\* file that its process has not finished.
TypeOK ==
    /\ saved \in [Steps -> 0 .. MaxStamp] /\ state \in [Steps -> 0 .. MaxStamp]
    /\ directory \in [Stamps -> {"absent", "present", "archived"}]
    /\ bulk \in [Stamps -> {"none", "partial", "full", "freed"}]
    /\ remote \in [Stamps -> {"none", "partial", "full"}]
    /\ completion \in [Stamps -> {"none", "full"}]
    /\ marker \in [Stamps -> {"none", "full"}]
    /\ receipts \subseteq Stamps
    /\ child \in [Stamps -> {"none", "launched", "probing", "closed", "synced",
                             "putting", "committed", "failed"}]
    /\ launches \in [Stamps -> Nat]
    /\ pc \in {"down", "read", "verify", "cleanup", "unlink", "adopt", "stat", "plan",
               "launch", "exec"}
    /\ step \in Steps
    /\ retry \in BOOLEAN /\ retainLocal \in BOOLEAN /\ executed \in BOOLEAN
    /\ adopted \in [Steps -> 0 .. MaxStamp]
    /\ refused \subseteq Stamps

\* An identity is never used twice: not by two steps within the same second or
\* after the clock went back, and not by two attempts at one step.
IdentityUsedOnce ==
    /\ \A id \in Stamps : launches[id] <= 1
    /\ \A s, t \in Steps : saved[s] # 0 /\ saved[s] = saved[t] => s = t

\* What measure returned is durable: the completion marker and all the data it
\* speaks for are in the object store, also when the process that put them there
\* was killed, orphaned or reported a failure.
AdoptedDurable ==
    \A s \in Steps : adopted[s] # 0 =>
        marker[adopted[s]] = "full" /\ remote[adopted[s]] = "full"

\* A bulk file is gone from the disk only if it is committed in the object store
\* and a receipt says so, at whatever point the clean-up was cut short.
FreedCovered ==
    \A id \in Stamps : bulk[id] = "freed" =>
        id \in receipts /\ marker[id] = "full" /\ remote[id] = "full"

\* No measurement is lost: evidence is only taken of finished files, what measure returned
\* is durable, and what was removed from the disk is covered by the store.
NothingLost == TypeOK /\ AdoptedDurable /\ FreedCovered

Abstract == INSTANCE CampaignSteps WITH Ids <- Stamps

\* The steps are settled in order and each once: no crash, rerun or retry makes a
\* step adopt a second measurement or one of another step.
AdoptsOnce == Abstract!Spec

\* Nothing a crash leaves behind is refused as inconsistent: committed accepts
\* files, receipts and markers at every stage.  The exception is an attempt that
\* --retry-incomplete archived and whose process committed it nevertheless.
NoFalseAlarm == \A id \in refused : directory[id] = "archived"
=============================================================================
