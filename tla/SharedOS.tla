------------------------------- MODULE SharedOS -------------------------------
(***************************************************************************)
(* The OS worker of a campaign: cmd/continental-os-worker with RunOS,      *)
(* RunOSEnrichment and runOSScan (internal/continental/osworker.go,        *)
(* enrichment.go, os_failure.go), the measure-os processes it starts, and  *)
(* the scan request of the analysis machine (external).                    *)
(*                                                                         *)
(* The worker polls for the request, pins it, fetches and checks the       *)
(* targets, scans them or adopts a scan that is closed already, uploads    *)
(* the files and publishes the completion.  It may stop anywhere; a scan   *)
(* goes on when its worker was killed.  A target file is its version, a    *)
(* scan the second of its time stamp.                                      *)
(***************************************************************************)
EXTENDS CampaignStore

CONSTANTS
    MaxScans,   \* bound: measure-os processes and time stamps
    ScanFiles   \* a sequence: the files of a scan that are uploaded

ASSUME SharedOSAssumption == MaxScans \in Nat \ {0} /\ ScanFiles \in Seq(ToSet(ScanFiles))

Scans == 1 .. MaxScans
Truncated == 99   \* a target file cut short: no version

VARIABLES
    late,            \* the worker runs with --enrichment, on a campaign without OS
    request,         \* scan request and targets in the store: version, 0 = none
    worker,          \* where the worker is
    seen,            \* the version of the request this run works on
    retryIncomplete, \* --retry-incomplete
    pinned,          \* request.json of the workspace, 0 = none
    target,          \* targets.pq of the workspace
    scan,            \* scan.json: the current attempt, 0 = none
    output,          \* per attempt: its directory
    scanned,         \* per attempt: the targets it scanned
    process,         \* per measure-os process: where it is
    attempt,         \* per process: the attempt it was started for
    own,             \* the process the worker waits for
    uploaded,        \* files put in this run
    raw,             \* per file: the attempt whose file is in the store
    done,            \* done.json: attempt and version, NotDone = absent
    orphaned         \* ghost: a worker died and left its scan running

workerVars == <<late, request, worker, seen, retryIncomplete, pinned, target, scan, output,
                scanned, process, attempt, own, uploaded, raw, done, orphaned>>

NotDone == <<0, 0>>

localVars == <<pinned, target, scan, output, scanned>>
processVars == <<process, attempt, own, orphaned>>
remoteVars == <<raw, done>>

OSInit ==
    /\ late \in BOOLEAN
    /\ request = 0
    /\ worker = "down"
    /\ seen = 0 /\ retryIncomplete = FALSE
    /\ pinned = 0 /\ target = 0 /\ scan = 0
    /\ output = [a \in Scans |-> "absent"]
    /\ scanned = [a \in Scans |-> 0]
    /\ process = [k \in Scans |-> "none"]
    /\ attempt = [k \in Scans |-> 0]
    /\ own = 0
    /\ uploaded = 0
    /\ raw = [i \in DOMAIN ScanFiles |-> 0]
    /\ done = NotDone
    /\ orphaned = FALSE

\* No scan belongs to a campaign without OS, unless it is asked for afterwards.
NotRequested == campaign = "disabled" /\ ~late

-----------------------------------------------------------------------------
(* The analysis machine (external) *)

\* Once every protocol is discovered, or the enrichment was requested; for a campaign
\* without OS only by mistake.
PublishScanRequest ==
    /\ request = 0 /\ campaign # "absent" /\ (late => Exists(<<"os", "enrichment">>))
    /\ IF NotRequested THEN Fault ELSE NoFault
    /\ request' = 1
    /\ UNCHANGED <<deployment, objects, campaign, late, worker, seen, retryIncomplete, localVars,
                   processVars, uploaded, remoteVars>>

\* Someone replaces the request: no worker may adopt that halfway.
ReplaceScanRequest ==
    /\ request = 1 /\ Fault
    /\ request' = 2
    /\ UNCHANGED <<deployment, objects, campaign, late, worker, seen, retryIncomplete, localVars,
                   processVars, uploaded, remoteVars>>

\* RequestOSEnrichment: an operator asks for the scan afterwards; once more is the same.
RequestOSEnrichment ==
    /\ late
    /\ Immutable({<<"os", "enrichment">>})
    /\ UNCHANGED <<deployment, campaign, faults, late, request, worker, seen, retryIncomplete,
                   localVars, processVars, uploaded, remoteVars>>

-----------------------------------------------------------------------------
(* The worker *)

At(point) == worker = point

Move(to) == worker' = to /\ UNCHANGED <<late, request, seen, retryIncomplete>>

\* log.Fatal after PublishOSFailure.
Error == Move("failing")

\* The operator starts the worker, with the flags the store and the workspace call for;
\* other flags are a fault.
StartWorker(retry, incomplete) ==
    /\ At("down") \/ At("finished")
    /\ worker' = IF retry THEN "retry" ELSE "poll"
    /\ retryIncomplete' = incomplete
    /\ uploaded' = 0
    /\ IF /\ retry = Exists(<<"os", "failed">>)
          /\ incomplete = (scan # 0 /\ output[scan] = "partial")
       THEN NoFault ELSE Fault
    /\ UNCHANGED <<deployment, objects, campaign, late, request, seen, localVars, processVars,
                   remoteVars>>

\* RetryOSFailure and RetryEnrichmentScanFailure.
RetryOSFailure ==
    /\ At("retry")
    /\ IF ~NotRequested /\ campaign # "absent" /\ Exists(<<"os", "failed">>) /\ done = NotDone
       THEN RetryScanFailure("os") /\ Move("poll")
       ELSE UNCHANGED objects /\ Move("down")
    /\ UNCHANGED <<deployment, campaign, faults, localVars, processVars, uploaded, remoteVars>>

\* What both polls have in common: a verdict that exists is final, and without a request
\* there is nothing to do yet.
Verdict ==
    \/ done # NotDone /\ Move("finished")
    \/ done = NotDone /\ Exists(<<"os", "failed">>) /\ Error

Due == request # 0 /\ done = NotDone /\ ~Exists(<<"os", "failed">>)

Adopt == worker' = "pin" /\ seen' = request /\ UNCHANGED <<late, request, retryIncomplete>>

OSDisabled == NotRequested

\* RunOS up to runOSScan.
PollRequest ==
    /\ At("poll") /\ ~late /\ campaign # "absent"
    /\ \/ OSDisabled /\ Immutable({<<"os", "not-requested">>}) /\ Move("finished")
       \/ ~OSDisabled /\ Verdict /\ UNCHANGED objects
       \/ ~OSDisabled /\ Due /\ Adopt /\ UNCHANGED objects
    /\ UNCHANGED <<deployment, campaign, faults, localVars, processVars, uploaded, remoteVars>>

\* running.json of an enrichment names the request it was started for.
Started(version) == <<"os", "running", version>>

OtherStarted == \E v \in 1 .. 2 : v # request /\ Exists(Started(v))

\* RunOSEnrichment up to runOSScan.
PollEnrichment ==
    /\ At("poll") /\ late /\ Exists(<<"os", "enrichment">>)
    /\ \/ Verdict /\ UNCHANGED objects
       \/ Due /\ ~OtherStarted /\ Immutable({Started(request)}) /\ Adopt
       \/ Due /\ OtherStarted /\ Error /\ UNCHANGED objects
    /\ UNCHANGED <<deployment, campaign, faults, localVars, processVars, uploaded, remoteVars>>

\* The request is pinned in the workspace; another one is never adopted.
PinRequest(version) ==
    \/ pinned = 0 /\ pinned' = version /\ Move("stat")
    \/ pinned = version /\ UNCHANGED pinned /\ Move("stat")
    \/ pinned \notin {0, version} /\ UNCHANGED pinned /\ Error

Pin ==
    /\ At("pin")
    /\ PinRequest(seen)
    /\ UNCHANGED <<storeVars, target, scan, output, scanned, processVars, uploaded, remoteVars>>

\* GetFile: whatever the store holds now, or a part of it.
GetFile ==
    \/ target' = request /\ NoFault
    \/ target' = Truncated /\ Fault

StatTarget ==
    /\ At("stat")
    /\ IF target = 0 THEN GetFile ELSE UNCHANGED <<target, faults>>
    /\ Move("evidence")
    /\ UNCHANGED <<deployment, objects, campaign, pinned, scan, output, scanned, processVars,
                   uploaded, remoteVars>>

RefetchTarget == GetFile

\* A target file that does not match the request is fetched once more.
CheckTarget ==
    /\ \/ /\ At("evidence") /\ target = seen
          /\ Move("plan") /\ UNCHANGED <<target, faults>>
       \/ At("evidence") /\ target # seen /\ RefetchTarget /\ Move("recheck")
       \/ At("recheck") /\ target = seen /\ Move("plan") /\ UNCHANGED <<target, faults>>
       \/ At("recheck") /\ target # seen /\ Error /\ UNCHANGED <<target, faults>>
    /\ UNCHANGED <<deployment, objects, campaign, pinned, scan, output, scanned, processVars,
                   uploaded, remoteVars>>

PlanScan ==
    /\ At("plan")
    /\ scan' = IF scan = 0 THEN 1 ELSE scan
    /\ Move("complete")
    /\ UNCHANGED <<storeVars, pinned, target, output, scanned, processVars, uploaded, remoteVars>>

Adoptable == output[scan] = "closed"

\* A closed scan is adopted; otherwise the directory is looked at, in a second call.
StatComplete ==
    /\ At("complete")
    /\ Move(IF Adoptable THEN "upload" ELSE "output")
    /\ UNCHANGED <<storeVars, localVars, processVars, uploaded, remoteVars>>

\* An attempt without completion stops the worker, or is moved away for a new one; the
\* rename and the write of scan.json with the new ID are one step.
StatOutput ==
    /\ At("output")
    /\ \/ output[scan] = "absent" /\ Move("launch") /\ UNCHANGED <<output, scan>>
       \/ output[scan] # "absent" /\ ~retryIncomplete /\ Error /\ UNCHANGED <<output, scan>>
       \/ /\ output[scan] # "absent" /\ retryIncomplete /\ scan < MaxScans
          /\ output' = [output EXCEPT ![scan] = IF @ = "closed" THEN "archivedClosed"
                                                ELSE "archived"]
          /\ scan' = scan + 1
          /\ Move("launch")
    /\ UNCHANGED <<storeVars, pinned, target, scanned, processVars, uploaded, remoteVars>>

Launch ==
    /\ At("launch")
    /\ \E k \in Scans :
          /\ process[k] = "none" /\ \A j \in 1 .. k - 1 : process[j] # "none"
          /\ process' = [process EXCEPT ![k] = "launched"]
          /\ attempt' = [attempt EXCEPT ![k] = scan]
          /\ own' = k
    /\ Move("scan")
    /\ UNCHANGED <<storeVars, localVars, orphaned, uploaded, remoteVars>>

ScanReturns ==
    /\ At("scan") /\ process[own] \in {"ok", "failed"}
    /\ IF process[own] = "ok" THEN Move("upload") ELSE Error
    /\ UNCHANGED <<storeVars, localVars, processVars, uploaded, remoteVars>>

\* Every file is compared with the completion and put, one after the other.
PutFile ==
    /\ At("upload") /\ uploaded < Len(ScanFiles)
    /\ IF output[scan] = "closed"
       THEN /\ raw' = [raw EXCEPT ![uploaded + 1] = scan]
            /\ uploaded' = uploaded + 1
            /\ Move("upload")
       ELSE Error /\ UNCHANGED <<raw, uploaded>>
    /\ UNCHANGED <<storeVars, localVars, processVars, done>>

PublishBeforeUpload == uploaded >= 1

FilesUploaded == uploaded = Len(ScanFiles)

PublishDone ==
    /\ At("upload") /\ FilesUploaded
    /\ done' = <<scan, seen>>
    /\ Move("finished")
    /\ UNCHANGED <<storeVars, localVars, processVars, uploaded, raw>>

\* An I/O or store error at any point; a publication may have got through nevertheless.
WorkerFails ==
    /\ worker \notin {"down", "finished", "failing", "retry", "scan"}
    /\ Fault
    /\ \/ UNCHANGED done
       \/ At("upload") /\ FilesUploaded /\ done' = <<scan, seen>>
    /\ Error
    /\ UNCHANGED <<deployment, objects, campaign, localVars, processVars, uploaded, raw>>

\* PublishOSFailure and PublishEnrichmentScanFailure: not for a job nobody requested, nor
\* over a verdict that exists.
FailureDue == ~NotRequested /\ request # 0 /\ done = NotDone

PublishOSFailure ==
    /\ At("failing")
    /\ \/ Immutable(IF FailureDue THEN {<<"os", "failed">>} ELSE {}) /\ NoFault
       \/ UNCHANGED objects /\ Fault
    /\ Move("down")
    /\ UNCHANGED <<deployment, campaign, localVars, processVars, uploaded, remoteVars>>

\* An interrupt cancels the context, which kills the scan; a crash leaves it running.
StopWorker ==
    /\ worker \notin {"down", "finished"}
    /\ Fault
    /\ \/ /\ UNCHANGED process
          /\ orphaned' = (orphaned \/ (At("scan") /\ process[own] \in {"launched", "writing"}))
       \/ /\ At("scan") /\ process[own] \in {"launched", "writing"}
          /\ process' = [process EXCEPT ![own] = "failed"] /\ UNCHANGED orphaned
    /\ Move("down")
    /\ UNCHANGED <<deployment, objects, campaign, localVars, attempt, own, uploaded, remoteVars>>

-----------------------------------------------------------------------------
(* measure-os *)

\* CreateDirectory refuses a directory that exists; the targets are read from here on.
CreateOutput(k) ==
    LET a == attempt[k]
    IN  /\ process[k] = "launched"
        /\ IF output[a] = "absent"
           THEN /\ output' = [output EXCEPT ![a] = "partial"]
                /\ scanned' = [scanned EXCEPT ![a] = target]
                /\ process' = [process EXCEPT ![k] = "writing"]
           ELSE process' = [process EXCEPT ![k] = "failed"] /\ UNCHANGED <<output, scanned>>
        /\ UNCHANGED <<storeVars, late, request, worker, seen, retryIncomplete, pinned, target,
                       scan, attempt, own, orphaned, uploaded, remoteVars>>

\* The files are closed and WriteCompletion follows, if the directory is in its place.
EndScan(k) ==
    LET a == attempt[k]
    IN  /\ process[k] = "writing"
        /\ \/ /\ output[a] = "partial" /\ NoFault
              /\ output' = [output EXCEPT ![a] = "closed"]
              /\ process' = [process EXCEPT ![k] = "ok"]
           \/ /\ IF output[a] = "partial" THEN Fault ELSE NoFault
              /\ process' = [process EXCEPT ![k] = "failed"] /\ UNCHANGED output
        /\ UNCHANGED <<deployment, objects, campaign, late, request, worker, seen,
                       retryIncomplete, pinned, target, scan, scanned, attempt, own, orphaned,
                       uploaded, remoteVars>>

-----------------------------------------------------------------------------
Work ==
    RetryOSFailure \/ PollRequest \/ PollEnrichment \/ Pin \/ StatTarget \/ CheckTarget \/ PlanScan
        \/ StatComplete \/ StatOutput \/ Launch \/ ScanReturns \/ PutFile \/ PublishDone
        \/ PublishOSFailure

ScanProcess(k) == CreateOutput(k) \/ EndScan(k)

OSNext ==
    \/ RequestOSEnrichment \/ PublishScanRequest \/ ReplaceScanRequest
    \/ \E retry, incomplete \in BOOLEAN : StartWorker(retry, incomplete)
    \/ Work \/ WorkerFails \/ StopWorker
    \/ \E k \in Scans : ScanProcess(k)
===============================================================================
