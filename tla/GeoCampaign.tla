----------------------------- MODULE GeoCampaign -----------------------------
(***************************************************************************)
(* A geographic campaign: its controllers or its OS worker over the        *)
(* publication store, with whatever else may write to the store.  The      *)
(* worker meets the controllers only in campaign.json, which never changes *)
(* once the request for its scan exists, so that a behaviour is one of     *)
(* the controllers or one of the worker.                                   *)
(***************************************************************************)
EXTENDS ProtocolControllers, SharedOS

Init ==
    /\ deployment \in Deployments
    /\ faults = 0
    /\ \/ deployment # "os" /\ campaign = "absent" /\ objects = {}
       \/ deployment # "os" /\ EarlierLayout
       \/ deployment = "os" /\ campaign \in {"enabled", "disabled"} /\ objects = {}
    /\ ControllerInit
    /\ OSInit
    /\ late => deployment = "os" /\ campaign = "disabled"

Next ==
    \/ ControllerNext /\ UNCHANGED workerVars
    \/ deployment = "os" /\ OSNext /\ UNCHANGED controllerVars

vars == <<storeVars, controllerVars, workerVars>>

Spec == Init /\ [][Next]_vars

\* Machines run, the analysis answers, and the operator starts again what stopped.
Restart(c) ==
    phase[c] \in {"down", "refused"} /\ \E retryFailed \in BOOLEAN : Start(c, retryFailed)

RestartWorker == At("down") /\ \E retry, incomplete \in BOOLEAN : StartWorker(retry, incomplete)

Fairness ==
    /\ \A c \in Names :
          WF_<<storeVars, controllerVars>>(c \in Controllers /\ (Proceed(c) \/ Restart(c)))
    /\ WF_<<storeVars, controllerVars>>(\E job \in Jobs : Answer(job) \/ RetryAnalysis(job))
    /\ WF_<<storeVars, workerVars>>(
          deployment = "os"
              /\ (RequestOSEnrichment \/ PublishScanRequest \/ Work \/ RestartWorker))
    /\ WF_<<storeVars, workerVars>>(\E k \in Scans : ScanProcess(k))

FairSpec == Spec /\ Fairness

-----------------------------------------------------------------------------
(* Properties *)

\* A controller or the worker is at a place the code has, and what is pinned in the
\* store and in the workspaces has the form it is read with.
TypeOK ==
    /\ phase \in [Names -> {"down", "read", "put", "verify", "layout", "retry", "admit",
                            "running", "polling", "failing", "refused", "finished"}]
    /\ \A c \in Names : at[c] \in 1 .. Len(Programs[c])
    /\ answers \in [Jobs -> {"none", "done", "failed"}]
    /\ remaining \subseteq Protocols
    /\ campaign \in {"absent", "enabled", "disabled"}
    /\ faults \in 0 .. MaxFaults[deployment]
    /\ worker \in {"down", "retry", "poll", "pin", "stat", "evidence", "recheck", "plan",
                   "complete", "output", "launch", "scan", "upload", "failing", "finished"}
    /\ scan \in 0 .. MaxScans /\ request \in 0 .. 2 /\ pinned \in 0 .. 2
    /\ process \in [Scans -> {"none", "launched", "writing", "ok", "failed"}]
    /\ output \in [Scans -> {"absent", "partial", "closed", "archived", "archivedClosed"}]
    /\ done \in {NotDone} \cup (Scans \X (1 .. 2))

\* Whatever a controller has published stands on measurements that are committed: a reader
\* of a request, a manifest, a stream event or a completion finds the data it names,
\* wherever its publisher stopped and however often it was run again.
PublishedBacked == \A name \in objects : Backing(name) \subseteq measured

\* The final request of a site follows every part of the site: the flow of each protocol
\* is completed and its strategies ready, and the references, or none for a single
\* machine, are compared, although three machines publish them.
FinalComplete ==
    Exists(<<"site", "final">>) =>
        /\ \A p \in Protocols :
              /\ Exists(<<p, "manifest">>) /\ answers[<<p, "strategy">>] = "done"
              /\ deployment = "parallel" => Exists(<<p, "flow-done">>)
        /\ deployment = "parallel" => Exists(<<"site", "reference-comparison">>)
        /\ Exists(<<"site", "groups-request">>)

\* A campaign that was started with one layout, a machine per protocol or one for all, is
\* not continued with the other.
OneLayout == ~(Exists(<<"parallel">>) /\ Exists(<<"site", "discovery">>))

\* While a failure of a controller is recorded, its flow does not go on to the next
\* operation, also not after a restart: only the explicit retry, which archives the failure,
\* lets it (runProtocol).  The end of a wait, which advances from "polling", is not meant.
FailureHolds ==
    [][\A c \in Controllers :
          Exists(<<c, "failed">>) /\ Exists(<<c, "failed">>)' =>
              at'[c] <= at[c] \/ phase[c] # "running"]_vars

\* Target files that the analysis returned with evidence are whole when they have their
\* name, so that no later measurement probes a part of its targets.
VerifiedTargets ==
    \A file \in local : file[1][2] # "targets" => file[2] = "whole"

\* Controllers of one campaign that are past Prepare agree on the OS policy, unless two
\* of them put campaign.json at the same time.
PolicyAgreed ==
    LET past == {c \in Controllers : phase[c] \in {"admit", "running", "polling"}}
    IN  ~raced => \A c, d \in past : skipOS[c] = skipOS[d]

\* The campaign gets to its final request if its controllers agree on the policy, in spite
\* of errors, interrupts and failed analyses that the operator retries.
CampaignFinishes ==
    (campaign = "absent" /\ \A c, d \in Controllers : skipOS[c] = skipOS[d])
        ~> Exists(<<"site", "final">>)

\* The completion of the OS scan names files of one attempt, all in the store, of a scan
\* that was closed and read the targets of the request.
OSDoneDurable ==
    done # NotDone =>
        /\ \A i \in DOMAIN ScanFiles : raw[i] = done[1]
        /\ output[done[1]] \in {"closed", "archivedClosed"}
        /\ scanned[done[1]] = done[2] /\ pinned = done[2]

\* The OS job has one verdict: a completion is never followed by a failure.
OneVerdict == ~(done # NotDone /\ Exists(<<"os", "failed">>))

\* A closed scan is not thrown away for a new one, unless a scan outlived its worker.
ClosedKept ==
    (\E a \in Scans : output[a] = "archivedClosed") => orphaned

\* A campaign without OS is never scanned, and has no verdict on a scan.
NoOSWithoutRequest ==
    NotRequested /\ deployment = "os" => /\ \A k \in Scans : process[k] = "none"
                                         /\ ~Exists(<<"os", "failed">>)

\* The worker finishes a scan that is requested, unless the request was replaced.
OSFinishes ==
    (deployment = "os") ~> (worker = "finished" \/ request = 2)

\* A reader of whatever is published finds the data and the parts it stands on, and a
\* controller that reads what the analysis returned finds it whole.
PublishedSound == PublishedBacked /\ FinalComplete /\ VerifiedTargets

\* The controllers of a campaign agree on what it is: its layout, its OS policy and the
\* objects they expect of one another.
CampaignAgreed == TypeOK /\ OneLayout /\ PolicyAgreed

\* The OS job gets one verdict, on a scan of the requested targets whose files are stored,
\* and none when no scan is wanted; no finished scan is thrown away on the way.
OSVerdictSound == OSDoneDurable /\ OneVerdict /\ NoOSWithoutRequest /\ ClosedKept

\* Faults that operators retry never leave a campaign or an OS job without a way on.
Finishes == CampaignFinishes /\ OSFinishes

\* A recorded failure of a controller can be retried.
FailureRetryable ==
    \A c \in Controllers : Exists(<<c, "failed">>) => Retryable(c)
=============================================================================
