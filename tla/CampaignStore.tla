---------------------------- MODULE CampaignStore ----------------------------
(***************************************************************************)
(* The control namespace of one campaign and one site in the object store: *)
(* the objects that controllers, the shared OS worker and the analysis     *)
(* machine publish for one another (internal/continental/store.go, S3).    *)
(*                                                                         *)
(* The content of nearly every object follows from its name, so the store  *)
(* is the set of the names that exist.  The exception is campaign.json,    *)
(* which says whether operating systems are scanned and which every        *)
(* controller wants to publish with its own command line's idea of that.   *)
(* An object exists as soon as its transfer succeeded (external: S3).      *)
(***************************************************************************)
EXTENDS Integers, Sequences, SequencesExt, FiniteSets

CONSTANTS
    ProtocolOrder,  \* Protocols: a sequence of protocols, "udp" among them
    Repeats,        \* a sequence: the reproducibility repeats of a protocol (5 in the code)
    OrderedGroups,  \* groups of interleaved protocols
    MaxFaults       \* bound, per deployment: errors, interrupts and analysis failures

\* A machine per protocol, one machine for all of them, or the OS worker.
Deployments == {"parallel", "site", "os"}

ASSUME CampaignStoreAssumption ==
    /\ \A s \in {ProtocolOrder, Repeats, OrderedGroups} : s \in Seq(ToSet(s))
    /\ "udp" \in ToSet(ProtocolOrder)
    /\ ToSet(ProtocolOrder) \cap {"site", "os", "reference", "request", "group"} = {}
    /\ MaxFaults \in [Deployments -> Nat]

Protocols == ToSet(ProtocolOrder)

VARIABLES
    deployment,  \* who is at work
    objects,     \* names of the objects that exist
    campaign,    \* campaign.json: "absent", "enabled" or "disabled"
    faults       \* faults so far

storeVars == <<deployment, objects, campaign, faults>>

Exists(name) == name \in objects

\* Something goes wrong, within the bound.
Fault == faults < MaxFaults[deployment] /\ faults' = faults + 1

NoFault == UNCHANGED faults

\* Immutable for an object whose content follows from its name: a second
\* publication finds the first and agrees with it.
Immutable(names) == objects' = objects \cup names

\* retryScanFailure: the failure is archived and removed, unless the job is done.  The put
\* and the deletion are one step: the archived copy has a name of its own that nobody
\* reads, and a stop between the two leaves the failure recorded, as one before them does.
Retryable(job) == ~Exists(<<job, "done">>) /\ Exists(<<job, "failed">>)

ArchiveOnly(job) == UNCHANGED objects

RetryScanFailure(job) == objects' = objects \ {<<job, "failed">>}
=============================================================================
