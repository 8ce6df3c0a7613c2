------------------------- MODULE ProtocolControllers -------------------------
(***************************************************************************)
(* The controllers of one site (cmd/run-continental with                   *)
(* internal/continental/{runner,parallel,interprotocol,references}.go) and *)
(* the requests they leave for the analysis machine and wait for           *)
(* (internal/analysisworkflow, internal/interprotocolworkflow).            *)
(*                                                                         *)
(* A controller's run is a sequence of operations.  Each is a step of its  *)
(* own and may fail with or without having had its effect; the controller  *)
(* may be interrupted anywhere and is started again by its operator.       *)
(* measure is taken from ScopedMeasure: however often it is called, a step *)
(* of the campaign is settled with one committed measurement.              *)
(***************************************************************************)
EXTENDS CampaignStore

CONSTANT
    SkipOS      \* bound: the sets of controllers that are given --skip-os

VARIABLES
    phase,      \* per controller: where it is
    at,         \* per controller: the operation of its run it has come to
    retrying,   \* per controller: --retry-failed
    skipOS,     \* per controller: --skip-os, pinned in its workspace
    measured,   \* steps settled with a committed measurement
    local,      \* target files the analysis returned, by their content
    remaining,  \* waitForReadiness: protocols it still waits for
    answers,    \* per analysis job: its marker
    raced       \* ghost: a campaign.json was replaced by another

controllerVars == <<phase, at, retrying, skipOS, measured, local, remaining, answers, raced>>

Controllers ==
    CASE deployment = "parallel" -> Protocols
      [] deployment = "site" -> {"site"}
      [] OTHER -> {}

Names == Protocols \cup {"site"}

\* The jobs of the analysis machine that a controller waits for.
Jobs == {<<p, n>> : p \in Protocols, n \in {"rt", "mass", "strategy"}}
            \cup {<<"site", "targets">>}

-----------------------------------------------------------------------------
(* What the controllers do: Run and runProtocol as sequences of operations *)

Measure(name) == <<"measure", name>>
Publish(name) == <<"publish", name>>
Handoff(name) == <<"handoff", name>>
Sample(name) == <<"sample", name>>
Await(what) == <<what, <<>>>>

\* streamMeasurement, which only controllers of a single protocol call.
Stream(p, n, streaming) == IF streaming THEN <<Publish(<<p, "stream", n>>)>> ELSE <<>>

Ipid(p, n, streaming) == <<Measure(<<p, n>>)>> \o Stream(p, n, streaming)

\* The measurements of one protocol, from its discovery to its manifest.
Sweep(p, streaming) ==
    <<Measure(<<p, "rt">>), Handoff(<<p, "rt">>)>> \o Stream(p, "rt", streaming)
    \o <<Measure(<<p, "mass">>), Handoff(<<p, "mass">>)>> \o Stream(p, "mass", streaming)
    \o FlattenSeq([i \in DOMAIN Repeats |-> Ipid(p, Repeats[i], streaming)])
    \o <<Sample(<<p, "base-sample">>)>> \o Ipid(p, "base", streaming)
    \o (IF p = "tcp"
        THEN <<Sample(<<p, "connection-sample">>)>> \o Ipid(p, "connection-rt", streaming)
                \o Ipid(p, "connection-fi", streaming)
        ELSE <<>>)
    \o <<Publish(<<p, "manifest">>), Publish(<<p, "strategy">>)>>

Scales == <<"base", "mass">>

\* localReferences: controls on the UDP machine, before anything is interleaved.
LocalReferences ==
    FlattenSeq([i \in DOMAIN Scales |-> FlattenSeq([j \in DOMAIN ProtocolOrder |->
        LET name == <<"reference", ProtocolOrder[j], Scales[i]>>
        IN  <<Measure(name), Publish(name)>>])])
    \o <<Publish(<<"site", "reference-comparison">>)>>

GroupMeasurements ==
    FlattenSeq([i \in DOMAIN Scales |-> [j \in DOMAIN OrderedGroups |->
        Measure(<<"group", OrderedGroups[j], Scales[i]>>)]])

\* Publish of the interprotocol workflow: its request follows the manifest, in which
\* every group has both its measurements by now.
PublishGroups ==
    <<Publish(<<"site", "groups-manifest">>), Publish(<<"site", "groups-request">>)>>

Interprotocol(references) ==
    <<Await("ready"), Handoff(<<"site", "targets">>)>>
    \o (IF references THEN LocalReferences ELSE <<>>)
    \o GroupMeasurements
    \o PublishGroups \o <<Publish(<<"site", "final">>)>>

RunProtocol(p) ==
    <<Measure(<<p, "zmap">>), Publish(<<p, "discovery">>)>>
    \o Sweep(p, TRUE)
    \o <<Publish(<<p, "flow-done">>)>>
    \o (IF p = "udp" THEN <<Await("protocols")>> \o Interprotocol(TRUE) ELSE <<>>)
    \o <<Publish(<<p, "done">>)>>

RunSite ==
    [j \in DOMAIN ProtocolOrder |-> Measure(<<ProtocolOrder[j], "zmap">>)]
    \o <<Publish(<<"site", "discovery">>)>>
    \o FlattenSeq([j \in DOMAIN ProtocolOrder |-> Sweep(ProtocolOrder[j], FALSE)])
    \o Interprotocol(FALSE)

Programs == [c \in Names |-> IF c = "site" THEN RunSite ELSE RunProtocol(c)]
-----------------------------------------------------------------------------
(* Starting a controller: main, Prepare *)

Own(c) == IF skipOS[c] THEN "disabled" ELSE "enabled"

Goto(c, point) == phase' = [phase EXCEPT ![c] = point]

\* log.Fatal, or the end of main.
Exit(c) == Goto(c, "down")

\* Another layout has used the name of the campaign before.
EarlierLayout ==
    campaign = "enabled"
        /\ objects = {IF deployment = "site" THEN <<"parallel">> ELSE <<"site", "discovery">>}

ControllerInit ==
    /\ measured = {<<p, "zmap">> : p \in {q \in Protocols : Exists(<<"site", "discovery">>)}}
    /\ phase = [c \in Names |-> "down"]
    /\ at = [c \in Names |-> 1]
    /\ retrying = [c \in Names |-> FALSE]
    /\ \E skipping \in SkipOS : skipOS = [c \in Names |-> c \in skipping \cap Controllers]
    /\ local = {}
    /\ remaining = Protocols
    /\ answers = [job \in Jobs |-> "none"]
    /\ raced = FALSE

\* The operator starts the controller; to retry a failure that is not recorded is a
\* fault, and after a refusal for a recorded one it is retried.  The kernel lock keeps
\* the controller alone.
Start(c, retryFailed) ==
    /\ phase[c] \in {"down", "finished", "refused"}
    /\ phase[c] = "refused" => retryFailed
    /\ retryFailed => deployment = "parallel"
    /\ IF retryFailed /\ ~Exists(<<c, "failed">>) THEN Fault ELSE NoFault
    /\ Goto(c, "read")
    /\ retrying' = [retrying EXCEPT ![c] = retryFailed]
    /\ UNCHANGED <<deployment, objects, campaign>>
    /\ UNCHANGED <<at, skipOS, measured, local, remaining, answers, raced>>

\* Prepare publishes campaign.json.  Immutable reads, puts and reads back, and another
\* machine may do the same in between.
AcceptPolicy(c) == campaign = Own(c)

ReadPolicy(c) ==
    /\ phase[c] = "read"
    /\ IF campaign = "absent" THEN Goto(c, "put")
       ELSE IF AcceptPolicy(c) THEN Goto(c, "layout")
       ELSE Exit(c)
    /\ UNCHANGED <<storeVars, at, retrying, skipOS, measured, local, remaining, answers, raced>>

PutPolicy(c) ==
    /\ phase[c] = "put"
    /\ campaign' = Own(c)
    /\ raced' = (raced \/ campaign \notin {"absent", Own(c)})
    /\ Goto(c, "verify")
    /\ UNCHANGED <<deployment, objects, faults, at, retrying, skipOS, measured, local,
                   remaining, answers>>

VerifyPolicy(c) ==
    /\ phase[c] = "verify"
    /\ IF AcceptPolicy(c) THEN Goto(c, "layout") ELSE Exit(c)
    /\ UNCHANGED <<storeVars, at, retrying, skipOS, measured, local, remaining, answers, raced>>

\* The rest of Prepare: a campaign has one layout, and says so when no OS is wanted.
LayoutIgnored(c) == FALSE

OtherLayout(c) == Exists(IF c = "site" THEN <<"parallel">> ELSE <<"site", "discovery">>)

Layout(c) ==
    /\ phase[c] = "layout"
    /\ IF OtherLayout(c)
       THEN Exit(c) /\ UNCHANGED objects
       ELSE /\ Immutable((IF c = "site" THEN {} ELSE {<<"parallel">>, <<"local-references">>})
                            \cup (IF skipOS[c] THEN {<<"os", "not-requested">>} ELSE {}))
            /\ Goto(c, IF retrying[c] THEN "retry" ELSE "admit")
    /\ UNCHANGED <<deployment, campaign, faults, at, retrying, skipOS, measured, local,
                   remaining, answers, raced>>

\* RetryProtocolFailure: refused when there is no failure, or a completion.
RetryProtocolFailure(c) ==
    /\ phase[c] = "retry"
    /\ IF Retryable(c) THEN RetryScanFailure(c) /\ Goto(c, "admit")
       ELSE Exit(c) /\ UNCHANGED objects
    /\ UNCHANGED <<deployment, campaign, faults, at, retrying, skipOS, measured, local,
                   remaining, answers, raced>>

\* The first lines of runProtocol and of Run.  The error about a recorded failure is
\* published again, which changes nothing.
FailureIgnored(c) == FALSE

FailureRecorded(c) == Exists(<<c, "failed">>)

Completed(c) == Exists(IF c = "site" THEN <<"site", "final">> ELSE <<c, "done">>)

Admit(c) ==
    /\ phase[c] = "admit"
    /\ Goto(c, IF FailureRecorded(c) THEN "refused"
               ELSE IF Completed(c) THEN "finished" ELSE "running")
    /\ at' = [at EXCEPT ![c] = 1]
    /\ remaining' = IF c \in {"udp", "site"} THEN Protocols ELSE remaining
    /\ UNCHANGED <<storeVars, retrying, skipOS, measured, local, answers, raced>>

-----------------------------------------------------------------------------
(* The operations of a run *)

Operation(c) == Programs[c][at[c]]

Running(c, op) == phase[c] = "running" /\ Operation(c)[1] = op

Subject(c) == Operation(c)[2]

\* To the next operation; after the last one Run returns.
Advance(c) ==
    IF at[c] < Len(Programs[c])
    THEN Goto(c, "running") /\ at' = [at EXCEPT ![c] = @ + 1]
    ELSE Goto(c, "finished") /\ UNCHANGED at

\* Run returns an error; only controllers of one protocol publish it.
Fail(c) == Goto(c, IF c = "site" THEN "down" ELSE "failing") /\ UNCHANGED at

\* The effect of the current operation on what outlives the controller.  The request of
\* a hand-off is put again by every run that comes to it.
Request(job) == <<"request", job[1], job[2]>>

Effect(c) ==
    LET name == Subject(c)
    IN  /\ measured' = IF Operation(c)[1] = "measure" THEN measured \cup {name} ELSE measured
        /\ CASE Operation(c)[1] \in {"publish", "sample"} -> Immutable({name})
             [] Operation(c)[1] = "handoff" -> Immutable({Request(name)})
             [] OTHER -> UNCHANGED objects

Perform(c) ==
    /\ Running(c, "measure") \/ Running(c, "publish") \/ Running(c, "sample")
    /\ Effect(c)
    /\ Advance(c)
    /\ UNCHANGED <<deployment, campaign, faults, retrying, skipOS, local, remaining,
                   answers, raced>>

\* requestAndWait and prepareTargetsReady put their request, then poll for its markers.
RequestHandoff(c) ==
    /\ Running(c, "handoff")
    /\ Effect(c)
    /\ Goto(c, "polling")
    /\ UNCHANGED <<deployment, campaign, faults, at, retrying, skipOS, local, remaining,
                   answers, raced>>

\* poll: a failure marker is looked for first.
PollFailed(c) ==
    /\ phase[c] = "polling" /\ answers[Subject(c)] = "failed"
    /\ Fail(c)
    /\ UNCHANGED <<storeVars, retrying, skipOS, measured, local, remaining, answers, raced>>

\* verifyFile compares the download with the marker's evidence before the file gets its
\* name; the targets of the interprotocol measurements come without evidence.
VerifyFile(name, content) == name[2] = "targets" \/ content = "whole"

PollDone(c, content) ==
    /\ phase[c] = "polling" /\ answers[Subject(c)] = "done"
    /\ IF content = "whole" THEN NoFault ELSE Fault
    /\ IF VerifyFile(Subject(c), content)
       THEN local' = {f \in local : f[1] # Subject(c)} \cup {<<Subject(c), content>>}
            /\ Advance(c)
       ELSE Fail(c) /\ UNCHANGED local
    /\ UNCHANGED <<deployment, objects, campaign, retrying, skipOS, measured, remaining,
                   answers, raced>>

\* waitProtocols: a pass over the protocols, of which a completed one counts whatever
\* else its controller has published.
FlowDone(p) == Exists(<<p, "flow-done">>)

WaitUDPOnly == FlowDone("udp")

AllFlowsDone == \A p \in Protocols : FlowDone(p)

WaitProtocols(c) ==
    /\ Running(c, "protocols")
    /\ \/ AllFlowsDone /\ Advance(c)
       \/ (\E p \in Protocols : ~FlowDone(p) /\ Exists(<<p, "failed">>)) /\ Fail(c)
    /\ UNCHANGED <<storeVars, retrying, skipOS, measured, local, remaining, answers, raced>>

\* waitForReadiness: what is found ready is not looked at again.
WaitForReadiness(c) ==
    /\ Running(c, "ready")
    /\ \/ remaining = {} /\ Advance(c) /\ UNCHANGED remaining
       \/ \E p \in remaining :
             \/ /\ answers[<<p, "strategy">>] = "done"
                /\ remaining' = remaining \ {p} /\ UNCHANGED <<phase, at>>
             \/ /\ answers[<<p, "strategy">>] = "failed"
                /\ Fail(c) /\ UNCHANGED remaining
    /\ UNCHANGED <<storeVars, retrying, skipOS, measured, local, answers, raced>>
\* The operation fails, the wait times out, or the answer to an operation is lost that
\* had its effect.
OperationFails(c) ==
    /\ phase[c] \in {"running", "polling"}
    /\ Fault
    /\ \/ UNCHANGED <<objects, measured>>
       \/ phase[c] = "running" /\ Effect(c)
    /\ Fail(c)
    /\ UNCHANGED <<deployment, campaign, retrying, skipOS, local, remaining, answers, raced>>

\* main publishes the failure, or fails to, and exits.  A failure that is recorded
\* already stays as it is.
PublishProtocolFailure(c) ==
    /\ phase[c] = "failing"
    /\ \/ Immutable({<<c, "failed">>}) /\ NoFault
       \/ UNCHANGED objects /\ Fault
    /\ Exit(c)
    /\ UNCHANGED <<deployment, campaign, at, retrying, skipOS, measured, local, remaining,
                   answers, raced>>

\* A crash, or an interrupt: the context is cancelled and no failure published.
Interrupt(c) ==
    /\ phase[c] \notin {"down", "finished", "refused"}
    /\ Fault
    /\ Exit(c)
    /\ UNCHANGED <<deployment, objects, campaign, at, retrying, skipOS, measured, local,
                   remaining, answers, raced>>

-----------------------------------------------------------------------------
(* The analysis machine (external), from how its markers are used *)

Requested(job) == IF job[2] = "strategy" THEN Exists(job) ELSE Exists(Request(job))

Answer(job) ==
    /\ Requested(job) /\ answers[job] = "none"
    /\ \/ NoFault /\ answers' = [answers EXCEPT ![job] = "done"]
       \/ Fault /\ answers' = [answers EXCEPT ![job] = "failed"]
    /\ UNCHANGED <<deployment, objects, campaign, phase, at, retrying, skipOS, measured, local,
                   remaining, raced>>

\* Its explicit retry removes the failure marker.
RetryAnalysis(job) ==
    /\ answers[job] = "failed"
    /\ answers' = [answers EXCEPT ![job] = "none"]
    /\ UNCHANGED <<storeVars, phase, at, retrying, skipOS, measured, local, remaining, raced>>

-----------------------------------------------------------------------------
Proceed(c) ==
    \/ ReadPolicy(c) \/ PutPolicy(c) \/ VerifyPolicy(c) \/ Layout(c)
    \/ RetryProtocolFailure(c) \/ Admit(c)
    \/ Perform(c) \/ RequestHandoff(c) \/ PollFailed(c)
    \/ \E content \in {"whole", "truncated"} : PollDone(c, content)
    \/ WaitProtocols(c) \/ WaitForReadiness(c) \/ PublishProtocolFailure(c)

ControllerNext ==
    \/ \E c \in Controllers :
          \/ \E retryFailed \in BOOLEAN : Start(c, retryFailed)
          \/ Proceed(c) \/ OperationFails(c) \/ Interrupt(c)
    \/ \E job \in Jobs : Answer(job) \/ RetryAnalysis(job)

-----------------------------------------------------------------------------
(* Properties *)

\* The measurements of a protocol, of the references and of the groups.
SweepNames(p) ==
    {<<p, n>> : n \in {"zmap", "rt", "mass", "base"} \cup ToSet(Repeats)
                        \cup IF p = "tcp" THEN {"connection-rt", "connection-fi"} ELSE {}}

ReferenceNames == {<<"reference", p, s>> : p \in Protocols, s \in ToSet(Scales)}

GroupNames == {<<"group", g, s>> : g \in ToSet(OrderedGroups), s \in ToSet(Scales)}

CampaignNames ==
    GroupNames \cup (UNION {SweepNames(p) : p \in Protocols})
        \cup IF deployment = "parallel" THEN ReferenceNames ELSE {}

\* What an object speaks for: the measurements that whoever reads it takes for granted.
Backing(name) ==
    LET kind == name[2]
    IN  IF Len(name) = 1 THEN {}
        ELSE IF name[1] = "reference" THEN {name}
        ELSE IF name[1] = "request"
        THEN IF name[3] = "targets" THEN {} ELSE {<<name[2], name[3]>>}
        ELSE
        CASE Len(name) = 3 /\ kind = "stream" -> {<<name[1], name[3]>>, <<name[1], "zmap">>}
          [] Len(name) = 2 /\ kind = "discovery" ->
                IF name[1] = "site" THEN {<<p, "zmap">> : p \in Protocols}
                ELSE {<<name[1], "zmap">>}
          [] kind \in {"manifest", "strategy", "flow-done"} -> SweepNames(name[1])
          [] kind = "reference-comparison" -> ReferenceNames
          [] kind \in {"groups-manifest", "groups-request"} -> GroupNames
          [] kind = "final" -> CampaignNames
          [] OTHER -> {}
=============================================================================
