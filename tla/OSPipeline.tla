------------------------------ MODULE OSPipeline ------------------------------
(***************************************************************************)
(* One OS measurement: runPipeline in os/pipeline.go with its feeder, the  *)
(* zgrab2 process, the DNS and SNMP workers, the merger that joins their   *)
(* results, the writer and the sidecar of observations, under interrupts,  *)
(* a failing scanner and failing writes.  What a scanner finds at a host   *)
(* is fixed by Banner; the four services of zgrab2 count as one.           *)
(***************************************************************************)
EXTENDS OSClassifier

CONSTANTS
    IPs, NoIP,         \* addresses, and the empty string a row may hold
    Inputs,            \* the target files: sequences of addresses
    NoBanner,          \* no evidence
    Banner,            \* per address and scanner: NoBanner, NoTag or a tag
    ProbeWorkers,      \* pairs of a UDP scanner and a number
    InputCapacity,     \* ScannerInputBuffer
    ResultCapacity,    \* the buffers behind the scanners
    OutCapacity,       \* ResultBufferSize
    BatchSize,         \* ParquetWriteBatchSize
    ObservationBatch,  \* observations per write of the sidecar
    ZGrabSenders,      \* addresses zgrab2 works on at a time
    MaxFaults          \* bound: failures of one run, besides an interrupt

Scanners == {"zgrab", "dns", "snmp"}
UDPScanners == {"dns", "snmp"}

ASSUME OSPipelineAssumption ==
    /\ Inputs \subseteq Seq(IPs \cup {NoIP})
    /\ Banner \in [IPs -> [Scanners -> Tags \cup {NoTag, NoBanner}]]
    /\ ProbeWorkers \subseteq UDPScanners \X Nat /\ IsFiniteSet(ProbeWorkers)
    /\ \A n \in {InputCapacity, ResultCapacity, OutCapacity, BatchSize, ObservationBatch,
                  ZGrabSenders} : n \in Nat \ {0}
    /\ MaxFaults \in Nat
    /\ {NoIP, "idle", "exited"} \cap IPs = {}   \* what rows, lines and workers hold besides

VARIABLES
    main,         \* where runPipeline is
    rows,         \* the target file
    ctxDone,      \* the context is cancelled
    feeder,       \* nextRow, the scanner the row goes to next, and how it ended
    in,           \* per scanner: zgrabIn, dnsIn, snmpIn
    zgrab,        \* the process
    zgrabWriter,  \* the goroutine that writes its input
    work,         \* addresses zgrab2 has read and not answered
    lines,        \* its output: addresses, NoIP for a line that does not parse
    worker,       \* per UDP worker: idle, exited or its address
    out,          \* per UDP scanner: its result channel
    merging,      \* per scanner: what the goroutine that integrates its results does
    pendings,     \* per address: flags, {} = no entry
    totals,       \* totalEmitted and totalDropped
    coverage,     \* the counters of coverageStats
    observed,     \* count, buffer and err of the observation writer
    outRecords,   \* the channel to the writer, and whether it is closed
    writer,       \* batch, written rows, error and end of the writer
    errors,       \* errors of scanners and feeder, exit and close errors
    result,       \* what runPipeline returned, and whether coverage was written
    faults        \* ghost: failures so far

feedVars == <<rows, feeder>>
zgrabVars == <<zgrab, zgrabWriter, work, lines>>
mergeVars == <<merging, pendings, totals, coverage, observed>>
vars == <<main, feedVars, ctxDone, in, zgrabVars, worker, out, mergeVars, outRecords,
          writer, errors, result, faults>>

FeedOrder == <<"zgrab", "dns", "snmp">>
Idle == "idle"
Exited == "exited"
Ranging == [at |-> "range", ip |-> NoIP]

Init ==
    /\ main = "start"
    /\ rows \in Inputs
    /\ ctxDone = FALSE
    /\ feeder = [row |-> 1, to |-> 1, end |-> "running"]
    /\ in = [s \in Scanners |-> <<>>]
    /\ zgrab = "none"
    /\ zgrabWriter = "writing"
    /\ work = <<>>
    /\ lines = <<>>
    /\ worker = [w \in ProbeWorkers |-> Idle]
    /\ out = [s \in UDPScanners |-> <<>>]
    /\ merging = [s \in Scanners |-> Ranging]
    /\ pendings = [ip \in IPs |-> {}]
    /\ totals = [emitted |-> 0, dropped |-> 0]
    /\ coverage = [without |-> 0, resolved |-> 0, ambiguous |-> 0, unclassified |-> 0]
    /\ observed = [count |-> 0, buffer |-> 0, err |-> FALSE]
    /\ outRecords = [queue |-> <<>>, closed |-> FALSE]
    /\ writer = [batch |-> <<>>, written |-> <<>>, err |-> FALSE, done |-> FALSE]
    /\ errors = [scanner |-> FALSE, zgrab |-> FALSE, close |-> FALSE]
    /\ result = [status |-> "running", coverageFile |-> FALSE]
    /\ faults = 0

Fault == faults < MaxFaults /\ faults' = faults + 1
NoFault == faults' = faults

Running == main \notin {"start", "returned"}

-----------------------------------------------------------------------------
(* Start *)

\* The file, the ini file, the process and both writers are opened.
StartUp ==
    /\ main = "start"
    /\ main' = "feed" /\ zgrab' = "running"
    /\ NoFault
    /\ UNCHANGED <<feedVars, ctxDone, in, zgrabWriter, work, lines, worker, out,
                   mergeVars, outRecords, writer, errors, result>>

\* One of them fails; a process already started is shut down.
StartFails ==
    /\ main = "start"
    /\ Fault
    /\ main' = "returned" /\ zgrab' \in {"none", "killed"}
    /\ result' = [result EXCEPT !.status = "error"]
    /\ UNCHANGED <<feedVars, ctxDone, in, zgrabWriter, work, lines, worker, out,
                   mergeVars, outRecords, writer, errors>>

-----------------------------------------------------------------------------
(* feedTargets *)

Feeding ==
    /\ Running /\ feeder.end = "running"
    /\ UNCHANGED <<main, rows, ctxDone, zgrabVars, worker, out, mergeVars, outRecords,
                   writer, errors, result>>

NextRow == [feeder EXCEPT !.row = @ + 1, !.to = 1]
AtTarget == feeder.row <= Len(rows) /\ rows[feeder.row] # NoIP

SkipEmptyRow ==
    /\ Feeding /\ NoFault
    /\ feeder.row <= Len(rows) /\ rows[feeder.row] = NoIP
    /\ feeder' = NextRow
    /\ UNCHANGED in

HasRoom(s) == Len(in[s]) < InputCapacity

\* send: the three channels take the address one after the other.
SendTarget ==
    /\ Feeding /\ NoFault
    /\ AtTarget
    /\ LET s == FeedOrder[feeder.to] IN
       /\ HasRoom(s)
       /\ in' = [in EXCEPT ![s] = Append(@, rows[feeder.row])]
    /\ feeder' = IF feeder.to = Len(FeedOrder) THEN NextRow ELSE [feeder EXCEPT !.to = @ + 1]

\* The other branch of send's select.
FeedStops == AtTarget /\ ctxDone

FeedEnds ==
    /\ Feeding /\ NoFault
    /\ FeedStops \/ feeder.row > Len(rows)
    /\ feeder' = [feeder EXCEPT !.end = IF feeder.row > Len(rows) THEN "ok" ELSE "cancelled"]
    /\ UNCHANGED in

\* The target file cannot be read on; nothing is cancelled.
FeedFails ==
    /\ Feeding /\ Fault
    /\ feeder.to = 1
    /\ feeder' = [feeder EXCEPT !.end = "failed"]
    /\ UNCHANGED in

\* The feeder closes the three channels when it ends.
LeftOpenOnError(s) == in[s] = <<>> /\ feeder.end = "ok"

InputEnds(s) == in[s] = <<>> /\ feeder.end # "running"

-----------------------------------------------------------------------------
(* zgrab2: the writer of its input, and the process itself *)

ReportScannerError ==
    errors' = [errors EXCEPT !.scanner = TRUE] /\ ctxDone' = TRUE

ZGrabbing ==
    /\ Running
    /\ UNCHANGED <<main, feedVars, worker, out, mergeVars, outRecords, writer, result>>

\* A write to a process that ended fails, and the writer leaves its channel alone.
WriteZGrabInput ==
    /\ ZGrabbing /\ NoFault
    /\ zgrabWriter = "writing" /\ in["zgrab"] # <<>>
    /\ in' = [in EXCEPT !["zgrab"] = Tail(@)]
    /\ \/ /\ zgrab = "running" /\ Len(work) < ZGrabSenders
          /\ work' = Append(work, Head(in["zgrab"]))
          /\ UNCHANGED <<zgrabWriter, errors, ctxDone>>
       \/ /\ zgrab # "running"
          /\ zgrabWriter' = Exited
          /\ ReportScannerError
          /\ UNCHANGED work
    /\ UNCHANGED <<zgrab, lines>>

CloseZGrabInput ==
    /\ ZGrabbing /\ NoFault
    /\ zgrabWriter = "writing" /\ InputEnds("zgrab")
    /\ zgrabWriter' = Exited
    /\ UNCHANGED <<ctxDone, in, zgrab, work, lines, errors>>

\* Senders work in parallel: the answers come in any order.
ZGrabAnswers ==
    /\ ZGrabbing
    /\ zgrab = "running" /\ Len(lines) < ResultCapacity
    /\ \E i \in DOMAIN work, parses \in BOOLEAN :
           /\ IF parses THEN NoFault ELSE Fault
           /\ work' = RemoveAt(work, i)
           /\ lines' = Append(lines, IF parses THEN work[i] ELSE NoIP)
    /\ UNCHANGED <<ctxDone, in, zgrab, zgrabWriter, errors>>

\* The process ends with its input, dies by itself, or is killed with the context.
ZGrabEnds ==
    /\ ZGrabbing /\ NoFault
    /\ zgrab = "running"
    /\ \/ zgrabWriter = Exited /\ work = <<>> /\ zgrab' = "ok"
       \/ ctxDone /\ zgrab' = "killed"
    /\ work' = <<>>
    /\ UNCHANGED <<ctxDone, in, zgrabWriter, lines, errors>>

ZGrabDies ==
    /\ ZGrabbing /\ Fault
    /\ zgrab = "running"
    /\ zgrab' \in {"ok", "failed"}
    /\ work' = <<>>
    /\ UNCHANGED <<ctxDone, in, zgrabWriter, lines, errors>>

-----------------------------------------------------------------------------
(* DNSChaosProbe.Run and SNMPProbe.Run *)

Probing ==
    /\ Running /\ NoFault
    /\ UNCHANGED <<main, feedVars, ctxDone, zgrabVars, mergeVars, outRecords, writer,
                   errors, result>>

\* A target taken after the cancellation is thrown away.
TakeTarget(w) ==
    /\ Probing
    /\ worker[w] = Idle /\ in[w[1]] # <<>>
    /\ in' = [in EXCEPT ![w[1]] = Tail(@)]
    /\ worker' = [worker EXCEPT ![w] = IF ctxDone THEN Exited ELSE Head(in[w[1]])]
    /\ UNCHANGED out

Busy(w) == worker[w] \in IPs

\* Exactly one result per target, found or not.
WithResult(w) == Append(out[w[1]], worker[w])

EmitResult(w) ==
    /\ Probing
    /\ Busy(w)
    /\ \/ /\ Len(out[w[1]]) < ResultCapacity
          /\ out' = [out EXCEPT ![w[1]] = WithResult(w)]
          /\ worker' = [worker EXCEPT ![w] = Idle]
       \/ /\ ctxDone
          /\ worker' = [worker EXCEPT ![w] = Exited]
          /\ UNCHANGED out
    /\ UNCHANGED in

WorkerEnds(w) ==
    /\ Probing
    /\ worker[w] = Idle /\ InputEnds(w[1])
    /\ worker' = [worker EXCEPT ![w] = Exited]
    /\ UNCHANGED <<in, out>>

-----------------------------------------------------------------------------
(* merger *)

Merging ==
    /\ Running
    /\ UNCHANGED <<main, feedVars, in, zgrab, zgrabWriter, work, worker, writer, result>>

HasEvidence(ip) == \E s \in Scanners : Banner[ip][s] # NoBanner

\* classifyServices, in the order of the services.
ClassifyServices(ip) ==
    [i \in 1 .. 3 |-> LET found == Banner[ip][<<"zgrab", "snmp", "dns">>[i]] IN
                      IF found = NoBanner THEN NoTag ELSE found]

\* coverageStats.record and recordWithoutEvidence.
RecordCoverage(ip) ==
    LET counted == IF HasEvidence(ip) THEN ResolveTags(ClassifyServices(ip)).status
                   ELSE "without"
    IN  coverage' = [coverage EXCEPT ![counted] = @ + 1]

\* observe: a full buffer is written; an error cancels the run and is kept.
Observe ==
    LET buffer == observed.buffer + 1 IN
    IF observed.err THEN UNCHANGED <<observed, ctxDone>> /\ NoFault
    ELSE \/ /\ observed' = [observed EXCEPT !.count = @ + 1,
                              !.buffer = IF buffer >= ObservationBatch THEN 0 ELSE buffer]
            /\ UNCHANGED ctxDone /\ NoFault
         \/ /\ buffer >= ObservationBatch
            /\ observed' = [count |-> observed.count + 1, buffer |-> 0, err |-> TRUE]
            /\ ctxDone' = TRUE /\ Fault

\* emit, up to the send on the writer's channel.
Emit(s, ip) ==
    /\ RecordCoverage(ip)
    /\ Observe
    /\ IF HasEvidence(ip)
       THEN /\ merging' = [merging EXCEPT ![s] = [at |-> "send", ip |-> ip]]
            /\ UNCHANGED totals
       ELSE /\ totals' = [totals EXCEPT !.dropped = @ + 1]
            /\ UNCHANGED merging

\* The flags that make a record complete.
AnyScanner(flags) == flags # {}

AllScanners(flags) == flags = Scanners

\* integrate: the entry is completed and emitted, or left with one more flag.  Only
\* commuting steps of other goroutines fit between the unlock and emit.
Integrate(s, ip) ==
    LET flags == pendings[ip] \cup {s} IN
    IF AllScanners(flags)
    THEN /\ pendings' = [pendings EXCEPT ![ip] = {}]
         /\ Emit(s, ip)
    ELSE /\ pendings' = [pendings EXCEPT ![ip] = flags]
         /\ UNCHANGED <<ctxDone, merging, totals, coverage, observed>> /\ NoFault

Integrating(s) ==
    /\ Merging
    /\ merging[s].at = "range"
    /\ UNCHANGED outRecords

IntegrateUDP(s) ==
    /\ Integrating(s)
    /\ s \in UDPScanners /\ out[s] # <<>>
    /\ out' = [out EXCEPT ![s] = Tail(@)]
    /\ Integrate(s, Head(out[s]))
    /\ UNCHANGED <<lines, errors>>

\* A line that does not parse is skipped.
IntegrateZGrab ==
    /\ Integrating("zgrab")
    /\ lines # <<>>
    /\ lines' = Tail(lines)
    /\ IF Head(lines) = NoIP THEN UNCHANGED <<ctxDone, mergeVars>> /\ NoFault
       ELSE Integrate("zgrab", Head(lines))
    /\ UNCHANGED <<out, errors>>

StreamEnds(s) ==
    IF s = "zgrab" THEN lines = <<>> /\ zgrab # "running"
    ELSE out[s] = <<>> /\ \A w \in ProbeWorkers : w[1] = s => worker[w] = Exited

EndOfStream(s) ==
    /\ Integrating(s) /\ NoFault
    /\ StreamEnds(s)
    /\ merging' = [merging EXCEPT ![s].at = "done"]
    /\ UNCHANGED <<ctxDone, lines, out, pendings, totals, coverage, observed, errors>>

\* The output of zgrab2 cannot be read on.
ParseFails ==
    /\ Integrating("zgrab") /\ Fault
    /\ merging' = [merging EXCEPT !["zgrab"].at = "done"]
    /\ ReportScannerError
    /\ UNCHANGED <<lines, out, pendings, totals, coverage, observed>>

SendRecord(s) ==
    /\ Merging /\ NoFault
    /\ merging[s].at = "send" /\ Len(outRecords.queue) < OutCapacity
    /\ outRecords' = [outRecords EXCEPT !.queue = Append(@, merging[s].ip)]
    /\ totals' = [totals EXCEPT !.emitted = @ + 1]
    /\ merging' = [merging EXCEPT ![s] = Ranging]
    /\ UNCHANGED <<ctxDone, lines, out, pendings, coverage, observed, errors>>

-----------------------------------------------------------------------------
(* drainWriter and Writer *)

Writing ==
    /\ Running
    /\ UNCHANGED <<main, feedVars, in, zgrabVars, worker, out, mergeVars, errors, result>>

AppendRecord ==
    /\ Writing
    /\ outRecords.queue # <<>>   \* emptied after an error too
    /\ outRecords' = [outRecords EXCEPT !.queue = Tail(@)]
    /\ LET batch == Append(writer.batch, Head(outRecords.queue)) IN
       IF writer.err THEN UNCHANGED <<writer, ctxDone>> /\ NoFault
       ELSE IF Len(batch) < BatchSize
       THEN writer' = [writer EXCEPT !.batch = batch] /\ UNCHANGED ctxDone /\ NoFault
       ELSE \/ /\ writer' = [writer EXCEPT !.batch = <<>>, !.written = @ \o batch]
               /\ UNCHANGED ctxDone /\ NoFault
            \/ /\ writer' = [writer EXCEPT !.batch = batch, !.err = TRUE]
               /\ ctxDone' = TRUE /\ Fault

WriterEnds ==
    /\ Writing /\ NoFault
    /\ ~writer.done /\ outRecords.queue = <<>> /\ outRecords.closed
    /\ writer' = [writer EXCEPT !.done = TRUE]
    /\ UNCHANGED <<ctxDone, outRecords>>

-----------------------------------------------------------------------------
(* The end of runPipeline *)

Ending == UNCHANGED <<feedVars, ctxDone, in, zgrabVars, worker, out, merging, pendings,
                      totals, coverage>>

WaitFeeder ==
    /\ Ending /\ NoFault
    /\ main = "feed" /\ feeder.end # "running"
    /\ main' = "scanners"
    /\ UNCHANGED <<observed, outRecords, writer, errors, result>>

\* scannerWg: the writer of the input, the drain of stderr and the integrators.
ScannersDone ==
    /\ zgrabWriter = Exited /\ zgrab # "running"
    /\ \A s \in Scanners : merging[s].at = "done"

\* Then the process is waited for, or shut down, and outRecords is closed.
WaitScanners ==
    /\ Ending /\ NoFault
    /\ main = "scanners" /\ ScannersDone
    /\ errors' = [errors EXCEPT !.zgrab = zgrab # "ok"]
    /\ outRecords' = [outRecords EXCEPT !.closed = TRUE]
    /\ main' = "writer"
    /\ UNCHANGED <<observed, writer, result>>

\* Writer.Close and the last write of the observations; each may fail.
CloseFiles ==
    /\ Ending
    /\ main = "writer" /\ writer.done
    /\ main' = "report"
    /\ \E closes, observes \in BOOLEAN :
          /\ IF closes /\ observes THEN NoFault ELSE Fault
          /\ IF closes
             THEN writer' = [writer EXCEPT !.batch = <<>>, !.written = @ \o writer.batch]
             ELSE UNCHANGED writer
          /\ errors' = [errors EXCEPT !.close = ~closes]
          /\ observed' = [observed EXCEPT !.buffer = 0, !.err = @ \/ ~observes]
    /\ UNCHANGED <<outRecords, result>>

\* The errors in the order in which they are looked at.
ObservationsIncomplete == observed.err \/ observed.count # Len(rows)

StageFailedUnclosed ==
    writer.err \/ errors.scanner \/ feeder.end = "failed" \/ ctxDone \/ errors.zgrab

StageFailed ==
    \/ writer.err \/ errors.scanner \/ feeder.end = "failed" \/ ctxDone
    \/ errors.zgrab \/ errors.close

TargetsMissing ==
    \/ \E ip \in IPs : pendings[ip] # {}
    \/ totals.emitted + totals.dropped # Len(rows)

Report ==
    /\ Ending
    /\ main = "report"
    /\ main' = "returned"
    /\ IF ObservationsIncomplete \/ StageFailed \/ TargetsMissing
       THEN result' = [result EXCEPT !.status = "error"] /\ NoFault
       ELSE \/ result' = [status |-> "ok", coverageFile |-> TRUE] /\ NoFault
            \/ result' = [result EXCEPT !.status = "error"] /\ Fault  \* coverage.write fails
    /\ UNCHANGED <<observed, outRecords, writer, errors>>

\* SIGINT or SIGTERM; a second one changes nothing.
Interrupt ==
    /\ Running /\ NoFault
    /\ ctxDone' = TRUE
    /\ UNCHANGED <<main, feedVars, in, zgrabVars, worker, out, mergeVars, outRecords,
                   writer, errors, result>>

Returned == main = "returned" /\ UNCHANGED vars

-----------------------------------------------------------------------------
FeederStep == SkipEmptyRow \/ SendTarget \/ FeedEnds
ZGrabInputStep == WriteZGrabInput \/ CloseZGrabInput
ZGrabStep == ZGrabAnswers \/ ZGrabEnds
WorkerStep(w) == TakeTarget(w) \/ EmitResult(w) \/ WorkerEnds(w)
MergeStep(s) ==
    \/ IF s = "zgrab" THEN IntegrateZGrab ELSE IntegrateUDP(s)
    \/ EndOfStream(s) \/ SendRecord(s)
WriterStep == AppendRecord \/ WriterEnds
MainStep == StartUp \/ WaitFeeder \/ WaitScanners \/ CloseFiles \/ Report

Progress ==
    \/ FeederStep \/ ZGrabInputStep \/ ZGrabStep \/ WriterStep \/ MainStep
    \/ \E w \in ProbeWorkers : WorkerStep(w)
    \/ \E s \in Scanners : MergeStep(s)

Next ==
    \/ Progress \/ StartFails \/ FeedFails \/ ZGrabDies \/ ParseFails \/ Interrupt
    \/ Returned

Spec == Init /\ [][Next]_vars

\* Some goroutine that can run does, and zgrab2, whose connections have timeouts, answers;
\* failures and interrupts need not happen.
FairSpec == Spec /\ WF_vars(Progress)

-----------------------------------------------------------------------------
(* Properties *)

TypeOK ==
    /\ main \in {"start", "feed", "scanners", "writer", "report", "returned"}
    /\ rows \in Inputs /\ ctxDone \in BOOLEAN
    /\ feeder \in [row : 1 .. Len(rows) + 1, to : 1 .. 3,
                   end : {"running", "ok", "cancelled", "failed"}]
    /\ \A s \in Scanners : in[s] \in Seq(IPs) /\ Len(in[s]) <= InputCapacity
    /\ zgrab \in {"none", "running", "ok", "failed", "killed"}
    /\ zgrabWriter \in {"writing", Exited}
    /\ work \in Seq(IPs) /\ lines \in Seq(IPs \cup {NoIP})
    /\ worker \in [ProbeWorkers -> IPs \cup {Idle, Exited}]
    /\ \A s \in UDPScanners : out[s] \in Seq(IPs) /\ Len(out[s]) <= ResultCapacity
    /\ \A s \in Scanners : merging[s].at \in {"range", "send", "done"}
    /\ pendings \in [IPs -> SUBSET Scanners]
    /\ outRecords.queue \in Seq(IPs) /\ Len(outRecords.queue) <= OutCapacity
    /\ writer.batch \in Seq(IPs) /\ Len(writer.batch) <= BatchSize
    /\ result.status \in {"running", "ok", "error"}

\* README.md: "Compatible service tags select the most specific tag, while conflicting
\* tags remain explicit as ambiguous."  The loop of resolveTags compares each tag only with
\* the one selected so far; whatever the order of the services, it resolves a host exactly
\* when any two of its tags are compatible, and to the tag below all others.
ResolvesMostSpecific ==
    main = "start" =>
        \A serviceTags \in [1 .. 4 -> Tags \cup {NoTag}] : MostSpecific(serviceTags)

Times(ip, seq) == Cardinality({i \in DOMAIN seq : seq[i] = ip})
DistinctTargets == \A i, j \in DOMAIN rows : rows[i] = rows[j] => i = j

\* A run that returns without error accounts for every target of its file, duplicates
\* included: the evidence file holds each one that has evidence and no other, coverage and
\* observations count them all, and coverage agrees with the rows of the file.
SuccessAccounts ==
    result.status = "ok" =>
        /\ \A ip \in IPs :
               Times(ip, writer.written) = IF HasEvidence(ip) THEN Times(ip, rows) ELSE 0
        /\ coverage.resolved + coverage.ambiguous + coverage.unclassified
               = Len(writer.written)
        /\ coverage.without + Len(writer.written) = Len(rows)
        /\ observed.count = Len(rows)

Records == writer.written \o writer.batch \o outRecords.queue

\* No host gets a second record on its way through three concurrent streams, in runs
\* that fail as in runs that succeed.
OneRecordPerHost ==
    DistinctTargets => \A ip \in IPs : Times(ip, Records) <= 1

OnItsWay(s, ip) ==
    \/ feeder.row <= Len(rows) /\ rows[feeder.row] = ip
         /\ \E i \in feeder.to .. 3 : FeedOrder[i] = s
    \/ Times(ip, in[s]) > 0
    \/ IF s = "zgrab" THEN Times(ip, work) + Times(ip, lines) > 0
       ELSE \/ Times(ip, out[s]) > 0
            \/ \E w \in ProbeWorkers : w[1] = s /\ worker[w] = ip

\* merger.go: "Every scanner emits exactly one completion per target, so the pending map
\* stays bounded by pipeline latency."  As long as nothing has failed, a host is in the map
\* only while its missing results are under way in a bounded stage of the pipeline.
PendingOnlyInFlight ==
    (DistinctTargets /\ faults = 0 /\ ~ctxDone) =>
        \A ip \in IPs : pendings[ip] # {} =>
            \A s \in Scanners \ pendings[ip] : OnItsWay(s, ip)

\* No record is sent on the closed channel, and the process is gone when the run returns.
OrderlyEnd ==
    /\ outRecords.closed => \A s \in Scanners : merging[s].at = "done"
    /\ main = "returned" => zgrab # "running"

\* Hosts pass the pipeline in an orderly way, failing or not: no more of them are held than
\* the stages have room for, each is merged once, and the stages end after those that feed
\* them.
PipelineSound == TypeOK /\ OneRecordPerHost /\ PendingOnlyInFlight /\ OrderlyEnd

\* runPipeline returns, whichever stage fails and whenever it is interrupted.
PipelineReturns == <>(main = "returned")
=============================================================================
