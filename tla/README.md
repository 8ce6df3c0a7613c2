# TLA+ verification of ipid-measure

ipid-measure probes Internet hosts and records the IP identification field of
their replies. This directory holds TLA+ models of its core, TLC configurations
that check them on small instances, and TLAPS proofs for all instances. Every
definition is a translation of the Go source; `PROJECT.json` maps each one to the
lines it stands for, lists the runs, the mutants that show each property can
fail, the findings, the hazards and the theorems.

## The system

| component | state it keeps | operations | meets others through |
|---|---|---|---|
| probe (`ipid/probe/probe.go`, `base.go`) | verdict, samples, TCP acknowledgments, ACK queue | `MeasureTarget`, its waits, `FulfillReply` | worker and receivers share a probe under `p.mu`; limiter; `SaveProbesChannel` |
| in-flight registry (`ipid/probe/inflight.go`) | target -> entry, sharded | `Register`, `Deregister`, `Lookup` | worker writes, receivers read |
| receivers (`ipid/receiver`) | capture socket, decoder | `Receive`, `process` | look up an entry, then judge the reply |
| rate limiter (`ipid/sender/ratelimit.go`) | tokens, time of last refill, stopped | `AcquireUntil`, `Stop` | all workers; a probe's `failed` channel; cleanup |
| run (`ipid/measurement`) | `StopSignal`, first error, wait groups | `Run`, `Fail`, `cleanup` | starts and stops everything |
| stream and workers (`ipid/worker`) | `targets` channel | `StreamZMapToWorkers`, `proberLoop` | channel, `StopSignal` |
| saver (`ipid/probe/save.go`) | batch, parquet writer, failed flag | `Save`, `saveInterProtocol` | `SaveProbesChannel`, `Fail` |
| sampling (`internal/zmapsample`, `cmd/sample-zmap`) | counters, the sample and metadata files | `WriteUniformSample`, `validateExisting` | files that survive a crash |
| ZMap stage (`zmap/`, `cmd/measure-zmap`) | seen addresses, batches, counter | `Run`, parser, writer, upload | a pipe to the external `zmap` process, signals |
| OS pipeline (`os/`) | pending hosts, coverage, observations | scanners, merger, writer, classifier | channels, the `zgrab2` process, a shared context |
| continental runner (`internal/continental`) | `state.json`, completion markers, clean-up receipts | `Run`, `runProtocol`, `measure`, `committed`, `cleanupMeasurement` | object store, measuring processes |
| publication store (`internal/continental/store.go`) | objects of a campaign | `Immutable`, `GetFile`, archive of a failure | controllers of all machines, the OS worker, the analysis |
| shared OS worker (`osworker.go`, `enrichment.go`, `os_failure.go`) | workspace with pinned request, targets and scans | `RunOS`, `RunOSEnrichment`, `runOSScan` | store, scanning processes that may outlive it |
| hand-offs (`internal/analysisworkflow`, `postprocessworkflow`, `interprotocolworkflow`) | requests and completions in the store | publish, poll, download | object store |
| the rest (packets, checksums, stats, configuration, paths, commands) | none that matters here | formatting and parsing | |

What is hard about it: a probe is driven by one worker and judged by two
receivers while an interrupt, a timeout and the rate limiter race with both; the
shutdown closes channels and sockets in an order nobody tests exhaustively; the
command-line stages leave files behind when they are killed and pick them up in
later runs; the continental runner resumes across crashes of itself and of the
processes it starts, with a file system and an object store in between; the
machines of a campaign only know one another through objects whose put may be
reported as failed although it succeeded. The hazards in `PROJECT.json` name the lines.

What makes each part correct, in a sentence: a probe is saved only when complete
and accounted for under exactly one reason; the limiter never exceeds its rate and never
keeps a caller; a run that reports success wrote every valid probe; a sample is
exact, uniform and belongs to the request it is used for; a campaign step is
settled once, with a measurement whose data is in the object store; what a
controller publishes stands on committed data, and operators who retry get a
campaign to its end; a ZMap or OS stage that reports success accounts for every
responder or target and leaves no process behind.

## Modules

`StrictProbe` models one strict (4 x 4 "Base") probe. Everything a goroutine does
under `p.mu` is one action, so actions interleave exactly where the code unlocks.
The worker's program counter `pc` follows `measureBaseRT` or
`measureFixedInterval` (constant `MeasurementMode`): `Prepare`
(`prepareTCPPacket`), `LimiterGrant`/`LimiterRefuse` and `SendPacket`
(`sendPacket`, the limiter and the locked part apart), the four selects
`WaitForBaseReply`, `WaitInterval`, `WaitForTCPHandshakes` and
`WaitForFixedReplies`, then `FinishFixedProbe`, `Complete`, `Save`, and the
deferred `Deregister`, `ResetTCPConnections` and `Return`. A receiver takes two
steps, `Lookup` and `FulfillBaseReply`; between them it holds an entry that may
be out of date. Replies are abstracted to the request they name, whether the checks
find a defect, all of which fail the probe alike, and whether they carry TCP payload;
acknowledgment numbers count one unit per SYN and per payload. Timers may fire whenever they are waited
for. `TriggerStop` and `StopRateLimiter` are the shutdown. `drops` is every increment
of a drop counter for the target: the reason why it failed and, whatever its verdict,
one for each cleanup reset that cannot be built, is refused or fails at the socket
(`ResetFails`).

`LooseProbe` models all other probes: `measureRTBased` and
`measureFixedInterval` with a shape other than 4 x 4, stateless or over
connections, and both interprotocol modes; `config` says which. There is no lock
and no verdict, so a receiver's step is a single atomic operation of
`FulfillReply` (`Lookup`, `TryFill`, `StoreReply`, `AcceptSYNACK` in its three
steps, `CountValid`) and the saver reads one sample per step (`ReadSample`), while
receivers may still fill them. Several workers (`Probers`) probe one address, so
that `Register` displaces entries. A reply belongs to the probe whose port it
carries; where the protocol has none it may be taken for the other's. `counted` is every
increment of a drop counter; the history variables `timedOut` and `resetFailed`, which
no guard reads, note which of them were for a request that `measureInterProtocolRT`
went on without (`Miss`) or for a reset that was not sent.

`SeqNum` is the arithmetic by which a TCP reply names its request, in words of
`WordSize` numbers. `MeasureTarget` composes the three: `strict` decides, as the
function of that name does, which kind of probe a behaviour is about, and the
properties of loose probes are stated there.

`RateLimiter` models `AcquireUntil` in the pieces between two unlocks of `rl.mu`,
`Stop`, the failure of the caller's probe (`Cancel`) and time (`Tick`). Tokens are
integers and a packet costs `PacketCost` units, so that fractions of a packet per
tick exist. The ghost `window` observes an interval that begins at any moment.

`MeasurementRun` models `Run`: stream, workers, saver, interrupt, `Fail` and
`cleanup`, with the bounded channels between them. A probe is one step here that
ends valid or dropped; `StrictProbe` says what happens inside, and in particular
(`SavedComplete`) that `probeToRecord` never meets an incomplete RT probe, so
the saver writes every probe it receives (`RTRecordFull` says the same of a loose
one). `writeFailed` is `Save`'s `failed` flag
and also records a failed close, which the code reports through `Fail` alone.

`UniformSample` models `sample-zmap`: the counting pass, the sampling pass, the
accounting check, the rename of the sample and of its metadata, and their reuse.
Each pass may end early (a read that returns no row), any step may fail, and the
process may be killed anywhere; `MaxRuns` runs follow one another over the same
files. The ghost `likelihood` multiplies the probabilities of the draws.

`ScopedMeasure` models one machine of a continental campaign: the controller
(`pc` walks through `measure`: `ReadMarker` and `Verify` are `committed`,
`CleanupMeasurement` its last call, `ArchiveAttempt`, `PlanStep`, `Launch` and
`Execute` the rest, `Adopt` its return) and the measuring process it starts
(`Child`: directory, `measurement.Run`, `syncToS3`, `WriteCompletion`, put of the
marker). Either stops anywhere. After `Start` the controller knows only what
`state.json`, the directories, the receipts and the store tell it; the lock file
keeps it alone, but a process of its predecessor may still run. A put may get
through although it is reported as failed, a sync in part. The clock yields any
stamp, so it may stand still or go back. Contents are abstracted to `partial`,
`full` and `freed`, and evidence to the content it was taken of. Processes crash,
the machine does not: `AtomicJSON` does not sync, so a power failure could lose
`state.json`. `CampaignSteps` is what the runner promises: steps settled in
order, each once, with an identity of its own. `ScopedMeasure` implements it
(`AdoptsOnce`).

`CampaignStore` is the object store of one campaign and site: the names that
exist, and `campaign.json`, the one object whose content publishers may disagree
about. `ProtocolControllers` models `Run` on the machines of a campaign, one per
protocol (deployment `parallel`) or one for all (`site`). A controller's program
is the sequence of its measurements, publications, samplings, hand-offs and waits
(`Programs`, built by operators such as `Ipid`, `LocalReferences` and `RunProtocol`,
named after the functions they stand for); `at` is how far this run has got. A
restarted controller walks through its program from the beginning, and what is
already committed or published is found and not repeated. `ReadPolicy`,
`PutPolicy` and `VerifyPolicy` are the three parts of `Immutable` for
`campaign.json`, `Layout` the check for the other kind of campaign, `Admit` the
look at failed and done markers; `RequestHandoff`, `PollFailed` and `PollDone` are
the analysis hand-off, whose downloads may be cut short; `WaitProtocols` and
`WaitForReadiness` are the waits for other machines. A fault (`OperationFails`,
`Interrupt`) may come before or after the effect of the operation; a failing
controller publishes its failure (`PublishProtocolFailure`). Each measurement is
one step here; `ScopedMeasure` is its inside. `RetryScanFailure` archives a failure
and deletes it in one step: the archived copy is read by nobody, and a stop between the
two leaves the failure recorded.

`SharedOS` models the OS worker: its polls (`PollRequest`, `PollEnrichment`),
`runOSScan` (`Pin`, `StatTarget`, `CheckTarget`, `PlanScan`, `StatComplete`,
`StatOutput`, `Launch`, `ScanReturns`, `PutFile`, `PublishDone`), the failure it
publishes, and the scanning processes, which may outlive it (`CreateOutput`,
`EndScan`). The request may be replaced and the target truncated. `StatOutput` moves an
attempt away and records the next identity in one step; a crash between the rename and
`scan.json`, after which the old identity is launched again, is not modelled. `GeoCampaign`
puts controllers and worker over one store; since they share only
`campaign.json`, which is settled before the worker has a request, a behaviour is
of either kind.

`ZMapStage` models `measure-zmap`: `zmap` (external) writes lines into a bounded
pipe, repeats rows of a TCP scan, writes malformed ones, dies, also in the middle
of a line; `Run` reads, de-duplicates, batches, stops at the limit, waits, closes
and reports; `Signal` may arrive at any moment.

`OSPipeline` models `runPipeline` with each goroutine and channel: feeder, the
`zgrab2` process with its writer and reader, DNS and SNMP workers, three merging
goroutines, writer and observations, which are always on here and only with
`RecordTargetStatus` in the code: without them a run has fewer ways to fail. `Banner` fixes what a scanner finds.
`OSClassifier` has the decision over the tags of a host's services, beside the
reference definition it is compared with.

The `MC` modules add symmetry sets where a run uses them; the `Proofs` modules hold the theorems.

## Runs

| run | instance | checks |
|---|---|---|
| `probe_rt` | strict RT probe over TCP, 2 connections x 2 requests, 2 receivers; or two loose probes of one address, 1 x 2, 1 receiver, every configuration | `OneOutstanding`, `ProperConversation`, `RepliesAttributed`, `LooseSound`, `SilentAfterVerdict` |
| `probe_fi` | strict fixed-interval probe over TCP, 2 x 2, 1 receiver; or one loose probe, 2 x 2, 2 receivers, 3 replies wanted; fair workers | `SavedComplete`, `CountedOnce`, `NoConnectionLeaked`, `ProperConversation`, `AckQueueFits`, `LooseSound`, `FrozenResult`, `Termination` |
| `limiter_rate` | 2 callers, 3 frames each, some above the byte burst, at a rate whose burst holds a packet and one whose burst does not, window of 3 ticks, fair time | `PacketRateRespected`, `NoGrantAfterStop`, `CallsReturn` |
| `limiter_slow` | one frame, packet burst below one packet, fair time | violates `AcquireReturns` |
| `measurement_run` | single-protocol or interprotocol, 4 rows, 2 workers, channels of 1, batches of 2, fair goroutines | `CompleteOnSuccess`, `OrderlyShutdown`, `RunReturns` |
| `os_pipeline` | a file of 2 hosts, one with conflicting tags and one without evidence, one with a host twice, and one with an empty row; one fault besides an interrupt, fair goroutines | `ResolvesMostSpecific`, `SuccessAccounts`, `PipelineSound`, `PipelineReturns` |
| `measure_steps` | 2 steps, the second with clean-up, 3 attempts, all flags | `IdentityUsedOnce`, `NothingLost`, `NoFalseAlarm`, `AdoptsOnce` (refines `CampaignSteps`) |
| `sample_filter` | all filtered sources of up to 7 rows, 3 runs, three percentages, a minimum of 2, all draws | `PublishedExact`, `UsableSample`, `DrawsFromRows`, `Uniform` |
| `sample_rerun` | 2 rows, 2 runs | violates `RerunResumes` |
| `zmap_stage` | 3 addresses, 5 lines, pipe and batches of 2, limit of 2 or none, the three payloads, fair command and zmap | `SuccessComplete`, `RowsSound`, `ExitJudged`, `RunReturns` |
| `campaign` | 2 protocols, 1 repeat, 1 group; 1 fault with a machine per protocol, 2 with one for the site, 3 with the OS worker and its 7 scans; fair machines, analysis and operators | `PublishedSound`, `CampaignAgreed`, `OSVerdictSound`, `FailureHolds`, `Finishes` |
| `campaign_retry` | the same | violates `FailureRetryable` |

Some invariants are conjunctions of named parts, each stated with a comment in the
module:

| invariant | parts |
|---|---|
| `ProperConversation` | `HandshakeAcknowledged`, `HandshakeBeforeData`, `PayloadAcknowledged` |
| `LooseSound` | `RecordWhole`, `RTRecordFull`, `RateKept`, `CountedReceived`, `EntryServed`, `LooseCounted`, `MissesCounted`, `LooseHandshake`, `AcknowledgedReset` |
| `CallsReturn` | `AcquireReturnsAtRate`, `ReleasedByStop` |
| `OrderlyShutdown` | `TypeOK`, `NoSendOnClosed`, `ResourcesOutliveProbes` |
| `PipelineSound` | `TypeOK`, `OneRecordPerHost`, `PendingOnlyInFlight`, `OrderlyEnd` |
| `NothingLost` | `TypeOK`, `AdoptedDurable`, `FreedCovered` |
| `RowsSound` | `TypeOK`, `GenuineRows` |
| `ExitJudged` | `CrashReported`, `LimitSucceeds`, `NothingLeftRunning` |
| `PublishedSound` | `PublishedBacked`, `FinalComplete`, `VerifiedTargets` |
| `CampaignAgreed` | `TypeOK`, `OneLayout`, `PolicyAgreed` |
| `OSVerdictSound` | `OSDoneDurable`, `OneVerdict`, `NoOSWithoutRequest`, `ClosedKept` |
| `Finishes` | `CampaignFinishes`, `OSFinishes` |

The type invariants of `StrictProbe`, `RateLimiter` and `UniformSample` are part of
what is proved and need no run.

Bounds. Two connections with two requests each give every kind of step: opening
and data requests of the same and of another connection, ACKs queued in either
order. Two receivers are what the program starts; with one receiver in the strict
half of `probe_fi` the replies still interleave with every step of the worker, and
`probe_rt` and the proofs have more. Two loose probes of one address displace each
other in both directions and are alike, so that they are a symmetry set; they have one
connection there, with a data request, and a single loose probe over two connections is
in `probe_fi`. A word of 16 numbers
leaves room for 11 offsets of a 2 x 2 probe; the theorem is about every size. In
`limiter_rate` three frames per caller drain the bucket and meet it refilled, and
uncredited time is capped at `MaxElapsed`, which fills any bucket. In
`measurement_run` there are more rows than workers and channel slots, and the last
batch may be partial. In `os_pipeline` two targets fill every channel of capacity
one, and a second fault could only meet a pipeline that is already stopping. In
`measure_steps` three stamps leave one attempt more than there are steps, so that
an orphan of the first attempt can meet its successor; restarts are not bounded.
The seven rows of `sample_filter` include samples of one, several and most rows;
larger ones only repeat the recurrence. In `zmap_stage` five lines are a header,
two responders, a repeated or malformed one and one beyond the limit, in a pipe
that is full at two. In `campaign` the protocols are `udp`, whose controller waits
for the others and finishes the site, and one that does not; faults are errors,
interrupts, failed analyses and truncated transfers, and seven scans are more than
three faults can use up.

Fairness. `MeasureTarget`: weak fairness of each worker, which always has an
enabled step because each select has a timer, the limiter grants or refuses
(`RateLimiter`'s own liveness, for rates whose burst holds a packet) and the saver
drains its channel (`MeasurementRun`). In `RateLimiter`, time passes and
the timer of a waiting caller fires; no caller is obliged to call. In
`MeasurementRun` and `OSPipeline` goroutines are scheduled, and `zgrab2`, whose
connections have timeouts, answers; interrupts, errors and drops are never obliged
to happen. In `ZMapStage` the command runs, an undisturbed zmap goes on, and one
that was told to stop ends, because the runner kills it after `WaitDelay`. In
`GeoCampaign` controllers and the worker run, the analysis answers and repeats
what failed, and an operator starts again what stopped, with the flags the
messages ask for; faults are bounded, so `CampaignFinishes` and `OSFinishes` say
that finitely many of them never leave a state without a way on. Sockets and disk
operations are taken to return.

Deadlock is checked everywhere but in `zmap_stage`, whose command ends.

### Findings

* `limiter_slow`: only the byte burst is adapted to an oversize frame
  (`ratelimit.go:75`). With fewer than ten packets per second, which the
  configuration accepts, the packet burst of 100 ms is below one packet and the
  first packet waits until the limiter is stopped.
* `sample_rerun`: `sample-zmap` killed between the two renames leaves a sample
  without metadata, and every later run is refused, while
  `docs/continental-workflow.md:182` says that rerunning the same command resumes.
* `campaign_retry`: a controller whose `controller/done.json` is stored but cannot
  be read back fails, and `PublishProtocolFailure` puts `failed.json` beside it
  without looking for a completion (`parallel.go:19`; `PublishOSFailure` does
  look). From then on a run without `--retry-failed` asks for that flag and a run
  with it is refused because the job is completed, while
  `docs/parallel-geographic.md:51` gives the flag as the way on. In the campaign
  all data is published by then, so `CampaignFinishes` holds.

## Proofs

The assumptions on the constants are the only hypotheses: `StrictProbeAssumption`,
`LooseProbeAssumption`, `WordSizeAssumption`, `RateLimiterAssumption`,
`MeasurementRunAssumption`, `UniformSampleAssumption`, `ZMapStageAssumption`,
`OSClassifierAssumption`, `OSPipelineAssumption`, `ScopedMeasureAssumption`,
`CampaignStoreAssumption` and `SharedOSAssumption`, each stated in the module that
declares the constants. They give types and sizes that are not zero, say that probes,
workers and tags are finitely many, and keep apart what the code keeps apart: the
marks `unset` and `missing` in a record are no probes, the empty row and the values
`idle` and `exited` of a worker no addresses, and no tag is empty or the mark of a
conflict. Those with more to them say that a run has a worker, that `udp` is among
the protocols and that no protocol is called `site`, `os`, `reference`, `request` or
`group`, the other first parts of object names. TLC evaluated each inductive invariant
on the instances above before it was proved, with the witness of an existential
looked for among the orders of up to three hosts (`HistoryInv`) and the places of the
lines in the pipe (`OrderInv`).

Every safety property of the passing runs is the subject of a theorem.

* `MeasureTargetProofs`, for any number of connections, requests, workers and
  receivers. The first of its three parts is about the strict probe.
  `IInv` conjoins `TypeOK` with five parts. `VerdictInv` ties status, counters and
  the worker's place together: a worker that cleans up has a decided probe, so the
  deferred `fail(nil)` counts nothing; the failed resets are taken off the count, and
  `UntriedInv`, by which the connections that are still to come have no result yet, makes
  each of them count once. `CountedOnce` follows. `RTInv` says that
  all requests before `seqNum` are answered, none after it is sent, and a token on
  `replyReady` stands for the current request; `OneOutstanding` follows, and
  without the part on the token it is not inductive. `CompleteInv` carries "all
  replies received" from the test to the save; the verdict is needed because
  receivers run meanwhile. `ResetInv` is the loop invariant of
  `resetTCPConnections`; it holds because no SYN-ACK is accepted once the probe is
  decided. `FrozenResult` and `SilentAfterVerdict` are step properties that follow
  from `VerdictInv` and the guards under the lock.

  `CInv` adds the conversation on the wire. `OrderInv` and `RouteInv` relate what has
  been sent, and where a packet leads the worker back to, to the worker's place.
  `QueueInv` bounds the queued ACKs by the answered requests, so that the queue never
  blocks a receiver (`AckQueueFits`). `AckInv` says that a connection is owed an ACK
  or its last one is not stale, the one on its way to the socket included;
  `HandshakeAcknowledged` and `PayloadAcknowledged` need it. `ReadyInv` connects a
  connection that is ready to its answered opening request (`HandshakeBeforeData`).

  The second part is about sequence numbers, for every word size. The
  request index is split by division (`SplitIndex`), connection and request
  together stay below the number of requests (`SumBound`), and `Run` draws the
  offset at least that far and two more from the end of the word; so no number
  wraps (`NoWrap`) and both directions are inverse.

  The third part proves `LooseSound` from `LooseInv`, which has no lock to lean on.
  `OwnerInv` is what replaces it: a sample that was swapped to pending belongs to one
  receiver until that has counted it, and a receiver that holds a reply with ports
  holds one to the entry's own probe; `ContentInv` says the same of what has been
  stored, and with both a record is whole. `UnsentInv` keeps samples after the loop
  variable empty, so that no late reply can fill a request that is still to come.
  `SettledInv` bounds an entry's count by the received samples whose receivers are
  done with them; that is why a worker that was woken by the count finds its replies
  (`AnsweredInv` in RT mode, `Kept` and `KeptInv` for the minimum of a fixed-interval
  probe, in which a position of the record that has been read and a sample that is
  still to be read count alike, since samples are only ever filled). `ServedInv` says
  that a worker that waits is in the registry or was displaced, never forgotten.
  `ChannelInv` follows a connection from its SYN-ACK through the channel to its ACK;
  `FixedHandshakeInv` and, for the only RT probe of an address, `AloneInv` conclude
  that data is only sent on acknowledged connections, and `LooseResetInv` is the loop
  invariant of the resets. `LooseCountedInv` says of each worker that what it has
  counted for a reason of its own is nothing before it leaves its loop, and one or a
  hand-over after; `TalliedInv`, that a timeout is noted of a request the loop is past
  and a failed reset of a connection the cleanup is past, so that noting it again is
  impossible and counter and notes stay in step. `MissedInv` follows a request of the
  inter-protocol schedule from the end of its wait to the hand-over (`MissesCounted`).
* `RateLimiterProofs`, for all rates, bursts, frames and windows. `BudgetInv`
  bounds the packets granted in the window plus the tokens a refill would find
  now, rather than those in the bucket: time from before the window may be
  credited within it. `NoGrantAfterStop` is a step property; `TryAcquireRefuses` is
  the fact about a pass of the loop of `AcquireUntil` that it rests on.
* `MeasurementRunProofs`, for any rows, workers, capacities and batches.
  `ShutdownInv` orders the closing of channels, sockets and limiter by `main`'s place,
  from which `OrderlyShutdown` follows; a send on a closed channel is excluded because
  a channel is closed only after all its senders have exited. `CompleteOnSuccess`
  needs every row accounted for: `QueueInv` and `HolderInv` say that a row that is
  queued is in the channel or with exactly one worker, `FateInv` that rows are
  interrupted only by a stop, and `ResultInv` that the valid rows are exactly those
  written, batched or on their way to the saver while no error has occurred. None of
  them is inductive alone: a worker that holds a row no channel has justifies the
  row's fate, and `SignalInv` says that workers exit early only after the stop.
* `ZMapStageProofs`, for all addresses, limits, pipes and batches. `PipeInv` says
  where in the pipe a broken line can be, `RowsInv` that what has been read is genuine
  and, de-duplicated, is in `seen`; `CounterInv` is the loop invariant of the reader.
  `CancelInv` gives every cancellation its cause, which is what tells the exit
  that `Run` may take for success from a crash (`ExitJudged`). `SuccessComplete`
  rests on `OrderInv`: while nothing is lost, each line of the pipe has its place among
  the rows zmap has found, and the rows written are the first occurrences among those
  that have left the pipe. The first occurrences are a recursive function of the rows;
  what is true of its values (`TableFacts`) is not shown by induction over them but
  kept as an invariant while `found` grows by a row. `EndInv` adds that a scan that ends
  unharmed has emptied the pipe or reached the limit, and that `Close` empties the batch.
* `UniformSampleProofs`, for all sources, percentages, minima and histories of
  runs. `PassInv` has the loop invariant of the second pass, whose counters run
  into the negative together when the pass yields more rows than were counted;
  that keeps `Int63n` from being called with a non-positive argument and lets the
  accounting check refuse the result. `FilesInv` says that metadata only
  exists beside the sample it describes. `LikelihoodInv` is the argument that the
  sample is uniform: the probability of the draws so far, times the samples of the whole
  source, is the number of samples of what is left, `choose(remainingRows,
  remainingWanted)`. A draw multiplies both sides alike because `choose` is exact, which
  is Pascal's rule by induction (`PartsDivide`, `ChooseExact`, `ChooseSteps`); at the end
  the remainder has one sample, and `Uniform` follows.
* `OSPipelineProofs`, for every target file, number of workers, capacity and number of
  failures. A host may be in the file more than once and its three results come in any
  order, so no place of a host can be named; `HistoryInv` counts instead. It says that
  there is a sequence of completed hosts such that, for every scanner and host, the
  completions and what the scanner has of the host, from its channel to the pending map
  (`Load`), are together at most what it was fed (`Fed`), and exactly that in a run of
  distinct targets without a fault or an interrupt; and such that the records written,
  batched, queued and being sent are the completions that have evidence, as long as the
  writer has not failed. Each step shifts a unit from one term to another, and the
  merger's last result of a host extends the sequence.
  `CountInv` ties the coverage counters to it, `StageInv` orders the end of the stages.
  `SuccessAccounts` compares the sequence with the file: both have one length and no host
  is completed more often than it is in the file, so the counts agree (`SameCount`, by
  the pigeonhole principle). `OneRecordPerHost` and `PendingOnlyInFlight` compare the
  terms of two scanners.

  `ResolvesMostSpecific` is about the constants only: for every tree of tags (a walk to
  the root that reaches a tag reaches it in as many turns as there are tags, by the
  pigeonhole principle, so ancestors of ancestors are ancestors and two ancestors of one
  tag are comparable) and every list of tags, by induction over the loop of `resolveTags`
  (`Chosen`, `SelectKeeps`).
* `ScopedMeasureProofs`, for any number of steps, of steps with clean-up and of
  attempts. `EvidenceInv` is the chain in which each link is written only after
  the one before: finished file, copy in the store, local completion, marker in
  the store, receipt, unlinked file. `ControllerInv` says what the controller
  knows at each point of `measure`, `LaunchesRecorded` that no process has an
  identity later than all that `state.json` remembers, whatever the clock did, and
  `AdoptInv` that adopted steps stay committed. `NothingLost`, `IdentityUsedOnce`
  and `NoFalseAlarm` follow; the exception of the last, archived attempts, is part
  of the invariant. `AdoptsOnceTheorem` is the refinement: initial states map to
  initial states of `CampaignSteps`, and each step settles the next step or
  stutters.
* `GeoCampaignProofs`, for any protocols, repeats, groups and files. A controller's
  program is a sequence built from the constants by `FlattenSeq`; `Leads(c, W, s, V)`
  says that each operation of `s` comes after what it stands on (`Justified`) if
  those of `W` are done before, and yields `V`. It composes over `\o` and
  `FlattenSeq` (`LeadsConcat`, `LeadsFlatten`), so `ProgramFacts` follows the
  structure of the code, function by function. `ProgressInv` then says that a
  controller at an operation has the effects of all operations before it: effects
  are never taken back but for a failure, and `Admit` starts again from the first
  operation. With it every publication is backed when it is made (`PublicationFresh`),
  which `PublishedSound` needs; `FlowInv` and `ReadyInv` carry what the waits have seen
  on other machines to the final request. `LayoutInv` and `PolicyInv` say what a
  controller past `Prepare` has seen in the store and give `CampaignAgreed`.
  For the worker, `RequestInv`, `AttemptInv`, `OrphanInv` and `UploadInv` say that it
  works on the pinned request with the targets of that request, which attempt a
  directory and a process belong to, that a running scan has a waiting worker or has
  outlived it, and whose files are uploaded; `OSVerdictSound` is inductive together
  with them. A step is summed up by what it does to the store (`DataStep`) and
  to its controller (`ControlStep`), so each part is shown to hold once and not
  for every action.
Only model-checked:

* Liveness (`Termination`, `CallsReturn`, `RunReturns`, `PipelineReturns`,
  `Finishes`), which needs fairness and `ENABLED`.

The liveness properties are the only ones without a theorem. The library's induction
theorems take an operator as parameter, which no installed prover instantiates; where
an induction over data was needed (`FlattenSeq`, `choose`, the walk up the tree, the loops
of the classifier), `Induction` states it over sets of numbers, from the least-element
principle of `WellFoundedInduction`.

Some properties have exceptions that are part of the code's behaviour.
`NoFalseAlarm` excepts attempts archived with `--retry-incomplete`, for which it
is false: an attempt is archived while its orphaned process uploads, the
controller stops before it records the next identity, the marker lands, and later
runs find a marker without files.

`PolicyAgreed` excepts two controllers that put `campaign.json` between each
other's read and read-back, `ClosedKept` scans that outlived their worker,
`SuccessComplete` interrupted runs (which return no error) and `GenuineRows` a last
row that broke off, `LooseCounted` the interrupt of `measureInterProtocolRT` at its
save, which is not counted, and the increments that are no verdict on the target: the
timeouts of that function, after which it goes on, and failed cleanup resets, which
`README.md:389-390` of the repository announces for the send errors (so does
`CountedOnce`); `PayloadAcknowledged` a fixed-interval probe whose last
replies are judged between the last flush and `complete`, which is saved and reset with
its ACKs still queued, and `RecordWhole` the attribution of replies without
ports: with two probes of one address in flight, an ICMP reply may be recorded by the
wrong one. Targets of a run are de-duplicated by the ZMap stage, so that this needs
a target file with repeated rows.

A controller killed right after it started a measuring process, and restarted
before that process created its directory, plans a new identity while the first
measurement goes on; `AdoptsOnce` shows that only one of the two is ever adopted.
An interrupted ZMap run is uploaded as it stands.

## Not modelled

* The bytes of packets, checksums, capture sockets, BPF and iptables: they have no
  control state, or their behaviour is the kernel's. A receiver may miss any reply
  in the models, which includes the replies before the capture is ready.
* The pool of source ports, statistics and diagnostics, names and paths,
  configuration parsing; the ranges the models rely on are their assumptions.
* The patterns that give a banner its tag, and the wire formats of the scanners.
* The single-machine commands `run-all`, `publish-analysis-job` and
  `run-interprotocol-campaign`: they run stages in a fixed order without a second
  actor; the hand-off and the readiness wait they share with the geographic
  campaign are in `ProtocolControllers`.
* Two first commands of different layouts at the same moment, and the validation
  of malformed requests by the OS worker.
* A power failure (`AtomicJSON` does not sync).

## Plan

All components with state of their own are modelled, and what the passing runs check
about safety is proved. What is left:

* A refinement between `MeasureTarget` and the single step that a probe is in
  `MeasurementRun`; today `SavedComplete`, `RTRecordFull` and `Termination` state, one by
  one, what that step takes for granted.
* Proofs of the liveness properties, which the installed TLAPS cannot check.
