---------------------------- MODULE MeasurementRun ----------------------------
(***************************************************************************)
(* The life of one measurement: Run and cleanup in                         *)
(* ipid/measurement/measurement.go, the target stream and the workers in   *)
(* ipid/worker/worker.go and the saver in ipid/probe/save.go, with the two *)
(* channels between them, the interrupt and the asynchronous failures.     *)
(* What a worker does with one target is module StrictProbe; here it takes *)
(* one step that ends with a valid or a dropped target.                    *)
(***************************************************************************)
EXTENDS Integers, Sequences, FiniteSets

CONSTANTS
    NumRows,        \* rows the reader of the target file yields
    Workers,        \* NumberOfInflightProbes goroutines
    TargetCapacity, \* capacity of targets (twice the number of workers)
    SaveCapacity,   \* capacity of SaveProbesChannel
    BatchSize,      \* ParquetWriteBatchSize
    Modes           \* the values of IsInterProtocol() to consider

ASSUME MeasurementRunAssumption ==
    /\ NumRows \in Nat
    /\ Workers # {}
    /\ TargetCapacity \in Nat \ {0} /\ SaveCapacity \in Nat \ {0}
    /\ BatchSize \in Nat \ {0}
    /\ Modes \subseteq BOOLEAN

Rows == 1 .. NumRows

VARIABLES
    interProtocol,  \* IsInterProtocol()
    main,           \* where Run is
    nextRow,        \* next row of the target file
    streamErr,      \* StreamTargets returned an error
    stopSignal,     \* StopSignal is closed
    runError,       \* Fail recorded an error
    limiterStopped, \* Limiter.Stop was called
    receiving,      \* the receivers run
    sendersOpen,    \* the sockets are open
    targets,        \* the channel of targets
    targetsClosed,
    worker,         \* per worker: where it is
    current,        \* per worker: its target
    saveChannel,    \* SaveProbesChannel
    saveClosed,
    saver,          \* where Save is
    writeFailed,    \* the file is damaged: Save's failed flag, or a failed close
    batch,          \* rows collected for the next Write
    written,        \* rows given to the parquet writer
    validProbes,    \* stats.ValidProbes, the record count Run returns
    fate,           \* ghost: what became of every row
    result          \* what Run returned

\* interProtocol never changes and stands with what the stream reads.
streamVars == <<interProtocol, nextRow, streamErr>>
signalVars == <<stopSignal, runError>>
resourceVars == <<limiterStopped, receiving, sendersOpen>>
targetVars == <<targets, targetsClosed>>
workerVars == <<worker, current, validProbes>>
saveVars == <<saver, writeFailed, batch, written>>

vars == <<main, streamVars, signalVars, resourceVars, targetVars, workerVars,
          saveChannel, saveClosed, saveVars, fate, result>>

Init ==
    /\ interProtocol \in Modes
    /\ main = "stream"
    /\ nextRow = 1
    /\ streamErr = FALSE
    /\ stopSignal = FALSE
    /\ runError = FALSE
    /\ limiterStopped = FALSE
    /\ receiving = TRUE
    /\ sendersOpen = TRUE
    /\ targets = <<>>
    /\ targetsClosed = FALSE
    /\ worker = [w \in Workers |-> "idle"]
    /\ current = [w \in Workers |-> 0]
    /\ saveChannel = <<>>
    /\ saveClosed = FALSE
    /\ saver = "create"
    /\ writeFailed = FALSE
    /\ batch = <<>>
    /\ written = <<>>
    /\ validProbes = 0
    /\ fate = [r \in Rows |-> "unread"]
    /\ result = "running"

Becomes(row, end) == fate' = [fate EXCEPT ![row] = end]

\* Fail(err): the first error is recorded and the run is stopped.
FailUnrecorded == runError' = runError /\ stopSignal' = stopSignal

Fail == runError' = TRUE /\ stopSignal' = TRUE

-----------------------------------------------------------------------------
(* StreamTargets *)

Stream ==
    /\ main = "stream"
    /\ UNCHANGED <<interProtocol, runError, resourceVars, targetsClosed, workerVars,
                   saveChannel, saveClosed, saveVars, result>>

\* The channel takes another target without blocking the stream.
TargetsHaveRoom == Len(targets) < TargetCapacity

\* A row is parsed and put on the channel.
StreamTarget ==
    /\ Stream
    /\ nextRow <= NumRows /\ TargetsHaveRoom
    /\ targets' = Append(targets, nextRow)
    /\ nextRow' = nextRow + 1
    /\ Becomes(nextRow, "queued")
    /\ UNCHANGED <<main, streamErr, stopSignal>>

\* The row has no IPv4 address, or belongs to another interprotocol sample.
SkipRow ==
    /\ Stream
    /\ nextRow <= NumRows
    /\ nextRow' = nextRow + 1
    /\ Becomes(nextRow, "skipped")
    /\ UNCHANGED <<main, streamErr, stopSignal, targets>>

\* End of file, or the stream sees StopSignal.
StreamEnds ==
    /\ Stream
    /\ nextRow > NumRows \/ stopSignal
    /\ main' = "cleanup"
    /\ UNCHANGED <<nextRow, streamErr, stopSignal, targets, fate>>

\* The file cannot be opened or read, or an interprotocol row is malformed.
StreamFails ==
    /\ Stream
    /\ streamErr' = TRUE
    /\ stopSignal' = TRUE
    /\ main' = "cleanup"
    /\ UNCHANGED <<nextRow, targets, fate>>

-----------------------------------------------------------------------------
(* proberLoop and the end of MeasureTarget *)

Working ==
    UNCHANGED <<main, streamVars, resourceVars, targetsClosed, saveClosed, saveVars,
                result>>

TakeTarget(w) ==
    /\ Working
    /\ worker[w] = "idle" /\ targets # <<>>
    /\ targets' = Tail(targets)
    /\ worker' = [worker EXCEPT ![w] = "measuring"]
    /\ current' = [current EXCEPT ![w] = Head(targets)]
    /\ UNCHANGED <<signalVars, validProbes, saveChannel, fate>>

\* The loop ends on StopSignal or on the closed and empty channel.
LoopEndsOnStop == stopSignal

LoopEnds == stopSignal \/ (targetsClosed /\ targets = <<>>)

WorkerExits(w) ==
    /\ Working
    /\ worker[w] = "idle" /\ LoopEnds
    /\ worker' = [worker EXCEPT ![w] = "exited"]
    /\ UNCHANGED <<signalVars, targets, current, validProbes, saveChannel, fate>>

\* MeasureTarget returns false: dropped, which fails an interprotocol run.
MeasureDrops(w) ==
    /\ Working
    /\ worker[w] = "measuring"
    /\ worker' = [worker EXCEPT ![w] = "idle"]
    /\ Becomes(current[w], "dropped")
    /\ IF interProtocol THEN Fail ELSE UNCHANGED signalVars
    /\ UNCHANGED <<targets, current, validProbes, saveChannel>>

MeasureSucceeds(w) ==
    /\ Working
    /\ worker[w] = "measuring"
    /\ worker' = [worker EXCEPT ![w] = "saving"]
    /\ UNCHANGED <<signalVars, targets, current, validProbes, saveChannel, fate>>

\* The last select: the saver has room, or the run is stopped.
SaveProbe(w) ==
    /\ Working
    /\ worker[w] = "saving"
    /\ worker' = [worker EXCEPT ![w] = "idle"]
    /\ \/ /\ Len(saveChannel) < SaveCapacity
          /\ saveChannel' = Append(saveChannel, current[w])
          /\ validProbes' = validProbes + 1
          /\ Becomes(current[w], "valid")
          /\ UNCHANGED signalVars
       \/ /\ stopSignal
          /\ Becomes(current[w], "interrupted")
          /\ IF interProtocol THEN Fail ELSE UNCHANGED signalVars
          /\ UNCHANGED <<saveChannel, validProbes>>
    /\ UNCHANGED <<targets, current>>

-----------------------------------------------------------------------------
(* Save *)

Saving ==
    UNCHANGED <<main, streamVars, resourceVars, targetVars, workerVars, saveClosed,
                fate, result>>

CreateFile ==
    /\ Saving
    /\ saver = "create"
    /\ \/ saver' = "range" /\ UNCHANGED signalVars
       \/ saver' = "drain" /\ Fail
    /\ UNCHANGED <<saveChannel, writeFailed, batch, written>>

\* flush(): the batch is written, or the writer fails for good.
Flush(rows) ==
    /\ batch' = <<>>
    /\ \/ /\ written' = written \o rows
          /\ UNCHANGED <<writeFailed, signalVars>>
       \/ /\ writeFailed' = TRUE /\ Fail
          /\ UNCHANGED written

\* One probe of the channel is converted and joins the batch.
SaveOne ==
    /\ Saving
    /\ saver = "range" /\ saveChannel # <<>>
    /\ saveChannel' = Tail(saveChannel)
    /\ LET rows == Append(batch, Head(saveChannel)) IN
       IF writeFailed THEN UNCHANGED <<batch, written, writeFailed, signalVars>>
       ELSE IF Len(rows) >= BatchSize THEN Flush(rows)
       ELSE batch' = rows /\ UNCHANGED <<written, writeFailed, signalVars>>
    /\ UNCHANGED saver

\* The channel is closed and empty: final flush.
FlushForgotten ==
    UNCHANGED <<batch, written, writeFailed, signalVars>>

FinalFlush ==
    IF batch = <<>> \/ writeFailed
    THEN UNCHANGED <<batch, written, writeFailed, signalVars>>
    ELSE Flush(batch)

EndOfProbes ==
    /\ Saving
    /\ saver = "range" /\ saveChannel = <<>> /\ saveClosed
    /\ saver' = "close"
    /\ FinalFlush
    /\ UNCHANGED saveChannel

\* The writer, the buffer and the file are closed; each of them may fail.
CloseFile ==
    /\ Saving
    /\ saver = "close"
    /\ saver' = "done"
    /\ \/ UNCHANGED <<writeFailed, signalVars>>
       \/ writeFailed' = TRUE /\ Fail
    /\ UNCHANGED <<saveChannel, batch, written>>

\* A saver without a file keeps draining until the channel is closed.
Drain ==
    /\ Saving
    /\ saver = "drain"
    /\ \/ saveChannel # <<>> /\ saveChannel' = Tail(saveChannel) /\ UNCHANGED saver
       \/ saveChannel = <<>> /\ saveClosed /\ saver' = "done" /\ UNCHANGED saveChannel
    /\ UNCHANGED <<signalVars, writeFailed, batch, written>>

-----------------------------------------------------------------------------
(* cleanup and the end of Run *)

Cleaning == UNCHANGED <<streamVars, signalVars, workerVars, saveChannel, saveVars, fate>>

\* The interrupt is looked at once: only then is the limiter stopped early.
StopLimiter ==
    /\ Cleaning
    /\ main = "cleanup"
    /\ limiterStopped' = stopSignal
    /\ targetsClosed' = TRUE
    /\ main' = "waitWorkers"
    /\ UNCHANGED <<receiving, sendersOpen, targets, saveClosed, result>>

WorkersNotAwaited == TRUE

WorkersDone == \A w \in Workers : worker[w] = "exited"

WaitWorkers ==
    /\ Cleaning
    /\ main = "waitWorkers" /\ WorkersDone
    /\ saveClosed' = TRUE
    /\ main' = "waitSaver"
    /\ UNCHANGED <<resourceVars, targetVars, result>>

WaitSaver ==
    /\ Cleaning
    /\ main = "waitSaver" /\ saver = "done"
    /\ receiving' = FALSE
    /\ main' = "close"
    /\ UNCHANGED <<limiterStopped, sendersOpen, targetVars, saveClosed, result>>

CloseSenders ==
    /\ Cleaning
    /\ main = "close"
    /\ sendersOpen' = FALSE
    /\ limiterStopped' = TRUE
    /\ main' = "report"
    /\ UNCHANGED <<receiving, targetVars, saveClosed, result>>

\* The errors Run joins: the stream's, an open StopSignal and the recorded one.
ErrorsWithoutStop == streamErr \/ runError

RunErrors == streamErr \/ stopSignal \/ runError

Report ==
    /\ Cleaning
    /\ main = "report"
    /\ result' = IF RunErrors THEN "error" ELSE "ok"
    /\ main' = "returned"
    /\ UNCHANGED <<resourceVars, targetVars, saveClosed>>

\* SIGINT or SIGTERM.
Interrupt ==
    /\ main # "returned" /\ ~stopSignal
    /\ stopSignal' = TRUE
    /\ UNCHANGED <<main, streamVars, runError, resourceVars, targetVars, workerVars,
                   saveChannel, saveClosed, saveVars, fate, result>>

Returned == main = "returned" /\ UNCHANGED vars

-----------------------------------------------------------------------------
Streaming == StreamTarget \/ SkipRow \/ StreamEnds
MainStep == StopLimiter \/ WaitWorkers \/ WaitSaver \/ CloseSenders \/ Report
SaverStep == CreateFile \/ SaveOne \/ EndOfProbes \/ CloseFile \/ Drain
WorkerStep(w) ==
    TakeTarget(w) \/ WorkerExits(w) \/ MeasureDrops(w) \/ MeasureSucceeds(w)
        \/ SaveProbe(w)

Next ==
    \/ Streaming \/ StreamFails \/ MainStep \/ SaverStep \/ Interrupt \/ Returned
    \/ \E w \in Workers : WorkerStep(w)

Spec == Init /\ [][Next]_vars

\* Every goroutine runs on; interrupts and read errors need not happen.
FairSpec ==
    /\ Spec
    /\ WF_vars(Streaming) /\ WF_vars(MainStep) /\ WF_vars(SaverStep)
    /\ \A w \in Workers : WF_vars(WorkerStep(w))

-----------------------------------------------------------------------------
(* Properties *)

WorkerStates == {"idle", "measuring", "saving", "exited"}

TypeOK ==
    /\ interProtocol \in Modes
    /\ main \in {"stream", "cleanup", "waitWorkers", "waitSaver", "close", "report",
                 "returned"}
    /\ nextRow \in 1 .. NumRows + 1
    /\ streamErr \in BOOLEAN /\ stopSignal \in BOOLEAN /\ runError \in BOOLEAN
    /\ limiterStopped \in BOOLEAN /\ receiving \in BOOLEAN /\ sendersOpen \in BOOLEAN
    /\ targets \in Seq(Rows) /\ Len(targets) <= TargetCapacity
    /\ targetsClosed \in BOOLEAN /\ saveClosed \in BOOLEAN
    /\ worker \in [Workers -> WorkerStates]
    /\ current \in [Workers -> Rows \cup {0}]
    /\ saveChannel \in Seq(Rows) /\ Len(saveChannel) <= SaveCapacity
    /\ saver \in {"create", "range", "close", "drain", "done"}
    /\ writeFailed \in BOOLEAN
    /\ batch \in Seq(Rows) /\ written \in Seq(Rows)
    /\ validProbes \in Nat
    /\ fate \in [Rows -> {"unread", "queued", "skipped", "dropped", "interrupted", "valid"}]
    /\ result \in {"running", "ok", "error"}

\* A run that returns without error is complete: every row was probed or is not a
\* target, every valid probe is in the closed file, and the record count returned
\* is the number of rows in it.  An interprotocol run has every target in it.
CompleteOnSuccess ==
    result = "ok" =>
        /\ \A r \in Rows : fate[r] \in {"valid", "skipped", "dropped"}
        /\ {written[i] : i \in DOMAIN written} = {r \in Rows : fate[r] = "valid"}
        /\ Len(written) = validProbes
        /\ ~writeFailed
        /\ interProtocol => \A r \in Rows : fate[r] # "dropped"

\* No goroutine sends on a closed channel (a panic in Go): the stream is over when
\* targets is closed and no worker is saving when SaveProbesChannel is.
NoSendOnClosed ==
    /\ targetsClosed => main # "stream"
    /\ saveClosed => \A w \in Workers : worker[w] = "exited"

\* Sockets, receivers and limiter outlive the probes that use them, unless an
\* interrupt stops the limiter to release them.
ResourcesOutliveProbes ==
    (\E w \in Workers : worker[w] = "measuring") =>
        receiving /\ sendersOpen /\ (limiterStopped => stopSignal)

\* The shutdown is orderly: channels hold no more than they can, none is closed while
\* someone may send, and resources are released after their last user (cleanup).
OrderlyShutdown == TypeOK /\ NoSendOnClosed /\ ResourcesOutliveProbes

\* Run returns, whenever it is interrupted and whatever fails.
RunReturns == <>(main = "returned")

=============================================================================
