------------------------------ MODULE ZMapStage ------------------------------
(***************************************************************************)
(* cmd/measure-zmap: a zmap process writes the responders it finds to a    *)
(* pipe (zmap/runner.go), Run parses them, drops the duplicates of a TCP   *)
(* scan, stops at the wanted number and writes the rest to a Parquet file  *)
(* (zmap/measurement.go, parser.go, writer.go), which is then uploaded.    *)
(*                                                                         *)
(* Run, the process and whoever interrupts either interleave.  zmap itself *)
(* is external: it may write any rows its arguments allow, write malformed *)
(* ones, crash, and break off in the middle of a line when it dies.        *)
(***************************************************************************)
EXTENDS Integers, Sequences, SequencesExt, FiniteSets

CONSTANTS
    Addresses,     \* addresses that may respond
    Limits,        \* bound: values of number_of_target_ip_addresses, 0 = not set
    MaxLines,      \* bound: lines zmap writes
    PipeCapacity,  \* lines that fit the pipe
    BatchSize      \* ZMapParquetWriteBatchSize

ASSUME ZMapStageAssumption ==
    /\ Limits \subseteq Nat /\ MaxLines \in Nat
    /\ PipeCapacity \in Nat \ {0} /\ BatchSize \in Nat \ {0}

NoAddress == "not an address"
Payloads == {"icmp", "tcp", "udp-dns"}
Lines == {"header", "row", "malformed", "cut"} \X (Addresses \cup {NoAddress})

VARIABLES
    payload, limit,  \* the configuration
    plan,            \* lines zmap would write if left alone
    zmap,            \* "off", "running", or how it ended: "ok", "error"
    lines,           \* lines it has written
    found,           \* addresses of the rows it has written
    pipe,            \* its stdout
    point,           \* where Run is
    headerSeen,      \* of the parser
    cancelled,       \* the context
    stopped,         \* stop() was called: signals are no longer caught
    interrupted,     \* a signal cancelled the context
    seen,            \* words of the ipv4Deduplicator
    batch, file,     \* rows of the Writer, not yet and already written
    written,         \* the counter
    parseErr,        \* "none", "canceled" or "error"
    closeErr,
    broken,          \* ghost: a line that broke off was taken for a row
    result           \* of the command

configVars == <<payload, limit, plan>>
zmapVars == <<zmap, lines, found>>
writerVars == <<seen, batch, file, written, broken>>
vars == <<configVars, zmapVars, pipe, point, headerSeen, cancelled, stopped, interrupted,
          writerVars, parseErr, closeErr, result>>

Init ==
    /\ payload \in Payloads /\ limit \in Limits /\ plan \in 0 .. MaxLines
    /\ zmap = "off" /\ lines = 0 /\ found = <<>> /\ pipe = <<>>
    /\ point = "start" /\ headerSeen = FALSE
    /\ cancelled = FALSE /\ stopped = FALSE /\ interrupted = FALSE
    /\ seen = {} /\ batch = <<>> /\ file = <<>> /\ written = 0 /\ broken = FALSE
    /\ parseErr = "none" /\ closeErr = FALSE /\ result = "none"

-----------------------------------------------------------------------------
(* What BuildArgs asks of zmap, by payload *)

UsesJSONOutput == payload = "udp-dns"

\* TCP rows are de-duplicated and counted here, because a RST counts as no success.
Deduplicates == payload = "tcp"

\* -N
MaxResults == IF Deduplicates THEN 0 ELSE limit

TargetLimit == IF Deduplicates THEN limit ELSE 0

-----------------------------------------------------------------------------
(* zmap (external) *)

EnoughResults == MaxResults > 0 /\ Len(found) >= MaxResults

WriteLine ==
    /\ zmap = "running" /\ Len(pipe) < PipeCapacity
    /\ lines < plan /\ ~EnoughResults
    /\ \E line \in Lines :
          /\ line[1] = "header" <=> lines = 0 /\ ~UsesJSONOutput
          /\ line[1] = "row" <=> line[2] \in Addresses
          /\ line[1] # "cut"
          /\ line[1] = "row" => Deduplicates \/ line[2] \notin ToSet(found)
          /\ pipe' = Append(pipe, line)
          /\ found' = IF line[1] = "row" THEN Append(found, line[2]) ELSE found
    /\ lines' = lines + 1
    /\ UNCHANGED <<configVars, zmap, point, headerSeen, cancelled, stopped, interrupted,
                   writerVars, parseErr, closeErr, result>>

ScanEnds ==
    /\ zmap = "running"
    /\ lines = plan \/ EnoughResults
    /\ zmap' = "ok"
    /\ UNCHANGED <<configVars, lines, found, pipe, point, headerSeen, cancelled, stopped,
                   interrupted, writerVars, parseErr, closeErr, result>>

\* It dies, perhaps in the middle of a line.
Dies(outcome) ==
    /\ zmap' = outcome
    /\ \/ UNCHANGED pipe
       \/ /\ Len(pipe) < PipeCapacity /\ lines < plan
          /\ \E address \in Addresses \cup {NoAddress} : pipe' = Append(pipe, <<"cut", address>>)
    /\ UNCHANGED <<configVars, lines, found, point, headerSeen, cancelled, stopped, interrupted,
                   writerVars, parseErr, closeErr, result>>

Crashes == zmap = "running" /\ Dies("error")

\* Cancel sends SIGTERM; after WaitDelay the process is killed.
Terminates ==
    /\ zmap = "running" /\ cancelled /\ result # "killed"
    /\ \E outcome \in {"ok", "error"} : Dies(outcome)

-----------------------------------------------------------------------------
(* Run *)

At(where) == point = where

\* Run returns an error before there is anything to wait for, or zmap is started.
Start ==
    /\ At("start")
    /\ \/ zmap' = "running" /\ point' = "create" /\ UNCHANGED result
       \/ result' = "error" /\ point' = "done" /\ UNCHANGED zmap
    /\ UNCHANGED <<configVars, lines, found, pipe, headerSeen, cancelled, stopped, interrupted,
                   writerVars, parseErr, closeErr>>

NewWriter ==
    /\ At("create")
    /\ \/ point' = "stream" /\ UNCHANGED <<cancelled, stopped>>
       \/ point' = "abandon" /\ cancelled' = TRUE /\ stopped' = TRUE
    /\ UNCHANGED <<configVars, zmapVars, pipe, headerSeen, interrupted, writerVars, parseErr,
                   closeErr, result>>

\* Wait: the process is gone.
Waited == zmap \in {"ok", "error"}

Abandon ==
    /\ At("abandon") /\ Waited
    /\ result' = "error" /\ point' = "done"
    /\ UNCHANGED <<configVars, zmapVars, pipe, headerSeen, cancelled, stopped, interrupted,
                   writerVars, parseErr, closeErr>>

\* streamRows returns: a failed one stops zmap.
LeaveRunning(err) == UNCHANGED <<cancelled, stopped>>

StopIf(err) ==
    IF err = "none" THEN UNCHANGED <<cancelled, stopped>>
    ELSE cancelled' = TRUE /\ stopped' = TRUE

StreamEnds(err) == point' = "wait" /\ parseErr' = err /\ StopIf(err)

CheckContext ==
    /\ At("stream")
    /\ IF cancelled THEN StreamEnds("canceled")
       ELSE point' = "next" /\ UNCHANGED <<parseErr, cancelled, stopped>>
    /\ UNCHANGED <<configVars, zmapVars, pipe, headerSeen, interrupted, writerVars, closeErr,
                   result>>

\* readHeader takes whatever comes first, Next skips malformed lines.
ReadHeader ==
    /\ At("next") /\ pipe # <<>> /\ ~headerSeen /\ ~UsesJSONOutput
    /\ \/ /\ Head(pipe)[1] \in {"header", "cut"} /\ headerSeen' = TRUE
          /\ UNCHANGED <<point, parseErr, cancelled, stopped>>
       \/ Head(pipe)[1] # "header" /\ StreamEnds("error") /\ UNCHANGED headerSeen
    /\ pipe' = Tail(pipe)
    /\ UNCHANGED <<configVars, zmapVars, interrupted, writerVars, closeErr, result>>

Readable == At("next") /\ pipe # <<>> /\ (headerSeen \/ UsesJSONOutput)

\* A CSV line that breaks off within or after its address is a row nevertheless.
IsRow(line) == line[1] = "row" \/ (line[1] = "cut" /\ ~UsesJSONOutput)

SkipLine ==
    /\ Readable
    /\ IsRow(Head(pipe)) => Head(pipe) = <<"cut", NoAddress>>
    /\ pipe' = Tail(pipe)
    /\ UNCHANGED <<configVars, zmapVars, point, headerSeen, cancelled, stopped, interrupted,
                   writerVars, parseErr, closeErr, result>>

EndOfFile ==
    /\ At("next") /\ pipe = <<>> /\ zmap \in {"ok", "error"}
    /\ StreamEnds("none")
    /\ UNCHANGED <<configVars, zmapVars, pipe, headerSeen, interrupted, writerVars, closeErr,
                   result>>

\* ipv4Deduplicator.Add
AddForgets(address) == UNCHANGED seen

Add(address) == seen' = seen \cup {address}

\* Append queues the row; a full batch is flushed, or cannot be.
AppendRow(address) ==
    LET queued == Append(batch, address)
    IN  \/ /\ Len(queued) < BatchSize
           /\ batch' = queued /\ UNCHANGED file
        \/ /\ Len(queued) >= BatchSize
           /\ batch' = <<>> /\ file' = file \o queued

AppendFails(address) ==
    /\ Len(batch) + 1 >= BatchSize
    /\ batch' = Append(batch, address)
    /\ UNCHANGED <<file, written>>
    /\ StreamEnds("error")

LimitReached == TargetLimit > 0 /\ written + 1 >= TargetLimit

\* One turn of the loop of streamRows with a row.
StreamRow ==
    /\ Readable /\ IsRow(Head(pipe))
    /\ LET address == Head(pipe)[2]
       IN  \/ /\ Deduplicates /\ address = NoAddress
              /\ StreamEnds("error") /\ UNCHANGED writerVars
           \/ /\ Deduplicates /\ address \in seen
              /\ point' = "stream" /\ UNCHANGED <<writerVars, parseErr, cancelled, stopped>>
           \/ /\ Deduplicates => address \notin seen \cup {NoAddress}
              /\ IF Deduplicates THEN Add(address) ELSE UNCHANGED seen
              /\ broken' = (Head(pipe)[1] = "cut")
              /\ \/ AppendFails(address)
                 \/ /\ AppendRow(address)
                    /\ written' = written + 1
                    /\ UNCHANGED parseErr
                    /\ IF LimitReached
                       THEN point' = "wait" /\ cancelled' = TRUE /\ stopped' = TRUE
                       ELSE point' = "stream" /\ UNCHANGED <<cancelled, stopped>>
    /\ pipe' = Tail(pipe)
    /\ UNCHANGED <<configVars, zmapVars, headerSeen, interrupted, closeErr, result>>

Wait ==
    /\ At("wait") /\ Waited
    /\ point' = "close"
    /\ UNCHANGED <<configVars, zmapVars, pipe, headerSeen, cancelled, stopped, interrupted,
                   writerVars, parseErr, closeErr, result>>

\* Close flushes the batch, finalises the footer and closes the file.
CloseUnflushed == UNCHANGED file

FlushBatch == file' = file \o batch

CloseWriter ==
    /\ At("close")
    /\ \/ FlushBatch /\ closeErr' = FALSE
       \/ UNCHANGED file /\ closeErr' = TRUE
    /\ batch' = <<>>
    /\ point' = "report"
    /\ UNCHANGED <<configVars, zmapVars, pipe, headerSeen, cancelled, stopped, interrupted, seen,
                   written, broken, parseErr, result>>

\* An exit with an error is no failure once the context is cancelled.
ExitNeverFails == FALSE

UnexpectedExit == zmap = "error" /\ ~cancelled

Report ==
    /\ At("report")
    /\ IF parseErr = "error" \/ UnexpectedExit \/ closeErr
       THEN result' = "error" /\ point' = "done"
       ELSE result' = "ok" /\ point' = "upload"
    /\ UNCHANGED <<configVars, zmapVars, pipe, headerSeen, cancelled, stopped, interrupted,
                   writerVars, parseErr, closeErr>>

\* The command uploads what a successful Run left, or ends with an error.
Upload ==
    /\ At("upload")
    /\ result' \in {"uploaded", "not uploaded"} /\ point' = "done"
    /\ UNCHANGED <<configVars, zmapVars, pipe, headerSeen, cancelled, stopped, interrupted,
                   writerVars, parseErr, closeErr>>

\* SIGINT or SIGTERM: it cancels the context until stop was called or Run returned, and
\* ends the command from then on.
Signal ==
    /\ point \notin {"start", "done"}
    /\ IF stopped \/ At("upload")
       THEN result' = "killed" /\ point' = "done" /\ UNCHANGED <<cancelled, interrupted>>
       ELSE cancelled' = TRUE /\ interrupted' = TRUE /\ UNCHANGED <<result, point>>
    /\ UNCHANGED <<configVars, zmapVars, pipe, headerSeen, stopped, writerVars, parseErr,
                   closeErr>>

-----------------------------------------------------------------------------
RunSteps ==
    Start \/ NewWriter \/ Abandon \/ CheckContext \/ ReadHeader \/ SkipLine \/ EndOfFile
        \/ StreamRow \/ Wait \/ CloseWriter \/ Report \/ Upload

ZMap == WriteLine \/ ScanEnds

Next == RunSteps \/ ZMap \/ Crashes \/ Terminates \/ Signal

\* The command and zmap run; zmap ends once it has been told to, or is killed.
Spec == Init /\ [][Next]_vars /\ WF_vars(RunSteps) /\ WF_vars(ZMap) /\ WF_vars(Terminates)

-----------------------------------------------------------------------------
(* Properties *)

\* The configuration, the pipe, the writer and the counter have the form the code gives
\* them; the batch never holds more rows than it was made for.
TypeOK ==
    /\ payload \in Payloads /\ limit \in Limits /\ plan \in 0 .. MaxLines
    /\ zmap \in {"off", "running", "ok", "error"} /\ lines \in 0 .. plan
    /\ pipe \in Seq(Lines) /\ Len(pipe) <= PipeCapacity
    /\ point \in {"start", "create", "abandon", "stream", "next", "wait", "close", "report",
                  "upload", "done"}
    /\ seen \subseteq Addresses /\ Len(batch) <= BatchSize
    /\ parseErr \in {"none", "canceled", "error"}
    /\ result \in {"none", "ok", "error", "uploaded", "not uploaded", "killed"}

\* The responders among the first i rows, in the order of their first row.
FirstRows[i \in 0 .. Len(found)] ==
    IF i = 0 THEN <<>>
    ELSE IF found[i] \in ToSet(FirstRows[i - 1]) THEN FirstRows[i - 1]
    ELSE Append(FirstRows[i - 1], found[i])

Responders == FirstRows[Len(found)]

Successful == result \in {"ok", "uploaded", "not uploaded"}

\* A run that succeeds, was not interrupted and met no broken line has all the responders
\* in its file, each once and up to the limit, and reports their number: nothing is lost
\* between the pipe, the batch and the file, although zmap goes on writing when the limit
\* is reached.
SuccessComplete ==
    Successful /\ ~interrupted /\ ~broken =>
        LET n == Len(Responders)
        IN  /\ file = SubSeq(Responders, 1, IF limit > 0 /\ limit < n THEN limit ELSE n)
            /\ written = Len(file)

\* Also when the run is interrupted or fails, the rows are responders but for a last one
\* that broke off, and those of a TCP scan are distinct and no more than the limit.
GenuineRows ==
    LET rows == file \o batch
    IN  /\ \A i \in DOMAIN rows : rows[i] \in ToSet(found) \/ (broken /\ i = Len(rows))
        /\ payload = "tcp" =>
              /\ \A i, j \in DOMAIN rows : rows[i] = rows[j] => i = j
              /\ limit > 0 => Len(rows) <= limit

\* A zmap that dies on its own makes the run fail, unless someone interrupted it or the
\* limit had been reached.
CrashReported ==
    Successful /\ zmap = "error" => interrupted \/ (TargetLimit > 0 /\ written = TargetLimit)

\* Having stopped zmap at the limit is no failure, whatever zmap's exit status then is.
LimitSucceeds ==
    TargetLimit > 0 /\ written = TargetLimit /\ parseErr # "error" /\ ~closeErr
        => result # "error"

\* No zmap runs on when the command has returned.
NothingLeftRunning ==
    At("done") /\ result # "killed" => zmap # "running"

\* What the stage holds is sound at any moment: pipe and batch within their sizes, rows
\* that zmap found.
RowsSound == TypeOK /\ GenuineRows

\* The end of zmap is judged right: its own death is reported, the one at the limit is not,
\* and the command does not return before it.
ExitJudged == CrashReported /\ LimitSucceeds /\ NothingLeftRunning

\* The command returns: whoever stops reading also stops zmap, which may be blocked on the
\* pipe.
RunReturns == <>At("done")
=============================================================================
