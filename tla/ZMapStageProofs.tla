--------------------------- MODULE ZMapStageProofs ---------------------------
(***************************************************************************)
(* Proofs about ZMapStage for every set of addresses and every size of the *)
(* pipe, the batch and the scan.  IInv is the inductive invariant.         *)
(***************************************************************************)
EXTENDS ZMapStage, SequenceTheorems, TLAPS

\* The number of addresses a TCP scan stops at has been written.
LimitHit == TargetLimit > 0 /\ written = TargetLimit

\* streamRows has not returned.
Reading == point \in {"start", "create", "stream", "next"}

\* What the writer has been given.
Rows == file \o batch

\* What TypeOK leaves open.
DataType ==
    /\ found \in Seq(Addresses)
    /\ batch \in Seq(Addresses \cup {NoAddress})
    /\ file \in Seq(Addresses \cup {NoAddress})
    /\ written \in Nat

(***************************************************************************)
(* Where the command is, and that from the end of Wait on zmap is gone.    *)
(***************************************************************************)
StageInv ==
    /\ At("start") => zmap = "off"
    /\ point \in {"close", "report", "upload"} \/ Successful => Waited
    /\ result = "none" <=> point \notin {"upload", "done"}
    /\ At("upload") => result = "ok"
    /\ point \in {"start", "create", "abandon"} => written = 0
    /\ Reading => parseErr = "none"
    /\ NothingLeftRunning

(***************************************************************************)
(* The pipe holds rows that zmap found.  A line that breaks off is the     *)
(* last one, because zmap is dead.                                         *)
(***************************************************************************)
PipeInv ==
    /\ \A i \in 1 .. Len(pipe) :
          /\ pipe[i][1] = "row" => pipe[i][2] \in ToSet(found)
          /\ pipe[i][1] = "cut" => i = Len(pipe) /\ Waited
    /\ broken => pipe = <<>> /\ Waited

\* The rows are genuine, and the deduplicator knows each of them.
RowsInv ==
    /\ GenuineRows
    /\ Deduplicates => \A i \in 1 .. Len(Rows) : Rows[i] \in seen

\* As long as rows are read the counter is their number, and the limit is ahead.
CounterInv ==
    /\ Reading => written = Len(Rows) /\ Len(batch) < BatchSize
    /\ Reading /\ TargetLimit > 0 => written < TargetLimit

(***************************************************************************)
(* Why the context is cancelled, which is what tells an expected exit of   *)
(* zmap from its own death.                                                *)
(***************************************************************************)
CancelInv ==
    /\ cancelled => \/ interrupted \/ parseErr = "error" \/ LimitHit \/ At("abandon")
                    \/ result \in {"error", "killed"}
    /\ LimitHit => cancelled
    /\ Successful => parseErr # "error" /\ (zmap = "error" => cancelled)
    /\ LimitSucceeds

\* Without the deduplicator zmap itself keeps its rows distinct and few.
FoundInv ==
    ~Deduplicates => /\ \A i \in 1 .. Len(found) : \A j \in 1 .. Len(found) :
                           found[i] = found[j] => i = j
                     /\ limit > 0 => Len(found) <= limit

\* How the scan ended: unless it is to fail, either the limit was reached or the pipe was
\* read to its end, and from Close on nothing is left in the batch.
EndInv ==
    /\ parseErr = "canceled" => interrupted
    /\ point \in {"wait", "close", "report", "upload"} \/ Successful =>
          (parseErr = "none" => LimitHit \/ (pipe = <<>> /\ Waited))
    /\ point \in {"report", "upload"} \/ Successful => batch = <<>>
    /\ closeErr => point \in {"report", "done"}
    /\ Successful => ~closeErr

\* r is the table of FirstRows for the rows f.
Table(r, f) ==
    r = [i \in 0 .. Len(f) |->
            IF i = 0 THEN <<>>
            ELSE IF f[i] \in ToSet(r[i - 1]) THEN r[i - 1]
            ELSE Append(r[i - 1], f[i])]

\* Its entries are sequences of rows, and beginnings of the last one.
TableFacts(r, f) ==
    \A i \in 0 .. Len(f) :
       /\ r[i] \in Seq(Addresses) /\ Len(r[i]) <= i
       /\ \A x \in ToSet(r[i]) : \E j \in 1 .. i : x = f[j]
       /\ Len(r[i]) <= Len(r[Len(f)])
       /\ \A j \in 1 .. Len(r[i]) : r[i][j] = r[Len(f)][j]

TableOK(f) ==
    /\ \E r : Table(r, f)
    /\ \A r : Table(r, f) => TableFacts(r, f)

\* p[i] rows of f have been written when the line q[i] has: every row in the pipe has its
\* place in f, the last ones of f.
Places(p, q, f) ==
    /\ \A i \in 0 .. Len(q) : p[i] \in 0 .. Len(f)
    /\ \A i \in 1 .. Len(q) :
          IF q[i][1] = "row" THEN p[i] = p[i - 1] + 1 /\ q[i][2] = f[p[i]] ELSE p[i] = p[i - 1]
    /\ p[Len(q)] = Len(f)

\* Nothing was lost on the way to the writer.
Intact == ~broken /\ parseErr # "error" /\ ~closeErr

\* The writer holds exactly the responders among the rows that have left the pipe.
Ordered(p) ==
    /\ written = Len(Rows)
    /\ Deduplicates => seen = ToSet(Rows)
    /\ \A r : Table(r, found) => Rows = r[p[0]]

OrderInv ==
    /\ TableOK(found)
    /\ Intact => \E p : Places(p, pipe, found) /\ Ordered(p)

IInv ==
    /\ TypeOK /\ DataType /\ StageInv /\ PipeInv /\ RowsInv /\ CounterInv /\ CancelInv
    /\ FoundInv /\ EndInv /\ OrderInv

-----------------------------------------------------------------------------
(* Facts about the sequences *)

\* A row appended to the batch, flushed or not, is appended to the rows.
LEMMA AppendRows ==
    ASSUME DataType, NEW address \in Addresses \cup {NoAddress}
    PROVE /\ file \o Append(batch, address) = Append(Rows, address)
          /\ (file \o Append(batch, address)) \o <<>> = Append(Rows, address)
          /\ Append(batch, address) \in Seq(Addresses \cup {NoAddress})
          /\ file \o Append(batch, address) \in Seq(Addresses \cup {NoAddress})
          /\ Len(Append(batch, address)) = Len(batch) + 1
<1> DEFINE S == Addresses \cup {NoAddress}
<1>1. batch \in Seq(S) /\ file \in Seq(S) /\ <<address>> \in Seq(S) /\ Rows \in Seq(S)
  BY ConcatProperties DEF DataType, Rows
<1> HIDE DEF S
<1>a. address \in S
  BY DEF S
<1>2. Append(batch, address) = batch \o <<address>> /\ Append(Rows, address) = Rows \o <<address>>
  BY <1>1, <1>a, AppendIsConcat
<1>3. file \o (batch \o <<address>>) = (file \o batch) \o <<address>>
  BY <1>1, ConcatAssociative
<1>4. Append(batch, address) \in Seq(S) /\ Len(Append(batch, address)) = Len(batch) + 1
  BY <1>1, <1>a, AppendProperties
<1>5. file \o Append(batch, address) \in Seq(S)
  BY <1>1, <1>4, ConcatProperties
<1>6. (file \o Append(batch, address)) \o <<>> = file \o Append(batch, address)
  BY <1>5, ConcatEmptySeq
<1> QED
  BY <1>2, <1>3, <1>4, <1>5, <1>6 DEF Rows, S

\* The rows of a writer are a sequence, of which the file is the beginning.
LEMMA RowsFacts ==
    ASSUME DataType
    PROVE /\ Rows \in Seq(Addresses \cup {NoAddress})
          /\ Len(Rows) \in Nat /\ Len(file) \in Nat /\ Len(batch) \in Nat
          /\ Len(file) <= Len(Rows)
          /\ \A i \in 1 .. Len(file) : file[i] = Rows[i] /\ i \in 1 .. Len(Rows)
          /\ file \o <<>> = file
          /\ batch = <<>> => Rows = file
          /\ Len(file) = Len(Rows) => batch = <<>>
          /\ DOMAIN Rows = 1 .. Len(Rows)
<1> DEFINE S == Addresses \cup {NoAddress}
<1>1. batch \in Seq(S) /\ file \in Seq(S)
  BY DEF DataType
<1> HIDE DEF S
<1>2. /\ Rows \in Seq(S) /\ Len(Rows) = Len(file) + Len(batch)
      /\ \A i \in 1 .. Len(file) + Len(batch) :
            Rows[i] = IF i <= Len(file) THEN file[i] ELSE batch[i - Len(file)]
  BY <1>1, ConcatProperties DEF Rows
<1>3. Len(file) \in Nat /\ Len(batch) \in Nat /\ Len(Rows) \in Nat
  BY <1>1, <1>2
<1>4. \A i \in 1 .. Len(file) : file[i] = Rows[i] /\ i \in 1 .. Len(Rows)
  BY <1>2, <1>3
<1>5. file \o <<>> = file /\ (batch = <<>> => Rows = file)
  BY <1>1, ConcatEmptySeq DEF Rows
<1>6. Len(batch) = 0 => batch = <<>>
  BY <1>1, EmptySeq
<1>7. DOMAIN Rows = 1 .. Len(Rows)
  BY <1>2
<1> QED
  BY <1>2, <1>3, <1>4, <1>5, <1>6, <1>7 DEF S

\* What zmap has found stays found.
LEMMA FoundGrows ==
    ASSUME found \in Seq(Addresses), NEW a \in Addresses
    PROVE ToSet(Append(found, a)) = ToSet(found) \cup {a}
<1>1. /\ Len(Append(found, a)) = Len(found) + 1 /\ Len(found) \in Nat
      /\ \A i \in 1 .. Len(found) : Append(found, a)[i] = found[i]
      /\ Append(found, a)[Len(found) + 1] = a
      /\ DOMAIN Append(found, a) = 1 .. Len(found) + 1 /\ DOMAIN found = 1 .. Len(found)
  BY AppendProperties
<1> QED
  BY <1>1 DEF ToSet

-----------------------------------------------------------------------------
(* The steps *)

\* The variables of the pipe, and those of the writer.
pipeVars == <<zmapVars, pipe>>

\* zmap ends, perhaps in the middle of a line.
Ends == ScanEnds \/ Crashes \/ Terminates

LEMMA EndsEffect ==
    ASSUME TypeOK, Ends
    PROVE /\ zmap = "running" /\ zmap' \in {"ok", "error"} /\ UNCHANGED <<lines, found>>
          /\ \/ UNCHANGED pipe
             \/ /\ Len(pipe) < PipeCapacity
                /\ \E a \in Addresses \cup {NoAddress} : pipe' = Append(pipe, <<"cut", a>>)
          /\ UNCHANGED <<configVars, point, headerSeen, cancelled, stopped, interrupted,
                         writerVars, parseErr, closeErr, result>>
BY DEF Ends, ScanEnds, Crashes, Terminates, Dies

\* Run takes a line from the pipe.
Reads == ReadHeader \/ SkipLine \/ StreamRow

\* The row is left out: it is a duplicate, or cannot be parsed.
RowSkipped ==
    /\ UNCHANGED writerVars
    /\ \/ /\ point' = "stream" /\ UNCHANGED <<parseErr, cancelled>>
          /\ Deduplicates /\ Head(pipe)[2] \in seen
       \/ point' = "wait" /\ parseErr' = "error" /\ cancelled' = TRUE

\* The row reaches the writer.
RowQueued(address) ==
    /\ Rows' = Append(Rows, address)
    /\ batch' \in Seq(Addresses \cup {NoAddress}) /\ file' \in Seq(Addresses \cup {NoAddress})
    /\ Deduplicates => address \notin seen \cup {NoAddress} /\ seen' = seen \cup {address}
    /\ ~Deduplicates => seen' = seen
    /\ broken' = (Head(pipe)[1] = "cut")
    /\ \/ /\ Len(batch') <= BatchSize /\ written' = written
          /\ point' = "wait" /\ parseErr' = "error" /\ cancelled' = TRUE
       \/ /\ Len(batch') < BatchSize /\ written' = written + 1 /\ parseErr' = parseErr
          /\ \/ LimitReached /\ point' = "wait" /\ cancelled' = TRUE
             \/ ~LimitReached /\ point' = "stream" /\ cancelled' = cancelled

LEMMA StreamRowEffect ==
    ASSUME TypeOK, DataType, CounterInv, StreamRow
    PROVE /\ At("next") /\ pipe # <<>> /\ pipe' = Tail(pipe) /\ IsRow(Head(pipe))
          /\ Head(pipe) \in Lines
          /\ RowSkipped \/ RowQueued(Head(pipe)[2])
          /\ UNCHANGED <<configVars, zmapVars, interrupted, closeErr, result>>
<1> DEFINE a == Head(pipe)[2]
<1>1. /\ At("next") /\ pipe # <<>> /\ pipe' = Tail(pipe) /\ IsRow(Head(pipe))
      /\ UNCHANGED <<configVars, zmapVars, interrupted, closeErr, result>>
  BY DEF StreamRow, Readable
<1>2. Head(pipe) \in Lines
  BY <1>1, HeadTailProperties DEF TypeOK
<1>3. a \in Addresses \cup {NoAddress}
  BY <1>2 DEF Lines
<1>b. Len(batch) < BatchSize /\ Len(batch) \in Nat /\ BatchSize \in Nat
  BY <1>1, RowsFacts, ZMapStageAssumption DEF CounterInv, Reading, At
<1>4. CASE Deduplicates /\ a = NoAddress /\ StreamEnds("error") /\ UNCHANGED writerVars
  BY <1>1, <1>2, <1>4 DEF RowSkipped, StreamEnds, StopIf, writerVars
<1>5. CASE /\ Deduplicates /\ a \in seen
           /\ point' = "stream" /\ UNCHANGED <<writerVars, parseErr, cancelled, stopped>>
  BY <1>1, <1>2, <1>5 DEF RowSkipped, writerVars
<1>6. CASE /\ Deduplicates => a \notin seen \cup {NoAddress}
           /\ IF Deduplicates THEN Add(a) ELSE UNCHANGED seen
           /\ broken' = (Head(pipe)[1] = "cut")
           /\ \/ AppendFails(a)
              \/ /\ AppendRow(a)
                 /\ written' = written + 1
                 /\ UNCHANGED parseErr
                 /\ IF LimitReached
                    THEN point' = "wait" /\ cancelled' = TRUE /\ stopped' = TRUE
                    ELSE point' = "stream" /\ UNCHANGED <<cancelled, stopped>>
  <2>1. /\ Deduplicates => a \notin seen \cup {NoAddress} /\ seen' = seen \cup {a}
        /\ ~Deduplicates => seen' = seen
        /\ broken' = (Head(pipe)[1] = "cut")
    BY <1>6 DEF Add
  <2>2. CASE AppendFails(a)
    <3>1. /\ batch' = Append(batch, a) /\ UNCHANGED <<file, written>>
          /\ point' = "wait" /\ parseErr' = "error" /\ cancelled' = TRUE
      BY <2>2 DEF AppendFails, StreamEnds, StopIf
    <3>2. Rows' = Append(Rows, a) /\ batch' \in Seq(Addresses \cup {NoAddress})
      BY <1>3, <3>1, AppendRows DEF Rows
    <3>3. Len(batch') <= BatchSize
      BY <1>3, <1>b, <3>1, AppendRows
    <3> QED
      BY <1>1, <1>2, <2>1, <3>1, <3>2, <3>3 DEF RowQueued, DataType
  <2>3. CASE /\ AppendRow(a) /\ written' = written + 1 /\ UNCHANGED parseErr
             /\ IF LimitReached
                THEN point' = "wait" /\ cancelled' = TRUE /\ stopped' = TRUE
                ELSE point' = "stream" /\ UNCHANGED <<cancelled, stopped>>
    <3>1. /\ Rows' = Append(Rows, a) /\ Len(batch') < BatchSize
          /\ batch' \in Seq(Addresses \cup {NoAddress})
          /\ file' \in Seq(Addresses \cup {NoAddress})
      <4>1. CASE Len(Append(batch, a)) < BatchSize /\ batch' = Append(batch, a) /\ UNCHANGED file
        BY <1>3, <4>1, AppendRows DEF Rows, DataType
      <4>2. CASE batch' = <<>> /\ file' = file \o Append(batch, a)
        <5>1. Rows' = Append(Rows, a) /\ file' \in Seq(Addresses \cup {NoAddress})
          BY <1>3, <4>2, AppendRows DEF Rows
        <5>2. batch' \in Seq(Addresses \cup {NoAddress}) /\ Len(batch') = 0
          BY <4>2
        <5> QED
          BY <5>1, <5>2, ZMapStageAssumption
      <4> QED
        BY <2>3, <4>1, <4>2 DEF AppendRow
    <3>2. \/ LimitReached /\ point' = "wait" /\ cancelled' = TRUE
          \/ ~LimitReached /\ point' = "stream" /\ cancelled' = cancelled
      BY <2>3
    <3> QED
      BY <1>1, <1>2, <2>1, <2>3, <3>1, <3>2 DEF RowQueued
  <2> QED
    BY <1>6, <2>2, <2>3
<1> QED
  BY <1>1, <1>2, <1>4, <1>5, <1>6 DEF StreamRow

\* Taking a line leaves the others in their places.
LEMMA ReadsEffect ==
    ASSUME TypeOK, Reads
    PROVE /\ pipe # <<>> /\ pipe' = Tail(pipe) /\ UNCHANGED zmapVars
          /\ Head(pipe) \in Lines /\ Head(pipe) = pipe[1]
          /\ pipe' \in Seq(Lines) /\ Len(pipe') = Len(pipe) - 1
          /\ Len(pipe) \in Nat \ {0} /\ Len(pipe') \in Nat
          /\ \A i \in 1 .. Len(pipe') : pipe'[i] = pipe[i + 1] /\ i + 1 \in 1 .. Len(pipe)
<1>1. pipe # <<>> /\ pipe' = Tail(pipe) /\ UNCHANGED zmapVars
  BY DEF Reads, ReadHeader, SkipLine, StreamRow, Readable
<1>2. pipe \in Seq(Lines)
  BY DEF TypeOK
<1>3. /\ Head(pipe) \in Lines /\ Tail(pipe) \in Seq(Lines) /\ Len(Tail(pipe)) = Len(pipe) - 1
      /\ \A i \in 1 .. Len(Tail(pipe)) : Tail(pipe)[i] = pipe[i + 1]
  BY <1>1, <1>2, HeadTailProperties
<1>4. Len(pipe) \in Nat \ {0} /\ Head(pipe) = pipe[1]
  BY <1>1, <1>2, EmptySeq
<1> QED
  BY <1>1, <1>3, <1>4

\* zmap writes a line.
LEMMA WriteLineEffect ==
    ASSUME TypeOK, WriteLine
    PROVE /\ zmap = "running" /\ UNCHANGED zmap
          /\ Len(pipe) < PipeCapacity /\ lines' = lines + 1 /\ lines < plan
          /\ \E line \in Lines :
                /\ pipe' = Append(pipe, line) /\ line[1] # "cut"
                /\ line[1] = "row" => line[2] \in Addresses
                /\ line[1] = "row" => Deduplicates \/ line[2] \notin ToSet(found)
                /\ found' = IF line[1] = "row" THEN Append(found, line[2]) ELSE found
          /\ ~EnoughResults
          /\ UNCHANGED <<configVars, point, headerSeen, cancelled, stopped, interrupted,
                         writerVars, parseErr, closeErr, result>>
BY DEF WriteLine

\* The steps of the command that leave pipe and writer alone.
Controls ==
    \/ Start \/ NewWriter \/ Abandon \/ CheckContext \/ EndOfFile \/ Wait \/ Report \/ Upload
    \/ Signal

LEMMA ControlsEffect ==
    ASSUME Controls
    PROVE /\ UNCHANGED <<configVars, lines, found, pipe, writerVars, closeErr>>
          /\ zmap' = zmap \/ (At("start") /\ zmap' = "running" /\ point' = "create")
BY DEF Controls, Start, NewWriter, Abandon, CheckContext, EndOfFile, Wait, Report, Upload,
       Signal, zmapVars

\* There are no other steps.
LEMMA StepKinds ==
    ASSUME [Next]_vars
    PROVE \/ WriteLine \/ Ends \/ Reads \/ CloseWriter \/ Controls \/ UNCHANGED vars
BY DEF Next, RunSteps, ZMap, Ends, Reads, Controls

\* Close writes the rest of the batch, or cannot.
LEMMA CloseWriterEffect ==
    ASSUME DataType, CloseWriter
    PROVE /\ At("close") /\ point' = "report" /\ Len(batch') = 0
          /\ batch' \in Seq(Addresses \cup {NoAddress}) /\ file' \in Seq(Addresses \cup {NoAddress})
          /\ Rows' = Rows \/ (Rows' = file /\ closeErr')
          /\ batch' = <<>>
          /\ UNCHANGED <<configVars, zmapVars, pipe, cancelled, interrupted, seen, written,
                         broken, parseErr, result>>
<1>1. batch' = <<>> /\ (file' = Rows \/ (file' = file /\ closeErr'))
  BY DEF CloseWriter, FlushBatch, Rows
<1>2. file' \in Seq(Addresses \cup {NoAddress})
  BY <1>1, RowsFacts DEF DataType
<1>3. Rows' = file'
  BY <1>1, <1>2, ConcatEmptySeq DEF Rows
<1>4. batch' \in Seq(Addresses \cup {NoAddress}) /\ Len(batch') = 0
  BY <1>1
<1> QED
  BY <1>1, <1>2, <1>3, <1>4 DEF CloseWriter

-----------------------------------------------------------------------------
(* Type correctness, by parts *)

ScanType ==
    /\ zmap \in {"off", "running", "ok", "error"} /\ lines \in 0 .. plan
    /\ pipe \in Seq(Lines) /\ Len(pipe) <= PipeCapacity
    /\ found \in Seq(Addresses)

WriterType ==
    /\ seen \subseteq Addresses /\ Len(batch) <= BatchSize
    /\ batch \in Seq(Addresses \cup {NoAddress})
    /\ file \in Seq(Addresses \cup {NoAddress})
    /\ written \in Nat

StateType ==
    /\ point \in {"start", "create", "abandon", "stream", "next", "wait", "close", "report",
                  "upload", "done"}
    /\ parseErr \in {"none", "canceled", "error"}
    /\ result \in {"none", "ok", "error", "uploaded", "not uploaded", "killed"}

ConfigType == payload \in Payloads /\ limit \in Limits /\ plan \in 0 .. MaxLines

LEMMA TypeParts ==
    /\ TypeOK /\ DataType <=> ConfigType /\ ScanType /\ WriterType /\ StateType
    /\ (TypeOK /\ DataType)' <=> ConfigType' /\ ScanType' /\ WriterType' /\ StateType'
BY DEF TypeOK, DataType, ConfigType, ScanType, WriterType, StateType

\* The configuration never changes.
LEMMA ConfigStep == TypeOK /\ DataType /\ [Next]_vars => UNCHANGED configVars
<1> SUFFICES ASSUME TypeOK, DataType, [Next]_vars PROVE UNCHANGED configVars
  OBVIOUS
<1>1. CASE Reads
  BY <1>1 DEF Reads, ReadHeader, SkipLine, StreamRow
<1>2. CASE UNCHANGED vars
  BY <1>2 DEF vars
<1> QED
  BY <1>1, <1>2, StepKinds, WriteLineEffect, EndsEffect, CloseWriterEffect, ControlsEffect

\* The control state of the command, by step.
LEMMA StateStep ==
    TypeOK /\ DataType /\ CounterInv /\ [Next]_vars => StateType'
<1> SUFFICES ASSUME TypeOK, DataType, CounterInv, [Next]_vars PROVE StateType'
  OBVIOUS
<1>t. StateType
  BY TypeParts
<1> USE DEF StateType
<1>1. CASE WriteLine
  BY <1>1, <1>t, WriteLineEffect
<1>2. CASE Ends
  BY <1>2, <1>t, EndsEffect
<1>3. CASE ReadHeader \/ SkipLine
  BY <1>3, <1>t DEF ReadHeader, SkipLine, StreamEnds
<1>4. CASE StreamRow
  BY <1>4, <1>t, StreamRowEffect DEF RowSkipped, RowQueued
<1>5. CASE CloseWriter
  BY <1>5, <1>t, CloseWriterEffect
<1>6. CASE Controls
  BY <1>6, <1>t DEF Controls, Start, NewWriter, Abandon, CheckContext, EndOfFile, Wait, Report,
                    Upload, Signal, StreamEnds
<1>7. CASE UNCHANGED vars
  BY <1>7, <1>t DEF vars
<1> QED
  BY <1>1, <1>2, <1>3, <1>4, <1>5, <1>6, <1>7, StepKinds DEF Reads

\* Every step keeps every variable in its type.
LEMMA TypeStep ==
    TypeOK /\ DataType /\ CounterInv /\ [Next]_vars => (TypeOK /\ DataType)'
<1> SUFFICES ASSUME TypeOK, DataType, CounterInv, [Next]_vars PROVE (TypeOK /\ DataType)'
  OBVIOUS
<1>t. ConfigType /\ ScanType /\ WriterType
  BY TypeParts
<1>1. ConfigType' /\ UNCHANGED plan
  BY <1>t, ConfigStep DEF ConfigType, configVars
<1>2. ScanType'
  <2>p. Len(pipe) \in Nat /\ PipeCapacity \in Nat
    BY <1>t, ZMapStageAssumption DEF ScanType
  <2>1. CASE WriteLine
    <3>1. PICK line \in Lines :
            /\ pipe' = Append(pipe, line)
            /\ line[1] = "row" => line[2] \in Addresses
            /\ found' = IF line[1] = "row" THEN Append(found, line[2]) ELSE found
      BY <2>1, WriteLineEffect
    <3>2. pipe' \in Seq(Lines) /\ Len(pipe') = Len(pipe) + 1
      BY <1>t, <3>1, AppendProperties DEF ScanType
    <3>3. found' \in Seq(Addresses)
      BY <1>t, <3>1, AppendProperties DEF ScanType
    <3>4. lines' \in 0 .. plan'
      BY <1>1, <1>t, <2>1, WriteLineEffect DEF ScanType, ConfigType
    <3> QED
      BY <1>t, <2>p, <2>1, <3>2, <3>3, <3>4, WriteLineEffect DEF ScanType
  <2>2. CASE Ends
    <3>1. pipe' \in Seq(Lines) /\ Len(pipe') <= PipeCapacity
      <4>1. CASE UNCHANGED pipe
        BY <1>t, <4>1 DEF ScanType
      <4>2. ASSUME NEW a \in Addresses \cup {NoAddress}, pipe' = Append(pipe, <<"cut", a>>),
                   Len(pipe) < PipeCapacity
            PROVE pipe' \in Seq(Lines) /\ Len(pipe') <= PipeCapacity
        <5>1. <<"cut", a>> \in Lines
          BY DEF Lines
        <5>2. pipe' \in Seq(Lines) /\ Len(pipe') = Len(pipe) + 1
          BY <1>t, <4>2, <5>1, AppendProperties DEF ScanType
        <5> QED
          BY <2>p, <4>2, <5>2
      <4> QED
        BY <2>2, <4>1, <4>2, EndsEffect
    <3> QED
      BY <1>t, <1>1, <2>2, <3>1, EndsEffect DEF ScanType
  <2>3. CASE Reads
    BY <1>t, <1>1, <2>p, <2>3, ReadsEffect DEF ScanType, zmapVars
  <2>4. CASE Controls
    BY <1>t, <1>1, <2>4, ControlsEffect DEF ScanType
  <2>5. CASE CloseWriter \/ UNCHANGED vars
    BY <1>t, <1>1, <2>5 DEF CloseWriter, vars, ScanType, zmapVars
  <2> QED
    BY <2>1, <2>2, <2>3, <2>4, <2>5, StepKinds
<1>3. WriterType'
  <2>1. CASE UNCHANGED writerVars
    BY <1>t, <2>1 DEF WriterType, writerVars
  <2>2. CASE StreamRow /\ ~UNCHANGED writerVars
    <3>1. /\ RowQueued(Head(pipe)[2]) /\ Head(pipe) \in Lines
      BY <2>2, StreamRowEffect DEF RowSkipped
    <3>2. Head(pipe)[2] \in Addresses \cup {NoAddress}
      BY <3>1 DEF Lines
    <3>3. Len(batch') <= BatchSize
      <4>1. Len(batch') \in Nat
        BY <3>1 DEF RowQueued
      <4> QED
        BY <3>1, <4>1, ZMapStageAssumption DEF RowQueued
    <3>4. seen' \subseteq Addresses
      BY <1>t, <3>1, <3>2 DEF WriterType, RowQueued
    <3>5. written' \in Nat
      BY <1>t, <3>1 DEF WriterType, RowQueued
    <3> QED
      BY <3>1, <3>3, <3>4, <3>5 DEF WriterType, RowQueued
  <2>3. CASE CloseWriter
    BY <1>t, <2>3, CloseWriterEffect, ZMapStageAssumption DEF WriterType
  <2>4. CASE ReadHeader \/ SkipLine
    BY <2>1, <2>4 DEF ReadHeader, SkipLine
  <2>5. CASE UNCHANGED vars
    BY <2>1, <2>5 DEF vars
  <2> QED
    BY <2>1, <2>2, <2>3, <2>4, <2>5, StepKinds, WriteLineEffect, EndsEffect, ControlsEffect
       DEF Reads
<1> QED
  BY <1>1, <1>2, <1>3, StateStep, TypeParts

-----------------------------------------------------------------------------
(* The other parts of the invariant *)

\* The command waits for zmap before it reports.
LEMMA StageStep ==
    TypeOK /\ DataType /\ CounterInv /\ StageInv /\ [Next]_vars => StageInv'
<1> SUFFICES ASSUME TypeOK, DataType, CounterInv, StageInv, [Next]_vars PROVE StageInv'
  OBVIOUS
<1>t. /\ zmap \in {"off", "running", "ok", "error"}
      /\ result \in {"none", "ok", "error", "uploaded", "not uploaded", "killed"}
  BY DEF TypeOK
<1> USE DEF StageInv, At, Waited, Successful, Reading, NothingLeftRunning
<1>1. CASE WriteLine
  BY <1>1, WriteLineEffect DEF writerVars
<1>2. CASE Ends
  BY <1>2, EndsEffect DEF writerVars
<1>3. CASE ReadHeader \/ SkipLine
  BY <1>3 DEF ReadHeader, SkipLine, StreamEnds, zmapVars, writerVars, Readable
<1>4. CASE StreamRow
  BY <1>4, StreamRowEffect DEF RowSkipped, RowQueued, zmapVars, writerVars
<1>5. CASE CloseWriter
  BY <1>5, CloseWriterEffect DEF zmapVars
<1>6. CASE Start \/ NewWriter \/ Abandon
  BY <1>6, <1>t DEF Start, NewWriter, Abandon, zmapVars, writerVars
<1>7. CASE CheckContext \/ EndOfFile \/ Wait
  BY <1>7, <1>t DEF CheckContext, EndOfFile, Wait, StreamEnds, zmapVars, writerVars
<1>8. CASE Report \/ Upload \/ Signal
  BY <1>8, <1>t DEF Report, Upload, Signal, zmapVars, writerVars
<1>9. CASE UNCHANGED vars
  BY <1>9 DEF vars, zmapVars, writerVars
<1> QED
  BY <1>1, <1>2, <1>3, <1>4, <1>5, <1>6, <1>7, <1>8, <1>9, StepKinds DEF Reads, Controls

\* A line that breaks off is the last one.
LEMMA PipeStep ==
    TypeOK /\ DataType /\ CounterInv /\ StageInv /\ PipeInv /\ [Next]_vars => PipeInv'
<1> SUFFICES ASSUME TypeOK, DataType, CounterInv, StageInv, PipeInv, [Next]_vars PROVE PipeInv'
  OBVIOUS
<1>p. pipe \in Seq(Lines) /\ found \in Seq(Addresses)
  BY DEF TypeOK, DataType
<1>t. pipe \in Seq(Lines) /\ found \in Seq(Addresses) /\ Len(pipe) \in Nat
  BY <1>p
<1>1. CASE WriteLine
  <2>1. PICK line \in Lines :
          /\ pipe' = Append(pipe, line) /\ line[1] # "cut"
          /\ line[1] = "row" => line[2] \in Addresses
          /\ found' = IF line[1] = "row" THEN Append(found, line[2]) ELSE found
    BY <1>1, WriteLineEffect
  <2>2. ToSet(found) \subseteq ToSet(found')
    BY <1>t, <2>1, FoundGrows
  <2>3. line[1] = "row" => line[2] \in ToSet(found')
    BY <1>t, <2>1, FoundGrows
  <2>4. ~Waited /\ ~broken' /\ \A i \in 1 .. Len(pipe) : pipe[i][1] # "cut"
    BY <1>1, WriteLineEffect DEF PipeInv, Waited, writerVars
  <2>5. \A i \in 1 .. Len(pipe') :
          pipe'[i] = line \/ (i \in 1 .. Len(pipe) /\ pipe'[i] = pipe[i])
    BY <1>t, <2>1
  <2> QED
    BY <2>1, <2>2, <2>3, <2>4, <2>5 DEF PipeInv
<1>2. CASE Ends
  <2>1. zmap = "running" /\ Waited' /\ UNCHANGED <<found, broken>>
    BY <1>2, EndsEffect DEF Waited, writerVars
  <2>2. ~broken /\ \A i \in 1 .. Len(pipe) : pipe[i][1] # "cut"
    BY <2>1 DEF PipeInv, Waited
  <2>3. CASE UNCHANGED pipe
    BY <2>1, <2>2, <2>3 DEF PipeInv
  <2>4. ASSUME NEW a \in Addresses \cup {NoAddress}, pipe' = Append(pipe, <<"cut", a>>)
        PROVE PipeInv'
    <3>1. <<"cut", a>> \in Lines
      BY DEF Lines
    <3>2. /\ Len(pipe') = Len(pipe) + 1 /\ pipe'[Len(pipe) + 1] = <<"cut", a>>
          /\ \A i \in 1 .. Len(pipe) : pipe'[i] = pipe[i]
      BY <1>t, <2>4, <3>1, AppendProperties
    <3>3. \A i \in 1 .. Len(pipe') :
            \/ i = Len(pipe') /\ pipe'[i] = <<"cut", a>>
            \/ i \in 1 .. Len(pipe) /\ pipe'[i] = pipe[i]
      BY <1>t, <3>2
    <3> QED
      BY <2>1, <2>2, <3>3 DEF PipeInv
  <2> QED
    BY <1>2, <2>3, <2>4, EndsEffect
<1>3. CASE Reads
  <2>1. /\ pipe # <<>> /\ UNCHANGED <<zmap, found>> /\ Head(pipe) = pipe[1]
        /\ Len(pipe') = Len(pipe) - 1 /\ pipe' \in Seq(Lines)
        /\ Len(pipe) \in Nat \ {0} /\ Len(pipe') \in Nat
        /\ \A i \in 1 .. Len(pipe') : pipe'[i] = pipe[i + 1] /\ i + 1 \in 1 .. Len(pipe)
    BY <1>3, ReadsEffect DEF zmapVars
  <2>2. ~broken
    BY <2>1 DEF PipeInv
  <2>3. \A i \in 1 .. Len(pipe') :
          /\ pipe'[i][1] = "row" => pipe'[i][2] \in ToSet(found')
          /\ pipe'[i][1] = "cut" => i = Len(pipe') /\ Waited'
    <3> SUFFICES ASSUME NEW i \in 1 .. Len(pipe')
                 PROVE /\ pipe'[i][1] = "row" => pipe'[i][2] \in ToSet(found')
                       /\ pipe'[i][1] = "cut" => i = Len(pipe') /\ Waited'
      OBVIOUS
    <3>1. pipe'[i] = pipe[i + 1] /\ i + 1 \in 1 .. Len(pipe)
      BY <2>1
    <3>2. i + 1 = Len(pipe) => i = Len(pipe')
      BY <2>1
    <3> QED
      BY <2>1, <3>1, <3>2 DEF PipeInv, Waited
  <2>4. broken' => pipe' = <<>> /\ Waited'
    <3>1. broken' => Head(pipe)[1] = "cut"
      BY <1>3, <2>2, StreamRowEffect DEF Reads, ReadHeader, SkipLine, RowSkipped, RowQueued, writerVars
    <3>2. Head(pipe)[1] = "cut" => Len(pipe) = 1 /\ Waited
      BY <2>1 DEF PipeInv
    <3>3. Len(pipe') = 0 => pipe' = <<>>
      BY <2>1, EmptySeq
    <3> QED
      BY <2>1, <3>1, <3>2, <3>3 DEF Waited
  <2> QED
    BY <2>3, <2>4 DEF PipeInv
<1>4. CASE Controls
  <2>1. UNCHANGED <<found, pipe, broken>>
    BY <1>4, ControlsEffect DEF writerVars
  <2>2. Waited => Waited'
    BY <1>4, ControlsEffect DEF StageInv, Waited
  <2> QED
    BY <2>1, <2>2 DEF PipeInv
<1>5. CASE CloseWriter
  BY <1>5, CloseWriterEffect DEF PipeInv, zmapVars, Waited
<1>6. CASE UNCHANGED vars
  BY <1>6 DEF vars, PipeInv, zmapVars, writerVars, Waited
<1> QED
  BY <1>1, <1>2, <1>3, <1>4, <1>5, <1>6, StepKinds

\* GenuineRows, of the rows by their name.
RowsGenuine ==
    /\ \A i \in 1 .. Len(Rows) : Rows[i] \in ToSet(found) \/ (broken /\ i = Len(Rows))
    /\ Deduplicates => /\ \A i, j \in 1 .. Len(Rows) : Rows[i] = Rows[j] => i = j
                       /\ \A i \in 1 .. Len(Rows) : Rows[i] \in seen
                       /\ limit > 0 => Len(Rows) <= limit

LEMMA RowsInvParts ==
    /\ DataType => (RowsInv <=> RowsGenuine)
    /\ DataType' => (RowsInv' <=> RowsGenuine')
<1>1. ASSUME DataType PROVE RowsInv <=> RowsGenuine
  <2>1. DOMAIN Rows = 1 .. Len(Rows)
    BY <1>1, RowsFacts
  <2> QED
    BY <2>1 DEF RowsInv, RowsGenuine, GenuineRows, Deduplicates, Rows
<1>2. ASSUME DataType' PROVE RowsInv' <=> RowsGenuine'
  <2>1. Rows' \in Seq(Addresses \cup {NoAddress})
    BY <1>2, ConcatProperties DEF DataType, Rows
  <2>2. DOMAIN Rows' = 1 .. Len(Rows')
    BY <2>1
  <2> QED
    BY <2>2 DEF RowsInv, RowsGenuine, GenuineRows, Deduplicates, Rows
<1> QED
  BY <1>1, <1>2

\* The rows of the writer are responders, without duplicates and within the limit.
LEMMA RowsStep ==
    TypeOK /\ DataType /\ PipeInv /\ CounterInv /\ RowsInv /\ [Next]_vars => RowsInv'
<1> SUFFICES ASSUME TypeOK, DataType, PipeInv, CounterInv, RowsInv, [Next]_vars
             PROVE RowsGenuine'
  BY TypeStep, RowsInvParts
<1>t. /\ UNCHANGED configVars /\ limit \in Nat /\ found \in Seq(Addresses)
      /\ Rows \in Seq(Addresses \cup {NoAddress}) /\ Len(Rows) \in Nat /\ RowsGenuine
  BY ConfigStep, RowsFacts, RowsInvParts, ZMapStageAssumption DEF TypeOK, DataType
<1>c. UNCHANGED limit /\ Deduplicates' = Deduplicates
  BY <1>t DEF configVars, Deduplicates
<1>1. ASSUME UNCHANGED writerVars, ToSet(found) \subseteq ToSet(found') PROVE RowsGenuine'
  <2>1. UNCHANGED <<broken, seen>> /\ Rows' = Rows
    BY <1>1 DEF writerVars, Rows
  <2> QED
    BY <1>t, <1>c, <1>1, <2>1 DEF RowsGenuine
<1>2. CASE WriteLine
  <2>1. ToSet(found) \subseteq ToSet(found')
    BY <1>2, <1>t, WriteLineEffect, FoundGrows
  <2> QED
    BY <1>1, <1>2, <2>1, WriteLineEffect
<1>3. CASE Ends \/ Controls
  <2>1. UNCHANGED found /\ UNCHANGED writerVars
    BY <1>3, EndsEffect, ControlsEffect
  <2> QED
    BY <1>1, <2>1
<1>4. CASE ReadHeader \/ SkipLine \/ UNCHANGED vars
  <2>1. UNCHANGED found /\ UNCHANGED writerVars
    BY <1>4 DEF ReadHeader, SkipLine, vars, zmapVars
  <2> QED
    BY <1>1, <2>1
<1>5. CASE StreamRow
  <2> DEFINE a == Head(pipe)[2]
  <2>1. /\ pipe # <<>> /\ IsRow(Head(pipe)) /\ Head(pipe) \in Lines /\ point = "next"
        /\ RowSkipped \/ RowQueued(a)
        /\ UNCHANGED found
    BY <1>5, StreamRowEffect DEF zmapVars, At
  <2>2. CASE RowSkipped
    BY <1>1, <2>1, <2>2 DEF RowSkipped
  <2>3. CASE RowQueued(a)
    <3>1. a \in Addresses \cup {NoAddress}
      BY <2>1 DEF Lines
    <3>2. ~broken /\ (a \in ToSet(found) \/ broken')
      <4>1. pipe \in Seq(Lines) /\ Head(pipe) = pipe[1] /\ 1 \in 1 .. Len(pipe)
        <5>1. Head(pipe) = pipe[1] /\ Len(pipe) \in Nat \ {0}
          BY <1>5, ReadsEffect DEF Reads
        <5>2. pipe \in Seq(Lines)
          BY DEF TypeOK
        <5> QED
          BY <5>1, <5>2
      <4>2. Head(pipe)[1] = "row" \/ Head(pipe)[1] = "cut"
        BY <2>1 DEF IsRow
      <4> QED
        BY <2>1, <2>3, <4>1, <4>2 DEF PipeInv, RowQueued
    <3>3. written = Len(Rows) /\ (TargetLimit > 0 => written < TargetLimit)
      BY <2>1 DEF CounterInv, Reading
    <3>4. /\ Len(Rows') = Len(Rows) + 1 /\ Rows'[Len(Rows) + 1] = a
          /\ \A i \in 1 .. Len(Rows) : Rows'[i] = Rows[i]
      BY <1>t, <2>3, <3>1, AppendProperties DEF RowQueued
    <3> HIDE DEF a
    <3>5. \A i \in 1 .. Len(Rows') :
            (i = Len(Rows') /\ Rows'[i] = a) \/ (i \in 1 .. Len(Rows) /\ Rows'[i] = Rows[i])
      BY <1>t, <3>4
    <3>6. \A i \in 1 .. Len(Rows') : Rows'[i] \in ToSet(found') \/ (broken' /\ i = Len(Rows'))
      BY <1>t, <2>1, <3>2, <3>5 DEF RowsGenuine
    <3>7. ASSUME Deduplicates
          PROVE /\ \A i, j \in 1 .. Len(Rows') : Rows'[i] = Rows'[j] => i = j
                /\ \A i \in 1 .. Len(Rows') : Rows'[i] \in seen'
                /\ limit > 0 => Len(Rows') <= limit
      <4>1. a \notin seen /\ seen' = seen \cup {a}
        BY <2>3, <3>7 DEF RowQueued
      <4>2. \A i \in 1 .. Len(Rows) : Rows[i] \in seen /\ Rows[i] # a
        BY <1>t, <3>7, <4>1 DEF RowsGenuine
      <4>3. \A i \in 1 .. Len(Rows') : Rows'[i] \in seen'
        BY <3>5, <4>1, <4>2
      <4>4. \A i, j \in 1 .. Len(Rows') : Rows'[i] = Rows'[j] => i = j
        BY <1>t, <3>5, <3>7, <4>2 DEF RowsGenuine
      <4>5. TargetLimit = limit
        BY <3>7 DEF TargetLimit
      <4>6. limit > 0 => Len(Rows') <= limit
        BY <1>t, <3>3, <3>4, <4>5
      <4> QED
        BY <4>3, <4>4, <4>6
    <3> QED
      BY <1>c, <3>6, <3>7 DEF RowsGenuine
  <2> QED
    BY <2>1, <2>2, <2>3
<1>6. CASE CloseWriter
  <2>1. UNCHANGED <<found, seen, broken>> /\ (Rows' = Rows \/ Rows' = file)
    BY <1>6, CloseWriterEffect DEF zmapVars
  <2>2. CASE Rows' = Rows
    BY <1>t, <1>c, <2>1, <2>2 DEF RowsGenuine
  <2>3. CASE Rows' = file
    <3>1. /\ Len(file) \in Nat /\ Len(file) <= Len(Rows)
          /\ \A i \in 1 .. Len(file) : file[i] = Rows[i] /\ i \in 1 .. Len(Rows)
      BY RowsFacts
    <3>2. \A i \in 1 .. Len(file) : i = Len(Rows) => i = Len(file)
      BY <1>t, <3>1
    <3>3. \A i \in 1 .. Len(file) : file[i] \in ToSet(found) \/ (broken /\ i = Len(file))
      BY <1>t, <3>1, <3>2 DEF RowsGenuine
    <3>4. Deduplicates => /\ \A i, j \in 1 .. Len(file) : file[i] = file[j] => i = j
                          /\ \A i \in 1 .. Len(file) : file[i] \in seen
      BY <1>t, <3>1 DEF RowsGenuine
    <3>5. Deduplicates /\ limit > 0 => Len(file) <= limit
      BY <1>t, <3>1 DEF RowsGenuine
    <3> QED
      BY <1>c, <2>1, <2>3, <3>3, <3>4, <3>5 DEF RowsGenuine
  <2> QED
    BY <2>1, <2>2, <2>3
<1> QED
  BY <1>2, <1>3, <1>4, <1>5, <1>6, StepKinds DEF Reads

\* The counter is the number of rows as long as rows are read.
LEMMA CounterStep ==
    TypeOK /\ DataType /\ CounterInv /\ [Next]_vars => CounterInv'
<1> SUFFICES ASSUME TypeOK, DataType, CounterInv, [Next]_vars PROVE CounterInv'
  OBVIOUS
<1>t. /\ Rows \in Seq(Addresses \cup {NoAddress}) /\ Len(Rows) \in Nat /\ written \in Nat
      /\ limit \in Nat
  BY RowsFacts, ZMapStageAssumption DEF DataType, TypeOK
<1>c. TargetLimit' = TargetLimit /\ TargetLimit \in Nat
  BY <1>t, ConfigStep DEF configVars, TargetLimit, Deduplicates
<1>1. ASSUME UNCHANGED writerVars, Reading' => Reading PROVE CounterInv'
  <2>1. UNCHANGED <<written, batch>> /\ Rows' = Rows
    BY <1>1 DEF writerVars, Rows
  <2> QED
    BY <1>c, <1>1, <2>1 DEF CounterInv
<1>2. CASE WriteLine \/ Ends
  BY <1>1, <1>2, WriteLineEffect, EndsEffect DEF Reading
<1>3. CASE Controls
  <2>1. Reading' => Reading
    BY <1>3 DEF Controls, Start, NewWriter, Abandon, CheckContext, EndOfFile, Wait, Report,
                Upload, Signal, StreamEnds, Reading, At
  <2> QED
    BY <1>1, <1>3, <2>1, ControlsEffect
<1>4. CASE ReadHeader \/ SkipLine \/ UNCHANGED vars
  <2>1. (Reading' => Reading) /\ UNCHANGED writerVars
    BY <1>4 DEF ReadHeader, SkipLine, vars, Readable, StreamEnds, Reading, At
  <2> QED
    BY <1>1, <2>1
<1>5. CASE StreamRow
  <2> DEFINE a == Head(pipe)[2]
  <2>1. /\ Reading /\ Head(pipe) \in Lines
        /\ RowSkipped \/ RowQueued(a)
    BY <1>5, StreamRowEffect DEF Reading, At
  <2>2. CASE RowSkipped
    BY <1>1, <2>1, <2>2 DEF RowSkipped
  <2>3. CASE RowQueued(a)
    <3>1. a \in Addresses \cup {NoAddress}
      BY <2>1 DEF Lines
    <3>2. Len(Rows') = Len(Rows) + 1
      BY <1>t, <2>3, <3>1, AppendProperties DEF RowQueued
    <3>3. Reading' => written' = written + 1 /\ Len(batch') < BatchSize /\ ~LimitReached
      BY <2>3 DEF RowQueued, Reading
    <3>4. written = Len(Rows)
      BY <2>1 DEF CounterInv
    <3> QED
      BY <1>t, <1>c, <3>2, <3>3, <3>4 DEF CounterInv, LimitReached
  <2> QED
    BY <2>1, <2>2, <2>3
<1>6. CASE CloseWriter
  BY <1>6, CloseWriterEffect DEF CounterInv, Reading
<1> QED
  BY <1>2, <1>3, <1>4, <1>5, <1>6, StepKinds DEF Reads

\* The context is cancelled for a reason that the report looks at.
LEMMA CancelStep ==
    TypeOK /\ DataType /\ StageInv /\ CounterInv /\ CancelInv /\ [Next]_vars => CancelInv'
<1> SUFFICES ASSUME TypeOK, DataType, StageInv, CounterInv, CancelInv, [Next]_vars
             PROVE CancelInv'
  OBVIOUS
<1>c. TargetLimit' = TargetLimit /\ TargetLimit \in Nat /\ written \in Nat
  BY ConfigStep, ZMapStageAssumption
     DEF configVars, TargetLimit, Deduplicates, DataType, TypeOK
<1>l. written' = written => (LimitHit' <=> LimitHit)
  BY <1>c DEF LimitHit
<1>s. /\ LimitSucceeds <=> (LimitHit /\ parseErr # "error" /\ ~closeErr => result # "error")
      /\ LimitSucceeds' <=> (LimitHit' /\ parseErr' # "error" /\ ~closeErr' => result' # "error")
  BY DEF LimitSucceeds, LimitHit
<1>1. ASSUME UNCHANGED <<written, cancelled, interrupted, parseErr, closeErr, result, zmap, point>>
      PROVE CancelInv'
  BY <1>l, <1>s, <1>1 DEF CancelInv, Successful, At
<1>2. CASE WriteLine
  BY <1>1, <1>2, WriteLineEffect DEF writerVars
<1>3. CASE Ends
  <2>1. ~Successful
    BY <1>3, EndsEffect DEF StageInv, Waited
  <2>2. UNCHANGED <<written, cancelled, interrupted, parseErr, closeErr, result, point>>
    BY <1>3, EndsEffect DEF writerVars
  <2> QED
    BY <1>l, <1>s, <2>1, <2>2 DEF CancelInv, Successful, At
<1>4. CASE ReadHeader \/ SkipLine
  <2>1. UNCHANGED <<written, interrupted, closeErr, result, zmap>> /\ ~Successful
    BY <1>4 DEF ReadHeader, SkipLine, Readable, writerVars, zmapVars, At, Successful, StageInv
  <2>2. \/ UNCHANGED <<point, parseErr, cancelled>>
        \/ parseErr' = "error" /\ cancelled' = TRUE
    BY <1>4 DEF ReadHeader, SkipLine, StreamEnds, StopIf
  <2>3. point = "next"
    BY <1>4 DEF ReadHeader, SkipLine, Readable, At
  <2>4. CASE UNCHANGED <<point, parseErr, cancelled>>
    BY <1>1, <2>1, <2>4
  <2>5. CASE parseErr' = "error" /\ cancelled' = TRUE
    BY <1>l, <1>s, <2>1, <2>5 DEF CancelInv, Successful
  <2> QED
    BY <2>2, <2>4, <2>5
<1>5. CASE StreamRow
  <2>1. /\ UNCHANGED <<interrupted, closeErr, result, zmap>>
        /\ point = "next" /\ result = "none" /\ parseErr = "none"
        /\ TargetLimit > 0 => written < TargetLimit
        /\ point' \in {"stream", "wait"}
    BY <1>5, StreamRowEffect DEF zmapVars, At, StageInv, CounterInv, Reading, RowSkipped, RowQueued
  <2>2. ~LimitHit /\ (cancelled => interrupted)
    BY <1>c, <2>1 DEF CancelInv, LimitHit, At
  <2>3. \/ written' = written /\ parseErr' = parseErr /\ cancelled' = cancelled
        \/ written' = written /\ parseErr' = "error" /\ cancelled' = TRUE
        \/ /\ written' = written + 1 /\ parseErr' = parseErr
           /\ \/ LimitReached /\ cancelled' = TRUE
              \/ ~LimitReached /\ cancelled' = cancelled
    BY <1>5, StreamRowEffect DEF RowSkipped, RowQueued, writerVars
  <2>4. LimitHit' => cancelled'
    BY <1>c, <2>1, <2>2, <2>3 DEF LimitHit, LimitReached
  <2>5. cancelled' => interrupted' \/ parseErr' = "error" \/ LimitHit'
    <3>1. CASE written' = written + 1 /\ LimitReached
      BY <1>c, <2>1, <3>1 DEF LimitHit, LimitReached
    <3>2. CASE ~(written' = written + 1 /\ LimitReached)
      BY <2>1, <2>2, <2>3, <3>2
    <3> QED
      BY <3>1, <3>2
  <2> QED
    BY <1>s, <2>1, <2>4, <2>5 DEF CancelInv, Successful
<1>6. CASE CloseWriter
  <2>1. /\ UNCHANGED <<written, cancelled, interrupted, parseErr, result, zmap>>
        /\ point = "close" /\ point' = "report" /\ result = "none"
    BY <1>6, CloseWriterEffect DEF zmapVars, At, StageInv
  <2> QED
    BY <1>l, <1>s, <2>1 DEF CancelInv, Successful, At
<1>7. CASE Start \/ NewWriter \/ Abandon
  <2>1. /\ UNCHANGED <<written, interrupted, parseErr, closeErr>> /\ written = 0
        /\ result' \in {"none", "error"} /\ result = "none"
        /\ point' = "done" => result' = "error"
    BY <1>7 DEF Start, NewWriter, Abandon, writerVars, StageInv, At
  <2>2. cancelled' => (cancelled \/ At("abandon")')
    BY <1>7 DEF Start, NewWriter, Abandon, At
  <2>3. At("abandon") => result' = "error"
    BY <1>7 DEF Start, NewWriter, Abandon, At
  <2>4. ~LimitHit' /\ ~LimitHit
    BY <1>c, <2>1 DEF LimitHit
  <2> QED
    BY <1>l, <1>s, <2>1, <2>2, <2>3, <2>4 DEF CancelInv, Successful, At
<1>8. CASE CheckContext \/ EndOfFile \/ Wait
  <2>1. /\ UNCHANGED <<written, interrupted, closeErr, result, zmap, cancelled>>
        /\ result = "none" /\ point \in {"stream", "next", "wait"}
        /\ parseErr' = parseErr \/ (parseErr = "none" /\ parseErr' \in {"none", "canceled"})
    <3>1. UNCHANGED <<written, interrupted, closeErr, result, zmap>>
      BY <1>8 DEF CheckContext, EndOfFile, Wait, writerVars, zmapVars
    <3>2. result = "none" /\ point \in {"stream", "next", "wait"}
      BY <1>8 DEF CheckContext, EndOfFile, Wait, StageInv, At
    <3>3. cancelled' = cancelled
      BY <1>8 DEF CheckContext, EndOfFile, Wait, StreamEnds, StopIf
    <3>4. parseErr' = parseErr \/ (parseErr = "none" /\ parseErr' \in {"none", "canceled"})
      BY <1>8 DEF CheckContext, EndOfFile, Wait, StreamEnds, StageInv, Reading, At
    <3> QED
      BY <3>1, <3>2, <3>3, <3>4
  <2> QED
    BY <1>l, <1>s, <2>1 DEF CancelInv, Successful, At
<1>9. CASE Report
  <2>1. /\ UNCHANGED <<written, interrupted, closeErr, zmap, cancelled, parseErr>>
        /\ point = "report" /\ result = "none" /\ zmap \in {"ok", "error"}
        /\ result' = "error" => parseErr = "error" \/ (zmap = "error" /\ ~cancelled) \/ closeErr
        /\ result' # "error" => parseErr # "error" /\ (zmap = "error" => cancelled)
    BY <1>9 DEF Report, UnexpectedExit, writerVars, zmapVars, StageInv, At, Waited
  <2> QED
    BY <1>l, <1>s, <2>1 DEF CancelInv, Successful, At
<1>10. CASE Upload
  <2>1. /\ UNCHANGED <<written, interrupted, closeErr, zmap, cancelled, parseErr>>
        /\ point = "upload" /\ result = "ok" /\ result' \in {"uploaded", "not uploaded"}
    BY <1>10 DEF Upload, writerVars, zmapVars, StageInv, At
  <2> QED
    BY <1>l, <1>s, <2>1 DEF CancelInv, Successful, At
<1>11. CASE Signal
  <2>1. /\ UNCHANGED <<written, closeErr, zmap, parseErr>>
        /\ point \notin {"start", "done"}
        /\ \/ result' = "killed" /\ UNCHANGED <<cancelled, interrupted>>
           \/ /\ ~At("upload") /\ cancelled' = TRUE /\ interrupted' = TRUE
              /\ UNCHANGED <<result, point>>
    BY <1>11 DEF Signal, writerVars, zmapVars
  <2>2. ~At("upload") => result = "none"
    BY <2>1 DEF StageInv, At
  <2>3. CASE result' = "killed" /\ UNCHANGED <<cancelled, interrupted>>
    BY <1>l, <1>s, <2>1, <2>3 DEF CancelInv, Successful
  <2>4. CASE ~At("upload") /\ cancelled' = TRUE /\ interrupted' = TRUE /\ UNCHANGED result
    BY <1>s, <2>2, <2>4 DEF CancelInv, Successful
  <2> QED
    BY <2>1, <2>3, <2>4
<1>12. CASE UNCHANGED vars
  BY <1>1, <1>12 DEF vars, writerVars, zmapVars
<1> QED
  BY <1>2, <1>3, <1>4, <1>5, <1>6, <1>7, <1>8, <1>9, <1>10, <1>11, <1>12, StepKinds
     DEF Reads, Controls

-----------------------------------------------------------------------------
(* The responders in their order *)

\* The table of a scan without rows.
LEMMA TableEmpty == TableOK(<<>>)
<1> DEFINE q == [i \in {0} |-> <<>>]
<1>1. Len(<<>>) = 0 /\ 0 .. 0 = {0} /\ 1 .. 0 = {}
  OBVIOUS
<1>2. Table(q, <<>>)
  BY <1>1 DEF Table
<1>3. ASSUME NEW r, Table(r, <<>>) PROVE TableFacts(r, <<>>)
  <2>1. r[0] = <<>>
    BY <1>1, <1>3 DEF Table
  <2>2. <<>> \in Seq(Addresses) /\ Len(<<>>) = 0 /\ ToSet(<<>>) = {}
    BY DEF ToSet
  <2>3. ASSUME NEW i \in 0 .. Len(<<>>) PROVE i = 0
    BY <1>1
  <2> DEFINE e == r[0]
  <2>4. /\ e \in Seq(Addresses) /\ Len(e) <= 0 /\ 1 .. Len(e) = {} /\ ToSet(e) = {}
        /\ r[Len(<<>>)] = e
    BY <1>1, <2>1, <2>2
  <2>5. Len(e) <= Len(e)
    BY <2>1, <2>2
  <2> HIDE DEF e
  <2>6. ASSUME NEW i \in 0 .. Len(<<>>)
        PROVE  /\ r[i] \in Seq(Addresses) /\ Len(r[i]) <= i
               /\ \A x \in ToSet(r[i]) : \E j \in 1 .. i : x = <<>>[j]
               /\ Len(r[i]) <= Len(r[Len(<<>>)])
               /\ \A j \in 1 .. Len(r[i]) : r[i][j] = r[Len(<<>>)][j]
    <3>1. i = 0 /\ r[i] = e
      BY <2>3 DEF e
    <3> QED
      BY <2>4, <2>5, <3>1
  <2> QED
    BY <2>6 DEF TableFacts
<1> QED
  BY <1>2, <1>3 DEF TableOK

\* Another row adds an entry to the table and leaves the others.
LEMMA TableStart ==
    ASSUME NEW f \in Seq(Addresses), NEW a \in Addresses, NEW r, Table(r, Append(f, a))
    PROVE  \E q : /\ Table(q, f) /\ \A i \in 0 .. Len(f) : r[i] = q[i]
                  /\ r[Len(f) + 1] = IF a \in ToSet(q[Len(f)]) THEN q[Len(f)]
                                     ELSE Append(q[Len(f)], a)
<1> DEFINE g == Append(f, a)
           q == [i \in 0 .. Len(f) |-> r[i]]
<1>1. /\ Len(g) = Len(f) + 1 /\ Len(f) \in Nat /\ g[Len(f) + 1] = a
      /\ \A i \in 1 .. Len(f) : g[i] = f[i]
  BY AppendProperties
<1>2. Table(r, g)
  OBVIOUS
<1> HIDE DEF g
<1>3. \A i \in 0 .. Len(f) + 1 :
         r[i] = IF i = 0 THEN <<>>
                ELSE IF g[i] \in ToSet(r[i - 1]) THEN r[i - 1]
                ELSE Append(r[i - 1], g[i])
  BY <1>1, <1>2 DEF Table
<1>4. \A i \in 0 .. Len(f) : i \in 0 .. Len(f) + 1 /\ (i # 0 => i - 1 \in 0 .. Len(f) /\ g[i] = f[i])
  BY <1>1
<1>5. \A i \in 0 .. Len(f) : q[i] = r[i]
  OBVIOUS
<1>6. \A i \in 0 .. Len(f) :
         r[i] = IF i = 0 THEN <<>>
                ELSE IF f[i] \in ToSet(q[i - 1]) THEN q[i - 1]
                ELSE Append(q[i - 1], f[i])
  <2> SUFFICES ASSUME NEW i \in 0 .. Len(f)
               PROVE r[i] = IF i = 0 THEN <<>>
                            ELSE IF f[i] \in ToSet(q[i - 1]) THEN q[i - 1]
                            ELSE Append(q[i - 1], f[i])
    OBVIOUS
  <2>1. i # 0 => q[i - 1] = r[i - 1] /\ g[i] = f[i]
    BY <1>4, <1>5
  <2> HIDE DEF q
  <2> QED
    BY <1>3, <1>4, <2>1
<1>7. Table(q, f)
  BY <1>6 DEF Table
<1>8. r[Len(f) + 1] = IF a \in ToSet(q[Len(f)]) THEN q[Len(f)] ELSE Append(q[Len(f)], a)
  <2>1. Len(f) + 1 \in 0 .. Len(f) + 1 /\ (Len(f) + 1) - 1 = Len(f) /\ Len(f) + 1 # 0
    BY <1>1
  <2>2. q[Len(f)] = r[Len(f)]
    BY <1>1, <1>5
  <2> HIDE DEF q
  <2> QED
    BY <1>1, <1>3, <2>1, <2>2
<1> QED
  BY <1>5, <1>7, <1>8

LEMMA TableGrows ==
    ASSUME NEW f \in Seq(Addresses), NEW a \in Addresses, TableOK(f)
    PROVE  TableOK(Append(f, a))
<1> DEFINE g == Append(f, a)
<1>1. /\ Len(g) = Len(f) + 1 /\ Len(f) \in Nat /\ g[Len(f) + 1] = a /\ g \in Seq(Addresses)
      /\ \A i \in 1 .. Len(f) : g[i] = f[i]
  BY AppendProperties
<1>2. \E r : Table(r, g)
  <2>1. PICK q : Table(q, f)
    BY DEF TableOK
  <2> DEFINE e == IF a \in ToSet(q[Len(f)]) THEN q[Len(f)] ELSE Append(q[Len(f)], a)
             r == [i \in 0 .. Len(f) + 1 |-> IF i = Len(f) + 1 THEN e ELSE q[i]]
  <2>2. \A i \in 0 .. Len(f) :
           q[i] = IF i = 0 THEN <<>>
                  ELSE IF f[i] \in ToSet(q[i - 1]) THEN q[i - 1]
                  ELSE Append(q[i - 1], f[i])
    BY <2>1 DEF Table
  <2> HIDE DEF g
  <2>3. \A i \in 0 .. Len(f) : r[i] = q[i]
    BY <1>1
  <2>4. r[Len(f) + 1] = e
    BY <1>1
  <2>5. ASSUME NEW i \in 0 .. Len(f) + 1
        PROVE  r[i] = IF i = 0 THEN <<>>
                      ELSE IF g[i] \in ToSet(r[i - 1]) THEN r[i - 1]
                      ELSE Append(r[i - 1], g[i])
    <3>1. CASE i = Len(f) + 1
      <4>1. i # 0 /\ i - 1 = Len(f) /\ i - 1 \in 0 .. Len(f)
        BY <1>1, <3>1
      <4>2. r[i - 1] = q[Len(f)] /\ r[i] = e /\ g[i] = a
        BY <1>1, <2>3, <2>4, <3>1, <4>1
      <4> HIDE DEF r
      <4> QED
        BY <4>1, <4>2
    <3>2. CASE i \in 0 .. Len(f)
      <4>1. i # 0 => i - 1 \in 0 .. Len(f) /\ i \in 1 .. Len(f)
        BY <1>1, <3>2
      <4>2. r[i] = q[i] /\ (i # 0 => r[i - 1] = q[i - 1] /\ g[i] = f[i])
        BY <1>1, <2>3, <3>2, <4>1
      <4> HIDE DEF r, e
      <4> QED
        BY <2>2, <3>2, <4>2
    <3> QED
      BY <1>1, <3>1, <3>2
  <2>6. DOMAIN r = 0 .. Len(g) /\ r = [i \in 0 .. Len(g) |-> r[i]]
    BY <1>1
  <2> HIDE DEF r
  <2>7. r = [i \in 0 .. Len(g) |-> IF i = 0 THEN <<>>
                      ELSE IF g[i] \in ToSet(r[i - 1]) THEN r[i - 1]
                      ELSE Append(r[i - 1], g[i])]
    BY <1>1, <2>5, <2>6
  <2>8. Table(r, g)
    BY <2>7 DEF Table
  <2> QED
    BY <2>8
<1>3. ASSUME NEW r, Table(r, g) PROVE TableFacts(r, g)
  <2>1. PICK q : /\ Table(q, f) /\ \A i \in 0 .. Len(f) : r[i] = q[i]
                 /\ r[Len(f) + 1] = IF a \in ToSet(q[Len(f)]) THEN q[Len(f)]
                                    ELSE Append(q[Len(f)], a)
    BY <1>3, TableStart
  <2>2. TableFacts(q, f)
    BY <2>1 DEF TableOK
  <2> DEFINE l == q[Len(f)]
             e == r[Len(f) + 1]
  <2>3. l \in Seq(Addresses) /\ Len(l) \in Nat /\ Len(l) <= Len(f)
        /\ \A x \in ToSet(l) : \E j \in 1 .. Len(f) : x = f[j]
    <3>1. Len(f) \in 0 .. Len(f)
      BY <1>1
    <3>2. l \in Seq(Addresses) /\ Len(l) <= Len(f) /\ \A x \in ToSet(l) : \E j \in 1 .. Len(f) : x = f[j]
      BY <2>2, <3>1 DEF TableFacts
    <3> HIDE DEF l
    <3> QED
      BY <3>2
  <2>4. e = IF a \in ToSet(l) THEN l ELSE Append(l, a)
    BY <2>1
  <2>5. /\ e \in Seq(Addresses) /\ Len(e) \in Nat /\ Len(e) <= Len(f) + 1 /\ Len(l) <= Len(e)
        /\ \A j \in 1 .. Len(l) : l[j] = e[j]
        /\ \A x \in ToSet(e) : x = a \/ x \in ToSet(l)
    <3> HIDE DEF l, e
    <3>1. CASE e = l
      BY <1>1, <2>3, <3>1
    <3>2. CASE e = Append(l, a)
      <4>1. /\ e \in Seq(Addresses) /\ Len(e) = Len(l) + 1 /\ e[Len(l) + 1] = a
            /\ \A j \in 1 .. Len(l) : e[j] = l[j]
            /\ DOMAIN e = 1 .. Len(l) + 1 /\ DOMAIN l = 1 .. Len(l)
        BY <2>3, <3>2, AppendProperties
      <4>2. \A x \in ToSet(e) : x = a \/ x \in ToSet(l)
        BY <2>3, <4>1 DEF ToSet
      <4> QED
        BY <1>1, <2>3, <4>1, <4>2
    <3> QED
      BY <2>4, <3>1, <3>2
  <2>6. Len(g) = Len(f) + 1 /\ r[Len(g)] = e
    BY <1>1
  <2>7. ASSUME NEW i \in 0 .. Len(f)
        PROVE  /\ r[i] \in Seq(Addresses) /\ Len(r[i]) <= i
               /\ \A x \in ToSet(r[i]) : \E j \in 1 .. i : x = g[j]
               /\ Len(r[i]) <= Len(e)
               /\ \A j \in 1 .. Len(r[i]) : r[i][j] = e[j]
    <3>1. r[i] = q[i]
      BY <2>1
    <3>2. /\ q[i] \in Seq(Addresses) /\ Len(q[i]) <= i
          /\ \A x \in ToSet(q[i]) : \E j \in 1 .. i : x = f[j]
          /\ Len(q[i]) <= Len(l)
          /\ \A j \in 1 .. Len(q[i]) : q[i][j] = l[j]
      BY <2>2 DEF TableFacts
    <3>3. Len(q[i]) \in Nat /\ i \in Nat /\ i <= Len(f)
      BY <1>1, <3>2
    <3> HIDE DEF l, e, g
    <3>4. \A j \in 1 .. Len(q[i]) : j \in 1 .. Len(l)
      BY <2>3, <3>2, <3>3
    <3>5. \A j \in 1 .. i : g[j] = f[j]
      BY <1>1, <3>3
    <3>6. Len(q[i]) <= Len(e)
      BY <2>3, <2>5, <3>2, <3>3
    <3> QED
      BY <2>5, <3>1, <3>2, <3>4, <3>5, <3>6
  <2>8. \A x \in ToSet(e) : \E j \in 1 .. Len(f) + 1 : x = g[j]
    <3> HIDE DEF l, e, g
    <3> SUFFICES ASSUME NEW x \in ToSet(e) PROVE \E j \in 1 .. Len(f) + 1 : x = g[j]
      OBVIOUS
    <3>1. CASE x = a
      BY <1>1, <3>1
    <3>2. CASE x \in ToSet(l)
      <4>1. PICK j \in 1 .. Len(f) : x = f[j]
        BY <2>3, <3>2
      <4>2. j \in 1 .. Len(f) + 1 /\ x = g[j]
        BY <1>1, <4>1
      <4> QED
        BY <4>2
    <3> QED
      BY <2>5, <3>1, <3>2
  <2>9. ASSUME NEW i \in 0 .. Len(g)
        PROVE  /\ r[i] \in Seq(Addresses) /\ Len(r[i]) <= i
               /\ \A x \in ToSet(r[i]) : \E j \in 1 .. i : x = g[j]
               /\ Len(r[i]) <= Len(e)
               /\ \A j \in 1 .. Len(r[i]) : r[i][j] = e[j]
    <3> HIDE DEF g
    <3>1. i \in 0 .. Len(f) \/ i = Len(f) + 1
      BY <1>1
    <3>2. CASE i = Len(f) + 1
      <4>1. r[i] = e
        BY <3>2
      <4> HIDE DEF e
      <4> QED
        BY <1>1, <2>5, <2>8, <3>2, <4>1
    <3> QED
      BY <2>7, <3>1, <3>2
  <2> HIDE DEF g, e
  <2> QED
    BY <2>6, <2>9 DEF TableFacts
<1> QED
  BY <1>2, <1>3 DEF TableOK

\* FirstRows is such a table.
LEMMA FirstRowsTable == TableOK(found) => Table(FirstRows, found)
<1>1. TableOK(found) => \E r : Table(r, found)
  BY DEF TableOK
<1>2. FirstRows = CHOOSE r : Table(r, found)
  BY DEF FirstRows, Table
<1> QED
  BY <1>1, <1>2

\* An entry of the table, from the one before.
LEMMA TableNext ==
    ASSUME NEW f \in Seq(Addresses), NEW r, Table(r, f),
           NEW k \in Nat, k + 1 \in 0 .. Len(f)
    PROVE  r[k + 1] = IF f[k + 1] \in ToSet(r[k]) THEN r[k] ELSE Append(r[k], f[k + 1])
<1>1. k + 1 # 0 /\ (k + 1) - 1 = k
  OBVIOUS
<1>2. \A i \in 0 .. Len(f) :
         r[i] = IF i = 0 THEN <<>>
                ELSE IF f[i] \in ToSet(r[i - 1]) THEN r[i - 1]
                ELSE Append(r[i - 1], f[i])
  BY DEF Table
<1>3. r[k + 1] = IF k + 1 = 0 THEN <<>>
                 ELSE IF f[k + 1] \in ToSet(r[(k + 1) - 1]) THEN r[(k + 1) - 1]
                 ELSE Append(r[(k + 1) - 1], f[k + 1])
  BY <1>2
<1> QED
  BY <1>1, <1>3

\* The rows found, after a line.
Grown(f, line) == IF line[1] = "row" THEN Append(f, line[2]) ELSE f

\* A line that enters the pipe has the next place, a row among the rows found.
LEMMA PlacesAppend ==
    ASSUME NEW q \in Seq(Lines), NEW f \in Seq(Addresses), NEW p, Places(p, q, f),
           NEW line \in Lines, line[1] = "row" => line[2] \in Addresses
    PROVE  \E s : Places(s, Append(q, line), Grown(f, line)) /\ s[0] = p[0]
<1> DEFINE t == Append(q, line)
           g == Grown(f, line)
<1>1. /\ Len(t) = Len(q) + 1 /\ Len(q) \in Nat /\ t[Len(q) + 1] = line
      /\ \A i \in 1 .. Len(q) : t[i] = q[i]
  BY AppendProperties
<1>2. /\ Len(f) \in Nat /\ Len(g) \in Nat /\ Len(f) <= Len(g)
      /\ \A i \in 1 .. Len(f) : g[i] = f[i]
      /\ IF line[1] = "row" THEN Len(g) = Len(f) + 1 /\ g[Len(g)] = line[2] ELSE Len(g) = Len(f)
  BY AppendProperties DEF Grown
<1> HIDE DEF g
<1> DEFINE s == [i \in 0 .. Len(q) + 1 |-> IF i = Len(q) + 1 THEN Len(g) ELSE p[i]]
<1>3. s[Len(q) + 1] = Len(g) /\ \A i \in 0 .. Len(q) : s[i] = p[i]
  BY <1>1
<1>4. 0 \in 0 .. Len(q) /\ Len(q) \in 0 .. Len(q)
  BY <1>1
<1>p. /\ \A i \in 0 .. Len(q) : p[i] \in 0 .. Len(f)
      /\ \A i \in 1 .. Len(q) :
            IF q[i][1] = "row" THEN p[i] = p[i - 1] + 1 /\ q[i][2] = f[p[i]] ELSE p[i] = p[i - 1]
      /\ p[Len(q)] = Len(f)
  BY DEF Places
<1> HIDE DEF t, s
<1>5. \A i \in 0 .. Len(t) : s[i] \in 0 .. Len(g)
  <2>1. \A i \in 0 .. Len(q) : s[i] \in 0 .. Len(g)
    BY <1>2, <1>3, <1>p
  <2> QED
    BY <1>1, <1>2, <1>3, <2>1
<1>6. ASSUME NEW i \in 1 .. Len(t)
      PROVE IF t[i][1] = "row" THEN s[i] = s[i - 1] + 1 /\ t[i][2] = g[s[i]] ELSE s[i] = s[i - 1]
  <2>1. CASE i = Len(q) + 1
    <3>1. t[i] = line /\ s[i] = Len(g) /\ s[i - 1] = Len(f)
      BY <1>1, <1>3, <1>4, <1>p, <2>1
    <3> QED
      BY <1>2, <3>1
  <2>2. CASE i \in 1 .. Len(q)
    <3>1. i \in 0 .. Len(q) /\ i - 1 \in 0 .. Len(q)
      BY <1>1, <2>2
    <3>2. t[i] = q[i] /\ s[i] = p[i] /\ s[i - 1] = p[i - 1]
      BY <1>1, <1>3, <2>2, <3>1
    <3>3. p[i] \in 0 .. Len(f) /\ p[i - 1] \in 0 .. Len(f)
      BY <1>p, <3>1
    <3>4. p[i] = p[i - 1] + 1 => g[p[i]] = f[p[i]]
      BY <1>2, <3>3
    <3> QED
      BY <1>p, <2>2, <3>2, <3>4
  <2>3. i = Len(q) + 1 \/ i \in 1 .. Len(q)
    BY <1>1
  <2> QED
    BY <2>1, <2>2, <2>3
<1>7. Places(s, t, g)
  BY <1>1, <1>3, <1>5, <1>6 DEF Places
<1> QED
  BY <1>3, <1>4, <1>7 DEF t, g

\* Taking a line from the pipe takes its place.
LEMMA PlacesTail ==
    ASSUME NEW q \in Seq(Lines), q # <<>>, NEW f \in Seq(Addresses), NEW p, Places(p, q, f)
    PROVE  /\ \E s : Places(s, Tail(q), f) /\ s[0] = p[1]
           /\ p[0] \in 0 .. Len(f) /\ p[1] \in 0 .. Len(f)
           /\ IF Head(q)[1] = "row" THEN p[1] = p[0] + 1 /\ Head(q)[2] = f[p[1]] ELSE p[1] = p[0]
<1> DEFINE t == Tail(q)
           s == [i \in 0 .. Len(t) |-> p[i + 1]]
<1>1. /\ Len(t) = Len(q) - 1 /\ \A i \in 1 .. Len(t) : t[i] = q[i + 1]
  BY HeadTailProperties
<1>2. Len(q) \in Nat \ {0} /\ Head(q) = q[1]
  BY EmptySeq
<1>p. /\ \A i \in 0 .. Len(q) : p[i] \in 0 .. Len(f)
      /\ \A i \in 1 .. Len(q) :
            IF q[i][1] = "row" THEN p[i] = p[i - 1] + 1 /\ q[i][2] = f[p[i]] ELSE p[i] = p[i - 1]
      /\ p[Len(q)] = Len(f)
  BY DEF Places
<1>3. 0 \in 0 .. Len(q) /\ 1 \in 0 .. Len(q) /\ 1 \in 1 .. Len(q) /\ 0 \in 0 .. Len(t)
  BY <1>1, <1>2
<1>4. \A i \in 0 .. Len(t) : s[i] = p[i + 1]
  OBVIOUS
<1> HIDE DEF t, s
<1>5. \A i \in 0 .. Len(t) : s[i] \in 0 .. Len(f)
  BY <1>1, <1>2, <1>4, <1>p
<1>6. ASSUME NEW i \in 1 .. Len(t)
      PROVE IF t[i][1] = "row" THEN s[i] = s[i - 1] + 1 /\ t[i][2] = f[s[i]] ELSE s[i] = s[i - 1]
  <2>1. i \in 0 .. Len(t) /\ i - 1 \in 0 .. Len(t) /\ i + 1 \in 1 .. Len(q)
        /\ (i - 1) + 1 = i /\ (i + 1) - 1 = i
    BY <1>1, <1>2
  <2>2. t[i] = q[i + 1] /\ s[i] = p[i + 1] /\ s[i - 1] = p[i]
    BY <1>1, <1>4, <2>1
  <2>3. IF q[i + 1][1] = "row" THEN p[i + 1] = p[(i + 1) - 1] + 1 /\ q[i + 1][2] = f[p[i + 1]]
        ELSE p[i + 1] = p[(i + 1) - 1]
    BY <1>p, <2>1
  <2> QED
    BY <2>1, <2>2, <2>3
<1>7. s[Len(t)] = Len(f)
  <2>1. Len(t) \in 0 .. Len(t) /\ Len(t) + 1 = Len(q)
    BY <1>1, <1>2
  <2> QED
    BY <1>4, <1>p, <2>1
<1>8. Places(s, t, f) /\ s[0] = p[1]
  BY <1>3, <1>4, <1>5, <1>6, <1>7 DEF Places
<1>9. IF q[1][1] = "row" THEN p[1] = p[0] + 1 /\ q[1][2] = f[p[1]] ELSE p[1] = p[0]
  <2>1. IF q[1][1] = "row" THEN p[1] = p[1 - 1] + 1 /\ q[1][2] = f[p[1]] ELSE p[1] = p[1 - 1]
    BY <1>3, <1>p
  <2> QED
    BY <2>1
<1> QED
  BY <1>2, <1>3, <1>8, <1>9, <1>p DEF t

\* The set of a longer sequence.
LEMMA AppendSet ==
    ASSUME NEW S, NEW s \in Seq(S), NEW a \in S
    PROVE  ToSet(Append(s, a)) = ToSet(s) \cup {a}
<1>1. /\ Len(Append(s, a)) = Len(s) + 1 /\ Len(s) \in Nat
      /\ \A i \in 1 .. Len(s) : Append(s, a)[i] = s[i]
      /\ Append(s, a)[Len(s) + 1] = a
      /\ DOMAIN Append(s, a) = 1 .. Len(s) + 1 /\ DOMAIN s = 1 .. Len(s)
  BY AppendProperties
<1> QED
  BY <1>1 DEF ToSet

\* Every step leaves the rows found distinct and few, if zmap is to see to that.
LEMMA FoundStep ==
    TypeOK /\ DataType /\ FoundInv /\ [Next]_vars => FoundInv'
<1> SUFFICES ASSUME TypeOK, DataType, FoundInv, [Next]_vars PROVE FoundInv'
  OBVIOUS
<1>s. UNCHANGED <<payload, limit>> /\ limit \in Nat /\ found \in Seq(Addresses)
  BY ConfigStep, ZMapStageAssumption DEF TypeOK, DataType, configVars
<1>t. /\ UNCHANGED <<payload, limit>> /\ limit \in Nat /\ found \in Seq(Addresses)
      /\ Len(found) \in Nat /\ (Deduplicates' <=> Deduplicates)
  BY <1>s DEF Deduplicates
<1>1. ASSUME UNCHANGED found PROVE FoundInv'
  BY <1>t, <1>1 DEF FoundInv
<1>2. ASSUME WriteLine, NEW a \in Addresses, found' = Append(found, a), ~Deduplicates,
             a \notin ToSet(found)
      PROVE FoundInv'
  <2>1. /\ Len(found') = Len(found) + 1 /\ found'[Len(found) + 1] = a
        /\ \A i \in 1 .. Len(found) : found'[i] = found[i] /\ found[i] # a
    BY <1>t, <1>2, AppendProperties DEF ToSet
  <2>2. ~EnoughResults /\ MaxResults = limit
    BY <1>2, WriteLineEffect DEF MaxResults
  <2>3. limit > 0 => Len(found') <= limit
    BY <1>t, <2>1, <2>2 DEF EnoughResults
  <2>4. \A i \in 1 .. Len(found') :
          (i = Len(found) + 1 /\ found'[i] = a)
            \/ (i \in 1 .. Len(found) /\ found'[i] = found[i] /\ found[i] # a)
    BY <1>t, <2>1
  <2>5. \A i \in 1 .. Len(found') : \A j \in 1 .. Len(found') : found'[i] = found'[j] => i = j
    BY <1>2, <2>4 DEF FoundInv
  <2> QED
    BY <1>t, <2>3, <2>5 DEF FoundInv
<1>3. CASE WriteLine
  <2>1. PICK line \in Lines :
          /\ line[1] = "row" => line[2] \in Addresses
          /\ line[1] = "row" => Deduplicates \/ line[2] \notin ToSet(found)
          /\ found' = IF line[1] = "row" THEN Append(found, line[2]) ELSE found
    BY <1>3, WriteLineEffect
  <2>2. CASE Deduplicates
    BY <1>t, <2>2 DEF FoundInv
  <2> QED
    BY <1>1, <1>2, <1>3, <2>1, <2>2
<1>4. CASE Reads \/ UNCHANGED vars
  BY <1>1, <1>4, ReadsEffect DEF vars, zmapVars
<1> QED
  BY <1>1, <1>3, <1>4, StepKinds, EndsEffect, CloseWriterEffect, ControlsEffect DEF zmapVars

\* The command leaves the scan for a reason, and reports what it knows.
LEMMA EndStep ==
    /\ TypeOK /\ DataType /\ StageInv /\ CounterInv /\ CancelInv /\ EndInv
    /\ [Next]_vars
    => EndInv'
<1> SUFFICES ASSUME TypeOK, DataType, StageInv, CounterInv, CancelInv, EndInv, [Next]_vars
             PROVE EndInv'
  OBVIOUS
<1>c. TargetLimit' = TargetLimit /\ TargetLimit \in Nat /\ written \in Nat
  BY ConfigStep, ZMapStageAssumption
     DEF configVars, TargetLimit, Deduplicates, DataType, TypeOK
<1>l. written' = written => (LimitHit' <=> LimitHit)
  BY <1>c DEF LimitHit
<1>1. CASE WriteLine \/ Ends
  <2>1. /\ zmap = "running"
        /\ UNCHANGED <<point, parseErr, interrupted, result, batch, closeErr, written>>
    BY <1>1, WriteLineEffect, EndsEffect DEF writerVars
  <2>2. ~Waited
    BY <2>1 DEF Waited
  <2> QED
    BY <1>l, <2>1, <2>2 DEF EndInv, Successful
<1>2. CASE ReadHeader \/ SkipLine
  <2>1. /\ point = "next" /\ result = "none" /\ parseErr = "none"
        /\ UNCHANGED <<interrupted, result, batch, closeErr>>
    BY <1>2 DEF ReadHeader, SkipLine, Readable, At, StageInv, Reading, writerVars
  <2>2. \/ point' = "next" /\ parseErr' = "none"
        \/ point' = "wait" /\ parseErr' = "error"
    BY <1>2, <2>1 DEF ReadHeader, SkipLine, StreamEnds
  <2> QED
    BY <2>1, <2>2 DEF EndInv, Successful
<1>3. CASE StreamRow
  <2>1. /\ point = "next" /\ result = "none" /\ parseErr = "none"
        /\ UNCHANGED <<interrupted, result, closeErr>>
        /\ TargetLimit > 0 => written < TargetLimit
    BY <1>3, StreamRowEffect DEF At, StageInv, CounterInv, Reading
  <2>2. \/ point' = "stream" /\ parseErr' = "none"
        \/ point' = "wait" /\ parseErr' = "error"
        \/ point' = "wait" /\ parseErr' = "none" /\ LimitReached /\ written' = written + 1
    BY <1>3, <2>1, StreamRowEffect DEF RowSkipped, RowQueued
  <2>3. LimitReached /\ written' = written + 1 => LimitHit'
    BY <1>c, <2>1 DEF LimitReached, LimitHit
  <2> QED
    BY <2>1, <2>2, <2>3 DEF EndInv, Successful
<1>4. CASE CloseWriter
  <2>1. /\ point = "close" /\ point' = "report" /\ result = "none" /\ batch' = <<>>
        /\ UNCHANGED <<interrupted, result, parseErr, written, pipe, zmap>>
    BY <1>4, CloseWriterEffect DEF At, StageInv, zmapVars
  <2> QED
    BY <1>l, <2>1 DEF EndInv, Successful, Waited
<1>5. CASE Start \/ NewWriter \/ Abandon
  <2>1. /\ point \in {"start", "create", "abandon"} /\ result = "none"
        /\ point' \in {"create", "stream", "abandon", "done"} /\ result' \in {"none", "error"}
        /\ UNCHANGED <<interrupted, parseErr, closeErr>>
    BY <1>5 DEF Start, NewWriter, Abandon, At, StageInv
  <2> QED
    BY <2>1 DEF EndInv, Successful
<1>6. CASE CheckContext
  <2>1. /\ point = "stream" /\ result = "none" /\ parseErr = "none"
        /\ UNCHANGED <<interrupted, result, batch, closeErr>>
    BY <1>6 DEF CheckContext, At, StageInv, Reading, writerVars
  <2>2. TargetLimit > 0 => written < TargetLimit
    BY <2>1 DEF CounterInv, Reading
  <2>3. cancelled => interrupted
    BY <1>c, <2>1, <2>2 DEF CancelInv, LimitHit, At
  <2>4. \/ point' = "next" /\ parseErr' = "none"
        \/ point' = "wait" /\ parseErr' = "canceled" /\ cancelled
    BY <1>6, <2>1 DEF CheckContext, StreamEnds
  <2> QED
    BY <2>1, <2>3, <2>4 DEF EndInv, Successful
<1>7. CASE EndOfFile
  <2>1. /\ point = "next" /\ point' = "wait" /\ result = "none" /\ parseErr' = "none"
        /\ UNCHANGED <<interrupted, result, batch, closeErr>> /\ pipe' = <<>> /\ Waited'
    BY <1>7 DEF EndOfFile, At, StageInv, Waited, StreamEnds, writerVars, zmapVars
  <2> QED
    BY <2>1 DEF EndInv, Successful
<1>8. CASE Wait
  <2>1. /\ point = "wait" /\ point' = "close" /\ result = "none"
        /\ UNCHANGED <<interrupted, result, batch, closeErr, parseErr, pipe, zmap, written>>
    BY <1>8 DEF Wait, At, StageInv, writerVars, zmapVars
  <2> QED
    BY <1>l, <2>1 DEF EndInv, Successful, Waited
<1>9. CASE Report \/ Upload
  <2>1. /\ \/ /\ point = "report" /\ result = "none"
              /\ \/ point' = "done" /\ result' = "error"
                 \/ point' = "upload" /\ result' = "ok" /\ ~closeErr
           \/ /\ point = "upload" /\ result = "ok"
              /\ point' = "done" /\ result' \in {"uploaded", "not uploaded"}
        /\ UNCHANGED <<interrupted, batch, closeErr, parseErr, pipe, zmap, written>>
    BY <1>9 DEF Report, Upload, At, StageInv, writerVars, zmapVars
  <2> QED
    BY <1>l, <2>1 DEF EndInv, Successful, Waited
<1>10. CASE Signal
  <2>1. /\ UNCHANGED <<batch, closeErr, parseErr, pipe, zmap, written>>
        /\ \/ result' = "killed" /\ point' = "done" /\ UNCHANGED interrupted
           \/ interrupted' = TRUE /\ UNCHANGED <<result, point>>
    BY <1>10 DEF Signal, writerVars, zmapVars
  <2> QED
    BY <1>l, <2>1 DEF EndInv, Successful, Waited
<1>11. CASE UNCHANGED vars
  <2>1. UNCHANGED <<point, parseErr, interrupted, result, batch, closeErr, written, pipe, zmap>>
    BY <1>11 DEF vars, writerVars, zmapVars
  <2> QED
    BY <1>l, <2>1 DEF EndInv, Successful, Waited
<1> QED
  BY <1>1, <1>2, <1>3, <1>4, <1>5, <1>6, <1>7, <1>8, <1>9, <1>10, <1>11, StepKinds
     DEF Reads, Controls

\* What is lost stays lost.
LEMMA IntactStep ==
    ASSUME TypeOK, DataType, StageInv, PipeInv, CounterInv, EndInv, [Next]_vars, Intact'
    PROVE  Intact
<1>1. CASE WriteLine \/ Ends
  BY <1>1, WriteLineEffect, EndsEffect DEF Intact, writerVars
<1>2. CASE Reads
  <2>1. ~broken /\ parseErr = "none" /\ UNCHANGED closeErr
    BY <1>2, ReadsEffect DEF PipeInv, Reads, ReadHeader, SkipLine, StreamRow, Readable, At,
       StageInv, Reading
  <2> QED
    BY <2>1 DEF Intact
<1>3. CASE CloseWriter
  BY <1>3, CloseWriterEffect DEF Intact, EndInv, At
<1>4. CASE Controls
  <2>1. UNCHANGED <<broken, closeErr>>
    BY <1>4, ControlsEffect DEF writerVars
  <2>2. parseErr = "error" => parseErr' = parseErr
    BY <1>4 DEF Controls, Start, NewWriter, Abandon, CheckContext, EndOfFile, Wait, Report,
                Upload, Signal, StreamEnds, At, StageInv, Reading
  <2> QED
    BY <2>1, <2>2 DEF Intact
<1>5. CASE UNCHANGED vars
  BY <1>5 DEF vars, Intact, writerVars
<1> QED
  BY <1>1, <1>2, <1>3, <1>4, <1>5, StepKinds

\* The rows the writer has been given are the responders in their order, up to the ones
\* that are still in the pipe.
LEMMA OrderStep ==
    /\ TypeOK /\ DataType /\ StageInv /\ PipeInv /\ CounterInv /\ FoundInv /\ EndInv /\ OrderInv
    /\ [Next]_vars
    => OrderInv'
<1> SUFFICES ASSUME TypeOK, DataType, StageInv, PipeInv, CounterInv, FoundInv, EndInv, OrderInv,
                    [Next]_vars
             PROVE OrderInv'
  OBVIOUS
<1>s. /\ pipe \in Seq(Lines) /\ found \in Seq(Addresses)
      /\ Rows \in Seq(Addresses \cup {NoAddress}) /\ TableOK(found) /\ UNCHANGED configVars
  BY RowsFacts, ConfigStep DEF TypeOK, DataType, OrderInv
<1>t. /\ pipe \in Seq(Lines) /\ found \in Seq(Addresses) /\ Len(found) \in Nat
      /\ Rows \in Seq(Addresses \cup {NoAddress}) /\ TableOK(found)
      /\ (Deduplicates' <=> Deduplicates)
  BY <1>s DEF configVars, Deduplicates
<1>i. Intact' => Intact /\ \E p : Places(p, pipe, found) /\ Ordered(p)
  BY IntactStep DEF OrderInv
\* The writer is left alone.
<1>1. ASSUME UNCHANGED <<seen, written, found, pipe>>, Intact' => Rows' = Rows
      PROVE OrderInv'
  <2>1. ASSUME Intact' PROVE \E p : Places(p, pipe', found') /\ Ordered(p)'
    <3>1. PICK p : Places(p, pipe, found) /\ Ordered(p)
      BY <1>i, <2>1
    <3>2. Ordered(p)'
      BY <1>t, <1>1, <2>1, <3>1 DEF Ordered
    <3> QED
      BY <1>1, <3>1, <3>2
  <2> QED
    BY <1>t, <1>1, <2>1 DEF OrderInv
\* A line enters the pipe.
<1>2. ASSUME NEW line \in Lines, pipe' = Append(pipe, line), UNCHANGED writerVars,
             line[1] = "row" => line[2] \in Addresses,
             found' = IF line[1] = "row" THEN Append(found, line[2]) ELSE found
      PROVE OrderInv'
  <2>u. UNCHANGED <<seen, written>> /\ Rows' = Rows
    BY <1>2 DEF writerVars, Rows
  <2>1. TableOK(found')
    BY <1>t, <1>2, TableGrows
  <2>2. ASSUME Intact' PROVE \E p : Places(p, pipe', found') /\ Ordered(p)'
    <3>1. PICK p : Places(p, pipe, found) /\ Ordered(p)
      BY <1>i, <2>2
    <3>2. PICK s : Places(s, pipe', found') /\ s[0] = p[0]
      <4>1. found' = Grown(found, line)
        BY <1>2 DEF Grown
      <4>2. \E s : Places(s, Append(pipe, line), Grown(found, line)) /\ s[0] = p[0]
        BY <1>t, <1>2, <3>1, PlacesAppend
      <4> QED
        BY <1>2, <4>1, <4>2
    <3>3. p[0] \in 0 .. Len(found)
      <4>1. 0 \in 0 .. Len(pipe)
        BY <1>t
      <4> QED
        BY <3>1, <4>1 DEF Places
    <3>4. ASSUME NEW r, Table(r, found') PROVE Rows' = r[s[0]]
      <4>1. CASE found' = found
        BY <2>u, <3>1, <3>2, <3>4, <4>1 DEF Ordered
      <4>2. CASE line[1] = "row"
        <5>1. Table(r, Append(found, line[2])) /\ line[2] \in Addresses
          BY <1>2, <3>4, <4>2
        <5>2. PICK q : Table(q, found) /\ \A i \in 0 .. Len(found) : r[i] = q[i]
          BY <1>t, <5>1, TableStart
        <5> QED
          BY <2>u, <3>1, <3>2, <3>3, <5>2 DEF Ordered
      <4> QED
        BY <1>2, <4>1, <4>2
    <3>5. Ordered(s)'
      BY <1>t, <2>u, <3>1, <3>4 DEF Ordered
    <3> QED
      BY <3>2, <3>5
  <2> QED
    BY <2>1, <2>2 DEF OrderInv
<1>3. CASE WriteLine
  <2>1. PICK line \in Lines :
          /\ pipe' = Append(pipe, line)
          /\ line[1] = "row" => line[2] \in Addresses
          /\ found' = IF line[1] = "row" THEN Append(found, line[2]) ELSE found
    BY <1>3, WriteLineEffect
  <2> QED
    BY <1>2, <1>3, <2>1, WriteLineEffect
<1>4. CASE Ends
  <2>1. UNCHANGED <<found, writerVars>>
    BY <1>4, EndsEffect
  <2>2. CASE UNCHANGED pipe
    <3>1. UNCHANGED <<seen, written>> /\ Rows' = Rows
      BY <2>1 DEF writerVars, Rows
    <3> QED
      BY <1>1, <2>1, <2>2, <3>1
  <2>3. ASSUME NEW a \in Addresses \cup {NoAddress}, pipe' = Append(pipe, <<"cut", a>>)
        PROVE OrderInv'
    <3> DEFINE line == <<"cut", a>>
    <3>1. line \in Lines /\ line[1] # "row"
      BY DEF Lines
    <3> HIDE DEF line
    <3>2. pipe' = Append(pipe, line)
      BY <2>3 DEF line
    <3> QED
      BY <1>2, <2>1, <3>1, <3>2
  <2> QED
    BY <1>4, <2>2, <2>3, EndsEffect
\* A line leaves the pipe: the writer holds what it should afterwards.
<1>5. ASSUME Reads,
             Intact' => \A p : Places(p, pipe, found) /\ Ordered(p) =>
                           /\ written' = Len(Rows')
                           /\ Deduplicates => seen' = ToSet(Rows')
                           /\ \A r : Table(r, found) => Rows' = r[p[1]]
      PROVE OrderInv'
  <2>1. pipe # <<>> /\ pipe' = Tail(pipe) /\ UNCHANGED found
    BY <1>5, ReadsEffect DEF zmapVars
  <2>2. ASSUME Intact' PROVE \E p : Places(p, pipe', found') /\ Ordered(p)'
    <3>1. PICK p : Places(p, pipe, found) /\ Ordered(p)
      BY <1>i, <2>2
    <3>2. PICK s : Places(s, pipe', found) /\ s[0] = p[1]
      BY <1>t, <2>1, <3>1, PlacesTail
    <3>3. Ordered(s)'
      BY <1>t, <1>5, <2>1, <2>2, <3>1, <3>2 DEF Ordered
    <3> QED
      BY <2>1, <3>2, <3>3
  <2> QED
    BY <1>t, <2>1, <2>2 DEF OrderInv
<1>6. CASE ReadHeader \/ SkipLine
  <2>1. UNCHANGED <<seen, written>> /\ Rows' = Rows /\ pipe # <<>>
    BY <1>6, ReadsEffect DEF ReadHeader, SkipLine, writerVars, Rows, Reads
  <2>2. Intact' => Head(pipe)[1] # "row"
    <3>1. CASE ReadHeader
      BY <3>1 DEF ReadHeader, StreamEnds, Intact
    <3>2. CASE SkipLine
      <4>1. IsRow(Head(pipe)) => Head(pipe) = <<"cut", NoAddress>>
        BY <3>2 DEF SkipLine
      <4> QED
        BY <4>1 DEF IsRow
    <3> QED
      BY <1>6, <3>1, <3>2
  <2>3. ASSUME Intact', NEW p, Places(p, pipe, found), Ordered(p) PROVE p[1] = p[0]
    BY <1>t, <2>1, <2>2, <2>3, PlacesTail
  <2>4. Intact' => \A p : Places(p, pipe, found) /\ Ordered(p) =>
                           /\ written' = Len(Rows')
                           /\ Deduplicates => seen' = ToSet(Rows')
                           /\ \A r : Table(r, found) => Rows' = r[p[1]]
    BY <2>1, <2>3 DEF Ordered
  <2> QED
    BY <1>5, <1>6, <2>4 DEF Reads
<1>7. CASE StreamRow
  <2> DEFINE a == Head(pipe)[2]
  <2>1. /\ pipe # <<>> /\ IsRow(Head(pipe)) /\ Head(pipe) \in Lines
        /\ RowSkipped \/ RowQueued(a)
    BY <1>7, StreamRowEffect
  <2>2. ASSUME Intact', NEW p, Places(p, pipe, found), Ordered(p)
        PROVE /\ written' = Len(Rows')
              /\ Deduplicates => seen' = ToSet(Rows')
              /\ \A r : Table(r, found) => Rows' = r[p[1]]
    <3>1. /\ p[0] \in 0 .. Len(found) /\ p[1] \in 0 .. Len(found)
          /\ IF Head(pipe)[1] = "row" THEN p[1] = p[0] + 1 /\ a = found[p[1]] ELSE p[1] = p[0]
      BY <1>t, <2>1, <2>2, PlacesTail
    <3>2. /\ written = Len(Rows) /\ (Deduplicates => seen = ToSet(Rows))
          /\ \A r : Table(r, found) => Rows = r[p[0]]
      BY <2>2 DEF Ordered
    <3>3. \A r : Table(r, found) /\ Head(pipe)[1] = "row" =>
             r[p[1]] = IF a \in ToSet(Rows) THEN Rows ELSE Append(Rows, a)
      <4> SUFFICES ASSUME NEW r, Table(r, found), Head(pipe)[1] = "row"
                   PROVE r[p[1]] = IF a \in ToSet(Rows) THEN Rows ELSE Append(Rows, a)
        OBVIOUS
      <4> HIDE DEF a
      <4>1. p[0] \in Nat /\ p[0] + 1 \in 0 .. Len(found) /\ p[1] = p[0] + 1 /\ a = found[p[0] + 1]
        BY <1>t, <3>1
      <4>2. r[p[0] + 1] = IF found[p[0] + 1] \in ToSet(r[p[0]]) THEN r[p[0]]
                          ELSE Append(r[p[0]], found[p[0] + 1])
        BY <1>t, <4>1, TableNext
      <4>3. r[p[0]] = Rows
        BY <3>2
      <4> QED
        BY <4>1, <4>2, <4>3
    <3>4. CASE RowSkipped
      <4>1. Deduplicates /\ a \in seen
        BY <2>2, <3>4 DEF RowSkipped, Intact
      <4>2. UNCHANGED <<seen, written>> /\ Rows' = Rows
        BY <3>4 DEF RowSkipped, writerVars, Rows
      <4> HIDE DEF a
      <4>3. \A r : Table(r, found) => Rows' = r[p[1]]
        BY <3>1, <3>2, <3>3, <4>1, <4>2
      <4> QED
        BY <3>2, <4>2, <4>3
    <3>5. CASE RowQueued(a)
      <4>1. /\ Rows' = Append(Rows, a) /\ written' = written + 1 /\ Head(pipe)[1] = "row"
            /\ Deduplicates => a \notin seen /\ seen' = seen \cup {a}
        <5>1. Head(pipe)[1] # "cut"
          BY <2>2, <3>5 DEF RowQueued, Intact
        <5> QED
          BY <2>1, <2>2, <3>5, <5>1 DEF RowQueued, Intact, IsRow
      <4>2. a \in Addresses \cup {NoAddress}
        BY <2>1 DEF Lines
      <4> HIDE DEF a
      <4>3. Len(Rows') = Len(Rows) + 1 /\ ToSet(Rows') = ToSet(Rows) \cup {a}
        <5>1. Len(Append(Rows, a)) = Len(Rows) + 1
          BY <1>t, <4>2, AppendProperties
        <5>2. ToSet(Append(Rows, a)) = ToSet(Rows) \cup {a}
          <6> DEFINE S == Addresses \cup {NoAddress}
          <6>1. Rows \in Seq(S) /\ a \in S
            BY <1>t, <4>2
          <6> HIDE DEF S
          <6> QED
            BY <6>1, AppendSet
        <5> QED
          BY <4>1, <5>1, <5>2
      <4>4. a \notin ToSet(Rows)
        <5>1. CASE Deduplicates
          BY <3>2, <4>1, <5>1
        <5>2. CASE ~Deduplicates
          <6>1. PICK r : Table(r, found)
            BY <1>t DEF TableOK
          <6>2. Rows = r[p[0]] /\ TableFacts(r, found)
            BY <1>t, <3>2, <6>1 DEF TableOK
          <6>3. \A x \in ToSet(Rows) : \E j \in 1 .. p[0] : x = found[j]
            BY <3>1, <6>2 DEF TableFacts
          <6>4. p[0] \in Nat /\ p[0] + 1 \in 1 .. Len(found) /\ a = found[p[0] + 1]
                /\ \A j \in 1 .. p[0] : j \in 1 .. Len(found) /\ j # p[0] + 1
            BY <1>t, <3>1, <4>1
          <6>5. \A j \in 1 .. p[0] : found[j] # a
            BY <5>2, <6>4 DEF FoundInv
          <6> QED
            BY <6>3, <6>5
        <5> QED
          BY <5>1, <5>2
      <4>5. \A r : Table(r, found) => Rows' = r[p[1]]
        BY <3>3, <4>1, <4>4
      <4> QED
        BY <3>2, <4>1, <4>3, <4>5
    <3> QED
      BY <2>1, <3>4, <3>5
  <2> QED
    BY <1>5, <1>7, <2>2 DEF Reads
<1>8. CASE Controls \/ UNCHANGED vars
  <2>1. UNCHANGED <<seen, written, found, pipe>> /\ Rows' = Rows
    BY <1>8, ControlsEffect DEF vars, writerVars, zmapVars, Rows
  <2> QED
    BY <1>1, <2>1
<1>9. CASE CloseWriter
  <2>1. UNCHANGED <<seen, written, found, pipe>> /\ (Intact' => Rows' = Rows)
    BY <1>9, CloseWriterEffect DEF Intact, zmapVars
  <2> QED
    BY <1>1, <2>1
<1> QED
  BY <1>3, <1>4, <1>6, <1>7, <1>8, <1>9, StepKinds DEF Reads

\* The responders all reach the file of a run that succeeds.
LEMMA Completeness ==
    ASSUME TypeOK, DataType, RowsInv, CancelInv, FoundInv, EndInv, OrderInv
    PROVE  SuccessComplete
<1> SUFFICES ASSUME Successful, ~interrupted, ~broken
             PROVE  LET n == Len(Responders)
                    IN  /\ file = SubSeq(Responders, 1, IF limit > 0 /\ limit < n THEN limit ELSE n)
                        /\ written = Len(file)
  BY DEF SuccessComplete
<1>s. /\ found \in Seq(Addresses) /\ limit \in Nat /\ pipe \in Seq(Lines)
      /\ parseErr \in {"none", "canceled", "error"}
  BY ZMapStageAssumption DEF TypeOK, DataType
<1>t. /\ found \in Seq(Addresses) /\ Len(found) \in Nat /\ limit \in Nat /\ pipe \in Seq(Lines)
      /\ parseErr \in {"none", "canceled", "error"}
  BY <1>s
<1>1. parseErr = "none" /\ ~closeErr /\ Intact
  BY <1>t DEF EndInv, CancelInv, Intact
<1>2. batch = <<>> /\ (LimitHit \/ pipe = <<>>)
  BY <1>1 DEF EndInv
<1>3. Rows = file /\ Len(file) \in Nat /\ file \in Seq(Addresses \cup {NoAddress})
  BY <1>2, RowsFacts DEF DataType
<1>4. PICK p : Places(p, pipe, found) /\ Ordered(p)
  BY <1>1 DEF OrderInv
<1>5. /\ Table(FirstRows, found) /\ TableFacts(FirstRows, found)
  <2>1. Table(FirstRows, found)
    BY FirstRowsTable DEF OrderInv
  <2> QED
    BY <2>1 DEF OrderInv, TableOK
<1>6. p[0] \in 0 .. Len(found) /\ (pipe = <<>> => p[0] = Len(found))
  <2>1. 0 \in 0 .. Len(pipe) /\ (pipe = <<>> => Len(pipe) = 0)
    BY <1>t
  <2> QED
    BY <1>4, <2>1 DEF Places
<1>7. file = FirstRows[p[0]] /\ written = Len(file)
  BY <1>3, <1>4, <1>5 DEF Ordered
<1> DEFINE R == FirstRows[Len(found)]
<1>r. Responders = R
  BY DEF Responders
<1>8. /\ R \in Seq(Addresses) /\ Len(R) \in Nat /\ Len(R) <= Len(found)
      /\ Len(file) <= Len(R) /\ \A j \in 1 .. Len(file) : file[j] = R[j]
      /\ file \in Seq(Addresses)
  <2>1. Len(found) \in 0 .. Len(found)
    BY <1>t
  <2>2. /\ R \in Seq(Addresses) /\ Len(R) <= Len(found)
        /\ file \in Seq(Addresses)
        /\ Len(file) <= Len(R) /\ \A j \in 1 .. Len(file) : file[j] = R[j]
    BY <1>5, <1>6, <1>7, <2>1 DEF TableFacts
  <2> HIDE DEF R
  <2> QED
    BY <2>2
<1> HIDE DEF R
<1>9. file = SubSeq(R, 1, Len(file))
  BY <1>3, <1>8
<1>10. Len(file) = IF limit > 0 /\ limit < Len(R) THEN limit ELSE Len(R)
  <2>1. CASE LimitHit
    <3>1. limit > 0 /\ Len(file) = limit
      BY <1>7, <2>1 DEF LimitHit, TargetLimit
    <3> QED
      BY <1>t, <1>8, <3>1
  <2>2. CASE pipe = <<>>
    <3>1. file = R
      BY <1>6, <1>7, <2>2 DEF R
    <3>2. limit > 0 => Len(file) <= limit
      <4>1. CASE Deduplicates
        <5>1. RowsGenuine
          BY RowsInvParts
        <5> QED
          BY <1>3, <4>1, <5>1 DEF RowsGenuine
      <4>2. CASE ~Deduplicates
        BY <1>t, <1>8, <3>1, <4>2 DEF FoundInv
      <4> QED
        BY <4>1, <4>2
    <3> QED
      BY <1>t, <1>8, <3>1, <3>2
  <2> QED
    BY <1>2, <2>1, <2>2
<1> QED
  BY <1>7, <1>9, <1>10, <1>r

\* The initial state.
LEMMA InitIInv == Init => IInv
<1> SUFFICES ASSUME Init PROVE IInv
  OBVIOUS
<1>1. TypeOK /\ DataType
  BY ZMapStageAssumption DEF Init, TypeOK, DataType
<1>2. Rows = <<>> /\ Len(Rows) = 0
  BY <1>1, RowsFacts DEF Init
<1>3. RowsInv
  <2>1. RowsGenuine
    <3>1. limit \in Nat
      BY <1>1, ZMapStageAssumption DEF TypeOK
    <3>2. 1 .. Len(Rows) = {}
      BY <1>2
    <3> QED
      BY <1>2, <3>1, <3>2 DEF RowsGenuine
  <2> QED
    BY <1>1, <2>1, RowsInvParts
<1>4. PipeInv
  BY DEF Init, PipeInv
<1>5. StageInv
  BY DEF Init, StageInv, At, Successful, NothingLeftRunning, Reading
<1>6. TargetLimit \in Nat /\ written = 0
  BY <1>1, ZMapStageAssumption DEF Init, TargetLimit, TypeOK
<1>7. CounterInv
  BY <1>2, <1>6, ZMapStageAssumption DEF Init, CounterInv
<1>8. CancelInv
  BY <1>6 DEF Init, CancelInv, LimitHit, LimitSucceeds, Successful
<1>9. FoundInv /\ EndInv
  <2>1. Len(found) = 0 /\ limit \in Nat
    BY <1>1, ZMapStageAssumption DEF Init, TypeOK
  <2>2. FoundInv
    BY <2>1 DEF FoundInv
  <2> QED
    BY <2>2 DEF Init, EndInv, Successful
<1>10. OrderInv
  <2>1. TableOK(found)
    BY TableEmpty DEF Init
  <2> DEFINE p == [i \in {0} |-> 0]
  <2>2. Places(p, <<>>, <<>>)
    <3>1. Len(<<>>) = 0 /\ 0 .. 0 = {0} /\ 1 .. 0 = {} /\ p[0] = 0
      OBVIOUS
    <3> HIDE DEF p
    <3> QED
      BY <3>1 DEF Places
  <2>3. ASSUME NEW r, Table(r, <<>>) PROVE r[0] = <<>>
    <3>1. Len(<<>>) = 0 /\ 0 .. 0 = {0}
      OBVIOUS
    <3> QED
      BY <2>3, <3>1 DEF Table
  <2>4. seen = ToSet(Rows) /\ written = Len(Rows) /\ p[0] = 0
    <3>1. ToSet(<<>>) = {}
      BY DEF ToSet
    <3> QED
      BY <1>2, <3>1 DEF Init
  <2> HIDE DEF p
  <2>5. Ordered(p)
    <3>1. found = <<>>
      BY DEF Init
    <3> QED
      BY <1>2, <2>3, <2>4, <3>1 DEF Ordered
  <2> QED
    BY <2>1, <2>2, <2>5 DEF Init, OrderInv
<1> QED
  BY <1>1, <1>3, <1>4, <1>5, <1>7, <1>8, <1>9, <1>10 DEF IInv

-----------------------------------------------------------------------------
(* The theorems *)

\* IInv is an invariant: it holds initially and every step keeps all its parts.
THEOREM InductiveInvariant == Spec => []IInv
<1>1. IInv /\ [Next]_vars => IInv'
  BY TypeStep, StageStep, PipeStep, RowsStep, CounterStep, CancelStep, FoundStep, EndStep,
     OrderStep DEF IInv
<1> QED
  BY <1>1, InitIInv, PTL DEF Spec

\* Whatever happens to zmap and the command, the writer holds responders only, but for a
\* last line that broke off, and those of a TCP scan once each and no more than asked for
\* (streamRows, ipv4Deduplicator, Writer).
THEOREM RowsSoundTheorem == Spec => []RowsSound
<1>1. IInv => RowsSound
  BY DEF IInv, RowsInv, RowsSound
<1> QED
  BY <1>1, InductiveInvariant, PTL

\* Run judges the exit of zmap by why its context is cancelled: zmap's own death is
\* reported, the one at the limit is not, and Run does not return before it.
THEOREM ExitJudgedTheorem == Spec => []ExitJudged
<1>1. IInv => ExitJudged
  <2> SUFFICES ASSUME IInv PROVE ExitJudged
    OBVIOUS
  <2>1. StageInv /\ CancelInv
    BY DEF IInv
  <2>2. CrashReported
    <3> SUFFICES ASSUME Successful, zmap = "error" PROVE interrupted \/ LimitHit
      BY DEF CrashReported, LimitHit
    <3>1. cancelled /\ parseErr # "error" /\ result \notin {"error", "killed", "none"}
      BY <2>1 DEF CancelInv, Successful
    <3>2. ~At("abandon")
      BY <2>1, <3>1 DEF StageInv, At
    <3> QED
      BY <2>1, <3>1, <3>2 DEF CancelInv
  <2> QED
    BY <2>1, <2>2 DEF ExitJudged, StageInv, CancelInv
<1> QED
  BY <1>1, InductiveInvariant, PTL

\* Every responder that zmap found is in the file of a run that succeeds, in the order it
\* was found, each once and up to the limit, and the counter is their number (streamRows,
\* Writer.Append, Writer.Close): none is lost between the pipe, the batch and the file.
THEOREM SuccessCompleteTheorem == Spec => []SuccessComplete
<1>1. IInv => SuccessComplete
  BY Completeness DEF IInv
<1> QED
  BY <1>1, InductiveInvariant, PTL

=============================================================================
