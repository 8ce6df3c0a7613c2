------------------------ MODULE MeasurementRunProofs ------------------------
(***************************************************************************)
(* Proofs about MeasurementRun for every number of rows and workers, every *)
(* channel capacity and batch size: the shutdown is orderly, and a run     *)
(* that returns without error is complete.  IInv is the inductive          *)
(* invariant.                                                              *)
(***************************************************************************)
EXTENDS MeasurementRun, SequenceTheorems, TLAPS

(***************************************************************************)
(* The shutdown: what Run has closed, released and waited for when it is   *)
(* at a point of cleanup, and what must have happened before it got there. *)
(***************************************************************************)
ShutdownInv ==
    /\ targetsClosed <=> main \notin {"stream", "cleanup"}
    /\ saveClosed <=> main \in {"waitSaver", "close", "report", "returned"}
    /\ receiving <=> main \notin {"close", "report", "returned"}
    /\ sendersOpen <=> main \notin {"report", "returned"}
    /\ limiterStopped => stopSignal \/ main \in {"report", "returned"}
    /\ saveClosed => \A w \in Workers : worker[w] = "exited"
    /\ main \in {"close", "report", "returned"} => saver = "done"
    /\ saver \in {"close", "done"} => saveClosed
    /\ saver \in {"close", "done"} => saveChannel = <<>>

(***************************************************************************)
(* The signals: every failure stops the run, and without a stop the stream *)
(* ends and a worker leaves only when there is nothing left to do.         *)
(***************************************************************************)
SignalInv ==
    /\ runError \/ streamErr => stopSignal
    /\ main # "stream" => nextRow > NumRows \/ stopSignal
    /\ \A w \in Workers :
          worker[w] = "exited" => stopSignal \/ (targetsClosed /\ targets = <<>>)
    /\ result = "running" <=> main # "returned"
    /\ result = "ok" => ~stopSignal

\* The fates that an undisturbed run does not give.
FateInv ==
    /\ \A r \in Rows : fate[r] = "unread" <=> r >= nextRow
    /\ ~stopSignal => \A r \in Rows : fate[r] # "interrupted"
    /\ ~runError /\ interProtocol => \A r \in Rows : fate[r] # "dropped"

(***************************************************************************)
(* The rows: each one read is in exactly one place, on the channel or with *)
(* one worker, until its fate is decided.                                  *)
(***************************************************************************)
Queued(row) == \E i \in 1 .. Len(targets) : targets[i] = row

Holds(w) == worker[w] \in {"measuring", "saving"}

QueueInv ==
    /\ \A i \in 1 .. Len(targets) : fate[targets[i]] = "queued"
    /\ \A i, j \in 1 .. Len(targets) : i < j => targets[i] < targets[j]
    /\ \A r \in Rows :
          fate[r] = "queued" => Queued(r) \/ \E w \in Workers : Holds(w) /\ current[w] = r

HolderInv ==
    /\ \A w \in Workers : Holds(w) =>
          /\ current[w] \in Rows /\ fate[current[w]] = "queued"
          /\ \A i \in 1 .. Len(targets) : current[w] < targets[i]
    /\ \A v, w \in Workers : Holds(v) /\ Holds(w) /\ current[v] = current[w] => v = w

(***************************************************************************)
(* The results: as long as nothing failed, each valid row is on the        *)
(* channel, in the batch or written, and together they are as many as were *)
(* counted.                                                                *)
(***************************************************************************)
Elements(seq) == {seq[i] : i \in 1 .. Len(seq)}

ResultInv ==
    ~runError =>
        /\ ~writeFailed /\ saver # "drain"
        /\ {r \in Rows : fate[r] = "valid"}
              = Elements(written) \cup Elements(batch) \cup Elements(saveChannel)
        /\ Len(written) + Len(batch) + Len(saveChannel) = validProbes
        /\ saver \in {"close", "done"} => batch = <<>>

IInv ==
    /\ TypeOK /\ ShutdownInv /\ SignalInv /\ FateInv /\ QueueInv /\ HolderInv /\ ResultInv

-----------------------------------------------------------------------------
(* Facts about the channels and the batch *)

LEMMA EmptyFacts == Len(<<>>) = 0 /\ Elements(<<>>) = {} /\ \A S : <<>> \in Seq(S)
BY DEF Elements

LEMMA AppendFacts ==
    ASSUME NEW S, NEW seq \in Seq(S), NEW e \in S
    PROVE  /\ Append(seq, e) \in Seq(S) /\ Append(seq, e) # <<>>
           /\ Len(Append(seq, e)) = Len(seq) + 1
           /\ \A i \in 1 .. Len(seq) : Append(seq, e)[i] = seq[i]
           /\ Append(seq, e)[Len(seq) + 1] = e
           /\ Elements(Append(seq, e)) = Elements(seq) \cup {e}
<1>1. Len(seq) \in Nat
  OBVIOUS
<1> QED
  BY <1>1, AppendProperties DEF Elements

LEMMA TailFacts ==
    ASSUME NEW S, NEW seq \in Seq(S), seq # <<>>
    PROVE  /\ Head(seq) \in S /\ Head(seq) = seq[1] /\ Len(seq) \in Nat /\ Len(seq) >= 1
           /\ Tail(seq) \in Seq(S) /\ Len(Tail(seq)) = Len(seq) - 1
           /\ \A i \in 1 .. Len(seq) - 1 : Tail(seq)[i] = seq[i + 1]
           /\ Elements(seq) = {Head(seq)} \cup Elements(Tail(seq))
<1>1. Head(seq) = seq[1] /\ Len(seq) \in Nat /\ Len(seq) >= 1
  BY EmptySeq
<1>2. /\ Head(seq) \in S /\ Tail(seq) \in Seq(S) /\ Len(Tail(seq)) = Len(seq) - 1
      /\ \A i \in 1 .. Len(seq) - 1 : Tail(seq)[i] = seq[i + 1]
  BY HeadTailProperties
<1>3. \A i \in 1 .. Len(seq) : i = 1 \/ (i - 1 \in 1 .. Len(seq) - 1 /\ seq[i] = Tail(seq)[i - 1])
  BY <1>1, <1>2
<1> QED
  BY <1>1, <1>2, <1>3 DEF Elements

LEMMA ConcatFacts ==
    ASSUME NEW S, NEW s \in Seq(S), NEW t \in Seq(S)
    PROVE  /\ s \o t \in Seq(S) /\ Len(s \o t) = Len(s) + Len(t)
           /\ Elements(s \o t) = Elements(s) \cup Elements(t)
<1>1. /\ s \o t \in Seq(S) /\ Len(s \o t) = Len(s) + Len(t) /\ Len(s) \in Nat /\ Len(t) \in Nat
      /\ \A i \in 1 .. Len(s) + Len(t) :
            (s \o t)[i] = IF i <= Len(s) THEN s[i] ELSE t[i - Len(s)]
  BY ConcatProperties
<1>2. \A i \in 1 .. Len(t) : Len(s) + i \in 1 .. Len(s) + Len(t) /\ (s \o t)[Len(s) + i] = t[i]
  BY <1>1
<1>3. \A i \in 1 .. Len(s) : i \in 1 .. Len(s) + Len(t) /\ (s \o t)[i] = s[i]
  BY <1>1
<1>4. \A i \in 1 .. Len(s) + Len(t) : i \notin 1 .. Len(s) => i - Len(s) \in 1 .. Len(t)
  BY <1>1
<1>5. Elements(s) \subseteq Elements(s \o t) /\ Elements(t) \subseteq Elements(s \o t)
  <2>1. \A i \in 1 .. Len(s) : s[i] \in Elements(s \o t)
    BY <1>1, <1>3 DEF Elements
  <2>2. \A i \in 1 .. Len(t) : t[i] \in Elements(s \o t)
    BY <1>1, <1>2 DEF Elements
  <2> QED
    BY <2>1, <2>2 DEF Elements
<1>6. Elements(s \o t) \subseteq Elements(s) \cup Elements(t)
  <2> SUFFICES ASSUME NEW i \in 1 .. Len(s) + Len(t)
               PROVE  (s \o t)[i] \in Elements(s) \cup Elements(t)
    BY <1>1 DEF Elements
  <2>1. CASE i \in 1 .. Len(s)
    BY <1>3, <2>1 DEF Elements
  <2>2. CASE i \notin 1 .. Len(s)
    <3>1. (s \o t)[i] = t[i - Len(s)]
      BY <1>1, <2>2
    <3> QED
      BY <1>4, <2>2, <3>1 DEF Elements
  <2> QED
    BY <2>1, <2>2
<1> QED
  BY <1>1, <1>5, <1>6

-----------------------------------------------------------------------------
(* The initial states *)

LEMMA InitIInv == Init => IInv
<1> SUFFICES ASSUME Init PROVE IInv
  OBVIOUS
<1> USE EmptyFacts, MeasurementRunAssumption DEF Init
<1>1. TypeOK
  <2>1. nextRow \in 1 .. NumRows + 1
    OBVIOUS
  <2>2. /\ worker \in [Workers -> WorkerStates] /\ current \in [Workers -> Rows \cup {0}]
        /\ fate \in [Rows -> {"unread", "queued", "skipped", "dropped", "interrupted", "valid"}]
    BY DEF WorkerStates
  <2>3. /\ targets \in Seq(Rows) /\ saveChannel \in Seq(Rows)
        /\ batch \in Seq(Rows) /\ written \in Seq(Rows)
        /\ Len(targets) <= TargetCapacity /\ Len(saveChannel) <= SaveCapacity
    OBVIOUS
  <2> QED
    BY <2>1, <2>2, <2>3 DEF TypeOK
<1>2. ShutdownInv /\ SignalInv
  BY DEF ShutdownInv, SignalInv
<1>3. FateInv /\ QueueInv /\ HolderInv
  BY DEF FateInv, QueueInv, HolderInv, Holds, Rows
<1>4. ResultInv
  BY DEF ResultInv
<1> QED
  BY <1>1, <1>2, <1>3, <1>4 DEF IInv

-----------------------------------------------------------------------------
(* Type correctness *)

\* What a worker holds is a row.
LEMMA HeldRow ==
    ASSUME HolderInv, NEW w \in Workers, Holds(w)
    PROVE  current[w] \in Rows
BY DEF HolderInv

\* The type invariant by the parts that an action leaves alone.
SignalType == stopSignal \in BOOLEAN /\ runError \in BOOLEAN

RunType ==
    /\ interProtocol \in Modes
    /\ main \in {"stream", "cleanup", "waitWorkers", "waitSaver", "close", "report",
                 "returned"}
    /\ nextRow \in 1 .. NumRows + 1 /\ streamErr \in BOOLEAN
    /\ limiterStopped \in BOOLEAN /\ receiving \in BOOLEAN /\ sendersOpen \in BOOLEAN
    /\ targetsClosed \in BOOLEAN /\ saveClosed \in BOOLEAN
    /\ result \in {"running", "ok", "error"}

FateType == fate \in [Rows -> {"unread", "queued", "skipped", "dropped", "interrupted", "valid"}]

TargetsType == targets \in Seq(Rows) /\ Len(targets) <= TargetCapacity

ChannelType == saveChannel \in Seq(Rows) /\ Len(saveChannel) <= SaveCapacity

WorkerType ==
    /\ worker \in [Workers -> WorkerStates]
    /\ current \in [Workers -> Rows \cup {0}]
    /\ validProbes \in Nat

SaverType ==
    /\ saver \in {"create", "range", "close", "drain", "done"}
    /\ writeFailed \in BOOLEAN
    /\ batch \in Seq(Rows) /\ written \in Seq(Rows)

LEMMA TypeParts ==
    /\ TypeOK => SignalType /\ RunType /\ FateType /\ TargetsType /\ ChannelType /\ WorkerType
                    /\ SaverType
    /\ /\ SignalType' /\ RunType' /\ FateType' /\ TargetsType' /\ ChannelType' /\ WorkerType'
       /\ SaverType'
       => TypeOK'
BY DEF TypeOK, SignalType, RunType, FateType, TargetsType, ChannelType, WorkerType, SaverType

\* What is left alone keeps its type.
LEMMA TypeUnchanged ==
    /\ SignalType /\ UNCHANGED signalVars => SignalType'
    /\ RunType /\ UNCHANGED <<streamVars, resourceVars, main, targetsClosed, saveClosed, result>>
          => RunType'
    /\ FateType /\ UNCHANGED fate => FateType'
    /\ TargetsType /\ UNCHANGED targets => TargetsType'
    /\ ChannelType /\ UNCHANGED saveChannel => ChannelType'
    /\ WorkerType /\ UNCHANGED workerVars => WorkerType'
    /\ SaverType /\ UNCHANGED saveVars => SaverType'
BY DEF SignalType, RunType, FateType, TargetsType, ChannelType, WorkerType, SaverType,
       signalVars, streamVars, resourceVars, workerVars, saveVars

\* What the four kinds of steps leave alone.
LEMMA StepFrames ==
    /\ Stream => UNCHANGED <<resourceVars, targetsClosed, workerVars, saveChannel, saveClosed,
                            saveVars, result, interProtocol, runError>>
    /\ Working => UNCHANGED <<main, streamVars, resourceVars, targetsClosed, saveClosed, saveVars,
                             result>>
    /\ Saving => UNCHANGED <<main, streamVars, resourceVars, targets, targetsClosed, workerVars,
                            saveClosed, fate, result>>
    /\ Cleaning => UNCHANGED <<streamVars, signalVars, workerVars, saveChannel, saveVars, fate>>
BY DEF Stream, Working, Saving, Cleaning, targetVars

LEMMA FailType == SignalType /\ Fail => SignalType'
BY DEF Fail, SignalType

\* A fate that an action gives.
LEMMA BecomesType ==
    ASSUME FateType, NEW row,
           NEW end \in {"queued", "skipped", "dropped", "interrupted", "valid"}, Becomes(row, end)
    PROVE  FateType'
BY DEF FateType, Becomes

LEMMA FlushType ==
    ASSUME NEW rows \in Seq(Rows), Flush(rows), SaverType, SignalType
    PROVE  /\ batch' \in Seq(Rows) /\ written' \in Seq(Rows) /\ writeFailed' \in BOOLEAN
           /\ SignalType'
<1>1. batch' \in Seq(Rows)
  BY EmptyFacts DEF Flush
<1>2. CASE written' = written \o rows /\ UNCHANGED <<writeFailed, signalVars>>
  BY <1>1, <1>2, ConcatFacts, TypeUnchanged DEF SaverType
<1>3. CASE writeFailed' = TRUE /\ Fail /\ UNCHANGED written
  BY <1>1, <1>3, FailType DEF SaverType
<1> QED
  BY <1>2, <1>3 DEF Flush

LEMMA TypeStep == TypeOK /\ HolderInv /\ [Next]_vars => TypeOK'
<1> SUFFICES ASSUME TypeOK, HolderInv, [Next]_vars PROVE TypeOK'
  OBVIOUS
<1> USE TypeParts, TypeUnchanged, StepFrames
<1>1. CASE StreamTarget
  <2>1. nextRow \in Rows
    BY <1>1, MeasurementRunAssumption DEF StreamTarget, Rows, RunType
  <2>2. TargetsType'
    BY <1>1, <2>1, AppendFacts, MeasurementRunAssumption
       DEF StreamTarget, TargetsHaveRoom, TargetsType
  <2>3. RunType'
    BY <1>1, MeasurementRunAssumption DEF StreamTarget, Stream, RunType, resourceVars
  <2>4. FateType'
    BY <1>1, BecomesType DEF StreamTarget
  <2>5. UNCHANGED signalVars
    BY <1>1 DEF StreamTarget, signalVars
  <2> QED
    BY <1>1, <2>2, <2>3, <2>4, <2>5 DEF StreamTarget
<1>2. CASE SkipRow
  <2>1. RunType'
    BY <1>2, MeasurementRunAssumption DEF SkipRow, Stream, RunType, resourceVars
  <2>2. FateType'
    BY <1>2, BecomesType DEF SkipRow
  <2>3. UNCHANGED signalVars
    BY <1>2 DEF SkipRow, signalVars
  <2> QED
    BY <1>2, <2>1, <2>2, <2>3 DEF SkipRow
<1>3. CASE StreamEnds
  <2>1. RunType'
    BY <1>3 DEF StreamEnds, Stream, RunType, resourceVars
  <2>2. UNCHANGED signalVars
    BY <1>3 DEF StreamEnds, signalVars
  <2> QED
    BY <1>3, <2>1, <2>2 DEF StreamEnds
<1>4. CASE StreamFails
  <2>1. RunType'
    BY <1>4 DEF StreamFails, Stream, RunType, resourceVars
  <2>2. SignalType'
    BY <1>4 DEF StreamFails, SignalType
  <2> QED
    BY <1>4, <2>1, <2>2 DEF StreamFails
<1>5. ASSUME NEW w \in Workers, TakeTarget(w) PROVE TypeOK'
  <2>1. TargetsType' /\ Head(targets) \in Rows
    <3>1. targets \in Seq(Rows) /\ targets # <<>>
      BY <1>5 DEF TakeTarget, TargetsType
    <3>2. Head(targets) \in Rows /\ Tail(targets) \in Seq(Rows) /\ Len(Tail(targets)) = Len(targets) - 1
          /\ Len(targets) \in Nat
      BY <3>1, TailFacts
    <3>3. targets' = Tail(targets)
      BY <1>5 DEF TakeTarget
    <3>4. targets' \in Seq(Rows) /\ Len(targets') = Len(targets) - 1
      BY <3>2, <3>3
    <3> QED
      BY <3>2, <3>4, MeasurementRunAssumption DEF TargetsType
  <2>2. WorkerType'
    BY <1>5, <2>1 DEF TakeTarget, WorkerType, WorkerStates
  <2> QED
    BY <1>5, <2>1, <2>2 DEF TakeTarget
<1>6. ASSUME NEW w \in Workers, WorkerExits(w) PROVE TypeOK'
  <2>1. WorkerType'
    BY <1>6 DEF WorkerExits, WorkerType, WorkerStates
  <2> QED
    BY <1>6, <2>1 DEF WorkerExits
<1>7. ASSUME NEW w \in Workers, MeasureDrops(w) PROVE TypeOK'
  <2>1. WorkerType'
    BY <1>7 DEF MeasureDrops, WorkerType, WorkerStates
  <2>2. FateType'
    BY <1>7, BecomesType DEF MeasureDrops
  <2>3. SignalType'
    BY <1>7, FailType DEF MeasureDrops
  <2> QED
    BY <1>7, <2>1, <2>2, <2>3 DEF MeasureDrops
<1>8. ASSUME NEW w \in Workers, MeasureSucceeds(w) PROVE TypeOK'
  <2>1. WorkerType'
    BY <1>8 DEF MeasureSucceeds, WorkerType, WorkerStates
  <2> QED
    BY <1>8, <2>1 DEF MeasureSucceeds
<1>9. ASSUME NEW w \in Workers, SaveProbe(w) PROVE TypeOK'
  <2>1. current[w] \in Rows
    BY <1>9, HeldRow DEF SaveProbe, Holds
  <2>2. CASE /\ Len(saveChannel) < SaveCapacity
             /\ saveChannel' = Append(saveChannel, current[w])
             /\ validProbes' = validProbes + 1
             /\ Becomes(current[w], "valid")
             /\ UNCHANGED signalVars
    <3>1. ChannelType'
      BY <2>1, <2>2, AppendFacts, MeasurementRunAssumption DEF ChannelType
    <3>2. WorkerType'
      BY <1>9, <2>2 DEF SaveProbe, WorkerType, WorkerStates
    <3>3. FateType'
      BY <2>2, BecomesType
    <3> QED
      BY <1>9, <2>2, <3>1, <3>2, <3>3 DEF SaveProbe
  <2>3. CASE /\ Becomes(current[w], "interrupted")
             /\ IF interProtocol THEN Fail ELSE UNCHANGED signalVars
             /\ UNCHANGED <<saveChannel, validProbes>>
    <3>1. WorkerType'
      BY <1>9, <2>3 DEF SaveProbe, WorkerType, WorkerStates
    <3>2. FateType' /\ SignalType'
      BY <2>3, BecomesType, FailType
    <3> QED
      BY <1>9, <2>3, <3>1, <3>2 DEF SaveProbe
  <2> QED
    BY <1>9, <2>2, <2>3 DEF SaveProbe
<1>10. CASE CreateFile
  <2>1. SaverType'
    BY <1>10 DEF CreateFile, SaverType
  <2>2. SignalType'
    BY <1>10, FailType DEF CreateFile
  <2> QED
    BY <1>10, <2>1, <2>2 DEF CreateFile
<1>11. CASE SaveOne
  <2>1. Head(saveChannel) \in Rows /\ ChannelType'
    <3>1. saveChannel \in Seq(Rows) /\ saveChannel # <<>>
      BY <1>11 DEF SaveOne, ChannelType
    <3>2. Head(saveChannel) \in Rows /\ Tail(saveChannel) \in Seq(Rows) /\ Len(Tail(saveChannel)) = Len(saveChannel) - 1
          /\ Len(saveChannel) \in Nat
      BY <3>1, TailFacts
    <3>3. saveChannel' = Tail(saveChannel)
      BY <1>11 DEF SaveOne
    <3>4. saveChannel' \in Seq(Rows) /\ Len(saveChannel') = Len(saveChannel) - 1
      BY <3>2, <3>3
    <3> QED
      BY <3>2, <3>4, MeasurementRunAssumption DEF ChannelType
  <2>2. Append(batch, Head(saveChannel)) \in Seq(Rows)
    BY <2>1, AppendFacts DEF SaverType
  <2>3. /\ batch' \in Seq(Rows) /\ written' \in Seq(Rows) /\ writeFailed' \in BOOLEAN
        /\ SignalType'
    BY <1>11, <2>2, FlushType DEF SaveOne, SaverType
  <2>4. SaverType'
    BY <1>11, <2>3 DEF SaveOne, SaverType
  <2> QED
    BY <1>11, <2>1, <2>3, <2>4 DEF SaveOne
<1>12. CASE EndOfProbes
  <2>1. /\ batch' \in Seq(Rows) /\ written' \in Seq(Rows) /\ writeFailed' \in BOOLEAN
        /\ SignalType'
    BY <1>12, FlushType DEF EndOfProbes, FinalFlush, SaverType
  <2>2. SaverType'
    BY <1>12, <2>1 DEF EndOfProbes, SaverType
  <2> QED
    BY <1>12, <2>1, <2>2 DEF EndOfProbes
<1>13. CASE CloseFile
  <2>1. SaverType'
    BY <1>13 DEF CloseFile, SaverType
  <2>2. SignalType'
    BY <1>13, FailType DEF CloseFile
  <2> QED
    BY <1>13, <2>1, <2>2 DEF CloseFile
<1>14. CASE Drain
  <2>1. ASSUME saveChannel # <<>>, saveChannel' = Tail(saveChannel) PROVE ChannelType'
    <3>1. Tail(saveChannel) \in Seq(Rows) /\ Len(Tail(saveChannel)) = Len(saveChannel) - 1
          /\ Len(saveChannel) \in Nat
      BY <2>1, TailFacts DEF ChannelType
    <3>2. saveChannel' \in Seq(Rows) /\ Len(saveChannel') = Len(saveChannel) - 1
      BY <2>1, <3>1
    <3> QED
      BY <3>1, <3>2, MeasurementRunAssumption DEF ChannelType
  <2>2. ChannelType'
    BY <1>14, <2>1 DEF Drain
  <2>3. SaverType'
    BY <1>14 DEF Drain, SaverType
  <2> QED
    BY <1>14, <2>2, <2>3 DEF Drain
<1>15. CASE MainStep
  <2>1. RunType'
    BY <1>15 DEF MainStep, StopLimiter, WaitWorkers, WaitSaver, CloseSenders, Report, Cleaning,
                 RunType, SignalType, resourceVars, targetVars, streamVars
  <2>2. UNCHANGED targets /\ Cleaning
    BY <1>15 DEF MainStep, StopLimiter, WaitWorkers, WaitSaver, CloseSenders, Report, targetVars
  <2> QED
    BY <2>1, <2>2
<1>16. CASE Interrupt
  <2>1. SignalType'
    BY <1>16 DEF Interrupt, SignalType
  <2> QED
    BY <1>16, <2>1 DEF Interrupt, targetVars
<1>17. CASE UNCHANGED vars
  BY <1>17 DEF vars, TypeOK, streamVars, signalVars, resourceVars, targetVars, workerVars, saveVars
<1> QED
  BY <1>1, <1>2, <1>3, <1>4, <1>5, <1>6, <1>7, <1>8, <1>9, <1>10, <1>11, <1>12, <1>13, <1>14,
     <1>15, <1>16, <1>17
     DEF Next, Streaming, SaverStep, WorkerStep, Returned

-----------------------------------------------------------------------------
(* The shutdown and the signals *)

\* A stop is never taken back.
LEMMA SignalsStay ==
    [Next]_vars => (stopSignal => stopSignal') /\ (runError => runError')
<1> SUFFICES ASSUME [Next]_vars PROVE (stopSignal => stopSignal') /\ (runError => runError')
  OBVIOUS
<1> USE DEF signalVars, Fail
<1>1. CASE Streaming \/ StreamFails
  BY <1>1 DEF Streaming, StreamTarget, SkipRow, StreamEnds, StreamFails, Stream
<1>2. ASSUME NEW w \in Workers, WorkerStep(w)
      PROVE (stopSignal => stopSignal') /\ (runError => runError')
  BY <1>2 DEF WorkerStep, TakeTarget, WorkerExits, MeasureDrops, MeasureSucceeds, SaveProbe
<1>3. CASE SaverStep
  BY <1>3 DEF SaverStep, CreateFile, SaveOne, EndOfProbes, CloseFile, Drain, Flush, FinalFlush
<1>4. CASE MainStep
  BY <1>4 DEF MainStep, StopLimiter, WaitWorkers, WaitSaver, CloseSenders, Report, Cleaning
<1>5. CASE Interrupt \/ Returned \/ UNCHANGED vars
  BY <1>5 DEF Interrupt, Returned, vars
<1> QED
  BY <1>1, <1>2, <1>3, <1>4, <1>5 DEF Next

LEMMA ShutdownStep == TypeOK /\ ShutdownInv /\ [Next]_vars => ShutdownInv'
<1> SUFFICES ASSUME TypeOK, ShutdownInv, [Next]_vars PROVE ShutdownInv'
  OBVIOUS
<1> USE StepFrames, SignalsStay DEF ShutdownInv, resourceVars, saveVars, targetVars, workerVars
<1>1. CASE Streaming \/ StreamFails
  BY <1>1 DEF Streaming, StreamTarget, SkipRow, StreamEnds, StreamFails, Stream
<1>2. ASSUME NEW w \in Workers, WorkerStep(w) PROVE ShutdownInv'
  <2>1. worker[w] # "exited" /\ Working
    BY <1>2 DEF WorkerStep, TakeTarget, WorkerExits, MeasureDrops, MeasureSucceeds, SaveProbe
  <2>2. ~saveClosed
    BY <2>1
  <2> QED
    BY <2>1, <2>2
<1>3. CASE SaverStep
  <2>1. Saving
    BY <1>3 DEF SaverStep, CreateFile, SaveOne, EndOfProbes, CloseFile, Drain
  <2>2. saver # "done"
    BY <1>3 DEF SaverStep, CreateFile, SaveOne, EndOfProbes, CloseFile, Drain
  <2>3. saver' \in {"close", "done"} => saveClosed /\ saveChannel' = <<>>
    BY <1>3 DEF SaverStep, CreateFile, SaveOne, EndOfProbes, CloseFile, Drain
  <2> QED
    BY <2>1, <2>2, <2>3
<1>4. CASE MainStep
  <2> USE <1>4 DEF Cleaning
  <2>1. CASE StopLimiter
    BY <2>1 DEF StopLimiter, signalVars
  <2>2. CASE WaitWorkers
    BY <2>2 DEF WaitWorkers, WorkersDone
  <2>3. CASE WaitSaver
    BY <2>3 DEF WaitSaver
  <2>4. CASE CloseSenders
    BY <2>4 DEF CloseSenders
  <2>5. CASE Report
    BY <2>5 DEF Report
  <2> QED
    BY <2>1, <2>2, <2>3, <2>4, <2>5 DEF MainStep
<1>5. CASE Interrupt \/ Returned \/ UNCHANGED vars
  BY <1>5 DEF Interrupt, Returned, vars
<1> QED
  BY <1>1, <1>2, <1>3, <1>4, <1>5 DEF Next

LEMMA SignalStep == TypeOK /\ ShutdownInv /\ SignalInv /\ [Next]_vars => SignalInv'
<1> SUFFICES ASSUME TypeOK, ShutdownInv, SignalInv, [Next]_vars PROVE SignalInv'
  OBVIOUS
<1> USE StepFrames, SignalsStay DEF SignalInv, streamVars, signalVars, Fail
<1>1. CASE Streaming \/ StreamFails
  <2>1. main = "stream" /\ targetsClosed = FALSE
    BY <1>1 DEF Streaming, StreamTarget, SkipRow, StreamEnds, StreamFails, Stream, ShutdownInv,
                TypeOK
  <2>2. \A w \in Workers : worker[w] = "exited" => stopSignal
    BY <2>1
  <2>3. UNCHANGED <<worker, result, runError>> /\ main' \in {"stream", "cleanup"}
    BY <1>1 DEF Streaming, StreamTarget, SkipRow, StreamEnds, StreamFails, Stream, workerVars
  <2>4. runError' \/ streamErr' => stopSignal'
    BY <1>1 DEF Streaming, StreamTarget, SkipRow, StreamEnds, StreamFails, Stream
  <2>5. main' # "stream" => nextRow' > NumRows \/ stopSignal'
    BY <1>1, <2>1 DEF Streaming, StreamTarget, SkipRow, StreamEnds, StreamFails
  <2> QED
    BY <2>1, <2>2, <2>3, <2>4, <2>5
<1>2. ASSUME NEW w \in Workers, WorkerStep(w) PROVE SignalInv'
  <2>1. worker[w] # "exited" /\ Working
    BY <1>2 DEF WorkerStep, TakeTarget, WorkerExits, MeasureDrops, MeasureSucceeds, SaveProbe
  <2>2. main # "returned"
    BY <2>1 DEF ShutdownInv
  <2>3. runError' => stopSignal' \/ runError
    BY <1>2 DEF WorkerStep, TakeTarget, WorkerExits, MeasureDrops, MeasureSucceeds, SaveProbe
  <2>4. \A v \in Workers : worker'[v] = "exited" /\ worker[v] # "exited"
            => stopSignal \/ (targetsClosed /\ targets = <<>>)
    BY <1>2 DEF WorkerStep, TakeTarget, WorkerExits, MeasureDrops, MeasureSucceeds, SaveProbe,
                LoopEnds, TypeOK
  <2>5. targets = <<>> => targets' = <<>>
    BY <1>2 DEF WorkerStep, TakeTarget, WorkerExits, MeasureDrops, MeasureSucceeds, SaveProbe
  <2> QED
    BY <2>1, <2>2, <2>3, <2>4, <2>5 DEF TypeOK
<1>3. CASE SaverStep
  <2>1. Saving /\ saver # "done"
    BY <1>3 DEF SaverStep, CreateFile, SaveOne, EndOfProbes, CloseFile, Drain
  <2>2. main # "returned"
    BY <2>1 DEF ShutdownInv
  <2>3. runError' => stopSignal' \/ runError
    BY <1>3 DEF SaverStep, CreateFile, SaveOne, EndOfProbes, CloseFile, Drain, Flush, FinalFlush
  <2> QED
    BY <2>1, <2>2, <2>3 DEF workerVars, TypeOK
<1>4. CASE MainStep
  <2>1. Cleaning /\ UNCHANGED targets /\ main \notin {"stream", "returned"} /\ main' # "stream"
    BY <1>4 DEF MainStep, StopLimiter, WaitWorkers, WaitSaver, CloseSenders, Report, targetVars
  <2>2. targetsClosed => targetsClosed'
    BY <1>4 DEF MainStep, StopLimiter, WaitWorkers, WaitSaver, CloseSenders, Report, targetVars
  <2>3. result' = "running" <=> main' # "returned"
    BY <1>4 DEF MainStep, StopLimiter, WaitWorkers, WaitSaver, CloseSenders, Report
  <2>4. result' = "ok" => ~stopSignal
    BY <1>4 DEF MainStep, StopLimiter, WaitWorkers, WaitSaver, CloseSenders, Report, RunErrors
  <2> QED
    BY <2>1, <2>2, <2>3, <2>4 DEF workerVars
<1>5. CASE Interrupt
  BY <1>5 DEF Interrupt, workerVars, targetVars, TypeOK
<1>6. CASE Returned \/ UNCHANGED vars
  BY <1>6 DEF Returned, vars, workerVars, targetVars
<1> QED
  BY <1>1, <1>2, <1>3, <1>4, <1>5, <1>6 DEF Next

-----------------------------------------------------------------------------
(* The rows *)

LEMMA RowFacts == Rows \subseteq Nat /\ \A r \in Rows : r < NumRows + 1
BY MeasurementRunAssumption DEF Rows

LEMMA FateStep == TypeOK /\ FateInv /\ QueueInv /\ HolderInv /\ SignalInv /\ [Next]_vars => FateInv'
<1> SUFFICES ASSUME TypeOK, FateInv, QueueInv, HolderInv, SignalInv, [Next]_vars PROVE FateInv'
  OBVIOUS
<1> USE StepFrames, SignalsStay, RowFacts DEF FateInv, streamVars
<1>0. nextRow \in Nat /\ FateType
  BY TypeParts, MeasurementRunAssumption DEF RunType
<1>1. ASSUME UNCHANGED <<fate, nextRow, interProtocol>> PROVE FateInv'
  BY <1>1
<1>2. CASE StreamTarget \/ SkipRow
  <2>1. nextRow' = nextRow + 1 /\ UNCHANGED <<runError, stopSignal, interProtocol>>
    BY <1>2 DEF StreamTarget, SkipRow, Stream
  <2>2. PICK end \in {"queued", "skipped"} : fate' = [fate EXCEPT ![nextRow] = end]
    BY <1>2 DEF StreamTarget, SkipRow, Becomes
  <2>3. \A r \in Rows : fate'[r] = IF r = nextRow THEN end ELSE fate[r]
    BY <1>0, <2>2 DEF FateType
  <2>4. \A r \in Rows : fate'[r] = "unread" <=> r >= nextRow'
    BY <1>0, <2>1, <2>3
  <2> QED
    BY <2>1, <2>3, <2>4
<1>3. CASE StreamEnds \/ StreamFails
  BY <1>1, <1>3 DEF StreamEnds, StreamFails, Stream
<1>4. ASSUME NEW w \in Workers, WorkerStep(w) PROVE FateInv'
  <2>1. Working
    BY <1>4 DEF WorkerStep, TakeTarget, WorkerExits, MeasureDrops, MeasureSucceeds, SaveProbe
  <2>2. CASE UNCHANGED fate
    BY <1>1, <2>1, <2>2
  <2>3. ASSUME Holds(w), NEW end \in {"dropped", "interrupted", "valid"},
               fate' = [fate EXCEPT ![current[w]] = end],
               end = "interrupted" => stopSignal',
               end = "dropped" /\ interProtocol => runError'
        PROVE  FateInv'
    <3>1. current[w] \in Rows /\ fate[current[w]] = "queued"
      BY <2>3 DEF HolderInv
    <3>2. \A r \in Rows : fate'[r] = IF r = current[w] THEN end ELSE fate[r]
      BY <1>0, <2>3 DEF FateType
    <3> QED
      BY <2>1, <2>3, <3>1, <3>2
  <2>4. CASE MeasureDrops(w)
    BY <2>3, <2>4 DEF MeasureDrops, Holds, Becomes, Fail
  <2>5. CASE SaveProbe(w)
    <3>1. CASE Becomes(current[w], "valid")
      BY <2>3, <2>5, <3>1 DEF SaveProbe, Holds, Becomes
    <3>2. CASE stopSignal /\ Becomes(current[w], "interrupted")
      BY <2>3, <2>5, <3>2 DEF SaveProbe, Holds, Becomes
    <3> QED
      BY <2>5, <3>1, <3>2 DEF SaveProbe
  <2>6. CASE TakeTarget(w) \/ WorkerExits(w) \/ MeasureSucceeds(w)
    BY <2>2, <2>6 DEF TakeTarget, WorkerExits, MeasureSucceeds
  <2> QED
    BY <1>4, <2>4, <2>5, <2>6 DEF WorkerStep
<1>5. CASE SaverStep \/ MainStep
  BY <1>1, <1>5 DEF SaverStep, CreateFile, SaveOne, EndOfProbes, CloseFile, Drain,
     MainStep, StopLimiter, WaitWorkers, WaitSaver, CloseSenders, Report
<1>6. CASE Interrupt \/ Returned \/ UNCHANGED vars
  BY <1>1, <1>6 DEF Interrupt, Returned, vars
<1> QED
  BY <1>2, <1>3, <1>4, <1>5, <1>6 DEF Next, Streaming

\* What neither moves a row nor settles one keeps the rows in place.
LEMMA RowsUnchanged ==
    QueueInv /\ HolderInv /\ UNCHANGED <<fate, targets, worker, current>> => QueueInv' /\ HolderInv'
BY DEF QueueInv, HolderInv, Queued, Holds

\* The worker that settles its row is the only one who had it.
LEMMA SettleStep ==
    ASSUME TypeOK, QueueInv, HolderInv, NEW w \in Workers, Holds(w),
           NEW end \in {"dropped", "interrupted", "valid"}, Becomes(current[w], end),
           worker' = [worker EXCEPT ![w] = "idle"], UNCHANGED <<targets, current>>
    PROVE  QueueInv' /\ HolderInv'
<1>1. current[w] \in Rows /\ \A i \in 1 .. Len(targets) : targets[i] # current[w]
  <2>1. current[w] \in Nat /\ current[w] \in Rows /\ \A i \in 1 .. Len(targets) : current[w] < targets[i]
    BY RowFacts DEF HolderInv
  <2> QED
    BY <2>1
<1>2. \A r \in Rows : fate'[r] = IF r = current[w] THEN end ELSE fate[r]
  BY DEF Becomes, TypeOK
<1>3. \A v \in Workers : Holds(v)' <=> Holds(v) /\ v # w
  BY DEF Holds, TypeOK
<1>4. \A i \in 1 .. Len(targets) : targets[i] \in Rows
  BY DEF TypeOK
<1>5. HolderInv'
  BY <1>2, <1>3 DEF HolderInv
<1>6. QueueInv'
  BY <1>1, <1>2, <1>3, <1>4 DEF QueueInv, Queued
<1> QED
  BY <1>5, <1>6

LEMMA RowsStep ==
    TypeOK /\ FateInv /\ QueueInv /\ HolderInv /\ [Next]_vars => QueueInv' /\ HolderInv'
<1> SUFFICES ASSUME TypeOK, FateInv, QueueInv, HolderInv, [Next]_vars PROVE QueueInv' /\ HolderInv'
  OBVIOUS
<1>0. /\ targets \in Seq(Rows) /\ Len(targets) \in Nat /\ FateType /\ nextRow \in Nat
      /\ \A i \in 1 .. Len(targets) : targets[i] \in Rows
  <2>1. targets \in Seq(Rows) /\ nextRow \in Nat /\ FateType
    BY TypeParts, MeasurementRunAssumption DEF TargetsType, RunType
  <2> QED
    BY <2>1
<1>1. CASE StreamTarget
  <2>1. nextRow \in Rows /\ targets' = Append(targets, nextRow) /\ UNCHANGED <<worker, current>>
    BY <1>1, <1>0 DEF StreamTarget, Stream, workerVars, Rows, TypeOK
  <2>2. \A r \in Rows : fate'[r] = IF r = nextRow THEN "queued" ELSE fate[r]
    BY <1>0, <1>1 DEF StreamTarget, Becomes, FateType
  <2>3. /\ Len(targets') = Len(targets) + 1 /\ targets'[Len(targets) + 1] = nextRow
        /\ \A i \in 1 .. Len(targets) : targets'[i] = targets[i]
    BY <1>0, <2>1, AppendFacts
  <2>4. \A i \in 1 .. Len(targets') : i \in 1 .. Len(targets) \/ i = Len(targets) + 1
    BY <1>0, <2>3
  <2>5. \A i \in 1 .. Len(targets) : targets[i] \in Rows /\ targets[i] < nextRow
    <3> SUFFICES ASSUME NEW i \in 1 .. Len(targets)
                 PROVE  targets[i] \in Rows /\ targets[i] < nextRow
      OBVIOUS
    <3>1. targets[i] \in Rows /\ targets[i] \in Nat /\ fate[targets[i]] # "unread"
      BY <1>0, RowFacts DEF QueueInv
    <3>2. ~(targets[i] >= nextRow)
      BY <3>1 DEF FateInv
    <3> QED
      BY <1>0, <3>1, <3>2
  <2>6. \A w \in Workers : Holds(w) => current[w] \in Rows /\ current[w] < nextRow
    <3> SUFFICES ASSUME NEW w \in Workers, Holds(w)
                 PROVE  current[w] \in Rows /\ current[w] < nextRow
      OBVIOUS
    <3>1. current[w] \in Rows /\ current[w] \in Nat /\ fate[current[w]] # "unread"
      BY RowFacts DEF HolderInv
    <3>2. ~(current[w] >= nextRow)
      BY <3>1 DEF FateInv
    <3> QED
      BY <1>0, <3>1, <3>2
  <2>7. \A w \in Workers : Holds(w)' <=> Holds(w)
    BY <2>1 DEF Holds
  <2>8. HolderInv'
    BY <2>1, <2>2, <2>3, <2>4, <2>6, <2>7 DEF HolderInv
  <2>9. \A i \in 1 .. Len(targets') : fate'[targets'[i]] = "queued"
    <3>1. \A i \in 1 .. Len(targets) : fate'[targets'[i]] = "queued"
      BY <2>2, <2>3, <2>5 DEF QueueInv
    <3>2. fate'[targets'[Len(targets) + 1]] = "queued"
      BY <2>1, <2>2, <2>3
    <3> QED
      BY <2>4, <3>1, <3>2
  <2>10. \A i, j \in 1 .. Len(targets') : i < j => targets'[i] < targets'[j]
    <3> SUFFICES ASSUME NEW i \in 1 .. Len(targets'), NEW j \in 1 .. Len(targets'), i < j
                 PROVE  targets'[i] < targets'[j]
      OBVIOUS
    <3>1. i \in 1 .. Len(targets)
      BY <1>0, <2>3
    <3>2. CASE j \in 1 .. Len(targets)
      BY <2>3, <3>1, <3>2 DEF QueueInv
    <3>3. CASE j = Len(targets) + 1
      BY <2>3, <2>5, <3>1, <3>3
    <3> QED
      BY <2>4, <3>2, <3>3
  <2>11. \A r \in Rows : Queued(r) \/ r = nextRow => Queued(r)'
    <3>1. \A i \in 1 .. Len(targets) : i \in 1 .. Len(targets') /\ targets'[i] = targets[i]
      BY <1>0, <2>3
    <3>2. Len(targets) + 1 \in 1 .. Len(targets') /\ targets'[Len(targets) + 1] = nextRow
      BY <1>0, <2>3
    <3> QED
      BY <3>1, <3>2 DEF Queued
  <2>12. QueueInv'
    BY <2>1, <2>2, <2>7, <2>9, <2>10, <2>11 DEF QueueInv
  <2> QED
    BY <2>8, <2>12
<1>2. CASE SkipRow
  <2>1. UNCHANGED <<targets, worker, current>>
    BY <1>2 DEF SkipRow, Stream, workerVars
  <2>2. \A r \in Rows : fate'[r] = IF r = nextRow THEN "skipped" ELSE fate[r]
    BY <1>0, <1>2 DEF SkipRow, Becomes, FateType
  <2>3. \A r \in Rows : fate[r] = "queued" => r # nextRow
    BY <1>0, RowFacts DEF FateInv
  <2>4. \A r \in Rows : fate'[r] = "queued" <=> fate[r] = "queued"
    BY <2>2, <2>3
  <2> QED
    BY <1>0, <2>1, <2>4 DEF QueueInv, HolderInv, Queued, Holds
<1>3. ASSUME NEW w \in Workers, TakeTarget(w) PROVE QueueInv' /\ HolderInv'
  <2>1. /\ targets # <<>> /\ targets' = Tail(targets) /\ UNCHANGED fate
        /\ worker' = [worker EXCEPT ![w] = "measuring"] /\ ~Holds(w)
        /\ current' = [current EXCEPT ![w] = Head(targets)]
    BY <1>3 DEF TakeTarget, Holds
  <2>2. /\ Head(targets) = targets[1] /\ Len(targets) >= 1 /\ Len(targets') = Len(targets) - 1
        /\ \A i \in 1 .. Len(targets) - 1 : targets'[i] = targets[i + 1]
    BY <1>0, <2>1, TailFacts
  <2>3. \A i \in 1 .. Len(targets') : i + 1 \in 1 .. Len(targets) /\ targets'[i] = targets[i + 1]
    BY <1>0, <2>2
  <2>4. \A v \in Workers : /\ Holds(v)' <=> Holds(v) \/ v = w
                          /\ current'[v] = IF v = w THEN targets[1] ELSE current[v]
    BY <2>1, <2>2 DEF Holds, TypeOK
  <2>5. 1 \in 1 .. Len(targets) /\ targets[1] \in Rows /\ fate[targets[1]] = "queued"
    BY <1>0, <2>2 DEF QueueInv
  <2>6. \A i \in 1 .. Len(targets') : targets[1] < targets'[i]
    BY <1>0, <2>2, <2>3, <2>5 DEF QueueInv
  <2>7. \A v \in Workers : Holds(v) => current[v] \in Rows /\ current[v] # targets[1]
    <3> SUFFICES ASSUME NEW v \in Workers, Holds(v)
                 PROVE  current[v] \in Rows /\ current[v] # targets[1]
      OBVIOUS
    <3>1. current[v] \in Rows /\ current[v] < targets[1]
      BY <2>5 DEF HolderInv
    <3>2. current[v] \in Nat /\ targets[1] \in Nat
      BY <2>5, <3>1, RowFacts
    <3> QED
      BY <3>1, <3>2
  <2>8. HolderInv'
    <3>1. ASSUME NEW v \in Workers, Holds(v)'
          PROVE  /\ current'[v] \in Rows /\ fate'[current'[v]] = "queued"
                 /\ \A i \in 1 .. Len(targets') : current'[v] < targets'[i]
      BY <2>1, <2>3, <2>4, <2>5, <2>6, <3>1 DEF HolderInv
    <3>2. \A u, v \in Workers : Holds(u)' /\ Holds(v)' /\ current'[u] = current'[v] => u = v
      BY <2>4, <2>7 DEF HolderInv
    <3> QED
      BY <3>1, <3>2 DEF HolderInv
  <2>9. \A i, j \in 1 .. Len(targets') : i < j => targets'[i] < targets'[j]
    BY <1>0, <2>2, <2>3 DEF QueueInv
  <2>10. \A r \in Rows : Queued(r) => Queued(r)' \/ r = targets[1]
    <3>1. \A i \in 1 .. Len(targets) :
            i # 1 => i - 1 \in 1 .. Len(targets') /\ targets'[i - 1] = targets[i]
      BY <1>0, <2>2
    <3> QED
      BY <3>1 DEF Queued
  <2>11. \A r \in Rows : (\E v \in Workers : Holds(v) /\ current[v] = r) \/ r = targets[1]
            => \E v \in Workers : Holds(v)' /\ current'[v] = r
    BY <2>1, <2>4
  <2>12. QueueInv'
    BY <2>1, <2>3, <2>9, <2>10, <2>11 DEF QueueInv
  <2> QED
    BY <2>8, <2>12
<1>4. ASSUME NEW w \in Workers, MeasureSucceeds(w) \/ WorkerExits(w) PROVE QueueInv' /\ HolderInv'
  <2>1. UNCHANGED <<targets, current, fate>> /\ \A v \in Workers : Holds(v)' <=> Holds(v)
    BY <1>4 DEF MeasureSucceeds, WorkerExits, Holds, TypeOK
  <2> QED
    BY <2>1 DEF QueueInv, HolderInv, Queued
<1>5. ASSUME NEW w \in Workers, MeasureDrops(w) PROVE QueueInv' /\ HolderInv'
  BY <1>5, SettleStep DEF MeasureDrops, Holds
<1>6. ASSUME NEW w \in Workers, SaveProbe(w) PROVE QueueInv' /\ HolderInv'
  BY <1>6, SettleStep DEF SaveProbe, Holds
<1>7. CASE StreamEnds \/ StreamFails
  BY <1>7, RowsUnchanged DEF StreamEnds, StreamFails, Stream, workerVars
<1>8. CASE SaverStep \/ MainStep
  BY <1>8, RowsUnchanged DEF SaverStep, CreateFile, SaveOne, EndOfProbes, CloseFile, Drain, Saving,
     MainStep, StopLimiter, WaitWorkers, WaitSaver, CloseSenders, Report, Cleaning, targetVars,
     workerVars
<1>9. CASE Interrupt \/ Returned \/ UNCHANGED vars
  BY <1>9, RowsUnchanged DEF Interrupt, Returned, vars, targetVars, workerVars
<1> QED
  BY <1>1, <1>2, <1>3, <1>4, <1>5, <1>6, <1>7, <1>8, <1>9 DEF Next, Streaming, WorkerStep

-----------------------------------------------------------------------------
(* The results *)

Valid == {r \in Rows : fate[r] = "valid"}

LEMMA ResultUnchanged ==
    ResultInv /\ [Next]_vars /\ Valid' = Valid
        /\ UNCHANGED <<writeFailed, saver, written, batch, saveChannel, validProbes>> => ResultInv'
BY SignalsStay DEF ResultInv, Valid, Elements

\* Rows that the saver moves on, as long as nothing fails.
LEMMA MoveResults ==
    ASSUME TypeOK, ResultInv, [Next]_vars, ~runError', UNCHANGED <<fate, validProbes, writeFailed>>,
           saver' # "drain", saver' \in {"close", "done"} => batch' = <<>>,
           Elements(written') \cup Elements(batch') \cup Elements(saveChannel')
              = Elements(written) \cup Elements(batch) \cup Elements(saveChannel),
           Len(written') + Len(batch') + Len(saveChannel')
              = Len(written) + Len(batch) + Len(saveChannel)
    PROVE  ResultInv'
BY SignalsStay DEF ResultInv, Elements

LEMMA ResultStep ==
    TypeOK /\ FateInv /\ HolderInv /\ ResultInv /\ [Next]_vars => ResultInv'
<1> SUFFICES ASSUME TypeOK, FateInv, HolderInv, ResultInv, [Next]_vars, ~runError' PROVE ResultInv'
  BY DEF ResultInv
<1>0. /\ ~runError /\ ~writeFailed /\ saver # "drain" /\ nextRow \in Nat
      /\ batch \in Seq(Rows) /\ written \in Seq(Rows) /\ saveChannel \in Seq(Rows)
      /\ validProbes \in Nat /\ FateType
  <2>1. ~runError
    BY SignalsStay
  <2> QED
    BY <2>1, TypeParts DEF RunType, SaverType, ChannelType, WorkerType, ResultInv
<1>1. CASE StreamTarget \/ SkipRow
  <2>1. \A r \in Rows : r # nextRow => fate'[r] = fate[r]
    BY <1>0, <1>1 DEF StreamTarget, SkipRow, Becomes, FateType
  <2>2. nextRow \in Rows => fate[nextRow] # "valid" /\ fate'[nextRow] # "valid"
    BY <1>0, <1>1 DEF StreamTarget, SkipRow, Becomes, FateType, FateInv
  <2>3. Valid' = Valid
    BY <2>1, <2>2 DEF Valid
  <2> QED
    BY <1>1, <2>3, ResultUnchanged DEF StreamTarget, SkipRow, Stream, saveVars, workerVars
<1>2. CASE StreamEnds \/ StreamFails
  BY <1>2, ResultUnchanged DEF StreamEnds, StreamFails, Stream, saveVars, workerVars, Valid
<1>3. ASSUME NEW w \in Workers, TakeTarget(w) \/ WorkerExits(w) \/ MeasureSucceeds(w)
      PROVE  ResultInv'
  BY <1>3, ResultUnchanged DEF TakeTarget, WorkerExits, MeasureSucceeds, Working, saveVars, Valid
<1>4. ASSUME NEW w \in Workers, Holds(w), NEW end \in {"dropped", "interrupted"},
             Becomes(current[w], end), Working, UNCHANGED <<saveChannel, validProbes>>
      PROVE  ResultInv'
  <2>1. current[w] \in Rows /\ fate[current[w]] # "valid"
    BY <1>4 DEF HolderInv
  <2>2. \A r \in Rows : fate'[r] = IF r = current[w] THEN end ELSE fate[r]
    BY <1>0, <1>4 DEF Becomes, FateType
  <2>3. Valid' = Valid
    BY <2>1, <2>2 DEF Valid
  <2> QED
    BY <1>4, <2>3, ResultUnchanged DEF Working, saveVars
<1>5. ASSUME NEW w \in Workers, MeasureDrops(w) PROVE ResultInv'
  BY <1>4, <1>5 DEF MeasureDrops, Holds
<1>6. ASSUME NEW w \in Workers, SaveProbe(w) PROVE ResultInv'
  <2>1. CASE /\ saveChannel' = Append(saveChannel, current[w])
             /\ validProbes' = validProbes + 1
             /\ Becomes(current[w], "valid")
    <3>1. current[w] \in Rows
      BY <1>6, HeldRow DEF SaveProbe, Holds
    <3>2. \A r \in Rows : fate'[r] = IF r = current[w] THEN "valid" ELSE fate[r]
      BY <1>0, <2>1 DEF Becomes, FateType
    <3>3. Valid' = Valid \cup {current[w]}
      BY <3>1, <3>2 DEF Valid
    <3>4. /\ Elements(saveChannel') = Elements(saveChannel) \cup {current[w]}
          /\ Len(saveChannel') = Len(saveChannel) + 1
      BY <1>0, <2>1, <3>1, AppendFacts
    <3>5. UNCHANGED <<writeFailed, saver, written, batch>>
      BY <1>6 DEF SaveProbe, Working, saveVars
    <3>6. Valid' = Elements(written) \cup Elements(batch) \cup Elements(saveChannel')
      BY <1>0, <3>3, <3>4 DEF ResultInv, Valid
    <3>7. Len(written) + Len(batch) + Len(saveChannel') = validProbes'
      <4>1. Len(written) \in Nat /\ Len(batch) \in Nat /\ Len(saveChannel) \in Nat
        BY <1>0
      <4>2. Len(written) + Len(batch) + Len(saveChannel) = validProbes
        BY <1>0 DEF ResultInv
      <4>3. Len(saveChannel') = Len(saveChannel) + 1 /\ validProbes' = validProbes + 1
        BY <2>1, <3>4
      <4> QED
        BY <4>1, <4>2, <4>3
    <3> QED
      BY <1>0, <3>5, <3>6, <3>7 DEF ResultInv, Valid, Elements
  <2>2. CASE Becomes(current[w], "interrupted") /\ UNCHANGED <<saveChannel, validProbes>>
    BY <1>4, <1>6, <2>2 DEF SaveProbe, Holds
  <2> QED
    BY <1>6, <2>1, <2>2 DEF SaveProbe
<1>7. CASE SaverStep
  <2>1. UNCHANGED <<fate, validProbes>>
    BY <1>7, StepFrames DEF SaverStep, CreateFile, SaveOne, EndOfProbes, CloseFile, Drain, workerVars
  <2>2. Len(written) \in Nat /\ Len(batch) \in Nat /\ Len(saveChannel) \in Nat
    BY <1>0
  <2>3. CASE CreateFile
    BY <1>0, <2>1, <2>3, MoveResults DEF CreateFile, Fail
  <2>4. CASE SaveOne
    <3> DEFINE row == Head(saveChannel)
               rows == Append(batch, row)
    <3>1. saveChannel # <<>> /\ saveChannel' = Tail(saveChannel) /\ saver' = saver /\ saver = "range"
      BY <2>4 DEF SaveOne
    <3>2. /\ row \in Rows /\ Elements(saveChannel) = {row} \cup Elements(saveChannel')
          /\ Len(saveChannel') = Len(saveChannel) - 1
      BY <1>0, <3>1, TailFacts
    <3>3. rows \in Seq(Rows) /\ Elements(rows) = Elements(batch) \cup {row} /\ Len(rows) = Len(batch) + 1
      BY <1>0, <3>2, AppendFacts
    <3>4. \/ batch' = rows /\ UNCHANGED <<written, writeFailed>>
          \/ batch' = <<>> /\ written' = written \o rows /\ UNCHANGED writeFailed
      BY <1>0, <2>4 DEF SaveOne, Flush, Fail
    <3> HIDE DEF row, rows
    <3>5. CASE batch' = rows /\ UNCHANGED <<written, writeFailed>>
      <4>1. Elements(written') \cup Elements(batch') \cup Elements(saveChannel')
               = Elements(written) \cup Elements(batch) \cup Elements(saveChannel)
        BY <3>2, <3>3, <3>5
      <4>2. Len(written') + Len(batch') + Len(saveChannel')
               = Len(written) + Len(batch) + Len(saveChannel)
        BY <2>2, <3>2, <3>3, <3>5
      <4> QED
        BY <2>1, <3>1, <3>5, <4>1, <4>2, MoveResults
    <3>6. CASE batch' = <<>> /\ written' = written \o rows /\ UNCHANGED writeFailed
      <4>1. Elements(written') = Elements(written) \cup Elements(rows)
            /\ Len(written') = Len(written) + Len(rows)
        BY <1>0, <3>3, <3>6, ConcatFacts
      <4>2. Elements(batch') = {} /\ Len(batch') = 0
        BY <3>6, EmptyFacts
      <4>3. Elements(written') \cup Elements(batch') \cup Elements(saveChannel')
               = Elements(written) \cup Elements(batch) \cup Elements(saveChannel)
        BY <3>2, <3>3, <4>1, <4>2
      <4>4. Len(written') + Len(batch') + Len(saveChannel')
               = Len(written) + Len(batch) + Len(saveChannel)
        BY <2>2, <3>2, <3>3, <4>1, <4>2
      <4> QED
        BY <2>1, <3>1, <3>6, <4>3, <4>4, MoveResults
    <3> QED
      BY <3>4, <3>5, <3>6
  <2>5. CASE EndOfProbes
    <3>1. saver' = "close" /\ UNCHANGED saveChannel
      BY <2>5 DEF EndOfProbes
    <3>2. \/ batch = <<>> /\ UNCHANGED <<batch, written, writeFailed>>
          \/ batch' = <<>> /\ written' = written \o batch /\ UNCHANGED writeFailed
      BY <1>0, <2>5 DEF EndOfProbes, FinalFlush, Flush, Fail
    <3>3. CASE batch = <<>> /\ UNCHANGED <<batch, written, writeFailed>>
      BY <2>1, <3>1, <3>3, MoveResults
    <3>4. CASE batch' = <<>> /\ written' = written \o batch /\ UNCHANGED writeFailed
      <4>1. Elements(written') = Elements(written) \cup Elements(batch)
            /\ Len(written') = Len(written) + Len(batch)
        BY <1>0, <3>4, ConcatFacts
      <4>2. Elements(batch') = {} /\ Len(batch') = 0
        BY <3>4, EmptyFacts
      <4>3. Len(written') + Len(batch') + Len(saveChannel')
               = Len(written) + Len(batch) + Len(saveChannel)
        BY <2>2, <3>1, <4>1, <4>2
      <4>4. Elements(written') \cup Elements(batch') \cup Elements(saveChannel')
               = Elements(written) \cup Elements(batch) \cup Elements(saveChannel)
        BY <3>1, <4>1, <4>2
      <4> QED
        BY <2>1, <3>1, <3>4, <4>3, <4>4, MoveResults
    <3> QED
      BY <3>2, <3>3, <3>4
  <2>6. CASE CloseFile
    <3>1. UNCHANGED <<writeFailed, saveChannel, batch, written>> /\ saver = "close" /\ saver' = "done"
      BY <1>0, <2>6 DEF CloseFile, Fail
    <3>2. batch' = <<>>
      BY <1>0, <3>1 DEF ResultInv
    <3> QED
      BY <2>1, <3>1, <3>2, MoveResults
  <2>7. CASE Drain
    BY <1>0, <2>7 DEF Drain
  <2> QED
    BY <1>7, <2>3, <2>4, <2>5, <2>6, <2>7 DEF SaverStep
<1>8. CASE MainStep
  BY <1>8, ResultUnchanged DEF MainStep, StopLimiter, WaitWorkers, WaitSaver, CloseSenders, Report,
     Cleaning, saveVars, workerVars, Valid
<1>9. CASE Interrupt \/ Returned \/ UNCHANGED vars
  BY <1>9, ResultUnchanged DEF Interrupt, Returned, vars, saveVars, workerVars, Valid
<1> QED
  BY <1>1, <1>2, <1>3, <1>5, <1>6, <1>7, <1>8, <1>9 DEF Next, Streaming, WorkerStep

-----------------------------------------------------------------------------
(* Theorems *)

\* The invariant is inductive: types, shutdown, signals, the place of every row and the
\* accounting of the results hold together at every step of every goroutine.
THEOREM InductiveInvariant == Spec => []IInv
<1>1. IInv /\ [Next]_vars => IInv'
  BY TypeStep, ShutdownStep, SignalStep, FateStep, RowsStep, ResultStep DEF IInv
<1> QED
  BY InitIInv, <1>1, PTL DEF Spec

\* cleanup closes and releases in an order that no goroutine notices: nobody sends on a
\* closed channel and no probe loses the sockets, receivers or limiter it uses.
THEOREM OrderlyShutdownTheorem == Spec => []OrderlyShutdown
<1>1. IInv => OrderlyShutdown
  <2> SUFFICES ASSUME IInv PROVE OrderlyShutdown
    OBVIOUS
  <2>1. NoSendOnClosed
    BY DEF IInv, ShutdownInv, NoSendOnClosed
  <2>2. ResourcesOutliveProbes
    <3> SUFFICES ASSUME NEW w \in Workers, worker[w] = "measuring"
                 PROVE  receiving /\ sendersOpen /\ (limiterStopped => stopSignal)
      BY DEF ResourcesOutliveProbes
    <3>1. ~saveClosed
      BY DEF IInv, ShutdownInv
    <3> QED
      BY <3>1 DEF IInv, ShutdownInv
  <2> QED
    BY <2>1, <2>2 DEF IInv, OrderlyShutdown
<1> QED
  BY <1>1, InductiveInvariant, PTL

\* A run that returns without error lost nothing between the target file, the two channels,
\* the batch and the result file, and its record count is the number of rows written.
THEOREM CompleteOnSuccessTheorem == Spec => []CompleteOnSuccess
<1>1. IInv => CompleteOnSuccess
  <2> SUFFICES ASSUME IInv, result = "ok"
               PROVE  /\ \A r \in Rows : fate[r] \in {"valid", "skipped", "dropped"}
                      /\ {written[i] : i \in DOMAIN written} = {r \in Rows : fate[r] = "valid"}
                      /\ Len(written) = validProbes
                      /\ ~writeFailed
                      /\ interProtocol => \A r \in Rows : fate[r] # "dropped"
    BY DEF CompleteOnSuccess
  <2>1. /\ ~stopSignal /\ ~runError /\ main = "returned" /\ nextRow > NumRows
    BY DEF IInv, TypeOK, SignalInv
  <2>2. /\ \A w \in Workers : worker[w] = "exited"
        /\ saver = "done" /\ saveChannel = <<>> /\ targets = <<>>
    BY <2>1, MeasurementRunAssumption DEF IInv, ShutdownInv, SignalInv
  <2>3. \A r \in Rows : fate[r] # "queued"
    BY <2>2, EmptyFacts DEF IInv, QueueInv, Queued, Holds
  <2>4. \A r \in Rows : fate[r] # "unread"
    <3>1. nextRow \in Nat
      BY MeasurementRunAssumption DEF IInv, TypeOK
    <3>2. \A r \in Rows : r \in Nat /\ ~(r >= nextRow)
      BY <2>1, <3>1, RowFacts, MeasurementRunAssumption
    <3> QED
      BY <3>2 DEF IInv, FateInv
  <2>5. \A r \in Rows : fate[r] \in {"valid", "skipped", "dropped"}
    BY <2>1, <2>3, <2>4 DEF IInv, FateInv, TypeOK
  <2>6. batch = <<>> /\ ~writeFailed /\ Len(written) + Len(batch) + Len(saveChannel) = validProbes
    BY <2>1, <2>2 DEF IInv, ResultInv
  <2>7. Len(written) = validProbes
    BY <2>2, <2>6, EmptyFacts DEF IInv, TypeOK
  <2>8. {r \in Rows : fate[r] = "valid"} = Elements(written)
    BY <2>1, <2>2, <2>6, EmptyFacts DEF IInv, ResultInv
  <2>9. DOMAIN written = 1 .. Len(written)
    BY LenProperties DEF IInv, TypeOK
  <2>10. {written[i] : i \in DOMAIN written} = {r \in Rows : fate[r] = "valid"}
    BY <2>8, <2>9 DEF Elements
  <2> QED
    BY <2>1, <2>5, <2>6, <2>7, <2>10 DEF IInv, FateInv
<1> QED
  BY <1>1, InductiveInvariant, PTL

=============================================================================
