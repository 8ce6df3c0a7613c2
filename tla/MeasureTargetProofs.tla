------------------------- MODULE MeasureTargetProofs -------------------------
(***************************************************************************)
(* Proofs about a probe of either kind, for every number of connections,   *)
(* requests, workers and receivers.  The first part is about the strict    *)
(* probe: IInv is the inductive invariant of the verdict, the RT loop and  *)
(* the clean-up; CInv, on top of it, that of the conversation with the     *)
(* server of a TCP probe.  The second part is about the sequence numbers   *)
(* of TCP probes.  The third part is about the probes that are not strict, *)
(* whose invariant is LooseInv.                                            *)
(***************************************************************************)
EXTENDS MeasureTarget, FiniteSetTheorems, FunctionTheorems, TLAPS

\* The worker prepares or sends a packet of this kind.
Transmitting(kind) == pc \in {"limiter", "socket"} /\ sending.kind = kind

\* The worker has left the request loop for good, unsaved or after the save.
CleaningUp ==
    \/ pc \in {"deregister", "reset", "return", "done"}
    \/ Transmitting("reset")

\* Where a request or an ACK may lead back to.
LoopPoints == FlushPoints \cup SelectPoints \cup {"start", "advance"}

(***************************************************************************)
(* The verdict: how status, the counters and the worker's place go         *)
(* together.  It is what makes the deferred fail(nil) of Return count      *)
(* nothing: the worker comes there only with a decided probe.              *)
(***************************************************************************)
VerdictInv ==
    /\ status = "active" => ~CleaningUp /\ DropReasons = 0 /\ ~saved
    /\ status = "failed" => DropReasons = 1 /\ ~saved
    /\ status = "complete" => pc = "save" \/ CleaningUp
    /\ status = "complete" /\ CleaningUp =>
          (saved /\ DropReasons = 0) \/ (~saved /\ DropReasons = 1)
    /\ pc = "save" => status = "complete" /\ DropReasons = 0 /\ ~saved
    /\ sending.kind # "reset" => sending.back \in LoopPoints

(***************************************************************************)
(* The RT loop: everything before seqNum is answered, nothing after it is  *)
(* sent, and a token on replyReady means that seqNum itself is answered.   *)
(***************************************************************************)
RTPoints ==
    {"start", "prepare", "limiter", "socket", "baseReply", "flushReply", "advance",
     "complete", "save", "deregister", "reset", "return", "done"}

RTInv ==
    RTBased =>
        /\ pc \in RTPoints
        /\ \A s \in Requests : s < seqNum => samples[s] = "received"
        /\ \A s \in Requests : s > seqNum => samples[s] = "empty"
        /\ replyReady => samples[seqNum] = "received"
        /\ pc \in {"start", "prepare"} \/ Transmitting("request")
              => samples[seqNum] = "empty"
        /\ pc \in {"flushReply", "advance"} \/ Transmitting("ack")
              => samples[seqNum] = "received" /\ ~replyReady
        /\ Transmitting("request") => sending.back = "baseReply"
        /\ Transmitting("ack") => sending.back = "flushReply"

\* A probe about to be completed or saved has all its replies.
CompleteInv ==
    pc \in {"complete", "save"} \/ saved \/ status = "complete"
        => \A s \in Requests : samples[s] = "received"

(***************************************************************************)
(* The clean-up: the loop of resetTCPConnections leaves no accepted        *)
(* connection behind it, and none is accepted once it has begun.           *)
(***************************************************************************)
ResetInv ==
    /\ ~TcpEstablishConnection => tcpAckReady = {}
    /\ status = "active" => resetNext = 0
    /\ \A c \in tcpAckReady : c < resetNext =>
          \/ resets[c] # "none"
          \/ Transmitting("reset") /\ sending.connection = c
    /\ pc \in {"return", "done"} /\ TcpEstablishConnection => resetNext = ConnectionCount

(***************************************************************************)
(* A connection is reset once: nothing is known of the resets the loop has *)
(* yet to try, so a failed one adds one counter and one connection.        *)
(***************************************************************************)
UntriedInv ==
    /\ \A c \in Connections : c >= resetNext => resets[c] = "none"
    /\ Transmitting("reset") =>
          sending.connection < resetNext /\ resets[sending.connection] = "none"

IInv == TypeOK /\ VerdictInv /\ RTInv /\ CompleteInv /\ ResetInv /\ UntriedInv

-----------------------------------------------------------------------------
(* Facts about the constants and the data *)

\* A probe has at least one request and every request belongs to a connection.
LEMMA RequestFacts ==
    /\ RequestCount \in Nat \ {0}
    /\ 0 \in Requests /\ 0 \in Connections
    /\ \A s \in Requests : GetConnectionIndex(s) \in Connections
<1>1. RequestCount \in Nat \ {0}
  BY StrictProbeAssumption DEF RequestCount
<1>2. \A s \in Nat : s % ConnectionCount \in 0 .. ConnectionCount - 1
  BY StrictProbeAssumption
<1> QED
  BY <1>1, <1>2, StrictProbeAssumption DEF Requests, Connections, GetConnectionIndex

\* A reply a receiver holds names a request of the probe.
LEMMA ReplyFacts ==
    \A reply \in Replies : reply.seq \in Requests /\ reply.data \in BOOLEAN
BY RequestFacts DEF Replies

-----------------------------------------------------------------------------
(* Type correctness, by the parts that an action leaves alone *)

VerdictType == status \in {"active", "failed", "complete"} /\ drops \in Nat

WorkerType ==
    /\ pc \in Points
    /\ seqNum \in Requests
    /\ sending \in Packets
    /\ resetNext \in 0 .. ConnectionCount

TCPType ==
    /\ tcpAckReady \subseteq Connections
    /\ acknowledgments \in [Connections -> Nat]
    /\ tcpACKReplies \in Seq(Connections)
    /\ handshakeCount \in Nat

ReplyType ==
    /\ samples \in [Requests -> {"empty", "sent", "received"}]
    /\ replyReady \in BOOLEAN
    /\ validCount \in Nat
    /\ capture \in [Receivers -> Replies \cup {NoReply}]

WireType ==
    /\ wireAck \in [Connections -> Nat]
    /\ sentPackets \in Nat
    /\ resets \in [Connections -> {"none", "sent", "failed"}]

RunType ==
    /\ registered \in BOOLEAN
    /\ stopSignal \in BOOLEAN
    /\ limiterStopped \in BOOLEAN
    /\ saved \in BOOLEAN

\* The parts are the whole.
LEMMA TypeParts ==
    /\ TypeOK => VerdictType /\ WorkerType /\ TCPType /\ ReplyType /\ WireType /\ RunType
    /\ /\ VerdictType' /\ WorkerType' /\ TCPType'
       /\ ReplyType' /\ WireType' /\ RunType'
       => TypeOK'
BY DEF TypeOK, VerdictType, WorkerType, TCPType, ReplyType, WireType, RunType

\* What is left alone keeps its type.
LEMMA TypeUnchanged ==
    /\ VerdictType /\ UNCHANGED probeVars => VerdictType'
    /\ WorkerType /\ UNCHANGED workerVars => WorkerType'
    /\ TCPType /\ UNCHANGED tcpVars => TCPType'
    /\ ReplyType /\ UNCHANGED <<samples, replyReady, validCount, capture>> => ReplyType'
    /\ WireType /\ UNCHANGED wireVars => WireType'
    /\ RunType /\ UNCHANGED <<registered, runVars, saved>> => RunType'
BY DEF VerdictType, WorkerType, TCPType, ReplyType, WireType, RunType, probeVars,
       workerVars, tcpVars, wireVars, runVars

\* The same for an action that leaves everything but verdict and worker alone.
LEMMA DataUnchanged ==
    UNCHANGED dataVars =>
        UNCHANGED <<samples, replyReady, validCount, capture>> /\ UNCHANGED tcpVars
        /\ UNCHANGED wireVars /\ UNCHANGED <<registered, runVars, saved>>
BY DEF dataVars, tcpVars, wireVars, runVars

\* The steps that several actions share.
LEMMA FailType == VerdictType /\ Fail => VerdictType'
BY DEF VerdictType, Fail, probeVars

\* Going to a point keeps the types.
LEMMA GotoType ==
    ASSUME NEW point \in Points, WorkerType, Goto(point) PROVE WorkerType'
BY DEF WorkerType, Goto

\* A failed reset is one more counter and leaves the verdict alone.
LEMMA ResetFailsType ==
    ASSUME NEW c \in Connections, VerdictType, ResetFails(c) PROVE VerdictType'
BY DEF VerdictType, ResetFails

\* So does giving up.
LEMMA AbortType ==
    VerdictType /\ WorkerType /\ Abort => VerdictType' /\ WorkerType'
<1>1. "deregister" \in Points
  BY DEF Points
<1> QED
  BY <1>1, FailType, GotoType DEF Abort

\* So does taking an ACK from the channel.
LEMMA TakeACKType ==
    VerdictType /\ WorkerType /\ TCPType /\ TakeACK
        => VerdictType' /\ WorkerType' /\ TCPType' /\ UNCHANGED replyReady
<1> SUFFICES ASSUME VerdictType, WorkerType, TCPType, TakeACK
             PROVE VerdictType' /\ WorkerType' /\ TCPType' /\ UNCHANGED replyReady
  OBVIOUS
<1>1. Head(tcpACKReplies) \in Connections /\ Tail(tcpACKReplies) \in Seq(Connections)
  BY DEF TCPType, TakeACK
<1>2. "limiter" \in Points
  BY DEF Points
<1>3. sending' \in Packets
  BY <1>1 DEF TakeACK, WorkerType, TCPType, Packets
<1>4. WorkerType'
  BY <1>2, <1>3 DEF TakeACK, WorkerType
<1>5. VerdictType' /\ TCPType'
  BY <1>1 DEF TakeACK, VerdictType, TCPType, probeVars
<1> QED
  BY <1>4, <1>5 DEF TakeACK

\* The cases every select has, and those that end a wait.
LEMMA SelectType ==
    ASSUME VerdictType, WorkerType, TCPType, NEW point \in Points,
           FailedOrStopped \/ TimeoutFails \/ Proceed(point)
    PROVE VerdictType' /\ WorkerType' /\ TCPType' /\ UNCHANGED replyReady
<1>1. "deregister" \in Points
  BY DEF Points
<1>2. UNCHANGED tcpVars /\ UNCHANGED replyReady
  BY DEF FailedOrStopped, TimeoutFails, Proceed, tcpVars
<1>3. VerdictType' /\ WorkerType'
  BY <1>1, AbortType, GotoType, TypeUnchanged DEF FailedOrStopped, TimeoutFails, Proceed
<1> QED
  BY <1>2, <1>3, TypeUnchanged

\* Every step keeps every variable in its type.
LEMMA TypeStep == TypeOK /\ [Next]_vars => TypeOK'
<1> SUFFICES ASSUME TypeOK, [Next]_vars PROVE TypeOK'
  OBVIOUS
<1> USE TypeParts, TypeUnchanged, DataUnchanged
<1>p. \A point \in {"prepare", "limiter", "socket", "advance", "finish", "complete",
                    "save", "deregister", "reset", "return", "done", "flushTop",
                    "flushReply", "flushHandshakes", "flushEnd", "baseReply",
                    "interval", "handshakes", "fixedReplies"} : point \in Points
  BY DEF Points, FlushPoints, SelectPoints
<1>s. sending.back \in Points /\ sending.connection \in Connections
  BY DEF WorkerType, Packets
<1>1. CASE Register
  <2>1. WorkerType'
    BY <1>1, <1>p, GotoType DEF Register, LoopStart
  <2>2. ReplyType' /\ VerdictType' /\ TCPType' /\ WireType'
    BY <1>1 DEF Register
  <2>3. RunType'
    BY <1>1 DEF Register, RunType, runVars
  <2> QED
    BY <2>1, <2>2, <2>3
<1>2. CASE Prepare
  <2>1. AfterRequest \in Points
    BY <1>p DEF AfterRequest, AfterInterval
  <2>2. GetConnectionIndex(seqNum) \in Connections
    BY RequestFacts DEF WorkerType
  <2>3. acknowledgments[GetConnectionIndex(seqNum)] \in Nat
    BY <2>2 DEF TCPType
  <2>4. VerdictType' /\ WorkerType'
    <3>1. CASE Abort
      BY <3>1, AbortType
    <3>2. CASE /\ pc' = "limiter" /\ UNCHANGED <<probeVars, seqNum, resetNext>>
               /\ sending' = [kind |-> "request", connection |-> GetConnectionIndex(seqNum),
                              ack |-> acknowledgments[GetConnectionIndex(seqNum)],
                              back |-> AfterRequest]
      BY <3>2, <2>1, <2>2, <2>3, <1>p DEF WorkerType, Packets, probeVars, VerdictType
    <3> QED
      BY <1>2, <3>1, <3>2 DEF Prepare
  <2> QED
    BY <1>2, <2>4 DEF Prepare
<1>3. CASE LimiterGrant
  BY <1>3, <1>p, GotoType DEF LimiterGrant
<1>4. CASE LimiterRefuse
  <2>0. sending.connection \in Connections
    BY DEF WorkerType, Packets
  <2>1. VerdictType' /\ WorkerType'
    BY <1>4, <1>p, <2>0, GotoType, AbortType, ResetFailsType DEF LimiterRefuse
  <2>2. WireType'
    BY <1>4, <1>s DEF LimiterRefuse, ResetFails, WireType
  <2> QED
    BY <1>4, <2>1, <2>2 DEF LimiterRefuse, ResetFails
<1>5. CASE SendPacket
  <2>1. VerdictType' /\ WorkerType'
    BY <1>5, <1>p, <1>s, GotoType, AbortType DEF SendPacket
  <2>2. ReplyType'
    BY <1>5 DEF SendPacket, ReplyType, WorkerType
  <2>3. WireType'
    BY <1>5 DEF SendPacket, WireType, WorkerType, Packets
  <2> QED
    BY <1>5, <2>1, <2>2, <2>3 DEF SendPacket
<1>6. CASE FlushTCPACKs
  <2>1. VerdictType' /\ WorkerType' /\ TCPType' /\ UNCHANGED replyReady
    <3>1. CASE TakeACK
      BY <3>1, TakeACKType
    <3>2. CASE Goto(AfterFlush) /\ UNCHANGED <<probeVars, replyReady, tcpVars>>
      BY <3>2, <1>p, GotoType DEF AfterFlush
    <3> QED
      BY <1>6, <3>1, <3>2 DEF FlushTCPACKs
  <2> QED
    BY <1>6, <2>1 DEF FlushTCPACKs, ReplyType
<1>7. CASE WaitForBaseReply
  <2>1. VerdictType' /\ WorkerType' /\ TCPType' /\ replyReady' \in BOOLEAN
    <3>1. CASE TakeReplyToken /\ Goto("flushReply") /\ UNCHANGED <<probeVars, tcpVars>>
      BY <3>1, <1>p, GotoType DEF TakeReplyToken
    <3>2. CASE TimeoutFails \/ FailedOrStopped
      BY <3>2, <1>p, SelectType DEF ReplyType
    <3> QED
      BY <1>7, <3>1, <3>2 DEF WaitForBaseReply
  <2> QED
    BY <1>7, <2>1 DEF WaitForBaseReply, ReplyType
<1>8. CASE WaitInterval
  <2>1. AfterInterval \in Points
    BY <1>p DEF AfterInterval
  <2>2. VerdictType' /\ WorkerType' /\ TCPType' /\ UNCHANGED replyReady
    <3>1. CASE TakeACK
      BY <3>1, TakeACKType
    <3>2. CASE FailedOrStopped \/ TimeoutFails \/ Proceed(AfterInterval)
      BY <3>2, <2>1, SelectType
    <3> QED
      BY <1>8, <3>1, <3>2 DEF WaitInterval
  <2> QED
    BY <1>8, <2>2 DEF WaitInterval, ReplyType
<1>9. CASE WaitForTCPHandshakes
  <2>1. "flushHandshakes" \in Points
    BY <1>p
  <2>2. VerdictType' /\ WorkerType' /\ TCPType' /\ UNCHANGED replyReady
    <3>1. CASE TakeACK
      BY <3>1, TakeACKType
    <3>2. CASE FailedOrStopped \/ TimeoutFails \/ Proceed("flushHandshakes")
      BY <3>2, <2>1, SelectType
    <3> QED
      BY <1>9, <3>1, <3>2 DEF WaitForTCPHandshakes
  <2> QED
    BY <1>9, <2>2 DEF WaitForTCPHandshakes, ReplyType
<1>10. CASE WaitForFixedReplies
  <2>1. "flushEnd" \in Points
    BY <1>p
  <2>2. VerdictType' /\ WorkerType' /\ TCPType' /\ UNCHANGED replyReady
    <3>1. CASE TakeACK
      BY <3>1, TakeACKType
    <3>2. CASE FailedOrStopped \/ TimeoutFails \/ Proceed("flushEnd")
      BY <3>2, <2>1, SelectType
    <3> QED
      BY <1>10, <3>1, <3>2 DEF WaitForFixedReplies
  <2> QED
    BY <1>10, <2>2 DEF WaitForFixedReplies, ReplyType
<1>11. CASE Advance
  <2>1. VerdictType'
    BY <1>11 DEF Advance
  <2>2. WorkerType'
    <3>1. CASE RequestsLeft
      BY <1>11, <3>1, <1>p, RequestFacts
         DEF Advance, RequestsLeft, LoopStart, WorkerType, Requests
    <3>2. CASE ~RequestsLeft
      BY <1>11, <3>2, <1>p, GotoType DEF Advance
    <3> QED
      BY <3>1, <3>2
  <2> QED
    BY <1>11, <2>1, <2>2 DEF Advance
<1>12. CASE FinishFixedProbe
  BY <1>12, <1>p, GotoType, AbortType DEF FinishFixedProbe
<1>13. CASE Complete
  <2>1. WorkerType'
    BY <1>13, <1>p, GotoType DEF Complete
  <2>2. VerdictType'
    BY <1>13 DEF Complete, VerdictType, probeVars
  <2> QED
    BY <1>13, <2>1, <2>2 DEF Complete
<1>14. CASE Save
  <2>1. WorkerType'
    BY <1>14, <1>p, GotoType DEF Save
  <2>2. VerdictType'
    BY <1>14 DEF Save, VerdictType
  <2>3. saved' \in BOOLEAN
    BY <1>14, Zenon DEF Save, RunType
  <2>4. RunType'
    BY <1>14, <2>3 DEF Save, RunType, runVars
  <2> QED
    BY <1>14, <2>1, <2>2, <2>4 DEF Save
<1>15. CASE Deregister
  <2>1. WorkerType'
    BY <1>15, <1>p, GotoType DEF Deregister
  <2>2. RunType'
    BY <1>15 DEF Deregister, RunType, runVars
  <2> QED
    BY <1>15, <2>1, <2>2 DEF Deregister
<1>16. CASE ResetTCPConnections
  <2>1. resetNext' \in 0 .. ConnectionCount
    BY <1>16, StrictProbeAssumption DEF ResetTCPConnections, ResetFails, WorkerType
  <2>2. sending' \in Packets
    BY <1>16, <1>p DEF ResetTCPConnections, ResetFails, WorkerType, TCPType, Packets
  <2>3. WorkerType'
    BY <1>16, <1>p, <2>1, <2>2 DEF ResetTCPConnections, ResetFails, WorkerType
  <2>4. WireType'
    BY <1>16 DEF ResetTCPConnections, ResetFails, WireType, TCPType
  <2>5. VerdictType'
    BY <1>16 DEF ResetTCPConnections, ResetFails, VerdictType, probeVars
  <2> QED
    BY <1>16, <2>3, <2>4, <2>5 DEF ResetTCPConnections
<1>17. CASE SendReset
  <2>1. WorkerType'
    BY <1>17, <1>p, GotoType DEF SendReset, ResetFails
  <2>2. WireType'
    BY <1>17 DEF SendReset, ResetFails, WireType
  <2>3. VerdictType'
    BY <1>17 DEF SendReset, ResetFails, VerdictType, probeVars
  <2> QED
    BY <1>17, <2>1, <2>2, <2>3 DEF SendReset
<1>18. CASE Return
  <2>1. WorkerType'
    BY <1>18, <1>p, GotoType DEF Return
  <2>2. VerdictType'
    BY <1>18 DEF Return, VerdictType
  <2> QED
    BY <1>18, <2>1, <2>2 DEF Return
<1>19. ASSUME NEW r \in Receivers, Lookup(r) PROVE TypeOK'
  <2>1. ReplyType'
    BY <1>19 DEF Lookup, ReplyType
  <2> QED
    BY <1>19, <2>1 DEF Lookup
<1>20. ASSUME NEW r \in Receivers, FulfillBaseReply(r) PROVE TypeOK'
  <2>1. capture[r] \in Replies
    BY <1>20 DEF FulfillBaseReply, ReplyType
  <2>2. /\ capture[r].seq \in Requests /\ capture[r].data \in BOOLEAN
        /\ GetConnectionIndex(capture[r].seq) \in Connections
    BY <2>1, ReplyFacts, RequestFacts
  <2>3. capture' \in [Receivers -> Replies \cup {NoReply}]
    BY <1>20 DEF FulfillBaseReply, ReplyType
  <2>4. CASE Accept(capture[r])
    <3>1. ReplyType' /\ VerdictType'
      BY <2>2, <2>3, <2>4 DEF Accept, ReplyType
    <3>2. ASSUME AcceptTCP(capture[r]) PROVE TCPType'
      <4> DEFINE c == GetConnectionIndex(capture[r].seq)
                 length == IF capture[r].data THEN 1 ELSE 0
      <4>1. length \in Nat /\ c \in Connections
        BY <2>2
      <4>2. acknowledgments' \in [Connections -> Nat]
        <5> HIDE DEF c, length
        <5>1. \/ acknowledgments' = [acknowledgments EXCEPT ![c] = 1 + length]
              \/ acknowledgments' = [acknowledgments EXCEPT ![c] = @ + length]
          BY <3>2 DEF AcceptTCP, c, length
        <5> QED
          BY <4>1, <5>1 DEF TCPType
      <4>3. tcpACKReplies' \in Seq(Connections)
        <5> HIDE DEF c
        <5>1. tcpACKReplies' = Append(tcpACKReplies, c) \/ tcpACKReplies' = tcpACKReplies
          BY <3>2 DEF AcceptTCP, c
        <5>2. tcpACKReplies \in Seq(Connections) /\ c \in Connections
          BY <4>1 DEF TCPType
        <5>3. Append(tcpACKReplies, c) \in Seq(Connections)
          BY <5>2
        <5> QED
          BY <5>1, <5>2, <5>3
      <4>4. tcpAckReady' \subseteq Connections /\ handshakeCount' \in Nat
        BY <3>2, <4>1 DEF AcceptTCP, TCPType
      <4> QED
        BY <4>2, <4>3, <4>4 DEF TCPType
    <3>3. TCPType'
      BY <2>4, <3>2 DEF Accept
    <3> QED
      BY <1>20, <3>1, <3>3 DEF FulfillBaseReply
  <2>5. CASE Fail /\ UNCHANGED <<samples, replyReady, tcpVars, validCount>>
    <3>1. ReplyType' /\ VerdictType' /\ TCPType'
      BY <2>3, <2>5, FailType DEF ReplyType
    <3> QED
      BY <1>20, <3>1 DEF FulfillBaseReply
  <2> QED
    BY <1>20, <2>4, <2>5 DEF FulfillBaseReply
<1>21. CASE TriggerStop
  <2>1. RunType'
    BY <1>21 DEF TriggerStop, RunType
  <2> QED
    BY <1>21, <2>1 DEF TriggerStop
<1>22. CASE StopRateLimiter
  <2>1. RunType'
    BY <1>22 DEF StopRateLimiter, RunType
  <2> QED
    BY <1>22, <2>1 DEF StopRateLimiter
<1>23. CASE UNCHANGED vars
  BY <1>23 DEF vars
<1> QED
  BY <1>1, <1>2, <1>3, <1>4, <1>5, <1>6, <1>7, <1>8, <1>9, <1>10, <1>11, <1>12,
     <1>13, <1>14, <1>15, <1>16, <1>17, <1>18, <1>19, <1>20, <1>21, <1>22, <1>23
     DEF Next, Worker, Receiver, Finished

\* The initial state satisfies the invariant.
LEMMA InitIInv == Init => IInv
<1> SUFFICES ASSUME Init PROVE IInv
  OBVIOUS
<1> USE RequestFacts, StrictProbeAssumption DEF Init
<1>1. TypeOK
  <2>1. sending \in Packets /\ pc \in Points
    BY DEF Packets, Points
  <2>2. capture \in [Receivers -> Replies \cup {NoReply}]
    OBVIOUS
  <2> QED
    BY <2>1, <2>2 DEF TypeOK
<1>2. DropReasons = 0
  <2>1. FailedResets = {}
    BY DEF FailedResets
  <2> QED
    BY <2>1, FS_EmptySet DEF DropReasons
<1>3. VerdictInv /\ CompleteInv /\ ResetInv /\ UntriedInv
  BY <1>2 DEF VerdictInv, CleaningUp, Transmitting, LoopPoints, CompleteInv, ResetInv,
     UntriedInv, Connections
<1>4. RTInv
  <2>1. seqNum \in Requests /\ \A s \in Requests : s >= seqNum
    BY DEF Requests
  <2> QED
    BY <2>1 DEF RTInv, RTPoints, Transmitting, Requests
<1> QED
  BY <1>1, <1>3, <1>4 DEF IInv

\* Every variable keeps its type (all of StrictProbe's actions).
THEOREM TypeCorrect == Spec => []TypeOK
<1>1. Init => TypeOK
  BY InitIInv DEF IInv
<1> QED
  BY <1>1, TypeStep, PTL DEF Spec

-----------------------------------------------------------------------------
(* The inductive steps *)

\* What is counted for the target and for its failed resets are numbers.
LEMMA ReasonsType == TypeOK => DropReasons \in Int /\ IsFiniteSet(FailedResets)
<1> SUFFICES ASSUME TypeOK PROVE DropReasons \in Int /\ IsFiniteSet(FailedResets)
  OBVIOUS
<1>1. IsFiniteSet(Connections)
  BY StrictProbeAssumption, FS_Interval DEF Connections
<1>2. FailedResets \subseteq Connections
  BY DEF FailedResets
<1>3. IsFiniteSet(FailedResets)
  BY <1>1, <1>2, FS_Subset
<1>4. Cardinality(FailedResets) \in Nat
  BY <1>3, FS_CardinalityType
<1>5. drops \in Nat
  BY DEF TypeOK
<1> QED
  BY <1>3, <1>4, <1>5 DEF DropReasons

\* A reset that is not sent has a counter of its own, which is no drop reason.
LEMMA ResetFailsReason ==
    TypeOK /\ (\E c \in Connections : resets[c] = "none" /\ ResetFails(c))
        => DropReasons' = DropReasons
<1> SUFFICES ASSUME TypeOK, NEW c \in Connections, resets[c] = "none", ResetFails(c)
             PROVE DropReasons' = DropReasons
  OBVIOUS
<1>1. FailedResets' = FailedResets \cup {c}
  BY DEF ResetFails, FailedResets, TypeOK
<1>2. c \notin FailedResets
  BY DEF FailedResets
<1>3. IsFiniteSet(FailedResets)
  BY ReasonsType
<1>4. Cardinality(FailedResets \cup {c}) = Cardinality(FailedResets) + 1
  BY <1>2, <1>3, FS_AddElement
<1>5. Cardinality(FailedResets) \in Nat
  BY <1>3, FS_CardinalityType
<1>6. drops \in Nat /\ drops' = drops + 1
  BY DEF TypeOK, ResetFails
<1>7. Cardinality(FailedResets') = Cardinality(FailedResets) + 1
  BY <1>1, <1>4
<1> QED
  BY <1>5, <1>6, <1>7 DEF DropReasons

\* A step that decides no reset counts only drop reasons.
LEMMA ReasonCounted ==
    TypeOK /\ FailedResets' = FailedResets =>
        /\ drops' = drops => DropReasons' = DropReasons
        /\ drops' = drops + 1 => DropReasons' = DropReasons + 1
<1> SUFFICES ASSUME TypeOK, FailedResets' = FailedResets
             PROVE  /\ drops' = drops => DropReasons' = DropReasons
                    /\ drops' = drops + 1 => DropReasons' = DropReasons + 1
  OBVIOUS
<1>1. Cardinality(FailedResets) \in Nat
  BY ReasonsType, FS_CardinalityType
<1>2. drops \in Nat
  BY DEF TypeOK
<1> QED
  BY <1>1, <1>2 DEF DropReasons

\* The reset loop has tried nothing ahead of it.
LEMMA UntriedStep ==
    TypeOK /\ VerdictInv /\ UntriedInv /\ [Next]_vars => UntriedInv'
<1> SUFFICES ASSUME TypeOK, VerdictInv, UntriedInv, [Next]_vars PROVE UntriedInv'
  OBVIOUS
<1>t. /\ resetNext \in 0 .. ConnectionCount
      /\ resets \in [Connections -> {"none", "sent", "failed"}]
      /\ sending.connection \in Connections /\ tcpAckReady \subseteq Connections
      /\ \A c \in Connections : c \in Int
  BY StrictProbeAssumption DEF TypeOK, Packets, Connections
<1>b. sending.kind # "reset" => sending.back \notin {"limiter", "socket"}
  BY DEF VerdictInv, LoopPoints, FlushPoints, SelectPoints
<1> USE DEF UntriedInv, Transmitting, Goto, Abort, probeVars, workerVars, dataVars, wireVars
<1>1. CASE Register
  BY <1>1, <1>t, <1>b DEF Register, LoopStart
<1>2. CASE Prepare
  BY <1>2, <1>t, <1>b DEF Prepare, AfterRequest, AfterInterval
<1>3. CASE LimiterGrant
  BY <1>3, <1>t, <1>b DEF LimiterGrant
<1>4. CASE LimiterRefuse
  BY <1>4, <1>t, <1>b DEF LimiterRefuse, ResetFails
<1>5. CASE SendPacket
  BY <1>5, <1>t, <1>b DEF SendPacket
<1>6. CASE FlushTCPACKs
  BY <1>6, <1>t, <1>b DEF FlushTCPACKs, TakeACK, AfterFlush
<1>7. CASE WaitForBaseReply
  BY <1>7, <1>t, <1>b DEF WaitForBaseReply, TimeoutFails, FailedOrStopped
<1>8. CASE WaitInterval
  BY <1>8, <1>t, <1>b DEF WaitInterval, Proceed, TakeACK, FailedOrStopped, AfterInterval
<1>9. CASE WaitForTCPHandshakes
  BY <1>9, <1>t, <1>b DEF WaitForTCPHandshakes, Proceed, TakeACK, TimeoutFails, FailedOrStopped
<1>10. CASE WaitForFixedReplies
  BY <1>10, <1>t, <1>b DEF WaitForFixedReplies, Proceed, TakeACK, FailedOrStopped
<1>11. CASE Advance
  BY <1>11, <1>t, <1>b DEF Advance, LoopStart
<1>12. CASE FinishFixedProbe
  BY <1>12, <1>t, <1>b DEF FinishFixedProbe
<1>13. CASE Complete
  BY <1>13, <1>t, <1>b DEF Complete
<1>14. CASE Save
  BY <1>14, <1>t, <1>b DEF Save
<1>15. CASE Deregister
  BY <1>15, <1>t, <1>b DEF Deregister
<1>16. CASE ResetTCPConnections
  <2>1. resetNext' = IF resetNext < ConnectionCount THEN resetNext + 1 ELSE resetNext
    BY <1>16 DEF ResetTCPConnections
  <2>2. CASE /\ resetNext \in tcpAckReady /\ UNCHANGED resets
             /\ sending'.connection = resetNext
    <3>1. resetNext < ConnectionCount /\ resetNext' = resetNext + 1
      BY <1>t, <2>1, <2>2, StrictProbeAssumption DEF Connections
    <3>2. \A c \in Connections : c >= resetNext' => c >= resetNext
      BY <1>t, <3>1
    <3>3. sending'.connection < resetNext' /\ resets'[sending'.connection] = "none"
      BY <1>t, <2>2, <3>1
    <3> QED
      BY <2>2, <3>2, <3>3
  <2>3. CASE /\ resetNext \in tcpAckReady /\ UNCHANGED pc
             /\ resets' = [resets EXCEPT ![resetNext] = "failed"]
    <3>1. resetNext < ConnectionCount /\ resetNext' = resetNext + 1
      BY <1>t, <2>1, <2>3, StrictProbeAssumption DEF Connections
    <3>2. \A c \in Connections : c >= resetNext' => c >= resetNext /\ c # resetNext
      BY <1>t, <3>1
    <3>3. pc' = "reset"
      BY <1>16, <2>3 DEF ResetTCPConnections
    <3> QED
      BY <1>t, <2>3, <3>2, <3>3
  <2>4. CASE pc' \in {"reset", "return"} /\ UNCHANGED resets
    <3>1. \A c \in Connections : c >= resetNext' => c >= resetNext
      BY <1>t, <2>1
    <3> QED
      BY <2>4, <3>1
  <2> QED
    BY <1>16, <2>2, <2>3, <2>4 DEF ResetTCPConnections, ResetFails
<1>17. CASE SendReset
  BY <1>17, <1>t, <1>b DEF SendReset, ResetFails
<1>18. CASE Return
  BY <1>18, <1>t, <1>b DEF Return
<1>19. ASSUME NEW r \in Receivers, Lookup(r) PROVE UntriedInv'
  BY <1>19 DEF Lookup
<1>20. ASSUME NEW r \in Receivers, FulfillBaseReply(r) PROVE UntriedInv'
  BY <1>20, <1>t DEF FulfillBaseReply, Accept
<1>21. CASE TriggerStop
  BY <1>21 DEF TriggerStop
<1>22. CASE StopRateLimiter
  BY <1>22 DEF StopRateLimiter
<1>23. CASE UNCHANGED vars
  BY <1>23 DEF vars
<1> QED
  BY <1>1, <1>2, <1>3, <1>4, <1>5, <1>6, <1>7, <1>8, <1>9, <1>10, <1>11, <1>12,
     <1>13, <1>14, <1>15, <1>16, <1>17, <1>18, <1>19, <1>20, <1>21, <1>22, <1>23
     DEF Next, Worker, Receiver, Finished

\* The verdict is reached once and counted once.
LEMMA VerdictStep ==
    TypeOK /\ VerdictInv /\ UntriedInv /\ [Next]_vars => VerdictInv'
<1> SUFFICES ASSUME TypeOK, VerdictInv, UntriedInv, [Next]_vars PROVE VerdictInv'
  OBVIOUS
<1> USE DEF VerdictInv, CleaningUp, Transmitting, LoopPoints, FlushPoints,
            SelectPoints, Goto, Abort, Fail, probeVars, workerVars, dataVars, wireVars
<1>s. status \in {"active", "failed", "complete"} /\ DropReasons \in Int
  BY ReasonsType DEF TypeOK
<1>r. UNCHANGED resets =>
          /\ drops' = drops => DropReasons' = DropReasons
          /\ drops' = drops + 1 => DropReasons' = DropReasons + 1
  BY ReasonCounted DEF FailedResets
<1>t. /\ status \in {"active", "failed", "complete"} /\ DropReasons \in Int
      /\ UNCHANGED resets /\ drops' = drops => DropReasons' = DropReasons
      /\ UNCHANGED resets /\ drops' = drops + 1 => DropReasons' = DropReasons + 1
  BY <1>s, <1>r
<1>1. CASE Register
  BY <1>1, <1>t DEF Register, LoopStart
<1>2. CASE Prepare
  BY <1>2, <1>t DEF Prepare, AfterRequest, AfterInterval
<1>3. CASE LimiterGrant
  BY <1>3, <1>t DEF LimiterGrant
<1>4. CASE LimiterRefuse
  <2>1. CASE sending.kind = "reset"
    <3>1. \E c \in Connections : resets[c] = "none" /\ ResetFails(c)
      BY <1>4, <2>1 DEF LimiterRefuse, UntriedInv, TypeOK, Packets
    <3> QED
      BY <1>4, <2>1, <3>1, ResetFailsReason DEF LimiterRefuse, ResetFails
  <2>2. CASE sending.kind # "reset"
    BY <1>4, <1>t, <2>2 DEF LimiterRefuse
  <2> QED
    BY <2>1, <2>2
<1>5. CASE SendPacket
  BY <1>5, <1>t DEF SendPacket, ReadyToSend
<1>6. CASE FlushTCPACKs
  BY <1>6, <1>t DEF FlushTCPACKs, TakeACK, AfterFlush
<1>7. CASE WaitForBaseReply
  BY <1>7, <1>t DEF WaitForBaseReply, TimeoutFails, FailedOrStopped
<1>8. CASE WaitInterval
  BY <1>8, <1>t DEF WaitInterval, Proceed, TakeACK, FailedOrStopped, AfterInterval
<1>9. CASE WaitForTCPHandshakes
  BY <1>9, <1>t DEF WaitForTCPHandshakes, Proceed, TakeACK, TimeoutFails, FailedOrStopped
<1>10. CASE WaitForFixedReplies
  BY <1>10, <1>t DEF WaitForFixedReplies, Proceed, TakeACK, FailedOrStopped
<1>11. CASE Advance
  BY <1>11, <1>t DEF Advance, LoopStart
<1>12. CASE FinishFixedProbe
  BY <1>12, <1>t DEF FinishFixedProbe
<1>13. CASE Complete
  BY <1>13, <1>t DEF Complete
<1>14. CASE Save
  BY <1>14, <1>t DEF Save
<1>15. CASE Deregister
  BY <1>15, <1>t DEF Deregister
<1>16. CASE ResetTCPConnections
  <2>1. CASE resetNext \in tcpAckReady /\ ResetFails(resetNext) /\ UNCHANGED <<pc, sending>>
    <3>1. \E c \in Connections : resets[c] = "none" /\ ResetFails(c)
      BY <2>1 DEF UntriedInv, TypeOK, Connections
    <3> QED
      BY <1>16, <2>1, <3>1, ResetFailsReason DEF ResetTCPConnections, ResetFails
  <2>2. CASE UNCHANGED <<probeVars, resets>>
    BY <1>16, <1>t, <2>2 DEF ResetTCPConnections
  <2> QED
    BY <1>16, <2>1, <2>2 DEF ResetTCPConnections
<1>17. CASE SendReset
  <2>1. resets[sending.connection] = "none" /\ sending.connection \in Connections
    BY <1>17 DEF SendReset, UntriedInv, TypeOK, Packets
  <2>2. CASE ResetFails(sending.connection)
    <3>1. \E c \in Connections : resets[c] = "none" /\ ResetFails(c)
      BY <2>1, <2>2
    <3> QED
      BY <1>17, <2>2, <3>1, ResetFailsReason DEF SendReset, ResetFails
  <2>3. CASE resets' = [resets EXCEPT ![sending.connection] = "sent"] /\ UNCHANGED probeVars
    <3>1. FailedResets' = FailedResets
      BY <2>1, <2>3 DEF FailedResets, TypeOK
    <3>2. DropReasons' = DropReasons
      BY <2>3, <3>1, ReasonCounted
    <3> QED
      BY <1>17, <2>3, <3>2 DEF SendReset
  <2> QED
    BY <1>17, <2>2, <2>3 DEF SendReset
<1>18. CASE Return
  BY <1>18, <1>t DEF Return
<1>19. ASSUME NEW r \in Receivers, Lookup(r) PROVE VerdictInv'
  BY <1>19, <1>t DEF Lookup
<1>20. ASSUME NEW r \in Receivers, FulfillBaseReply(r) PROVE VerdictInv'
  BY <1>20, <1>t DEF FulfillBaseReply, Accept
<1>21. CASE TriggerStop
  BY <1>21, <1>t DEF TriggerStop
<1>22. CASE StopRateLimiter
  BY <1>22, <1>t DEF StopRateLimiter
<1>23. CASE UNCHANGED vars
  BY <1>23, <1>t DEF vars
<1> QED
  BY <1>1, <1>2, <1>3, <1>4, <1>5, <1>6, <1>7, <1>8, <1>9, <1>10, <1>11, <1>12,
     <1>13, <1>14, <1>15, <1>16, <1>17, <1>18, <1>19, <1>20, <1>21, <1>22, <1>23
     DEF Next, Worker, Receiver, Finished

\* One request is outstanding at a time in RT mode.
LEMMA RTStep ==
    TypeOK /\ VerdictInv /\ RTInv /\ [Next]_vars => RTInv'
<1> SUFFICES ASSUME TypeOK, VerdictInv, RTInv, [Next]_vars PROVE RTInv'
  OBVIOUS
<1>t. /\ seqNum \in Requests /\ sending.kind \in {"request", "ack", "reset"}
      /\ samples \in [Requests -> {"empty", "sent", "received"}]
      /\ replyReady \in BOOLEAN
      /\ \A s \in Requests : s \in Int
  BY DEF TypeOK, Packets, Requests
<1> USE DEF RTInv, RTPoints, Transmitting, Goto, Abort, Fail, probeVars, workerVars,
            dataVars
<1>1. CASE Register
  BY <1>1, <1>t DEF Register, LoopStart
<1>2. CASE Prepare
  BY <1>2, <1>t DEF Prepare, AfterRequest, AfterInterval
<1>3. CASE LimiterGrant
  BY <1>3, <1>t DEF LimiterGrant
<1>4. CASE LimiterRefuse
  BY <1>4, <1>t DEF LimiterRefuse, ResetFails
<1>5. CASE SendPacket
  BY <1>5, <1>t DEF SendPacket, ReadyToSend, VerdictInv, CleaningUp
<1>6. CASE FlushTCPACKs
  <2>1. CASE TakeACK
    <3>1. pc' = "limiter" /\ sending'.kind = "ack" /\ sending'.back = pc
      BY <2>1 DEF TakeACK
    <3>2. UNCHANGED <<seqNum, samples, replyReady>>
      BY <1>6, <2>1 DEF TakeACK, FlushTCPACKs
    <3> QED
      BY <1>6, <1>t, <3>1, <3>2 DEF FlushTCPACKs, FlushPoints
  <2>2. CASE Goto(AfterFlush) /\ UNCHANGED <<probeVars, replyReady, tcpVars>>
    BY <1>6, <1>t, <2>2 DEF FlushTCPACKs, FlushPoints, AfterFlush
  <2> QED
    BY <1>6, <2>1, <2>2 DEF FlushTCPACKs
<1>7. CASE WaitForBaseReply
  BY <1>7, <1>t DEF WaitForBaseReply, TimeoutFails, FailedOrStopped, TakeReplyToken
<1>8. CASE WaitInterval
  BY <1>8, <1>t DEF WaitInterval, Proceed, TakeACK, FailedOrStopped, AfterInterval
<1>9. CASE WaitForTCPHandshakes
  BY <1>9, <1>t DEF WaitForTCPHandshakes, Proceed, TakeACK, TimeoutFails, FailedOrStopped
<1>10. CASE WaitForFixedReplies
  BY <1>10, <1>t DEF WaitForFixedReplies, Proceed, TakeACK, FailedOrStopped
<1>11. CASE Advance
  <2>1. CASE RequestsLeft
    <3>1. \A s \in Requests : (s < seqNum + 1 => s <= seqNum) /\ (s > seqNum + 1 => s > seqNum)
      BY <1>t DEF Requests
    <3>2. seqNum + 1 \in Requests /\ seqNum + 1 > seqNum
      BY <1>t, <2>1, RequestFacts DEF Requests, RequestsLeft
    <3>3. pc' = LoopStart /\ seqNum' = seqNum + 1 /\ UNCHANGED <<sending, samples, replyReady>>
      BY <1>11, <2>1 DEF Advance
    <3>4. RTBased => \A s \in Requests : s < seqNum + 1 => samples[s] = "received"
      BY <1>11, <1>t, <3>1 DEF Advance
    <3>5. RTBased => \A s \in Requests : s > seqNum + 1 => samples[s] = "empty"
      BY <1>11, <1>t, <3>1 DEF Advance
    <3>6. RTBased => samples[seqNum + 1] = "empty" /\ ~replyReady
      BY <1>11, <1>t, <3>2 DEF Advance
    <3> QED
      BY <3>3, <3>4, <3>5, <3>6 DEF LoopStart
  <2>2. CASE ~RequestsLeft
    BY <1>11, <1>t, <2>2 DEF Advance
  <2> QED
    BY <2>1, <2>2
<1>12. CASE FinishFixedProbe
  BY <1>12, <1>t DEF FinishFixedProbe
<1>13. CASE Complete
  BY <1>13, <1>t DEF Complete
<1>14. CASE Save
  BY <1>14, <1>t DEF Save
<1>15. CASE Deregister
  BY <1>15, <1>t DEF Deregister
<1>16. CASE ResetTCPConnections
  BY <1>16, <1>t DEF ResetTCPConnections, ResetFails
<1>17. CASE SendReset
  BY <1>17, <1>t DEF SendReset, ResetFails
<1>18. CASE Return
  BY <1>18, <1>t DEF Return
<1>19. ASSUME NEW r \in Receivers, Lookup(r) PROVE RTInv'
  BY <1>19, <1>t DEF Lookup
<1>20. ASSUME NEW r \in Receivers, FulfillBaseReply(r) PROVE RTInv'
  <2>1. CASE Accept(capture[r]) /\ StillActive /\ Acceptable(capture[r])
    <3>1. capture[r].seq \in Requests
      BY <1>20, ReplyFacts DEF FulfillBaseReply, TypeOK
    <3>2. RTBased => capture[r].seq = seqNum
      BY <1>t, <2>1, <3>1 DEF Acceptable
    <3> QED
      BY <1>20, <1>t, <2>1, <3>1, <3>2
         DEF Accept, Acceptable, StillActive, FulfillBaseReply, VerdictInv, CleaningUp
  <2>2. CASE UNCHANGED <<samples, replyReady>>
    BY <1>20, <2>2 DEF FulfillBaseReply
  <2> QED
    BY <1>20, <2>1, <2>2 DEF FulfillBaseReply
<1>21. CASE TriggerStop
  BY <1>21, <1>t DEF TriggerStop
<1>22. CASE StopRateLimiter
  BY <1>22, <1>t DEF StopRateLimiter
<1>23. CASE UNCHANGED vars
  BY <1>23, <1>t DEF vars
<1> QED
  BY <1>1, <1>2, <1>3, <1>4, <1>5, <1>6, <1>7, <1>8, <1>9, <1>10, <1>11, <1>12,
     <1>13, <1>14, <1>15, <1>16, <1>17, <1>18, <1>19, <1>20, <1>21, <1>22, <1>23
     DEF Next, Worker, Receiver, Finished

\* A probe that is completed or saved has all its replies.
LEMMA CompleteStep ==
    TypeOK /\ VerdictInv /\ RTInv /\ CompleteInv /\ [Next]_vars => CompleteInv'
<1> SUFFICES ASSUME TypeOK, VerdictInv, RTInv, CompleteInv, [Next]_vars PROVE CompleteInv'
  OBVIOUS
<1>t. /\ seqNum \in Requests /\ samples \in [Requests -> {"empty", "sent", "received"}]
      /\ \A s \in Requests : s \in Int
  BY DEF TypeOK, Requests
<1> USE DEF CompleteInv, VerdictInv, CleaningUp, Transmitting, Goto, Abort, Fail,
            probeVars, workerVars, dataVars
<1>1. CASE Register
  BY <1>1, <1>t DEF Register, LoopStart
<1>2. CASE Prepare
  BY <1>2, <1>t DEF Prepare, AfterRequest, AfterInterval
<1>3. CASE LimiterGrant
  BY <1>3, <1>t DEF LimiterGrant
<1>4. CASE LimiterRefuse
  BY <1>4, <1>t DEF LimiterRefuse, ResetFails
<1>5. CASE SendPacket
  <2>1. ~saved /\ status # "complete"
    BY <1>5, <1>t DEF SendPacket, TypeOK
  <2>2. pc' \notin {"complete", "save"}
    BY <1>5 DEF SendPacket, LoopPoints, FlushPoints, SelectPoints
  <2> QED
    BY <1>5, <2>1, <2>2 DEF SendPacket
<1>6. CASE FlushTCPACKs
  BY <1>6, <1>t DEF FlushTCPACKs, TakeACK, AfterFlush
<1>7. CASE WaitForBaseReply
  BY <1>7, <1>t DEF WaitForBaseReply, TimeoutFails, FailedOrStopped, TakeReplyToken
<1>8. CASE WaitInterval
  BY <1>8, <1>t DEF WaitInterval, Proceed, TakeACK, FailedOrStopped, AfterInterval
<1>9. CASE WaitForTCPHandshakes
  BY <1>9, <1>t DEF WaitForTCPHandshakes, Proceed, TakeACK, TimeoutFails, FailedOrStopped
<1>10. CASE WaitForFixedReplies
  BY <1>10, <1>t DEF WaitForFixedReplies, Proceed, TakeACK, FailedOrStopped
<1>11. CASE Advance
  <2>1. CASE RTBased /\ ~RequestsLeft
    <3>1. \A s \in Requests : s < seqNum \/ s = seqNum
      BY <1>t, <2>1, RequestFacts DEF Requests, RequestsLeft
    <3> QED
      BY <1>11, <1>t, <2>1, <3>1 DEF Advance, RTInv
  <2>2. CASE ~RTBased \/ RequestsLeft
    BY <1>11, <2>2 DEF Advance, LoopStart
  <2> QED
    BY <2>1, <2>2
<1>12. CASE FinishFixedProbe
  BY <1>12, <1>t DEF FinishFixedProbe, ReplyRateMet
<1>13. CASE Complete
  BY <1>13, <1>t DEF Complete
<1>14. CASE Save
  BY <1>14, <1>t DEF Save
<1>15. CASE Deregister
  BY <1>15, <1>t DEF Deregister
<1>16. CASE ResetTCPConnections
  BY <1>16, <1>t DEF ResetTCPConnections, ResetFails
<1>17. CASE SendReset
  BY <1>17, <1>t DEF SendReset, ResetFails
<1>18. CASE Return
  BY <1>18, <1>t DEF Return
<1>19. ASSUME NEW r \in Receivers, Lookup(r) PROVE CompleteInv'
  BY <1>19, <1>t DEF Lookup
<1>20. ASSUME NEW r \in Receivers, FulfillBaseReply(r) PROVE CompleteInv'
  <2>1. CASE Accept(capture[r]) /\ StillActive /\ Acceptable(capture[r])
    <3>1. capture[r].seq \in Requests
      BY <1>20, ReplyFacts DEF FulfillBaseReply, TypeOK
    <3>2. pc \notin {"complete", "save"} /\ ~saved /\ status # "complete"
      BY <1>t, <2>1, <3>1 DEF StillActive, Acceptable
    <3> QED
      BY <1>20, <2>1, <3>2 DEF Accept, FulfillBaseReply
  <2>2. CASE Fail /\ UNCHANGED samples
    BY <1>20, <2>2 DEF FulfillBaseReply
  <2> QED
    BY <1>20, <2>1, <2>2 DEF FulfillBaseReply
<1>21. CASE TriggerStop
  BY <1>21, <1>t DEF TriggerStop
<1>22. CASE StopRateLimiter
  BY <1>22, <1>t DEF StopRateLimiter
<1>23. CASE UNCHANGED vars
  BY <1>23, <1>t DEF vars
<1> QED
  BY <1>1, <1>2, <1>3, <1>4, <1>5, <1>6, <1>7, <1>8, <1>9, <1>10, <1>11, <1>12,
     <1>13, <1>14, <1>15, <1>16, <1>17, <1>18, <1>19, <1>20, <1>21, <1>22, <1>23
     DEF Next, Worker, Receiver, Finished

\* The cleanup loop leaves no accepted connection behind.
LEMMA ResetStep ==
    TypeOK /\ VerdictInv /\ ResetInv /\ [Next]_vars => ResetInv'
<1> SUFFICES ASSUME TypeOK, VerdictInv, ResetInv, [Next]_vars PROVE ResetInv'
  OBVIOUS
<1>t. /\ status \in {"active", "failed", "complete"}
      /\ tcpAckReady \subseteq Connections /\ resetNext \in 0 .. ConnectionCount
      /\ resets \in [Connections -> {"none", "sent", "failed"}]
      /\ sending.connection \in Connections
      /\ \A c \in Connections : c \in Int /\ c < ConnectionCount
  BY StrictProbeAssumption DEF TypeOK, Packets, Connections
<1> USE StrictProbeAssumption
    DEF ResetInv, VerdictInv, CleaningUp, Transmitting, Goto, Abort, Fail,
        probeVars, workerVars, dataVars, tcpVars, wireVars
<1>1. CASE Register
  BY <1>1, <1>t DEF Register, LoopStart
<1>2. CASE Prepare
  BY <1>2, <1>t DEF Prepare, AfterRequest, AfterInterval
<1>3. CASE LimiterGrant
  BY <1>3, <1>t DEF LimiterGrant
<1>4. CASE LimiterRefuse
  BY <1>4, <1>t DEF LimiterRefuse, ResetFails, Cancelled
<1>5. CASE SendPacket
  <2>1. UNCHANGED <<sending, resetNext, resets, tcpAckReady>>
    BY <1>5 DEF SendPacket
  <2>2. pc = "socket" /\ sending.kind # "reset" /\ pc' \notin {"return", "done"}
    BY <1>5 DEF SendPacket, LoopPoints, FlushPoints, SelectPoints
  <2>3. status' = "active" => status = "active"
    BY <1>5 DEF SendPacket
  <2> QED
    BY <2>1, <2>2, <2>3
<1>6. CASE FlushTCPACKs
  <2>1. UNCHANGED <<status, resetNext, resets, tcpAckReady>>
    BY <1>6 DEF FlushTCPACKs, TakeACK
  <2>2. pc \in FlushPoints /\ pc' \notin {"return", "done"}
    BY <1>6 DEF FlushTCPACKs, TakeACK, AfterFlush
  <2>3. pc \notin {"limiter", "socket"}
    BY <2>2 DEF FlushPoints
  <2> QED
    BY <2>1, <2>2, <2>3
<1>7. CASE WaitForBaseReply
  BY <1>7, <1>t DEF WaitForBaseReply, TimeoutFails, FailedOrStopped, TakeReplyToken
<1>8. CASE WaitInterval
  BY <1>8, <1>t DEF WaitInterval, Proceed, TakeACK, FailedOrStopped, AfterInterval
<1>9. CASE WaitForTCPHandshakes
  BY <1>9, <1>t DEF WaitForTCPHandshakes, Proceed, TakeACK, TimeoutFails, FailedOrStopped
<1>10. CASE WaitForFixedReplies
  BY <1>10, <1>t DEF WaitForFixedReplies, Proceed, TakeACK, FailedOrStopped
<1>11. CASE Advance
  BY <1>11, <1>t DEF Advance, LoopStart
<1>12. CASE FinishFixedProbe
  BY <1>12, <1>t DEF FinishFixedProbe, ReplyRateMet
<1>13. CASE Complete
  BY <1>13, <1>t DEF Complete
<1>14. CASE Save
  BY <1>14, <1>t DEF Save
<1>15. CASE Deregister
  BY <1>15, <1>t DEF Deregister
<1>16. CASE ResetTCPConnections
  BY <1>16, <1>t DEF ResetTCPConnections, ResetFails
<1>17. CASE SendReset
  BY <1>17, <1>t DEF SendReset, ResetFails
<1>18. CASE Return
  BY <1>18, <1>t DEF Return
<1>19. ASSUME NEW r \in Receivers, Lookup(r) PROVE ResetInv'
  BY <1>19, <1>t DEF Lookup
<1>20. ASSUME NEW r \in Receivers, FulfillBaseReply(r) PROVE ResetInv'
  <2>1. CASE Accept(capture[r]) /\ StillActive
    <3>1. resetNext = 0 /\ UNCHANGED <<status, pc, sending, resetNext, resets>>
      BY <1>20, <2>1 DEF StillActive, Accept, FulfillBaseReply
    <3>2. tcpAckReady' \subseteq Connections
      BY TypeStep DEF TypeOK
    <3>3. ~TcpEstablishConnection => tcpAckReady' = {}
      BY <2>1 DEF Accept
    <3>4. \A c \in tcpAckReady' : ~(c < 0)
      BY <1>t, <3>2 DEF Connections
    <3> QED
      BY <2>1, <3>1, <3>3, <3>4 DEF StillActive
  <2>2. CASE Fail /\ UNCHANGED tcpVars
    BY <1>20, <2>2 DEF FulfillBaseReply
  <2> QED
    BY <1>20, <2>1, <2>2 DEF FulfillBaseReply
<1>21. CASE TriggerStop
  BY <1>21, <1>t DEF TriggerStop
<1>22. CASE StopRateLimiter
  BY <1>22, <1>t DEF StopRateLimiter
<1>23. CASE UNCHANGED vars
  BY <1>23, <1>t DEF vars
<1> QED
  BY <1>1, <1>2, <1>3, <1>4, <1>5, <1>6, <1>7, <1>8, <1>9, <1>10, <1>11, <1>12,
     <1>13, <1>14, <1>15, <1>16, <1>17, <1>18, <1>19, <1>20, <1>21, <1>22, <1>23
     DEF Next, Worker, Receiver, Finished

-----------------------------------------------------------------------------
(* The theorems *)

\* IInv is an invariant: it holds initially and every step keeps all its parts.
THEOREM InductiveInvariant == Spec => []IInv
<1>1. IInv /\ [Next]_vars => IInv'
  BY TypeStep, VerdictStep, RTStep, CompleteStep, ResetStep, UntriedStep DEF IInv
<1> QED
  BY <1>1, InitIInv, PTL DEF Spec

\* Only complete results are saved: what measureBaseRT or finishFixedProbe puts on
\* SaveProbesChannel has a reply to every request, for any number of them.
THEOREM SavedCompleteTheorem == Spec => []SavedComplete
<1>1. IInv => SavedComplete
  BY DEF IInv, VerdictInv, CompleteInv, SavedComplete, TypeOK
<1> QED
  BY <1>1, InductiveInvariant, PTL

\* Every target is saved or counted under exactly one drop reason (failLocked), besides one
\* counter for each of its cleanup resets that was not sent (sendPacket with no probe).
THEOREM CountedOnceTheorem == Spec => []CountedOnce
<1>1. IInv => CountedOnce
  BY DEF IInv, VerdictInv, CountedOnce, CleaningUp, TypeOK
<1> QED
  BY <1>1, InductiveInvariant, PTL

\* In RT mode a request is sent only when all earlier ones are answered.
THEOREM OneOutstandingTheorem == Spec => []OneOutstanding
<1>1. IInv => OneOutstanding
  <2> SUFFICES ASSUME IInv, RTBased, NEW s \in Requests, NEW t \in Requests,
                      s < t, samples[t] # "empty"
               PROVE samples[s] = "received"
    BY DEF OneOutstanding
  <2>1. s \in Int /\ t \in Int /\ seqNum \in Int
    BY DEF IInv, TypeOK, Requests
  <2>2. ~(t > seqNum)
    BY DEF IInv, RTInv
  <2> QED
    BY <2>1, <2>2 DEF IInv, RTInv
<1> QED
  BY <1>1, InductiveInvariant, PTL

\* Every accepted connection gets its cleanup reset tried (resetTCPConnections).
THEOREM NoConnectionLeakedTheorem == Spec => []NoConnectionLeaked
<1>1. IInv => NoConnectionLeaked
  BY DEF IInv, TypeOK, ResetInv, NoConnectionLeaked, Transmitting, Connections
<1> QED
  BY <1>1, InductiveInvariant, PTL

\* No queued reply changes the result of a decided probe (fulfillBaseReply).
THEOREM FrozenResultTheorem == Spec => FrozenResult
<1>1. [Next]_vars
        => [status # "active" => UNCHANGED <<samples, tcpAckReady, acknowledgments>>]_vars
  <2> SUFFICES ASSUME Next, status # "active"
               PROVE UNCHANGED <<samples, tcpAckReady, acknowledgments>>
    OBVIOUS
  <2> USE DEF dataVars, tcpVars
  <2>1. CASE Register \/ Prepare \/ LimiterGrant \/ LimiterRefuse
    BY <2>1 DEF Register, Prepare, LimiterGrant, LimiterRefuse
  <2>2. CASE SendPacket
    BY <2>2 DEF SendPacket, ReadyToSend
  <2>3. CASE FlushTCPACKs \/ WaitForBaseReply \/ WaitInterval
    BY <2>3 DEF FlushTCPACKs, WaitForBaseReply, WaitInterval, TakeACK, Proceed,
                TimeoutFails, FailedOrStopped
  <2>4. CASE WaitForTCPHandshakes \/ WaitForFixedReplies
    BY <2>4 DEF WaitForTCPHandshakes, WaitForFixedReplies, TakeACK, Proceed,
                TimeoutFails, FailedOrStopped
  <2>5. CASE Advance \/ FinishFixedProbe \/ Complete \/ Save \/ Deregister
    BY <2>5 DEF Advance, FinishFixedProbe, Complete, Save, Deregister
  <2>6. CASE ResetTCPConnections \/ SendReset \/ Return \/ TriggerStop \/ StopRateLimiter
    BY <2>6 DEF ResetTCPConnections, ResetFails, SendReset, Return, TriggerStop, StopRateLimiter
  <2>7. ASSUME NEW r \in Receivers, Receiver(r)
        PROVE UNCHANGED <<samples, tcpAckReady, acknowledgments>>
    BY <2>7 DEF Receiver, Lookup, FulfillBaseReply, StillActive
  <2>8. CASE Finished
    BY <2>8 DEF Finished, vars
  <2> QED
    BY <2>1, <2>2, <2>3, <2>4, <2>5, <2>6, <2>7, <2>8 DEF Next, Worker
<1> QED
  BY <1>1, PTL DEF Spec, FrozenResult

\* Once a probe is decided only cleanup resets are sent for it (sendPacket).
THEOREM SilentAfterVerdictTheorem == Spec => SilentAfterVerdict
<1>1. [Next]_vars
        => [status # "active" /\ sentPackets' # sentPackets => sending.kind = "reset"]_vars
  <2> SUFFICES ASSUME Next, status # "active", sentPackets' # sentPackets
               PROVE sending.kind = "reset"
    OBVIOUS
  <2> USE DEF dataVars, wireVars
  <2>1. ~(Register \/ Prepare \/ LimiterGrant \/ LimiterRefuse)
    BY DEF Register, Prepare, LimiterGrant, LimiterRefuse
  <2>2. ~SendPacket
    BY DEF SendPacket, ReadyToSend
  <2>3. ~(FlushTCPACKs \/ WaitForBaseReply \/ WaitInterval \/ WaitForTCPHandshakes
          \/ WaitForFixedReplies)
    BY DEF FlushTCPACKs, WaitForBaseReply, WaitInterval, WaitForTCPHandshakes,
           WaitForFixedReplies
  <2>4. ~(Advance \/ FinishFixedProbe \/ Complete \/ Save \/ Deregister)
    BY DEF Advance, FinishFixedProbe, Complete, Save, Deregister
  <2>5. ~(ResetTCPConnections \/ Return \/ TriggerStop \/ StopRateLimiter \/ Finished)
    BY DEF ResetTCPConnections, ResetFails, Return, TriggerStop, StopRateLimiter, Finished, vars
  <2>6. ~(\E r \in Receivers : Receiver(r))
    BY DEF Receiver, Lookup, FulfillBaseReply
  <2>7. SendReset
    BY <2>1, <2>2, <2>3, <2>4, <2>5, <2>6 DEF Next, Worker
  <2> QED
    BY <2>7 DEF SendReset, ResetFails
<1> QED
  BY <1>1, PTL DEF Spec, SilentAfterVerdict

-----------------------------------------------------------------------------
(***************************************************************************)
(* The conversation with the server: what has been sent and answered, and  *)
(* which empty ACKs the worker still owes.  CInv is its inductive          *)
(* invariant, next to IInv.                                                *)
(***************************************************************************)

\* The requests are sent in order: none after seqNum, and seqNum itself not before the
\* worker comes to it.
OrderInv ==
    /\ \A s \in Requests : s > seqNum => samples[s] = "empty"
    /\ pc \in {"start", "flushTop", "prepare"} \/ Transmitting("request")
          => samples[seqNum] = "empty"
    /\ Transmitting("ack") /\ sending.back = "flushTop" => samples[seqNum] = "empty"

\* A packet leads the worker back to where it came from.
RouteInv ==
    /\ Transmitting("request") =>
          sending.back = AfterRequest /\ sending.connection = GetConnectionIndex(seqNum)
    /\ Transmitting("ack") => sending.back \in FlushPoints \cup SelectPoints
    /\ ~RTBased => pc \notin {"baseReply", "flushReply"}
    /\ ~RTBased /\ Transmitting("ack") => sending.back \notin {"baseReply", "flushReply"}

\* Every ACK that is owed is owed for a reply, on a connection that is ready.
Answered == {s \in Requests : samples[s] = "received"}

QueueInv ==
    /\ Len(tcpACKReplies) <= Cardinality(Answered)
    /\ \A i \in 1 .. Len(tcpACKReplies) : tcpACKReplies[i] \in tcpAckReady

\* The fixed-interval worker is past the wait for the handshakes.
HandshakesPassed ==
    \/ pc = "flushHandshakes"
    \/ Transmitting("ack") /\ sending.back = "flushHandshakes"
    \/ pc = "advance" /\ seqNum + 1 = ConnectionCount
    \/ ~OpensConnection(seqNum)

\* A connection is ready when its opening request is answered, and all are ready when
\* tcpHandshakeDone is closed.
ReadyInv ==
    TcpEstablishConnection =>
        /\ \A c \in Connections : c \in tcpAckReady <=> samples[c] = "received"
        /\ \A c \in tcpAckReady : acknowledgments[c] > 0
        /\ handshakeCount = Cardinality(tcpAckReady)
        /\ ~RTBased /\ HandshakesPassed => tcpAckReady = Connections

\* The worker owes connection c an empty ACK.
Queued(c) == \E i \in 1 .. Len(tcpACKReplies) : tcpACKReplies[i] = c

\* What the last empty ACK of c acknowledges, the one on its way to the socket included.
LastAck(c) ==
    IF Transmitting("ack") /\ sending.connection = c THEN sending.ack ELSE wireAck[c]

\* The fixed-interval worker has flushed the ACKs of the handshakes.
DataAhead ==
    \/ pc = "advance" /\ seqNum + 1 = ConnectionCount
    \/ ~OpensConnection(seqNum)

\* The points of the RT loop at which no ACK is owed.
QuietPoints == {"start", "prepare", "advance", "complete"}

\* While the probe is active every connection is either owed an ACK or its last one is
\* not stale.
AckInv ==
    TcpEstablishConnection =>
        /\ Transmitting("ack") => sending.ack > 0
        /\ status = "active" =>
              \A c \in Connections : Queued(c) \/ LastAck(c) = acknowledgments[c]
        /\ RTBased /\ (pc \in QuietPoints \/ Transmitting("request"))
              => tcpACKReplies = <<>>
        /\ RTBased /\ status = "complete"
              => tcpACKReplies = <<>> /\ wireAck = acknowledgments
        /\ ~RTBased /\ status = "active" /\ DataAhead
              => \A c \in Connections : wireAck[c] > 0
        /\ HandshakeAcknowledged

CInv == OrderInv /\ RouteInv /\ QueueInv /\ ReadyInv /\ AckInv

-----------------------------------------------------------------------------
(* The steps, by what they do to the conversation *)

Quiet ==
    /\ UNCHANGED <<samples, tcpVars, wireAck, seqNum>>
    /\ status' = "active" => status = "active"

\* The worker leaves the loop, or goes on with its clean-up.
Leaves ==
    /\ Quiet
    /\ pc' \in {"save", "deregister", "reset", "return", "done"} \/ Transmitting("reset")'
    /\ status' = "complete" => status = "complete" \/ (status = "active" /\ pc = "complete")

\* A receiver rejects a packet, a shutdown begins.
Stays ==
    /\ Quiet /\ UNCHANGED workerVars
    /\ status' = "complete" => status = "complete"

\* The worker goes on without a packet.
Proceeds ==
    /\ Quiet /\ UNCHANGED <<sending, status>>
    /\ \/ pc = "start" /\ pc' = LoopStart
       \/ pc = "limiter" /\ pc' = "socket"
       \/ pc \in FlushPoints /\ tcpACKReplies = <<>> /\ pc' = AfterFlush
       \/ pc = "baseReply" /\ pc' = "flushReply"
       \/ pc = "interval" /\ pc' = AfterInterval
       \/ pc = "handshakes" /\ HandshakesDone /\ pc' = "flushHandshakes"
       \/ pc = "fixedReplies" /\ pc' = "flushEnd"
       \/ pc = "finish" /\ pc' = "complete"

\* prepareTCPPacket builds the request.
Prepares ==
    /\ Quiet /\ UNCHANGED status
    /\ pc = "prepare" /\ pc' = "limiter"
    /\ sending' = [kind |-> "request", connection |-> GetConnectionIndex(seqNum),
                   ack |-> acknowledgments[GetConnectionIndex(seqNum)],
                   back |-> AfterRequest]

Takes ==
    /\ TakeACK /\ UNCHANGED <<samples, wireAck>>
    /\ pc \in FlushPoints \cup SelectPoints

Accepts ==
    \E reply \in Replies :
        /\ StillActive /\ Acceptable(reply) /\ Accept(reply)
        /\ UNCHANGED <<workerVars, wireAck>>

\* There are no other steps.
LEMMA StepKinds ==
    TypeOK /\ VerdictInv /\ [Next]_vars =>
        \/ Leaves \/ Stays \/ Proceeds \/ Prepares \/ Advance \/ SendPacket \/ Takes
        \/ Accepts
<1> DEFINE Kinds == \/ Leaves \/ Stays \/ Proceeds \/ Prepares \/ Advance \/ SendPacket
                    \/ Takes \/ Accepts
<1> SUFFICES ASSUME TypeOK, VerdictInv, [Next]_vars PROVE Kinds
  OBVIOUS
<1>t. status \in {"active", "failed", "complete"}
  BY DEF TypeOK
<1> USE DEF Quiet, Transmitting, Goto, Abort, Fail, probeVars, workerVars, dataVars,
            tcpVars, wireVars
<1>1. CASE Register
  <2>1. Proceeds
    BY <1>1 DEF Register, Proceeds
  <2> QED
    BY <2>1
<1>2. CASE Prepare
  <2>1. Prepares \/ Leaves
    BY <1>2, <1>t DEF Prepare, Prepares, Leaves
  <2> QED
    BY <2>1
<1>3. CASE LimiterGrant
  <2>1. Proceeds
    BY <1>3 DEF LimiterGrant, Proceeds
  <2> QED
    BY <2>1
<1>4. CASE LimiterRefuse
  <2>1. Leaves
    BY <1>4, <1>t DEF LimiterRefuse, ResetFails, Leaves, VerdictInv
  <2> QED
    BY <2>1
<1>6. CASE FlushTCPACKs
  <2>1. Proceeds \/ Takes
    BY <1>6 DEF FlushTCPACKs, Proceeds, Takes
  <2> QED
    BY <2>1
<1>7. CASE WaitForBaseReply
  <2>1. Proceeds \/ Leaves
    BY <1>7, <1>t DEF WaitForBaseReply, TimeoutFails, FailedOrStopped, Proceeds, Leaves
  <2> QED
    BY <2>1
<1>8. CASE WaitInterval
  <2>1. Proceeds \/ Takes \/ Leaves
    BY <1>8, <1>t DEF WaitInterval, Proceed, FailedOrStopped, Proceeds, Takes, Leaves,
                      SelectPoints
  <2> QED
    BY <2>1
<1>9. CASE WaitForTCPHandshakes
  <2>1. Proceeds \/ Takes \/ Leaves
    BY <1>9, <1>t DEF WaitForTCPHandshakes, Proceed, TimeoutFails, FailedOrStopped,
                      Proceeds, Takes, Leaves, SelectPoints
  <2> QED
    BY <2>1
<1>10. CASE WaitForFixedReplies
  <2>1. Proceeds \/ Takes \/ Leaves
    BY <1>10, <1>t DEF WaitForFixedReplies, Proceed, FailedOrStopped, Proceeds, Takes,
                       Leaves, SelectPoints
  <2> QED
    BY <2>1
<1>12. CASE FinishFixedProbe
  <2>1. Proceeds \/ Leaves
    BY <1>12, <1>t DEF FinishFixedProbe, Proceeds, Leaves
  <2> QED
    BY <2>1
<1>13. CASE Complete \/ Save \/ Deregister \/ SendReset \/ Return
  <2>1. Leaves
    BY <1>13, <1>t DEF Complete, Save, Deregister, SendReset, ResetFails, Return,
                       Leaves
  <2> QED
    BY <2>1
<1>16. CASE ResetTCPConnections
  <2>1. Leaves
    BY <1>16, <1>t DEF ResetTCPConnections, ResetFails, Leaves
  <2> QED
    BY <2>1
<1>19. ASSUME NEW r \in Receivers, Receiver(r) PROVE Kinds
  <2>1. CASE Lookup(r)
    <3>1. Stays
      BY <2>1 DEF Lookup, Stays
    <3> QED
      BY <3>1
  <2>2. CASE FulfillBaseReply(r)
    <3>1. capture[r] \in Replies
      BY <2>2 DEF FulfillBaseReply, TypeOK
    <3>2. Accepts \/ Stays
      BY <2>2, <3>1, <1>t DEF FulfillBaseReply, Accepts, Stays
    <3> QED
      BY <3>2
  <2> QED
    BY <1>19, <2>1, <2>2 DEF Receiver
<1>21. CASE TriggerStop \/ StopRateLimiter \/ UNCHANGED vars
  <2>1. Stays
    BY <1>21 DEF TriggerStop, StopRateLimiter, vars, Stays
  <2> QED
    BY <2>1
<1> QED
  BY <1>1, <1>2, <1>3, <1>4, <1>6, <1>7, <1>8, <1>9, <1>10, <1>12, <1>13, <1>16, <1>19,
     <1>21 DEF Next, Worker, Finished

\* What an accepted reply finds and leaves.
LEMMA AcceptedReply ==
    ASSUME NEW reply \in Replies, TypeOK, Acceptable(reply), Accept(reply)
    PROVE /\ reply.seq \in Requests /\ samples[reply.seq] = "sent"
          /\ samples' = [samples EXCEPT ![reply.seq] = "received"]
          /\ UNCHANGED probeVars
BY ReplyFacts DEF Acceptable, Accept

\* The requests are sent in order.
LEMMA OrderStep ==
    TypeOK /\ VerdictInv /\ RouteInv /\ OrderInv /\ [Next]_vars => OrderInv'
<1> SUFFICES ASSUME TypeOK, VerdictInv, RouteInv, OrderInv, [Next]_vars PROVE OrderInv'
  OBVIOUS
<1>t. /\ seqNum \in Requests /\ samples \in [Requests -> {"empty", "sent", "received"}]
      /\ sending.kind \in {"request", "ack", "reset"}
      /\ \A s \in Requests : s \in Int
  BY DEF TypeOK, Packets, Requests
<1> USE DEF OrderInv, Transmitting
<1>1. CASE Leaves
  BY <1>1 DEF Leaves, Quiet
<1>2. CASE Stays
  BY <1>2 DEF Stays, Quiet, workerVars
<1>3. CASE Proceeds
  BY <1>3 DEF Proceeds, Quiet, FlushPoints, LoopStart, AfterFlush, AfterInterval
<1>4. CASE Prepares
  BY <1>4 DEF Prepares, Quiet
<1>5. CASE Advance
  <2>1. CASE RequestsLeft
    <3>1. seqNum + 1 \in Requests /\ seqNum + 1 > seqNum
      BY <1>t, <2>1, RequestFacts DEF Requests, RequestsLeft
    <3>2. \A s \in Requests : s > seqNum + 1 => s > seqNum
      BY <1>t
    <3>3. pc' = LoopStart /\ seqNum' = seqNum + 1 /\ UNCHANGED samples
      BY <1>5, <2>1 DEF Advance, dataVars
    <3> QED
      BY <3>1, <3>2, <3>3 DEF LoopStart
  <2>2. CASE ~RequestsLeft
    BY <1>5, <2>2 DEF Advance, Goto, dataVars
  <2> QED
    BY <2>1, <2>2
<1>6. CASE SendPacket
  <2>1. CASE sending.kind = "request"
    <3>1. pc' \notin {"start", "flushTop", "prepare", "limiter", "socket"}
      BY <1>6, <2>1 DEF SendPacket, Goto, Abort, RouteInv, AfterRequest, AfterInterval
    <3>2. seqNum' = seqNum /\ \A s \in Requests : s # seqNum => samples'[s] = samples[s]
      BY <1>6, <1>t DEF SendPacket, Goto, Abort
    <3> QED
      BY <1>t, <3>1, <3>2
  <2>2. CASE sending.kind = "ack"
    <3>1. pc' \in {"deregister", sending.back} /\ UNCHANGED <<seqNum, samples>>
      BY <1>6, <2>2 DEF SendPacket, Goto, Abort
    <3>2. pc = "socket" /\ sending.back \in FlushPoints \cup SelectPoints
      BY <1>6, <2>2 DEF SendPacket, RouteInv
    <3> QED
      BY <2>2, <3>1, <3>2 DEF FlushPoints, SelectPoints
  <2> QED
    BY <1>6, <1>t, <2>1, <2>2 DEF SendPacket
<1>7. CASE Takes
  BY <1>7 DEF Takes, TakeACK, FlushPoints, SelectPoints
<1>8. CASE Accepts
  <2>1. PICK reply \in Replies : Acceptable(reply) /\ Accept(reply) /\ UNCHANGED workerVars
    BY <1>8 DEF Accepts
  <2>2. /\ samples[reply.seq] = "sent" /\ reply.seq \in Requests
        /\ samples' = [samples EXCEPT ![reply.seq] = "received"]
    BY <2>1, AcceptedReply
  <2>3. \A s \in Requests : samples[s] = "empty" => samples'[s] = "empty"
    BY <1>t, <2>2
  <2> QED
    BY <1>t, <2>1, <2>3 DEF workerVars
<1> QED
  BY <1>1, <1>2, <1>3, <1>4, <1>5, <1>6, <1>7, <1>8, StepKinds

\* A packet leads back to where it came from.
LEMMA RouteStep ==
    TypeOK /\ VerdictInv /\ RouteInv /\ [Next]_vars => RouteInv'
<1> SUFFICES ASSUME TypeOK, VerdictInv, RouteInv, [Next]_vars PROVE RouteInv'
  OBVIOUS
<1>t. sending.kind \in {"request", "ack", "reset"}
  BY DEF TypeOK, Packets
<1> USE DEF RouteInv, Transmitting, AfterRequest, AfterInterval
<1>1. CASE Leaves
  BY <1>1 DEF Leaves, Quiet
<1>2. CASE Stays
  BY <1>2 DEF Stays, Quiet, workerVars
<1>3. CASE Proceeds
  BY <1>3 DEF Proceeds, Quiet, FlushPoints, LoopStart, AfterFlush
<1>4. CASE Prepares
  BY <1>4 DEF Prepares, Quiet
<1>5. CASE Advance
  <2>1. pc' \notin {"limiter", "socket", "baseReply", "flushReply"}
    BY <1>5 DEF Advance, Goto, LoopStart
  <2> QED
    BY <2>1
<1>6. CASE SendPacket
  <2>1. pc = "socket" /\ pc' \in {"deregister", sending.back} /\ sending.kind # "reset"
    BY <1>6 DEF SendPacket, Goto, Abort
  <2>2. pc' \notin {"limiter", "socket"}
    BY <1>t, <2>1 DEF FlushPoints, SelectPoints
  <2>3. ~RTBased => pc' \notin {"baseReply", "flushReply"}
    BY <1>t, <2>1
  <2> QED
    BY <2>2, <2>3
<1>7. CASE Takes
  BY <1>7 DEF Takes, TakeACK, FlushPoints, SelectPoints
<1>8. CASE Accepts
  BY <1>8 DEF Accepts, workerVars
<1> QED
  BY <1>1, <1>2, <1>3, <1>4, <1>5, <1>6, <1>7, <1>8, StepKinds

-----------------------------------------------------------------------------
(* The ACKs that are owed *)

\* The answered requests are finitely many.
LEMMA AnsweredFinite ==
    /\ IsFiniteSet(Requests) /\ IsFiniteSet(Connections)
    /\ Cardinality(Connections) = ConnectionCount
    /\ IsFiniteSet(Answered) /\ Cardinality(Answered) \in Nat
    /\ Cardinality(Answered) <= RequestCount
<1>1. IsFiniteSet(Requests) /\ Cardinality(Requests) = RequestCount
  BY RequestFacts, FS_Interval DEF Requests
<1>2. IsFiniteSet(Connections) /\ Cardinality(Connections) = ConnectionCount
  BY StrictProbeAssumption, FS_Interval DEF Connections
<1>3. Answered \subseteq Requests
  BY DEF Answered
<1>4. IsFiniteSet(Answered) /\ Cardinality(Answered) <= Cardinality(Requests)
  BY <1>1, <1>3, FS_Subset
<1> QED
  BY <1>1, <1>2, <1>4, FS_CardinalityType

\* An accepted reply answers one request more.
LEMMA AnsweredGrows ==
    ASSUME NEW reply \in Replies, TypeOK, Acceptable(reply), Accept(reply)
    PROVE Cardinality(Answered)' = Cardinality(Answered) + 1
<1>1. /\ samples[reply.seq] = "sent" /\ reply.seq \in Requests
      /\ samples' = [samples EXCEPT ![reply.seq] = "received"]
  BY AcceptedReply
<1>2. Answered' = Answered \cup {reply.seq} /\ reply.seq \notin Answered
  BY <1>1 DEF Answered, TypeOK
<1>3. Cardinality(Answered \cup {reply.seq}) = Cardinality(Answered) + 1
  BY <1>2, AnsweredFinite, FS_AddElement
<1> QED
  BY <1>2, <1>3

\* Sending a request answers none and leaves no answer behind.
LEMMA SendKeepsAnswers ==
    ASSUME TypeOK, OrderInv, SendPacket
    PROVE /\ Answered' = Answered
          /\ UNCHANGED <<seqNum, sending, tcpVars>>
          /\ samples' \in [Requests -> {"empty", "sent", "received"}]
          /\ \A s \in Requests : samples'[s] = "received" <=> samples[s] = "received"
          /\ \A s \in Requests : samples'[s] = samples[s] \/ (s = seqNum /\ status = "active")
<1>1. /\ UNCHANGED <<seqNum, sending, tcpVars>>
      /\ \/ UNCHANGED samples
         \/ /\ samples' = [samples EXCEPT ![seqNum] = "sent"]
            /\ Transmitting("request") /\ status = "active"
  BY DEF SendPacket, Goto, Abort, Transmitting, ReadyToSend
<1>2. samples \in [Requests -> {"empty", "sent", "received"}] /\ seqNum \in Requests
  BY DEF TypeOK
<1>3. samples' \in [Requests -> {"empty", "sent", "received"}]
  BY <1>1, <1>2
<1>4. \A s \in Requests : samples'[s] = "received" <=> samples[s] = "received"
  BY <1>1, <1>2 DEF OrderInv
<1>5. \A s \in Requests : samples'[s] = samples[s] \/ (s = seqNum /\ status = "active")
  BY <1>1, <1>2
<1> QED
  BY <1>1, <1>3, <1>4, <1>5 DEF Answered

\* Taking the head of the queue leaves its tail.
LEMMA TakenQueue ==
    ASSUME TypeOK, TakeACK
    PROVE /\ Len(tcpACKReplies') <= Len(tcpACKReplies) /\ Len(tcpACKReplies') \in Nat
          /\ \A i \in 1 .. Len(tcpACKReplies') :
                i + 1 \in 1 .. Len(tcpACKReplies) /\ tcpACKReplies'[i] = tcpACKReplies[i + 1]
          /\ \A i \in 1 .. Len(tcpACKReplies) :
                \/ i = 1
                \/ i - 1 \in 1 .. Len(tcpACKReplies') /\ tcpACKReplies'[i - 1] = tcpACKReplies[i]
          /\ tcpACKReplies[1] = Head(tcpACKReplies) /\ 1 \in 1 .. Len(tcpACKReplies)
          /\ Head(tcpACKReplies) \in Connections
BY DEF TypeOK, TakeACK

\* What an accepted reply of a TCP probe does to the queue and the ready connections.
LEMMA AcceptedTCP ==
    ASSUME NEW reply \in Replies, TypeOK, Acceptable(reply), AcceptTCP(reply),
           TcpEstablishConnection
    PROVE LET c == GetConnectionIndex(reply.seq)
          IN  /\ c \in Connections
              /\ c \in tcpAckReady'
              /\ tcpAckReady \subseteq tcpAckReady'
              /\ tcpACKReplies' = tcpACKReplies \/ tcpACKReplies' = Append(tcpACKReplies, c)
              /\ \A d \in Connections : d # c => acknowledgments'[d] = acknowledgments[d]
              /\ \/ acknowledgments'[c] > 0
                 \/ c \in tcpAckReady /\ acknowledgments'[c] >= acknowledgments[c]
              /\ tcpACKReplies' = tcpACKReplies => acknowledgments'[c] = acknowledgments[c]
              /\ acknowledgments' \in [Connections -> Int]
<1>1. GetConnectionIndex(reply.seq) \in Connections /\ reply.data \in BOOLEAN
  BY ReplyFacts, RequestFacts
<1>2. /\ tcpACKReplies \in Seq(Connections) /\ acknowledgments \in [Connections -> Nat]
      /\ Append(tcpACKReplies, GetConnectionIndex(reply.seq)) # tcpACKReplies
  BY <1>1 DEF TypeOK
<1>3. CASE OpensConnection(reply.seq)
  BY <1>1, <1>2, <1>3 DEF AcceptTCP
<1>4. CASE ~OpensConnection(reply.seq)
  BY <1>1, <1>2, <1>4 DEF AcceptTCP, Acceptable
<1> QED
  BY <1>3, <1>4

\* The queue holds no more ACKs than there are answered requests, all on ready
\* connections.
LEMMA QueueStep ==
    TypeOK /\ VerdictInv /\ OrderInv /\ QueueInv /\ [Next]_vars => QueueInv'
<1> SUFFICES ASSUME TypeOK, VerdictInv, OrderInv, QueueInv, [Next]_vars PROVE QueueInv'
  OBVIOUS
<1>t. tcpACKReplies \in Seq(Connections) /\ Len(tcpACKReplies) \in Nat
  BY DEF TypeOK
<1>k. UNCHANGED <<samples, tcpVars>> => QueueInv'
  BY DEF QueueInv, Answered, tcpVars
<1>1. CASE Leaves \/ Stays \/ Proceeds \/ Prepares
  BY <1>1, <1>k DEF Leaves, Stays, Proceeds, Prepares, Quiet
<1>2. CASE Advance
  BY <1>2, <1>k DEF Advance, dataVars
<1>3. CASE SendPacket
  <2>1. Answered' = Answered /\ UNCHANGED tcpVars
    BY <1>3, SendKeepsAnswers
  <2> QED
    BY <2>1 DEF QueueInv, tcpVars
<1>4. CASE Takes
  <2>1. TakeACK /\ UNCHANGED samples
    BY <1>4 DEF Takes
  <2>2. Answered' = Answered /\ UNCHANGED tcpAckReady
    BY <2>1 DEF Answered, TakeACK
  <2>3. \A i \in 1 .. Len(tcpACKReplies') : tcpACKReplies'[i] \in tcpAckReady
    BY <2>1, TakenQueue DEF QueueInv
  <2>4. Len(tcpACKReplies') <= Cardinality(Answered)
    BY <1>t, <2>1, TakenQueue, AnsweredFinite DEF QueueInv
  <2> QED
    BY <2>2, <2>3, <2>4 DEF QueueInv
<1>5. CASE Accepts
  <2>1. PICK reply \in Replies : Acceptable(reply) /\ Accept(reply)
    BY <1>5 DEF Accepts
  <2>2. Cardinality(Answered)' = Cardinality(Answered) + 1 /\ Cardinality(Answered) \in Nat
    BY <2>1, AnsweredGrows, AnsweredFinite
  <2>3. CASE TcpEstablishConnection
    <3> DEFINE c == GetConnectionIndex(reply.seq)
    <3>1. /\ c \in Connections /\ c \in tcpAckReady' /\ tcpAckReady \subseteq tcpAckReady'
          /\ tcpACKReplies' = tcpACKReplies \/ tcpACKReplies' = Append(tcpACKReplies, c)
      BY <2>1, <2>3, AcceptedTCP DEF Accept
    <3> HIDE DEF c
    <3>2. Len(tcpACKReplies') <= Len(tcpACKReplies) + 1 /\ Len(tcpACKReplies') \in Nat
      BY <1>t, <3>1
    <3>3. \A i \in 1 .. Len(tcpACKReplies') : tcpACKReplies'[i] \in tcpAckReady'
      <4>1. CASE tcpACKReplies' = tcpACKReplies
        BY <3>1, <4>1 DEF QueueInv
      <4>2. CASE tcpACKReplies' = Append(tcpACKReplies, c)
        <5>1. \A i \in 1 .. Len(tcpACKReplies') :
                tcpACKReplies'[i] = c
                \/ (i \in 1 .. Len(tcpACKReplies) /\ tcpACKReplies'[i] = tcpACKReplies[i])
          BY <1>t, <3>1, <4>2
        <5> QED
          BY <3>1, <5>1 DEF QueueInv
      <4> QED
        BY <3>1, <4>1, <4>2
    <3> QED
      BY <1>t, <2>2, <3>2, <3>3 DEF QueueInv
  <2>4. CASE ~TcpEstablishConnection
    <3>1. UNCHANGED tcpVars
      BY <2>1, <2>4 DEF Accept
    <3> QED
      BY <1>t, <2>2, <3>1 DEF QueueInv, tcpVars
  <2> QED
    BY <2>3, <2>4
<1> QED
  BY <1>1, <1>2, <1>3, <1>4, <1>5, StepKinds

\* A connection's number is its opening request.
LEMMA OpeningRequest ==
    /\ Connections \subseteq Requests
    /\ \A s \in Requests : OpensConnection(s) <=> s \in Connections
    /\ \A c \in Connections : GetConnectionIndex(c) = c
<1>1. ConnectionCount <= RequestCount
  BY StrictProbeAssumption DEF RequestCount
<1>2. \A c \in Connections : c \in Nat /\ c < ConnectionCount
  BY StrictProbeAssumption DEF Connections
<1>3. \A c \in Connections : GetConnectionIndex(c) = c
  BY <1>2, StrictProbeAssumption DEF GetConnectionIndex
<1>4. Connections \subseteq Requests
  BY <1>1, <1>2, RequestFacts, StrictProbeAssumption DEF Requests
<1>5. \A s \in Requests : OpensConnection(s) <=> s \in Connections
  BY RequestFacts, StrictProbeAssumption DEF Requests, Connections, OpensConnection
<1> QED
  BY <1>3, <1>4, <1>5

\* The fixed-interval worker comes past the handshakes only from their wait.
LEMMA HandshakesStep ==
    ASSUME TypeOK, VerdictInv, RouteInv, [Next]_vars, ~RTBased, TcpEstablishConnection,
           HandshakesPassed'
    PROVE HandshakesPassed \/ (pc = "handshakes" /\ HandshakesDone /\ UNCHANGED tcpVars)
<1>t. seqNum \in Nat /\ ConnectionCount \in Nat /\ sending.kind \in {"request", "ack", "reset"}
  BY StrictProbeAssumption, RequestFacts DEF TypeOK, Requests, Packets
<1> USE DEF HandshakesPassed, Transmitting, RouteInv, OpensConnection
<1>1. CASE Leaves
  BY <1>1 DEF Leaves, Quiet
<1>2. CASE Stays
  BY <1>2 DEF Stays, Quiet, workerVars
<1>3. CASE Proceeds
  BY <1>3 DEF Proceeds, Quiet, FlushPoints, LoopStart, AfterFlush, AfterInterval, OpensConnection
<1>4. CASE Prepares
  BY <1>4 DEF Prepares, Quiet
<1>5. CASE Advance
  <2>1. CASE RequestsLeft
    <3>1. pc = "advance" /\ pc' = LoopStart /\ seqNum' = seqNum + 1
      BY <1>5, <2>1 DEF Advance
    <3> QED
      BY <1>t, <3>1 DEF LoopStart
  <2>2. CASE ~RequestsLeft
    BY <1>5, <2>2 DEF Advance, Goto
  <2> QED
    BY <2>1, <2>2
<1>6. CASE SendPacket
  <2>1. /\ pc = "socket" /\ pc' \in {"deregister", sending.back} /\ sending.kind # "reset"
        /\ UNCHANGED <<seqNum, sending>>
    BY <1>6 DEF SendPacket, Goto, Abort
  <2>2. CASE sending.kind = "request"
    BY <2>1, <2>2 DEF AfterRequest, AfterInterval
  <2>3. CASE sending.kind = "ack"
    BY <2>1, <2>3 DEF FlushPoints, SelectPoints
  <2> QED
    BY <1>t, <2>1, <2>2, <2>3
<1>7. CASE Takes
  BY <1>7 DEF Takes, TakeACK, FlushPoints, SelectPoints
<1>8. CASE Accepts
  BY <1>8 DEF Accepts, workerVars
<1> QED
  BY <1>1, <1>2, <1>3, <1>4, <1>5, <1>6, <1>7, <1>8, StepKinds

\* The ready connections are those whose opening request is answered.
LEMMA ReadyStep ==
    TypeOK /\ VerdictInv /\ OrderInv /\ RouteInv /\ ReadyInv /\ [Next]_vars => ReadyInv'
<1> SUFFICES ASSUME TypeOK, VerdictInv, OrderInv, RouteInv, ReadyInv, [Next]_vars,
                    TcpEstablishConnection
             PROVE ReadyInv'
  BY DEF ReadyInv
<1>t. /\ samples \in [Requests -> {"empty", "sent", "received"}]
      /\ tcpAckReady \in SUBSET Connections /\ handshakeCount \in Nat
      /\ acknowledgments \in [Connections -> Nat] /\ ConnectionCount \in Nat
  BY StrictProbeAssumption DEF TypeOK
<1>r. /\ \A c \in Connections : c \in tcpAckReady <=> samples[c] = "received"
      /\ \A c \in tcpAckReady : acknowledgments[c] > 0
      /\ handshakeCount = Cardinality(tcpAckReady)
      /\ ~RTBased /\ HandshakesPassed => tcpAckReady = Connections
  BY DEF ReadyInv
<1>f. IsFiniteSet(tcpAckReady) /\ Cardinality(tcpAckReady) <= ConnectionCount
  BY <1>t, AnsweredFinite, FS_Subset
<1>h. ~RTBased /\ HandshakesPassed' => tcpAckReady = Connections
  <2>1. HandshakesDone => tcpAckReady = Connections
    BY <1>t, <1>r, <1>f, AnsweredFinite, FS_Subset DEF HandshakesDone
  <2> QED
    BY <1>r, <2>1, HandshakesStep
<1>1. ASSUME UNCHANGED tcpVars,
             \A s \in Requests : samples'[s] = "received" <=> samples[s] = "received"
      PROVE ReadyInv'
  <2>1. UNCHANGED <<tcpAckReady, acknowledgments, handshakeCount>>
    BY <1>1 DEF tcpVars
  <2>2. \A c \in Connections : c \in tcpAckReady <=> samples'[c] = "received"
    BY <1>1, <1>r, OpeningRequest
  <2> QED
    BY <1>r, <1>h, <2>1, <2>2 DEF ReadyInv
<1>2. CASE Leaves \/ Stays \/ Proceeds \/ Prepares
  BY <1>1, <1>2 DEF Leaves, Stays, Proceeds, Prepares, Quiet
<1>3. CASE Advance
  BY <1>1, <1>3 DEF Advance, dataVars
<1>4. CASE SendPacket
  BY <1>1, <1>4, SendKeepsAnswers
<1>5. CASE Takes
  <2>1. UNCHANGED <<samples, tcpAckReady, acknowledgments, handshakeCount>>
    BY <1>5 DEF Takes, TakeACK
  <2> QED
    BY <1>r, <1>h, <2>1 DEF ReadyInv
<1>6. CASE Accepts
  <2>1. PICK reply \in Replies : Acceptable(reply) /\ Accept(reply)
    BY <1>6 DEF Accepts
  <2> DEFINE c == GetConnectionIndex(reply.seq)
  <2>2. /\ reply.seq \in Requests /\ samples[reply.seq] = "sent" /\ AcceptTCP(reply)
        /\ samples' = [samples EXCEPT ![reply.seq] = "received"]
    BY <2>1, AcceptedReply DEF Accept
  <2>3. /\ c \in Connections /\ c \in tcpAckReady' /\ tcpAckReady \subseteq tcpAckReady'
        /\ \A d \in Connections : d # c => acknowledgments'[d] = acknowledgments[d]
        /\ acknowledgments'[c] > 0
             \/ (c \in tcpAckReady /\ acknowledgments'[c] >= acknowledgments[c])
        /\ acknowledgments' \in [Connections -> Int]
    BY <2>1, <2>2, AcceptedTCP
  <2>4. \/ /\ reply.seq = c /\ tcpAckReady' = tcpAckReady \cup {c}
           /\ handshakeCount' = handshakeCount + 1
        \/ reply.seq \notin Connections /\ UNCHANGED <<tcpAckReady, handshakeCount>>
    BY <2>2, OpeningRequest DEF AcceptTCP
  <2>5. reply.seq = c => c \notin tcpAckReady
    BY <1>r, <2>2, <2>3
  <2> HIDE DEF c
  <2>6. \A d \in Connections : d \in tcpAckReady' <=> samples'[d] = "received"
    BY <1>t, <1>r, <2>2, <2>3, <2>4, OpeningRequest
  <2>7. \A d \in tcpAckReady' : acknowledgments'[d] > 0
    <3>1. \A d \in tcpAckReady' : d \in Connections /\ (d = c \/ d \in tcpAckReady)
      BY <1>t, <2>3, <2>4
    <3>2. acknowledgments'[c] > 0
      BY <1>t, <1>r, <2>3
    <3> QED
      BY <1>r, <2>3, <3>1, <3>2
  <2>8. handshakeCount' = Cardinality(tcpAckReady')
    BY <1>r, <1>f, <2>4, <2>5, FS_AddElement
  <2>9. ~RTBased /\ HandshakesPassed' => tcpAckReady' = Connections
    BY <1>t, <1>h, <2>3, <2>4
  <2> QED
    BY <2>6, <2>7, <2>8, <2>9 DEF ReadyInv
<1> QED
  BY <1>2, <1>3, <1>4, <1>5, <1>6, StepKinds

-----------------------------------------------------------------------------
(* What the server has seen acknowledged *)

\* No step is taken into the clean-up with an active probe.
LEMMA LeavesDecided ==
    TypeOK /\ VerdictInv /\ UntriedInv /\ [Next]_vars /\ Leaves => status' # "active"
<1> SUFFICES ASSUME TypeOK, VerdictInv, UntriedInv, [Next]_vars, Leaves
             PROVE status' # "active"
  OBVIOUS
<1>1. VerdictInv'
  BY VerdictStep
<1> QED
  BY <1>1 DEF VerdictInv, CleaningUp, Leaves

\* An ACK that is sent acknowledges something.
LEMMA AckPositive ==
    ASSUME TypeOK, VerdictInv, QueueInv, ReadyInv, AckInv, [Next]_vars,
           TcpEstablishConnection
    PROVE /\ Transmitting("ack")' => sending'.ack > 0
          /\ \A c \in Connections : wireAck[c] > 0 => wireAck'[c] > 0
<1>t. wireAck \in [Connections -> Nat] /\ sending.kind \in {"request", "ack", "reset"}
  BY DEF TypeOK, Packets
<1>a. Transmitting("ack") => sending.ack > 0
  BY DEF AckInv
<1> USE DEF Transmitting
<1>1. CASE Leaves \/ Stays
  BY <1>1, <1>a DEF Leaves, Stays, Quiet, workerVars
<1>2. CASE Proceeds
  <2>1. pc = "limiter" \/ pc' \notin {"limiter", "socket"}
    BY <1>2 DEF Proceeds, LoopStart, AfterFlush, AfterInterval
  <2> QED
    BY <1>2, <1>a, <2>1 DEF Proceeds, Quiet
<1>3. CASE Prepares
  BY <1>3 DEF Prepares, Quiet
<1>4. CASE Advance
  BY <1>4 DEF Advance, Goto, LoopStart, dataVars, wireVars
<1>5. CASE SendPacket
  <2>1. pc = "socket" /\ sending.kind # "reset" /\ sending' = sending
    BY <1>5 DEF SendPacket, Goto, Abort
  <2>2. \/ UNCHANGED wireAck
        \/ Transmitting("ack") /\ wireAck' = [wireAck EXCEPT ![sending.connection] = sending.ack]
    BY <1>5 DEF SendPacket
  <2>3. Transmitting("ack")' => Transmitting("ack")
    BY <2>1
  <2> QED
    BY <1>t, <1>a, <2>1, <2>2, <2>3
<1>6. CASE Takes
  <2>1. TakeACK /\ UNCHANGED wireAck
    BY <1>6 DEF Takes
  <2>2. Head(tcpACKReplies) \in tcpAckReady
    BY <2>1, TakenQueue DEF QueueInv
  <2>3. sending'.ack > 0
    BY <2>1, <2>2 DEF TakeACK, ReadyInv
  <2> QED
    BY <2>1, <2>3
<1>7. CASE Accepts
  BY <1>7, <1>a DEF Accepts, workerVars
<1> QED
  BY <1>1, <1>2, <1>3, <1>4, <1>5, <1>6, <1>7, StepKinds

\* As long as the probe is active, an ACK that is stale is owed again.
LEMMA FreshStep ==
    ASSUME TypeOK, VerdictInv, UntriedInv, RouteInv, AckInv, [Next]_vars, TcpEstablishConnection,
           status' = "active"
    PROVE \A c \in Connections : Queued(c)' \/ LastAck(c)' = acknowledgments'[c]
<1> DEFINE Fresh(c) == Queued(c) \/ LastAck(c) = acknowledgments[c]
<1>t. /\ wireAck \in [Connections -> Nat] /\ sending.kind \in {"request", "ack", "reset"}
      /\ tcpACKReplies \in Seq(Connections) /\ Len(tcpACKReplies) \in Nat
      /\ sending.connection \in Connections
  BY DEF TypeOK, Packets
<1>1. ASSUME UNCHANGED <<tcpVars, wireAck>>, status = "active",
             \/ UNCHANGED <<pc, sending>>
             \/ pc = "limiter" /\ pc' = "socket" /\ UNCHANGED sending
             \/ /\ pc \notin {"limiter", "socket"}
                /\ pc' \notin {"limiter", "socket"} \/ sending'.kind = "request"
      PROVE \A c \in Connections : Fresh(c)'
  <2>1. UNCHANGED <<tcpACKReplies, acknowledgments>>
    BY <1>1 DEF tcpVars
  <2>2. \A c \in Connections : LastAck(c)' = LastAck(c)
    BY <1>1 DEF LastAck, Transmitting
  <2> QED
    BY <1>1, <2>1, <2>2 DEF AckInv, Queued
<1>2. ~Leaves
  BY LeavesDecided
<1>3. CASE Stays
  BY <1>1, <1>3 DEF Stays, Quiet, workerVars
<1>4. CASE Proceeds
  <2>1. \/ pc = "limiter" /\ pc' = "socket"
        \/ pc \notin {"limiter", "socket"} /\ pc' \notin {"limiter", "socket"}
    BY <1>4 DEF Proceeds, LoopStart, AfterFlush, AfterInterval, FlushPoints
  <2>2. UNCHANGED <<tcpVars, wireAck, sending>> /\ status = "active"
    BY <1>4 DEF Proceeds, Quiet
  <2> QED
    BY <1>1, <2>1, <2>2
<1>5. CASE Prepares
  <2>1. UNCHANGED <<tcpVars, wireAck>> /\ status = "active"
    BY <1>5 DEF Prepares, Quiet
  <2>2. pc \notin {"limiter", "socket"} /\ sending'.kind = "request"
    BY <1>5 DEF Prepares
  <2> QED
    BY <1>1, <2>1, <2>2
<1>6. CASE Advance
  <2>1. UNCHANGED <<tcpVars, wireAck, status>>
    BY <1>6 DEF Advance, dataVars, probeVars, wireVars
  <2>2. pc = "advance" /\ pc' \notin {"limiter", "socket"}
    BY <1>6 DEF Advance, Goto, LoopStart
  <2> QED
    BY <1>1, <2>1, <2>2
<1>7. CASE SendPacket
  <2>1. /\ pc = "socket" /\ sending.kind \in {"request", "ack"} /\ status = "active"
        /\ pc' = sending.back /\ UNCHANGED <<sending, tcpACKReplies, acknowledgments>>
        /\ wireAck' = IF sending.kind = "ack"
                      THEN [wireAck EXCEPT ![sending.connection] = sending.ack]
                      ELSE wireAck
    BY <1>7, <1>t DEF SendPacket, Goto, Abort, Fail, ReadyToSend, probeVars, tcpVars
  <2>2. pc' \notin {"limiter", "socket"}
    BY <2>1 DEF RouteInv, Transmitting, AfterRequest, AfterInterval, FlushPoints, SelectPoints
  <2>3. \A c \in Connections : LastAck(c)' = LastAck(c)
    BY <1>t, <2>1, <2>2 DEF LastAck, Transmitting
  <2> QED
    BY <2>1, <2>3 DEF AckInv, Queued
<1>8. CASE Takes
  <2>1. TakeACK /\ UNCHANGED <<wireAck, acknowledgments, status>>
    BY <1>8 DEF Takes, TakeACK, probeVars
  <2>2. pc \notin {"limiter", "socket"}
    BY <1>8 DEF Takes, FlushPoints, SelectPoints
  <2> SUFFICES ASSUME NEW c \in Connections PROVE Fresh(c)'
    OBVIOUS
  <2>3. CASE c = Head(tcpACKReplies)
    <3>1. LastAck(c)' = acknowledgments[c]
      BY <2>1, <2>3 DEF LastAck, Transmitting, TakeACK
    <3> QED
      BY <2>1, <3>1
  <2>4. CASE c # Head(tcpACKReplies)
    <3>1. LastAck(c)' = wireAck[c] /\ LastAck(c) = wireAck[c]
      BY <2>1, <2>2, <2>4 DEF LastAck, Transmitting, TakeACK
    <3>2. ASSUME Queued(c) PROVE Queued(c)'
      <4>1. PICK i \in 1 .. Len(tcpACKReplies) : tcpACKReplies[i] = c
        BY <3>2 DEF Queued
      <4>2. i - 1 \in 1 .. Len(tcpACKReplies') /\ tcpACKReplies'[i - 1] = c
        BY <2>1, <2>4, <4>1, TakenQueue
      <4> QED
        BY <4>2 DEF Queued
    <3> QED
      BY <2>1, <3>1, <3>2 DEF AckInv
  <2> QED
    BY <2>3, <2>4
<1>9. CASE Accepts
  <2>1. PICK reply \in Replies :
            /\ Acceptable(reply) /\ Accept(reply) /\ UNCHANGED <<workerVars, wireAck>>
            /\ StillActive
    BY <1>9 DEF Accepts
  <2> DEFINE c == GetConnectionIndex(reply.seq)
  <2>2. /\ c \in Connections
        /\ tcpACKReplies' = tcpACKReplies \/ tcpACKReplies' = Append(tcpACKReplies, c)
        /\ \A d \in Connections : d # c => acknowledgments'[d] = acknowledgments[d]
        /\ tcpACKReplies' = tcpACKReplies => acknowledgments'[c] = acknowledgments[c]
    BY <2>1, AcceptedTCP DEF Accept
  <2> HIDE DEF c
  <2>3. \A d \in Connections : LastAck(d)' = LastAck(d)
    BY <2>1 DEF LastAck, Transmitting, workerVars
  <2>4. \A d \in Connections : Fresh(d)
    BY <2>1 DEF AckInv, StillActive
  <2>5. CASE tcpACKReplies' = tcpACKReplies
    BY <2>2, <2>3, <2>4, <2>5 DEF Queued
  <2>6. CASE tcpACKReplies' = Append(tcpACKReplies, c)
    <3>1. /\ Len(tcpACKReplies') = Len(tcpACKReplies) + 1
          /\ tcpACKReplies'[Len(tcpACKReplies) + 1] = c
          /\ \A i \in 1 .. Len(tcpACKReplies) : tcpACKReplies'[i] = tcpACKReplies[i]
      BY <1>t, <2>2, <2>6
    <3>2. \A i \in 1 .. Len(tcpACKReplies) : i \in 1 .. Len(tcpACKReplies')
      BY <1>t, <3>1
    <3>3. Queued(c)'
      <4>1. Len(tcpACKReplies) + 1 \in 1 .. Len(tcpACKReplies')
        BY <1>t, <3>1
      <4> QED
        BY <3>1, <4>1 DEF Queued
    <3>4. \A d \in Connections : Queued(d) => Queued(d)'
      BY <3>1, <3>2 DEF Queued
    <3> QED
      BY <2>2, <2>3, <2>4, <3>3, <3>4
  <2> QED
    BY <2>2, <2>5, <2>6
<1> QED
  BY <1>2, <1>3, <1>4, <1>5, <1>6, <1>7, <1>8, <1>9, StepKinds

\* Between the requests of an RT probe no ACK is owed.
LEMMA RTQuietStep ==
    ASSUME TypeOK, VerdictInv, RTInv, CompleteInv, OrderInv, RouteInv, AckInv,
           [Next]_vars, TcpEstablishConnection, RTBased,
           pc' \in QuietPoints \/ Transmitting("request")'
    PROVE tcpACKReplies' = <<>>
<1>t. /\ sending.kind \in {"request", "ack", "reset"}
      /\ samples \in [Requests -> {"empty", "sent", "received"}] /\ seqNum \in Requests
      /\ \A s \in Requests : s \in Int
  BY DEF TypeOK, Packets, Requests
<1>q. pc \in QuietPoints \/ Transmitting("request") => tcpACKReplies = <<>>
  BY DEF AckInv
<1>p. pc \in RTPoints
  BY DEF RTInv
<1> USE DEF Transmitting, QuietPoints
<1>1. CASE Leaves
  BY <1>1 DEF Leaves
<1>2. CASE Stays
  BY <1>2, <1>q DEF Stays, Quiet, workerVars, tcpVars
<1>3. CASE Proceeds
  BY <1>3, <1>q, <1>p DEF Proceeds, Quiet, tcpVars, RTPoints
<1>4. CASE Prepares
  BY <1>4, <1>q DEF Prepares, Quiet, tcpVars
<1>5. CASE Advance
  BY <1>5, <1>q DEF Advance, dataVars, tcpVars
<1>6. CASE SendPacket
  <2>1. pc = "socket" /\ pc' \in {"deregister", sending.back} /\ sending.kind # "reset"
    BY <1>6 DEF SendPacket, Goto, Abort
  <2>2. pc' \notin QuietPoints /\ pc' \notin {"limiter", "socket"}
    BY <1>t, <2>1 DEF RouteInv, RTInv, FlushPoints, SelectPoints
  <2> QED
    BY <2>2
<1>7. CASE Takes
  BY <1>7 DEF Takes, TakeACK
<1>8. CASE Accepts
  <2>1. PICK reply \in Replies :
            Acceptable(reply) /\ Accept(reply) /\ UNCHANGED workerVars /\ StillActive
    BY <1>8 DEF Accepts
  <2>2. reply.seq \in Requests /\ samples[reply.seq] = "sent"
    BY <2>1, AcceptedReply
  <2>3. pc \in QuietPoints \/ Transmitting("request")
    BY <2>1 DEF workerVars
  <2>4. pc \notin {"complete"}
    BY <2>2 DEF CompleteInv
  <2>5. samples[seqNum] # "sent"
    BY <2>3, <2>4 DEF RTInv
  <2>6. reply.seq = seqNum
    BY <1>t, <2>2 DEF RTInv
  <2> QED
    BY <2>2, <2>5, <2>6
<1> QED
  BY <1>1, <1>2, <1>3, <1>4, <1>5, <1>6, <1>7, <1>8, StepKinds

\* A completed RT probe has acknowledged all that its connections received.
LEMMA CompleteAckStep ==
    ASSUME TypeOK, VerdictInv, AckInv, [Next]_vars, TcpEstablishConnection, RTBased,
           status' = "complete"
    PROVE tcpACKReplies' = <<>> /\ wireAck' = acknowledgments'
<1>t. wireAck \in [Connections -> Nat] /\ acknowledgments \in [Connections -> Nat]
  BY DEF TypeOK
<1>a. status = "complete" => tcpACKReplies = <<>> /\ wireAck = acknowledgments
  BY DEF AckInv
<1>v. status = "complete" => pc = "save" \/ CleaningUp
  BY DEF VerdictInv
<1>1. ASSUME status = "complete", UNCHANGED <<tcpVars, wireAck>>
      PROVE tcpACKReplies' = <<>> /\ wireAck' = acknowledgments'
  BY <1>1, <1>a DEF tcpVars
<1>2. CASE Leaves
  <2>1. UNCHANGED <<tcpVars, wireAck>>
    BY <1>2 DEF Leaves, Quiet
  <2>2. CASE status = "active" /\ pc = "complete"
    <3>1. tcpACKReplies = <<>>
      BY <2>2 DEF AckInv, QuietPoints
    <3>2. \A c \in Connections : wireAck[c] = acknowledgments[c]
      BY <2>2, <3>1 DEF AckInv, Queued, LastAck, Transmitting
    <3>3. wireAck = acknowledgments
      BY <1>t, <3>2
    <3> QED
      BY <2>1, <3>1, <3>3 DEF tcpVars
  <2> QED
    BY <1>1, <1>2, <2>1, <2>2 DEF Leaves
<1>3. CASE Stays \/ Proceeds \/ Prepares
  BY <1>1, <1>3 DEF Stays, Proceeds, Prepares, Quiet
<1>4. CASE Advance
  BY <1>1, <1>4 DEF Advance, dataVars, probeVars, wireVars
<1>5. ~SendPacket
  <2> SUFFICES ASSUME SendPacket PROVE FALSE
    OBVIOUS
  <2>1. pc = "socket" /\ sending.kind # "reset" /\ status = "complete"
    BY DEF SendPacket, Goto, Abort, Fail, ReadyToSend, probeVars
  <2> QED
    BY <1>v, <2>1 DEF CleaningUp, Transmitting
<1>6. ~Takes
  <2> SUFFICES ASSUME Takes PROVE FALSE
    OBVIOUS
  <2>1. status = "complete" /\ pc \in FlushPoints \cup SelectPoints
    BY DEF Takes, TakeACK, probeVars
  <2> QED
    BY <1>v, <2>1 DEF CleaningUp, Transmitting, FlushPoints, SelectPoints
<1>7. ~Accepts
  BY DEF Accepts, StillActive, Accept, probeVars
<1> QED
  BY <1>2, <1>3, <1>4, <1>5, <1>6, <1>7, StepKinds

\* The fixed-interval worker comes to its data requests only from the flush of the
\* handshakes' ACKs.
LEMMA DataAheadStep ==
    ASSUME TypeOK, VerdictInv, RouteInv, [Next]_vars, ~RTBased, TcpEstablishConnection,
           DataAhead'
    PROVE DataAhead \/ (pc = "flushHandshakes" /\ tcpACKReplies = <<>> /\ UNCHANGED wireAck)
<1>t. seqNum \in Nat /\ ConnectionCount \in Nat /\ sending.kind \in {"request", "ack", "reset"}
  BY StrictProbeAssumption, RequestFacts DEF TypeOK, Requests, Packets
<1> USE DEF DataAhead, Transmitting, RouteInv, OpensConnection
<1>1. CASE Leaves
  BY <1>1 DEF Leaves, Quiet
<1>2. CASE Stays
  BY <1>2 DEF Stays, Quiet, workerVars
<1>3. CASE Proceeds
  BY <1>3 DEF Proceeds, Quiet, FlushPoints, LoopStart, AfterFlush, AfterInterval
<1>4. CASE Prepares
  BY <1>4 DEF Prepares, Quiet
<1>5. CASE Advance
  <2>1. CASE RequestsLeft
    <3>1. pc = "advance" /\ pc' = LoopStart /\ seqNum' = seqNum + 1
      BY <1>5, <2>1 DEF Advance
    <3> QED
      BY <1>t, <3>1 DEF LoopStart
  <2>2. CASE ~RequestsLeft
    BY <1>5, <2>2 DEF Advance, Goto
  <2> QED
    BY <2>1, <2>2
<1>6. CASE SendPacket
  <2>1. /\ pc = "socket" /\ pc' \in {"deregister", sending.back} /\ sending.kind # "reset"
        /\ UNCHANGED <<seqNum, sending>>
    BY <1>6 DEF SendPacket, Goto, Abort
  <2>2. CASE sending.kind = "request"
    BY <2>1, <2>2 DEF AfterRequest, AfterInterval
  <2>3. CASE sending.kind = "ack"
    BY <2>1, <2>3 DEF FlushPoints, SelectPoints
  <2> QED
    BY <1>t, <2>1, <2>2, <2>3
<1>7. CASE Takes
  BY <1>7 DEF Takes, TakeACK
<1>8. CASE Accepts
  BY <1>8 DEF Accepts, workerVars
<1> QED
  BY <1>1, <1>2, <1>3, <1>4, <1>5, <1>6, <1>7, <1>8, StepKinds

\* So every handshake is acknowledged when they go on.
LEMMA HandshakesAckedStep ==
    ASSUME TypeOK, VerdictInv, UntriedInv, RouteInv, QueueInv, ReadyInv, AckInv,
           [Next]_vars, ~RTBased, TcpEstablishConnection, status' = "active", DataAhead'
    PROVE \A c \in Connections : wireAck'[c] > 0
<1>1. status = "active"
  BY StepKinds, LeavesDecided
     DEF Stays, Proceeds, Prepares, Quiet, Advance, SendPacket, ReadyToSend, Goto, Abort, Fail,
         Takes, TakeACK, Accepts, StillActive, probeVars
<1>2. CASE DataAhead
  <2>1. \A c \in Connections : wireAck[c] > 0
    BY <1>1, <1>2 DEF AckInv
  <2> QED
    BY <2>1, AckPositive
<1>3. CASE pc = "flushHandshakes" /\ tcpACKReplies = <<>> /\ UNCHANGED wireAck
  <2>1. tcpAckReady = Connections
    BY <1>3 DEF ReadyInv, HandshakesPassed
  <2>2. \A c \in Connections : wireAck[c] = acknowledgments[c]
    BY <1>1, <1>3 DEF AckInv, Queued, LastAck, Transmitting
  <2> QED
    BY <1>3, <2>1, <2>2 DEF ReadyInv
<1> QED
  BY <1>2, <1>3, DataAheadStep

\* A data request leaves on an acknowledged connection.
LEMMA DataAcknowledged ==
    ASSUME TypeOK, RTInv, RouteInv, ReadyInv, AckInv, TcpEstablishConnection,
           status = "active", Transmitting("request"), ~OpensConnection(seqNum)
    PROVE wireAck[GetConnectionIndex(seqNum)] > 0
<1> DEFINE c == GetConnectionIndex(seqNum)
<1>1. c \in Connections /\ seqNum \in Requests
  BY RequestFacts DEF TypeOK
<1>2. CASE RTBased
  <2>1. c \in Requests /\ c < seqNum
    BY <1>1, OpeningRequest, StrictProbeAssumption, RequestFacts
       DEF OpensConnection, Connections, Requests
  <2>2. c \in tcpAckReady
    BY <1>1, <1>2, <2>1 DEF RTInv, ReadyInv
  <2>3. tcpACKReplies = <<>>
    BY <1>2 DEF AckInv
  <2>4. wireAck[c] = acknowledgments[c]
    BY <1>1, <2>3 DEF AckInv, Queued, LastAck, Transmitting
  <2> QED
    BY <2>2, <2>4 DEF ReadyInv
<1>3. CASE ~RTBased
  BY <1>1, <1>3 DEF AckInv, DataAhead
<1> QED
  BY <1>2, <1>3

\* No data request is sent on a connection before its handshake is acknowledged.
LEMMA HandshakeAckStep ==
    ASSUME TypeOK, VerdictInv, UntriedInv, RTInv, OrderInv, RouteInv, QueueInv, ReadyInv, AckInv,
           [Next]_vars, TcpEstablishConnection
    PROVE HandshakeAcknowledged'
<1> SUFFICES ASSUME NEW s \in Requests, ~OpensConnection(s), samples'[s] # "empty"
             PROVE wireAck'[GetConnectionIndex(s)] > 0
  BY DEF HandshakeAcknowledged
<1>t. /\ samples \in [Requests -> {"empty", "sent", "received"}]
      /\ GetConnectionIndex(s) \in Connections
  BY RequestFacts DEF TypeOK
<1>1. CASE samples[s] # "empty"
  <2>1. wireAck[GetConnectionIndex(s)] > 0
    BY <1>1 DEF AckInv, HandshakeAcknowledged
  <2> QED
    BY <1>t, <2>1, AckPositive
<1>2. CASE samples[s] = "empty"
  <2>1. ~UNCHANGED samples
    BY <1>2
  <2>2. ~(Leaves \/ Stays \/ Proceeds \/ Prepares \/ Advance \/ Takes)
    BY <2>1 DEF Leaves, Stays, Proceeds, Prepares, Quiet, Advance, dataVars, Takes
  <2>3. ~Accepts
    <3> SUFFICES ASSUME NEW reply \in Replies, Acceptable(reply), Accept(reply) PROVE FALSE
      BY DEF Accepts
    <3>1. /\ samples[reply.seq] = "sent" /\ reply.seq \in Requests
          /\ samples' = [samples EXCEPT ![reply.seq] = "received"]
      BY AcceptedReply
    <3> QED
      BY <1>t, <1>2, <3>1
  <2>4. SendPacket
    BY <2>2, <2>3, StepKinds
  <2>5. s = seqNum /\ status = "active" /\ Transmitting("request")
    BY <1>t, <1>2, <2>1, <2>4 DEF SendPacket, ReadyToSend, Transmitting, TypeOK
  <2>6. wireAck[GetConnectionIndex(s)] > 0
    BY <2>5, DataAcknowledged
  <2> QED
    BY <1>t, <2>6, AckPositive
<1> QED
  BY <1>1, <1>2

\* Every step keeps the ACKs in order.
LEMMA AckStep ==
    TypeOK /\ VerdictInv /\ UntriedInv /\ RTInv /\ CompleteInv /\ CInv /\ [Next]_vars => AckInv'
<1> SUFFICES ASSUME TypeOK, VerdictInv, UntriedInv, RTInv, CompleteInv, CInv, [Next]_vars,
                    TcpEstablishConnection
             PROVE AckInv'
  BY DEF AckInv
<1>1. OrderInv /\ RouteInv /\ QueueInv /\ ReadyInv /\ AckInv
  BY DEF CInv
<1>2. Transmitting("ack")' => sending'.ack > 0
  BY <1>1, AckPositive
<1>3. status' = "active" =>
        \A c \in Connections : Queued(c)' \/ LastAck(c)' = acknowledgments'[c]
  BY <1>1, FreshStep
<1>4. RTBased /\ (pc' \in QuietPoints \/ Transmitting("request")') => tcpACKReplies' = <<>>
  BY <1>1, RTQuietStep
<1>5. RTBased /\ status' = "complete" => tcpACKReplies' = <<>> /\ wireAck' = acknowledgments'
  BY <1>1, CompleteAckStep
<1>6. ~RTBased /\ status' = "active" /\ DataAhead' => \A c \in Connections : wireAck'[c] > 0
  BY <1>1, HandshakesAckedStep
<1>7. HandshakeAcknowledged'
  BY <1>1, HandshakeAckStep
<1> QED
  BY <1>2, <1>3, <1>4, <1>5, <1>6, <1>7 DEF AckInv

\* The initial state.
LEMMA InitCInv == Init => CInv
<1> SUFFICES ASSUME Init PROVE CInv
  OBVIOUS
<1>1. seqNum \in Requests /\ samples = [s \in Requests |-> "empty"] /\ seqNum = 0
  BY RequestFacts DEF Init
<1>2. OrderInv
  BY <1>1 DEF Init, OrderInv, Transmitting
<1>3. RouteInv
  BY DEF Init, RouteInv, Transmitting
<1>4. QueueInv
  <2>1. Answered = {}
    BY <1>1 DEF Answered
  <2>2. Cardinality(Answered) = 0
    BY <2>1, FS_EmptySet
  <2> QED
    BY <2>2 DEF Init, QueueInv
<1>5. ReadyInv
  <2>1. \A c \in Connections : samples[c] # "received"
    BY <1>1, OpeningRequest
  <2>2. ~HandshakesPassed
    BY <1>1, StrictProbeAssumption DEF Init, HandshakesPassed, Transmitting, OpensConnection
  <2> QED
    BY <2>1, <2>2, FS_EmptySet DEF Init, ReadyInv
<1>6. AckInv
  <2>1. ~DataAhead
    BY <1>1, StrictProbeAssumption DEF Init, DataAhead, OpensConnection
  <2>2. HandshakeAcknowledged
    BY <1>1 DEF HandshakeAcknowledged
  <2>3. \A c \in Connections : LastAck(c) = acknowledgments[c]
    BY DEF Init, LastAck, Transmitting
  <2> QED
    BY <2>1, <2>2, <2>3 DEF Init, AckInv, Transmitting
<1> QED
  BY <1>2, <1>3, <1>4, <1>5, <1>6 DEF CInv

\* CInv is an invariant, given IInv.
THEOREM ConversationInvariant == Spec => []CInv
<1>1. IInv /\ CInv /\ [Next]_vars => CInv'
  BY OrderStep, RouteStep, QueueStep, ReadyStep, AckStep DEF IInv, CInv
<1> QED
  BY <1>1, InitCInv, InductiveInvariant, PTL DEF Spec

\* The server sees a proper conversation: a SYN-ACK is awaited and acknowledged before
\* data follows (flushTCPACKs, prepareTCPPacket), and a saved RT probe has acknowledged
\* all it received.
THEOREM ProperConversationTheorem == Spec => []ProperConversation
<1>1. IInv /\ CInv => ProperConversation
  <2> SUFFICES ASSUME IInv, CInv PROVE ProperConversation
    OBVIOUS
  <2>t. TypeOK /\ RTInv /\ ReadyInv /\ AckInv /\ seqNum \in Requests
    BY DEF IInv, CInv, TypeOK
  <2>1. HandshakeAcknowledged
    BY <2>t DEF AckInv, HandshakeAcknowledged
  <2>2. HandshakeBeforeData
    <3> SUFFICES ASSUME TcpEstablishConnection, ~OpensConnection(seqNum)
                 PROVE GetConnectionIndex(seqNum) \in tcpAckReady
      BY DEF HandshakeBeforeData
    <3> DEFINE c == GetConnectionIndex(seqNum)
    <3>1. c \in Connections
      BY <2>t, RequestFacts
    <3>2. CASE RTBased
      <4>1. c \in Requests /\ c < seqNum
        BY <2>t, <3>1, OpeningRequest, StrictProbeAssumption, RequestFacts
           DEF OpensConnection, Connections, Requests
      <4> QED
        BY <2>t, <3>1, <3>2, <4>1 DEF RTInv, ReadyInv
    <3>3. CASE ~RTBased
      BY <2>t, <3>1, <3>3 DEF ReadyInv, HandshakesPassed
    <3> QED
      BY <3>2, <3>3
  <2>3. PayloadAcknowledged
    BY <2>t DEF IInv, VerdictInv, TypeOK, AckInv, PayloadAcknowledged
  <2> QED
    BY <2>1, <2>2, <2>3 DEF ProperConversation
<1> QED
  BY <1>1, InductiveInvariant, ConversationInvariant, PTL

\* The queue of ACKs never overflows: a receiver that holds p.mu is never blocked by
\* it (tcpACKReplies is made with room for one ACK per request).
THEOREM AckQueueFitsTheorem == Spec => []AckQueueFits
<1>1. IInv /\ CInv => AckQueueFits
  <2> SUFFICES ASSUME TypeOK, QueueInv PROVE AckQueueFits
    BY DEF IInv, CInv
  <2>1. Len(tcpACKReplies) \in Nat
    BY DEF TypeOK
  <2> QED
    BY <2>1, AnsweredFinite, RequestFacts DEF QueueInv, AckQueueFits, AckQueueCapacity
<1> QED
  BY <1>1, InductiveInvariant, ConversationInvariant, PTL

-----------------------------------------------------------------------------
(* Sequence numbers *)

\* A request index splits into a connection and a request of that connection.
LEMMA SplitIndex ==
    ASSUME NEW connections \in Nat \ {0}, NEW seq \in Nat
    PROVE  /\ seq % connections \in 0 .. connections - 1
           /\ seq \div connections \in Nat
           /\ seq = (seq \div connections) * connections + (seq % connections)
  BY Z3

\* The request of a connection is one of those it has.
LEMMA QuotientBound ==
    ASSUME NEW c \in Nat \ {0}, NEW n \in Nat, NEW q \in Nat, NEW r \in 0 .. c - 1,
           q * c + r < c * n
    PROVE  q < n
  BY Z3

\* Connection and request together do not exceed the number of requests.
LEMMA SumBound ==
    ASSUME NEW c \in Nat \ {0}, NEW n \in Nat, NEW q \in 0 .. n - 1, NEW r \in 0 .. c - 1
    PROVE  q + r < c * n
<1>1. (c - 1) * (n - 1) >= 0
  BY Z3
<1>2. c * n >= c + n - 1
  BY <1>1, Z3
<1>. QED  BY <1>2, Z3

\* A number below the word size is not changed by the reduction.
LEMMA NoWrap ==
    ASSUME NEW k \in Nat, k < WordSize
    PROVE  k % WordSize = k
  BY WordSizeAssumption, Z3

\* RequestRecovered: neither the numbering through nor the one per connection wraps,
\* because Run keeps the offset far enough from the end of the word.
THEOREM RequestRecoveredTheorem ==
    ASSUME NEW connections \in Nat \ {0}, NEW requests \in Nat
    PROVE  RequestRecovered(connections, requests)
<1>. DEFINE total == connections * requests
<1>. SUFFICES ASSUME NEW offset \in Offsets(total), NEW seq \in 0 .. total - 1
              PROVE  Recovers(offset, seq, connections, requests)
  BY DEF RequestRecovered
<1>. DEFINE c == seq % connections
            q == seq \div connections
<1>0. /\ total \in Nat /\ seq \in Nat /\ offset \in Nat /\ WordSize \in Nat
      /\ offset + total + 2 <= WordSize
  BY WordSizeAssumption, Z3 DEF Offsets
<1>1. c \in 0 .. connections - 1 /\ q \in Nat /\ seq = q * connections + c
  BY <1>0, SplitIndex
<1>. HIDE DEF c, q
<1>2. q < requests
  BY <1>0, <1>1, QuotientBound, Z3
<1>3. q + c < total
  BY <1>0, <1>1, <1>2, SumBound, Z3
<1>. HIDE DEF total
<1>4. ExtractTCP(Acknowledged(Sequence(offset, seq)), offset) = seq
  <2>1. seq < total
    BY <1>0 DEF total
  <2>2. offset + seq \in Nat /\ offset + seq < WordSize
    BY <1>0, <2>1
  <2>3. offset + seq + 1 \in Nat /\ offset + seq + 1 < WordSize
    BY <1>0, <2>1
  <2>4. Sequence(offset, seq) = offset + seq
    BY <2>2, NoWrap, Zenon DEF Sequence
  <2>5. Acknowledged(offset + seq) = offset + seq + 1
    BY <2>3, NoWrap, Zenon DEF Acknowledged
  <2>. QED  BY <1>0, <2>4, <2>5 DEF ExtractTCP
<1>5. Acknowledged(TCPSequenceNumber(offset, seq, connections)) = offset + c + q + 1
  <2>1. offset + c + q \in Nat /\ offset + c + q < WordSize
    BY <1>0, <1>1, <1>3
  <2>2. offset + c + q + 1 \in Nat /\ offset + c + q + 1 < WordSize
    BY <1>0, <1>1, <1>3
  <2>3. TCPSequenceNumber(offset, seq, connections) = offset + c + q
    BY <2>1, NoWrap, Zenon DEF TCPSequenceNumber, c, q
  <2>4. Acknowledged(offset + c + q) = offset + c + q + 1
    BY <2>2, NoWrap, Zenon DEF Acknowledged
  <2>. QED  BY <2>3, <2>4
<1>6. FromTCPAcknowledgment(offset + c + q + 1, offset, c, connections, requests) = seq
  <2>1. (offset + c + 1) % WordSize = offset + c + 1
    BY <1>0, <1>1, <1>3, NoWrap
  <2>2. (offset + c + q + 1) - (offset + c + 1) = q
    BY <1>0, <1>1
  <2>3. offset + c + q + 1 >= offset + c + 1
    BY <1>0, <1>1
  <2>4. FromTCPAcknowledgment(offset + c + q + 1, offset, c, connections, requests)
            = q * connections + c
    BY <1>1, <1>2, <2>1, <2>2, <2>3, Zenon DEF FromTCPAcknowledgment
  <2>. QED  BY <1>1, <2>4
<1>. QED  BY <1>4, <1>5, <1>6 DEF Recovers, c

\* RepliesAttributed: the TCP replies of a target are attributed to their requests, for
\* the shape of a strict and that of a loose probe.
THEOREM RepliesAttributedTheorem == ProbeSafety => []RepliesAttributed
<1>1. RequestRecovered(ConnectionCount, RequestsPerConnection)
  BY RequestRecoveredTheorem, StrictProbeAssumption
<1>2. RequestRecovered(LooseConnections, LooseRequests)
  BY RequestRecoveredTheorem, LooseProbeAssumption
<1>3. RepliesAttributed
  BY <1>1, <1>2 DEF RepliesAttributed
<1>. QED  BY <1>3, PTL

-----------------------------------------------------------------------------
(* The invariant of the probes that are not strict *)

\* Where a worker may be: with an entry per request, with one for all of them, and
\* in either case.
OneAtATimePlaces == {"reply", "flushReply", "conclude"}
FixedPlaces ==
    {"flushTop", "interval", "handshakes", "flushHandshakes", "replies", "flushEnd",
     "finish"}
LeavingPlaces == {"withdraw", "reset", "done"}
EveryPlace == {"register", "send", "advance", "save"} \cup LeavingPlaces

Leaving(w) == place[w] \in LeavingPlaces

\* What a receiver that is not idle may do next.
StoredSteps == {"ready", "queue", "handshake", "valid"}
OwnerSteps == {"store"} \cup StoredSteps
LooseHeld ==
    {[step |-> "idle"]} \cup [step : {"fill"} \cup OwnerSteps, entry : Loose!Entries,
                              seq : Loose!Requests, from : Probers]

LooseWorkerType ==
    /\ place \in [Probers -> OneAtATimePlaces \cup FixedPlaces \cup EveryPlace]
    /\ index \in [Probers -> Loose!Requests]
    /\ acked \in [Probers -> SUBSET Loose!Connections]
    /\ resetAt \in [Probers -> Nat]
    /\ resetTried \in [Probers -> SUBSET Nat]
    /\ resetFailed \in [Probers -> SUBSET Nat]
    /\ counted \in [Probers -> Nat]
    /\ timedOut \in [Probers -> SUBSET Loose!Requests]
    /\ handedOver \subseteq Probers

LooseProbeType ==
    /\ sample \in [Probers -> [Loose!Requests -> {"empty", "sent", "pending", "received"}]]
    /\ content \in [Probers -> [Loose!Requests -> Probers \cup {"unset"}]]
    /\ ready \in [Probers -> SUBSET Loose!Connections]
    /\ acks \in [Probers -> Seq(Loose!Connections)]
    /\ handshakes \in [Probers -> Nat]

LooseRunType ==
    /\ config \in Loose!Configurations
    /\ inflight \in {Loose!NoEntry} \cup Loose!Entries
    /\ valid \in [Loose!Entries -> Nat]
    /\ closed \subseteq Loose!Entries
    /\ holding \in [Capturers -> LooseHeld]
    /\ record \in [Probers -> Seq(Probers \cup {"unset", "missing"})]
    /\ stopped \in BOOLEAN /\ limiterOff \in BOOLEAN

LooseTypeOK == LooseWorkerType /\ LooseProbeType /\ LooseRunType

\* The places of a worker are those of its configuration.
PlaceInv ==
    \A w \in Probers :
        place[w] \in EveryPlace \cup (IF Loose!OneAtATime THEN OneAtATimePlaces
                                      ELSE FixedPlaces)

(***************************************************************************)
(* The samples: nothing after the loop variable has been sent, and a       *)
(* sample that was swapped to pending belongs to one receiver until that   *)
(* has counted it.                                                         *)
(***************************************************************************)
UnsentInv ==
    \A w \in Probers :
        /\ \A s \in Loose!Requests : s > index[w] => sample[w][s] = "empty"
        /\ place[w] \in {"register", "flushTop", "send"} => sample[w][index[w]] = "empty"

\* The receiver holds a reply to request s of w and is at one of the steps.
Holds(r, steps, w, s) ==
    holding[r].step \in steps /\ holding[r].entry[1] = w /\ holding[r].seq = s

OwnerInv ==
    \A r \in Capturers :
        LET w == holding[r].entry[1]  s == holding[r].seq IN
        /\ holding[r].step # "idle" =>
              /\ Loose!OneAtATime => holding[r].entry[2] = s
              /\ s \in config.ports => holding[r].from = w
        /\ holding[r].step = "store" => sample[w][s] = "pending"
        /\ holding[r].step \in StoredSteps => sample[w][s] = "received"
        /\ holding[r].step \in {"ready", "queue", "handshake"} =>
              config.tcp /\ Loose!OpensConnection(s)
        /\ holding[r].step \in OwnerSteps =>
              \A q \in Capturers : Holds(q, OwnerSteps, w, s) => q = r

\* A received sample holds an answer, where there are ports one to its own request.
ContentInv ==
    \A w \in Probers, s \in Loose!Requests : sample[w][s] = "received" =>
        content[w][s] \in Probers /\ (s \in config.ports => content[w][s] = w)

-----------------------------------------------------------------------------
(* The record *)

RecordInv ==
    /\ RecordWhole
    /\ \A w \in Probers : /\ Len(record[w]) <= Loose!RequestCount
                          /\ record[w] # <<>> => w \in handedOver

\* In RT mode every request before the loop variable has been answered.
AnsweredInv ==
    config.kind = "rt" => \A w \in Probers :
        /\ \A s \in Loose!Requests : s < index[w] => sample[w][s] = "received"
        /\ place[w] \in {"advance", "save"} => sample[w][index[w]] = "received"
        /\ place[w] = "save" \/ w \in handedOver =>
              \A s \in Loose!Requests : sample[w][s] = "received"

\* The positions of a record that are not missing, and those still to be read that are
\* received.
Kept(w) ==
    {i \in 1 .. Loose!RequestCount :
        IF i <= Len(record[w]) THEN record[w][i] # "missing" ELSE sample[w][i - 1] = "received"}

KeptInv ==
    config.kind = "fixed" => \A w \in Probers :
        place[w] = "save" \/ w \in handedOver => Cardinality(Kept(w)) >= MinimumReplies

-----------------------------------------------------------------------------
(* Counting and the registry *)

\* The requests of an entry that are received and counted.
Settled(e) ==
    {s \in Loose!Requests :
        /\ sample[e[1]][s] = "received"
        /\ Loose!OneAtATime => s = e[2]
        /\ \A r \in Capturers : ~Holds(r, StoredSteps, e[1], s)}

SettledInv == \A e \in Loose!Entries : valid[e] <= Cardinality(Settled(e))

\* Where a worker relies on its entry.
ServedPlaces ==
    {"flushTop", "send", "reply", "flushReply", "conclude", "interval", "handshakes",
     "flushHandshakes", "replies"}

ServedInv ==
    \A w \in Probers :
        (place[w] \in ServedPlaces \/ (place[w] = "advance" /\ ~Loose!OneAtATime)) =>
            inflight = Loose!Entry(w) \/ Loose!Entry(w) \in closed

LooseCountedInv ==
    \A w \in Probers :
        IF Leaving(w)
        THEN /\ ReasonsOf(w) = 0 => w \in handedOver \/ (config.kind = "interRT" /\ stopped)
             /\ ReasonsOf(w) # 0 => ReasonsOf(w) = 1 /\ w \notin handedOver
        ELSE ReasonsOf(w) = 0 /\ w \notin handedOver

\* A timeout and a reset that failed are counted once: those noted lie behind the loops.
TalliedInv ==
    \A w \in Probers :
        /\ timedOut[w] # {} => config.kind = "interRT"
        /\ \A s \in timedOut[w] :
              s < index[w] \/ (s = index[w] /\ place[w] \in {"conclude", "advance", "save"}
                                                          \cup LeavingPlaces)
        /\ \A c \in resetFailed[w] : c < resetAt[w]

\* In an interprotocol RT schedule the wait of every request behind was ended or timed out.
MissedInv ==
    config.kind = "interRT" => \A w \in Probers : \A s \in Loose!Requests :
        \/ s < index[w] \/ place[w] = "save" \/ w \in handedOver
        \/ s = index[w] /\ place[w] \in {"flushReply", "conclude", "advance"}
        => s \in timedOut[w] \/ <<w, s>> \in closed

-----------------------------------------------------------------------------
(* Connections *)

\* The connections that wait in a channel.
Waited(w) == {acks[w][i] : i \in DOMAIN acks[w]}

\* A connection whose reply has passed the channel is acknowledged or waits in it.
ChannelInv ==
    /\ \A w \in Probers : acked[w] \cup Waited(w) \subseteq ready[w]
    /\ \A r \in Capturers : holding[r].step = "queue" =>
          holding[r].seq \in ready[holding[r].entry[1]]
    /\ config.tcp => \A w \in Probers : \A c \in Loose!Connections :
          /\ ~Leaving(w) /\ sample[w][c] = "received"
          /\ \A r \in Capturers : ~Holds(r, {"ready", "queue"}, w, c)
          => c \in acked[w] \cup Waited(w)

\* The connections whose handshake has been counted.
Established(w) ==
    {c \in Loose!Connections :
        /\ sample[w][c] = "received"
        /\ \A r \in Capturers : ~Holds(r, {"ready", "queue", "handshake"}, w, c)}

HandshakesInv ==
    config.tcp => \A w \in Probers : handshakes[w] <= Cardinality(Established(w))

\* A fixed-interval probe acknowledges all connections before the data requests.
FixedHandshakeInv ==
    config.kind = "fixed" /\ config.tcp => \A w \in Probers :
        /\ place[w] = "flushHandshakes" => Loose!Connections \subseteq acked[w] \cup Waited(w)
        /\ index[w] >= LooseConnections
             \/ (place[w] = "advance" /\ index[w] + 1 = LooseConnections)
           => Loose!Connections \subseteq acked[w]

\* The only probe of an address in RT mode waits for its own replies.
Alone == config.kind = "rt" /\ Cardinality(Probers) <= 1

AloneInv ==
    Alone => \A w \in Probers :
        /\ place[w] \in {"register", "advance", "save"} => inflight = Loose!NoEntry
        /\ inflight \in {Loose!NoEntry, Loose!Entry(w)}
        /\ \A e \in closed : valid[e] >= 1
        /\ place[w] \in {"flushReply"} => Loose!Entry(w) \in closed
        /\ config.tcp => \A c \in Loose!Connections :
              c < index[w] \/ (c = index[w] /\ place[w] \in {"conclude", "advance", "save"})
              => c \in acked[w]

\* The loop of resets has tried every connection before its variable.
LooseResetInv ==
    \A w \in Probers :
        /\ ~Leaving(w) \/ place[w] = "withdraw" => resetAt[w] = 0
        /\ place[w] = "reset" => resetAt[w] < LooseConnections
        /\ place[w] = "done" /\ config.tcp => resetAt[w] = LooseConnections
        /\ config.tcp => \A c \in acked[w] : c < resetAt[w] => c \in resetTried[w]

LooseInv ==
    /\ LooseTypeOK /\ PlaceInv /\ UnsentInv /\ OwnerInv /\ ContentInv
    /\ RecordInv /\ AnsweredInv /\ RTRecordFull /\ KeptInv
    /\ SettledInv /\ ServedInv /\ LooseCountedInv /\ TalliedInv /\ MissedInv
    /\ ChannelInv /\ HandshakesInv /\ FixedHandshakeInv /\ AloneInv /\ LooseHandshake
    /\ LooseResetInv

-----------------------------------------------------------------------------
(* Facts about the constants and the data *)

\* A probe has a request and every request belongs to a connection.
LEMMA LooseRequestFacts ==
    /\ Loose!RequestCount \in Nat \ {0} /\ LooseConnections \in Nat \ {0}
    /\ LooseConnections <= Loose!RequestCount
    /\ 0 \in Loose!Requests
    /\ \A s \in Loose!Requests : s \in Nat /\ Loose!GetConnectionIndex(s) \in Loose!Connections
    /\ \A s \in Loose!Requests : Loose!OpensConnection(s) =>
          s \in Loose!Connections /\ Loose!GetConnectionIndex(s) = s
    /\ \A c \in Loose!Connections : c \in Loose!Requests /\ Loose!OpensConnection(c)
<1>1. /\ LooseConnections \in Nat \ {0} /\ Loose!RequestCount \in Nat \ {0}
      /\ LooseConnections <= Loose!RequestCount
  BY LooseProbeAssumption, Z3 DEF Loose!RequestCount
<1>2. \A s \in Nat : s % LooseConnections \in 0 .. LooseConnections - 1
  BY <1>1
<1>3. \A s \in Nat : s < LooseConnections => s % LooseConnections = s
  BY <1>1
<1> QED
  BY <1>1, <1>2, <1>3 DEF Loose!Requests, Loose!Connections, Loose!GetConnectionIndex,
     Loose!OpensConnection

\* An entry is a worker and a request, never the empty tuple.
LEMMA EntryFacts ==
    ASSUME LooseTypeOK
    PROVE  /\ \A w \in Probers : Loose!Entry(w) \in Loose!Entries
           /\ \A e \in Loose!Entries : /\ e # Loose!NoEntry /\ e = <<e[1], e[2]>>
                                       /\ e[1] \in Probers /\ e[2] \in Loose!Requests
           /\ \A w, v \in Probers : Loose!Entry(w) = Loose!Entry(v) => w = v
BY LooseRequestFacts DEF LooseTypeOK, LooseWorkerType, Loose!Entry, Loose!Entries, Loose!NoEntry

\* What a receiver holds.
LEMMA HeldFacts ==
    ASSUME LooseTypeOK, NEW r \in Capturers, holding[r].step # "idle"
    PROVE  /\ holding[r] \in [step : {"fill"} \cup OwnerSteps, entry : Loose!Entries,
                              seq : Loose!Requests, from : Probers]
           /\ holding[r].step \in {"fill"} \cup OwnerSteps
           /\ holding[r].entry \in Loose!Entries /\ holding[r].entry[1] \in Probers
           /\ holding[r].entry[2] \in Loose!Requests
           /\ holding[r].seq \in Loose!Requests /\ holding[r].from \in Probers
           /\ Loose!GetConnectionIndex(holding[r].seq) \in Loose!Connections
<1>1. holding[r] \in LooseHeld
  BY DEF LooseTypeOK, LooseRunType
<1>2. holding[r] \in [step : {"fill"} \cup OwnerSteps, entry : Loose!Entries,
                      seq : Loose!Requests, from : Probers]
  BY <1>1 DEF LooseHeld
<1> QED
  BY <1>2, EntryFacts, LooseRequestFacts

-----------------------------------------------------------------------------
(* What a step changes *)

WaitFrame ==
    UNCHANGED <<index, resetAt, resetTried, resetFailed, handedOver, sample, content, ready,
                handshakes, inflight, valid, closed, holding, record, config, stopped,
                limiterOff>>

\* An action in which the worker waits or flushes its ACKs.
Waits(w) ==
    \/ Loose!FlushTCPACKs(w) \/ Loose!AwaitReply(w) \/ Loose!WaitInterval(w)
    \/ Loose!WaitForTCPHandshakes(w) \/ Loose!WaitForFixedReplies(w)

WaitPlaces ==
    {"flushTop", "flushReply", "flushHandshakes", "flushEnd", "reply", "interval",
     "handshakes", "replies"}

\* Where the worker goes on and what it has waited for.
Follows(w, p) ==
    \/ place[w] = "flushTop" /\ p = "send"
    \/ place[w] = "flushReply" /\ p = "conclude" /\ acks[w] = <<>>
    \/ place[w] = "flushHandshakes" /\ p = "advance" /\ acks[w] = <<>>
    \/ place[w] = "flushEnd" /\ p = "finish"
    \/ place[w] = "reply" /\ p = "conclude" /\ Loose!InterProtocol
    \/ place[w] = "reply" /\ p = "flushReply" /\ Loose!Entry(w) \in closed
    \/ place[w] = "interval" /\ p = Loose!AfterInterval(w)
    \/ place[w] = "handshakes" /\ p = "flushHandshakes" /\ handshakes[w] >= LooseConnections
    \/ place[w] = "replies" /\ p = "flushEnd"

\* An ACK leaves the queue, sent or refused by the limiter or the socket.
TakesACK(w) == acks[w] # <<>> /\ acks' = [acks EXCEPT ![w] = Tail(@)]

Acknowledges(w) ==
    /\ TakesACK(w)
    /\ acked' = [acked EXCEPT ![w] = @ \cup {Head(acks[w])}]
    /\ UNCHANGED <<place, counted>>

FailsACK(w) == TakesACK(w) /\ Loose!Drop(w) /\ UNCHANGED acked
Aborts(w) == Loose!Drop(w) /\ UNCHANGED <<acks, acked>>

\* An interprotocol RT schedule goes on without the reply.
Misses(w) ==
    place[w] = "reply" /\ Loose!InterProtocol /\ Loose!Miss(w) /\ UNCHANGED resetFailed

Continues(w) ==
    /\ \E p \in FixedPlaces \cup OneAtATimePlaces \cup EveryPlace :
          Loose!Goto(w, p) /\ UNCHANGED <<acks, acked>> /\ Follows(w, p)
    /\ \/ Misses(w)
       \/ counted' = counted /\ (place[w] = "reply" => Loose!Entry(w) \in closed)

\* SendACK has the two outcomes.
LEMMA SendACKEffect ==
    ASSUME NEW w \in Probers, Loose!SendACK(w)
    PROVE  Acknowledges(w) \/ FailsACK(w)
BY DEF Loose!SendACK, Acknowledges, FailsACK, TakesACK

\* Every wait is one of four steps.
LEMMA WaitEffect ==
    ASSUME NEW w \in Probers, Waits(w)
    PROVE  /\ WaitFrame /\ place[w] \in WaitPlaces
           /\ Continues(w) \/ Aborts(w) \/ Acknowledges(w) \/ FailsACK(w)
           /\ timedOut' = timedOut \/ Misses(w)
<1> USE DEF WaitFrame, WaitPlaces, Loose!At, Loose!resetVars, Loose!registryVars,
            Loose!runVars
<1> DEFINE all == FixedPlaces \cup OneAtATimePlaces \cup EveryPlace
<1>0. /\ {"send", "conclude", "advance", "finish", "flushReply", "handshakes",
          "flushHandshakes", "flushEnd"} \subseteq all
      /\ Loose!AfterInterval(w) \in {"handshakes", "advance"}
  BY DEF FixedPlaces, OneAtATimePlaces, EveryPlace, Loose!AfterInterval
<1>1. CASE Loose!FlushTCPACKs(w)
  <2>1. CASE Loose!SendACK(w)
    BY <1>1, <2>1, SendACKEffect DEF Loose!FlushTCPACKs, Loose!FlushPoints
  <2>2. CASE acks[w] = <<>> /\ Loose!Goto(w, Loose!AfterFlush(w))
             /\ UNCHANGED <<acks, acked, counted>>
    <3>1. place[w] \in {"flushTop", "flushReply", "flushHandshakes", "flushEnd"}
      BY <1>1 DEF Loose!FlushTCPACKs, Loose!FlushPoints
    <3>2. Loose!AfterFlush(w) \in all /\ Follows(w, Loose!AfterFlush(w))
      BY <2>2, <3>1, <1>0 DEF Follows, Loose!AfterFlush
    <3> QED
      BY <1>1, <2>2, <3>1, <3>2 DEF Loose!FlushTCPACKs, Continues, Loose!Proceed
  <2> QED
    BY <1>1, <2>1, <2>2 DEF Loose!FlushTCPACKs
<1>2. CASE Loose!AwaitReply(w)
  <2>1. WaitFrame /\ place[w] = "reply"
    BY <1>2 DEF Loose!AwaitReply
  <2>2. CASE Misses(w)
    BY <1>0, <2>1, <2>2 DEF Misses, Loose!Miss, Continues, Follows
  <2>3. CASE ~Misses(w)
    <3>1. \/ Loose!Proceed(w, "conclude") /\ Follows(w, "conclude")
                /\ Loose!Entry(w) \in closed
          \/ Loose!Proceed(w, "flushReply") /\ Follows(w, "flushReply")
                /\ Loose!Entry(w) \in closed
          \/ Aborts(w)
      BY <1>2, <2>1, <2>3 DEF Loose!AwaitReply, Follows, Aborts, Misses, Loose!Interrupted
    <3>2. timedOut' = timedOut
      BY <1>2, <2>1, <2>3 DEF Loose!AwaitReply, Misses
    <3> QED
      BY <2>1, <3>1, <3>2, <1>0 DEF Continues, Loose!Proceed
  <2> QED
    BY <2>2, <2>3
<1>3. CASE Loose!WaitInterval(w)
  <2>1. WaitFrame /\ place[w] = "interval" /\ timedOut' = timedOut
    BY <1>3 DEF Loose!WaitInterval
  <2>2. \/ Loose!Proceed(w, Loose!AfterInterval(w)) /\ Follows(w, Loose!AfterInterval(w))
        \/ Aborts(w) \/ Loose!SendACK(w)
    BY <1>3, <2>1 DEF Loose!WaitInterval, Follows, Aborts, Loose!Interrupted
  <2> QED
    BY <2>1, <2>2, <1>0, SendACKEffect DEF Continues, Loose!Proceed
<1>4. CASE Loose!WaitForTCPHandshakes(w)
  <2>1. WaitFrame /\ place[w] = "handshakes" /\ timedOut' = timedOut
    BY <1>4 DEF Loose!WaitForTCPHandshakes
  <2>2. \/ Loose!Proceed(w, "flushHandshakes") /\ Follows(w, "flushHandshakes")
        \/ Aborts(w) \/ Loose!SendACK(w)
    BY <1>4, <2>1 DEF Loose!WaitForTCPHandshakes, Follows, Aborts, Loose!Interrupted
  <2> QED
    BY <2>1, <2>2, <1>0, SendACKEffect DEF Continues, Loose!Proceed
<1>5. CASE Loose!WaitForFixedReplies(w)
  <2>1. WaitFrame /\ place[w] = "replies" /\ timedOut' = timedOut
    BY <1>5 DEF Loose!WaitForFixedReplies
  <2>2. \/ Loose!Proceed(w, "flushEnd") /\ Follows(w, "flushEnd")
        \/ Aborts(w) \/ Loose!SendACK(w)
    BY <1>5, <2>1 DEF Loose!WaitForFixedReplies, Follows, Aborts, Loose!Interrupted
  <2> QED
    BY <2>1, <2>2, <1>0, SendACKEffect DEF Continues, Loose!Proceed
<1> QED
  BY <1>1, <1>2, <1>3, <1>4, <1>5 DEF Waits

\* Send marks the request as sent, over an open connection, before the socket may fail.
Marks(w) ==
    /\ sample' = [sample EXCEPT ![w][index[w]] = "sent"]
    /\ config.tcp /\ ~Loose!OpensConnection(index[w]) =>
          Loose!GetConnectionIndex(index[w]) \in ready[w]

SendFrame ==
    UNCHANGED <<index, acked, resetAt, resetTried, resetFailed, handedOver, timedOut, content,
                ready, acks, handshakes, inflight, valid, closed, holding, record, config,
                stopped, limiterOff>>

\* Send keeps its frame, and drops or goes on.
LEMMA SendEffect ==
    ASSUME NEW w \in Probers, Loose!Send(w)
    PROVE  /\ SendFrame /\ place[w] = "send"
           /\ \/ Loose!Drop(w) /\ UNCHANGED sample
              \/ Loose!Drop(w) /\ Marks(w)
              \/ Loose!Goto(w, Loose!AfterRequest(w)) /\ UNCHANGED counted /\ Marks(w)
<1>1. SendFrame /\ place[w] = "send"
  BY DEF Loose!Send, SendFrame, Loose!At, Loose!resetVars, Loose!registryVars, Loose!runVars
<1> QED
  BY <1>1 DEF Loose!Send, Marks

-----------------------------------------------------------------------------
(* Types *)

\* Going somewhere and dropping keep the types.
LEMMA LooseGotoType ==
    ASSUME LooseTypeOK, NEW w \in Probers,
           NEW p \in OneAtATimePlaces \cup FixedPlaces \cup EveryPlace, Loose!Goto(w, p)
    PROVE  /\ place' \in [Probers -> OneAtATimePlaces \cup FixedPlaces \cup EveryPlace]
           /\ place'[w] = p /\ \A v \in Probers \ {w} : place'[v] = place[v]
BY DEF LooseTypeOK, LooseWorkerType, Loose!Goto

\* A counter goes up by one.
LEMMA CountDropType ==
    ASSUME LooseTypeOK, NEW w \in Probers, Loose!CountDrop(w)
    PROVE  /\ counted' \in [Probers -> Nat]
           /\ counted'[w] = counted[w] + 1
           /\ \A v \in Probers \ {w} : counted'[v] = counted[v]
BY DEF Loose!CountDrop, LooseTypeOK, LooseWorkerType

\* Dropping keeps them too.
LEMMA LooseDropType ==
    ASSUME LooseTypeOK, NEW w \in Probers, Loose!Drop(w)
    PROVE  /\ place' \in [Probers -> OneAtATimePlaces \cup FixedPlaces \cup EveryPlace]
           /\ place'[w] = "withdraw" /\ \A v \in Probers \ {w} : place'[v] = place[v]
           /\ counted' \in [Probers -> Nat]
           /\ counted'[w] = counted[w] + 1
           /\ \A v \in Probers \ {w} : counted'[v] = counted[v]
<1>1. Loose!Goto(w, "withdraw") /\ "withdraw" \in EveryPlace
  BY DEF Loose!Drop, EveryPlace, LeavingPlaces
<1> QED
  BY <1>1, LooseGotoType, CountDropType DEF Loose!Drop

\* So does taking an ACK from the queue.
LEMMA TakesACKType ==
    ASSUME LooseTypeOK, NEW w \in Probers, TakesACK(w)
    PROVE  /\ acks' \in [Probers -> Seq(Loose!Connections)]
           /\ Head(acks[w]) \in Loose!Connections
           /\ Waited(w) = {Head(acks[w])} \cup Waited(w)'
           /\ \A v \in Probers \ {w} : acks'[v] = acks[v]
<1> DEFINE q == acks[w]
<1>1. q \in Seq(Loose!Connections) /\ q # <<>> /\ acks'[w] = Tail(q)
  BY DEF LooseTypeOK, LooseProbeType, TakesACK
<1>2. /\ Tail(q) \in Seq(Loose!Connections) /\ Head(q) \in Loose!Connections
      /\ Head(q) = q[1] /\ Len(q) \in Nat \ {0} /\ DOMAIN q = 1 .. Len(q)
      /\ DOMAIN Tail(q) = 1 .. Len(q) - 1
      /\ \A i \in 1 .. Len(q) - 1 : Tail(q)[i] = q[i + 1]
  BY <1>1
<1>3. \A i \in DOMAIN q : i = 1 \/ (i - 1 \in DOMAIN Tail(q) /\ Tail(q)[i - 1] = q[i])
  BY <1>2
<1>4. {q[i] : i \in DOMAIN q} = {Head(q)} \cup {Tail(q)[i] : i \in DOMAIN Tail(q)}
  <2>1. \A i \in DOMAIN Tail(q) : i + 1 \in DOMAIN q /\ Tail(q)[i] = q[i + 1]
    BY <1>2
  <2>2. 1 \in DOMAIN q
    BY <1>2
  <2>3. \A i \in DOMAIN q : q[i] \in {q[1]} \cup {Tail(q)[j] : j \in DOMAIN Tail(q)}
    BY <1>3
  <2>4. \A j \in DOMAIN Tail(q) : Tail(q)[j] \in {q[i] : i \in DOMAIN q}
    BY <2>1
  <2> HIDE DEF q
  <2> QED
    BY <1>2, <2>2, <2>3, <2>4
<1> QED
  BY <1>1, <1>2, <1>4 DEF LooseTypeOK, LooseProbeType, TakesACK, Waited

\* Places of the worker's own steps.
LEMMA LooseWorkerTypes ==
    ASSUME LooseTypeOK, NEW w \in Probers, Loose!Worker(w)
    PROVE  LooseTypeOK'
<1> USE DEF LooseTypeOK, LooseWorkerType, LooseProbeType, LooseRunType
<1> DEFINE all == OneAtATimePlaces \cup FixedPlaces \cup EveryPlace
<1>0. all = {"reply", "flushReply", "conclude", "flushTop", "interval", "handshakes",
             "flushHandshakes", "replies", "flushEnd", "finish", "register", "send",
             "advance", "save", "withdraw", "reset", "done"}
  BY DEF OneAtATimePlaces, FixedPlaces, EveryPlace, LeavingPlaces
<1> HIDE DEF all
<1>t. \A p \in all : Loose!Goto(w, p) => place' \in [Probers -> all]
  BY LooseGotoType DEF all
<1>d. Loose!Drop(w) => place' \in [Probers -> all] /\ counted' \in [Probers -> Nat]
  BY LooseDropType DEF all
<1>l. place \in [Probers -> all]
  BY DEF all
<1>1. CASE Loose!Register(w)
  <2>1. place' \in [Probers -> all]
    BY <1>0, <1>1, <1>t DEF Loose!Register, Loose!FirstPoint
  <2> QED
    BY <1>1, <2>1, EntryFacts DEF Loose!Register, Loose!probeVars, Loose!resetVars,
       Loose!runVars, Loose!Displaced, all
<1>2. CASE Loose!Send(w)
  <2>1. place' \in [Probers -> all] /\ counted' \in [Probers -> Nat]
    <3>1. Loose!AfterRequest(w) \in all
      BY <1>0 DEF Loose!AfterRequest, Loose!AfterInterval
    <3> QED
      BY <1>2, <3>1, <1>t, <1>d, SendEffect
  <2>2. sample' \in [Probers -> [Loose!Requests -> {"empty", "sent", "pending", "received"}]]
    <3>1. sample' = sample \/ sample' = [sample EXCEPT ![w][index[w]] = "sent"]
      BY <1>2, SendEffect DEF Marks
    <3>2. CASE sample' = sample
      BY <3>2
    <3>3. CASE sample' = [sample EXCEPT ![w][index[w]] = "sent"]
      <4>1. index[w] \in Loose!Requests
        OBVIOUS
      <4> QED
        BY <3>3, <4>1
    <3> QED
      BY <3>1, <3>2, <3>3
  <2> QED
    BY <1>2, <2>1, <2>2, SendEffect DEF SendFrame, all
<1>3. CASE Waits(w)
  <2>0. Misses(w) => counted' \in [Probers -> Nat]
    BY CountDropType DEF Misses, Loose!Miss
  <2>1. place' \in [Probers -> all] /\ counted' \in [Probers -> Nat]
    <3>1. CASE Continues(w)
      <4>1. place' \in [Probers -> all]
        BY <1>t, <3>1 DEF Continues, all
      <4>2. counted' \in [Probers -> Nat]
        BY <2>0, <3>1 DEF Continues
      <4> QED
        BY <4>1, <4>2
    <3> QED
      BY <1>3, <1>d, <1>l, <3>1, WaitEffect DEF Aborts, Acknowledges, FailsACK
  <2>3. timedOut' \in [Probers -> SUBSET Loose!Requests]
    <3>1. timedOut[w] \cup {index[w]} \in SUBSET Loose!Requests
      OBVIOUS
    <3>2. \/ timedOut' = timedOut
          \/ timedOut' = [timedOut EXCEPT ![w] = timedOut[w] \cup {index[w]}]
      BY <1>3, WaitEffect DEF Misses, Loose!Miss
    <3> QED
      BY <3>1, <3>2
  <2>2. acks' \in [Probers -> Seq(Loose!Connections)]
        /\ acked' \in [Probers -> SUBSET Loose!Connections]
    <3>1. \/ UNCHANGED <<acks, acked>>
          \/ TakesACK(w) /\ UNCHANGED acked
          \/ TakesACK(w) /\ acked' = [acked EXCEPT ![w] = @ \cup {Head(acks[w])}]
      BY <1>3, WaitEffect DEF Continues, Aborts, Acknowledges, FailsACK
    <3>2. CASE UNCHANGED <<acks, acked>>
      BY <3>2
    <3>3. CASE TakesACK(w)
      <4>1. /\ acks' \in [Probers -> Seq(Loose!Connections)]
            /\ Head(acks[w]) \in Loose!Connections
        BY <3>3, TakesACKType
      <4>2. acked[w] \cup {Head(acks[w])} \in SUBSET Loose!Connections
        BY <4>1
      <4>3. acked' \in [Probers -> SUBSET Loose!Connections]
        <5>1. \/ acked' = acked
              \/ acked' = [acked EXCEPT ![w] = @ \cup {Head(acks[w])}]
          BY <3>1
        <5> QED
          BY <4>2, <5>1
      <4> QED
        BY <4>1, <4>3
    <3> QED
      BY <3>1, <3>2, <3>3
  <2> QED
    BY <1>3, <2>1, <2>2, <2>3, WaitEffect DEF WaitFrame, all
<1>4. CASE Loose!Conclude(w)
  <2>1. place' \in [Probers -> all] /\ counted' \in [Probers -> Nat]
    BY <1>0, <1>4, <1>t, <1>d DEF Loose!Conclude
  <2> QED
    BY <1>4, <2>1 DEF Loose!Conclude, Loose!probeVars, Loose!resetVars,
       Loose!runVars, Loose!Remaining, all
<1>5. CASE Loose!Advance(w)
  <2>1. place' \in [Probers -> all]
    BY <1>0, <1>5, <1>t DEF Loose!Advance
  <2>2. index' \in [Probers -> Loose!Requests]
    <3>1. \/ index' = index
          \/ index[w] + 1 < Loose!RequestCount /\ index' = [index EXCEPT ![w] = @ + 1]
      BY <1>5 DEF Loose!Advance
    <3>2. index[w] \in 0 .. Loose!RequestCount - 1 /\ Loose!RequestCount \in Nat
      BY LooseRequestFacts DEF Loose!Requests
    <3>3. index[w] + 1 < Loose!RequestCount => index[w] + 1 \in Loose!Requests
      BY <3>2 DEF Loose!Requests
    <3> QED
      BY <3>1, <3>3
  <2> QED
    BY <1>5, <2>1, <2>2 DEF Loose!Advance, Loose!probeVars, Loose!resetVars,
       Loose!runVars, Loose!registryVars, all
<1>6. CASE Loose!FinishFixedProbe(w)
  <2>1. place' \in [Probers -> all] /\ counted' \in [Probers -> Nat]
    BY <1>0, <1>6, <1>t, <1>d DEF Loose!FinishFixedProbe
  <2> QED
    BY <1>6, <2>1 DEF Loose!FinishFixedProbe, Loose!probeVars, Loose!resetVars,
       Loose!runVars, Loose!registryVars, all
<1>7. CASE Loose!Save(w)
  <2>1. place' \in [Probers -> all] /\ counted' \in [Probers -> Nat]
    BY <1>0, <1>7, <1>t, <1>d DEF Loose!Save, Loose!InterruptedSave, Loose!Uncounted
  <2> QED
    BY <1>7, <2>1 DEF Loose!Save, Loose!probeVars, Loose!resetVars,
       Loose!runVars, Loose!registryVars, all
<1>8. CASE Loose!Withdraw(w)
  <2>1. place' \in [Probers -> all]
    BY <1>0, <1>8, <1>t DEF Loose!Withdraw
  <2> QED
    BY <1>8, <2>1 DEF Loose!Withdraw, Loose!probeVars, Loose!resetVars,
       Loose!runVars, Loose!Remaining, all
<1>9. CASE Loose!ResetTCPConnections(w)
  <2>1. place' \in [Probers -> all]
    BY <1>0, <1>9, <1>t DEF Loose!ResetTCPConnections
  <2>2. resetAt' \in [Probers -> Nat] /\ resetTried' \in [Probers -> SUBSET Nat]
    BY <1>9 DEF Loose!ResetTCPConnections
  <2>3. resetFailed' \in [Probers -> SUBSET Nat] /\ counted' \in [Probers -> Nat]
    <3>1. resetFailed[w] \cup {resetAt[w]} \in SUBSET Nat
      OBVIOUS
    <3>2. \/ resetFailed' = resetFailed /\ counted' = counted
          \/ resetFailed' = [resetFailed EXCEPT ![w] = resetFailed[w] \cup {resetAt[w]}]
                /\ Loose!CountDrop(w)
      BY <1>9 DEF Loose!ResetTCPConnections
    <3>3. CASE resetFailed' = resetFailed /\ counted' = counted
      BY <3>3
    <3>4. CASE /\ resetFailed' = [resetFailed EXCEPT ![w] = resetFailed[w] \cup {resetAt[w]}]
               /\ Loose!CountDrop(w)
      <4>1. counted' \in [Probers -> Nat]
        BY <3>4, CountDropType
      <4>2. resetFailed' \in [Probers -> SUBSET Nat]
        <5>1. resetFailed \in [Probers -> SUBSET Nat]
          OBVIOUS
        <5> QED
          BY <3>1, <3>4, <5>1
      <4> QED
        BY <4>1, <4>2
    <3> QED
      BY <3>2, <3>3, <3>4
  <2> QED
    BY <1>9, <2>1, <2>2, <2>3 DEF Loose!ResetTCPConnections, Loose!probeVars,
       Loose!runVars, Loose!registryVars, all
<1> QED
  BY <1>1, <1>2, <1>3, <1>4, <1>5, <1>6, <1>7, <1>8, <1>9 DEF Loose!Worker, Waits

\* A receiver goes to its next step with what it holds.
LEMMA StepHeld ==
    ASSUME LooseTypeOK, NEW r \in Capturers, holding[r].step # "idle",
           NEW next \in OwnerSteps, Loose!Step(r, next)
    PROVE  /\ holding' \in [Capturers -> LooseHeld]
           /\ holding'[r].step = next
           /\ holding'[r].entry = holding[r].entry
           /\ holding'[r].seq = holding[r].seq
           /\ holding'[r].from = holding[r].from
           /\ \A q \in Capturers \ {r} : holding'[q] = holding[q]
<1> DEFINE H == [step : {"fill"} \cup OwnerSteps, entry : Loose!Entries,
                 seq : Loose!Requests, from : Probers]
<1>1. holding[r] \in H /\ holding \in [Capturers -> LooseHeld]
  BY HeldFacts DEF LooseTypeOK, LooseRunType
<1>2. holding' = [holding EXCEPT ![r] = [holding[r] EXCEPT !.step = next]]
  BY DEF Loose!Step
<1>3. /\ [holding[r] EXCEPT !.step = next] \in H
      /\ [holding[r] EXCEPT !.step = next].step = next
      /\ [holding[r] EXCEPT !.step = next].entry = holding[r].entry
      /\ [holding[r] EXCEPT !.step = next].seq = holding[r].seq
      /\ [holding[r] EXCEPT !.step = next].from = holding[r].from
  BY <1>1
<1>4. H \subseteq LooseHeld
  BY DEF LooseHeld
<1> HIDE DEF H
<1> QED
  BY <1>1, <1>2, <1>3, <1>4

\* Or it is done with it.
LEMMA FinishHeld ==
    ASSUME LooseTypeOK, NEW r \in Capturers, Loose!Finish(r)
    PROVE  /\ holding' \in [Capturers -> LooseHeld]
           /\ holding'[r].step = "idle"
           /\ \A q \in Capturers \ {r} : holding'[q] = holding[q]
BY DEF LooseTypeOK, LooseRunType, LooseHeld, Loose!Finish, Loose!Idle

\* What Lookup takes is a reply to a request that was sent.
LEMMA LookupHeld ==
    ASSUME LooseTypeOK, NEW r \in Capturers, Loose!Lookup(r)
    PROVE  /\ holding' \in [Capturers -> LooseHeld]
           /\ holding[r].step = "idle" /\ holding'[r].step = "fill"
           /\ holding'[r].entry = inflight /\ inflight \in Loose!Entries
           /\ holding'[r].seq \in Loose!Requests /\ holding'[r].from \in Probers
           /\ Loose!OneAtATime => holding'[r].seq = inflight[2]
           /\ holding'[r].seq \in config.ports => holding'[r].from = inflight[1]
           /\ \A q \in Capturers \ {r} : holding'[q] = holding[q]
<1>1. PICK from \in Probers, s \in Loose!Requests :
          /\ Loose!OneAtATime => s = inflight[2]
          /\ Loose!PortMatches(inflight[1], from, s)
          /\ holding' = [holding EXCEPT ![r] =
                [step |-> "fill", entry |-> inflight, seq |-> s, from |-> from]]
  BY DEF Loose!Lookup
<1>2. inflight \in Loose!Entries /\ holding[r].step = "idle"
  BY DEF Loose!Lookup, LooseTypeOK, LooseRunType, Loose!Idle
<1> DEFINE h == [step |-> "fill", entry |-> inflight, seq |-> s, from |-> from]
<1>3. h \in LooseHeld
  BY <1>2 DEF LooseHeld
<1>4. holding \in [Capturers -> LooseHeld]
  BY DEF LooseTypeOK, LooseRunType
<1>5. holding' \in [Capturers -> LooseHeld] /\ holding'[r] = h
      /\ \A q \in Capturers \ {r} : holding'[q] = holding[q]
  BY <1>1, <1>3, <1>4
<1> QED
  BY <1>1, <1>2, <1>5 DEF Loose!PortMatches

ReceiverFrame ==
    UNCHANGED <<place, index, acked, resetAt, resetTried, resetFailed, handedOver, counted,
                timedOut, inflight,
                record, config, stopped, limiterOff>>

\* The steps of FulfillReply, one by one.
Looks(r) ==
    Loose!Lookup(r) /\ UNCHANGED <<sample, content, ready, acks, handshakes, valid, closed>>

Refuses(r) ==
    /\ holding[r].step = "fill" /\ Loose!Finish(r)
    /\ UNCHANGED <<sample, content, ready, acks, handshakes, valid, closed>>

Swaps(r) ==
    /\ holding[r].step = "fill" /\ sample[Loose!Prober(r)][holding[r].seq] = "sent"
    /\ sample' = [sample EXCEPT ![Loose!Prober(r)][holding[r].seq] = "pending"]
    /\ Loose!Step(r, "store")
    /\ UNCHANGED <<content, ready, acks, handshakes, valid, closed>>

Stores(r) ==
    /\ holding[r].step = "store"
    /\ content' = [content EXCEPT ![Loose!Prober(r)][holding[r].seq] = holding[r].from]
    /\ sample' = [sample EXCEPT ![Loose!Prober(r)][holding[r].seq] = "received"]
    /\ \/ Loose!Step(r, "ready") /\ config.tcp /\ Loose!OpensConnection(holding[r].seq)
       \/ Loose!Step(r, "valid") /\ ~(config.tcp /\ Loose!OpensConnection(holding[r].seq))
    /\ UNCHANGED <<ready, acks, handshakes, valid, closed>>

HeldConnection(r) == Loose!GetConnectionIndex(holding[r].seq)

Readies(r) ==
    /\ holding[r].step = "ready" /\ Loose!Step(r, "queue")
    /\ ready' = [ready EXCEPT ![Loose!Prober(r)] = @ \cup {HeldConnection(r)}]
    /\ UNCHANGED <<sample, content, acks, handshakes, valid, closed>>

Queues(r) ==
    /\ holding[r].step = "queue" /\ Loose!Step(r, "handshake")
    /\ acks' = [acks EXCEPT ![Loose!Prober(r)] = Append(@, HeldConnection(r))]
    /\ UNCHANGED <<sample, content, ready, handshakes, valid, closed>>

Establishes(r) ==
    /\ holding[r].step = "handshake" /\ Loose!Step(r, "valid")
    /\ handshakes' = [handshakes EXCEPT ![Loose!Prober(r)] = @ + 1]
    /\ UNCHANGED <<sample, content, ready, acks, valid, closed>>

Counts(r) ==
    /\ holding[r].step = "valid" /\ Loose!Finish(r)
    /\ valid' = [valid EXCEPT ![holding[r].entry] = @ + 1]
    /\ \/ closed' = closed
       \/ closed' = closed \cup {holding[r].entry}
    /\ UNCHANGED <<sample, content, ready, acks, handshakes>>

\* A receiver does one of its steps and touches nothing of the worker.
LEMMA ReceiverEffect ==
    ASSUME NEW r \in Capturers, Loose!Receiver(r)
    PROVE  /\ ReceiverFrame
           /\ \/ Looks(r) \/ Refuses(r) \/ Swaps(r) \/ Stores(r) \/ Readies(r)
              \/ Queues(r) \/ Establishes(r) \/ Counts(r)
<1> USE DEF ReceiverFrame, Loose!workerVars, Loose!resetVars, Loose!probeVars,
            Loose!registryVars, Loose!runVars
<1>1. CASE Loose!Lookup(r)
  BY <1>1 DEF Loose!Lookup, Looks
<1>2. CASE Loose!TryFill(r)
  BY <1>2 DEF Loose!TryFill, Refuses, Swaps, Loose!Fillable, Loose!Swapped
<1>3. CASE Loose!StoreReply(r)
  BY <1>3 DEF Loose!StoreReply, Stores
<1>4. CASE Loose!AcceptSYNACK(r)
  <2>1. ReceiverFrame /\ UNCHANGED <<sample, content, valid, closed>>
        /\ holding[r].step \in {"ready", "queue", "handshake"}
    BY <1>4 DEF Loose!AcceptSYNACK
  <2>2. CASE holding[r].step = "ready"
    BY <1>4, <2>1, <2>2 DEF Loose!AcceptSYNACK, Readies, HeldConnection, Loose!StepAfter
  <2>3. CASE holding[r].step = "queue"
    BY <1>4, <2>1, <2>3 DEF Loose!AcceptSYNACK, Queues, HeldConnection, Loose!StepAfter
  <2>4. CASE holding[r].step = "handshake"
    BY <1>4, <2>1, <2>4 DEF Loose!AcceptSYNACK, Establishes, HeldConnection, Loose!StepAfter
  <2> QED
    BY <2>1, <2>2, <2>3, <2>4
<1>5. CASE Loose!CountValid(r)
  BY <1>5 DEF Loose!CountValid, Counts
<1> QED
  BY <1>1, <1>2, <1>3, <1>4, <1>5 DEF Loose!Receiver

\* The types after a step of a receiver.
LEMMA LooseReceiverTypes ==
    ASSUME LooseTypeOK, NEW r \in Capturers, Loose!Receiver(r)
    PROVE  LooseTypeOK'
<1> DEFINE w == holding[r].entry[1]
           s == holding[r].seq
           Samples == [Loose!Requests -> {"empty", "sent", "pending", "received"}]
           Contents == [Loose!Requests -> Probers \cup {"unset"}]
<1>f. ReceiverFrame
  BY ReceiverEffect
<1>h. /\ holding' \in [Capturers -> LooseHeld]
      /\ \/ Looks(r) \/ holding[r].step # "idle"
  BY ReceiverEffect, StepHeld, FinishHeld, LookupHeld
     DEF Looks, Refuses, Swaps, Stores, Readies, Queues, Establishes, Counts, OwnerSteps,
         StoredSteps
<1>p. holding[r].step # "idle" =>
          w \in Probers /\ s \in Loose!Requests /\ holding[r].entry \in Loose!Entries
          /\ HeldConnection(r) \in Loose!Connections /\ holding[r].from \in Probers
  BY HeldFacts DEF HeldConnection
<1>t. /\ sample \in [Probers -> Samples] /\ content \in [Probers -> Contents]
      /\ ready \in [Probers -> SUBSET Loose!Connections]
      /\ acks \in [Probers -> Seq(Loose!Connections)]
      /\ handshakes \in [Probers -> Nat] /\ valid \in [Loose!Entries -> Nat]
      /\ closed \subseteq Loose!Entries
  BY DEF LooseTypeOK, LooseProbeType, LooseRunType
<1>w. LooseWorkerType'
  BY <1>f DEF LooseTypeOK, LooseWorkerType, ReceiverFrame
<1> HIDE DEF w, s
<1>1. sample' \in [Probers -> Samples]
  <2>1. \/ sample' = sample
        \/ /\ holding[r].step # "idle"
           /\ \/ sample' = [sample EXCEPT ![w][s] = "pending"]
              \/ sample' = [sample EXCEPT ![w][s] = "received"]
    BY ReceiverEffect DEF Looks, Refuses, Swaps, Stores, Readies, Queues, Establishes, Counts,
       Loose!Prober, w, s
  <2>2. CASE sample' = sample
    BY <2>2, <1>t
  <2>3. CASE /\ holding[r].step # "idle"
             /\ \E state \in {"pending", "received"} :
                   sample' = [sample EXCEPT ![w][s] = state]
    <3>1. w \in Probers /\ s \in Loose!Requests
      BY <1>p, <2>3
    <3> QED
      BY <2>3, <3>1, <1>t
  <2> QED
    BY <2>1, <2>2, <2>3
<1>2. content' \in [Probers -> Contents]
  <2>1. \/ content' = content
        \/ /\ holding[r].step # "idle"
           /\ content' = [content EXCEPT ![w][s] = holding[r].from]
    BY ReceiverEffect DEF Looks, Refuses, Swaps, Stores, Readies, Queues, Establishes, Counts,
       Loose!Prober, w, s
  <2>2. CASE content' = content
    BY <2>2, <1>t
  <2>3. CASE /\ holding[r].step # "idle"
             /\ content' = [content EXCEPT ![w][s] = holding[r].from]
    <3>1. w \in Probers /\ s \in Loose!Requests /\ holding[r].from \in Probers
      BY <1>p, <2>3
    <3> QED
      BY <2>3, <3>1, <1>t
  <2> QED
    BY <2>1, <2>2, <2>3
<1>3. /\ ready' \in [Probers -> SUBSET Loose!Connections]
      /\ acks' \in [Probers -> Seq(Loose!Connections)]
      /\ handshakes' \in [Probers -> Nat]
  <2>1. CASE UNCHANGED <<ready, acks, handshakes>>
    BY <1>t, <2>1
  <2>2. CASE Readies(r)
    BY <1>t, <1>p, <2>2 DEF Readies, Loose!Prober, w
  <2>3. CASE Queues(r)
    <3>1. holding[r].step # "idle" /\ w \in Probers
      BY <1>p, <2>3 DEF Queues
    <3>2. Append(acks[w], HeldConnection(r)) \in Seq(Loose!Connections)
      BY <1>t, <1>p, <3>1
    <3> QED
      BY <1>t, <3>1, <3>2, <2>3 DEF Queues, Loose!Prober, w
  <2>4. CASE Establishes(r)
    BY <1>t, <1>p, <2>4 DEF Establishes, Loose!Prober, w
  <2> QED
    BY <2>1, <2>2, <2>3, <2>4, ReceiverEffect DEF Looks, Refuses, Swaps, Stores, Counts
<1>4. valid' \in [Loose!Entries -> Nat] /\ closed' \subseteq Loose!Entries
  <2>1. CASE UNCHANGED <<valid, closed>>
    BY <1>t, <2>1
  <2>2. CASE Counts(r)
    <3>1. holding[r].entry \in Loose!Entries
      BY <1>p, <2>2 DEF Counts
    <3> QED
      BY <1>t, <3>1, <2>2 DEF Counts
  <2> QED
    BY <2>1, <2>2, ReceiverEffect
       DEF Looks, Refuses, Swaps, Stores, Readies, Queues, Establishes
<1> QED
  BY <1>f, <1>h, <1>w, <1>1, <1>2, <1>3, <1>4
     DEF LooseTypeOK, LooseProbeType, LooseRunType, ReceiverFrame

\* What the saver reads of a sample.
ReadValue(w) ==
    LET s == Len(record[w]) IN
    IF sample[w][s] = "received" THEN content[w][s] ELSE "missing"

ReadFrame ==
    UNCHANGED <<place, index, acked, resetAt, resetTried, resetFailed, handedOver, counted,
                timedOut, sample,
                content, ready, acks, handshakes, inflight, valid, closed, holding, config,
                stopped, limiterOff>>

\* The saver appends what it reads.
LEMMA ReadEffect ==
    ASSUME LooseTypeOK, NEW w \in Probers, Loose!ReadSample(w)
    PROVE  /\ ReadFrame
           /\ w \in handedOver /\ Len(record[w]) \in Loose!Requests
           /\ ReadValue(w) \in Probers \cup {"unset", "missing"}
           /\ record[w] \in Seq(Probers \cup {"unset", "missing"})
           /\ record' = [record EXCEPT ![w] = Append(record[w], ReadValue(w))]
           /\ record' \in [Probers -> Seq(Probers \cup {"unset", "missing"})]
<1>1. /\ ReadFrame /\ w \in handedOver /\ Len(record[w]) < Loose!RequestCount
      /\ record' = [record EXCEPT ![w] = Append(record[w], ReadValue(w))]
  BY DEF Loose!ReadSample, ReadFrame, ReadValue, Loose!workerVars, Loose!resetVars,
     Loose!probeVars, Loose!registryVars, Loose!runVars
<1>2. /\ record[w] \in Seq(Probers \cup {"unset", "missing"})
      /\ record \in [Probers -> Seq(Probers \cup {"unset", "missing"})]
  BY DEF LooseTypeOK, LooseRunType
<1>3. Len(record[w]) \in Loose!Requests
  BY <1>1, <1>2, LooseRequestFacts DEF Loose!Requests
<1>4. ReadValue(w) \in Probers \cup {"unset", "missing"}
  BY <1>3 DEF ReadValue, LooseTypeOK, LooseProbeType
<1>5. Append(record[w], ReadValue(w)) \in Seq(Probers \cup {"unset", "missing"})
  BY <1>2, <1>4
<1> QED
  BY <1>1, <1>2, <1>3, <1>4, <1>5

\* The shutdown only sets flags that stay.
StopFrame ==
    UNCHANGED <<place, index, acked, resetAt, resetTried, resetFailed, handedOver, counted,
                timedOut, sample,
                content, ready, acks, handshakes, inflight, valid, closed, holding, record,
                config>>

\* Flags stay set.
LEMMA StopEffect ==
    ASSUME LooseTypeOK, Loose!TriggerStop
    PROVE  StopFrame /\ stopped' \in BOOLEAN /\ limiterOff' \in BOOLEAN
           /\ (stopped => stopped')
BY DEF Loose!TriggerStop, StopFrame, LooseTypeOK, LooseRunType, Loose!workerVars,
   Loose!resetVars, Loose!probeVars, Loose!registryVars

LooseStep == Loose!Next \/ UNCHANGED looseVars

\* Whose step it is.
LEMMA LooseStepKinds ==
    ASSUME LooseStep
    PROVE  \/ \E w \in Probers : Loose!Worker(w)
           \/ \E r \in Capturers : Loose!Receiver(r)
           \/ \E w \in Probers : Loose!ReadSample(w)
           \/ Loose!TriggerStop \/ UNCHANGED looseVars
BY DEF LooseStep, Loose!Next

\* Every step keeps the types.
LEMMA LooseTypeStep == ASSUME LooseTypeOK, LooseStep PROVE LooseTypeOK'
<1>1. CASE \E w \in Probers : Loose!ReadSample(w)
  <2>1. PICK w \in Probers : Loose!ReadSample(w)
    BY <1>1
  <2> QED
    BY <2>1, ReadEffect DEF ReadFrame, LooseTypeOK, LooseWorkerType, LooseProbeType, LooseRunType
<1>2. CASE Loose!TriggerStop
  BY <1>2, StopEffect DEF StopFrame, LooseTypeOK, LooseWorkerType, LooseProbeType, LooseRunType
<1>3. CASE UNCHANGED looseVars
  BY <1>3 DEF looseVars, LooseTypeOK, LooseWorkerType, LooseProbeType, LooseRunType
<1> QED
  BY <1>1, <1>2, <1>3, LooseStepKinds, LooseWorkerTypes, LooseReceiverTypes

-----------------------------------------------------------------------------
(* Where the worker goes *)

\* The worker's steps one by one, with what the others leave alone.
LEMMA WorkerKinds ==
    ASSUME NEW w \in Probers, Loose!Worker(w)
    PROVE  \/ Loose!Register(w) \/ Loose!Send(w) \/ Waits(w) \/ Loose!Conclude(w)
           \/ Loose!Advance(w) \/ Loose!FinishFixedProbe(w) \/ Loose!Save(w)
           \/ Loose!Withdraw(w) \/ Loose!ResetTCPConnections(w)
BY DEF Loose!Worker, Waits

\* No worker touches what receivers and the saver own, nor another worker's state.
LEMMA WorkerFrame ==
    ASSUME LooseTypeOK, NEW w \in Probers, Loose!Worker(w)
    PROVE  /\ UNCHANGED <<content, ready, handshakes, valid, holding, record, config,
                          stopped, limiterOff>>
           /\ \A v \in Probers \ {w} :
                 /\ place'[v] = place[v] /\ index'[v] = index[v] /\ acked'[v] = acked[v]
                 /\ resetAt'[v] = resetAt[v] /\ resetTried'[v] = resetTried[v]
                 /\ resetFailed'[v] = resetFailed[v] /\ timedOut'[v] = timedOut[v]
                 /\ counted'[v] = counted[v] /\ sample'[v] = sample[v] /\ acks'[v] = acks[v]
                 /\ (v \in handedOver') <=> (v \in handedOver)
                 /\ Loose!Entry(v)' = Loose!Entry(v)
           /\ closed \subseteq closed'
<1> DEFINE Frame ==
        /\ UNCHANGED <<content, ready, handshakes, valid, holding, record, config, stopped,
                       limiterOff>>
        /\ closed \subseteq closed'
        Own(v) ==
        /\ place'[v] = place[v] /\ index'[v] = index[v] /\ acked'[v] = acked[v]
        /\ resetAt'[v] = resetAt[v] /\ resetTried'[v] = resetTried[v]
        /\ resetFailed'[v] = resetFailed[v] /\ timedOut'[v] = timedOut[v]
        /\ counted'[v] = counted[v] /\ sample'[v] = sample[v] /\ acks'[v] = acks[v]
        /\ (v \in handedOver') <=> (v \in handedOver)
<1>t. /\ place \in [Probers -> OneAtATimePlaces \cup FixedPlaces \cup EveryPlace]
      /\ index \in [Probers -> Loose!Requests]
      /\ acked \in [Probers -> SUBSET Loose!Connections]
      /\ resetAt \in [Probers -> Nat]
      /\ resetTried \in [Probers -> SUBSET Nat]
      /\ resetFailed \in [Probers -> SUBSET Nat]
      /\ timedOut \in [Probers -> SUBSET Loose!Requests]
      /\ counted \in [Probers -> Nat]
      /\ sample \in [Probers -> [Loose!Requests -> {"empty", "sent", "pending", "received"}]]
      /\ acks \in [Probers -> Seq(Loose!Connections)]
  BY DEF LooseTypeOK, LooseWorkerType, LooseProbeType
<1> USE DEF Loose!probeVars, Loose!resetVars, Loose!registryVars, Loose!runVars, Loose!Goto,
            Loose!Drop, Loose!CountDrop
<1>1. Frame
  <2>1. CASE Loose!Register(w)
    BY <2>1 DEF Loose!Register
  <2>2. CASE Loose!Send(w)
    BY <2>2, SendEffect DEF SendFrame, Marks
  <2>3. CASE Waits(w)
    BY <2>3, WaitEffect DEF WaitFrame, Continues, Aborts, Acknowledges,
     FailsACK, Misses, Loose!Miss, TakesACK
  <2>4. CASE Loose!Conclude(w)
    BY <2>4 DEF Loose!Conclude
  <2>5. CASE Loose!Advance(w)
    BY <2>5 DEF Loose!Advance
  <2>6. CASE Loose!FinishFixedProbe(w)
    BY <2>6 DEF Loose!FinishFixedProbe
  <2>7. CASE Loose!Save(w)
    BY <2>7 DEF Loose!Save, Loose!InterruptedSave, Loose!Uncounted
  <2>8. CASE Loose!Withdraw(w)
    BY <2>8 DEF Loose!Withdraw
  <2>9. CASE Loose!ResetTCPConnections(w)
    BY <2>9 DEF Loose!ResetTCPConnections
  <2> QED
    BY <2>1, <2>2, <2>3, <2>4, <2>5, <2>6, <2>7, <2>8, <2>9, WorkerKinds
<1>2. ASSUME NEW v \in Probers \ {w} PROVE Own(v)
  <2>1. CASE Loose!Register(w)
    BY <1>t, <2>1 DEF Loose!Register
  <2>2. CASE Loose!Send(w)
    <3>1. SendFrame /\ (sample' = sample \/ Marks(w))
      BY <2>2, SendEffect
    <3>2. sample'[v] = sample[v]
      BY <1>t, <3>1 DEF Marks
    <3>3. place'[v] = place[v] /\ counted'[v] = counted[v]
      BY <1>t, <2>2, SendEffect
    <3> QED
      BY <3>1, <3>2, <3>3 DEF SendFrame
  <2>3. CASE Waits(w)
    <3>1. WaitFrame /\ timedOut'[v] = timedOut[v]
      <4>1. WaitFrame /\ (timedOut' = timedOut \/ Misses(w))
        BY <2>3, WaitEffect
      <4>2. CASE Misses(w)
        <5>1. timedOut' = [timedOut EXCEPT ![w] = @ \cup {index[w]}]
          BY <4>2 DEF Misses, Loose!Miss
        <5> QED
          BY <1>t, <4>1, <5>1
      <4> QED
        BY <4>1, <4>2
    <3>2. /\ place'[v] = place[v] /\ acked'[v] = acked[v] /\ acks'[v] = acks[v]
          /\ counted'[v] = counted[v]
      <4>1. CASE Continues(w)
        BY <1>t, <4>1 DEF Continues, Misses, Loose!Miss
      <4>2. CASE Aborts(w)
        BY <1>t, <4>2 DEF Aborts
      <4>3. CASE Acknowledges(w)
        BY <1>t, <4>3 DEF Acknowledges, TakesACK
      <4>4. CASE FailsACK(w)
        BY <1>t, <4>4 DEF FailsACK, TakesACK
      <4> QED
        BY <2>3, <4>1, <4>2, <4>3, <4>4, WaitEffect
    <3> QED
      BY <3>1, <3>2 DEF WaitFrame
  <2>4. CASE Loose!Conclude(w)
    BY <1>t, <2>4 DEF Loose!Conclude
  <2>5. CASE Loose!Advance(w)
    BY <1>t, <2>5 DEF Loose!Advance
  <2>6. CASE Loose!FinishFixedProbe(w)
    BY <1>t, <2>6 DEF Loose!FinishFixedProbe
  <2>7. CASE Loose!Save(w)
    BY <1>t, <2>7 DEF Loose!Save, Loose!InterruptedSave, Loose!Uncounted
  <2>8. CASE Loose!Withdraw(w)
    BY <1>t, <2>8 DEF Loose!Withdraw
  <2>9. CASE Loose!ResetTCPConnections(w)
    BY <1>t, <2>9 DEF Loose!ResetTCPConnections
  <2> QED
    BY <2>1, <2>2, <2>3, <2>4, <2>5, <2>6, <2>7, <2>8, <2>9, WorkerKinds
<1>3. \A v \in Probers \ {w} : Loose!Entry(v)' = Loose!Entry(v)
  BY <1>1, <1>2 DEF Loose!Entry, Loose!OneAtATime
<1> QED
  BY <1>1, <1>2, <1>3

\* The ways from place to place.
Route(w, p) ==
    \/ place[w] = "register" /\ p = Loose!FirstPoint
    \/ place[w] = "send" /\ p \in {Loose!AfterRequest(w), "withdraw"}
    \/ place[w] \in WaitPlaces /\ (p \in {place[w], "withdraw"} \/ Follows(w, p))
    \/ place[w] = "conclude" /\ p \in {"advance", "withdraw"}
    \/ place[w] = "advance" /\ index[w] + 1 < Loose!RequestCount
          /\ p = IF Loose!OneAtATime THEN "register" ELSE "flushTop"
    \/ place[w] = "advance" /\ index[w] + 1 >= Loose!RequestCount
          /\ p = IF Loose!OneAtATime THEN "save" ELSE "replies"
    \/ place[w] = "finish" /\ p \in {"save", "withdraw"}
    \/ place[w] = "save" /\ p = "withdraw"
    \/ place[w] = "withdraw" /\ p = IF config.tcp THEN "reset" ELSE "done"
    \/ place[w] = "reset" /\ p = IF Loose!ResetsLeft(w) THEN "reset" ELSE "done"

\* Each worker goes a way of its own.
LEMMA RouteEffect ==
    ASSUME LooseTypeOK, NEW w \in Probers, Loose!Worker(w)
    PROVE  Route(w, place'[w])
<1>t. place \in [Probers -> OneAtATimePlaces \cup FixedPlaces \cup EveryPlace]
  BY DEF LooseTypeOK, LooseWorkerType
<1>i. index[w] + 1 \in Int /\ Loose!RequestCount \in Int
  BY LooseRequestFacts DEF LooseTypeOK, LooseWorkerType
<1> USE DEF Loose!Goto, Loose!Drop, Loose!At
<1>1. CASE Loose!Register(w)
  BY <1>t, <1>1 DEF Loose!Register, Route
<1>2. CASE Loose!Send(w)
  BY <1>t, <1>2, SendEffect DEF Route
<1>3. CASE Waits(w)
  <2>1. place[w] \in WaitPlaces
    BY <1>3, WaitEffect
  <2>2. place'[w] \in {place[w], "withdraw"} \/ Follows(w, place'[w])
    BY <1>t, <1>3, WaitEffect DEF Continues, Aborts, Acknowledges, FailsACK
  <2> QED
    BY <2>1, <2>2 DEF Route
<1>4. CASE Loose!Conclude(w)
  BY <1>t, <1>4 DEF Loose!Conclude, Route
<1>5. CASE Loose!Advance(w)
  BY <1>t, <1>i, <1>5 DEF Loose!Advance, Route
<1>6. CASE Loose!FinishFixedProbe(w)
  BY <1>t, <1>6 DEF Loose!FinishFixedProbe, Route
<1>7. CASE Loose!Save(w)
  BY <1>t, <1>7 DEF Loose!Save, Loose!InterruptedSave, Loose!Uncounted, Route
<1>8. CASE Loose!Withdraw(w)
  BY <1>t, <1>8 DEF Loose!Withdraw, Route
<1>9. CASE Loose!ResetTCPConnections(w)
  BY <1>t, <1>9 DEF Loose!ResetTCPConnections, Route
<1> QED
  BY <1>1, <1>2, <1>3, <1>4, <1>5, <1>6, <1>7, <1>8, <1>9, WorkerKinds

\* What the steps of others leave alone of the workers' state.
OthersFrame ==
    UNCHANGED <<place, index, acked, resetAt, resetTried, resetFailed, handedOver, counted,
                timedOut, inflight,
                config>>

\* A step that is no worker's leaves the workers alone.
LEMMA OtherSteps ==
    ASSUME LooseTypeOK, LooseStep
    PROVE  \/ \E w \in Probers : Loose!Worker(w)
           \/ OthersFrame /\ (stopped => stopped')
<1>1. CASE \E r \in Capturers : Loose!Receiver(r)
  BY <1>1, ReceiverEffect DEF ReceiverFrame, OthersFrame
<1>2. CASE \E w \in Probers : Loose!ReadSample(w)
  BY <1>2, ReadEffect DEF ReadFrame, OthersFrame
<1>3. CASE Loose!TriggerStop
  BY <1>3, StopEffect DEF StopFrame, OthersFrame
<1>4. CASE UNCHANGED looseVars
  BY <1>4 DEF looseVars, OthersFrame
<1> QED
  BY <1>1, <1>2, <1>3, <1>4, LooseStepKinds

\* Workers stay at the places of their configuration.
LEMMA PlaceStep == ASSUME LooseTypeOK, PlaceInv, LooseStep PROVE PlaceInv'
<1>1. CASE \E w \in Probers : Loose!Worker(w)
  <2>1. PICK w \in Probers : Loose!Worker(w)
    BY <1>1
  <2>2. Loose!OneAtATime' = Loose!OneAtATime /\ config' = config
        /\ \A v \in Probers \ {w} : place'[v] = place[v]
    BY <2>1, WorkerFrame DEF Loose!OneAtATime
  <2>3. Route(w, place'[w])
    BY <2>1, RouteEffect
  <2>4. place[w] \in EveryPlace \cup (IF Loose!OneAtATime THEN OneAtATimePlaces
                                      ELSE FixedPlaces)
    BY DEF PlaceInv
  <2>5. place'[w] \in EveryPlace \cup (IF Loose!OneAtATime THEN OneAtATimePlaces
                                       ELSE FixedPlaces)
    BY <2>3, <2>4 DEF Route, Follows, WaitPlaces, EveryPlace, LeavingPlaces, OneAtATimePlaces,
       FixedPlaces, Loose!FirstPoint, Loose!AfterRequest, Loose!AfterInterval
  <2> QED
    BY <2>2, <2>5 DEF PlaceInv
<1>2. CASE OthersFrame
  BY <1>2 DEF OthersFrame, PlaceInv, Loose!OneAtATime
<1> QED
  BY <1>1, <1>2, OtherSteps

-----------------------------------------------------------------------------
(* The samples *)

\* A worker changes a sample only by sending it.
LEMMA SentEffect ==
    ASSUME LooseTypeOK, NEW w \in Probers, Loose!Worker(w)
    PROVE  \/ sample' = sample
           \/ /\ place[w] = "send" /\ place'[w] \in {Loose!AfterRequest(w), "withdraw"}
              /\ Marks(w) /\ UNCHANGED <<index, acked>>
<1>1. CASE Loose!Send(w)
  <2>1. place[w] = "send" /\ place'[w] \in {Loose!AfterRequest(w), "withdraw"}
    BY <1>1, SendEffect, RouteEffect DEF Route, WaitPlaces
  <2> QED
    BY <1>1, <2>1, SendEffect DEF SendFrame
<1>2. CASE Waits(w)
  BY <1>2, WaitEffect DEF WaitFrame
<1>3. CASE ~Loose!Send(w) /\ ~Waits(w)
  BY <1>3, WorkerKinds DEF Loose!Register, Loose!Conclude, Loose!Advance,
     Loose!FinishFixedProbe, Loose!Save, Loose!Withdraw, Loose!ResetTCPConnections,
     Loose!probeVars
<1> QED
  BY <1>1, <1>2, <1>3

\* How a sample may change: sent, swapped by a receiver, stored.
Changes(w, s) ==
    \/ sample'[w][s] = sample[w][s]
    \/ /\ sample[w][s] = "empty" /\ sample'[w][s] = "sent"
       /\ place[w] = "send" /\ s = index[w] /\ index'[w] = index[w]
       /\ place'[w] \in {Loose!AfterRequest(w), "withdraw"}
       /\ config.tcp /\ ~Loose!OpensConnection(s) =>
             Loose!GetConnectionIndex(s) \in ready[w]
    \/ sample[w][s] = "sent" /\ sample'[w][s] = "pending"
    \/ sample[w][s] = "pending" /\ sample'[w][s] = "received"

\* A receiver changes the sample of the reply it holds.
LEMMA ReceivedEffect ==
    ASSUME LooseTypeOK, OwnerInv, NEW r \in Capturers, Loose!Receiver(r),
           NEW w \in Probers, NEW s \in Loose!Requests, sample'[w][s] # sample[w][s]
    PROVE  /\ w = holding[r].entry[1] /\ s = holding[r].seq
           /\ \/ Swaps(r) /\ sample[w][s] = "sent" /\ sample'[w][s] = "pending"
              \/ Stores(r) /\ sample[w][s] = "pending" /\ sample'[w][s] = "received"
<1> DEFINE v == holding[r].entry[1]
           t == holding[r].seq
<1>1. sample' # sample
  OBVIOUS
<1>2. Swaps(r) \/ Stores(r)
  BY <1>1, ReceiverEffect DEF Looks, Refuses, Readies, Queues, Establishes, Counts
<1>3. v \in Probers /\ t \in Loose!Requests
  BY <1>2, HeldFacts DEF Swaps, Stores
<1>4. sample \in [Probers -> [Loose!Requests -> {"empty", "sent", "pending", "received"}]]
  BY DEF LooseTypeOK, LooseProbeType
<1>5. CASE Swaps(r)
  <2>1. /\ sample[v][t] = "sent" /\ sample' = [sample EXCEPT ![v][t] = "pending"]
    BY <1>5 DEF Swaps, Loose!Prober
  <2> HIDE DEF v, t
  <2>2. w = v /\ s = t
    BY <1>3, <1>4, <2>1
  <2>3. sample'[w][s] = "pending"
    BY <1>3, <1>4, <2>1, <2>2
  <2> QED
    BY <1>5, <2>1, <2>2, <2>3 DEF v, t
<1>6. CASE Stores(r)
  <2>1. sample[v][t] = "pending" /\ sample' = [sample EXCEPT ![v][t] = "received"]
    BY <1>6 DEF Stores, Loose!Prober, OwnerInv
  <2> HIDE DEF v, t
  <2>2. w = v /\ s = t
    BY <1>3, <1>4, <2>1
  <2>3. sample'[w][s] = "received"
    BY <1>3, <1>4, <2>1, <2>2
  <2> QED
    BY <1>6, <2>1, <2>2, <2>3 DEF v, t
<1> QED
  BY <1>2, <1>5, <1>6

\* Every step changes samples in one of these ways.
LEMMA SampleStep ==
    ASSUME LooseTypeOK, UnsentInv, OwnerInv, LooseStep
    PROVE  \A w \in Probers, s \in Loose!Requests : Changes(w, s)
<1> SUFFICES ASSUME NEW w \in Probers, NEW s \in Loose!Requests,
                    sample'[w][s] # sample[w][s]
             PROVE  Changes(w, s)
  BY DEF Changes
<1>1. CASE \E v \in Probers : Loose!Worker(v)
  <2>1. PICK v \in Probers : Loose!Worker(v)
    BY <1>1
  <2>2. v = w
    BY <2>1, WorkerFrame
  <2>3. /\ place[w] = "send" /\ place'[w] \in {Loose!AfterRequest(w), "withdraw"}
        /\ Marks(w) /\ UNCHANGED index
    BY <2>1, <2>2, SentEffect
  <2>4. sample' = [sample EXCEPT ![w][index[w]] = "sent"]
    BY <2>3 DEF Marks
  <2>5. /\ sample \in [Probers -> [Loose!Requests -> {"empty", "sent", "pending", "received"}]]
        /\ index[w] \in Loose!Requests
    BY DEF LooseTypeOK, LooseProbeType, LooseWorkerType
  <2>6. s = index[w] /\ sample'[w][s] = "sent"
    BY <2>4, <2>5
  <2>7. sample[w][s] = "empty"
    BY <2>3, <2>6 DEF UnsentInv
  <2> QED
    BY <2>3, <2>6, <2>7 DEF Changes, Marks
<1>2. CASE \E r \in Capturers : Loose!Receiver(r)
  BY <1>2, ReceivedEffect DEF Changes
<1>3. CASE \E v \in Probers : Loose!ReadSample(v)
  BY <1>3, ReadEffect DEF ReadFrame
<1>4. CASE Loose!TriggerStop
  BY <1>4, StopEffect DEF StopFrame
<1> QED
  BY <1>1, <1>2, <1>3, <1>4, LooseStepKinds DEF looseVars

\* The loop variable moves on to the next request, from "advance".
LEMMA IndexEffect ==
    ASSUME LooseTypeOK, NEW w \in Probers, Loose!Worker(w)
    PROVE  \/ index'[w] = index[w]
           \/ /\ place[w] = "advance" /\ index'[w] = index[w] + 1
              /\ index[w] + 1 < Loose!RequestCount /\ sample' = sample
<1>t. index \in [Probers -> Loose!Requests]
  BY DEF LooseTypeOK, LooseWorkerType
<1>1. CASE Loose!Advance(w)
  BY <1>t, <1>1 DEF Loose!Advance, Loose!At, Loose!probeVars
<1>2. CASE Loose!Send(w)
  BY <1>2, SendEffect DEF SendFrame
<1>3. CASE Waits(w)
  BY <1>3, WaitEffect DEF WaitFrame
<1>4. CASE ~Loose!Advance(w) /\ ~Loose!Send(w) /\ ~Waits(w)
  BY <1>4, WorkerKinds DEF Loose!Register, Loose!Conclude, Loose!FinishFixedProbe,
     Loose!Save, Loose!Withdraw, Loose!ResetTCPConnections
<1> QED
  BY <1>1, <1>2, <1>3, <1>4

\* Other steps leave places and loop variables alone, so that one worker has moved.
LEMMA Movers ==
    ASSUME LooseTypeOK, LooseStep, NEW w \in Probers
    PROVE  \/ /\ Loose!Worker(w) /\ Route(w, place'[w])
              /\ \/ index'[w] = index[w]
                 \/ /\ place[w] = "advance" /\ index'[w] = index[w] + 1
                    /\ index[w] + 1 < Loose!RequestCount /\ sample' = sample
           \/ place'[w] = place[w] /\ index'[w] = index[w]
BY OtherSteps, WorkerFrame, RouteEffect, IndexEffect DEF OthersFrame

\* Nothing after the loop variable is sent.
LEMMA UnsentStep == ASSUME LooseTypeOK, UnsentInv, OwnerInv, LooseStep PROVE UnsentInv'
<1> SUFFICES ASSUME NEW w \in Probers
             PROVE  /\ \A s \in Loose!Requests : s > index'[w] => sample'[w][s] = "empty"
                    /\ place'[w] \in {"register", "flushTop", "send"} =>
                          sample'[w][index'[w]] = "empty"
  BY DEF UnsentInv
<1>t. /\ index[w] \in Loose!Requests /\ index'[w] \in Loose!Requests
      /\ \A s \in Loose!Requests : s \in Int
  BY LooseTypeStep, LooseRequestFacts DEF LooseTypeOK, LooseWorkerType
<1>u. /\ \A s \in Loose!Requests : s > index[w] => sample[w][s] = "empty"
      /\ place[w] \in {"register", "flushTop", "send"} => sample[w][index[w]] = "empty"
  BY DEF UnsentInv
<1>c. \A s \in Loose!Requests : Changes(w, s)
  BY SampleStep
<1>e. \A s \in Loose!Requests : sample[w][s] = "empty" /\ sample'[w][s] # "empty" =>
          /\ place[w] = "send" /\ s = index[w] /\ index'[w] = index[w]
          /\ place'[w] \in {Loose!AfterRequest(w), "withdraw"}
  BY <1>c DEF Changes
<1>a. Loose!AfterRequest(w) \in {"reply", "interval", "handshakes", "advance"}
  BY DEF Loose!AfterRequest, Loose!AfterInterval
<1>1. CASE index'[w] = index[w]
  <2>1. \A s \in Loose!Requests : s > index'[w] => sample'[w][s] = "empty"
    BY <1>1, <1>t, <1>u, <1>e
  <2>2. ASSUME place'[w] \in {"register", "flushTop", "send"}
        PROVE  place[w] \in {"register", "flushTop", "send", "advance"}
    BY <2>2, Movers, <1>a DEF Route, WaitPlaces, Follows, Loose!AfterInterval
  <2>3. ASSUME place'[w] \in {"register", "flushTop", "send"}, place[w] = "advance"
        PROVE  FALSE
    <3>1. Loose!Worker(w) /\ Loose!Advance(w)
      <4>1. Loose!Worker(w)
        BY <2>3, Movers
      <4> QED
        BY <4>1, <2>3, WorkerKinds, WaitEffect, SendEffect
           DEF Loose!Register, Loose!Conclude, Loose!FinishFixedProbe, WaitPlaces,
               Loose!Save, Loose!Withdraw, Loose!ResetTCPConnections, Loose!At
    <3>2. index \in [Probers -> Loose!Requests]
      BY DEF LooseTypeOK, LooseWorkerType
    <3>3. place \in [Probers -> OneAtATimePlaces \cup FixedPlaces \cup EveryPlace]
      BY DEF LooseTypeOK, LooseWorkerType
    <3> QED
      BY <3>1, <3>2, <3>3, <1>1, <1>t, <2>3 DEF Loose!Advance, Loose!Goto
  <2> QED
    BY <2>1, <2>2, <2>3, <1>1, <1>t, <1>u, <1>e, <1>a
<1>2. CASE index'[w] = index[w] + 1 /\ place[w] = "advance"
  <2>1. \A s \in Loose!Requests : s >= index'[w] => sample'[w][s] = "empty"
    BY <1>2, <1>t, <1>u, <1>e
  <2> QED
    BY <2>1, <1>t
<1> QED
  BY <1>1, <1>2, Movers

-----------------------------------------------------------------------------
(* The receivers *)

\* Only receivers change what receivers hold, and then no swapped sample.
LEMMA HoldingKept ==
    ASSUME LooseTypeOK, UnsentInv, LooseStep, ~ \E r \in Capturers : Loose!Receiver(r)
    PROVE  /\ holding' = holding /\ UNCHANGED <<content, ready, handshakes, valid, config>>
           /\ \A w \in Probers, s \in Loose!Requests :
                 \/ sample'[w][s] = sample[w][s]
                 \/ sample[w][s] = "empty" /\ sample'[w][s] = "sent"
<1>1. CASE \E v \in Probers : Loose!Worker(v)
  <2>1. PICK v \in Probers : Loose!Worker(v)
    BY <1>1
  <2>2. holding' = holding /\ UNCHANGED <<content, ready, handshakes, valid, config>>
    BY <2>1, WorkerFrame
  <2>3. CASE sample' = sample
    BY <2>2, <2>3
  <2>4. CASE place[v] = "send" /\ Marks(v)
    <3>1. /\ sample \in [Probers -> [Loose!Requests -> {"empty", "sent", "pending", "received"}]]
          /\ index[v] \in Loose!Requests
      BY DEF LooseTypeOK, LooseProbeType, LooseWorkerType
    <3>2. sample[v][index[v]] = "empty"
      BY <2>4 DEF UnsentInv
    <3>3. sample' = [sample EXCEPT ![v][index[v]] = "sent"]
      BY <2>4 DEF Marks
    <3> QED
      BY <2>2, <3>1, <3>2, <3>3
  <2> QED
    BY <2>1, <2>3, <2>4, SentEffect
<1>2. CASE \E v \in Probers : Loose!ReadSample(v)
  BY <1>2, ReadEffect DEF ReadFrame
<1>3. CASE Loose!TriggerStop
  BY <1>3, StopEffect DEF StopFrame
<1>4. CASE UNCHANGED looseVars
  BY <1>4 DEF looseVars
<1> QED
  BY <1>1, <1>2, <1>3, <1>4, LooseStepKinds

\* The configuration never changes.
LEMMA ConfigKept ==
    ASSUME LooseTypeOK, LooseStep
    PROVE  /\ config' = config /\ (Loose!OneAtATime' <=> Loose!OneAtATime)
           /\ (Loose!InterProtocol' <=> Loose!InterProtocol)
BY OtherSteps, WorkerFrame DEF OthersFrame, Loose!OneAtATime, Loose!InterProtocol

\* What one receiver has of OwnerInv.
Owner(r) ==
    LET w == holding[r].entry[1]  s == holding[r].seq IN
    /\ holding[r].step # "idle" =>
          /\ Loose!OneAtATime => holding[r].entry[2] = s
          /\ s \in config.ports => holding[r].from = w
    /\ holding[r].step = "store" => sample[w][s] = "pending"
    /\ holding[r].step \in StoredSteps => sample[w][s] = "received"
    /\ holding[r].step \in {"ready", "queue", "handshake"} =>
          config.tcp /\ Loose!OpensConnection(s)

Owns(r, w, s) == Holds(r, OwnerSteps, w, s)

\* OwnerInv receiver by receiver.
LEMMA OwnerParts ==
    OwnerInv <=> /\ \A r \in Capturers : Owner(r)
                 /\ \A r, q \in Capturers :
                       Owns(r, holding[r].entry[1], holding[r].seq)
                       /\ Owns(q, holding[r].entry[1], holding[r].seq) => q = r
BY DEF OwnerInv, Owner, Owns, Holds

\* The same for the next state.
LEMMA OwnerPartsPrimed ==
    ASSUME \A r \in Capturers : Owner(r)',
           \A p, q \in Capturers : \A v, t : Owns(p, v, t)' /\ Owns(q, v, t)' => q = p
    PROVE  OwnerInv'
<1> SUFFICES ASSUME NEW r \in Capturers
             PROVE  Owner(r)' /\ \A q \in Capturers :
                        holding'[r].step \in OwnerSteps =>
                        (Holds(q, OwnerSteps, holding[r].entry[1], holding[r].seq)' => q = r)
  BY DEF OwnerInv, Owner
<1>1. ASSUME NEW q \in Capturers, holding'[r].step \in OwnerSteps,
             Holds(q, OwnerSteps, holding[r].entry[1], holding[r].seq)'
      PROVE  q = r
  <2>1. PICK v, t : v = holding'[r].entry[1] /\ t = holding'[r].seq
    OBVIOUS
  <2>2. Owns(r, v, t)' /\ Owns(q, v, t)'
    BY <1>1, <2>1 DEF Owns, Holds
  <2> QED
    BY <2>2
<1>2. Owner(r)'
  OBVIOUS
<1> QED
  BY <1>1, <1>2

\* A receiver that owns a sample keeps others from swapping it.
LEMMA OwnedSample ==
    ASSUME OwnerInv, NEW r \in Capturers, holding[r].step \in OwnerSteps
    PROVE  sample[holding[r].entry[1]][holding[r].seq] \in {"pending", "received"}
BY DEF OwnerInv, OwnerSteps

\* What a receiver does to its own reply.
LEMMA OwnReply ==
    ASSUME LooseTypeOK, OwnerInv, NEW r \in Capturers, Loose!Receiver(r)
    PROVE  /\ \A q \in Capturers \ {r} : holding'[q] = holding[q]
           /\ Looks(r) \/ /\ holding[r].step # "idle"
                          /\ \/ holding'[r].step = "idle"
                             \/ /\ holding'[r].entry = holding[r].entry
                                /\ holding'[r].seq = holding[r].seq
                                /\ holding'[r].from = holding[r].from
           /\ holding'[r].step \in OwnerSteps => Swaps(r) \/ holding[r].step \in OwnerSteps
           /\ holding'[r].step = "store" => Swaps(r)
           /\ holding'[r].step \in StoredSteps =>
                 Stores(r) \/ (holding[r].step \in StoredSteps /\ sample' = sample)
           /\ holding'[r].step \in {"ready", "queue", "handshake"} =>
                 \/ holding[r].step \in {"ready", "queue"}
                 \/ Stores(r) /\ config.tcp /\ Loose!OpensConnection(holding[r].seq)
<1> USE DEF OwnerSteps, StoredSteps
<1>1. CASE Looks(r)
  BY <1>1, LookupHeld DEF Looks
<1>2. CASE Refuses(r) \/ Counts(r)
  BY <1>2, FinishHeld DEF Refuses, Counts
<1>3. CASE Swaps(r)
  BY <1>3, StepHeld DEF Swaps
<1>4. CASE Stores(r)
  BY <1>4, StepHeld DEF Stores
<1>5. CASE Readies(r)
  BY <1>5, StepHeld DEF Readies
<1>6. CASE Queues(r)
  BY <1>6, StepHeld DEF Queues
<1>7. CASE Establishes(r)
  BY <1>7, StepHeld DEF Establishes
<1> QED
  BY <1>1, <1>2, <1>3, <1>4, <1>5, <1>6, <1>7, ReceiverEffect

\* A swapped sample keeps its one owner.
LEMMA OwnerStep == ASSUME LooseTypeOK, UnsentInv, OwnerInv, LooseStep PROVE OwnerInv'
<1>c. config' = config /\ (Loose!OneAtATime' <=> Loose!OneAtATime)
  BY ConfigKept
<1>1. CASE ~ \E r \in Capturers : Loose!Receiver(r)
  <2>1. /\ holding' = holding
        /\ \A w \in Probers, s \in Loose!Requests :
                 \/ sample'[w][s] = sample[w][s]
                 \/ sample[w][s] = "empty" /\ sample'[w][s] = "sent"
    BY <1>1, HoldingKept
  <2>2. \A r \in Capturers : holding[r].step \in OwnerSteps =>
            sample'[holding[r].entry[1]][holding[r].seq]
                = sample[holding[r].entry[1]][holding[r].seq]
    BY <2>1, OwnedSample, HeldFacts DEF OwnerSteps, StoredSteps
  <2>3. ASSUME NEW r \in Capturers PROVE Owner(r)'
    BY <2>1, <2>2, <1>c, OwnerParts DEF Owner, OwnerSteps, StoredSteps
  <2> QED
    <3>1. \A p, q \in Capturers : \A v, t : Owns(p, v, t)' /\ Owns(q, v, t)' => q = p
      BY <2>1, OwnerParts DEF Owns, Holds
    <3> QED
      BY <2>3, <3>1, OwnerPartsPrimed
<1>2. CASE \E r \in Capturers : Loose!Receiver(r)
  <2>1. PICK r \in Capturers : Loose!Receiver(r)
    BY <1>2
  <2> DEFINE w == holding[r].entry[1]
             s == holding[r].seq
  <2>r. /\ \A q \in Capturers \ {r} : holding'[q] = holding[q]
        /\ Looks(r) \/ /\ holding[r].step # "idle"
                       /\ \/ holding'[r].step = "idle"
                          \/ /\ holding'[r].entry = holding[r].entry
                             /\ holding'[r].seq = holding[r].seq
                             /\ holding'[r].from = holding[r].from
        /\ holding'[r].step \in OwnerSteps => Swaps(r) \/ holding[r].step \in OwnerSteps
        /\ holding'[r].step = "store" => Swaps(r)
        /\ holding'[r].step \in StoredSteps =>
              Stores(r) \/ (holding[r].step \in StoredSteps /\ sample' = sample)
        /\ holding'[r].step \in {"ready", "queue", "handshake"} =>
              \/ holding[r].step \in {"ready", "queue"}
              \/ Stores(r) /\ config.tcp /\ Loose!OpensConnection(holding[r].seq)
    BY <2>1, OwnReply
  <2>t. Looks(r) => holding'[r].step = "fill"
    BY LookupHeld DEF Looks
  <2>s. \A v \in Probers, t \in Loose!Requests : sample'[v][t] # sample[v][t] =>
            /\ v = w /\ t = s
            /\ \/ Swaps(r) /\ sample[v][t] = "sent" /\ sample'[v][t] = "pending"
               \/ Stores(r) /\ sample[v][t] = "pending" /\ sample'[v][t] = "received"
    BY <2>1, ReceivedEffect
  <2>o. \A q \in Capturers : Owner(q)
    BY OwnerParts
  <2>2. ASSUME NEW q \in Capturers \ {r} PROVE Owner(q)'
    <3>1. holding[q].step \in OwnerSteps =>
              sample'[holding[q].entry[1]][holding[q].seq]
                  = sample[holding[q].entry[1]][holding[q].seq]
      <4> SUFFICES ASSUME holding[q].step \in OwnerSteps,
                          sample'[holding[q].entry[1]][holding[q].seq]
                              # sample[holding[q].entry[1]][holding[q].seq]
                   PROVE  FALSE
        OBVIOUS
      <4>1. holding[q].entry[1] \in Probers /\ holding[q].seq \in Loose!Requests
        BY HeldFacts DEF OwnerSteps, StoredSteps
      <4>2. holding[q].entry[1] = w /\ holding[q].seq = s /\ Stores(r)
        BY <4>1, <2>s, OwnedSample
      <4>3. Holds(r, OwnerSteps, w, s)
        BY <4>2 DEF Stores, Holds, OwnerSteps
      <4> QED
        BY <4>2, <4>3 DEF OwnerInv
    <3> QED
      BY <3>1, <2>2, <2>r, <2>o, <1>c DEF Owner, OwnerSteps, StoredSteps
  <2>3. Owner(r)'
    <3>1. CASE Looks(r)
      BY <3>1, <2>t, <1>c, LookupHeld DEF Looks, Owner, StoredSteps
    <3>2. CASE holding'[r].step = "idle"
      BY <3>2 DEF Owner, StoredSteps
    <3>3. CASE ~Looks(r) /\ holding'[r].step # "idle"
      <4>1. /\ holding'[r].entry = holding[r].entry
            /\ holding'[r].seq = holding[r].seq
            /\ holding'[r].from = holding[r].from
            /\ holding[r].step # "idle" /\ w \in Probers /\ s \in Loose!Requests
        BY <3>3, <2>r, HeldFacts
      <4>2. sample \in [Probers -> [Loose!Requests -> {"empty", "sent", "pending", "received"}]]
        BY DEF LooseTypeOK, LooseProbeType
      <4>3. Swaps(r) => sample'[w][s] = "pending"
        BY <4>1, <4>2 DEF Swaps, Loose!Prober
      <4>4. Stores(r) => sample'[w][s] = "received"
        BY <4>1, <4>2 DEF Stores, Loose!Prober
      <4>5. holding'[r].step = "store" => sample'[w][s] = "pending"
        BY <4>3, <2>r
      <4>6. holding'[r].step \in StoredSteps => sample'[w][s] = "received"
        BY <4>4, <2>r, <2>o DEF Owner
      <4>7. holding'[r].step \in {"ready", "queue", "handshake"} =>
                config.tcp /\ Loose!OpensConnection(s)
        BY <2>r, <2>o DEF Owner
      <4> HIDE DEF w, s
      <4>8. Owner(r)
        BY <2>o
      <4> QED
        BY <4>1, <4>5, <4>6, <4>7, <4>8, <1>c DEF Owner, w, s, Loose!OpensConnection
    <3> QED
      BY <3>1, <3>2, <3>3
  <2>4. ASSUME NEW p \in Capturers, NEW q \in Capturers, NEW v, NEW t,
               Owns(p, v, t)', Owns(q, v, t)'
        PROVE  q = p
    <3>1. ASSUME NEW a \in Capturers, a # r, Owns(a, v, t)' PROVE Owns(a, v, t)
      BY <3>1, <2>r DEF Owns, Holds
    <3>2. ASSUME Owns(r, v, t)', ~Swaps(r) PROVE Owns(r, v, t)
      BY <3>2, <2>r, <2>t DEF Owns, Holds, OwnerSteps, StoredSteps
    <3>3. ASSUME Owns(r, v, t)', Swaps(r), NEW a \in Capturers, a # r, Owns(a, v, t)'
          PROVE  FALSE
      <4>1. v = w /\ t = s
        BY <3>3, <2>r, <2>t DEF Owns, Holds, Swaps, OwnerSteps, StoredSteps, Looks, Loose!Lookup,
           Loose!Idle
      <4>2. sample[v][t] = "sent"
        BY <3>3, <4>1 DEF Swaps, Loose!Prober
      <4> QED
        BY <3>1, <3>3, <4>2, OwnedSample DEF Owns, Holds
    <3>4. ASSUME Owns(p, v, t), Owns(q, v, t) PROVE q = p
      BY <3>4, OwnerParts DEF Owns, Holds
    <3> QED
      BY <2>4, <3>1, <3>2, <3>3, <3>4
  <2>5. \A p \in Capturers : Owner(p)'
    BY <2>2, <2>3
  <2>6. \A p, q \in Capturers : \A v, t : Owns(p, v, t)' /\ Owns(q, v, t)' => q = p
    BY <2>4
  <2> QED
    BY <2>5, <2>6, OwnerPartsPrimed
<1> QED
  BY <1>1, <1>2

-----------------------------------------------------------------------------
(* The record *)

\* Each place has its action.
LEMMA ActionAt ==
    ASSUME NEW w \in Probers, Loose!Worker(w)
    PROVE  /\ place[w] = "register" => Loose!Register(w)
           /\ place[w] = "send" => Loose!Send(w)
           /\ place[w] \in WaitPlaces => Waits(w)
           /\ place[w] = "conclude" => Loose!Conclude(w)
           /\ place[w] = "advance" => Loose!Advance(w)
           /\ place[w] = "finish" => Loose!FinishFixedProbe(w)
           /\ place[w] = "save" => Loose!Save(w)
           /\ place[w] = "withdraw" => Loose!Withdraw(w)
           /\ place[w] = "reset" => Loose!ResetTCPConnections(w)
           /\ place[w] \in {"register", "send", "conclude", "advance", "finish", "save",
                            "withdraw", "reset"} \cup WaitPlaces
BY WorkerKinds, WaitEffect, SendEffect
   DEF Loose!Register, Loose!Conclude, Loose!Advance, Loose!FinishFixedProbe, Loose!Save,
       Loose!Withdraw, Loose!ResetTCPConnections, Loose!At, WaitPlaces

\* A probe is handed over from "save", and never taken back.
LEMMA HandedEffect ==
    ASSUME LooseTypeOK, LooseStep
    PROVE  /\ handedOver \subseteq handedOver'
           /\ \A w \in handedOver' \ handedOver :
                 w \in Probers /\ place[w] = "save" /\ place'[w] = "withdraw" /\ Loose!Save(w)
<1>1. CASE \E w \in Probers : Loose!Worker(w)
  <2>1. PICK w \in Probers : Loose!Worker(w)
    BY <1>1
  <2>2. place \in [Probers -> OneAtATimePlaces \cup FixedPlaces \cup EveryPlace]
    BY DEF LooseTypeOK, LooseWorkerType
  <2>3. CASE place[w] = "save"
    BY <2>1, <2>2, <2>3, ActionAt DEF Loose!Save, Loose!Goto, Loose!InterruptedSave,
       Loose!Uncounted, Loose!Drop
  <2>4. CASE place[w] # "save"
    <3>1. handedOver' = handedOver
      BY <2>1, <2>4, WorkerKinds, WaitEffect, SendEffect
         DEF Loose!Register, Loose!Conclude, Loose!Advance, Loose!FinishFixedProbe,
             Loose!Save, Loose!Withdraw, Loose!ResetTCPConnections, Loose!At, WaitFrame,
             SendFrame
    <3> QED
      BY <3>1
  <2> QED
    BY <2>3, <2>4
<1>2. CASE OthersFrame
  BY <1>2 DEF OthersFrame
<1> QED
  BY <1>1, <1>2, OtherSteps

\* A received sample stays received.
LEMMA ReceivedStays ==
    ASSUME LooseTypeOK, UnsentInv, OwnerInv, LooseStep
    PROVE  \A w \in Probers, s \in Loose!Requests :
              sample[w][s] = "received" => sample'[w][s] = "received"
BY SampleStep DEF Changes

\* Received samples hold an answer.
LEMMA ContentStep ==
    ASSUME LooseTypeOK, UnsentInv, OwnerInv, ContentInv, LooseStep
    PROVE  ContentInv'
<1> SUFFICES ASSUME NEW w \in Probers, NEW s \in Loose!Requests,
                    sample'[w][s] = "received"
             PROVE  content'[w][s] \in Probers /\ (s \in config.ports => content'[w][s] = w)
  BY ConfigKept DEF ContentInv
<1>1. CASE \E r \in Capturers : Stores(r) /\ Loose!Receiver(r)
                                /\ w = holding[r].entry[1] /\ s = holding[r].seq
  <2>1. PICK r \in Capturers : Stores(r) /\ w = holding[r].entry[1] /\ s = holding[r].seq
    BY <1>1
  <2>2. holding[r].from \in Probers /\ (s \in config.ports => holding[r].from = w)
    BY <2>1, HeldFacts DEF Stores, OwnerInv
  <2>3. content \in [Probers -> [Loose!Requests -> Probers \cup {"unset"}]]
    BY DEF LooseTypeOK, LooseProbeType
  <2>4. content'[w][s] = holding[r].from
    BY <2>1, <2>3 DEF Stores, Loose!Prober
  <2> QED
    BY <2>2, <2>4
<1>2. CASE ~ \E r \in Capturers : Stores(r) /\ Loose!Receiver(r)
                                  /\ w = holding[r].entry[1] /\ s = holding[r].seq
  <2>1. content'[w][s] = content[w][s]
    <3>1. CASE \E r \in Capturers : Loose!Receiver(r)
      <4>1. PICK r \in Capturers : Loose!Receiver(r)
        BY <3>1
      <4>2. CASE Stores(r)
        <5>1. w # holding[r].entry[1] \/ s # holding[r].seq
          BY <1>2, <4>1, <4>2
        <5>2. holding[r].entry[1] \in Probers /\ holding[r].seq \in Loose!Requests
          BY <4>2, HeldFacts DEF Stores
        <5>3. content \in [Probers -> [Loose!Requests -> Probers \cup {"unset"}]]
          BY DEF LooseTypeOK, LooseProbeType
        <5> QED
          BY <4>2, <5>1, <5>2, <5>3 DEF Stores, Loose!Prober
      <4> QED
        BY <4>1, <4>2, ReceiverEffect DEF Looks, Refuses, Swaps, Readies, Queues, Establishes,
           Counts
    <3>2. CASE ~ \E r \in Capturers : Loose!Receiver(r)
      BY <3>2, HoldingKept
    <3> QED
      BY <3>1, <3>2
  <2>2. sample[w][s] = "received"
    <3>1. CASE \E r \in Capturers : Loose!Receiver(r)
      BY <1>2, <3>1, ReceivedEffect
    <3>2. CASE ~ \E r \in Capturers : Loose!Receiver(r)
      BY <3>2, HoldingKept
    <3> QED
      BY <3>1, <3>2
  <2> QED
    BY <2>1, <2>2 DEF ContentInv
<1> QED
  BY <1>1, <1>2

\* Only the saver changes a record.
LEMMA RecordKept ==
    ASSUME LooseTypeOK, LooseStep, NEW w \in Probers
    PROVE  record'[w] = record[w] \/ Loose!ReadSample(w)
<1>1. CASE \E v \in Probers : Loose!Worker(v)
  BY <1>1, WorkerFrame
<1>2. CASE \E r \in Capturers : Loose!Receiver(r)
  BY <1>2, ReceiverEffect DEF ReceiverFrame
<1>3. CASE \E v \in Probers : Loose!ReadSample(v)
  <2>1. PICK v \in Probers : Loose!ReadSample(v)
    BY <1>3
  <2>2. record \in [Probers -> Seq(Probers \cup {"unset", "missing"})]
    BY DEF LooseTypeOK, LooseRunType
  <2> QED
    BY <2>1, <2>2, ReadEffect
<1>4. CASE Loose!TriggerStop
  BY <1>4, StopEffect DEF StopFrame
<1> QED
  BY <1>1, <1>2, <1>3, <1>4, LooseStepKinds DEF looseVars

\* A value that is read is one more element of the record.
LEMMA ReadRecord ==
    ASSUME LooseTypeOK, NEW w \in Probers, Loose!ReadSample(w)
    PROVE  /\ Len(record'[w]) = Len(record[w]) + 1
           /\ DOMAIN record[w] = 1 .. Len(record[w])
           /\ DOMAIN record'[w] = 1 .. Len(record[w]) + 1
           /\ \A i \in DOMAIN record[w] : record'[w][i] = record[w][i]
           /\ record'[w][Len(record[w]) + 1] = ReadValue(w)
           /\ Len(record[w]) \in Nat /\ Len(record[w]) \in Loose!Requests
           /\ ReadFrame
<1>1. /\ record[w] \in Seq(Probers \cup {"unset", "missing"})
      /\ ReadValue(w) \in Probers \cup {"unset", "missing"}
      /\ record'[w] = Append(record[w], ReadValue(w))
      /\ Len(record[w]) \in Loose!Requests /\ ReadFrame
  <2>1. record \in [Probers -> Seq(Probers \cup {"unset", "missing"})]
    BY DEF LooseTypeOK, LooseRunType
  <2> QED
    BY <2>1, ReadEffect
<1> QED
  BY <1>1

\* Records are whole.
LEMMA RecordStep ==
    ASSUME LooseTypeOK, UnsentInv, OwnerInv, ContentInv, RecordInv, LooseStep
    PROVE  RecordInv'
<1>u. "unset" \notin Probers /\ "missing" \notin Probers
  BY LooseProbeAssumption
<1>c. config' = config
  BY ConfigKept
<1> SUFFICES ASSUME NEW w \in Probers
             PROVE  /\ \A i \in DOMAIN record'[w] :
                          /\ record'[w][i] # "unset"
                          /\ i - 1 \in config.ports => record'[w][i] \in {w, "missing"}
                    /\ Len(record'[w]) <= Loose!RequestCount
                    /\ record'[w] # <<>> => w \in handedOver'
  BY <1>c DEF RecordInv, RecordWhole
<1>1. CASE record'[w] = record[w]
  BY <1>1, HandedEffect DEF RecordInv, RecordWhole
<1>2. CASE Loose!ReadSample(w)
  <2> DEFINE n == Len(record[w])
  <2>1. /\ Len(record'[w]) = n + 1 /\ n \in Nat /\ n \in Loose!Requests
        /\ DOMAIN record[w] = 1 .. n /\ DOMAIN record'[w] = 1 .. n + 1
        /\ \A i \in DOMAIN record[w] : record'[w][i] = record[w][i]
        /\ record'[w][n + 1] = ReadValue(w)
    BY <1>2, ReadRecord
  <2>2. /\ ReadValue(w) # "unset"
        /\ n \in config.ports => ReadValue(w) \in {w, "missing"}
    BY <2>1, <1>u DEF ReadValue, ContentInv
  <2>3. w \in handedOver /\ handedOver' = handedOver
    BY <1>2, ReadEffect DEF ReadFrame
  <2>4. n + 1 <= Loose!RequestCount
    BY <2>1, LooseRequestFacts DEF Loose!Requests
  <2> HIDE DEF n
  <2>5. \A i \in 1 .. n + 1 : i \in 1 .. n \/ i = n + 1
    BY <2>1
  <2>6. n + 1 - 1 = n
    BY <2>1
  <2> QED
    BY <2>1, <2>2, <2>3, <2>4, <2>5, <2>6 DEF RecordInv, RecordWhole
<1> QED
  BY <1>1, <1>2, RecordKept

\* RT requests before the loop variable are answered.
LEMMA AnsweredStep ==
    ASSUME LooseTypeOK, PlaceInv, UnsentInv, OwnerInv, AnsweredInv, LooseStep
    PROVE  AnsweredInv'
<1> SUFFICES ASSUME config.kind = "rt", NEW w \in Probers
             PROVE  /\ \A s \in Loose!Requests : s < index'[w] => sample'[w][s] = "received"
                    /\ place'[w] \in {"advance", "save"} =>
                          sample'[w][index'[w]] = "received"
                    /\ place'[w] = "save" \/ w \in handedOver' =>
                          \A s \in Loose!Requests : sample'[w][s] = "received"
  BY ConfigKept DEF AnsweredInv
<1>t. /\ index[w] \in Loose!Requests /\ index'[w] \in Loose!Requests
      /\ \A s \in Loose!Requests : s \in Nat /\ s < Loose!RequestCount
      /\ Loose!RequestCount \in Nat
  BY LooseTypeStep, LooseRequestFacts DEF LooseTypeOK, LooseWorkerType, Loose!Requests
<1>i. /\ \A s \in Loose!Requests : s < index[w] => sample[w][s] = "received"
      /\ place[w] \in {"advance", "save"} => sample[w][index[w]] = "received"
      /\ place[w] = "save" \/ w \in handedOver =>
            \A s \in Loose!Requests : sample[w][s] = "received"
  BY DEF AnsweredInv
<1>o. Loose!OneAtATime /\ ~Loose!InterProtocol /\ place[w] \in EveryPlace \cup OneAtATimePlaces
  BY DEF PlaceInv, Loose!OneAtATime, Loose!InterProtocol
<1>s. \A s \in Loose!Requests : sample[w][s] = "received" => sample'[w][s] = "received"
  BY ReceivedStays
<1>1. ASSUME place[w] = "conclude", place'[w] = "advance"
      PROVE  sample[w][index[w]] = "received" /\ index'[w] = index[w]
  <2>1. Loose!Conclude(w)
    BY <1>1, Movers, ActionAt
  <2>2. place \in [Probers -> OneAtATimePlaces \cup FixedPlaces \cup EveryPlace]
    BY DEF LooseTypeOK, LooseWorkerType
  <2> QED
    BY <1>1, <1>o, <2>1, <2>2 DEF Loose!Conclude, Loose!Answered, Loose!Drop, Loose!Goto
<1>2. \A s \in Loose!Requests : s < index'[w] => sample'[w][s] = "received"
  <2>1. CASE index'[w] = index[w]
    BY <2>1, <1>i, <1>s
  <2>2. CASE place[w] = "advance" /\ index'[w] = index[w] + 1
    BY <2>2, <1>i, <1>s, <1>t
  <2> QED
    BY <2>1, <2>2, Movers
<1>3. ASSUME place'[w] \in {"advance", "save"} PROVE sample'[w][index'[w]] = "received"
  <2>1. /\ place[w] \in {"conclude", "advance", "save"}
        /\ place[w] = "conclude" => place'[w] = "advance"
        /\ index'[w] = index[w]
    BY <1>3, <1>o, <1>1, <1>t, Movers
       DEF Route, Follows, WaitPlaces, EveryPlace, LeavingPlaces, OneAtATimePlaces,
           Loose!FirstPoint, Loose!AfterRequest
  <2> QED
    BY <2>1, <1>1, <1>i, <1>s, <1>t
<1>4. ASSUME place'[w] = "save" \/ w \in handedOver', NEW s \in Loose!Requests
      PROVE  sample'[w][s] = "received"
  <2>1. CASE place[w] = "save" \/ w \in handedOver
    BY <2>1, <1>i, <1>s
  <2>2. CASE place[w] # "save" /\ w \notin handedOver
    <3>1. place'[w] = "save"
      BY <1>4, <2>2, HandedEffect
    <3>2. place[w] = "advance" /\ index[w] + 1 >= Loose!RequestCount
      BY <3>1, <2>2, <1>o, Movers
         DEF Route, Follows, WaitPlaces, EveryPlace, LeavingPlaces, OneAtATimePlaces,
             Loose!FirstPoint, Loose!AfterRequest
    <3>3. s < index[w] \/ s = index[w]
      BY <3>2, <1>t
    <3> QED
      BY <3>2, <3>3, <1>i, <1>s
  <2> QED
    BY <2>1, <2>2
<1> QED
  BY <1>2, <1>3, <1>4

\* Requests are finitely many, and so are the positions of a record.
LEMMA FiniteRequests ==
    /\ IsFiniteSet(Loose!Requests) /\ IsFiniteSet(1 .. Loose!RequestCount)
    /\ IsFiniteSet(Loose!Connections)
    /\ Cardinality(Loose!Connections) = LooseConnections
<1>1. Loose!RequestCount \in Nat /\ LooseConnections \in Nat \ {0}
  BY LooseRequestFacts
<1>2. IsFiniteSet(0 .. Loose!RequestCount - 1)
  BY <1>1, FS_Interval
<1>3. IsFiniteSet(1 .. Loose!RequestCount)
  BY <1>1, FS_Interval
<1>4. /\ IsFiniteSet(0 .. LooseConnections - 1)
      /\ Cardinality(0 .. LooseConnections - 1) = LooseConnections
  <2>1. LooseConnections - 1 \in Int /\ LooseConnections - 1 - 0 + 1 = LooseConnections
        /\ 0 <= LooseConnections - 1
    BY <1>1
  <2> QED
    BY <2>1, FS_Interval
<1> QED
  BY <1>2, <1>3, <1>4 DEF Loose!Requests, Loose!Connections

\* The module of the probes counts as this one does.
LEMMA SameCardinality == \A S : Loose!Cardinality(S) = Cardinality(S)
BY DEF Loose!Cardinality, Cardinality

\* Sets of requests are compared by inclusion.
LEMMA Larger ==
    ASSUME NEW S, IsFiniteSet(S), NEW T \in SUBSET S
    PROVE  Cardinality(T) \in Nat /\ Cardinality(S) \in Nat /\ Cardinality(T) <= Cardinality(S)
BY FS_Subset, FS_CardinalityType

\* Received requests are positions of a record that is not begun.
LEMMA KeptFresh ==
    ASSUME NEW w \in Probers, record[w] = <<>>
    PROVE  Cardinality(Kept(w)) >= Cardinality(Loose!Received(w))
<1> DEFINE f == [s \in Loose!Received(w) |-> s + 1]
<1>1. IsFiniteSet(Kept(w))
  BY FiniteRequests, FS_Subset DEF Kept
<1>2. \A s \in Loose!Received(w) : s \in Nat /\ s + 1 \in Kept(w)
  <2>1. Len(record[w]) = 0
    OBVIOUS
  <2> SUFFICES ASSUME NEW s \in Loose!Received(w) PROVE s \in Nat /\ s + 1 \in Kept(w)
    OBVIOUS
  <2>2. /\ s \in Nat /\ s + 1 \in 1 .. Loose!RequestCount /\ s + 1 - 1 = s
        /\ ~(s + 1 <= 0) /\ sample[w][s] = "received"
    BY LooseRequestFacts DEF Loose!Received, Loose!Requests
  <2> QED
    BY <2>1, <2>2 DEF Kept
<1>3. f \in Injection(Loose!Received(w), Kept(w))
  BY <1>2 DEF Injection, IsInjective
<1> HIDE DEF f
<1>4. /\ IsFiniteSet(Loose!Received(w))
      /\ Cardinality(Loose!Received(w)) <= Cardinality(Kept(w))
  BY <1>1, <1>3, FS_Injection
<1> QED
  BY <1>1, <1>4, FS_CardinalityType

\* What is kept stays kept.
LEMMA KeptGrows ==
    ASSUME LooseTypeOK, UnsentInv, OwnerInv, ContentInv, LooseStep, NEW w \in Probers
    PROVE  Cardinality(Kept(w)') >= Cardinality(Kept(w))
<1>1. Kept(w) \subseteq Kept(w)'
  <2> SUFFICES ASSUME NEW i \in 1 .. Loose!RequestCount,
                      IF i <= Len(record[w]) THEN record[w][i] # "missing"
                      ELSE sample[w][i - 1] = "received"
               PROVE  IF i <= Len(record'[w]) THEN record'[w][i] # "missing"
                      ELSE sample'[w][i - 1] = "received"
    BY DEF Kept
  <2>1. i \in Nat /\ i >= 1 /\ i - 1 \in Loose!Requests
    BY LooseRequestFacts DEF Loose!Requests
  <2>2. CASE record'[w] = record[w]
    BY <2>1, <2>2, ReceivedStays
  <2>3. CASE Loose!ReadSample(w)
    <3> DEFINE n == Len(record[w])
    <3>1. /\ Len(record'[w]) = n + 1 /\ n \in Nat /\ n \in Loose!Requests
          /\ DOMAIN record[w] = 1 .. n /\ DOMAIN record'[w] = 1 .. n + 1
          /\ \A j \in DOMAIN record[w] : record'[w][j] = record[w][j]
          /\ record'[w][n + 1] = ReadValue(w) /\ ReadFrame
      BY <2>3, ReadRecord
    <3>2. CASE i <= n
      BY <3>1, <3>2, <2>1
    <3>3. CASE i = n + 1
      <4>1. sample[w][n] = "received"
        BY <3>1, <3>3
      <4>2. ReadValue(w) # "missing"
        BY <3>1, <4>1, LooseProbeAssumption DEF ReadValue, ContentInv
      <4> QED
        BY <3>1, <3>3, <4>2
    <3>4. CASE i > n + 1
      BY <3>1, <3>4, <2>1 DEF ReadFrame
    <3> HIDE DEF n
    <3> QED
      BY <3>1, <3>2, <3>3, <3>4, <2>1
  <2> QED
    BY <2>2, <2>3, RecordKept
<1>2. IsFiniteSet(Kept(w)')
  BY FiniteRequests, FS_Subset DEF Kept
<1> QED
  BY <1>1, <1>2, Larger

\* The saver keeps the replies for which a fixed-interval probe was kept.
LEMMA KeptStep ==
    ASSUME LooseTypeOK, PlaceInv, UnsentInv, OwnerInv, ContentInv, RecordInv, KeptInv,
           LooseStep
    PROVE  KeptInv'
<1> SUFFICES ASSUME config.kind = "fixed", NEW w \in Probers,
                    place'[w] = "save" \/ w \in handedOver'
             PROVE  Cardinality(Kept(w)') >= MinimumReplies
  BY ConfigKept DEF KeptInv
<1>n. /\ MinimumReplies \in Nat /\ Cardinality(Kept(w)) \in Nat /\ Cardinality(Kept(w)') \in Nat
      /\ Cardinality(Loose!Received(w)) \in Nat
  <2>1. MinimumReplies \in Nat
    BY LooseProbeAssumption, LooseRequestFacts DEF Loose!RequestCount
  <2>2. IsFiniteSet(Kept(w)) /\ IsFiniteSet(Kept(w)') /\ IsFiniteSet(Loose!Received(w))
    BY FiniteRequests, FS_Subset DEF Kept, Loose!Received
  <2> QED
    BY <2>1, <2>2, FS_CardinalityType
<1>1. CASE place[w] = "save" \/ w \in handedOver
  <2>1. Cardinality(Kept(w)) >= MinimumReplies
    BY <1>1 DEF KeptInv
  <2> QED
    BY <2>1, <1>n, KeptGrows
<1>2. CASE place[w] # "save" /\ w \notin handedOver
  <2>1. place'[w] = "save"
    BY <1>2, HandedEffect
  <2>2. ~Loose!OneAtATime /\ ~Loose!InterProtocol
    BY DEF Loose!OneAtATime, Loose!InterProtocol
  <2>3. place[w] = "finish" /\ Loose!Worker(w)
    <3>1. Loose!Worker(w) /\ Route(w, "save")
      BY <2>1, <1>2, Movers
    <3>2. index[w] + 1 < Loose!RequestCount \/ index[w] + 1 >= Loose!RequestCount
      BY LooseRequestFacts DEF LooseTypeOK, LooseWorkerType
    <3>3. place[w] \in EveryPlace \cup FixedPlaces
      BY <2>2 DEF PlaceInv
    <3> QED
      BY <3>1, <3>3, <2>2, <1>2
         DEF Route, Follows, WaitPlaces, Loose!FirstPoint, Loose!AfterRequest,
             Loose!AfterInterval, EveryPlace, LeavingPlaces, FixedPlaces
  <2>4. Loose!FinishFixedProbe(w)
    BY <2>3, ActionAt
  <2>5. place \in [Probers -> OneAtATimePlaces \cup FixedPlaces \cup EveryPlace]
    BY DEF LooseTypeOK, LooseWorkerType
  <2>6. Cardinality(Loose!Received(w)) >= MinimumReplies
    <3> SUFFICES ASSUME ~(Cardinality(Loose!Received(w)) >= MinimumReplies) PROVE FALSE
      OBVIOUS
    <3>1. Loose!Drop(w)
      BY <2>2, <2>4, SameCardinality DEF Loose!FinishFixedProbe
    <3> QED
      BY <3>1, <2>1, LooseDropType
  <2>7. record[w] = <<>>
    BY <1>2 DEF RecordInv
  <2>8. Cardinality(Kept(w)) >= Cardinality(Loose!Received(w))
    BY <2>7, KeptFresh
  <2> QED
    BY <2>6, <2>8, <1>n, KeptGrows
<1> QED
  BY <1>1, <1>2

-----------------------------------------------------------------------------
(* Counting *)

\* What is settled stays settled, and a reply that is counted becomes so.
LEMMA SettledGrows ==
    ASSUME LooseTypeOK, UnsentInv, OwnerInv, LooseStep, NEW e \in Loose!Entries
    PROVE  /\ Settled(e) \subseteq Settled(e)'
           /\ \A r \in Capturers : Loose!Receiver(r) /\ Counts(r) /\ holding[r].entry = e =>
                 holding[r].seq \in Settled(e)' \ Settled(e)
<1>e. e[1] \in Probers /\ e[2] \in Loose!Requests
  BY EntryFacts
<1>c. Loose!OneAtATime' <=> Loose!OneAtATime
  BY ConfigKept
<1>1. ASSUME NEW s \in Settled(e) PROVE s \in Settled(e)'
  <2>1. /\ s \in Loose!Requests /\ sample[e[1]][s] = "received"
        /\ Loose!OneAtATime => s = e[2]
        /\ \A r \in Capturers : ~Holds(r, StoredSteps, e[1], s)
    BY DEF Settled
  <2>2. sample'[e[1]][s] = "received"
    BY <1>e, <2>1, ReceivedStays
  <2>3. ASSUME NEW q \in Capturers, Holds(q, StoredSteps, e[1], s)' PROVE FALSE
    <3>1. PICK r \in Capturers : Loose!Receiver(r)
      BY <2>1, <2>3, HoldingKept DEF Holds
    <3>2. q = r
      BY <2>1, <2>3, <3>1, OwnReply DEF Holds
    <3>3. /\ Stores(r) \/ holding[r].step \in StoredSteps
          /\ holding[r].entry[1] = e[1] /\ holding[r].seq = s
      <4>1. holding'[r].step \in StoredSteps /\ holding'[r].entry[1] = e[1] /\ holding'[r].seq = s
        BY <2>3, <3>2 DEF Holds
      <4>2. ~Looks(r) /\ holding'[r].step # "idle"
        BY <4>1, LookupHeld DEF Looks, StoredSteps
      <4> QED
        BY <3>1, <4>1, <4>2, OwnReply
    <3>4. CASE Stores(r)
      BY <2>1, <3>3, <3>4 DEF Stores, OwnerInv
    <3>5. CASE holding[r].step \in StoredSteps
      BY <2>1, <3>3, <3>5 DEF Holds
    <3> QED
      BY <3>3, <3>4, <3>5
  <2> QED
    BY <2>1, <2>2, <2>3, <1>c DEF Settled
<1>2. ASSUME NEW r \in Capturers, Loose!Receiver(r), Counts(r), holding[r].entry = e
      PROVE  holding[r].seq \in Settled(e)' \ Settled(e)
  <2> DEFINE s == holding[r].seq
  <2>1. /\ s \in Loose!Requests /\ holding[r].step = "valid" /\ sample[e[1]][s] = "received"
        /\ Loose!OneAtATime => e[2] = s
    BY <1>2, HeldFacts DEF Counts, OwnerInv, StoredSteps
  <2>2. Holds(r, StoredSteps, e[1], s)
    BY <1>2, <2>1 DEF Holds, StoredSteps
  <2>3. s \notin Settled(e)
    BY <2>2 DEF Settled
  <2>4. sample'[e[1]][s] = "received"
    BY <1>e, <2>1, ReceivedStays
  <2>5. ASSUME NEW q \in Capturers, NEW t, t = s, Holds(q, StoredSteps, e[1], t)' PROVE FALSE
    <3>1. CASE q = r
      BY <1>2, <2>5, <3>1, FinishHeld DEF Counts, Holds, StoredSteps
    <3>2. CASE q # r
      <4>1. Holds(q, OwnerSteps, e[1], s)
        BY <1>2, <2>5, <3>2, OwnReply DEF Holds, OwnerSteps
      <4>2. holding[r].step \in OwnerSteps /\ holding[r].entry[1] = e[1]
        BY <1>2, <2>1 DEF OwnerSteps, StoredSteps
      <4> QED
        BY <4>1, <4>2, <3>2 DEF OwnerInv
    <3> QED
      BY <3>1, <3>2
  <2>6. \A t \in Loose!Requests : t = s => t \in Settled(e)'
    BY <2>1, <2>4, <2>5, <1>c DEF Settled
  <2> QED
    BY <2>1, <2>3, <2>6
<1> QED
  BY <1>1, <1>2

\* Each reply is counted once.
LEMMA SettledStep ==
    ASSUME LooseTypeOK, UnsentInv, OwnerInv, SettledInv, LooseStep
    PROVE  SettledInv'
<1> SUFFICES ASSUME NEW e \in Loose!Entries PROVE valid'[e] <= Cardinality(Settled(e)')
  BY DEF SettledInv, Loose!Entries
<1>1. IsFiniteSet(Settled(e)) /\ IsFiniteSet(Settled(e)')
  BY FiniteRequests, FS_Subset DEF Settled
<1>2. /\ Cardinality(Settled(e)) \in Nat /\ Cardinality(Settled(e)') \in Nat
      /\ Cardinality(Settled(e)) <= Cardinality(Settled(e)')
      /\ Settled(e)' # Settled(e) => Cardinality(Settled(e)) < Cardinality(Settled(e)')
  <2>1. Settled(e) \subseteq Settled(e)'
    BY SettledGrows
  <2> QED
    BY <1>1, <2>1, FS_Subset, FS_CardinalityType
<1>3. valid \in [Loose!Entries -> Nat] /\ valid[e] <= Cardinality(Settled(e))
  BY DEF SettledInv, LooseTypeOK, LooseRunType
<1>4. CASE valid' = valid
  BY <1>2, <1>3, <1>4
<1>5. CASE valid' # valid
  <2>1. PICK r \in Capturers : Loose!Receiver(r) /\ Counts(r)
    <3>1. PICK r \in Capturers : Loose!Receiver(r)
      BY <1>5, HoldingKept
    <3> QED
      BY <1>5, <3>1, ReceiverEffect
         DEF Looks, Refuses, Swaps, Stores, Readies, Queues, Establishes
  <2>2. valid' = [valid EXCEPT ![holding[r].entry] = @ + 1]
    BY <2>1 DEF Counts
  <2>3. CASE holding[r].entry = e
    <3>1. Settled(e)' # Settled(e)
      BY <2>1, <2>3, SettledGrows
    <3>2. valid'[e] = valid[e] + 1
      BY <1>3, <2>2, <2>3
    <3> QED
      BY <1>2, <1>3, <3>1, <3>2
  <2>4. CASE holding[r].entry # e
    BY <1>2, <1>3, <2>2, <2>4
  <2> QED
    BY <2>3, <2>4
<1> QED
  BY <1>4, <1>5

-----------------------------------------------------------------------------
(* The registry *)

\* The entry is registered by its worker, which displaces another one, and removed by it.
LEMMA InflightEffect ==
    ASSUME LooseTypeOK, LooseStep
    PROVE  /\ closed \subseteq closed'
           /\ \/ inflight' = inflight
              \/ \E v \in Probers : /\ Loose!Register(v) /\ inflight' = Loose!Entry(v)
                                    /\ inflight = Loose!NoEntry \/ inflight \in closed'
              \/ \E v \in Probers : /\ Loose!Conclude(v) \/ Loose!Withdraw(v)
                                    /\ inflight = Loose!Entry(v) /\ inflight' = Loose!NoEntry
<1>1. CASE \E v \in Probers : Loose!Worker(v)
  <2>1. PICK v \in Probers : Loose!Worker(v)
    BY <1>1
  <2>2. closed \subseteq closed'
    BY <2>1, WorkerFrame
  <2>3. CASE Loose!Register(v)
    BY <2>2, <2>3 DEF Loose!Register, Loose!Displaced
  <2>4. CASE Loose!Conclude(v)
    BY <2>2, <2>4 DEF Loose!Conclude, Loose!Remaining
  <2>5. CASE Loose!Withdraw(v)
    BY <2>2, <2>5 DEF Loose!Withdraw, Loose!Remaining
  <2>6. CASE Loose!Send(v) \/ Waits(v)
    BY <2>2, <2>6, SendEffect, WaitEffect DEF SendFrame, WaitFrame
  <2>7. CASE Loose!Advance(v) \/ Loose!FinishFixedProbe(v) \/ Loose!Save(v)
             \/ Loose!ResetTCPConnections(v)
    BY <2>2, <2>7 DEF Loose!Advance, Loose!FinishFixedProbe, Loose!Save,
       Loose!ResetTCPConnections, Loose!registryVars
  <2> QED
    BY <2>1, <2>3, <2>4, <2>5, <2>6, <2>7, WorkerKinds
<1>2. CASE \E r \in Capturers : Loose!Receiver(r)
  BY <1>2, ReceiverEffect DEF ReceiverFrame, Looks, Refuses, Swaps, Stores, Readies, Queues,
     Establishes, Counts
<1>3. CASE \E w \in Probers : Loose!ReadSample(w)
  BY <1>3, ReadEffect DEF ReadFrame
<1>4. CASE Loose!TriggerStop
  BY <1>4, StopEffect DEF StopFrame
<1>5. CASE UNCHANGED looseVars
  BY <1>5 DEF looseVars
<1> QED
  BY <1>1, <1>2, <1>3, <1>4, <1>5, LooseStepKinds

\* The entry of a worker is another one only when it goes on to its next request.
LEMMA EntryKept ==
    ASSUME LooseTypeOK, LooseStep, NEW w \in Probers,
           index'[w] = index[w] \/ ~Loose!OneAtATime
    PROVE  Loose!Entry(w)' = Loose!Entry(w)
<1>1. (Loose!OneAtATime' <=> Loose!OneAtATime)
  BY ConfigKept
<1> QED
  BY <1>1 DEF Loose!Entry

\* A worker that waits for replies can be reached or has been displaced.
LEMMA ServedStep ==
    ASSUME LooseTypeOK, PlaceInv, ServedInv, LooseStep
    PROVE  ServedInv'
<1>c. Loose!OneAtATime' <=> Loose!OneAtATime
  BY ConfigKept
<1> SUFFICES ASSUME NEW w \in Probers,
                    place'[w] \in ServedPlaces \/ (place'[w] = "advance" /\ ~Loose!OneAtATime)
             PROVE  inflight' = Loose!Entry(w)' \/ Loose!Entry(w)' \in closed'
  BY <1>c DEF ServedInv
<1>r. place[w] \in EveryPlace \cup (IF Loose!OneAtATime THEN OneAtATimePlaces ELSE FixedPlaces)
  BY DEF PlaceInv
<1>m. closed \subseteq closed'
  BY InflightEffect
<1>1. CASE Loose!Register(w)
  <2>1. inflight' = Loose!Entry(w) /\ index' = index
    BY <1>1 DEF Loose!Register
  <2> QED
    BY <2>1, EntryKept
<1>2. CASE ~Loose!Register(w)
  <2>1. /\ place[w] \in ServedPlaces \/ (place[w] = "advance" /\ ~Loose!OneAtATime)
        /\ index'[w] = index[w] \/ ~Loose!OneAtATime
    <3>1. CASE place'[w] = place[w] /\ index'[w] = index[w]
      BY <3>1
    <3>2. CASE Loose!Worker(w) /\ Route(w, place'[w])
      <4>1. place[w] # "register"
        BY <1>2, <3>2, ActionAt
      <4>2. place[w] = "conclude" => Loose!OneAtATime /\ place'[w] \in {"advance", "withdraw"}
        BY <1>r, <3>2 DEF Route, WaitPlaces, EveryPlace, LeavingPlaces, FixedPlaces
      <4>3. place[w] \in ServedPlaces \/ (place[w] = "advance" /\ ~Loose!OneAtATime)
        BY <4>1, <4>2, <3>2, <1>r
           DEF Route, Follows, WaitPlaces, EveryPlace, LeavingPlaces, FixedPlaces,
               OneAtATimePlaces, ServedPlaces, Loose!AfterRequest, Loose!AfterInterval
      <4> QED
        BY <4>3, Movers DEF ServedPlaces
    <3> QED
      BY <3>1, <3>2, Movers
  <2>2. Loose!Entry(w)' = Loose!Entry(w)
    BY <2>1, EntryKept
  <2>3. inflight = Loose!Entry(w) \/ Loose!Entry(w) \in closed
    BY <2>1 DEF ServedInv
  <2>4. CASE Loose!Entry(w) \in closed
    BY <2>2, <2>4, <1>m
  <2>5. CASE inflight = Loose!Entry(w)
    <3>1. inflight # Loose!NoEntry
      BY <2>5, EntryFacts
    <3>2. ASSUME NEW v \in Probers, Loose!Conclude(v) \/ Loose!Withdraw(v),
                 inflight = Loose!Entry(v)
          PROVE  FALSE
      <4>1. v = w
        BY <2>5, <3>2, EntryFacts
      <4>2. place[w] = "conclude" \/ place[w] = "withdraw"
        BY <4>1, <3>2 DEF Loose!Conclude, Loose!Withdraw, Loose!At
      <4>3. place[w] = "conclude"
        BY <4>2, <2>1 DEF ServedPlaces
      <4>4. Loose!OneAtATime
        BY <4>3, <1>r DEF EveryPlace, LeavingPlaces, FixedPlaces
      <4>5. Loose!Worker(w)
        BY <4>1, <3>2 DEF Loose!Worker
      <4>6. place'[w] \in {"advance", "withdraw"}
        BY <4>3, <4>5, RouteEffect DEF Route, WaitPlaces
      <4> QED
        BY <4>4, <4>6 DEF ServedPlaces
    <3> QED
      BY <2>2, <2>5, <3>1, <3>2, InflightEffect
  <2> QED
    BY <2>3, <2>4, <2>5
<1> QED
  BY <1>1, <1>2

-----------------------------------------------------------------------------
(* Counting drops *)

\* A step that notes neither a timeout nor a failed reset.
Untallied == UNCHANGED <<timedOut, resetFailed>>

\* A reset that is not sent.
FailsReset(w) ==
    /\ place[w] = "reset" /\ place'[w] \in {"reset", "done"}
    /\ Loose!CountDrop(w)
    /\ resetFailed' = [resetFailed EXCEPT ![w] = @ \cup {resetAt[w]}]
    /\ UNCHANGED <<timedOut, handedOver>>

\* A worker drops its target once, hands it over, or neither; or it counts a request it goes
\* on without or a reset that failed.
LEMMA LeaveEffect ==
    ASSUME LooseTypeOK, NEW w \in Probers, Loose!Worker(w)
    PROVE  \/ ~Leaving(w) /\ Loose!Drop(w) /\ handedOver' = handedOver /\ Untallied
           \/ /\ place[w] = "save" /\ place'[w] = "withdraw" /\ counted' = counted
              /\ Untallied
              /\ \/ w \in handedOver'
                 \/ config.kind = "interRT" /\ stopped /\ handedOver' = handedOver
           \/ /\ counted' = counted /\ handedOver' = handedOver /\ Untallied
              /\ place'[w] \in LeavingPlaces <=> Leaving(w)
           \/ Misses(w) /\ handedOver' = handedOver
           \/ FailsReset(w)
<1>t. place \in [Probers -> OneAtATimePlaces \cup FixedPlaces \cup EveryPlace]
  BY DEF LooseTypeOK, LooseWorkerType
<1>r. Route(w, place'[w])
  BY RouteEffect
<1> USE DEF Leaving, LeavingPlaces, Untallied, Loose!resetVars
<1>1. CASE Loose!Register(w)
  BY <1>1, <1>r DEF Loose!Register, Loose!At, Route, WaitPlaces, Loose!FirstPoint
<1>2. CASE Loose!Send(w)
  BY <1>2, <1>t, SendEffect DEF SendFrame, Loose!Goto, Loose!AfterRequest, Loose!AfterInterval
<1>3. CASE Waits(w)
  <2>1. place[w] \in WaitPlaces /\ handedOver' = handedOver
        /\ (Untallied \/ Misses(w))
    BY <1>3, WaitEffect DEF WaitFrame
  <2>2. CASE Aborts(w) \/ FailsACK(w)
    BY <2>1, <2>2 DEF Aborts, FailsACK, WaitPlaces
  <2>3. CASE Continues(w) /\ ~Misses(w)
    <3>1. PICK p \in FixedPlaces \cup OneAtATimePlaces \cup EveryPlace :
              Loose!Goto(w, p) /\ counted' = counted /\ Follows(w, p)
      BY <2>3 DEF Continues
    <3>2. place'[w] = p
      BY <1>t, <3>1 DEF Loose!Goto
    <3> QED
      BY <2>1, <3>1, <3>2 DEF Follows, WaitPlaces, Loose!AfterInterval
  <2>4. CASE Acknowledges(w)
    BY <2>1, <2>4 DEF Acknowledges
  <2> QED
    BY <1>3, <2>1, <2>2, <2>3, <2>4, WaitEffect
<1>4. CASE Loose!Conclude(w)
  <2>1. place[w] = "conclude" /\ handedOver' = handedOver /\ Untallied
    BY <1>4 DEF Loose!Conclude, Loose!At
  <2>2. Loose!Drop(w) \/ (Loose!Goto(w, "advance") /\ counted' = counted)
    BY <1>4 DEF Loose!Conclude
  <2> QED
    BY <1>t, <2>1, <2>2 DEF Loose!Goto
<1>5. CASE Loose!Advance(w)
  BY <1>5, <1>r DEF Loose!Advance, Loose!At, Route, WaitPlaces
<1>6. CASE Loose!FinishFixedProbe(w)
  <2>1. place[w] = "finish" /\ handedOver' = handedOver /\ Untallied
    BY <1>6 DEF Loose!FinishFixedProbe, Loose!At
  <2>2. Loose!Drop(w) \/ (Loose!Goto(w, "save") /\ counted' = counted)
    BY <1>6 DEF Loose!FinishFixedProbe
  <2> QED
    BY <1>t, <2>1, <2>2 DEF Loose!Goto
<1>7. CASE Loose!Save(w)
  <2>1. place[w] = "save" /\ Untallied
    BY <1>7 DEF Loose!Save, Loose!At
  <2>2. \/ handedOver' = handedOver \cup {w} /\ Loose!Goto(w, "withdraw") /\ counted' = counted
        \/ /\ stopped /\ config.kind = "interRT" /\ handedOver' = handedOver
           /\ Loose!Goto(w, "withdraw") /\ counted' = counted
        \/ Loose!Drop(w) /\ handedOver' = handedOver
    BY <1>7 DEF Loose!Save, Loose!InterruptedSave, Loose!Uncounted
  <2> QED
    BY <1>t, <2>1, <2>2 DEF Loose!Goto
<1>8. CASE Loose!Withdraw(w)
  BY <1>8, <1>r DEF Loose!Withdraw, Loose!At, Route, WaitPlaces
<1>9. CASE Loose!ResetTCPConnections(w)
  <2>1. place[w] = "reset" /\ place'[w] \in {"reset", "done"} /\ handedOver' = handedOver
        /\ timedOut' = timedOut
    BY <1>9, <1>r DEF Loose!ResetTCPConnections, Loose!At, Route, WaitPlaces
  <2>2. \/ UNCHANGED <<counted, resetFailed>>
        \/ /\ Loose!CountDrop(w)
           /\ resetFailed' = [resetFailed EXCEPT ![w] = @ \cup {resetAt[w]}]
    BY <1>9 DEF Loose!ResetTCPConnections
  <2> QED
    BY <2>1, <2>2 DEF FailsReset
<1> QED
  BY <1>1, <1>2, <1>3, <1>4, <1>5, <1>6, <1>7, <1>8, <1>9, WorkerKinds

\* What is noted is finite, so the drop reasons are a number.
LEMMA ReasonsFacts ==
    ASSUME LooseTypeOK, TalliedInv, NEW w \in Probers
    PROVE  /\ IsFiniteSet(timedOut[w]) /\ IsFiniteSet(resetFailed[w])
           /\ Cardinality(timedOut[w]) \in Nat /\ Cardinality(resetFailed[w]) \in Nat
           /\ counted[w] \in Nat /\ ReasonsOf(w) \in Int
<1>1. /\ timedOut[w] \subseteq Loose!Requests /\ resetFailed[w] \subseteq Nat
      /\ resetAt[w] \in Nat /\ counted[w] \in Nat
  BY DEF LooseTypeOK, LooseWorkerType
<1>2. IsFiniteSet(timedOut[w])
  BY <1>1, FiniteRequests, FS_Subset
<1>3. resetFailed[w] \subseteq 0 .. resetAt[w]
  BY <1>1 DEF TalliedInv
<1>4. IsFiniteSet(0 .. resetAt[w])
  BY <1>1, FS_Interval
<1>5. IsFiniteSet(resetFailed[w])
  BY <1>3, <1>4, FS_Subset
<1>6. Cardinality(timedOut[w]) \in Nat /\ Cardinality(resetFailed[w]) \in Nat
  BY <1>2, <1>5, FS_CardinalityType
<1> QED
  BY <1>1, <1>2, <1>5, <1>6 DEF ReasonsOf

\* What a worker's step makes of its drop reasons: a timeout that is noted and a reset that
\* failed are counted besides.
LEMMA ReasonsEffect ==
    ASSUME LooseTypeOK, TalliedInv, NEW w \in Probers
    PROVE  /\ Untallied /\ counted' = counted => ReasonsOf(w)' = ReasonsOf(w)
           /\ Untallied /\ Loose!Drop(w) => ReasonsOf(w)' = ReasonsOf(w) + 1
           /\ Misses(w) \/ FailsReset(w) => ReasonsOf(w)' = ReasonsOf(w)
<1>t. /\ IsFiniteSet(timedOut[w]) /\ IsFiniteSet(resetFailed[w])
      /\ Cardinality(timedOut[w]) \in Nat /\ Cardinality(resetFailed[w]) \in Nat
      /\ counted[w] \in Nat
  BY ReasonsFacts
<1>v. /\ timedOut \in [Probers -> SUBSET Loose!Requests]
      /\ resetFailed \in [Probers -> SUBSET Nat]
      /\ index[w] \in Int /\ resetAt[w] \in Nat
  BY LooseRequestFacts DEF LooseTypeOK, LooseWorkerType
<1>1. Untallied /\ counted' = counted => ReasonsOf(w)' = ReasonsOf(w)
  BY DEF Untallied, ReasonsOf
<1>2. ASSUME Untallied, Loose!Drop(w) PROVE ReasonsOf(w)' = ReasonsOf(w) + 1
  <2>1. counted'[w] = counted[w] + 1
    BY <1>2, LooseDropType
  <2> QED
    BY <1>2, <1>t, <2>1 DEF Untallied, ReasonsOf
<1>3. ASSUME Misses(w) PROVE ReasonsOf(w)' = ReasonsOf(w)
  <2>1. counted'[w] = counted[w] + 1
    BY <1>3, CountDropType DEF Misses, Loose!Miss
  <2>2. timedOut'[w] = timedOut[w] \cup {index[w]} /\ resetFailed' = resetFailed
    BY <1>3, <1>v DEF Misses, Loose!Miss
  <2>3. index[w] \notin timedOut[w]
    BY <1>3, <1>v DEF Misses, TalliedInv, LeavingPlaces
  <2>4. Cardinality(timedOut[w] \cup {index[w]}) = Cardinality(timedOut[w]) + 1
    BY <1>t, <2>3, FS_AddElement
  <2> QED
    BY <1>t, <2>1, <2>2, <2>4 DEF ReasonsOf
<1>4. ASSUME FailsReset(w) PROVE ReasonsOf(w)' = ReasonsOf(w)
  <2>1. counted'[w] = counted[w] + 1
    BY <1>4, CountDropType DEF FailsReset
  <2>2. resetFailed'[w] = resetFailed[w] \cup {resetAt[w]} /\ timedOut' = timedOut
    BY <1>4, <1>v DEF FailsReset
  <2>3. resetAt[w] \notin resetFailed[w]
    BY <1>v DEF TalliedInv
  <2>4. Cardinality(resetFailed[w] \cup {resetAt[w]}) = Cardinality(resetFailed[w]) + 1
    BY <1>t, <2>3, FS_AddElement
  <2> QED
    BY <1>t, <2>1, <2>2, <2>4 DEF ReasonsOf
<1> QED
  BY <1>1, <1>2, <1>3, <1>4

\* A target is counted once or handed over.
LEMMA LooseCountedStep ==
    ASSUME LooseTypeOK, LooseCountedInv, TalliedInv, LooseStep
    PROVE  LooseCountedInv'
<1>c. config' = config
  BY ConfigKept
<1> DEFINE Good(place_w, reasons_w, handed_w, stop) ==
        IF place_w \in LeavingPlaces
        THEN /\ reasons_w = 0 => handed_w \/ (config.kind = "interRT" /\ stop)
             /\ reasons_w # 0 => reasons_w = 1 /\ ~handed_w
        ELSE reasons_w = 0 /\ ~handed_w
<1>o. \A w \in Probers : Good(place[w], ReasonsOf(w), w \in handedOver, stopped)
  BY DEF LooseCountedInv, Leaving
<1>s. stopped \in BOOLEAN /\ stopped' \in BOOLEAN
  BY LooseTypeStep DEF LooseTypeOK, LooseRunType
<1> SUFFICES ASSUME NEW w \in Probers
             PROVE  Good(place'[w], ReasonsOf(w)', w \in handedOver', stopped')
  BY <1>c DEF LooseCountedInv, Leaving
<1>1. CASE Loose!Worker(w)
  <2>1. stopped' = stopped /\ ReasonsOf(w) \in Int
    BY <1>1, WorkerFrame, ReasonsFacts
  <2>2. CASE ~Leaving(w) /\ Loose!Drop(w) /\ handedOver' = handedOver /\ Untallied
    <3>1. place'[w] = "withdraw" /\ ReasonsOf(w)' = ReasonsOf(w) + 1
      BY <2>2, LooseDropType, ReasonsEffect
    <3>2. ReasonsOf(w) = 0 /\ w \notin handedOver
      BY <2>2, <1>o DEF Leaving
    <3> QED
      BY <2>2, <3>1, <3>2 DEF LeavingPlaces
  <2>3. CASE /\ place[w] = "save" /\ place'[w] = "withdraw" /\ counted' = counted
             /\ Untallied
             /\ \/ w \in handedOver'
                \/ config.kind = "interRT" /\ stopped /\ handedOver' = handedOver
    <3>1. ReasonsOf(w) = 0 /\ ReasonsOf(w)' = ReasonsOf(w) /\ w \notin handedOver
      BY <2>3, <1>o, ReasonsEffect DEF LeavingPlaces
    <3> QED
      BY <2>1, <2>3, <3>1 DEF LeavingPlaces
  <2>4. CASE /\ counted' = counted /\ handedOver' = handedOver /\ Untallied
             /\ place'[w] \in LeavingPlaces <=> Leaving(w)
    BY <2>1, <2>4, <1>o, ReasonsEffect DEF Leaving
  <2>5. CASE Misses(w) /\ handedOver' = handedOver
    <3>1. place[w] = "reply" /\ place'[w] = "conclude"
      BY <2>5 DEF Misses, Loose!Miss, Loose!Goto, LooseTypeOK, LooseWorkerType
    <3> QED
      BY <2>1, <2>5, <3>1, <1>o, ReasonsEffect DEF LeavingPlaces
  <2>6. CASE FailsReset(w)
    BY <2>1, <2>6, <1>o, ReasonsEffect DEF FailsReset, LeavingPlaces
  <2> QED
    BY <1>1, <2>2, <2>3, <2>4, <2>5, <2>6, LeaveEffect
<1>2. CASE ~Loose!Worker(w)
  <2>1. /\ place'[w] = place[w] /\ ReasonsOf(w)' = ReasonsOf(w)
        /\ (w \in handedOver') <=> (w \in handedOver)
        /\ stopped => stopped'
    BY <1>2, <1>s, OtherSteps, WorkerFrame DEF OthersFrame, ReasonsOf
  <2> QED
    BY <2>1, <1>o, <1>s
<1> QED
  BY <1>1, <1>2

\* Only a worker that resets tries resets.
LEMMA ResetEffect ==
    ASSUME LooseTypeOK, NEW w \in Probers, Loose!Worker(w)
    PROVE  \/ /\ resetAt' = resetAt /\ resetTried' = resetTried /\ place[w] # "reset"
           \/ /\ place[w] = "reset" /\ resetAt'[w] = resetAt[w] + 1 /\ acked' = acked
              /\ resetTried'[w] = resetTried[w] \cup ({resetAt[w]} \cap ready[w])
<1>t. resetAt \in [Probers -> Nat] /\ resetTried \in [Probers -> SUBSET Nat]
  BY DEF LooseTypeOK, LooseWorkerType
<1>1. CASE Loose!ResetTCPConnections(w)
  BY <1>t, <1>1 DEF Loose!ResetTCPConnections, Loose!At
<1>2. CASE ~Loose!ResetTCPConnections(w)
  <2>1. place[w] # "reset"
    BY <1>2, ActionAt
  <2>2. UNCHANGED <<resetAt, resetTried>>
    BY <1>2, WorkerKinds, WaitEffect, SendEffect
       DEF Loose!Register, Loose!Conclude, Loose!Advance, Loose!FinishFixedProbe, Loose!Save,
           Loose!Withdraw, WaitFrame, SendFrame, Loose!resetVars
  <2> QED
    BY <2>1, <2>2
<1> QED
  BY <1>1, <1>2

\* The loop variable moves on only from "advance", whose last request ends the loop.
LEMMA AdvanceEffect ==
    ASSUME LooseTypeOK, NEW w \in Probers, Loose!Worker(w)
    PROVE  \/ /\ index'[w] = index[w] /\ place[w] = "advance"
              /\ place'[w] \in {"save", "replies"} /\ index[w] + 1 >= Loose!RequestCount
           \/ /\ index'[w] = index[w] + 1 /\ place[w] = "advance"
              /\ place'[w] \in {"register", "flushTop"}
           \/ index'[w] = index[w] /\ place[w] # "advance"
<1>t. /\ index \in [Probers -> Loose!Requests]
      /\ place \in [Probers -> OneAtATimePlaces \cup FixedPlaces \cup EveryPlace]
      /\ index[w] + 1 \in Int /\ Loose!RequestCount \in Int
  BY LooseRequestFacts DEF LooseTypeOK, LooseWorkerType
<1>1. CASE place[w] = "advance"
  <2>1. Loose!Advance(w)
    BY <1>1, ActionAt
  <2>2. CASE index[w] + 1 < Loose!RequestCount
    BY <1>t, <1>1, <2>1, <2>2 DEF Loose!Advance, Loose!Goto
  <2>3. CASE ~(index[w] + 1 < Loose!RequestCount)
    BY <1>t, <1>1, <2>1, <2>3 DEF Loose!Advance, Loose!Goto
  <2> QED
    BY <2>2, <2>3
<1>2. CASE place[w] # "advance"
  BY <1>2, IndexEffect
<1> QED
  BY <1>1, <1>2

\* Timeouts and failed resets are noted behind the loops.
LEMMA TalliedStep ==
    ASSUME LooseTypeOK, PlaceInv, TalliedInv, LooseStep
    PROVE  TalliedInv'
<1> SUFFICES ASSUME NEW w \in Probers
             PROVE  /\ timedOut'[w] # {} => config.kind = "interRT"
                    /\ \A s \in timedOut'[w] :
                          \/ s < index'[w]
                          \/ s = index'[w] /\ place'[w] \in {"conclude", "advance", "save"}
                                                            \cup LeavingPlaces
                    /\ \A c \in resetFailed'[w] : c < resetAt'[w]
  BY ConfigKept DEF TalliedInv
<1>i. /\ timedOut[w] # {} => config.kind = "interRT"
      /\ \A s \in timedOut[w] :
            s < index[w] \/ (s = index[w] /\ place[w] \in {"conclude", "advance", "save"}
                                                        \cup LeavingPlaces)
      /\ \A c \in resetFailed[w] : c < resetAt[w]
  BY DEF TalliedInv
<1>t. /\ timedOut \in [Probers -> SUBSET Loose!Requests]
      /\ resetFailed \in [Probers -> SUBSET Nat]
      /\ index \in [Probers -> Loose!Requests] /\ resetAt \in [Probers -> Nat]
      /\ place \in [Probers -> OneAtATimePlaces \cup FixedPlaces \cup EveryPlace]
      /\ \A s \in Loose!Requests : s \in Nat
  BY LooseRequestFacts DEF LooseTypeOK, LooseWorkerType
<1>p. /\ Loose!OneAtATime => place[w] \in EveryPlace \cup OneAtATimePlaces
      /\ ~Loose!OneAtATime => place[w] \in EveryPlace \cup FixedPlaces
  BY DEF PlaceInv
<1>1. CASE Loose!Worker(w)
  <2>r. Route(w, place'[w])
    BY <1>1, RouteEffect
  <2>x. \/ index'[w] = index[w] /\ place[w] = "advance" /\ place'[w] \in {"save", "replies"}
        \/ index'[w] = index[w] + 1 /\ place[w] = "advance"
        \/ index'[w] = index[w] /\ place[w] # "advance"
    BY <1>1, AdvanceEffect
  <2>f. \A c \in resetFailed'[w] : c < resetAt'[w]
    <3>1. CASE FailsReset(w)
      <4>1. resetAt'[w] = resetAt[w] + 1
        BY <1>1, <3>1, ResetEffect DEF FailsReset
      <4>2. resetFailed'[w] = resetFailed[w] \cup {resetAt[w]}
        BY <1>t, <3>1 DEF FailsReset
      <4>3. \A c \in resetFailed[w] : c \in Nat /\ c < resetAt[w]
        BY <1>i, <1>t
      <4> QED
        BY <1>t, <4>1, <4>2, <4>3
    <3>2. CASE ~FailsReset(w)
      <4>1. resetFailed' = resetFailed
        BY <1>1, <3>2, LeaveEffect DEF Untallied, Misses
      <4>2. resetAt'[w] >= resetAt[w]
        BY <1>1, <1>t, ResetEffect
      <4>3. \A c \in resetFailed[w] : c \in Nat /\ c < resetAt[w]
        BY <1>i, <1>t
      <4>4. resetAt'[w] \in Nat
        BY LooseTypeStep DEF LooseTypeOK, LooseWorkerType
      <4> QED
        BY <1>t, <4>1, <4>2, <4>3, <4>4
    <3> QED
      BY <3>1, <3>2
  <2>1. CASE Misses(w)
    <3>1. /\ place[w] = "reply" /\ place'[w] = "conclude" /\ Loose!InterProtocol
          /\ timedOut'[w] = timedOut[w] \cup {index[w]}
      BY <2>1, <1>t DEF Misses, Loose!Miss, Loose!Goto
    <3>2. config.kind = "interRT"
      BY <1>p, <3>1 DEF Loose!InterProtocol, Loose!OneAtATime, EveryPlace, LeavingPlaces,
         FixedPlaces
    <3>3. \A s \in timedOut[w] : s < index[w]
      BY <1>i, <3>1 DEF LeavingPlaces
    <3>4. index'[w] = index[w]
      BY <2>x, <3>1
    <3> QED
      BY <2>f, <3>1, <3>2, <3>3, <3>4
  <2>2. CASE ~Misses(w)
    <3>1. timedOut' = timedOut
      BY <1>1, <2>2, LeaveEffect DEF Untallied, FailsReset
    <3>2. \A s \in timedOut[w] : s < index[w] => s < index'[w]
      BY <1>t, <2>x
    <3>3. ASSUME NEW s \in timedOut[w], s = index[w],
                 place[w] \in {"conclude", "advance", "save"} \cup LeavingPlaces
          PROVE  \/ s < index'[w]
                 \/ s = index'[w] /\ place'[w] \in {"conclude", "advance", "save"}
                                                   \cup LeavingPlaces
      <4>1. Loose!OneAtATime
        BY <1>i, <3>3 DEF Loose!OneAtATime
      <4>2. CASE index'[w] = index[w] + 1
        BY <1>t, <3>3, <4>2
      <4>3. CASE index'[w] = index[w] /\ place[w] = "advance" /\ place'[w] \in {"save", "replies"}
        BY <2>r, <3>3, <4>1, <4>3 DEF Route, WaitPlaces
      <4>4. CASE index'[w] = index[w] /\ place[w] # "advance"
        BY <2>r, <3>3, <4>4 DEF Route, WaitPlaces, LeavingPlaces
      <4> QED
        BY <2>x, <4>2, <4>3, <4>4
    <3> QED
      BY <1>i, <2>f, <3>1, <3>2, <3>3
  <2> QED
    BY <2>1, <2>2
<1>2. CASE ~Loose!Worker(w)
  <2>1. /\ place'[w] = place[w] /\ index'[w] = index[w] /\ resetAt'[w] = resetAt[w]
        /\ timedOut'[w] = timedOut[w] /\ resetFailed'[w] = resetFailed[w]
    BY <1>2, OtherSteps, WorkerFrame DEF OthersFrame
  <2> QED
    BY <2>1, <1>i
<1> QED
  BY <1>1, <1>2

\* A request that the schedule leaves behind is answered, displaced or noted.
LEMMA MissedStep ==
    ASSUME LooseTypeOK, PlaceInv, MissedInv, LooseStep
    PROVE  MissedInv'
<1> SUFFICES ASSUME config.kind = "interRT", NEW w \in Probers, NEW s \in Loose!Requests,
                    \/ s < index'[w] \/ place'[w] = "save" \/ w \in handedOver'
                    \/ s = index'[w] /\ place'[w] \in {"flushReply", "conclude", "advance"}
             PROVE  s \in timedOut'[w] \/ <<w, s>> \in closed'
  BY ConfigKept DEF MissedInv
<1>c. closed \subseteq closed'
  BY InflightEffect
<1>t. /\ timedOut \in [Probers -> SUBSET Loose!Requests]
      /\ index \in [Probers -> Loose!Requests] /\ index' \in [Probers -> Loose!Requests]
      /\ place \in [Probers -> OneAtATimePlaces \cup FixedPlaces \cup EveryPlace]
      /\ \A q \in Loose!Requests : q \in Nat /\ q < Loose!RequestCount
      /\ Loose!RequestCount \in Nat
  BY LooseTypeStep, LooseRequestFacts DEF LooseTypeOK, LooseWorkerType, Loose!Requests
<1>a. Loose!OneAtATime /\ Loose!Entry(w) = <<w, index[w]>>
  BY DEF Loose!OneAtATime, Loose!Entry
<1>p. place[w] \in EveryPlace \cup OneAtATimePlaces
  BY <1>a DEF PlaceInv
<1>i. \/ s < index[w] \/ place[w] = "save" \/ w \in handedOver
      \/ s = index[w] /\ place[w] \in {"flushReply", "conclude", "advance"}
      => s \in timedOut[w] \/ <<w, s>> \in closed
  BY DEF MissedInv
<1>1. CASE Loose!Worker(w)
  <2>r. Route(w, place'[w])
    BY <1>1, RouteEffect
  <2>x. \/ index'[w] = index[w] /\ place[w] = "advance" /\ place'[w] \in {"save", "replies"}
              /\ index[w] + 1 >= Loose!RequestCount
        \/ index'[w] = index[w] + 1 /\ place[w] = "advance"
              /\ place'[w] \in {"register", "flushTop"}
        \/ index'[w] = index[w] /\ place[w] # "advance"
    BY <1>1, AdvanceEffect
  <2>h. w \in handedOver' => w \in handedOver \/ place[w] = "save"
    BY HandedEffect
  <2>m. timedOut[w] \subseteq timedOut'[w]
    <3>1. timedOut' = timedOut \/ Misses(w)
      BY <1>1, LeaveEffect DEF Untallied, FailsReset
    <3> QED
      BY <1>t, <3>1 DEF Misses, Loose!Miss
  <2>1. CASE place[w] = "reply"
    <3>1. Waits(w)
      BY <1>1, <2>1, ActionAt
    <3>2. CASE Misses(w)
      <4>1. index[w] \in timedOut'[w]
        BY <1>t, <3>2 DEF Misses, Loose!Miss
      <4>2. s < index[w] \/ s = index[w] \/ w \in handedOver
        BY <2>1, <2>x, <2>h, <2>r DEF Route, WaitPlaces, Follows
      <4> QED
        BY <1>i, <1>c, <2>m, <4>1, <4>2
    <3>3. CASE ~Misses(w)
      <4>1. Loose!Entry(w) \in closed \/ place'[w] \in {"withdraw", "reply"}
        <5>1. Continues(w) => Loose!Entry(w) \in closed
          BY <2>1, <3>3 DEF Continues
        <5>2. Aborts(w) \/ FailsACK(w) => place'[w] = "withdraw"
          BY LooseDropType DEF Aborts, FailsACK
        <5>3. Acknowledges(w) => place'[w] = "reply"
          BY <2>1 DEF Acknowledges
        <5> QED
          BY <3>1, <5>1, <5>2, <5>3, WaitEffect
      <4>2. s < index[w] \/ s = index[w] \/ w \in handedOver
        BY <2>1, <2>x, <2>h, <2>r DEF Route, WaitPlaces, Follows
      <4>3. CASE Loose!Entry(w) \in closed
        BY <1>a, <1>i, <1>c, <2>m, <4>2, <4>3
      <4>4. CASE place'[w] \in {"withdraw", "reply"}
        BY <1>i, <1>c, <2>1, <2>m, <2>x, <2>h, <4>4
      <4> QED
        BY <4>1, <4>3, <4>4
    <3> QED
      BY <3>2, <3>3
  <2>2. CASE place[w] = "advance"
    <3>1. CASE index[w] + 1 >= Loose!RequestCount
      <4>1. s < index[w] \/ s = index[w]
        BY <1>t, <3>1
      <4> QED
        BY <1>i, <1>c, <2>m, <2>2, <4>1
    <3>2. CASE index'[w] = index[w] + 1 /\ place'[w] \in {"register", "flushTop"}
      <4>1. s < index[w] \/ s = index[w] \/ w \in handedOver
        BY <1>t, <2>2, <2>h, <3>2
      <4> QED
        BY <1>i, <1>c, <2>m, <2>2, <4>1
    <3> QED
      BY <2>2, <2>x, <3>1, <3>2
  <2>3. CASE place[w] \notin {"reply", "advance"}
    <3>1. index'[w] = index[w]
      BY <2>3, <2>x
    <3>2. place'[w] \in {"flushReply", "conclude", "advance"}
            => place[w] \in {"flushReply", "conclude"}
      BY <1>a, <1>p, <2>3, <2>r DEF Route, WaitPlaces, Follows, EveryPlace, LeavingPlaces,
         OneAtATimePlaces, Loose!FirstPoint, Loose!AfterRequest
    <3>3. place'[w] # "save"
      BY <1>a, <1>p, <2>3, <2>r DEF Route, WaitPlaces, Follows, EveryPlace, LeavingPlaces,
         OneAtATimePlaces, Loose!FirstPoint, Loose!AfterRequest
    <3> QED
      BY <1>i, <1>c, <2>h, <2>m, <3>1, <3>2, <3>3
  <2> QED
    BY <2>1, <2>2, <2>3
<1>2. CASE ~Loose!Worker(w)
  <2>1. /\ place'[w] = place[w] /\ index'[w] = index[w] /\ timedOut'[w] = timedOut[w]
        /\ (w \in handedOver') <=> (w \in handedOver)
    BY <1>2, OtherSteps, WorkerFrame DEF OthersFrame
  <2> QED
    BY <2>1, <1>i, <1>c
<1> QED
  BY <1>1, <1>2

-----------------------------------------------------------------------------
(* Connections *)

\* What has passed the channel of a worker.
Passed(w) == acked[w] \cup Waited(w)

\* A worker that leaves does not come back.
LEMMA LeavingStays ==
    ASSUME LooseTypeOK, LooseStep, NEW w \in Probers, Leaving(w)
    PROVE  place'[w] \in LeavingPlaces
BY Movers DEF Leaving, LeavingPlaces, Route, WaitPlaces

\* A reply that waits has an element more in the channel.
LEMMA AppendQueued ==
    ASSUME NEW q \in Seq(Loose!Connections), NEW c \in Loose!Connections
    PROVE  {Append(q, c)[i] : i \in DOMAIN Append(q, c)} = {q[i] : i \in DOMAIN q} \cup {c}
<1>1. /\ Len(q) \in Nat /\ DOMAIN q = 1 .. Len(q)
      /\ DOMAIN Append(q, c) = 1 .. Len(q) + 1
      /\ \A i \in 1 .. Len(q) : Append(q, c)[i] = q[i]
      /\ Append(q, c)[Len(q) + 1] = c
  OBVIOUS
<1>2. \A i \in 1 .. Len(q) + 1 : i \in 1 .. Len(q) \/ i = Len(q) + 1
  BY <1>1
<1>3. 1 .. Len(q) \subseteq 1 .. Len(q) + 1 /\ Len(q) + 1 \in 1 .. Len(q) + 1
  BY <1>1
<1> QED
  BY <1>1, <1>2, <1>3

\* A receiver that accepts a SYN-ACK does it for the connection that the reply opens.
LEMMA HeldOpens ==
    ASSUME LooseTypeOK, OwnerInv, NEW r \in Capturers, Readies(r) \/ Queues(r) \/ Establishes(r)
    PROVE  /\ config.tcp /\ HeldConnection(r) = holding[r].seq
           /\ holding[r].seq \in Loose!Connections /\ Loose!Prober(r) = holding[r].entry[1]
           /\ holding[r].entry[1] \in Probers
<1>1. holding[r].step \in {"ready", "queue", "handshake"}
  BY DEF Readies, Queues, Establishes
<1>2. config.tcp /\ Loose!OpensConnection(holding[r].seq)
  BY <1>1 DEF OwnerInv
<1> QED
  BY <1>1, <1>2, HeldFacts, LooseRequestFacts DEF HeldConnection, Loose!Prober

\* What a worker does to its channel.
LEMMA WorkerPassed ==
    ASSUME LooseTypeOK, NEW w \in Probers, Loose!Worker(w)
    PROVE  /\ acked[w] \subseteq acked'[w] /\ Passed(w)' \subseteq Passed(w)
           /\ \/ Passed(w)' = Passed(w)
              \/ place'[w] = "withdraw"
           /\ acked'[w] # acked[w] => place[w] \in WaitPlaces
<1>t. acked \in [Probers -> SUBSET Loose!Connections]
  BY DEF LooseTypeOK, LooseWorkerType
<1>1. CASE Waits(w)
  <2>1. place[w] \in WaitPlaces
    BY <1>1, WaitEffect
  <2>2. CASE Continues(w) \/ Aborts(w)
    BY <2>1, <2>2 DEF Continues, Aborts, Passed, Waited
  <2>3. CASE Acknowledges(w)
    <3>1. acked'[w] = acked[w] \cup {Head(acks[w])}
      BY <1>t, <2>3 DEF Acknowledges
    <3>2. Waited(w) = {Head(acks[w])} \cup Waited(w)'
      BY <2>3, TakesACKType DEF Acknowledges
    <3> QED
      BY <2>1, <3>1, <3>2 DEF Passed
  <2>4. CASE FailsACK(w)
    <3>1. acked' = acked /\ place'[w] = "withdraw"
      BY <2>4, LooseDropType DEF FailsACK
    <3>2. Waited(w) = {Head(acks[w])} \cup Waited(w)'
      BY <2>4, TakesACKType DEF FailsACK
    <3> QED
      BY <3>1, <3>2 DEF Passed
  <2> QED
    BY <1>1, <2>2, <2>3, <2>4, WaitEffect
<1>2. CASE Loose!Send(w)
  BY <1>2, SendEffect DEF SendFrame, Passed, Waited
<1>3. CASE ~Waits(w) /\ ~Loose!Send(w)
  <2>1. UNCHANGED <<acks, acked>>
    BY <1>3, WorkerKinds DEF Loose!Register, Loose!Conclude, Loose!Advance,
       Loose!FinishFixedProbe, Loose!Save, Loose!Withdraw, Loose!ResetTCPConnections,
       Loose!probeVars
  <2> QED
    BY <2>1 DEF Passed, Waited
<1> QED
  BY <1>1, <1>2, <1>3

\* Channels fill by receivers and empty into what is acknowledged, until the worker leaves.
LEMMA PassedEffect ==
    ASSUME LooseTypeOK, OwnerInv, LooseStep, NEW w \in Probers
    PROVE  /\ ready[w] \subseteq ready'[w] /\ acked[w] \subseteq acked'[w]
           /\ place'[w] \notin LeavingPlaces => Passed(w) \subseteq Passed(w)'
           /\ \A c \in Passed(w)' : \/ c \in Passed(w)
                                    \/ \E r \in Capturers : Queues(r) /\ c = holding[r].seq
                                                            /\ w = holding[r].entry[1]
           /\ \A r \in Capturers : w = holding[r].entry[1] =>
                 /\ Loose!Receiver(r) /\ Queues(r) => holding[r].seq \in Passed(w)'
                 /\ Loose!Receiver(r) /\ Readies(r) => holding[r].seq \in ready'[w]
<1>t. /\ acked \in [Probers -> SUBSET Loose!Connections]
      /\ acks \in [Probers -> Seq(Loose!Connections)]
      /\ ready \in [Probers -> SUBSET Loose!Connections]
  BY DEF LooseTypeOK, LooseWorkerType, LooseProbeType
<1> DEFINE NoReceiver == \A r \in Capturers : ~(Loose!Receiver(r) /\ (Queues(r) \/ Readies(r)))
<1>r. ASSUME NEW r \in Capturers, Loose!Receiver(r)
      PROVE  /\ ready[w] \subseteq ready'[w] /\ acked' = acked
             /\ Passed(w) \subseteq Passed(w)'
             /\ \A c \in Passed(w)' : c \in Passed(w) \/ (Queues(r) /\ c = holding[r].seq
                                                          /\ w = holding[r].entry[1])
             /\ w = holding[r].entry[1] =>
                   /\ Queues(r) => holding[r].seq \in Passed(w)'
                   /\ Readies(r) => holding[r].seq \in ready'[w]
  <2>1. acked' = acked
    BY <1>r, ReceiverEffect DEF ReceiverFrame
  <2>2. CASE Readies(r)
    <3>1. /\ ready' = [ready EXCEPT ![holding[r].entry[1]] = @ \cup {holding[r].seq}]
          /\ holding[r].entry[1] \in Probers /\ acks' = acks /\ ~Queues(r)
      BY <2>2, HeldOpens DEF Readies, Queues
    <3>2. ready[w] \subseteq ready'[w] /\ (w = holding[r].entry[1] => holding[r].seq \in ready'[w])
      BY <1>t, <3>1
    <3> QED
      BY <2>1, <3>1, <3>2 DEF Passed, Waited
  <2>3. CASE Queues(r)
    <3> DEFINE c == holding[r].seq
               v == holding[r].entry[1]
    <3>1. /\ acks' = [acks EXCEPT ![v] = Append(@, c)] /\ ready' = ready
          /\ v \in Probers /\ c \in Loose!Connections /\ ~Readies(r)
      BY <2>3, HeldOpens DEF Readies, Queues
    <3> HIDE DEF c, v
    <3>2. CASE v = w
      <4>1. acks'[w] = Append(acks[w], c) /\ acks[w] \in Seq(Loose!Connections)
        BY <1>t, <3>1, <3>2
      <4>2. Waited(w)' = Waited(w) \cup {c}
        BY <3>1, <4>1, AppendQueued DEF Waited
      <4> QED
        BY <2>1, <2>3, <3>1, <3>2, <4>2 DEF Passed, c, v
    <3>3. CASE v # w
      <4>1. acks'[w] = acks[w]
        BY <1>t, <3>1, <3>3
      <4> QED
        BY <2>1, <3>1, <3>3, <4>1 DEF Passed, Waited, v
    <3> QED
      BY <3>2, <3>3
  <2>4. CASE ~Readies(r) /\ ~Queues(r)
    <3>1. UNCHANGED <<ready, acks>>
      BY <1>r, <2>4, ReceiverEffect DEF Looks, Refuses, Swaps, Stores, Establishes, Counts
    <3> QED
      BY <2>1, <2>4, <3>1 DEF Passed, Waited
  <2> QED
    BY <2>2, <2>3, <2>4
<1>1. CASE \E r \in Capturers : Loose!Receiver(r)
  <2>1. PICK r \in Capturers : Loose!Receiver(r)
    BY <1>1
  <2>2. \A q \in Capturers : Loose!Receiver(q) /\ w = holding[q].entry[1] =>
            /\ Queues(q) => holding[q].seq \in Passed(w)'
            /\ Readies(q) => holding[q].seq \in ready'[w]
    BY <1>r
  <2> QED
    BY <2>1, <2>2, <1>r
<1>2. CASE ~ \E r \in Capturers : Loose!Receiver(r)
  <2>1. CASE \E v \in Probers : Loose!Worker(v)
    <3>1. PICK v \in Probers : Loose!Worker(v)
      BY <2>1
    <3>2. ready' = ready
      BY <3>1, WorkerFrame
    <3>3. CASE v = w
      BY <1>2, <3>1, <3>2, <3>3, WorkerPassed DEF LeavingPlaces
    <3>4. CASE v # w
      <4>1. acked'[w] = acked[w] /\ acks'[w] = acks[w]
        BY <3>1, <3>4, WorkerFrame
      <4> QED
        BY <1>2, <3>2, <4>1 DEF Passed, Waited
    <3> QED
      BY <3>3, <3>4
  <2>2. CASE ~ \E v \in Probers : Loose!Worker(v)
    <3>1. UNCHANGED <<ready, acks, acked>>
      BY <1>2, <2>2, LooseStepKinds, ReadEffect, StopEffect DEF ReadFrame, StopFrame, looseVars
    <3> QED
      BY <1>2, <3>1 DEF Passed, Waited
  <2> QED
    BY <2>1, <2>2
<1> QED
  BY <1>1, <1>2

\* A reply that nobody holds at a step of a SYN-ACK any more has been through it.
LEMMA ChannelStep ==
    ASSUME LooseTypeOK, UnsentInv, OwnerInv, ChannelInv, LooseStep
    PROVE  ChannelInv'
<1>c. config' = config
  BY ConfigKept
<1>o. /\ \A w \in Probers : Passed(w) \subseteq ready[w]
      /\ \A r \in Capturers : holding[r].step = "queue" =>
            holding[r].seq \in ready[holding[r].entry[1]]
  BY DEF ChannelInv, Passed
<1>1. ASSUME NEW w \in Probers PROVE Passed(w)' \subseteq ready'[w]
  <2> SUFFICES ASSUME NEW c \in Passed(w)' PROVE c \in ready'[w]
    OBVIOUS
  <2>1. CASE c \in Passed(w)
    BY <2>1, <1>o, PassedEffect
  <2>2. CASE \E r \in Capturers : Queues(r) /\ c = holding[r].seq /\ w = holding[r].entry[1]
    BY <2>2, <1>o, PassedEffect DEF Queues
  <2> QED
    BY <2>1, <2>2, PassedEffect
<1>2. ASSUME NEW r \in Capturers, holding'[r].step = "queue",
             NEW v, v = holding'[r].entry[1], NEW c, c = holding'[r].seq
      PROVE  c \in ready'[v]
  <2>1. CASE holding'[r] = holding[r]
    <3>1. c \in ready[v] /\ v \in Probers
      BY <1>2, <2>1, <1>o, HeldFacts
    <3> QED
      BY <3>1, PassedEffect
  <2>2. CASE holding'[r] # holding[r]
    <3>1. Loose!Receiver(r)
      BY <2>2, HoldingKept, OwnReply
    <3>2. Readies(r)
      BY <1>2, <3>1, ReceiverEffect, StepHeld, LookupHeld, FinishHeld
         DEF Looks, Refuses, Swaps, Stores, Queues, Establishes, Counts, OwnerSteps, StoredSteps
    <3>3. /\ holding'[r].entry = holding[r].entry /\ holding'[r].seq = holding[r].seq
          /\ v \in Probers
      <4>1. /\ holding'[r].entry = holding[r].entry /\ holding'[r].seq = holding[r].seq
        BY <3>2, StepHeld DEF Readies, OwnerSteps, StoredSteps
      <4> QED
        BY <1>2, <3>2, <4>1, HeldOpens
    <3> QED
      BY <1>2, <3>1, <3>2, <3>3, PassedEffect
  <2> QED
    BY <2>1, <2>2
<1>3. ASSUME config.tcp, NEW w \in Probers, NEW c \in Loose!Connections,
             place'[w] \notin LeavingPlaces, sample'[w][c] = "received",
             \A r \in Capturers : ~Holds(r, {"ready", "queue"}, w, c)'
      PROVE  c \in Passed(w)'
  <2>1. c \in Loose!Requests /\ Loose!OpensConnection(c) /\ ~Leaving(w)
    BY <1>3, LooseRequestFacts, LeavingStays
  <2>2. CASE sample[w][c] # "received"
    <3>1. PICK r \in Capturers : Loose!Receiver(r)
      BY <1>3, <2>1, <2>2, HoldingKept
    <3>2. Stores(r) /\ w = holding[r].entry[1] /\ c = holding[r].seq
      BY <1>3, <2>1, <2>2, <3>1, ReceivedEffect
    <3>3. Loose!Step(r, "ready")
      BY <1>3, <2>1, <3>2 DEF Stores
    <3>4. Holds(r, {"ready", "queue"}, w, c)'
      BY <3>2, <3>3, StepHeld DEF Holds, Stores, OwnerSteps, StoredSteps
    <3> QED
      BY <1>3, <3>4
  <2>3. CASE sample[w][c] = "received" /\ \A r \in Capturers : ~Holds(r, {"ready", "queue"}, w, c)
    <3>1. c \in Passed(w)
      BY <1>3, <2>1, <2>3 DEF ChannelInv, Passed
    <3> QED
      BY <1>3, <3>1, PassedEffect
  <2>4. CASE \E r \in Capturers : Holds(r, {"ready", "queue"}, w, c)
    <3>1. PICK r \in Capturers : Holds(r, {"ready", "queue"}, w, c)
      BY <2>4
    <3>2. holding'[r] # holding[r]
      BY <1>3, <3>1 DEF Holds
    <3>3. Loose!Receiver(r)
      BY <3>2, HoldingKept, OwnReply
    <3>4. Readies(r) \/ Queues(r)
      BY <3>1, <3>3, ReceiverEffect, LookupHeld
         DEF Holds, Looks, Refuses, Swaps, Stores, Establishes, Counts
    <3>5. ~Readies(r)
      <4>1. ASSUME Readies(r) PROVE Holds(r, {"ready", "queue"}, w, c)'
        BY <3>1, <4>1, StepHeld DEF Holds, Readies, OwnerSteps, StoredSteps
      <4> QED
        BY <1>3, <4>1
    <3> QED
      BY <3>1, <3>3, <3>4, <3>5, PassedEffect DEF Holds
  <2> QED
    BY <2>2, <2>3, <2>4
<1>4. \A r \in Capturers : holding'[r].step = "queue" =>
          holding'[r].seq \in ready'[holding'[r].entry[1]]
  BY <1>2
<1> QED
  BY <1>1, <1>3, <1>4, <1>c DEF ChannelInv, Passed, Leaving

\* A handshake that is counted is established then, and stays so.
LEMMA EstablishedGrows ==
    ASSUME LooseTypeOK, UnsentInv, OwnerInv, LooseStep, NEW w \in Probers
    PROVE  /\ Established(w) \subseteq Established(w)'
           /\ \A r \in Capturers :
                 Loose!Receiver(r) /\ Establishes(r) /\ holding[r].entry[1] = w =>
                    holding[r].seq \in Established(w)' \ Established(w)
<1> DEFINE steps == {"ready", "queue", "handshake"}
<1>1. ASSUME NEW c \in Established(w) PROVE c \in Established(w)'
  <2>1. /\ c \in Loose!Connections /\ c \in Loose!Requests /\ sample[w][c] = "received"
        /\ \A r \in Capturers : ~Holds(r, steps, w, c)
    BY LooseRequestFacts DEF Established
  <2>2. sample'[w][c] = "received"
    BY <2>1, ReceivedStays
  <2>3. ASSUME NEW q \in Capturers, Holds(q, steps, w, c)' PROVE FALSE
    <3>1. PICK r \in Capturers : Loose!Receiver(r)
      BY <2>1, <2>3, HoldingKept DEF Holds
    <3>2. q = r
      BY <2>1, <2>3, <3>1, OwnReply DEF Holds
    <3>3. /\ holding'[r].step \in steps /\ holding'[r].entry[1] = w /\ holding'[r].seq = c
      BY <2>3, <3>2 DEF Holds
    <3>4. ~Looks(r) /\ holding'[r].step # "idle"
      BY <3>3, LookupHeld DEF Looks
    <3>5. holding[r].entry[1] = w /\ holding[r].seq = c
      BY <3>1, <3>3, <3>4, OwnReply
    <3>6. CASE Stores(r)
      BY <2>1, <3>5, <3>6 DEF Stores, OwnerInv
    <3>7. CASE holding[r].step \in {"ready", "queue"}
      BY <2>1, <3>5, <3>7 DEF Holds
    <3> QED
      BY <3>1, <3>3, <3>6, <3>7, OwnReply
  <2> QED
    BY <2>1, <2>2, <2>3 DEF Established
<1>2. ASSUME NEW r \in Capturers, Loose!Receiver(r), Establishes(r), holding[r].entry[1] = w,
             NEW c, c = holding[r].seq
      PROVE  c \in Established(w)' \ Established(w)
  <2>1. /\ c \in Loose!Connections /\ c \in Loose!Requests /\ holding[r].step = "handshake"
        /\ sample[w][c] = "received"
    BY <1>2, HeldOpens, LooseRequestFacts DEF Establishes, OwnerInv, StoredSteps
  <2>2. c \notin Established(w)
    BY <1>2, <2>1 DEF Established, Holds
  <2>3. sample'[w][c] = "received"
    BY <2>1, ReceivedStays
  <2>4. ASSUME NEW q \in Capturers, Holds(q, steps, w, c)' PROVE FALSE
    <3>1. CASE q = r
      BY <1>2, <2>1, <2>4, <3>1, StepHeld DEF Establishes, Holds, OwnerSteps, StoredSteps
    <3>2. CASE q # r
      <4>1. Holds(q, OwnerSteps, w, c)
        BY <1>2, <2>4, <3>2, OwnReply DEF Holds, OwnerSteps, StoredSteps
      <4>2. holding[r].step \in OwnerSteps
        BY <2>1 DEF OwnerSteps, StoredSteps
      <4> QED
        BY <1>2, <4>1, <4>2, <3>2 DEF OwnerInv
    <3> QED
      BY <3>1, <3>2
  <2> QED
    BY <2>1, <2>2, <2>3, <2>4 DEF Established
<1> QED
  BY <1>1, <1>2

\* Each handshake is counted once.
LEMMA CountedHandshakesStep ==
    ASSUME LooseTypeOK, UnsentInv, OwnerInv, HandshakesInv, LooseStep
    PROVE  HandshakesInv'
<1> SUFFICES ASSUME config.tcp, NEW w \in Probers
             PROVE  handshakes'[w] <= Cardinality(Established(w)')
  BY ConfigKept DEF HandshakesInv
<1>1. IsFiniteSet(Established(w)) /\ IsFiniteSet(Established(w)')
  BY FiniteRequests, FS_Subset DEF Established
<1>2. /\ Cardinality(Established(w)) \in Nat /\ Cardinality(Established(w)') \in Nat
      /\ Cardinality(Established(w)) <= Cardinality(Established(w)')
      /\ Established(w)' # Established(w) =>
            Cardinality(Established(w)) < Cardinality(Established(w)')
  <2>1. Established(w) \subseteq Established(w)'
    BY EstablishedGrows
  <2> QED
    BY <1>1, <2>1, FS_Subset, FS_CardinalityType
<1>3. handshakes \in [Probers -> Nat] /\ handshakes[w] <= Cardinality(Established(w))
  BY DEF HandshakesInv, LooseTypeOK, LooseProbeType
<1>4. CASE handshakes' = handshakes
  BY <1>2, <1>3, <1>4
<1>5. CASE handshakes' # handshakes
  <2>1. PICK r \in Capturers : Loose!Receiver(r) /\ Establishes(r)
    <3>1. PICK r \in Capturers : Loose!Receiver(r)
      BY <1>5, HoldingKept
    <3> QED
      BY <1>5, <3>1, ReceiverEffect
         DEF Looks, Refuses, Swaps, Stores, Readies, Queues, Counts
  <2>2. handshakes' = [handshakes EXCEPT ![holding[r].entry[1]] = @ + 1]
    BY <2>1 DEF Establishes, Loose!Prober
  <2>3. CASE holding[r].entry[1] = w
    <3>1. Established(w)' # Established(w)
      BY <2>1, <2>3, EstablishedGrows
    <3>2. handshakes'[w] = handshakes[w] + 1
      BY <1>3, <2>2, <2>3
    <3> QED
      BY <1>2, <1>3, <3>1, <3>2
  <2>4. CASE holding[r].entry[1] # w
    BY <1>2, <1>3, <2>2, <2>4
  <2> QED
    BY <2>3, <2>4
<1> QED
  BY <1>4, <1>5

\* A TCP measurement that opens connections is an RT or a fixed-interval one.
LEMMA KindFacts ==
    ASSUME LooseTypeOK
    PROVE  /\ config.kind \in {"rt", "fixed", "interRT", "interFixed"}
           /\ config.tcp => config.kind \in {"rt", "fixed"}
           /\ config.kind = "rt" => Loose!OneAtATime /\ ~Loose!InterProtocol
           /\ config.kind = "fixed" => ~Loose!OneAtATime /\ ~Loose!InterProtocol
BY DEF LooseTypeOK, LooseRunType, Loose!Configurations, Loose!OneAtATime, Loose!InterProtocol

\* Every handshake counted means every connection acknowledged or waiting for its ACK.
LEMMA AllEstablished ==
    ASSUME LooseTypeOK, ChannelInv, HandshakesInv, config.tcp, NEW w \in Probers, ~Leaving(w),
           handshakes[w] >= LooseConnections
    PROVE  Loose!Connections \subseteq Passed(w)
<1>1. IsFiniteSet(Established(w)) /\ Established(w) \subseteq Loose!Connections
  BY FiniteRequests, FS_Subset, LooseRequestFacts DEF Established
<1>2. /\ Cardinality(Established(w)) \in Nat
      /\ Cardinality(Established(w)) >= LooseConnections
  BY <1>1, FS_CardinalityType, LooseRequestFacts DEF HandshakesInv, LooseTypeOK, LooseProbeType
<1>3. Established(w) = Loose!Connections
  <2> DEFINE S == Loose!Connections
             T == Established(w)
  <2>1. IsFiniteSet(S) /\ T \in SUBSET S /\ Cardinality(S) = LooseConnections
    BY <1>1, FiniteRequests
  <2>2. Cardinality(T) \in Nat /\ Cardinality(T) >= Cardinality(S) /\ LooseConnections \in Nat
    BY <1>2, <2>1, LooseRequestFacts
  <2> HIDE DEF S, T
  <2>3. Cardinality(S) = Cardinality(T) => S = T
    BY <2>1, FS_Subset
  <2>4. Cardinality(T) <= Cardinality(S)
    BY <2>1, FS_Subset
  <2> QED
    BY <2>1, <2>2, <2>3, <2>4 DEF S, T
<1>4. ASSUME NEW c \in Loose!Connections PROVE c \in Passed(w)
  <2>1. sample[w][c] = "received" /\ \A r \in Capturers : ~Holds(r, {"ready", "queue"}, w, c)
    BY <1>3, <1>4 DEF Established, Holds
  <2> QED
    BY <2>1 DEF ChannelInv, Passed
<1> QED
  BY <1>4

\* All connections are acknowledged before the data requests of a fixed-interval probe.
LEMMA FixedHandshakeStep ==
    ASSUME LooseTypeOK, PlaceInv, OwnerInv, ChannelInv, HandshakesInv, FixedHandshakeInv,
           LooseStep
    PROVE  FixedHandshakeInv'
<1> SUFFICES ASSUME config.kind = "fixed", config.tcp, NEW w \in Probers
             PROVE  /\ place'[w] = "flushHandshakes" => Loose!Connections \subseteq Passed(w)'
                    /\ index'[w] >= LooseConnections
                          \/ (place'[w] = "advance" /\ index'[w] + 1 = LooseConnections)
                       => Loose!Connections \subseteq acked'[w]
  BY ConfigKept DEF FixedHandshakeInv, Passed, Loose!Connections
<1>o. ~Loose!OneAtATime /\ place[w] \in EveryPlace \cup FixedPlaces
  BY KindFacts DEF PlaceInv
<1>i. /\ place[w] = "flushHandshakes" => Loose!Connections \subseteq Passed(w)
      /\ index[w] >= LooseConnections
            \/ (place[w] = "advance" /\ index[w] + 1 = LooseConnections)
         => Loose!Connections \subseteq acked[w]
  BY DEF FixedHandshakeInv, Passed
<1>t. index[w] \in Nat /\ LooseConnections \in Nat
  BY LooseRequestFacts DEF LooseTypeOK, LooseWorkerType
<1>p. /\ acked[w] \subseteq acked'[w]
      /\ place'[w] \notin LeavingPlaces => Passed(w) \subseteq Passed(w)'
  BY PassedEffect
<1>1. ASSUME place'[w] = "flushHandshakes" PROVE Loose!Connections \subseteq Passed(w)'
  <2>1. CASE place[w] = "flushHandshakes"
    BY <1>1, <1>i, <1>p, <2>1 DEF LeavingPlaces
  <2>2. CASE place[w] # "flushHandshakes"
    <3>1. place[w] = "handshakes" /\ handshakes[w] >= LooseConnections
      BY <1>1, <1>o, <2>2, Movers
         DEF Route, Follows, WaitPlaces, EveryPlace, LeavingPlaces, FixedPlaces,
             Loose!FirstPoint, Loose!AfterRequest, Loose!AfterInterval
    <3>2. Loose!Connections \subseteq Passed(w)
      BY <3>1, AllEstablished DEF Leaving, LeavingPlaces
    <3> QED
      BY <1>1, <1>p, <3>2 DEF LeavingPlaces
  <2> QED
    BY <2>1, <2>2
<1>2. ASSUME place'[w] = "advance", index'[w] + 1 = LooseConnections
      PROVE  Loose!Connections \subseteq acked[w]
  <2>1. index'[w] = index[w]
    BY <1>2, <1>o, Movers DEF Route, WaitPlaces
  <2>2. CASE place[w] = "advance"
    BY <1>2, <1>i, <2>1, <2>2
  <2>3. CASE place[w] # "advance"
    <3>1. Loose!AfterInterval(w) = "handshakes"
      BY <1>2, <2>1 DEF Loose!AfterInterval
    <3>2. place[w] = "flushHandshakes" /\ acks[w] = <<>>
      BY <1>2, <1>o, <2>3, <3>1, Movers
         DEF Route, Follows, WaitPlaces, EveryPlace, LeavingPlaces, FixedPlaces,
             Loose!FirstPoint, Loose!AfterRequest
    <3>3. Passed(w) = acked[w]
      BY <3>2 DEF Passed, Waited
    <3> QED
      BY <1>i, <3>2, <3>3
  <2> QED
    BY <2>2, <2>3
<1>3. ASSUME index'[w] >= LooseConnections PROVE Loose!Connections \subseteq acked[w]
  BY <1>3, <1>i, <1>t, Movers
<1> QED
  BY <1>1, <1>2, <1>3, <1>p

-----------------------------------------------------------------------------
(* The only probe of an address *)

\* Then there is no other worker.
LEMMA OnlyProber ==
    ASSUME Alone, NEW v \in Probers, NEW w \in Probers
    PROVE  v = w
<1>1. IsFiniteSet({v, w}) /\ {v, w} \subseteq Probers /\ IsFiniteSet(Probers)
  BY LooseProbeAssumption, FS_Subset
<1>2. Cardinality({v, w}) \in Nat /\ Cardinality({v, w}) <= Cardinality(Probers)
      /\ Cardinality(Probers) \in Nat
  BY <1>1, FS_Subset, FS_CardinalityType
<1>3. v # w => Cardinality({v, w}) = 2
  <2> SUFFICES ASSUME v # w PROVE Cardinality({v, w}) = 2
    OBVIOUS
  <2>1. IsFiniteSet({v}) /\ Cardinality({v}) = 1
    BY FS_Singleton
  <2>2. w \notin {v} /\ {v, w} = {v} \cup {w}
    OBVIOUS
  <2>3. Cardinality({v} \cup {w}) = Cardinality({v}) + 1
    BY <2>1, <2>2, FS_AddElement
  <2> QED
    BY <2>1, <2>2, <2>3
<1> QED
  BY <1>2, <1>3 DEF Alone

\* Entries are closed when they are displaced or counted.
LEMMA ClosedEffect ==
    ASSUME LooseTypeOK, LooseStep
    PROVE  /\ \A e \in Loose!Entries : valid'[e] >= valid[e]
           /\ \A e \in closed' : \/ e \in closed \/ valid'[e] >= 1
                                 \/ \E v \in Probers : Loose!Register(v) /\ e = inflight
                                                       /\ e # Loose!NoEntry
<1>t. valid \in [Loose!Entries -> Nat]
  BY DEF LooseTypeOK, LooseRunType
<1>1. CASE \E w \in Probers : Loose!Worker(w)
  <2>1. PICK w \in Probers : Loose!Worker(w)
    BY <1>1
  <2>2. valid' = valid
    BY <2>1, WorkerFrame
  <2>3. CASE Loose!Register(w)
    BY <1>t, <2>2, <2>3 DEF Loose!Register, Loose!Displaced
  <2>4. CASE ~Loose!Register(w)
    <3>1. closed' = closed
      BY <2>1, <2>4, WorkerKinds, WaitEffect, SendEffect
         DEF Loose!Conclude, Loose!Advance, Loose!FinishFixedProbe, Loose!Save,
             Loose!Withdraw, Loose!ResetTCPConnections, WaitFrame, SendFrame,
             Loose!registryVars
    <3> QED
      BY <1>t, <2>2, <3>1
  <2> QED
    BY <2>3, <2>4
<1>2. CASE \E r \in Capturers : Loose!Receiver(r)
  <2>1. PICK r \in Capturers : Loose!Receiver(r)
    BY <1>2
  <2>2. CASE Counts(r)
    <3> DEFINE h == holding[r].entry
    <3>1. h \in Loose!Entries
      BY <2>2, HeldFacts DEF Counts
    <3>2. valid' = [valid EXCEPT ![h] = @ + 1] /\ closed' \subseteq closed \cup {h}
      BY <2>2 DEF Counts
    <3> HIDE DEF h
    <3>3. valid'[h] = valid[h] + 1 /\ valid[h] \in Nat
          /\ \A e \in Loose!Entries : e # h => valid'[e] = valid[e] /\ valid[e] \in Nat
      BY <1>t, <3>1, <3>2
    <3> QED
      BY <3>2, <3>3
  <2>3. CASE ~Counts(r)
    <3>1. valid' = valid /\ closed' = closed
      BY <2>1, <2>3, ReceiverEffect DEF Looks, Refuses, Swaps, Stores, Readies, Queues, Establishes
    <3> QED
      BY <1>t, <3>1
  <2> QED
    BY <2>2, <2>3
<1>3. CASE ~(\E w \in Probers : Loose!Worker(w)) /\ ~(\E r \in Capturers : Loose!Receiver(r))
  <2>1. valid' = valid /\ closed' = closed
    BY <1>3, LooseStepKinds, ReadEffect, StopEffect DEF ReadFrame, StopFrame, looseVars
  <2> QED
    BY <1>t, <2>1
<1> QED
  BY <1>1, <1>2, <1>3

\* The entry of a request is closed when its reply has been through the channel.
LEMMA ClosedPassed ==
    ASSUME LooseTypeOK, ChannelInv, SettledInv, config.tcp, Loose!OneAtATime,
           NEW w \in Probers, ~Leaving(w), valid[Loose!Entry(w)] >= 1,
           index[w] \in Loose!Connections
    PROVE  index[w] \in Passed(w)
<1> DEFINE e == Loose!Entry(w)
<1>1. e \in Loose!Entries /\ e = <<w, index[w]>> /\ e[1] = w /\ e[2] = index[w]
  BY EntryFacts DEF Loose!Entry
<1>2. IsFiniteSet(Settled(e)) /\ Cardinality(Settled(e)) \in Nat
  BY FiniteRequests, FS_Subset, FS_CardinalityType DEF Settled
<1>3. Cardinality(Settled(e)) >= 1
  <2>1. valid[e] \in Nat /\ valid[e] <= Cardinality(Settled(e))
    BY <1>1 DEF SettledInv, LooseTypeOK, LooseRunType
  <2> QED
    BY <1>2, <2>1
<1>4. Settled(e) # {}
  BY <1>3, FS_EmptySet
<1>5. index[w] \in Settled(e)
  BY <1>1, <1>4 DEF Settled
<1>6. sample[w][index[w]] = "received"
      /\ \A r \in Capturers : ~Holds(r, {"ready", "queue"}, w, index[w])
  BY <1>1, <1>5 DEF Settled, Holds, StoredSteps
<1> QED
  BY <1>6 DEF ChannelInv, Passed

\* The only probe of an address acknowledges a connection before it goes on.
LEMMA AloneStep ==
    ASSUME LooseTypeOK, PlaceInv, OwnerInv, SettledInv, ChannelInv, AloneInv, LooseStep
    PROVE  AloneInv'
<1>c. config' = config /\ (Loose!OneAtATime' <=> Loose!OneAtATime)
  BY ConfigKept
<1> SUFFICES ASSUME Alone, NEW w \in Probers
             PROVE  /\ place'[w] \in {"register", "advance", "save"} => inflight' = Loose!NoEntry
                    /\ inflight' \in {Loose!NoEntry, Loose!Entry(w)'}
                    /\ \A e \in closed' : valid'[e] >= 1
                    /\ place'[w] \in {"flushReply"} => Loose!Entry(w)' \in closed'
                    /\ config.tcp => \A c \in Loose!Connections :
                          c < index'[w]
                            \/ (c = index'[w] /\ place'[w] \in {"conclude", "advance", "save"})
                          => c \in acked'[w]
  BY <1>c DEF AloneInv, Alone, Loose!Connections, Loose!NoEntry
<1>o. /\ config.kind = "rt" /\ Loose!OneAtATime /\ ~Loose!InterProtocol
      /\ place[w] \in EveryPlace \cup OneAtATimePlaces
  BY KindFacts DEF Alone, PlaceInv
<1>i. /\ place[w] \in {"register", "advance", "save"} => inflight = Loose!NoEntry
      /\ inflight \in {Loose!NoEntry, Loose!Entry(w)}
      /\ \A e \in closed : valid[e] >= 1
      /\ place[w] = "flushReply" => Loose!Entry(w) \in closed
      /\ config.tcp => \A c \in Loose!Connections :
            c < index[w] \/ (c = index[w] /\ place[w] \in {"conclude", "advance", "save"})
            => c \in acked[w]
  BY DEF AloneInv
<1>v. \A v \in Probers : v = w
  BY OnlyProber
<1>t. /\ index[w] \in Nat /\ LooseConnections \in Nat /\ closed \subseteq Loose!Entries
      /\ index'[w] \in Nat /\ \A c \in Loose!Connections : c \in Nat
      /\ valid \in [Loose!Entries -> Nat]
      /\ place \in [Probers -> OneAtATimePlaces \cup FixedPlaces \cup EveryPlace]
  BY LooseTypeStep, LooseRequestFacts DEF LooseTypeOK, LooseWorkerType, LooseRunType,
     Loose!Connections
<1>n. Loose!NoEntry' = Loose!NoEntry
  BY DEF Loose!NoEntry
<1>k. \/ Loose!Worker(w) /\ Route(w, place'[w])
      \/ place'[w] = place[w]
  BY Movers
<1>m. /\ index'[w] = index[w] \/ (place[w] = "advance" /\ place'[w] = "register"
                                  /\ index'[w] = index[w] + 1)
      /\ place'[w] = "flushReply" => \/ place[w] = "flushReply"
                                     \/ place[w] = "reply" /\ Loose!Entry(w) \in closed
      /\ place'[w] = "conclude" => \/ place[w] = "conclude"
                                   \/ place[w] = "flushReply" /\ acks[w] = <<>>
      /\ place'[w] = "advance" => place[w] \in {"conclude", "advance"}
      /\ place'[w] = "save" => place[w] \in {"advance", "save"}
      /\ place'[w] = "register" => place[w] \in {"advance", "register"}
  <2>1. index'[w] = index[w] \/ (place[w] = "advance" /\ place'[w] = "register"
                                 /\ index'[w] = index[w] + 1)
    BY <1>o, <1>t, Movers, LooseRequestFacts DEF Route, WaitPlaces
  <2>2. CASE Route(w, place'[w])
    <3> USE <1>o, <2>2 DEF Route, Follows, WaitPlaces, EveryPlace, LeavingPlaces,
            OneAtATimePlaces, Loose!FirstPoint, Loose!AfterRequest
    <3>1. place'[w] = "flushReply" => \/ place[w] = "flushReply"
                                      \/ place[w] = "reply" /\ Loose!Entry(w) \in closed
      OBVIOUS
    <3>2. place'[w] = "conclude" => \/ place[w] = "conclude"
                                    \/ place[w] = "flushReply" /\ acks[w] = <<>>
      OBVIOUS
    <3>3. place'[w] = "advance" => place[w] \in {"conclude", "advance"}
      OBVIOUS
    <3>4. place'[w] = "save" => place[w] \in {"advance", "save"}
      OBVIOUS
    <3>5. place'[w] = "register" => place[w] \in {"advance", "register"}
      OBVIOUS
    <3> QED
      BY <2>1, <3>1, <3>2, <3>3, <3>4, <3>5
  <2>3. CASE place'[w] = place[w]
    BY <2>1, <2>3
  <2> QED
    BY <1>k, <2>2, <2>3
<1>e. index'[w] = index[w] => Loose!Entry(w)' = Loose!Entry(w)
  BY EntryKept
<1>1. /\ place'[w] \in {"register", "advance", "save"} => inflight' = Loose!NoEntry
      /\ inflight' \in {Loose!NoEntry, Loose!Entry(w)'}
  <2>1. CASE inflight' = inflight
    <3>1. CASE place[w] = "conclude" /\ place'[w] = "advance"
      <4>1. Loose!Conclude(w)
        BY <3>1, Movers, ActionAt
      <4> QED
        BY <4>1, <1>i DEF Loose!Conclude, Loose!Remaining
    <3> QED
      BY <2>1, <3>1, <1>i, <1>m, <1>e
  <2>2. CASE \E v \in Probers : Loose!Register(v) /\ inflight' = Loose!Entry(v)
    <3>1. Loose!Register(w) /\ inflight' = Loose!Entry(w)
      BY <2>2, <1>v
    <3>2. index' = index /\ place'[w] = "send"
      BY <3>1, <1>t, <1>o DEF Loose!Register, Loose!Goto, Loose!FirstPoint
    <3> QED
      BY <3>1, <3>2, <1>e
  <2>3. CASE inflight' = Loose!NoEntry
    BY <2>3
  <2> QED
    BY <2>1, <2>2, <2>3, InflightEffect
<1>2. ASSUME NEW e \in closed' PROVE valid'[e] >= 1
  <2>1. ~ \E v \in Probers : Loose!Register(v) /\ e = inflight /\ e # Loose!NoEntry
    BY <1>v, <1>i DEF Loose!Register, Loose!At
  <2>2. CASE e \in closed
    <3>1. valid[e] >= 1 /\ valid[e] \in Nat /\ e \in Loose!Entries
      BY <2>2, <1>i, <1>t
    <3>2. valid'[e] >= valid[e] /\ valid'[e] \in Nat
      BY <3>1, ClosedEffect, LooseTypeStep DEF LooseTypeOK, LooseRunType, Loose!Entries
    <3> QED
      BY <3>1, <3>2
  <2> QED
    BY <2>1, <2>2, ClosedEffect
<1>3. place'[w] = "flushReply" => Loose!Entry(w)' \in closed'
  BY <1>m, <1>e, <1>i, InflightEffect
<1>4. ASSUME config.tcp, NEW c \in Loose!Connections,
             c < index'[w] \/ (c = index'[w] /\ place'[w] \in {"conclude", "advance", "save"})
      PROVE  c \in acked[w]
  <2>1. CASE c < index[w] \/ (c = index[w] /\ place[w] \in {"conclude", "advance", "save"})
    BY <1>4, <2>1, <1>i
  <2>2. CASE /\ ~(c < index[w]) /\ c = index[w]
             /\ place[w] = "flushReply" /\ acks[w] = <<>>
    <3>1. Loose!Entry(w) \in closed /\ valid[Loose!Entry(w)] >= 1
      BY <2>2, <1>i
    <3>2. index[w] \in Passed(w)
      BY <2>2, <3>1, <1>4, <1>o, ClosedPassed DEF Leaving, LeavingPlaces
    <3> QED
      BY <2>2, <3>2 DEF Passed, Waited
  <2> QED
    BY <2>1, <2>2, <1>4, <1>m, <1>t
<1> QED
  BY <1>1, <1>2, <1>3, <1>4, PassedEffect

\* A data request leaves after the ACK of its connection.
LEMMA LooseHandshakeStep ==
    ASSUME LooseTypeOK, UnsentInv, OwnerInv, FixedHandshakeInv, AloneInv, LooseHandshake,
           LooseStep
    PROVE  LooseHandshake'
<1>c. config' = config
  BY ConfigKept
<1> SUFFICES ASSUME config.tcp, NEW w \in Probers, NEW s \in Loose!Requests,
                    ~Loose!OpensConnection(s), sample'[w][s] # "empty"
             PROVE  \/ Loose!GetConnectionIndex(s) \in acked'[w]
                    \/ config.kind = "rt" /\ Cardinality(Probers) > 1
  BY <1>c DEF LooseHandshake, Loose!OpensConnection, Loose!Requests, Loose!GetConnectionIndex,
              Loose!RequestCount
<1>1. CASE sample[w][s] # "empty"
  BY <1>1, PassedEffect DEF LooseHandshake
<1>2. CASE sample[w][s] = "empty"
  <2> DEFINE c == Loose!GetConnectionIndex(s)
  <2>1. s = index[w]
    BY <1>2, SampleStep DEF Changes
  <2>2. /\ c \in Loose!Connections /\ s \in Nat /\ LooseConnections \in Nat
        /\ s >= LooseConnections /\ c < LooseConnections /\ c \in Nat
    BY LooseRequestFacts DEF Loose!OpensConnection, Loose!Connections
  <2> HIDE DEF c
  <2>3. CASE config.kind = "fixed"
    <3>1. Loose!Connections \subseteq acked[w]
      BY <2>1, <2>2, <2>3 DEF FixedHandshakeInv
    <3> QED
      BY <2>2, <3>1, PassedEffect DEF c
  <2>4. CASE config.kind = "rt"
    <3> SUFFICES ASSUME ~(Cardinality(Probers) > 1) PROVE c \in acked[w]
      BY <2>4, PassedEffect DEF c
    <3>1. Cardinality(Probers) \in Nat
      BY LooseProbeAssumption, FS_CardinalityType
    <3>2. Alone
      BY <2>4, <3>1 DEF Alone
    <3> QED
      BY <2>1, <2>2, <3>2 DEF AloneInv
  <2> QED
    BY <2>3, <2>4, KindFacts
<1> QED
  BY <1>1, <1>2

-----------------------------------------------------------------------------
(* Resets *)

\* Resets reach every connection that was acknowledged.
LEMMA LooseResetStep ==
    ASSUME LooseTypeOK, OwnerInv, ChannelInv, LooseResetInv, LooseStep
    PROVE  LooseResetInv'
<1> SUFFICES ASSUME NEW w \in Probers
             PROVE  /\ place'[w] \notin LeavingPlaces \/ place'[w] = "withdraw" => resetAt'[w] = 0
                    /\ place'[w] = "reset" => resetAt'[w] < LooseConnections
                    /\ place'[w] = "done" /\ config.tcp => resetAt'[w] = LooseConnections
                    /\ config.tcp => \A c \in acked'[w] :
                          c < resetAt'[w] => c \in resetTried'[w]
  BY ConfigKept DEF LooseResetInv, Leaving
<1>i. /\ place[w] \notin LeavingPlaces \/ place[w] = "withdraw" => resetAt[w] = 0
      /\ place[w] = "reset" => resetAt[w] < LooseConnections
      /\ place[w] = "done" /\ config.tcp => resetAt[w] = LooseConnections
      /\ config.tcp => \A c \in acked[w] : c < resetAt[w] => c \in resetTried[w]
  BY DEF LooseResetInv, Leaving
<1>t. /\ resetAt[w] \in Nat /\ LooseConnections \in Nat \ {0}
      /\ acked'[w] \subseteq Loose!Connections /\ acked[w] \subseteq ready[w]
      /\ \A c \in Loose!Connections : c \in Nat
  BY LooseTypeStep, LooseRequestFacts
     DEF LooseTypeOK, LooseWorkerType, ChannelInv, Loose!Connections
<1>1. CASE Loose!Worker(w) /\ place[w] # "reset" /\ resetAt' = resetAt /\ resetTried' = resetTried
  <2>1. Route(w, place'[w])
    BY <1>1, RouteEffect
  <2>2. place[w] # "done"
    BY <1>1, ActionAt DEF WaitPlaces
  <2>3. resetAt[w] = 0 /\ resetAt'[w] = 0
    BY <1>1, <1>i, <2>2 DEF LeavingPlaces
  <2>4. place'[w] = "done" => ~config.tcp
    BY <1>1, <2>1 DEF Route, Follows, WaitPlaces, Loose!FirstPoint, Loose!AfterRequest,
       Loose!AfterInterval
  <2>5. \A c \in acked'[w] : ~(c < 0)
    BY <1>t
  <2> QED
    BY <2>3, <2>4, <2>5, <1>t
<1>2. CASE /\ Loose!Worker(w) /\ place[w] = "reset" /\ resetAt'[w] = resetAt[w] + 1
           /\ acked' = acked
           /\ resetTried'[w] = resetTried[w] \cup ({resetAt[w]} \cap ready[w])
  <2>1. place'[w] = IF resetAt[w] + 1 < LooseConnections THEN "reset" ELSE "done"
    BY <1>2, RouteEffect DEF Route, WaitPlaces, Loose!ResetsLeft
  <2>2. resetAt[w] < LooseConnections
    BY <1>2, <1>i
  <2>3. config.tcp => \A c \in acked'[w] : c < resetAt'[w] => c \in resetTried'[w]
    <3> SUFFICES ASSUME config.tcp, NEW c \in acked'[w], c < resetAt[w] + 1
                 PROVE  c \in resetTried[w] \cup ({resetAt[w]} \cap ready[w])
      BY <1>2
    <3>1. c \in Nat /\ c \in acked[w] /\ c \in ready[w]
      BY <1>t, <1>2
    <3>2. c < resetAt[w] \/ c = resetAt[w]
      BY <3>1, <1>t
    <3> QED
      BY <3>1, <3>2, <1>i
  <2> QED
    BY <1>2, <2>1, <2>2, <2>3, <1>t DEF LeavingPlaces
<1>3. CASE ~Loose!Worker(w)
  <2>1. /\ place'[w] = place[w] /\ resetAt'[w] = resetAt[w] /\ acked'[w] = acked[w]
        /\ resetTried'[w] = resetTried[w]
    BY <1>3, OtherSteps, WorkerFrame DEF OthersFrame
  <2> QED
    BY <2>1, <1>i
<1> QED
  BY <1>1, <1>2, <1>3, ResetEffect

-----------------------------------------------------------------------------
(* What the saver has of an RT measurement *)

\* An RT record has every reply.
LEMMA RTRecordStep ==
    ASSUME LooseTypeOK, UnsentInv, OwnerInv, ContentInv, AnsweredInv, RTRecordFull, LooseStep
    PROVE  RTRecordFull'
<1> SUFFICES ASSUME config.kind = "rt", NEW w \in Probers
             PROVE  \A i \in DOMAIN record'[w] : record'[w][i] # "missing"
  BY ConfigKept DEF RTRecordFull
<1>1. CASE record'[w] = record[w]
  BY <1>1 DEF RTRecordFull
<1>2. CASE Loose!ReadSample(w)
  <2> DEFINE n == Len(record[w])
  <2>1. /\ n \in Nat /\ n \in Loose!Requests
        /\ DOMAIN record[w] = 1 .. n /\ DOMAIN record'[w] = 1 .. n + 1
        /\ \A i \in DOMAIN record[w] : record'[w][i] = record[w][i]
        /\ record'[w][n + 1] = ReadValue(w)
    BY <1>2, ReadRecord
  <2>2. w \in handedOver
    BY <1>2, ReadEffect
  <2>3. sample[w][n] = "received"
    BY <2>1, <2>2 DEF AnsweredInv
  <2>4. ReadValue(w) # "missing"
    BY <2>1, <2>3, LooseProbeAssumption DEF ReadValue, ContentInv
  <2> HIDE DEF n
  <2>5. \A i \in 1 .. n + 1 : i \in 1 .. n \/ i = n + 1
    BY <2>1
  <2> QED
    BY <2>1, <2>4, <2>5 DEF RTRecordFull
<1> QED
  BY <1>1, <1>2, RecordKept

-----------------------------------------------------------------------------
(* The invariant *)

\* A run begins with nothing sent, registered or recorded.
LEMMA LooseInitially == ASSUME Loose!Init PROVE LooseInv
<1> USE DEF Loose!Init
<1>0. /\ 0 \in Loose!Requests /\ \A s \in Loose!Requests : s \in Nat
      /\ LooseConnections \in Nat \ {0} /\ Loose!RequestCount \in Nat \ {0}
      /\ \A e \in Loose!Entries : e[1] \in Probers /\ e[2] \in Loose!Requests
  BY LooseRequestFacts DEF Loose!Entries
<1>f. \A S : S \subseteq Loose!Requests => Cardinality(S) >= 0
  BY FiniteRequests, FS_Subset, FS_CardinalityType
<1>g. \A S : S \subseteq Loose!Connections => Cardinality(S) >= 0
  BY FiniteRequests, FS_Subset, FS_CardinalityType
<1>h. \A r \in Capturers : holding[r] = Loose!Idle /\ holding[r].step = "idle"
  BY DEF Loose!Idle
<1>1. LooseTypeOK
  <2>1. LooseWorkerType
    BY <1>0 DEF LooseWorkerType, EveryPlace
  <2>2. LooseProbeType
    BY DEF LooseProbeType
  <2>3. LooseRunType
    <3>1. Loose!Idle \in LooseHeld
      BY DEF Loose!Idle, LooseHeld
    <3>2. holding \in [Capturers -> LooseHeld]
      BY <3>1
    <3>3. <<>> \in Seq(Probers \cup {"unset", "missing"})
      OBVIOUS
    <3>4. record \in [Probers -> Seq(Probers \cup {"unset", "missing"})]
      BY <3>3
    <3> QED
      BY <3>2, <3>4 DEF LooseRunType
  <2> QED
    BY <2>1, <2>2, <2>3 DEF LooseTypeOK
<1>2. PlaceInv /\ UnsentInv
  BY <1>0 DEF PlaceInv, UnsentInv, EveryPlace
<1>3. OwnerInv
  BY <1>h DEF OwnerInv, StoredSteps, OwnerSteps
<1>4. ContentInv
  BY DEF ContentInv
<1>5. RecordInv /\ RTRecordFull
  BY <1>0 DEF RecordInv, RecordWhole, RTRecordFull
<1>6. AnsweredInv /\ KeptInv
  BY <1>0 DEF AnsweredInv, KeptInv
<1>7. SettledInv
  <2> SUFFICES ASSUME NEW e \in Loose!Entries PROVE valid[e] <= Cardinality(Settled(e))
    BY DEF SettledInv
  <2>1. Cardinality(Settled(e)) >= 0
    BY <1>f DEF Settled
  <2> QED
    BY <2>1
<1>8. ServedInv /\ LooseCountedInv /\ TalliedInv /\ MissedInv
  <2>1. \A w \in Probers : ReasonsOf(w) = 0
    BY FS_EmptySet DEF ReasonsOf
  <2> QED
    BY <1>0, <2>1 DEF ServedInv, ServedPlaces, LooseCountedInv, Leaving, LeavingPlaces,
       TalliedInv, MissedInv
<1>9. ChannelInv
  BY <1>0, <1>h, LooseRequestFacts DEF ChannelInv, Waited, Loose!Connections
<1>10. HandshakesInv
  <2> SUFFICES ASSUME NEW w \in Probers PROVE handshakes[w] <= Cardinality(Established(w))
    BY DEF HandshakesInv
  <2>1. Cardinality(Established(w)) >= 0
    BY <1>g DEF Established
  <2> QED
    BY <2>1
<1>11. FixedHandshakeInv
  BY <1>0 DEF FixedHandshakeInv
<1>12. AloneInv
  BY <1>0 DEF AloneInv, Loose!Connections
<1>13. LooseHandshake
  BY DEF LooseHandshake
<1>14. LooseResetInv
  BY DEF LooseResetInv, Leaving, LeavingPlaces
<1> QED
  BY <1>1, <1>2, <1>3, <1>4, <1>5, <1>6, <1>7, <1>8, <1>9, <1>10, <1>11, <1>12, <1>13, <1>14
     DEF LooseInv

\* Every step keeps the invariant.
LEMMA LooseInductive == ASSUME LooseInv, LooseStep PROVE LooseInv'
<1> USE DEF LooseInv
<1>1. LooseTypeOK' /\ PlaceInv' /\ UnsentInv' /\ OwnerInv' /\ ContentInv'
  BY LooseTypeStep, PlaceStep, UnsentStep, OwnerStep, ContentStep
<1>2. RecordInv' /\ AnsweredInv' /\ RTRecordFull' /\ KeptInv'
  BY RecordStep, AnsweredStep, RTRecordStep, KeptStep
<1>3. SettledInv' /\ ServedInv' /\ LooseCountedInv' /\ TalliedInv' /\ MissedInv'
  BY SettledStep, ServedStep, LooseCountedStep, TalliedStep, MissedStep
<1>4. ChannelInv' /\ HandshakesInv' /\ FixedHandshakeInv' /\ AloneInv'
  BY ChannelStep, CountedHandshakesStep, FixedHandshakeStep, AloneStep
<1>5. LooseHandshake' /\ LooseResetInv'
  BY LooseHandshakeStep, LooseResetStep
<1> QED
  BY <1>1, <1>2, <1>3, <1>4, <1>5

\* The invariant holds in every run of the probes.
THEOREM LooseInvariant == ProbeSafety => []LooseInv
<1>1. ProbeInit => LooseInv
  BY LooseInitially DEF ProbeInit
<1>2. LooseInv /\ [ProbeNext]_<<strict, vars, looseVars>> => LooseInv'
  <2>1. [ProbeNext]_<<strict, vars, looseVars>> => LooseStep
    BY DEF ProbeNext, LooseReturned, LooseStep
  <2> QED
    BY <2>1, LooseInductive
<1> QED
  BY <1>1, <1>2, PTL DEF ProbeSafety

-----------------------------------------------------------------------------
(* What it implies *)

\* A record that is complete has the replies for which its probe was kept.
LEMMA RateKeptHolds == ASSUME LooseInv PROVE RateKept
<1> SUFFICES ASSUME config.kind = "fixed", NEW w \in Probers,
                    Len(record[w]) = Loose!RequestCount
             PROVE  Cardinality({i \in DOMAIN record[w] : record[w][i] # "missing"})
                        >= MinimumReplies
  BY DEF RateKept
<1>1. record[w] \in Seq(Probers \cup {"unset", "missing"}) /\ Loose!RequestCount \in Nat \ {0}
  BY LooseRequestFacts DEF LooseInv, LooseTypeOK, LooseRunType
<1>2. DOMAIN record[w] = 1 .. Loose!RequestCount /\ record[w] # <<>>
      /\ \A i \in DOMAIN record[w] : i <= Len(record[w])
  BY <1>1
<1>3. w \in handedOver
  BY <1>2 DEF LooseInv, RecordInv
<1>4. Kept(w) = {i \in DOMAIN record[w] : record[w][i] # "missing"}
  BY <1>2 DEF Kept
<1> QED
  BY <1>3, <1>4 DEF LooseInv, KeptInv

\* What is counted was received.
LEMMA CountedReceivedHolds == ASSUME LooseInv PROVE CountedReceived
<1> SUFFICES ASSUME NEW e \in Loose!Entries
             PROVE  valid[e] <= Cardinality({s \in Loose!Requests :
                        sample[e[1]][s] = "received" /\ (Loose!OneAtATime => s = e[2])})
  BY DEF CountedReceived
<1> DEFINE S == {s \in Loose!Requests :
                    sample[e[1]][s] = "received" /\ (Loose!OneAtATime => s = e[2])}
<1>1. IsFiniteSet(S)
  BY FiniteRequests, FS_Subset
<1>2. Settled(e) \subseteq S
  BY DEF Settled
<1> HIDE DEF S
<1>3. /\ Cardinality(Settled(e)) <= Cardinality(S)
      /\ Cardinality(Settled(e)) \in Nat /\ Cardinality(S) \in Nat
  BY <1>1, <1>2, Larger
<1>4. valid[e] \in Nat /\ valid[e] <= Cardinality(Settled(e))
  BY DEF LooseInv, SettledInv, LooseTypeOK, LooseRunType
<1> QED
  BY <1>3, <1>4 DEF S

\* The invariant implies all that is claimed of a loose probe.
LEMMA LooseSoundHolds == ASSUME LooseInv PROVE LooseSound
<1>1. RecordWhole /\ RTRecordFull /\ LooseHandshake
  BY DEF LooseInv, RecordInv
<1>2. EntryServed
  BY DEF LooseInv, ServedInv, EntryServed, ServedPlaces
<1>3. LooseCounted /\ MissesCounted
  BY DEF LooseInv, LooseCountedInv, MissedInv, LooseCounted, MissesCounted, Leaving,
     LeavingPlaces
<1>4. AcknowledgedReset
  <2> SUFFICES ASSUME NEW w \in Probers, config.tcp, place[w] = "done", NEW c \in acked[w]
               PROVE  c \in resetTried[w]
    BY DEF AcknowledgedReset
  <2>1. resetAt[w] = LooseConnections
    BY DEF LooseInv, LooseResetInv
  <2>2. c < LooseConnections
    BY LooseRequestFacts DEF LooseInv, LooseTypeOK, LooseWorkerType, Loose!Connections
  <2> QED
    BY <2>1, <2>2 DEF LooseInv, LooseResetInv
<1> QED
  BY <1>1, <1>2, <1>3, <1>4, RateKeptHolds, CountedReceivedHolds DEF LooseSound

\* A loose probe is served, counted once and recorded as it was answered, for every number
\* of requests, connections, workers of the address and receivers.
THEOREM LooseProbesSound == ProbeSafety => []LooseSound
BY LooseInvariant, LooseSoundHolds, PTL

=============================================================================
