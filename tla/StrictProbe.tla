----------------------------- MODULE StrictProbe -----------------------------
(***************************************************************************)
(* One strict ("Base", 4 x 4) probe of one target: the worker goroutine    *)
(* that runs MeasureTarget, the capture goroutines that judge replies, and *)
(* the shutdown that may interrupt both.  Source: ipid/probe/base.go and   *)
(* ipid/probe/probe.go, with the lookup of ipid/receiver/decoder.go.       *)
(*                                                                         *)
(* Everything a goroutine does while it holds p.mu is one step, so the     *)
(* steps interleave exactly where the code releases the lock: between the  *)
(* lookup of an entry and its judgement, between the grant of the rate     *)
(* limiter and the transmission, and between a wake-up and what follows.   *)
(*                                                                         *)
(* Time is abstract: a timer may fire whenever a select waits on it, and a *)
(* reply says itself whether its capture time is before the send time, in  *)
(* time or late.                                                           *)
(***************************************************************************)
EXTENDS Integers, Sequences, FiniteSets

CONSTANTS
    ConnectionCount,         \* Config.ConnectionCount (4 in a strict probe)
    RequestsPerConnection,   \* Config.RequestsPerConnection (4 in a strict probe)
    MeasurementMode,         \* "rt_based" or "fixed_interval"
    TcpEstablishConnection,  \* TRUE when connections are opened and acknowledged
    Receivers                \* the capture goroutines, one per interface

ASSUME StrictProbeAssumption ==
    /\ ConnectionCount \in Nat \ {0}
    /\ RequestsPerConnection \in Nat \ {0}
    /\ MeasurementMode \in {"rt_based", "fixed_interval"}
    /\ TcpEstablishConnection \in BOOLEAN

RequestCount == ConnectionCount * RequestsPerConnection
Requests == 0 .. RequestCount - 1
Connections == 0 .. ConnectionCount - 1

GetConnectionIndex(seq) == seq % ConnectionCount

\* GetRequestIndex(seq) = 0: the request that opens its connection.
OpensConnection(seq) == seq < ConnectionCount

RTBased == MeasurementMode = "rt_based"

(***************************************************************************)
(* Replies, by the request they name, what the checks find wrong with them *)
(* and, in a reply with no defect, whether it carries TCP payload.         *)
(* Whatever else is wrong - destination, protocol, port, request index,    *)
(* capture time, reset, flags, delay, TCP sequence - fails the probe in    *)
(* the same way, so that one defective reply stands for all; its counter   *)
(* is not modelled.  Packets that never reach the probe (fragments,        *)
(* transport decode errors) change nothing and are left out.               *)
(***************************************************************************)
Replies ==
    [seq : Requests, defect : {"none"},
     data : IF TcpEstablishConnection THEN BOOLEAN ELSE {FALSE}]
        \cup [seq : {0}, defect : {"some"}, data : {FALSE}]

NoReply == [seq |-> 0, defect |-> "idle", data |-> FALSE]

VARIABLES
    status,          \* p.status
    samples,         \* state of every p.Samples[seq]
    replyReady,      \* p.replyReady holds its token (capacity 1)
    tcpAckReady,     \* connections whose SYN-ACK was accepted
    acknowledgments, \* p.tcpAcknowledgments, in units of "SYN" and "payload"
    tcpACKReplies,   \* the channel of connections that wait for an empty ACK
    handshakeCount,  \* p.tcpHandshakeCount
    validCount,      \* entry.validCount
    registered,      \* the entry is in the in-flight registry
    pc,              \* where the worker is
    seqNum,          \* the worker's loop variable
    sending,         \* the packet the worker is about to transmit
    resetNext,       \* loop variable of resetTCPConnections
    capture,         \* per receiver: the reply it looked up and not yet judged
    stopSignal,      \* measurement.StopSignal is closed
    limiterStopped,  \* sender.Limiter was stopped
    wireAck,         \* acknowledgment of the last empty ACK sent per connection
    sentPackets,     \* stats.SentPackets, this target's share
    resets,          \* fate of each connection's cleanup RST
    saved,           \* the probe was put on SaveProbesChannel
    drops            \* number of probe drop counters this target incremented

probeVars == <<status, drops>>
tcpVars == <<tcpAckReady, acknowledgments, tcpACKReplies, handshakeCount>>
workerVars == <<pc, seqNum, sending, resetNext>>
wireVars == <<wireAck, sentPackets, resets>>
runVars == <<stopSignal, limiterStopped>>

\* All but the probe's verdict and the worker's control state.
dataVars == <<samples, replyReady, tcpVars, validCount, registered, capture,
              runVars, wireVars, saved>>

vars == <<probeVars, workerVars, dataVars>>

\* The capacity tcpACKReplies is made with.
AckSingleSlot == 1

AckQueueCapacity == RequestCount

(***************************************************************************)
(* Program counters of the worker.  The four calls of flushTCPACKs differ  *)
(* in what follows them.                                                   *)
(***************************************************************************)
FlushPoints == {"flushTop", "flushReply", "flushHandshakes", "flushEnd"}
SelectPoints == {"baseReply", "interval", "handshakes", "fixedReplies"}
Points == FlushPoints \cup SelectPoints \cup
    {"start", "prepare", "limiter", "socket", "advance", "finish", "complete",
     "save", "deregister", "reset", "return", "done"}

Packets == [kind : {"request", "ack", "reset"}, connection : Connections,
            ack : Nat, back : Points]

AfterFlush ==
    IF pc = "flushTop" THEN "prepare" ELSE IF pc = "flushEnd" THEN "finish" ELSE "advance"

LoopStart == IF RTBased THEN "prepare" ELSE "flushTop"

AfterInterval ==
    IF TcpEstablishConnection /\ seqNum + 1 = ConnectionCount
    THEN "handshakes" ELSE "advance"

AfterRequest ==
    IF RTBased THEN "baseReply"
    ELSE IF seqNum + 1 < RequestCount THEN "interval" ELSE AfterInterval

-----------------------------------------------------------------------------
Init ==
    /\ status = "active"
    /\ samples = [s \in Requests |-> "empty"]
    /\ replyReady = FALSE
    /\ tcpAckReady = {}
    /\ acknowledgments = [c \in Connections |-> 0]
    /\ tcpACKReplies = <<>>
    /\ handshakeCount = 0
    /\ validCount = 0
    /\ registered = FALSE
    /\ pc = "start"
    /\ seqNum = 0
    /\ sending = [kind |-> "request", connection |-> 0, ack |-> 0, back |-> "start"]
    /\ resetNext = 0
    /\ capture = [r \in Receivers |-> NoReply]
    /\ stopSignal = FALSE
    /\ limiterStopped = FALSE
    /\ wireAck = [c \in Connections |-> 0]
    /\ sentPackets = 0
    /\ resets = [c \in Connections |-> "none"]
    /\ saved = FALSE
    /\ drops = 0

Goto(point) == pc' = point /\ UNCHANGED <<seqNum, sending, resetNext>>

\* failLocked with a reason: the first failure decides; later ones count nothing.
FailRecounts == status' = "failed" /\ drops' = drops + 1

Fail ==
    IF status = "active"
    THEN status' = "failed" /\ drops' = drops + 1
    ELSE UNCHANGED probeVars

\* The worker gives up: p.fail(reason), return false.
Abort == Fail /\ Goto("deregister")

-----------------------------------------------------------------------------
(* The worker: registration and the request loop *)

\* Inflight.Register and entry into the loop.
Register ==
    /\ pc = "start"
    /\ registered' = TRUE
    /\ Goto(LoopStart)
    /\ UNCHANGED <<probeVars, samples, replyReady, tcpVars, validCount, capture,
                   runVars, wireVars, saved>>

\* prepareTCPPacket, with the failure its callers report.
Prepare ==
    /\ pc = "prepare"
    /\ LET c == GetConnectionIndex(seqNum) IN
       IF TcpEstablishConnection /\ ~OpensConnection(seqNum) /\ c \notin tcpAckReady
       THEN Abort
       ELSE /\ pc' = "limiter"
            /\ sending' = [kind |-> "request", connection |-> c,
                           ack |-> acknowledgments[c], back |-> AfterRequest]
            /\ UNCHANGED <<probeVars, seqNum, resetNext>>
    /\ UNCHANGED dataVars

\* The limiter watches p.failed for every packet but the cleanup resets.
Cancelled == sending.kind # "reset" /\ status = "failed"

LimiterGrant ==
    /\ pc = "limiter"
    /\ ~limiterStopped /\ ~Cancelled
    /\ Goto("socket")
    /\ UNCHANGED <<probeVars, dataVars>>

\* A cleanup reset is not sent, which has a counter whatever the verdict was.
ResetFails(c) ==
    /\ resets' = [resets EXCEPT ![c] = "failed"]
    /\ drops' = drops + 1
    /\ UNCHANGED status

LimiterRefuse ==
    /\ pc = "limiter"
    /\ limiterStopped \/ Cancelled
    /\ IF sending.kind = "reset"
       THEN ResetFails(sending.connection) /\ Goto("reset")
       ELSE Abort /\ UNCHANGED resets
    /\ UNCHANGED <<samples, replyReady, tcpVars, validCount, registered, capture,
                   runVars, wireAck, sentPackets, saved>>

\* SendIf with the ready callback of sendPacket: p.mu is held from the status
\* test over MarkSent to the end of sendmsg.
ReadyAlways == TRUE

ReadyToSend == status = "active"

SendPacket ==
    /\ pc = "socket" /\ sending.kind # "reset"
    /\ IF ~ReadyToSend
       THEN Goto("deregister") /\ UNCHANGED <<probeVars, samples, wireAck, sentPackets>>
       ELSE /\ samples' = IF sending.kind = "request"
                          THEN [samples EXCEPT ![seqNum] = "sent"] ELSE samples
            /\ \/ /\ wireAck' = IF sending.kind = "ack"
                                THEN [wireAck EXCEPT ![sending.connection] = sending.ack]
                                ELSE wireAck
                  /\ sentPackets' = sentPackets + 1
                  /\ Goto(sending.back)
                  /\ UNCHANGED probeVars
               \/ Abort /\ UNCHANGED <<wireAck, sentPackets>>
    /\ UNCHANGED <<replyReady, tcpVars, validCount, registered, capture, runVars,
                   resets, saved>>

\* The head of tcpACKReplies is taken and tcpSendACK builds its empty ACK.
TakeACK ==
    /\ tcpACKReplies # <<>>
    /\ tcpACKReplies' = Tail(tcpACKReplies)
    /\ LET c == Head(tcpACKReplies) IN
       sending' = [kind |-> "ack", connection |-> c, ack |-> acknowledgments[c],
                   back |-> pc]
    /\ pc' = "limiter"
    /\ UNCHANGED <<probeVars, replyReady, seqNum, resetNext, tcpAckReady,
                   acknowledgments, handshakeCount>>

FlushNothing ==
    /\ pc \in FlushPoints
    /\ Goto(AfterFlush)
    /\ UNCHANGED <<probeVars, dataVars>>

FlushTCPACKs ==
    /\ pc \in FlushPoints
    /\ \/ TakeACK
       \/ /\ tcpACKReplies = <<>>
          /\ Goto(AfterFlush)
          /\ UNCHANGED <<probeVars, replyReady, tcpVars>>
    /\ UNCHANGED <<samples, validCount, registered, capture, runVars, wireVars, saved>>

-----------------------------------------------------------------------------
(* The worker: the four selects *)

\* case <-p.failed and case <-measurement.StopSignal, in every select.
FailedOrStopped ==
    /\ UNCHANGED <<replyReady, tcpVars>>
    /\ \/ status = "failed" /\ Goto("deregister") /\ UNCHANGED probeVars
       \/ stopSignal /\ Abort

\* case <-timer.C where the timer ends the wait with a failure.
TimeoutNever == FALSE /\ UNCHANGED vars

TimeoutFails == Abort /\ UNCHANGED <<replyReady, tcpVars>>

\* A case that only moves on.
Proceed(point) == Goto(point) /\ UNCHANGED <<probeVars, replyReady, tcpVars>>

\* Receiving from replyReady takes its token.
ReplyTokenStays == replyReady /\ UNCHANGED replyReady

TakeReplyToken == replyReady /\ replyReady' = FALSE

WaitForBaseReply ==
    /\ pc = "baseReply"
    /\ \/ /\ TakeReplyToken
          /\ Goto("flushReply")
          /\ UNCHANGED <<probeVars, tcpVars>>
       \/ TimeoutFails
       \/ FailedOrStopped
    /\ UNCHANGED <<samples, validCount, registered, capture, runVars, wireVars, saved>>

WaitInterval ==
    /\ pc = "interval"
    /\ \/ Proceed(AfterInterval)
       \/ TakeACK
       \/ FailedOrStopped
    /\ UNCHANGED <<samples, validCount, registered, capture, runVars, wireVars, saved>>

\* tcpHandshakeDone is closed.
HandshakesDone == handshakeCount >= ConnectionCount

WaitForTCPHandshakes ==
    /\ pc = "handshakes"
    /\ \/ HandshakesDone /\ Proceed("flushHandshakes")
       \/ TakeACK
       \/ TimeoutFails
       \/ FailedOrStopped
    /\ UNCHANGED <<samples, validCount, registered, capture, runVars, wireVars, saved>>

\* The entry's done channel and the timer both lead to the last flush.
WaitForFixedReplies ==
    /\ pc = "fixedReplies"
    /\ \/ validCount >= RequestCount /\ Proceed("flushEnd")
       \/ Proceed("flushEnd")
       \/ TakeACK
       \/ FailedOrStopped
    /\ UNCHANGED <<samples, validCount, registered, capture, runVars, wireVars, saved>>

\* The loop variable's increment and the end of the loop.
RequestsLeft == seqNum + 1 < RequestCount

Advance ==
    /\ pc = "advance"
    /\ IF RequestsLeft
       THEN /\ seqNum' = seqNum + 1
            /\ pc' = LoopStart
            /\ UNCHANGED <<sending, resetNext>>
       ELSE Goto(IF RTBased THEN "complete" ELSE "fixedReplies")
    /\ UNCHANGED <<probeVars, dataVars>>

-----------------------------------------------------------------------------
(* The worker: the verdict and the deferred clean-up *)

\* finishFixedProbe up to complete: a strict probe has minimumRate = 1, so it
\* needs every reply.
SomeReplies == \E s \in Requests : samples[s] = "received"

ReplyRateMet == \A s \in Requests : samples[s] = "received"

FinishFixedProbe ==
    /\ pc = "finish"
    /\ IF ReplyRateMet THEN Goto("complete") /\ UNCHANGED probeVars
       ELSE Abort
    /\ UNCHANGED dataVars

Complete ==
    /\ pc = "complete"
    /\ IF status = "active"
       THEN status' = "complete" /\ Goto("save") /\ UNCHANGED drops
       ELSE Goto("deregister") /\ UNCHANGED probeVars
    /\ UNCHANGED dataVars

\* The select on SaveProbesChannel and StopSignal.
Save ==
    /\ pc = "save"
    /\ \/ saved' = TRUE /\ UNCHANGED drops
       \/ /\ stopSignal
          /\ drops' = drops + 1
          /\ UNCHANGED saved
    /\ Goto("deregister")
    /\ UNCHANGED <<status, samples, replyReady, tcpVars, validCount, registered,
                   capture, runVars, wireVars>>

Deregister ==
    /\ pc = "deregister"
    /\ registered' = FALSE
    /\ Goto(IF TcpEstablishConnection THEN "reset" ELSE "return")
    /\ UNCHANGED <<probeVars, samples, replyReady, tcpVars, validCount, capture,
                   runVars, wireVars, saved>>

\* One iteration of resetTCPConnections, or the end of its loop.  The packet is
\* built and sent, or cannot be built, which is counted as a send error.
ResetTCPConnections ==
    /\ pc = "reset"
    /\ \/ /\ resetNext \in tcpAckReady
          /\ sending' = [kind |-> "reset", connection |-> resetNext,
                         ack |-> acknowledgments[resetNext], back |-> "reset"]
          /\ pc' = "limiter"
          /\ UNCHANGED <<probeVars, resets>>
       \/ /\ resetNext \in tcpAckReady
          /\ ResetFails(resetNext)
          /\ UNCHANGED <<pc, sending>>
       \/ /\ resetNext \notin tcpAckReady
          /\ pc' = IF resetNext < ConnectionCount THEN "reset" ELSE "return"
          /\ UNCHANGED <<probeVars, sending, resets>>
    /\ resetNext' = IF resetNext < ConnectionCount THEN resetNext + 1 ELSE resetNext
    /\ UNCHANGED <<seqNum, samples, replyReady, tcpVars, validCount, registered, capture,
                   runVars, wireAck, sentPackets, saved>>

\* sendPacket of a reset: no probe, so no status test.
SendReset ==
    /\ pc = "socket" /\ sending.kind = "reset"
    /\ \/ /\ resets' = [resets EXCEPT ![sending.connection] = "sent"]
          /\ sentPackets' = sentPackets + 1
          /\ UNCHANGED probeVars
       \/ ResetFails(sending.connection) /\ UNCHANGED sentPackets
    /\ Goto("reset")
    /\ UNCHANGED <<samples, replyReady, tcpVars, validCount, registered,
                   capture, runVars, wireAck, saved>>

\* The deferred probe.fail(nil).
Return ==
    /\ pc = "return"
    /\ status' = IF status = "active" THEN "failed" ELSE status
    /\ Goto("done")
    /\ UNCHANGED <<drops, samples, replyReady, tcpVars, validCount, registered,
                   capture, runVars, wireVars, saved>>

-----------------------------------------------------------------------------
(* The receivers *)

\* The decoder looks the source up and keeps the entry; a packet of a source
\* that is not registered is ignored.  What answers no request that was sent is
\* defective, by its capture time if by nothing else.
Lookup(r) ==
    /\ capture[r] = NoReply
    /\ registered
    /\ \E reply \in Replies :
          /\ reply.defect = "none" => samples[reply.seq] # "empty"
          /\ capture' = [capture EXCEPT ![r] = reply]
    /\ UNCHANGED <<probeVars, samples, replyReady, tcpVars, validCount, registered,
                   workerVars, runVars, wireVars, saved>>

\* What AcceptProtocol, RejectBaseReply and fulfillBaseReply let pass: the reply
\* belongs to the target, its request was sent and is unanswered (else it is
\* counted as unsent or dup), and nothing else is wrong with it.
Acceptable(reply) ==
    /\ reply.defect = "none"
    /\ samples[reply.seq] = "sent"
    /\ TcpEstablishConnection /\ ~OpensConnection(reply.seq)
          => GetConnectionIndex(reply.seq) \in tcpAckReady

\* The accepted SYN-ACK or data reply: what it acknowledges and whether the
\* worker has an empty ACK to send.
AcceptTCPUnqueued(reply) ==
    LET c == GetConnectionIndex(reply.seq)
    IN  /\ acknowledgments' = [acknowledgments EXCEPT ![c] = @ + 1]
        /\ IF OpensConnection(reply.seq)
           THEN /\ tcpAckReady' = tcpAckReady \cup {c}
                /\ tcpACKReplies' = Append(tcpACKReplies, c)
                /\ handshakeCount' = handshakeCount + 1
           ELSE UNCHANGED <<tcpAckReady, tcpACKReplies, handshakeCount>>

AcceptTCP(reply) ==
    LET c == GetConnectionIndex(reply.seq)
        length == IF reply.data THEN 1 ELSE 0
    IN  IF OpensConnection(reply.seq)
        THEN /\ acknowledgments' = [acknowledgments EXCEPT ![c] = 1 + length]
             /\ tcpAckReady' = tcpAckReady \cup {c}
             /\ tcpACKReplies' = Append(tcpACKReplies, c)
             /\ handshakeCount' = handshakeCount + 1
        ELSE /\ acknowledgments' = [acknowledgments EXCEPT ![c] = @ + length]
             /\ tcpACKReplies' = IF reply.data THEN Append(tcpACKReplies, c)
                                 ELSE tcpACKReplies
             /\ UNCHANGED <<tcpAckReady, handshakeCount>>

Accept(reply) ==
    /\ samples' = [samples EXCEPT ![reply.seq] = "received"]
    /\ validCount' = validCount + 1
    /\ replyReady' = (replyReady \/ RTBased)
    /\ IF TcpEstablishConnection THEN AcceptTCP(reply) ELSE UNCHANGED tcpVars
    /\ UNCHANGED probeVars

\* fulfillBaseReply (or the rejection before it) under p.mu.
JudgeAlways == TRUE

StillActive == status = "active"

FulfillBaseReply(r) ==
    /\ capture[r] # NoReply
    /\ capture' = [capture EXCEPT ![r] = NoReply]
    /\ LET reply == capture[r] IN
       IF StillActive /\ Acceptable(reply) THEN Accept(reply)
       ELSE Fail /\ UNCHANGED <<samples, replyReady, tcpVars, validCount>>
    /\ UNCHANGED <<registered, workerVars, runVars, wireVars, saved>>

-----------------------------------------------------------------------------
(* Shutdown *)

\* triggerStop, and cleanup stopping the limiter of an interrupted run.
TriggerStop ==
    /\ ~stopSignal
    /\ stopSignal' = TRUE
    /\ UNCHANGED <<probeVars, samples, replyReady, tcpVars, validCount, registered,
                   workerVars, capture, limiterStopped, wireVars, saved>>

StopRateLimiter ==
    /\ stopSignal /\ ~limiterStopped
    /\ limiterStopped' = TRUE
    /\ UNCHANGED <<probeVars, samples, replyReady, tcpVars, validCount, registered,
                   workerVars, capture, stopSignal, wireVars, saved>>

-----------------------------------------------------------------------------
Worker ==
    \/ Register \/ Prepare \/ LimiterGrant \/ LimiterRefuse \/ SendPacket
    \/ FlushTCPACKs \/ WaitForBaseReply \/ WaitInterval \/ WaitForTCPHandshakes
    \/ WaitForFixedReplies \/ Advance \/ FinishFixedProbe \/ Complete \/ Save
    \/ Deregister \/ ResetTCPConnections \/ SendReset \/ Return

Receiver(r) == Lookup(r) \/ FulfillBaseReply(r)

\* The measurement goes on with other targets when this one is finished.
Finished == pc = "done" /\ UNCHANGED vars

Next == Worker \/ (\E r \in Receivers : Receiver(r)) \/ TriggerStop
        \/ StopRateLimiter \/ Finished

Spec == Init /\ [][Next]_vars

-----------------------------------------------------------------------------
(* Properties *)

TypeOK ==
    /\ status \in {"active", "failed", "complete"}
    /\ samples \in [Requests -> {"empty", "sent", "received"}]
    /\ replyReady \in BOOLEAN
    /\ tcpAckReady \subseteq Connections
    /\ acknowledgments \in [Connections -> Nat]
    /\ tcpACKReplies \in Seq(Connections)
    /\ handshakeCount \in Nat
    /\ validCount \in Nat
    /\ registered \in BOOLEAN
    /\ pc \in Points
    /\ seqNum \in Requests
    /\ sending \in Packets
    /\ resetNext \in 0 .. ConnectionCount
    /\ capture \in [Receivers -> Replies \cup {NoReply}]
    /\ stopSignal \in BOOLEAN
    /\ limiterStopped \in BOOLEAN
    /\ wireAck \in [Connections -> Nat]
    /\ sentPackets \in Nat
    /\ resets \in [Connections -> {"none", "sent", "failed"}]
    /\ saved \in BOOLEAN
    /\ drops \in Nat

\* Only complete results are saved: a probe on SaveProbesChannel has a reply
\* to each of its requests and was never failed (measureBaseRT, finishFixedProbe).
SavedComplete ==
    saved => status = "complete" /\ \A s \in Requests : samples[s] = "received"

\* The connections whose cleanup reset was not sent.
FailedResets == {c \in Connections : resets[c] = "failed"}

\* What is counted besides: why the target was not saved.
DropReasons == drops - Cardinality(FailedResets)

\* Every target is accounted for once: when the worker returns, the target was
\* either saved or counted under exactly one drop reason, whichever of the
\* worker, the receivers and the shutdown got to p.mu first (failLocked).  Besides, its
\* counters hold one send error or limiter stop for each cleanup reset that was not sent
\* (README.md: "Existing send-error counters also include failures when sending TCP
\* cleanup resets"), and nothing else.
CountedOnce ==
    /\ DropReasons \in {0, 1}
    /\ pc = "done" => (saved <=> DropReasons = 0)

\* In RT mode one request is outstanding at a time: a request is sent only when
\* all earlier ones are answered, so the token of an earlier reply never
\* releases a later wait (replyReady has capacity 1 and a non-blocking send).
OneOutstanding ==
    RTBased => \A s, t \in Requests :
        s < t /\ samples[t] # "empty" => samples[s] = "received"

\* An accepted SYN-ACK is acknowledged by an empty ACK of its own before the
\* first data request of its connection leaves (flushTCPACKs before Prepare).
HandshakeAcknowledged ==
    TcpEstablishConnection => \A s \in Requests :
        ~OpensConnection(s) /\ samples[s] # "empty" => wireAck[GetConnectionIndex(s)] > 0

\* When an RT probe is saved the worker has acknowledged all the payload the server
\* sent: nothing is left on tcpACKReplies and the last ACK was not stale.  (In a
\* fixed-interval probe a reply may be accepted after the last flush.)
PayloadAcknowledged ==
    saved /\ RTBased /\ TcpEstablishConnection => tcpACKReplies = <<>> /\ wireAck = acknowledgments

\* A receiver that queues an ACK holds p.mu: a full channel would block it, and
\* the worker that empties the channel with it.  The channel never overflows.
AckQueueFits == Len(tcpACKReplies) <= AckQueueCapacity

\* No connection is left open: every connection whose SYN-ACK was accepted gets
\* its cleanup reset tried, though the receivers run on while the worker resets.
NoConnectionLeaked ==
    pc = "done" => \A c \in tcpAckReady : resets[c] # "none"

\* A strict probe never comes to a data request without an accepted SYN-ACK, so
\* the false branch of prepareTCPPacket (drop as not_received) is never taken.
HandshakeBeforeData ==
    pc = "prepare" /\ TcpEstablishConnection /\ ~OpensConnection(seqNum)
        => GetConnectionIndex(seqNum) \in tcpAckReady

\* What a server sees of an established connection is a proper conversation: its SYN-ACK
\* is awaited and acknowledged before data follows, and all it sent is acknowledged when
\* an RT probe is saved.
ProperConversation == HandshakeAcknowledged /\ HandshakeBeforeData /\ PayloadAcknowledged

\* Results are frozen: once a probe failed or completed, no reply that is still
\* queued in a receiver changes its samples or its TCP state.
FrozenResult ==
    [][status # "active" => UNCHANGED <<samples, tcpAckReady, acknowledgments>>]_vars

\* Once a probe failed or completed, only cleanup resets are sent for it, also
\* when the failure comes while the packet waits for the limiter (sendPacket).
SilentAfterVerdict ==
    [][status # "active" /\ sentPackets' # sentPackets => sending.kind = "reset"]_vars

=============================================================================
