------------------------------ MODULE LooseProbe ------------------------------
(***************************************************************************)
(* The probes that are not strict: measureRTBased and measureFixedInterval *)
(* for any other shape than 4 x 4, also with established TCP connections,  *)
(* and both modes of an interprotocol measurement (ipid/probe/probe.go).   *)
(* They have no lock and no verdict: workers, receivers and the saver meet *)
(* in the atomics of a sample, in the channels of a probe and in the       *)
(* in-flight registry (ipid/probe/inflight.go).                            *)
(*                                                                         *)
(* Several workers may probe one address, which then displace each other   *)
(* in the registry.  A receiver's step is one atomic operation of          *)
(* FulfillReply; a reply that is refused for a fixed field of the entry,   *)
(* for its capture time or because its sample is filled only increments a  *)
(* counter and is left out.                                                *)
(***************************************************************************)
EXTENDS Integers, Sequences, FiniteSets

CONSTANTS
    LooseConnections,   \* Config.ConnectionCount of a probe that is not strict
    LooseRequests,      \* Config.RequestsPerConnection
    MinimumReplies,     \* the number of replies that meets MinimumReplyRate
    Probers,            \* workers that probe the address
    Capturers           \* the capture goroutines

RequestCount == LooseConnections * LooseRequests
Requests == 0 .. RequestCount - 1
Connections == 0 .. LooseConnections - 1

OpensConnection(seq) == seq < LooseConnections
GetConnectionIndex(seq) == seq % LooseConnections

\* What the measurement is configured for; ports holds the requests whose protocol has
\* ports, which in an interprotocol measurement are some.
Configurations ==
    [kind : {"rt", "fixed"}, tcp : {FALSE}, ports : {{}, Requests}]
        \cup [kind : {"rt", "fixed"}, tcp : {TRUE}, ports : {Requests}]
        \cup [kind : {"interRT", "interFixed"}, tcp : {FALSE}, ports : {{0}}]

VARIABLES
    config,      \* the measurement's configuration
    place,       \* per worker: where it is
    index,       \* per worker: the loop variable seqNum
    sample,      \* per worker and request: the state of the sample
    content,     \* per worker and request: whose answer the fields of the sample hold
    ready,       \* per worker: connections with tcpAckReady
    acks,        \* per worker: tcpACKReplies
    handshakes,  \* per worker: tcpHandshakeCount
    acked,       \* per worker: connections whose SYN-ACK it has acknowledged
    resetAt,     \* per worker: loop variable of resetTCPConnections
    resetTried,  \* per worker: connections whose reset it has tried
    resetFailed, \* per worker: those of them whose reset was not sent
    handedOver,  \* workers whose probe is on SaveProbesChannel
    counted,     \* per worker: drop counters it incremented, those of its resets included
    timedOut,    \* per worker: requests counted as timed out without ending the probe
    inflight,    \* the registry's entry for the address
    valid,       \* per entry: validCount
    closed,      \* entries whose done channel is closed
    holding,     \* per receiver: the entry it looked up, the reply and the next step
    record,      \* per worker: what the saver has read, sample by sample
    stopped,     \* StopSignal is closed
    limiterOff   \* the limiter was stopped

resetVars == <<resetAt, resetTried, resetFailed>>
workerVars == <<place, index, acked, resetVars, handedOver, counted, timedOut>>
probeVars == <<sample, content, ready, acks, handshakes>>
registryVars == <<inflight, valid, closed>>
runVars == <<config, stopped, limiterOff>>
looseVars == <<workerVars, probeVars, registryVars, holding, record, runVars>>

OneAtATime == config.kind \in {"rt", "interRT"}
InterProtocol == config.kind \in {"interRT", "interFixed"}

\* A worker has an entry per request, or one for all of them; a tuple names it.
NoEntry == <<>>
Entry(w) == <<w, IF OneAtATime THEN index[w] ELSE 0>>
Entries == Probers \X Requests
ExpectedCount == IF OneAtATime THEN 1 ELSE RequestCount

Idle == [step |-> "idle"]

Init ==
    /\ config \in Configurations
    /\ place = [w \in Probers |-> "register"]
    /\ index = [w \in Probers |-> 0]
    /\ sample = [w \in Probers |-> [s \in Requests |-> "empty"]]
    /\ content = [w \in Probers |-> [s \in Requests |-> "unset"]]
    /\ ready = [w \in Probers |-> {}]
    /\ acks = [w \in Probers |-> <<>>]
    /\ handshakes = [w \in Probers |-> 0]
    /\ acked = [w \in Probers |-> {}]
    /\ resetAt = [w \in Probers |-> 0]
    /\ resetTried = [w \in Probers |-> {}]
    /\ resetFailed = [w \in Probers |-> {}]
    /\ handedOver = {}
    /\ counted = [w \in Probers |-> 0]
    /\ timedOut = [w \in Probers |-> {}]
    /\ inflight = NoEntry
    /\ valid = [e \in Entries |-> 0]
    /\ closed = {}
    /\ holding = [r \in Capturers |-> Idle]
    /\ record = [w \in Probers |-> <<>>]
    /\ stopped = FALSE
    /\ limiterOff = FALSE

-----------------------------------------------------------------------------
(* The worker *)

At(w, point) == place[w] = point
Goto(w, point) == place' = [place EXCEPT ![w] = point]

CountDrop(w) == counted' = [counted EXCEPT ![w] = @ + 1]

\* A drop is counted, the entry is withdrawn and connections are reset.
Drop(w) == CountDrop(w) /\ Goto(w, "withdraw")

FirstPoint == IF OneAtATime THEN "send" ELSE "flushTop"

\* Inflight.Register: an entry that is already there is marked done.
Displaced == {inflight} \ {NoEntry}

Register(w) ==
    /\ At(w, "register")
    /\ closed' = closed \cup Displaced
    /\ inflight' = Entry(w)
    /\ Goto(w, FirstPoint)
    /\ UNCHANGED <<index, acked, resetVars, handedOver, counted, timedOut, probeVars,
                   valid, holding, record, runVars>>

\* Inflight.Deregister: only the worker's own entry is removed.
Remaining(w) == IF inflight = Entry(w) THEN NoEntry ELSE inflight

AfterInterval(w) ==
    IF config.tcp /\ index[w] + 1 = LooseConnections THEN "handshakes" ELSE "advance"

AfterRequest(w) ==
    IF OneAtATime THEN "reply"
    ELSE IF index[w] + 1 < RequestCount THEN "interval" ELSE AfterInterval(w)

\* prepareTCPPacket and sendPacket: refused for a connection that is not open, refused by
\* the limiter, sent, or failed at the socket after MarkSent.
Send(w) ==
    /\ At(w, "send")
    /\ IF \/ config.tcp /\ ~OpensConnection(index[w])
               /\ GetConnectionIndex(index[w]) \notin ready[w]
          \/ limiterOff
       THEN Drop(w) /\ UNCHANGED sample
       ELSE /\ sample' = [sample EXCEPT ![w][index[w]] = "sent"]
            /\ \/ Goto(w, AfterRequest(w)) /\ UNCHANGED counted
               \/ Drop(w)
    /\ UNCHANGED <<index, acked, resetVars, handedOver, timedOut, content, ready, acks,
                   handshakes, registryVars, holding, record, runVars>>

\* tcpSendACK for the connection at the head of tcpACKReplies.
SendACK(w) ==
    /\ acks[w] # <<>>
    /\ acks' = [acks EXCEPT ![w] = Tail(@)]
    /\ \/ /\ ~limiterOff
          /\ acked' = [acked EXCEPT ![w] = @ \cup {Head(acks[w])}]
          /\ UNCHANGED <<place, counted>>
       \/ Drop(w) /\ UNCHANGED acked

FlushPoints == {"flushTop", "flushReply", "flushHandshakes", "flushEnd"}

AfterFlush(w) ==
    CASE At(w, "flushTop") -> "send"
      [] At(w, "flushReply") -> "conclude"
      [] At(w, "flushHandshakes") -> "advance"
      [] At(w, "flushEnd") -> "finish"

FlushTCPACKs(w) ==
    /\ place[w] \in FlushPoints
    /\ \/ SendACK(w)
       \/ acks[w] = <<>> /\ Goto(w, AfterFlush(w)) /\ UNCHANGED <<acks, acked, counted>>
    /\ UNCHANGED <<index, resetVars, handedOver, timedOut, sample, content, ready,
                   handshakes, registryVars, holding, record, runVars>>

Proceed(w, point) == Goto(w, point) /\ UNCHANGED <<acks, acked, counted>>
Interrupted(w) == stopped /\ Drop(w) /\ UNCHANGED <<acks, acked>>

\* The select of measureRTBased and of measureInterProtocolRT, which counts the timeout but
\* goes on without the reply when its timer fires.
Miss(w) ==
    /\ CountDrop(w)
    /\ timedOut' = [timedOut EXCEPT ![w] = @ \cup {index[w]}]
    /\ Goto(w, "conclude")
    /\ UNCHANGED <<acks, acked>>

AwaitReply(w) ==
    /\ At(w, "reply")
    /\ \/ /\ Entry(w) \in closed
          /\ Proceed(w, IF InterProtocol THEN "conclude" ELSE "flushReply")
          /\ UNCHANGED timedOut
       \/ InterProtocol /\ Miss(w)
       \/ ~InterProtocol /\ Drop(w) /\ UNCHANGED <<acks, acked, timedOut>>
       \/ Interrupted(w) /\ UNCHANGED timedOut
    /\ UNCHANGED <<index, resetVars, handedOver, sample, content, ready, handshakes,
                   registryVars, holding, record, runVars>>

\* The end of a request in RT mode: Deregister, and IsReceived unless the schedule is an
\* interprotocol one, which keeps missing samples.
DoneIsAnswered(w) == TRUE

Answered(w) == sample[w][index[w]] = "received"

Conclude(w) ==
    /\ At(w, "conclude")
    /\ inflight' = Remaining(w)
    /\ IF InterProtocol \/ Answered(w)
       THEN Goto(w, "advance") /\ UNCHANGED counted
       ELSE Drop(w)
    /\ UNCHANGED <<index, acked, resetVars, handedOver, timedOut, probeVars, valid,
                   closed, holding, record, runVars>>

\* waitInterval: without connections it sleeps and does not look at StopSignal.
WaitInterval(w) ==
    /\ At(w, "interval")
    /\ \/ Proceed(w, AfterInterval(w))
       \/ config.tcp /\ (SendACK(w) \/ Interrupted(w))
    /\ UNCHANGED <<index, resetVars, handedOver, timedOut, sample, content, ready,
                   handshakes, registryVars, holding, record, runVars>>

WaitForTCPHandshakes(w) ==
    /\ At(w, "handshakes")
    /\ \/ handshakes[w] >= LooseConnections /\ Proceed(w, "flushHandshakes")
       \/ SendACK(w)
       \/ Drop(w) /\ UNCHANGED <<acks, acked>>
       \/ Interrupted(w)
    /\ UNCHANGED <<index, resetVars, handedOver, timedOut, sample, content, ready,
                   handshakes, registryVars, holding, record, runVars>>

\* Both entry.done and the timer end the wait.
WaitForFixedReplies(w) ==
    /\ At(w, "replies")
    /\ \/ Proceed(w, "flushEnd")
       \/ SendACK(w)
       \/ Interrupted(w)
    /\ UNCHANGED <<index, resetVars, handedOver, timedOut, sample, content, ready,
                   handshakes, registryVars, holding, record, runVars>>

Advance(w) ==
    /\ At(w, "advance")
    /\ IF index[w] + 1 < RequestCount
       THEN /\ index' = [index EXCEPT ![w] = @ + 1]
            /\ Goto(w, IF OneAtATime THEN "register" ELSE "flushTop")
       ELSE Goto(w, IF OneAtATime THEN "save" ELSE "replies") /\ UNCHANGED index
    /\ UNCHANGED <<acked, resetVars, handedOver, counted, timedOut, probeVars,
                   registryVars, holding, record, runVars>>

\* finishFixedProbe up to its select.
Received(w) == {s \in Requests : sample[w][s] = "received"}

FinishFixedProbe(w) ==
    /\ At(w, "finish")
    /\ IF InterProtocol \/ Cardinality(Received(w)) >= MinimumReplies
       THEN Goto(w, "save") /\ UNCHANGED counted
       ELSE Drop(w)
    /\ UNCHANGED <<index, acked, resetVars, handedOver, timedOut, probeVars, registryVars,
                   holding, record, runVars>>

\* The select on SaveProbesChannel and StopSignal; measureInterProtocolRT does not count
\* the interrupt.
Uncounted(w) == Goto(w, "withdraw") /\ UNCHANGED counted

InterruptedSave(w) == IF config.kind = "interRT" THEN Uncounted(w) ELSE Drop(w)

Save(w) ==
    /\ At(w, "save")
    /\ \/ handedOver' = handedOver \cup {w} /\ Goto(w, "withdraw") /\ UNCHANGED counted
       \/ /\ stopped
          /\ InterruptedSave(w)
          /\ UNCHANGED handedOver
    /\ UNCHANGED <<index, acked, resetVars, timedOut, probeVars, registryVars, holding,
                   record, runVars>>

\* The Deregister of every way out.
Withdraw(w) ==
    /\ At(w, "withdraw")
    /\ inflight' = Remaining(w)
    /\ Goto(w, IF config.tcp THEN "reset" ELSE "done")
    /\ UNCHANGED <<index, acked, resetVars, handedOver, counted, timedOut, probeVars,
                   valid, closed, holding, record, runVars>>

\* One connection of resetTCPConnections; a reset that cannot be built, is refused by the
\* limiter or fails at the socket is counted and not tried again.
ResetsLeft(w) == resetAt[w] + 1 < LooseConnections

ResetTCPConnections(w) ==
    /\ At(w, "reset")
    /\ resetAt' = [resetAt EXCEPT ![w] = @ + 1]
    /\ resetTried' = [resetTried EXCEPT ![w] = @ \cup ({resetAt[w]} \cap ready[w])]
    /\ \/ (resetAt[w] \in ready[w] => ~limiterOff) /\ UNCHANGED <<counted, resetFailed>>
       \/ /\ resetAt[w] \in ready[w]
          /\ CountDrop(w)
          /\ resetFailed' = [resetFailed EXCEPT ![w] = @ \cup {resetAt[w]}]
    /\ Goto(w, IF ResetsLeft(w) THEN "reset" ELSE "done")
    /\ UNCHANGED <<index, acked, handedOver, timedOut, probeVars, registryVars, holding,
                   record, runVars>>

-----------------------------------------------------------------------------
(* The receivers *)

\* The fixed fields of an entry: its range of requests and, where the protocol has ports,
\* the port of its probe.
PortMatches(w, from, s) == s \in config.ports => from = w

\* The decoder keeps the entry it looked up.  A reply answers a request that was sent.
Lookup(r) ==
    /\ holding[r] = Idle
    /\ inflight # NoEntry
    /\ \E from \in Probers, s \in Requests :
          /\ sample[from][s] # "empty"
          /\ OneAtATime => s = inflight[2]
          /\ PortMatches(inflight[1], from, s)
          /\ sample[inflight[1]][s] = "sent"
          /\ holding' = [holding EXCEPT ![r] =
                [step |-> "fill", entry |-> inflight, seq |-> s, from |-> from]]
    /\ UNCHANGED <<workerVars, probeVars, registryVars, record, runVars>>

Step(r, next) == holding' = [holding EXCEPT ![r] = [@ EXCEPT !.step = next]]
Finish(r) == holding' = [holding EXCEPT ![r] = Idle]
Prober(r) == holding[r].entry[1]

\* TryFill: the first to swap the state owns the sample.
Swapped == "pending"

Fillable(state) == state = "sent"

TryFill(r) ==
    /\ holding[r].step = "fill"
    /\ LET w == Prober(r)  s == holding[r].seq IN
       IF Fillable(sample[w][s])
       THEN sample' = [sample EXCEPT ![w][s] = Swapped] /\ Step(r, "store")
       ELSE Finish(r) /\ UNCHANGED sample
    /\ UNCHANGED <<workerVars, content, ready, acks, handshakes, registryVars, record,
                   runVars>>

\* The fields are written, then the state says so.
StoreReply(r) ==
    /\ holding[r].step = "store"
    /\ LET w == Prober(r)  s == holding[r].seq IN
       /\ content' = [content EXCEPT ![w][s] = holding[r].from]
       /\ sample' = [sample EXCEPT ![w][s] = "received"]
       /\ Step(r, IF config.tcp /\ OpensConnection(s) THEN "ready" ELSE "valid")
    /\ UNCHANGED <<workerVars, ready, acks, handshakes, registryVars, record, runVars>>

\* What follows an accepted SYN-ACK: tcpAckReady, the channel, the count.
CountBeforeQueue(step) ==
    CASE step = "ready" -> "handshake" [] step = "handshake" -> "queue"
      [] step = "queue" -> "valid"

StepAfter(step) ==
    CASE step = "ready" -> "queue" [] step = "queue" -> "handshake"
      [] step = "handshake" -> "valid"

AcceptSYNACK(r) ==
    /\ holding[r].step \in {"ready", "queue", "handshake"}
    /\ LET w == Prober(r)
           c == GetConnectionIndex(holding[r].seq)
           step == holding[r].step
       IN  /\ ready' = IF step = "ready" THEN [ready EXCEPT ![w] = @ \cup {c}] ELSE ready
           /\ acks' = IF step = "queue" THEN [acks EXCEPT ![w] = Append(@, c)] ELSE acks
           /\ handshakes' = IF step = "handshake" THEN [handshakes EXCEPT ![w] = @ + 1]
                            ELSE handshakes
           /\ Step(r, StepAfter(step))
    /\ UNCHANGED <<workerVars, sample, content, registryVars, record, runVars>>

\* validCount, and done when it reaches the expected count.
CountValid(r) ==
    /\ holding[r].step = "valid"
    /\ LET e == holding[r].entry IN
       /\ valid' = [valid EXCEPT ![e] = @ + 1]
       /\ closed' = IF valid[e] + 1 >= ExpectedCount THEN closed \cup {e} ELSE closed
    /\ Finish(r)
    /\ UNCHANGED <<workerVars, probeVars, inflight, record, runVars>>

-----------------------------------------------------------------------------
(* The saver and the shutdown *)

\* probeToRecord reads one sample after the other.
ReadSample(w) ==
    /\ w \in handedOver /\ Len(record[w]) < RequestCount
    /\ LET s == Len(record[w]) IN
       record' = [record EXCEPT ![w] =
           Append(@, IF sample[w][s] = "received" THEN content[w][s] ELSE "missing")]
    /\ UNCHANGED <<workerVars, probeVars, registryVars, holding, runVars>>

TriggerStop ==
    /\ \/ ~stopped /\ stopped' = TRUE /\ UNCHANGED limiterOff
       \/ stopped /\ ~limiterOff /\ limiterOff' = TRUE /\ UNCHANGED stopped
    /\ UNCHANGED <<workerVars, probeVars, registryVars, holding, record, config>>

Worker(w) ==
    \/ Register(w) \/ Send(w) \/ FlushTCPACKs(w) \/ AwaitReply(w) \/ Conclude(w)
    \/ WaitInterval(w) \/ WaitForTCPHandshakes(w) \/ WaitForFixedReplies(w) \/ Advance(w)
    \/ FinishFixedProbe(w) \/ Save(w) \/ Withdraw(w) \/ ResetTCPConnections(w)

Receiver(r) ==
    Lookup(r) \/ TryFill(r) \/ StoreReply(r) \/ AcceptSYNACK(r) \/ CountValid(r)

Returned == \A w \in Probers : At(w, "done")

Next ==
    \/ \E w \in Probers : Worker(w) \/ ReadSample(w)
    \/ \E r \in Capturers : Receiver(r)
    \/ TriggerStop
=============================================================================
