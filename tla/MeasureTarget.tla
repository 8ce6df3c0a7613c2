---------------------------- MODULE MeasureTarget ----------------------------
(***************************************************************************)
(* MeasureTarget and Save: a probe is a strict one (StrictProbe) when its  *)
(* shape is 4 x 4 and the measurement has one protocol, and a loose one    *)
(* (LooseProbe) otherwise.                                                 *)
(***************************************************************************)
EXTENDS StrictProbe, SeqNum

CONSTANTS LooseConnections, LooseRequests, MinimumReplies, Probers, Capturers

ASSUME LooseProbeAssumption ==
    /\ LooseConnections \in Nat \ {0} /\ LooseRequests \in Nat \ {0}
    /\ MinimumReplies \in 0 .. LooseConnections * LooseRequests
    /\ IsFiniteSet(Probers)
    /\ {"unset", "missing"} \cap Probers = {}   \* what content and record hold besides

VARIABLES
    strict,  \* probe.strict
    config, place, index, sample, content, ready, acks, handshakes, acked, resetAt,
    resetTried, resetFailed, handedOver, counted, timedOut, inflight, valid, closed, holding,
    record, stopped, limiterOff

Loose == INSTANCE LooseProbe

looseVars ==
    <<config, place, index, sample, content, ready, acks, handshakes, acked, resetAt,
      resetTried, resetFailed, handedOver, counted, timedOut, inflight, valid, closed, holding,
      record, stopped, limiterOff>>

ProbeInit ==
    /\ strict \in BOOLEAN
    /\ Init
    /\ Loose!Init
    /\ strict => config = CHOOSE c \in Loose!Configurations : TRUE

LooseReturned == ~strict /\ Loose!Returned /\ UNCHANGED <<vars, looseVars>>

ProbeNext ==
    /\ UNCHANGED strict
    /\ \/ strict /\ Next /\ UNCHANGED looseVars
       \/ ~strict /\ Loose!Next /\ UNCHANGED vars
       \/ LooseReturned

ProbeSafety == ProbeInit /\ [][ProbeNext]_<<strict, vars, looseVars>>

\* A worker is a goroutine that always has something to do: every select has a timer, the
\* limiter grants or is stopped, the saver drains its channel.
ProbeSpec ==
    /\ ProbeSafety
    /\ WF_vars(strict /\ Worker /\ UNCHANGED <<strict, looseVars>>)
    /\ \A w \in Probers :
          WF_looseVars(~strict /\ Loose!Worker(w) /\ UNCHANGED <<strict, vars>>)

-----------------------------------------------------------------------------
(* Properties of the probes that are not strict *)

\* What the saver writes for a request was stored completely before it was read, although
\* receivers go on filling samples of a probe that has been handed over, and where the
\* protocol has ports it answers a request of this probe (TryFill, IsReceived).
RecordWhole ==
    \A w \in Probers : \A i \in DOMAIN record[w] :
        /\ record[w][i] # "unset"
        /\ i - 1 \in config.ports => record[w][i] \in {w, "missing"}

\* A record of an RT measurement has every reply, also when another probe of the address
\* displaced the entry and so ended the wait (Register, measureRTBased).
RTRecordFull ==
    config.kind = "rt" =>
        \A w \in Probers : \A i \in DOMAIN record[w] : record[w][i] # "missing"

\* A record of a fixed-interval measurement still has the replies for which it was kept
\* (finishFixedProbe counts, the saver reads later).
RateKept ==
    config.kind = "fixed" =>
        \A w \in Probers : Len(record[w]) = Loose!RequestCount =>
            Cardinality({i \in DOMAIN record[w] : record[w][i] # "missing"}) >= MinimumReplies

\* A wait that ends because enough replies were counted has those replies: two receivers
\* with copies of one reply count it once (TryFill, validCount, markDone).
CountedReceived ==
    \A e \in Loose!Entries :
        valid[e] <= Cardinality({s \in Loose!Requests :
            sample[e[1]][s] = "received" /\ (Loose!OneAtATime => s = e[2])})

\* A worker that waits for replies can be reached: its entry is the registered one, or
\* its wait is over because another worker displaced it (Register, Deregister).
EntryServed ==
    \A w \in Probers :
        place[w] \in {"send", "reply", "interval", "handshakes", "replies"} =>
            inflight = Loose!Entry(w) \/ Loose!Entry(w) \in closed

\* What a worker has counted besides the requests it went on without and the cleanup
\* resets it could not send.
ReasonsOf(w) == counted[w] - Cardinality(timedOut[w]) - Cardinality(resetFailed[w])

\* A target is handed to the saver or counted under one drop reason, but for the interrupt
\* at the save of measureInterProtocolRT.  Timeouts of that schedule and failed resets are
\* counted besides, once per request and per connection.
LooseCounted ==
    \A w \in Probers :
        /\ ReasonsOf(w) \in {0, 1}
        /\ ReasonsOf(w) = 1 => w \notin handedOver
        /\ place[w] = "done" /\ ReasonsOf(w) = 0 =>
               w \in handedOver \/ (config.kind = "interRT" /\ stopped)

\* The schedule of measureInterProtocolRT goes on from a request only when its wait was
\* ended, by a reply or by another probe of the address, or was counted as a timeout: no
\* request of a probe that is handed over is missing unaccounted.
MissesCounted ==
    config.kind = "interRT" => \A w \in Probers : \A s \in Loose!Requests :
        s < index[w] \/ w \in handedOver => s \in timedOut[w] \/ <<w, s>> \in closed

\* A data request leaves on an established connection only after the empty ACK for its
\* SYN-ACK; in RT mode a displaced probe may be ahead of its receiver.
LooseHandshake ==
    config.tcp => \A w \in Probers : \A s \in Loose!Requests :
        ~Loose!OpensConnection(s) /\ sample[w][s] # "empty" =>
            \/ Loose!GetConnectionIndex(s) \in acked[w]
            \/ config.kind = "rt" /\ Cardinality(Probers) > 1

\* A target that is about to be probed, over connections or without, will have its replies
\* attributed to the requests they answer, for every offset that Run may draw although
\* sequence numbers wrap (TCPSequenceNumber, FromTCPAcknowledgment, extractTCP).
RepliesAttributed ==
    /\ strict /\ pc = "start" => RequestRecovered(ConnectionCount, RequestsPerConnection)
    /\ ~strict /\ (\A w \in Probers : place[w] = "register") =>
          RequestRecovered(LooseConnections, LooseRequests)

\* A connection that was acknowledged is reset when the worker returns.
AcknowledgedReset ==
    \A w \in Probers : config.tcp /\ place[w] = "done" => acked[w] \subseteq resetTried[w]

\* A loose probe is served, counted once and recorded as it was answered, though neither a
\* lock nor a verdict keeps receivers, other probes of the address and the saver apart.
LooseSound ==
    /\ RecordWhole /\ RTRecordFull /\ RateKept
    /\ CountedReceived /\ EntryServed /\ LooseCounted /\ MissesCounted
    /\ LooseHandshake /\ AcknowledgedReset

\* A worker returns from every target: no wait lacks a timer and no loop of ACKs or
\* resets runs forever, whatever the receivers and other workers do.
Termination == <>(IF strict THEN pc = "done" ELSE Loose!Returned)
=============================================================================
