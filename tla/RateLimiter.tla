----------------------------- MODULE RateLimiter -----------------------------
(***************************************************************************)
(* The token bucket that all workers share: ipid/sender/ratelimit.go.      *)
(* Time passes in ticks and tokens are integers: a packet costs PacketCost *)
(* units, so a rate below one packet per tick can be expressed.  Every     *)
(* step of AcquireUntil between two unlocks of rl.mu is one action.        *)
(***************************************************************************)
EXTENDS Integers

CONSTANTS
    Callers,         \* the workers
    FrameSizes,      \* sizes of the frames they send
    BytesPerTick,    \* bytesPerSecond, 0 = no limit
    PacketsPerTick,  \* packetsPerSecond in packet units, 0 = no limit
    PacketCost,      \* the units of one packet
    BurstTicks,      \* burstDuration
    MaxElapsed,      \* bound: ticks that fill any bucket
    MaxAcquires,     \* bound: frames a caller sends
    WindowTicks      \* bound: length of the observed time window

ASSUME RateLimiterAssumption ==
    /\ FrameSizes \subseteq Nat \ {0}
    /\ BytesPerTick \in Nat /\ PacketsPerTick \in Nat
    /\ PacketCost \in Nat \ {0}
    /\ BurstTicks \in Nat \ {0}
    /\ MaxElapsed \in Nat /\ MaxElapsed >= BurstTicks
    /\ \A f \in FrameSizes : BytesPerTick > 0 => f <= BytesPerTick * MaxElapsed
    /\ MaxAcquires \in Nat /\ WindowTicks \in Nat

VARIABLES
    burstBytes, availBytes,   \* rl.burstBytes, rl.availBytes
    availPackets,             \* rl.availPackets
    elapsed,                  \* ticks since rl.last
    stopped,                  \* rl.stopped and rl.done
    cancelled,                \* callers whose cancelled channel is closed
    call,                     \* per caller: where it is
    frame,                    \* per caller: the frame of its current call
    acquires,                 \* per caller: calls made
    window                    \* ghost: ticks and grants of the window, if open

vars == <<burstBytes, availBytes, availPackets, elapsed, stopped, cancelled,
          call, frame, acquires, window>>

burstPackets == PacketsPerTick * BurstTicks

NoWindow == [open |-> FALSE, ticks |-> 0, packets |-> 0]

\* The bucket starts half full.
Init ==
    /\ burstBytes = BytesPerTick * BurstTicks
    /\ availBytes = (BytesPerTick * BurstTicks) \div 2
    /\ availPackets = burstPackets \div 2
    /\ elapsed = 0
    /\ stopped = FALSE
    /\ cancelled = {}
    /\ call = [c \in Callers |-> "idle"]
    /\ frame = [c \in Callers |-> 1]
    /\ acquires = [c \in Callers |-> 0]
    /\ window = NoWindow

-----------------------------------------------------------------------------
AtMost(bound, n) == IF n > bound THEN bound ELSE n

\* refill(now), capped by the burst.
Refill(avail, rate, burst) == AtMost(burst, avail + elapsed * rate)

\* A frame larger than the burst raises it.
AdaptNever(bytes) == burstBytes

AdaptBurst(bytes) ==
    IF BytesPerTick > 0 /\ bytes > burstBytes THEN bytes ELSE burstBytes

\* The two tests after the refill; a rate of zero does not limit.
EnoughBytesOnly(bytes, packets, frameBytes) == BytesPerTick = 0 \/ bytes >= frameBytes

Enough(bytes, packets, frameBytes) ==
    /\ BytesPerTick = 0 \/ bytes >= frameBytes
    /\ PacketsPerTick = 0 \/ packets >= PacketCost

\* One pass of the loop of AcquireUntil, from rl.mu.Lock to rl.mu.Unlock.
Grant(c, bytes, packets) ==
    /\ call' = [call EXCEPT ![c] = "granted"]
    /\ availBytes' = IF BytesPerTick > 0 THEN bytes - frame'[c] ELSE bytes
    /\ availPackets' = IF PacketsPerTick > 0 THEN packets - PacketCost ELSE packets
    /\ window' = IF window.open THEN [window EXCEPT !.packets = @ + 1] ELSE window

\* WakeUp leaves cancelled alone; a new call may be on behalf of a new probe.
RefuseCancelledOnly(c) == c \in cancelled'

MustRefuse(c) == stopped \/ c \in cancelled'

TryAcquire(c) ==
    IF MustRefuse(c)
    THEN /\ call' = [call EXCEPT ![c] = "refused"]
         /\ UNCHANGED <<availBytes, availPackets, elapsed, window>>
    ELSE LET bytes == Refill(availBytes, BytesPerTick, burstBytes')
             packets == Refill(availPackets, PacketsPerTick, burstPackets)
         IN  /\ elapsed' = 0
             /\ IF Enough(bytes, packets, frame'[c]) THEN Grant(c, bytes, packets)
                ELSE /\ call' = [call EXCEPT ![c] = "waiting"]
                     /\ availBytes' = bytes /\ availPackets' = packets
                     /\ UNCHANGED window

\* AcquireUntil is called.
AcquireUntil(c) ==
    /\ call[c] \in {"idle", "granted", "refused"}
    /\ acquires[c] < MaxAcquires
    /\ acquires' = [acquires EXCEPT ![c] = @ + 1]
    /\ \E f \in FrameSizes : frame' = [frame EXCEPT ![c] = f]
    /\ burstBytes' = AdaptBurst(frame'[c])
    /\ cancelled' \in {cancelled, cancelled \ {c}}
    /\ TryAcquire(c)
    /\ UNCHANGED stopped

\* The timer of the wait fires, or rl.done wakes the caller: lock and try again.
\* The computed wait only delays the wake-up, so it may come at any time.
WakeUp(c) ==
    /\ call[c] = "waiting"
    /\ UNCHANGED <<acquires, frame, burstBytes, stopped, cancelled>>
    /\ TryAcquire(c)

\* The select of the wait sees the closed cancelled channel.
CancelledWhileWaiting(c) ==
    /\ call[c] = "waiting" /\ c \in cancelled
    /\ call' = [call EXCEPT ![c] = "refused"]
    /\ UNCHANGED <<burstBytes, availBytes, availPackets, elapsed, stopped, cancelled,
                   frame, acquires, window>>

\* The probe of a caller fails: its channel is closed.
Cancel(c) ==
    /\ c \notin cancelled
    /\ cancelled' = cancelled \cup {c}
    /\ UNCHANGED <<burstBytes, availBytes, availPackets, elapsed, stopped, call,
                   frame, acquires, window>>

Stop ==
    /\ ~stopped
    /\ stopped' = TRUE
    /\ UNCHANGED <<burstBytes, availBytes, availPackets, elapsed, cancelled, call,
                   frame, acquires, window>>

-----------------------------------------------------------------------------
(* Time, and the ghost window that observes what is granted within it *)

\* Ticks not yet credited are counted as far as they can fill the bucket.
Tick ==
    /\ elapsed' = AtMost(MaxElapsed, elapsed + 1)
    /\ window' = IF ~window.open THEN window
                 ELSE IF window.ticks < WindowTicks
                      THEN [window EXCEPT !.ticks = @ + 1] ELSE NoWindow
    /\ UNCHANGED <<burstBytes, availBytes, availPackets, stopped, cancelled, call,
                   frame, acquires>>

OpenWindow ==
    /\ ~window.open
    /\ window' = [NoWindow EXCEPT !.open = TRUE]
    /\ UNCHANGED <<burstBytes, availBytes, availPackets, elapsed, stopped, cancelled,
                   call, frame, acquires>>

-----------------------------------------------------------------------------
Next ==
    \/ \E c \in Callers :
          AcquireUntil(c) \/ WakeUp(c) \/ CancelledWhileWaiting(c) \/ Cancel(c)
    \/ Stop \/ Tick \/ OpenWindow

Spec == Init /\ [][Next]_vars

\* Time passes and the timer of a waiting caller fires.  Nothing makes a caller
\* call, a probe fail or the run stop.
FairSpec ==
    /\ Spec
    /\ WF_vars(Tick)
    /\ \A c \in Callers : WF_vars(WakeUp(c))

-----------------------------------------------------------------------------
(* Properties *)

TypeOK ==
    /\ burstBytes \in Nat /\ availBytes \in Nat /\ availPackets \in Nat
    /\ availBytes <= burstBytes /\ availPackets <= burstPackets
    /\ elapsed \in 0 .. MaxElapsed
    /\ stopped \in BOOLEAN
    /\ cancelled \subseteq Callers
    /\ call \in [Callers -> {"idle", "waiting", "granted", "refused"}]
    /\ frame \in [Callers -> Nat]
    /\ acquires \in [Callers -> 0 .. MaxAcquires]
    /\ window \in [open : BOOLEAN, ticks : 0 .. WindowTicks, packets : Nat]

\* The packet limit holds over every window of time, wherever it begins: at most
\* one burst plus what the rate allows during the window is granted, however the
\* callers and the lazy refill interleave.
PacketRateRespected ==
    window.open /\ PacketsPerTick > 0 =>
        window.packets * PacketCost <= burstPackets + window.ticks * PacketsPerTick

\* Stop and cancel are final: no caller that starts or wakes afterwards gets a
\* token of the stopped limiter or for the failed probe.
NoGrantAfterStop ==
    [][\A c \in Callers :
          acquires'[c] # acquires[c] \/ call[c] = "waiting" =>
              ~((stopped \/ c \in cancelled') /\ call'[c] = "granted")]_vars

\* Every call returns: a caller that waits is granted its frame or refused.
AcquireReturns == \A c \in Callers : call[c] = "waiting" ~> call[c] # "waiting"

\* Stop and the failure of a probe release its waiting caller, whatever the rate.
ReleasedByStop ==
    \A c \in Callers :
        call[c] = "waiting" /\ (stopped \/ c \in cancelled) ~> call[c] # "waiting"

=============================================================================
