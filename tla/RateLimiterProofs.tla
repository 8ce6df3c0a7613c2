-------------------------- MODULE RateLimiterProofs --------------------------
(***************************************************************************)
(* Proofs about RateLimiter for every rate, burst, frame size, number of   *)
(* callers and window length.  IInv is the inductive invariant.            *)
(***************************************************************************)
EXTENDS RateLimiter, TLAPS

\* The packet tokens a refill would find now: those that are in the bucket and
\* those that the time since the last refill has earned.
Tokens == Refill(availPackets, PacketsPerTick, burstPackets)

(***************************************************************************)
(* What the window has granted and what could still be granted at once is  *)
(* covered by one burst and the rate.  The lazy refill needs Tokens here,  *)
(* not availPackets: ticks from before the window may be credited in it.   *)
(***************************************************************************)
BudgetInv ==
    window.open /\ PacketsPerTick > 0 =>
        window.packets * PacketCost + Tokens
            <= burstPackets + window.ticks * PacketsPerTick

IInv == TypeOK /\ BudgetInv

-----------------------------------------------------------------------------
(* Facts about the operators *)

\* The packet burst is a number, and full after MaxElapsed ticks.
LEMMA BurstFacts ==
    /\ burstPackets \in Nat
    /\ burstPackets <= MaxElapsed * PacketsPerTick
    /\ \A n \in Nat : n * PacketsPerTick \in Nat /\ n * BytesPerTick \in Nat
<1>1. PacketsPerTick * BurstTicks \in Nat
  BY RateLimiterAssumption
<1>2. \A n \in Nat : n * PacketsPerTick \in Nat /\ n * BytesPerTick \in Nat
  BY RateLimiterAssumption
<1>3. PacketsPerTick * BurstTicks <= MaxElapsed * PacketsPerTick
  BY RateLimiterAssumption
<1> QED
  BY <1>1, <1>2, <1>3 DEF burstPackets

\* A refill stays within the burst and takes nothing away.
LEMMA RefillBound ==
    ASSUME NEW avail \in Nat, NEW rate \in Nat, NEW burst \in Nat,
           avail <= burst, elapsed \in Nat
    PROVE /\ Refill(avail, rate, burst) \in Nat
          /\ avail <= Refill(avail, rate, burst)
          /\ Refill(avail, rate, burst) <= burst
<1>1. elapsed * rate \in Nat
  OBVIOUS
<1> QED
  BY <1>1 DEF Refill, AtMost

\* So there are never more tokens than a burst.
LEMMA TokensBound ==
    TypeOK => Tokens \in Nat /\ Tokens <= burstPackets /\ burstPackets \in Nat
<1> SUFFICES ASSUME TypeOK
             PROVE Tokens \in Nat /\ Tokens <= burstPackets /\ burstPackets \in Nat
  OBVIOUS
<1>1. /\ availPackets \in Nat /\ availPackets <= burstPackets /\ elapsed \in Nat
      /\ burstPackets \in Nat /\ PacketsPerTick \in Nat
  BY RateLimiterAssumption, BurstFacts DEF TypeOK
<1> QED
  BY <1>1, RefillBound DEF Tokens

\* One pass of the loop of AcquireUntil keeps the buckets within their bursts and
\* the window within its budget.
LEMMA TryAcquireFacts ==
    ASSUME IInv, NEW c \in Callers, TryAcquire(c),
           burstBytes' \in Nat, burstBytes <= burstBytes', frame' \in [Callers -> Nat]
    PROVE /\ availBytes' \in Nat /\ availBytes' <= burstBytes'
          /\ availPackets' \in Nat /\ availPackets' <= burstPackets
          /\ elapsed' \in 0 .. MaxElapsed
          /\ call' \in [Callers -> {"idle", "waiting", "granted", "refused"}]
          /\ window' \in [open : BOOLEAN, ticks : 0 .. WindowTicks, packets : Nat]
          /\ BudgetInv'
<1> DEFINE bytes == Refill(availBytes, BytesPerTick, burstBytes')
<1>t. /\ availBytes \in Nat /\ availBytes <= burstBytes' /\ elapsed \in Nat
      /\ availPackets \in Nat /\ availPackets <= burstPackets /\ frame'[c] \in Nat
      /\ window \in [open : BOOLEAN, ticks : 0 .. WindowTicks, packets : Nat]
      /\ call \in [Callers -> {"idle", "waiting", "granted", "refused"}]
      /\ elapsed \in 0 .. MaxElapsed /\ 0 \in 0 .. MaxElapsed
      /\ PacketCost \in Nat /\ PacketsPerTick \in Nat /\ BytesPerTick \in Nat
  BY RateLimiterAssumption DEF IInv, TypeOK
<1>b. bytes \in Nat /\ bytes <= burstBytes'
  BY <1>t, RefillBound
<1>p. Tokens \in Nat /\ Tokens <= burstPackets /\ burstPackets \in Nat
  BY TokensBound DEF IInv
<1>1. CASE MustRefuse(c)
  <2>1. UNCHANGED <<availBytes, availPackets, elapsed, window>>
    BY <1>1 DEF TryAcquire
  <2>2. BudgetInv'
    BY <2>1 DEF IInv, BudgetInv, Tokens, Refill
  <2>3. call' = [call EXCEPT ![c] = "refused"]
    BY <1>1 DEF TryAcquire
  <2> QED
    BY <1>t, <2>1, <2>2, <2>3
<1>2. CASE ~MustRefuse(c) /\ Enough(bytes, Tokens, frame'[c])
  <2>1. Grant(c, bytes, Tokens) /\ elapsed' = 0
    BY <1>2 DEF TryAcquire, Tokens
  <2>2. availBytes' \in Nat /\ availBytes' <= burstBytes'
    <3> HIDE DEF bytes
    <3> QED
      BY <1>t, <1>b, <1>2, <2>1 DEF Grant, Enough
  <2>3. /\ availPackets' \in Nat /\ availPackets' <= burstPackets
        /\ PacketsPerTick > 0 => availPackets' = Tokens - PacketCost
    BY <1>t, <1>p, <1>2, <2>1 DEF Grant, Enough
  <2>4. call' \in [Callers -> {"idle", "waiting", "granted", "refused"}]
    BY <1>t, <2>1 DEF Grant
  <2>5. /\ window' \in [open : BOOLEAN, ticks : 0 .. WindowTicks, packets : Nat]
        /\ window'.open = window.open /\ window'.ticks = window.ticks
        /\ window.open => window'.packets = window.packets + 1
    BY <1>t, <2>1 DEF Grant
  <2>6. BudgetInv'
    <3> SUFFICES ASSUME window'.open, PacketsPerTick > 0
                 PROVE window'.packets * PacketCost + Tokens'
                         <= burstPackets + window'.ticks * PacketsPerTick
      BY DEF BudgetInv, burstPackets
    <3>1. Tokens' = Tokens - PacketCost
      <4>1. 0 * PacketsPerTick = 0
        BY <1>t
      <4> QED
        BY <1>t, <1>p, <2>1, <2>3, <4>1 DEF Tokens, Refill, AtMost, burstPackets
    <3>2. (window.packets + 1) * PacketCost = window.packets * PacketCost + PacketCost
      BY <1>t
    <3>3. window.packets * PacketCost + Tokens
            <= burstPackets + window.ticks * PacketsPerTick
      BY <2>5 DEF IInv, BudgetInv
    <3>4. window.packets * PacketCost \in Int /\ window.ticks * PacketsPerTick \in Int
      BY <1>t
    <3> QED
      BY <1>t, <1>p, <2>5, <3>1, <3>2, <3>3, <3>4
  <2> QED
    BY <1>t, <2>1, <2>2, <2>3, <2>4, <2>5, <2>6
<1>3. CASE ~MustRefuse(c) /\ ~Enough(bytes, Tokens, frame'[c])
  <2>1. /\ call' = [call EXCEPT ![c] = "waiting"] /\ elapsed' = 0
        /\ availBytes' = bytes /\ availPackets' = Tokens /\ UNCHANGED window
    BY <1>3 DEF TryAcquire, Tokens
  <2>2. Tokens' = Tokens
    <3>1. 0 * PacketsPerTick = 0
      BY <1>t
    <3> QED
      BY <1>p, <2>1, <3>1 DEF Tokens, Refill, AtMost, burstPackets
  <2>3. BudgetInv'
    BY <2>1, <2>2 DEF IInv, BudgetInv, burstPackets
  <2> QED
    BY <1>t, <1>b, <1>p, <2>1, <2>3
<1> QED
  BY <1>1, <1>2, <1>3

-----------------------------------------------------------------------------
(* The theorems *)

\* Every step keeps the types and the budget of the window.
LEMMA IInvStep == IInv /\ [Next]_vars => IInv'
<1> SUFFICES ASSUME IInv, [Next]_vars PROVE IInv'
  OBVIOUS
<1>k. BytesPerTick \in Nat /\ PacketsPerTick \in Nat /\ PacketCost \in Nat
      /\ FrameSizes \subseteq Nat /\ MaxElapsed \in Nat /\ WindowTicks \in Nat
  BY RateLimiterAssumption
<1>t. TypeOK
  BY DEF IInv
<1>1. ASSUME NEW c \in Callers, AcquireUntil(c) PROVE IInv'
  <2>1. frame' \in [Callers -> Nat] /\ acquires' \in [Callers -> 0 .. MaxAcquires]
    BY <1>1, <1>k, <1>t, RateLimiterAssumption DEF AcquireUntil, TypeOK
  <2>2. burstBytes' \in Nat /\ burstBytes <= burstBytes'
    BY <1>1, <1>k, <1>t, <2>1 DEF AcquireUntil, AdaptBurst, TypeOK
  <2>3. cancelled' \subseteq Callers /\ stopped' \in BOOLEAN
    BY <1>1, <1>t DEF AcquireUntil, TypeOK
  <2>4. TryAcquire(c)
    BY <1>1 DEF AcquireUntil
  <2> QED
    BY <2>1, <2>2, <2>3, <2>4, TryAcquireFacts DEF IInv, TypeOK, burstPackets
<1>2. ASSUME NEW c \in Callers, WakeUp(c) PROVE IInv'
  <2>1. /\ frame' \in [Callers -> Nat] /\ acquires' \in [Callers -> 0 .. MaxAcquires]
        /\ burstBytes' \in Nat /\ burstBytes <= burstBytes'
        /\ cancelled' \subseteq Callers /\ stopped' \in BOOLEAN
    BY <1>2, <1>t DEF WakeUp, TypeOK
  <2>2. TryAcquire(c)
    BY <1>2 DEF WakeUp
  <2> QED
    BY <2>1, <2>2, TryAcquireFacts DEF IInv, TypeOK, burstPackets
<1>3. ASSUME NEW c \in Callers, CancelledWhileWaiting(c) PROVE IInv'
  BY <1>3 DEF CancelledWhileWaiting, IInv, TypeOK, BudgetInv, Tokens, Refill, burstPackets
<1>4. ASSUME NEW c \in Callers, Cancel(c) PROVE IInv'
  BY <1>4 DEF Cancel, IInv, TypeOK, BudgetInv, Tokens, Refill, burstPackets
<1>5. CASE Stop
  BY <1>5 DEF Stop, IInv, TypeOK, BudgetInv, Tokens, Refill, burstPackets
<1>6. CASE Tick
  <2>1. elapsed' \in 0 .. MaxElapsed
    BY <1>6, <1>k, <1>t DEF Tick, TypeOK, AtMost
  <2>2. window' \in [open : BOOLEAN, ticks : 0 .. WindowTicks, packets : Nat]
    BY <1>6, <1>k, <1>t DEF Tick, TypeOK, NoWindow
  <2>3. TypeOK'
    BY <1>6, <1>t, <2>1, <2>2 DEF Tick, TypeOK, burstPackets
  <2>4. BudgetInv'
    <3> SUFFICES ASSUME window'.open, PacketsPerTick > 0
                 PROVE window'.packets * PacketCost + Tokens'
                         <= burstPackets + window'.ticks * PacketsPerTick
      BY DEF BudgetInv, burstPackets
    <3>1. /\ window.open /\ window'.packets = window.packets
          /\ window'.ticks = window.ticks + 1
      BY <1>6, <1>t DEF Tick, TypeOK, NoWindow
    <3>2. window.packets * PacketCost + Tokens
            <= burstPackets + window.ticks * PacketsPerTick
      BY <3>1 DEF IInv, BudgetInv
    <3>3. /\ (window.ticks + 1) * PacketsPerTick
               = window.ticks * PacketsPerTick + PacketsPerTick
          /\ (elapsed + 1) * PacketsPerTick = elapsed * PacketsPerTick + PacketsPerTick
          /\ window.packets * PacketCost \in Int /\ window.ticks * PacketsPerTick \in Int
          /\ elapsed * PacketsPerTick \in Int
      BY <1>k, <1>t DEF TypeOK
    <3>4. Tokens \in Int /\ Tokens' \in Int /\ Tokens' <= Tokens + PacketsPerTick
      <4>1. availPackets' = availPackets /\ (elapsed' = elapsed + 1 \/ elapsed' = elapsed)
        BY <1>6, <1>k, <1>t DEF Tick, TypeOK, AtMost
      <4>2. availPackets \in Nat /\ burstPackets \in Nat
        BY <1>t, BurstFacts DEF TypeOK
      <4>3. /\ Tokens = AtMost(burstPackets, availPackets + elapsed * PacketsPerTick)
            /\ Tokens' = AtMost(burstPackets, availPackets + elapsed' * PacketsPerTick)
        BY <4>1 DEF Tokens, Refill, AtMost, burstPackets
      <4> QED
        BY <1>k, <3>3, <4>1, <4>2, <4>3 DEF AtMost
    <3> QED
      BY <1>k, <3>1, <3>2, <3>3, <3>4, BurstFacts
  <2> QED
    BY <2>3, <2>4 DEF IInv
<1>7. CASE OpenWindow
  <2>1. /\ window'.open /\ window'.ticks = 0 /\ window'.packets = 0
        /\ window' \in [open : BOOLEAN, ticks : 0 .. WindowTicks, packets : Nat]
    <3>1. window' = [open |-> TRUE, ticks |-> 0, packets |-> 0]
      BY <1>7 DEF OpenWindow, NoWindow
    <3> QED
      BY <1>k, <3>1
  <2>2. TypeOK'
    BY <1>7, <1>t, <2>1 DEF OpenWindow, TypeOK, burstPackets
  <2>3. Tokens' = Tokens /\ Tokens \in Nat /\ Tokens <= burstPackets /\ burstPackets \in Nat
    <3>1. Tokens \in Nat /\ Tokens <= burstPackets /\ burstPackets \in Nat
      BY <1>t, TokensBound
    <3> QED
      BY <1>7, <3>1 DEF OpenWindow, Tokens, Refill, burstPackets
  <2>4. 0 * PacketCost = 0 /\ 0 * PacketsPerTick = 0
    BY <1>k
  <2>5. BudgetInv'
    BY <2>1, <2>3, <2>4 DEF BudgetInv, burstPackets
  <2> QED
    BY <2>2, <2>5 DEF IInv
<1>8. CASE UNCHANGED vars
  BY <1>8 DEF vars, IInv, TypeOK, BudgetInv, Tokens, Refill, burstPackets
<1> QED
  BY <1>1, <1>2, <1>3, <1>4, <1>5, <1>6, <1>7, <1>8 DEF Next

\* The invariant holds of every behaviour, for all rates and bursts.
THEOREM InductiveInvariant == Spec => []IInv
<1>1. Init => IInv
  <2> SUFFICES ASSUME Init PROVE IInv
    OBVIOUS
  <2>1. /\ BytesPerTick * BurstTicks \in Nat /\ burstPackets \in Nat
        /\ (BytesPerTick * BurstTicks) \div 2 \in 0 .. BytesPerTick * BurstTicks
        /\ burstPackets \div 2 \in 0 .. burstPackets
    <3>1. BytesPerTick * BurstTicks \in Nat /\ burstPackets \in Nat
      BY RateLimiterAssumption, BurstFacts
    <3>2. \A n \in Nat : n \div 2 \in 0 .. n
      OBVIOUS
    <3> QED
      BY <3>1, <3>2
  <2>2. TypeOK
    <3>1. /\ frame \in [Callers -> Nat] /\ acquires \in [Callers -> 0 .. MaxAcquires]
          /\ call \in [Callers -> {"idle", "waiting", "granted", "refused"}]
          /\ elapsed \in 0 .. MaxElapsed
      BY RateLimiterAssumption DEF Init
    <3>2. window \in [open : BOOLEAN, ticks : 0 .. WindowTicks, packets : Nat]
      BY RateLimiterAssumption DEF Init, NoWindow
    <3>3. /\ burstBytes \in Nat /\ availBytes \in 0 .. burstBytes
          /\ availPackets \in 0 .. burstPackets /\ stopped \in BOOLEAN
          /\ cancelled \subseteq Callers
      BY <2>1 DEF Init
    <3> QED
      BY <2>1, <3>1, <3>2, <3>3 DEF TypeOK
  <2>3. BudgetInv
    BY DEF Init, BudgetInv, NoWindow
  <2> QED
    BY <2>2, <2>3 DEF IInv
<1> QED
  BY <1>1, IInvStep, PTL DEF Spec

\* The buckets stay within their bursts and never go below zero (refill, AcquireUntil).
THEOREM TypeCorrect == Spec => []TypeOK
<1>1. IInv => TypeOK
  BY DEF IInv
<1> QED
  BY <1>1, InductiveInvariant, PTL

\* The packet limit holds over every window of time, for all rates, bursts and
\* numbers of callers.
THEOREM PacketRateTheorem == Spec => []PacketRateRespected
<1>1. IInv => PacketRateRespected
  <2> SUFFICES ASSUME IInv, window.open, PacketsPerTick > 0
               PROVE window.packets * PacketCost
                       <= burstPackets + window.ticks * PacketsPerTick
    BY DEF PacketRateRespected
  <2>1. /\ Tokens \in Nat /\ burstPackets \in Nat
        /\ window.packets * PacketCost \in Int /\ window.ticks * PacketsPerTick \in Int
    <3>1. window.packets \in Int /\ window.ticks \in Int
      BY DEF IInv, TypeOK
    <3> QED
      BY <3>1, RateLimiterAssumption, TokensBound DEF IInv
  <2> QED
    BY <2>1 DEF IInv, BudgetInv
<1> QED
  BY <1>1, InductiveInvariant, PTL

\* A pass of the loop of AcquireUntil for c grants nothing to c once the limiter is
\* stopped or the probe of c has failed, and leaves the other callers alone.
LEMMA TryAcquireRefuses ==
    ASSUME TypeOK, NEW c \in Callers, TryAcquire(c)
    PROVE /\ MustRefuse(c) => call'[c] = "refused"
          /\ \A d \in Callers \ {c} : call'[d] = call[d]
<1>1. CASE MustRefuse(c)
  BY <1>1 DEF TryAcquire, TypeOK
<1>2. CASE ~MustRefuse(c)
  BY <1>2 DEF TryAcquire, Grant, TypeOK
<1> QED
  BY <1>1, <1>2

\* Stop and Cancel are final: whoever asks or wakes afterwards is refused
\* (AcquireUntil looks at rl.stopped and at the channel of the probe in every pass).
THEOREM NoGrantAfterStopTheorem == Spec => NoGrantAfterStop
<1> DEFINE Asks(c) == acquires'[c] # acquires[c] \/ call[c] = "waiting"
           Final(c) == stopped \/ c \in cancelled'
<1>1. ASSUME TypeOK, [Next]_vars, NEW c \in Callers, Asks(c), Final(c)
      PROVE call'[c] # "granted"
  <2>1. ASSUME NEW d \in Callers, AcquireUntil(d) \/ WakeUp(d) PROVE call'[c] # "granted"
    <3>1. TryAcquire(d)
      BY <2>1 DEF AcquireUntil, WakeUp
    <3>2. CASE c = d
      BY <1>1, <3>1, <3>2, TryAcquireRefuses DEF MustRefuse
    <3>3. CASE c # d
      <4>1. acquires'[c] = acquires[c]
        BY <1>1, <2>1, <3>3 DEF AcquireUntil, WakeUp, TypeOK
      <4> QED
        BY <1>1, <3>1, <3>3, <4>1, TryAcquireRefuses
    <3> QED
      BY <3>2, <3>3
  <2>2. ASSUME NEW d \in Callers, CancelledWhileWaiting(d) PROVE call'[c] # "granted"
    BY <1>1, <2>2 DEF CancelledWhileWaiting, TypeOK
  <2>3. ASSUME ~\E d \in Callers :
                  AcquireUntil(d) \/ WakeUp(d) \/ CancelledWhileWaiting(d)
        PROVE call'[c] # "granted"
    <3>1. UNCHANGED <<call, acquires>>
      BY <1>1, <2>3 DEF Next, Cancel, Stop, Tick, OpenWindow, vars
    <3> QED
      BY <1>1, <3>1
  <2> QED
    BY <2>1, <2>2, <2>3
<1>2. TypeOK /\ [Next]_vars =>
        [\A c \in Callers :
            acquires'[c] # acquires[c] \/ call[c] = "waiting" =>
              ~((stopped \/ c \in cancelled') /\ call'[c] = "granted")]_vars
  BY <1>1
<1> QED
  BY <1>2, TypeCorrect, PTL DEF Spec, NoGrantAfterStop

=============================================================================
