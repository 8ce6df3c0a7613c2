---------------------------- MODULE MCRateLimiter ----------------------------
(***************************************************************************)
(* Two instances of RateLimiter for TLC over the same variables: one whose *)
(* bucket holds a packet, and one whose rate is so low that it never does. *)
(***************************************************************************)
EXTENDS RateLimiter

CONSTANT SlowPacketsPerTick

ASSUME SlowAssumption == SlowPacketsPerTick * BurstTicks < PacketCost

VARIABLE slow   \* which of the two it is

Slow == INSTANCE RateLimiter WITH PacketsPerTick <- SlowPacketsPerTick

MCvars == <<vars, slow>>

MCInit == slow \in BOOLEAN /\ IF slow THEN Slow!Init ELSE Init

MCNext == UNCHANGED slow /\ IF slow THEN Slow!Next ELSE Next

MCSpec ==
    /\ MCInit /\ [][MCNext]_MCvars
    /\ WF_vars(Tick)
    /\ \A c \in Callers : WF_vars(~slow /\ WakeUp(c)) /\ WF_vars(slow /\ Slow!WakeUp(c))

\* Every call returns at a rate whose bucket holds a packet, however large the frame and
\* however the callers interleave.
AcquireReturnsAtRate == ~slow => AcquireReturns

\* No caller is kept in AcquireUntil: it returns by itself at a rate whose bucket holds a
\* packet, and on Stop or the failure of its probe at any rate.
CallsReturn == AcquireReturnsAtRate /\ ReleasedByStop
=============================================================================
