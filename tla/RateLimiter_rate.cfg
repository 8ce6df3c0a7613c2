SPECIFICATION MCSpec
CONSTANTS
    Callers = {w1, w2}
    FrameSizes = {1, 5}
    BytesPerTick = 2
    PacketsPerTick = 4
    SlowPacketsPerTick = 1
    PacketCost = 4
    BurstTicks = 2
    MaxElapsed = 3
    MaxAcquires = 3
    WindowTicks = 3
INVARIANTS
    PacketRateRespected
PROPERTIES
    NoGrantAfterStop
    CallsReturn
