SPECIFICATION FairSpec
CONSTANTS
    Callers = {w1}
    FrameSizes = {1}
    BytesPerTick = 0
    PacketsPerTick = 1
    PacketCost = 4
    BurstTicks = 2
    MaxElapsed = 3
    MaxAcquires = 1
    WindowTicks = 0
PROPERTIES
    AcquireReturns
