SPECIFICATION Spec
CONSTANTS
    Device = {d1, d2}
    HelperAttr = {Quanta}
    OtherAttr = {AvgPktSize}
    Quanta = Quanta
    QuantaRange = 2
    Value = {0, 1, 2}
    Unset = Unset
    MaxCalls = 0
    MaxFrames = 2
    MaxAggregates = 0
INVARIANTS
    ReachesIpOnce
