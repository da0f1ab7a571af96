SPECIFICATION Spec
CONSTANTS
    Device = {d1, d2}
    HelperAttr = {Quanta}
    OtherAttr = {AvgPktSize}
    Quanta = Quanta
    QuantaRange = 2
    Value = {0, 1, 2}
    Unset = Unset
    MaxCalls = 2
    MaxFrames = 2
    MaxAggregates = 2
INVARIANTS
    TypeOK
    OnceIfDiverted
