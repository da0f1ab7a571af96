SPECIFICATION FairNodeSpec
CONSTANTS
    NPrio = 1
    Ingress = {2, 3, 4}
    Egress = {1}
    Registered = {1}
    Routes = {{1}}
    PfcEnable = TRUE
    PfcHighPkts = 6
    PfcLowPkts = 1
    Capacity = 3
    Cost = 2
    Rate = 1
    DrainRetry = 1
    MaxSends = 5
    MaxPfcTx = 1
    NoPkt = NoPkt
    QueueMax = 1
    TxTimes = {2}
    PauseTimes = {3}
    TxRetry = 1
    RefillRetry = 1
    MaxPfcRx = 1
INVARIANTS
    BoundedBypass
    BacklogBounded
PROPERTIES
    EventuallyDrained
