SPECIFICATION FairLinkSpec
CONSTANTS
    NPrio = 1
    NoPkt = NoPkt
    QueueMax = 2
    TxTimes = {1}
    PauseTimes = {30}
    TxRetry = 2
    RefillRetry = 1
    MaxSends = 8
    MaxPfcRx = 12
    MaxPfcTx = 0
    Delay = 1
    ReverseTimes = {0, 1}
    Pause = 30
    PfcHighPkts = 2
    PfcLowPkts = 1
    Capacity = 6
    Cost = 6
    Rate = 1
    DrainRetry = 1
    MaxDrops = 1
INVARIANTS
    QueueBounded
    PeersAgree
PROPERTIES
    CongestionEnds
