SPECIFICATION FairSpec
CONSTANTS
    NPrio = 1
    NoPkt = NoPkt
    QueueMax = 2
    TxTimes = {2}
    PauseTimes = {3}
    TxRetry = 2
    RefillRetry = 1
    MaxSends = 2
    MaxPfcRx = 1
    MaxPfcTx = 0
PROPERTIES
    EventuallyTransmitted
