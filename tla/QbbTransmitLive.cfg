SPECIFICATION FairSpec
CONSTANTS
    NPrio = 1
    NoPkt = NoPkt
    QueueMax = 2
    TxTimes = {2}
    PauseTimes = {3}
    TxRetry = 2
    RefillRetry = 1
    MaxSends = 5
    MaxPfcRx = 3
    MaxPfcTx = 1
INVARIANTS
    OvertakenOnlyIfHeld
PROPERTIES
    PauseEnds
    HeldReturned
    TransmittedUnlessPaused
