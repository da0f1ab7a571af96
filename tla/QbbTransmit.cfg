SPECIFICATION Spec
CONSTANTS
    NPrio = 2
    NoPkt = NoPkt
    QueueMax = 2
    TxTimes = {2}
    PauseTimes = {1, 3}
    TxRetry = 2
    RefillRetry = 1
    MaxSends = 3
    MaxPfcRx = 2
    MaxPfcTx = 1
INVARIANTS
    TypeOK
    PauseGate
    ResumeArmed
    NoLostWakeup
    NoLoss
PROPERTIES
    NeverStartsPaused
    PromiseKept
