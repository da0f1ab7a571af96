SPECIFICATION Spec
CONSTANTS
    Percent = 4
    SizeRange = 16
    Inputs <- MCInputs
    NoFile = NoFile
    PortRange = 3
    BasePort = 1
    SubSamples = 2
    SampleStart = 1
    QueueLengths = {0, 3}
    MaxTopoLines = 5
CHECK_DEADLOCK FALSE
INVARIANTS
    TypeOK
    TableIsCdf
    SampleFollowsFile
    FailureRecognisable
    LinkNamesMatch
    SinksReachable
    SnapshotsCoverIntervals
PROPERTY
    Returns
