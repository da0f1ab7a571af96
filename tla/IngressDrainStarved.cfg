SPECIFICATION FairSpec
CONSTANTS
    NPrio = 1
    Ingress = {1, 2}
    Egress = {1, 2}
    Registered = {1, 2}
    Routes = {{1}, {2}}
    PfcEnable = TRUE
    PfcHighPkts = 2
    PfcLowPkts = 1
    Capacity = 2
    Cost = 2
    Rate = 1
    DrainRetry = 1
    MaxRx = 3
PROPERTIES
    EventuallyDrained
