SPECIFICATION Spec
CONSTANTS
    NPrio = 2
    Ingress = {1, 2}
    Egress = {1, 2, 3}
    Registered = {1, 2}
    Routes = {{}, {1}, {3}, {1, 2}}
    PfcEnable = TRUE
    PfcHighPkts = 2
    PfcLowPkts = 1
    Capacity = 3
    Cost = 2
    Rate = 1
    DrainRetry = 2
    MaxRx = 4
INVARIANTS
    TypeOK
    OccupancyIsLength
    PfcHysteresis
    XoffXonAlternate
    DrainScheduled
PROPERTIES
    TokensBuyForwarding
