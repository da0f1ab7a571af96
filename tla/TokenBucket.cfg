SPECIFICATION BucketSpec
CONSTANTS
    Capacity = 5
    Cost = 2
    Rate = 1
    MaxTime = 8
INVARIANTS
    BucketTypeOK
    RateBound
PROPERTIES
    MeterSpec
