CONSTANTS
    Capacity <- MCCapacity
    Rate <- MCRate
    TicksPerSecond <- MCTicksPerSecond
    MaxTime <- MCMaxTime
SPECIFICATION BucketSpec
INVARIANTS
    BucketTypeOK
    AdmissionBound
