CONSTANTS
    Configs <- AllConfigs
    SkewLimit = 2
    MaxClock = 3
SPECIFICATION FairSpec
INVARIANTS
    TypeOK
    ResultIsConsecutive
    ResultSpansNoReset
    TrafficIsStopped
    StopIsHeeded
    IInv
PROPERTIES
    ToolEnds
\* The tool ends.
CHECK_DEADLOCK FALSE
