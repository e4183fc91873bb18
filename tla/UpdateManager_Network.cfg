CONSTANTS
    Device = {d1, d2}
    Firmware = {old, new}
    SectionCount = 2
    Call = {d1, d2}
    Target <- OwnDevice
    Requests <- ManagerRequests
    Disciplined = FALSE
    BinFile = new
    EntireNetwork = TRUE
    WithBootLoader = FALSE
    Local = {d1}
    ThreadsMayFail = {"upgrade", "query"}
    MaxRuns = 1
SPECIFICATION NetworkSpec
INVARIANTS
    UMTypeOK
    AllStagedBeforeAnySwitch
    QuitMeansNoUpgrade
    FinishedMeansSwitched
    NetworkInv
PROPERTIES
    ManagerIsDisciplined
    ManagerEnds
    ImplementsNetworkUpdate
