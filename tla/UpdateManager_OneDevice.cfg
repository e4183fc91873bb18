CONSTANTS
    Device = {d1}
    Firmware = {old, new}
    SectionCount = 2
    Call = {d1}
    Target <- OwnDevice
    Requests <- ManagerRequests
    Disciplined = FALSE
    BinFile = new
    EntireNetwork = FALSE
    WithBootLoader = TRUE
    Local = {d1}
    ThreadsMayFail = {"upgrade", "activate", "query"}
    MaxRuns = 2
SPECIFICATION UMSpec
INVARIANTS
    AnyRunInv
    FirstRunInv
    SuccessMeansInstalled
