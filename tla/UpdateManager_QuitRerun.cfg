CONSTANTS
    Device = {d1}
    Firmware = {old, new}
    SectionCount = 2
    Call = {d1}
    Target <- OwnDevice
    Requests <- ManagerRequests
    Disciplined = FALSE
    BinFile = new
    EntireNetwork = TRUE
    WithBootLoader = FALSE
    Local = {d1}
    ThreadsMayFail = {}
    MaxRuns = 2
SPECIFICATION CleanSpec
INVARIANTS
    QuitLeavesImages
