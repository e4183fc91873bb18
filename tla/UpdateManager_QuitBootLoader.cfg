CONSTANTS
    Device = {d1}
    Firmware = {old, new}
    SectionCount = 2
    Call = {d1}
    Target <- OwnDevice
    Requests <- ManagerRequests
    Disciplined = FALSE
    BinFile = new
    EntireNetwork = TRUE
    WithBootLoader = TRUE
    Local = {d1}
    ThreadsMayFail = {}
    MaxRuns = 1
SPECIFICATION CleanSpec
INVARIANTS
    QuitMeansNoUpgrade
