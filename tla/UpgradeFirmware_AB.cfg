CONSTANTS
    Device = {d1}
    Firmware = {old, new}
    SectionCount = 2
    Call = {c1, c2}
    Target <- OneTarget
    Requests <- PlainRequests
    Disciplined = TRUE
SPECIFICATION FairSpec
INVARIANTS
    TypeOK
    AlwaysBootable
    SuccessMeansInstalled
PROPERTIES
    OnlyCompleteImagesActivated
    ImplementsABUpdate
    CallsReturn
