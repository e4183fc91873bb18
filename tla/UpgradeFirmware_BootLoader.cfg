CONSTANTS
    Device = {d1}
    Firmware = {old, new}
    SectionCount = 2
    Call = {c1, c2}
    Target <- OneTarget
    Requests <- OtherRequests
    Disciplined = TRUE
SPECIFICATION Spec
INVARIANTS
    SomeActiveImage
    IInv
    BootLoaderWindow
