CONSTANTS
    d1 = d1
    d2 = d2
    d3 = d3
    Device = {d1, d2, d3}
    Local = {d1}
    MaxRetries = 2
    MaxSize = 3
    Size = 2
SPECIFICATION Spec
INVARIANTS
    LocalDeviceSelected
\* The tool ends.
CHECK_DEADLOCK FALSE
