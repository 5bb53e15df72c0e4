\* Report ids near the end of the byte.
SPECIFICATION Spec
CONSTANTS
    IdMod = 256
    DescMax = 64
    MaxBleReports = 8
    MaxInterfaces = 2
    Descriptors <- MCHighIds
INVARIANTS OffsetsPreventCollisions
CHECK_DEADLOCK FALSE
