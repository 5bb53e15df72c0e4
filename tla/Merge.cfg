\* Up to three interfaces of every sort; ids and bytes run out for some of them.
SPECIFICATION Spec
CONSTANTS
    IdMod = 256
    DescMax = 32
    MaxBleReports = 5
    MaxInterfaces = 3
    Descriptors <- MCDescriptors
INVARIANTS TypeOK RoutedHome HostAgrees
CHECK_DEADLOCK FALSE
