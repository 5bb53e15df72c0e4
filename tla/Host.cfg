\* The clock wraps, devices come and go, and the main loop makes progress.
SPECIFICATION FairSpec
CONSTANTS
    IdMod = 256
    DescMax = 64
    MaxBleReports = 8
    Slots = {s1, s2}
    Unplugged = Unplugged
    Devices <- MCDevices
    MaxInterfaces = 2
    AggregationWait = 1
    QuietTime = 1
    IdleSpacing = 1
    MaxIdleRetry = 2
    ClockMod = 3
    MaxStall = 1
    Removable = {s1}
INVARIANT ForwardedHome
PROPERTIES StartsAfterWindow IdleSequential BridgeStarts IdleServed EveryDeviceHeard
