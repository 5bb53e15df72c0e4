\* Two ports of opposite pinout share the bus: their registers and the polling intervals.
SPECIFICATION Spec
CONSTANTS
    Ports = 2
    PoolSize = 2
    Pinout <- MCPinout
    Kinds <- MCKinds
    CounterMod = 3
INVARIANTS SpokenTo PolledOnTime
