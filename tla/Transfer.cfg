SPECIFICATION Spec
CONSTANTS
    PacketSize = 2
    MaxRetry = 3
    MaxLen = 5
    Positions = 8
INVARIANTS
    NoPacketLostOrRepeated
    RequestAgreed
PROPERTY
    SilenceNoticed
