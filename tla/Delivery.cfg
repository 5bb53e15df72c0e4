\* Reports in flight: one host, reports enough to overflow the queue, two connections.
SPECIFICATION Spec
CONSTANTS
    QueueSize = 2
    AclBuffers = 1
    Peers = {p1}
    ReportIds = {1, 2}
    EmitDuringRequest = TRUE
    MaxReports = 4
    MaxConnections = 2
    Handles = {h1}
    Invalid = Invalid
    NoPeer = NoPeer
    InputIds = {1}
    UseReportIds = TRUE
INVARIANTS TypeOK InOrder RoomAfterEvict OneRegistration AtMostOneStale
PROPERTIES ImplementsChannel
CHECK_DEADLOCK FALSE
