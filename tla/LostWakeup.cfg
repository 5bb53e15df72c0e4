\* CAN_SEND_NOW emitted inside the request.
SPECIFICATION FairSpec
CONSTANTS
    QueueSize = 1
    AclBuffers = 1
    Peers = {p1}
    ReportIds = {1}
    EmitDuringRequest = TRUE
    MaxReports = 2
    MaxConnections = 1
    Handles = {h1}
    Invalid = Invalid
    NoPeer = NoPeer
    InputIds = {1}
    UseReportIds = TRUE
PROPERTIES QueueDrains
CHECK_DEADLOCK FALSE
