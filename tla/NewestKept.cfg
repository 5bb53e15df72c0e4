\* An eviction between peek and remove.
SPECIFICATION Spec
CONSTANTS
    QueueSize = 2
    AclBuffers = 1
    Peers = {p1}
    ReportIds = {1}
    EmitDuringRequest = FALSE
    MaxReports = 4
    MaxConnections = 1
    Handles = {h1}
    Invalid = Invalid
    NoPeer = NoPeer
    InputIds = {1}
    UseReportIds = TRUE
PROPERTIES NewestReportKept
CHECK_DEADLOCK FALSE
