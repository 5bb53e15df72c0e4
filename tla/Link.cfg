\* Two hosts connect, pair, fail and reconnect; every waiting report is woken up, with CAN_SEND_NOW deferred.
SPECIFICATION FairSpec
CONSTANTS
    QueueSize = 2
    AclBuffers = 1
    Peers = {p1, p2}
    ReportIds = {1}
    EmitDuringRequest = FALSE
    MaxReports = 3
    MaxConnections = 2
    Handles = {h1}
    Invalid = Invalid
    NoPeer = NoPeer
    InputIds = {1}
    UseReportIds = TRUE
INVARIANTS NoStrandedReport EncryptedIsCurrent Discoverable
PROPERTIES BondsOfOthersKept QueueDrains
CHECK_DEADLOCK FALSE
