\* A device comes and goes, also with a bouncing contact, while the stack works on two endpoints.
SPECIFICATION Spec
CONSTANTS
    control = control
    interrupt = interrupt
    none = none
    Pool = {1, 2}
    Endpoints = {control, interrupt}
    NoEndpoint = none
    MaxEvents = 2
INVARIANTS TypeOK OwnTransfer
PROPERTIES EndsOnce NoFalseDisconnect UnplugRetires DeviceNoticed
