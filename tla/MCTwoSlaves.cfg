\* A slave beside two that share a key, the timeout command, one fault.
SPECIFICATION Spec
CONSTANTS
    IpSize = 2
    PortSize = 2
    HandleSize = 6
    Slave = {1, 2}
    ValidSlave = {1, 2}
    Request <- TwoSlaves
    ConfigTimeout = 200000
    NoHandle = NoHandle
    MaxRequests = 3
    MaxFaults = 1
INVARIANTS
    TypeOK
    RightSlave
PROPERTIES
    HandleKept
CHECK_DEADLOCK FALSE
