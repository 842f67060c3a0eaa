\* A text that does not parse.
SPECIFICATION Spec
CONSTANTS
    IpSize = 2
    PortSize = 2
    HandleSize = 6
    Slave = {1, 2}
    ValidSlave = {1, 2}
    Request <- Malformed
    ConfigTimeout = 200000
    NoHandle = NoHandle
    MaxRequests = 1
    MaxFaults = 0
INVARIANTS
    UnparsableIsAnswered
CHECK_DEADLOCK FALSE
