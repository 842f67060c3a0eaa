\* One slave, every kind of request, faults of slave and network.
SPECIFICATION Spec
CONSTANTS
    IpSize = 2
    PortSize = 2
    HandleSize = 6
    Slave = {1}
    ValidSlave = {1}
    Request <- EveryKind
    ConfigTimeout = 200000
    NoHandle = NoHandle
    MaxRequests = 3
    MaxFaults = 1
PROPERTIES
    ImplementsService
    ServiceGoesOn
    EveryRequestAnswered
CHECK_DEADLOCK FALSE
