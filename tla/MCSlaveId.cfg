\* A unit id modbus_set_slave refuses.
SPECIFICATION Spec
CONSTANTS
    IpSize = 2
    PortSize = 2
    HandleSize = 6
    Slave = {1, 2, 248}
    ValidSlave = {1, 2}
    Request <- RefusedUnit
    ConfigTimeout = 200000
    NoHandle = NoHandle
    MaxRequests = 2
    MaxFaults = 0
INVARIANTS
    SlaveIdIsSet
CHECK_DEADLOCK FALSE
