\* Two requests of every kind, each with members missing, and of other names.
SPECIFICATION Spec
CONSTANTS
    IpSize = 2
    PortSize = 2
    HandleSize = 6
    Slave = {1, 2}
    ValidSlave = {1, 2}
    Request <- Malformed
    ConfigTimeout = 200000
    NoHandle = NoHandle
    MaxRequests = 2
    MaxFaults = 0
INVARIANTS
    SoundNeverCrashes
    RightSlave
CHECK_DEADLOCK FALSE
