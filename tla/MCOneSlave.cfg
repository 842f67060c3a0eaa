\* One slave with two units, four requests, two faults.
SPECIFICATION Spec
CONSTANTS
    IpSize = 2
    PortSize = 2
    HandleSize = 6
    Slave = {u1, u2}
    ValidSlave = {u1, u2}
    Request <- TwoUnits
    ConfigTimeout = 200000
    NoHandle = NoHandle
    MaxRequests = 4
    MaxFaults = 2
INVARIANTS
    OwnConfirmation
    AnswersOwnRequest
    RightUnit
    ExecutedAtMostOnce
    OkMeansExecuted
    OkInOrder
    RecoversByResetOrSilence
    BrokenForGood
PROPERTIES
    NoLiveSocketAbandoned
SYMMETRY Units
CHECK_DEADLOCK FALSE
