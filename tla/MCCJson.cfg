\* Every text of up to five tokens, longer requests; two allocations fail.
SPECIFICATION Spec
CONSTANTS
    Number <- MCNumber
    String <- MCString
    Text <- MCText
    Registers <- MCRegisters
    MaxItems = 12
    MaxFails = 2
INVARIANTS
    OwnedOnce
    ParsesJson
    AnswerByName
CHECK_DEADLOCK FALSE
