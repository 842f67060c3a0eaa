\* Three daemons one after the other or at once, an edit, a crash, a request.
SPECIFICATION Spec
CONSTANTS
    MaxProcesses = 3
    Brief = Brief
    Long = Long
    Config <- MCConfig
    Empty = Empty
    Absent = Absent
    Size <- MCSize
    PrintedSize <- MCPrintedSize
    MaxEdits = 1
    MaxCrashes = 1
    MaxMessages = 1
INVARIANTS
    TypeOK
    QuietMeansReadable
    OfflineEditSurvives
PROPERTIES
    SignalNoticed
CHECK_DEADLOCK FALSE
