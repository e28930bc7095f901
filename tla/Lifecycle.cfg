CONSTANTS
    MaxCommands = 2
    MaxGateways = 2
    MaxActive = 2
    MaxRequests = 3
    MaxFailures = 2
SPECIFICATION Spec
CHECK_DEADLOCK FALSE
INVARIANT ServerIsRecorded
INVARIANT OneServer
INVARIANT RestartsKeepFiles
PROPERTY SignalledEnds
PROPERTY CommandsReturn
