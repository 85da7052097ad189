SPECIFICATION FairSpec
CONSTANTS
    Servers = {s1}
    MaxName = 0
    Configured = {s1}
    MaxCommands = 2
    MaxCalls = 1
INVARIANTS
    ReadyWhenCancelled
    TableIsLive
PROPERTIES
    CommandsReturn
CHECK_DEADLOCK FALSE
