CONSTANTS
    MaxRetries = 3
    MaxMessages = 5
    MaxTurns = 6
    MaxText = 4
    MaxKeys = 6
SPECIFICATION DecisionsSpec
INVARIANTS
    RequestsAreRetried
    CompactsOrKeeps
    McpFilesAndNames
    SubAgentsAreSetUp
    NamesFindTheirOwner
    RulesArePersisted
    PromptsAreAssembled
    FileChangesAreShown
    MemoriesAreKept
CHECK_DEADLOCK FALSE
