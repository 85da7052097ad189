CONSTANTS
    Names = {"a", "b"}
    MaxTasks = 2
    MaxMessages = 2
SPECIFICATION FairSpec
INVARIANT
    MailPromptsOnce
PROPERTY
    MailIsActedOn
CHECK_DEADLOCK FALSE
