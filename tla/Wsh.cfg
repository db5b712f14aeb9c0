CONSTANTS
    Sessions <- AllSessions
    Names = {"x", "y"}
    Installed = {"ls", "ps"}
    MAX_VARIABLES = 2
    DefaultHistory = 3
    MaxHistory = 3
    Items = 2
    PipeSize = 1
    MaxStages = 3
    MaxLines = 5
SPECIFICATION Spec
INVARIANTS  VarsMatch PromptSafe
PROPERTIES PipelineEnds
CHECK_DEADLOCK FALSE
