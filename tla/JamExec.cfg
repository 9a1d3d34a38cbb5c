SPECIFICATION Spec
CONSTANTS
    Sources <- MCSources
    ProgramOf <- MCProgramOf
    None = None
    MaxNestingDepth = 5
INVARIANTS UsedDataIsReady UndefinedIsUndefined
PROPERTIES CallsReturn
CHECK_DEADLOCK FALSE
