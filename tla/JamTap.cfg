SPECIFICATION Spec
CONSTANTS
    WordBits = 2
    DRCapture <- DRCaptureValue
    IRCapture <- IRCaptureValue
    PowerUp <- PowerUpValue
    Patterns <- PatternsValue
    StopStates <- StopValue
    Targets <- TargetValue
    WaitStates <- WaitValue
    EndStates <- EndValue
    Cycles = {2}
    Paddings <- PaddingsValue
    Counts <- CountsValue
    Compared <- ComparedValue
    MaxPadding = 2
    MaxClocked = 2
INVARIANTS BeliefIsTap NeverLost
PROPERTIES ScansDeliver
CHECK_DEADLOCK FALSE
