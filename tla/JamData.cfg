SPECIFICATION JamDataSpec
CONSTANTS
    WordBits = 8
    Room = 12
    FileStart <- MCFileStart
    MatchDataLength = 4
    Programs <- MCPrograms
    VectorSignals <- MCVectorSignals
    LongBits = 6
    Symbols <- MCSymbols
    Expressions <- MCExpressions
INVARIANT ExpressionsMean
PROPERTIES DeclarationsMean AssignedIsSource ScansMoveTheNamedBits VectorsDriveTheNamedPins
CHECK_DEADLOCK FALSE
