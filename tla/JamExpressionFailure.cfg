SPECIFICATION ExprSpec
CONSTANTS
    LongBits = 6
    Symbols <- MCSymbols
    Expressions <- NamesAfterInt
INVARIANT FailureIsReported
CHECK_DEADLOCK FALSE
