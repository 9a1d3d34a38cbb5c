CONSTANTS
    Givers = {g}
    Others = {o}
    None = None
    Ids = {0, 1, 2}
    Capacity = 2
    Leads = {0, 2}
    MaxWorks = 3
    MaxEvents = 1
SPECIFICATION FairSpec
INVARIANTS NeverNoSpace AnswersMeanTheWork
PROPERTIES WorksFinish
CHECK_DEADLOCK FALSE
