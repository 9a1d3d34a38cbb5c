SPECIFICATION FairSpec
CONSTANTS
    Threads = {t1, t2}
    Jobs = {a, b}
    NoJob = none
    DefRing = 1
    MaxRing = 3
INVARIANT ItemsAreSomewhere
PROPERTIES JobsAreDone PollersWake ImplementsQueue
