CONSTANTS
    Pids <- MCPids
    None = None
    Poll = Poll
    Restarters = {r1}
    MaxEvents = 4
SPECIFICATION Spec
INVARIANT NotRunningNoWatchdog
