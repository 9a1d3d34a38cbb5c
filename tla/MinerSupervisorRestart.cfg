CONSTANTS
    Pids <- MCPids
    None = None
    Poll = Poll
    Restarters = {r1}
    MaxEvents = 1
SPECIFICATION FairSpec
PROPERTY BootsItself
