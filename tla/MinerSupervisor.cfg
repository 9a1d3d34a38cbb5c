CONSTANTS
    Pids <- MCPids
    None = None
    Poll = Poll
    Restarters = {}
    MaxEvents = 5
SPECIFICATION FairSpec
INVARIANTS TypeOK OneWatchdog WatchdogNamed
PROPERTIES CleanStop RefinesService NamedDaemonIsUnique StopsInTheEnd
