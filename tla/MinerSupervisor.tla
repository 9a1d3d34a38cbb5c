--------------------------- MODULE MinerSupervisor ---------------------------
(***************************************************************************)
(* The supervision of the mining daemons on one miner, as the shell        *)
(* scripts of /usr/local/bin build it out of files and processes:          *)
(*                                                                         *)
(*   miner_starter_simple   poll_eth_loop, here the caller Poll: starts or *)
(*                          stops mining after mining_status and the IP    *)
(*   spond-runner           start_mg and stop_mg, run by Poll and by every *)
(*                          `spond-manager restart'                        *)
(*   miner_gate_arm_watchdog the subshell start_mg leaves behind: it forks *)
(*                          minergate ("mg") and cgminer ("cg") and forks  *)
(*                          them again when they die                       *)
(*   spond-manager          start and stop write mining_status, restart is *)
(*                          one of Restarters                              *)
(*                                                                         *)
(* One step is one command of a script (a cat, a fork, an echo into a pid  *)
(* file, a kill, an rm): between two commands any other process may run.   *)
(* A sleep orders nothing, except that a daemon told to stop is taken to   *)
(* be gone after the three seconds stop_mg waits for it (Wait3).           *)
(***************************************************************************)
EXTENDS Naturals, FiniteSets

CONSTANTS
    Pids,        \* process ids
    None,        \* no pid: an absent pid file, an empty shell variable
    Poll,        \* the poll loop of miner_starter_simple
    Restarters,  \* concurrent invocations of `spond-manager restart'
    MaxEvents    \* bound on the steps of the environment

ASSUME NoneAssumption == None \notin Pids
ASSUME PollAssumption == Poll \notin Restarters
ASSUME MaxEventsAssumption == MaxEvents \in Nat

Callers == {Poll} \cup Restarters
Daemons == {"mg", "cg"}
Kinds   == {"wd"} \cup Daemons
MaybePid == Pids \cup {None}

\* Variant: stop_mg forgets the watchdog.
KillOrderNoWatchdog == <<"mg", "cg", "mg">>

\* The order in which stop_mg reads and kills, and the order in which it
\* removes the pid files.
KillOrder == <<"wd", "cg", "mg">>
\* Variant: the pid file of cgminer is left behind.
RmOrderLeavesCg == <<"wd", "mg", "mg">>
RmOrder   == <<"wd", "mg", "cg">>

VARIABLES
    status,    \* /etc/mining_status is above zero
    ip,        \* some interface other than lo has an address
    runFlag,   \* /var/run/spond-manager.running exists
    pidFile,   \* the pid files of /var/run, by kind
    daemon,    \* the live minergate and cgminer processes
    dying,     \* those of them that were sent SIGTERM
    wd,        \* the watchdog subshells, by pid
    caller,    \* the shells that run spond-runner
    events     \* steps the environment has taken

vars == <<status, ip, runFlag, pidFile, daemon, dying, wd, caller, events>>

NoWd == [pc |-> "none", kind |-> "mg", pid |-> None, boot |-> FALSE]

\* The watchdog as start_mg forks it: about to start minergate.
NewWd == [pc |-> "fork", kind |-> "mg", pid |-> None, boot |-> TRUE]

WdStates == [pc   : {"none", "fork", "write", "cat", "test"},
             kind : Daemons, pid : MaybePid, boot : BOOLEAN]

PollPcs == {"readStatus", "readFlag", "readIp"}
RunPcs  == {"startCheck", "startFlag", "startFork", "startWrite",
            "stopCheck", "cat", "kill", "rm", "wait", "rmFlag"}

CallerPcs == PollPcs \cup RunPcs \cup {"idle", "setStatus", "gone"}

\* A caller's program counter, the index of its cat, kill or rm, its pid
\* variables and, for Poll, the values it polled.
CallerStates == [pc : CallerPcs, i : 1..3,
                 pid : [Kinds -> MaybePid], child : MaybePid,
                 wanted : BOOLEAN, running : BOOLEAN]

NoPids == [k \in Kinds |-> None]
Fresh(pc) == [pc |-> pc, i |-> 1, pid |-> NoPids, child |-> None,
              wanted |-> FALSE, running |-> FALSE]

TypeOK ==
    /\ status \in BOOLEAN
    /\ ip \in BOOLEAN
    /\ runFlag \in BOOLEAN
    /\ pidFile \in [Kinds -> MaybePid]
    /\ daemon \in [Daemons -> SUBSET Pids]
    /\ dying \in SUBSET Pids
    /\ wd \in [Pids -> WdStates]
    /\ caller \in [Callers -> CallerStates]
    /\ events \in Nat

Watchdogs == {p \in Pids : wd[p].pc # "none"}
Alive     == Watchdogs \cup daemon["mg"] \cup daemon["cg"]

\* A new process gets a pid that no process has and no script remembers.
Remembered == {pidFile[k] : k \in Kinds}
              \cup {wd[p].pid : p \in Pids}
              \cup {caller[c].child : c \in Callers}
              \cup {caller[c].pid[k] : c \in Callers, k \in Kinds}
FreePids == Pids \ (Alive \cup Remembered)
NewPid   == CHOOSE p \in FreePids : TRUE
CanFork  == FreePids # {}

Init ==
    /\ status \in BOOLEAN
    /\ ip \in BOOLEAN
    /\ runFlag = FALSE
    /\ pidFile = NoPids
    /\ daemon = [d \in Daemons |-> {}]
    /\ dying = {}
    /\ wd = [p \in Pids |-> NoWd]
    /\ caller = [c \in Callers |->
                    IF c = Poll THEN Fresh("readStatus") ELSE Fresh("idle")]
    /\ events = 0

(***************************************************************************)
(* spond-runner, run by caller c.  Done(c) is the state c returns to.      *)
(***************************************************************************)
At(c, pc) == caller[c].pc = pc
Goto(c, pc) == caller' = [caller EXCEPT ![c].pc = pc]

\* Poll sleeps and polls again; a restart goes on to `spond-manager start'.
Done(c) == IF c = Poll THEN Fresh("readStatus") ELSE Fresh("setStatus")
Return(c) == caller' = [caller EXCEPT ![c] = Done(c)]

\* From one cat, kill or rm to the next, and to pc after the third.
Advance(c, entry, pc) ==
    caller' = [caller EXCEPT ![c] =
                 IF entry.i < 3 THEN [entry EXCEPT !.i = @ + 1]
                 ELSE [entry EXCEPT !.i = 1, !.pc = pc]]

StartCheck(c) ==
    /\ At(c, "startCheck")
    /\ IF runFlag THEN Return(c) ELSE Goto(c, "startFlag")
    /\ UNCHANGED <<status, ip, runFlag, pidFile, daemon, dying, wd, events>>

\* Variant: the flag is not set.
StartFlagUnset(c) ==
    /\ At(c, "startFlag")
    /\ Goto(c, "startFork")
    /\ UNCHANGED <<status, ip, runFlag, pidFile, daemon, dying, wd, events>>

StartFlag(c) ==
    /\ At(c, "startFlag")
    /\ runFlag' = TRUE
    /\ Goto(c, "startFork")
    /\ UNCHANGED <<status, ip, pidFile, daemon, dying, wd, events>>

\* Variant: $? for $!.
StartForkExitCode(c) ==
    /\ At(c, "startFork")
    /\ CanFork
    /\ wd' = [wd EXCEPT ![NewPid] = NewWd]
    /\ caller' = [caller EXCEPT ![c].pc = "startWrite", ![c].child = 0]
    /\ UNCHANGED <<status, ip, runFlag, pidFile, daemon, dying, events>>

StartFork(c) ==
    /\ At(c, "startFork")
    /\ CanFork
    /\ wd' = [wd EXCEPT ![NewPid] = NewWd]
    /\ caller' = [caller EXCEPT ![c].pc = "startWrite", ![c].child = NewPid]
    /\ UNCHANGED <<status, ip, runFlag, pidFile, daemon, dying, events>>

StartWrite(c) ==
    /\ At(c, "startWrite")
    /\ pidFile' = [pidFile EXCEPT !["wd"] = caller[c].child]
    /\ Return(c)
    /\ UNCHANGED <<status, ip, runFlag, daemon, dying, wd, events>>

\* Variant: the flag is removed before anything is killed.
StopCheckFlagFirst(c) ==
    /\ At(c, "stopCheck")
    /\ IF runFlag THEN Goto(c, "cat") ELSE Return(c)
    /\ runFlag' = FALSE
    /\ UNCHANGED <<status, ip, pidFile, daemon, dying, wd, events>>

StopCheck(c) ==
    /\ At(c, "stopCheck")
    /\ IF runFlag THEN Goto(c, "cat") ELSE Return(c)
    /\ UNCHANGED <<status, ip, runFlag, pidFile, daemon, dying, wd, events>>

CatPid(c) ==
    /\ At(c, "cat")
    /\ LET k == KillOrder[caller[c].i]
       IN  Advance(c, [caller[c] EXCEPT !.pid[k] = pidFile[k]], "kill")
    /\ UNCHANGED <<status, ip, runFlag, pidFile, daemon, dying, wd, events>>

\* The watchdog is a shell and dies of SIGTERM at once; a daemon is told to
\* stop.  An empty or stale pid kills nothing.
KillPid(c) ==
    /\ At(c, "kill")
    /\ LET p == caller[c].pid[KillOrder[caller[c].i]]
       IN  /\ wd' = [q \in Pids |-> IF q = p THEN NoWd ELSE wd[q]]
           /\ dying' = dying \cup ({p} \cap (daemon["mg"] \cup daemon["cg"]))
    /\ Advance(c, caller[c], "rm")
    /\ UNCHANGED <<status, ip, runFlag, pidFile, daemon, events>>

RmPidFile(c) ==
    /\ At(c, "rm")
    /\ pidFile' = [pidFile EXCEPT ![RmOrder[caller[c].i]] = None]
    /\ Advance(c, caller[c], "wait")
    /\ UNCHANGED <<status, ip, runFlag, daemon, dying, wd, events>>

\* sleep 3: long enough for the daemons that were told to stop.
Wait3(c) ==
    /\ At(c, "wait")
    /\ \A k \in Kinds : caller[c].pid[k] \notin dying
    /\ Goto(c, "rmFlag")
    /\ UNCHANGED <<status, ip, runFlag, pidFile, daemon, dying, wd, events>>

\* Variant: the flag is left behind.
RmFlagKept(c) ==
    /\ At(c, "rmFlag")
    /\ Return(c)
    /\ UNCHANGED <<status, ip, runFlag, pidFile, daemon, dying, wd, events>>

RmFlag(c) ==
    /\ At(c, "rmFlag")
    /\ runFlag' = FALSE
    /\ Return(c)
    /\ UNCHANGED <<status, ip, pidFile, daemon, dying, wd, events>>

SpondRunner(c) ==
    \/ StartCheck(c) \/ StartFlag(c) \/ StartFork(c) \/ StartWrite(c)
    \/ StopCheck(c) \/ CatPid(c) \/ KillPid(c) \/ RmPidFile(c)
    \/ Wait3(c) \/ RmFlag(c)

(***************************************************************************)
(* poll_eth_loop: it reads the status, the flag and the addresses one      *)
(* after the other and acts on what it read.                               *)
(***************************************************************************)
ReadStatus ==
    /\ At(Poll, "readStatus")
    /\ caller' = [caller EXCEPT ![Poll].pc = "readFlag", ![Poll].wanted = status]
    /\ UNCHANGED <<status, ip, runFlag, pidFile, daemon, dying, wd, events>>

ReadFlag ==
    /\ At(Poll, "readFlag")
    /\ caller' = [caller EXCEPT ![Poll].pc = "readIp", ![Poll].running = runFlag]
    /\ UNCHANGED <<status, ip, runFlag, pidFile, daemon, dying, wd, events>>

\* Variant: mining goes on without an address.
ReadIpStatusOnly ==
    /\ At(Poll, "readIp")
    /\ LET wanted == caller[Poll].wanted
       IN  CASE wanted /\ ~caller[Poll].running -> Goto(Poll, "startCheck")
             [] ~wanted /\ caller[Poll].running -> Goto(Poll, "stopCheck")
             [] OTHER                           -> Return(Poll)
    /\ UNCHANGED <<status, ip, runFlag, pidFile, daemon, dying, wd, events>>

ReadIp ==
    /\ At(Poll, "readIp")
    /\ LET wanted == caller[Poll].wanted /\ ip
       IN  CASE wanted /\ ~caller[Poll].running -> Goto(Poll, "startCheck")
             [] ~wanted /\ caller[Poll].running -> Goto(Poll, "stopCheck")
             [] OTHER                           -> Return(Poll)
    /\ UNCHANGED <<status, ip, runFlag, pidFile, daemon, dying, wd, events>>

PollLoop == ReadStatus \/ ReadFlag \/ ReadIp \/ SpondRunner(Poll)

(***************************************************************************)
(* The watchdog with pid w: miner_gate_arm_watchdog.                       *)
(***************************************************************************)
Other(d) == IF d = "mg" THEN "cg" ELSE "mg"

\* `$..._CMD &'
WdFork(w) ==
    /\ wd[w].pc = "fork"
    /\ CanFork
    /\ daemon' = [daemon EXCEPT ![wd[w].kind] = @ \cup {NewPid}]
    /\ wd' = [wd EXCEPT ![w].pc = "write", ![w].pid = NewPid]
    /\ UNCHANGED <<status, ip, runFlag, pidFile, dying, caller, events>>

\* `echo $! > ...pid': minergate, a sleep of five seconds and cgminer when
\* the watchdog starts, and the next daemon of the loop after that.
WdWrite(w) ==
    /\ wd[w].pc = "write"
    /\ pidFile' = [pidFile EXCEPT ![wd[w].kind] = wd[w].pid]
    /\ LET first == wd[w].boot /\ wd[w].kind = "mg"
       IN  wd' = [wd EXCEPT ![w] =
                    [pc |-> IF first THEN "fork" ELSE "cat",
                     kind |-> Other(wd[w].kind), pid |-> None, boot |-> first]]
    /\ UNCHANGED <<status, ip, runFlag, daemon, dying, caller, events>>

WdCat(w) ==
    /\ wd[w].pc = "cat"
    /\ wd' = [wd EXCEPT ![w].pc = "test", ![w].pid = pidFile[wd[w].kind]]
    /\ UNCHANGED <<status, ip, runFlag, pidFile, daemon, dying, caller, events>>

\* Variant: the watchdog forks without looking at /proc.
WdTestBlind(w) ==
    /\ wd[w].pc = "test"
    /\ wd' = [wd EXCEPT ![w] =
                IF wd[w].pid # None THEN [wd[w] EXCEPT !.pc = "fork"]
                ELSE [NoWd EXCEPT !.pc = "cat", !.kind = Other(wd[w].kind)]]
    /\ UNCHANGED <<status, ip, runFlag, pidFile, daemon, dying, caller, events>>

\* [ ! -e /proc/$pid -a /proc/$pid/exe ]: with an empty pid the test sees
\* /proc itself and forks nothing.
WdTest(w) ==
    /\ wd[w].pc = "test"
    /\ wd' = [wd EXCEPT ![w] =
                IF wd[w].pid # None /\ wd[w].pid \notin Alive
                THEN [wd[w] EXCEPT !.pc = "fork"]
                ELSE [NoWd EXCEPT !.pc = "cat", !.kind = Other(wd[w].kind)]]
    /\ UNCHANGED <<status, ip, runFlag, pidFile, daemon, dying, caller, events>>

Watchdog(w) == WdFork(w) \/ WdWrite(w) \/ WdCat(w) \/ WdTest(w)

(***************************************************************************)
(* spond-manager, the daemons and the network.                             *)
(***************************************************************************)
Event == events < MaxEvents /\ events' = events + 1

\* `spond-manager start' and `spond-manager stop'
SetStatus ==
    /\ Event
    /\ status' = ~status
    /\ UNCHANGED <<ip, runFlag, pidFile, daemon, dying, wd, caller>>

\* `spond-manager restart' begins with `spond-runner stop' ...
Restart(c) ==
    /\ At(c, "idle")
    /\ Goto(c, "stopCheck")
    /\ UNCHANGED <<status, ip, runFlag, pidFile, daemon, dying, wd, events>>

\* ... and ends with `spond-manager start': the poll loop does the rest.
RestartEnds(c) ==
    /\ At(c, "setStatus")
    /\ status' = TRUE
    /\ caller' = [caller EXCEPT ![c] = Fresh("gone")]
    /\ UNCHANGED <<ip, runFlag, pidFile, daemon, dying, wd, events>>

\* An address comes or goes.
IpChange ==
    /\ Event
    /\ ip' = ~ip
    /\ UNCHANGED <<status, runFlag, pidFile, daemon, dying, wd, caller>>

Bury(d, p) == /\ daemon' = [daemon EXCEPT ![d] = @ \ {p}]
              /\ dying' = dying \ {p}

\* A daemon dies of itself.
Crash(d, p) ==
    /\ p \in daemon[d] \ dying
    /\ Event
    /\ Bury(d, p)
    /\ UNCHANGED <<status, ip, runFlag, pidFile, wd, caller>>

\* A daemon ends because it was told to.
Exit(d, p) ==
    /\ p \in daemon[d] \cap dying
    /\ Bury(d, p)
    /\ UNCHANGED <<status, ip, runFlag, pidFile, wd, caller, events>>

Next ==
    \/ PollLoop
    \/ \E c \in Restarters : Restart(c) \/ SpondRunner(c) \/ RestartEnds(c)
    \/ \E w \in Pids : Watchdog(w)
    \/ SetStatus
    \/ IpChange
    \/ \E d \in Daemons, p \in Pids : Crash(d, p) \/ Exit(d, p)

\* Every script goes on running and the daemons told to stop stop, one after
\* another; nothing is asked of users, of the network or of crashes.
Fairness ==
    /\ WF_vars(PollLoop)
    /\ \A c \in Restarters : WF_vars(SpondRunner(c) \/ RestartEnds(c))
    /\ \A w \in Pids : WF_vars(Watchdog(w))
    /\ WF_vars(\E d \in Daemons, p \in Pids : Exit(d, p))

Spec == Init /\ [][Next]_vars
FairSpec == Spec /\ Fairness

-----------------------------------------------------------------------------
(***************************************************************************)
(* Properties.  Those about watchdogs hold as long as the poll loop alone  *)
(* runs spond-runner (Restarters = {}).                                    *)
(***************************************************************************)

\* However the addresses, the status and the daemons behave, there is never
\* a second watchdog: the flag spond-runner checks and sets is enough.
OneWatchdog == \A v, w \in Watchdogs : v = w

\* A watchdog can always be stopped: the flag that lets stop_mg run is set
\* and the pid file names it, unless the echo of its pid is still to come.
WatchdogNamed ==
    \A w \in Watchdogs :
        /\ runFlag
        /\ \/ pidFile["wd"] = w
           \/ At(Poll, "startWrite") /\ caller[Poll].child = w

\* When stop_mg takes the flag away, which lets the next start through, the
\* watchdog is dead, no pid file is left and what they named has ended.
CleanStop ==
    [][runFlag /\ ~runFlag' =>
         /\ Watchdogs = {}
         /\ pidFile = NoPids
         /\ \A k \in Kinds : caller[Poll].pid[k] \notin Alive]_vars

\* A watchdog forks a daemon only if the one its pid file names is dead,
\* although it reads that file long before it forks.
NamedDaemonIsUnique ==
    [][\A d \in Daemons :
         (daemon'[d] \ daemon[d]) # {} => pidFile[d] \notin daemon[d] \ dying]_vars

\* The watchdogs, the flag and the step of the poll loop as an instance of
\* MiningService.
servicePhase ==
    IF ~runFlag THEN "off"
    ELSE IF Watchdogs # {} THEN "up"
    ELSE IF At(Poll, "startFork") THEN "claimed" ELSE "down"
InstanceOf(W) == IF W = {} THEN None ELSE CHOOSE w \in W : TRUE

Service == INSTANCE MiningService
           WITH Instances <- Pids, Nobody <- None,
                phase <- servicePhase, instance <- InstanceOf(Watchdogs)

\* The scripts run mining as the abstract service does: one watchdog at a
\* time, and the next one only after stop_mg is through with the last.
RefinesService == Service!ServiceSpec

Wanted == status /\ ip
Mining == daemon["mg"] # {} /\ daemon["cg"] # {}

\* ``IT WILL BOOT ITSELF'' (spond-manager): once mining is wanted and stays
\* wanted, both daemons run again and again, whatever was stopped, restarted
\* or died before.
BootsItself == <>[]Wanted => []<>Mining

\* Once mining is unwanted and stays so, the watchdog is gone for good.
StopsInTheEnd == <>[]~Wanted => <>[](Watchdogs = {} /\ ~runFlag)

\* No command of spond-runner is under way.
Quiet == \A c \in Callers : caller[c].pc \notin RunPcs

\* ``Mining manager not running'' (spond-runner): without the flag no
\* watchdog runs.
NotRunningNoWatchdog == Quiet /\ ~runFlag => Watchdogs = {}
=============================================================================
