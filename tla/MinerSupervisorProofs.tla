------------------------ MODULE MinerSupervisorProofs ------------------------
(***************************************************************************)
(* What holds of MinerSupervisor for any number of pids and any length of  *)
(* run.  The type invariant holds with any number of restarts; the rest    *)
(* while the poll loop alone runs spond-runner.                            *)
(***************************************************************************)
EXTENDS MinerSupervisor, TLAPS

PollPc == caller[Poll].pc
PollI  == caller[Poll].i

\* stop_mg has killed the watchdog.
Killed == \/ PollPc = "kill" /\ PollI > 1
          \/ PollPc \in {"rm", "wait", "rmFlag"}

\* The pid stop_mg read for kind k is gone or was sent SIGTERM.
Told(k) == caller[Poll].pid[k] \in Alive => caller[Poll].pid[k] \in dying

\* Where the poll loop stands against the flag, the watchdog and its pid
\* file.
StartInv ==
    /\ PollPc = "startFlag" => ~runFlag
    /\ PollPc = "startFork" => runFlag /\ Watchdogs = {} /\ pidFile = NoPids
    /\ PollPc = "startWrite" => runFlag /\ pidFile["wd"] = None
    /\ PollPc \in {"cat", "kill", "rm", "wait", "rmFlag"} => runFlag
    /\ ~runFlag => pidFile = NoPids

\* No process is of two kinds.
KindsDisjoint == /\ daemon["mg"] \cap daemon["cg"] = {}
                 /\ Watchdogs \cap (daemon["mg"] \cup daemon["cg"]) = {}

\* What stop_mg has read, killed and removed so far.
StopInv ==
    /\ KindsDisjoint
    /\ PollPc \notin {"cat", "kill", "rm"} => PollI = 1
    /\ PollPc = "cat" /\ PollI > 1 => caller[Poll].pid["wd"] = pidFile["wd"]
    /\ PollPc = "kill" /\ PollI = 1 => caller[Poll].pid["wd"] = pidFile["wd"]
    /\ Killed => Watchdogs = {}
    /\ PollPc = "kill" => \A j \in 1..3 : j < PollI => Told(KillOrder[j])
    /\ PollPc \in {"rm", "wait", "rmFlag"} => \A k \in Kinds : Told(k)
    /\ PollPc = "rm" => \A j \in 1..3 : j < PollI => pidFile[RmOrder[j]] = None
    /\ PollPc \in {"wait", "rmFlag"} => pidFile = NoPids
    /\ PollPc = "rmFlag" => \A k \in Kinds : caller[Poll].pid[k] \notin Alive

\* What the watchdog knows of the daemon it is about to fork.
WatchdogInv ==
    \A w \in Watchdogs :
        /\ wd[w].pc = "fork" => pidFile[wd[w].kind] \notin daemon[wd[w].kind]
        /\ wd[w].pc = "test" => wd[w].pid = pidFile[wd[w].kind]
        /\ wd[w].pc \in {"cat", "test"} => ~wd[w].boot
        /\ wd[w].boot => pidFile["cg"] = None
        /\ wd[w].boot /\ wd[w].pc = "fork" /\ wd[w].kind = "mg"
              => pidFile["mg"] = None

Inv == TypeOK /\ OneWatchdog /\ WatchdogNamed /\ StartInv /\ StopInv /\ WatchdogInv

-----------------------------------------------------------------------------
(***************************************************************************)
(* Type correctness, with any number of restarts.                          *)
(***************************************************************************)

\* A fork gets a pid that is free.
LEMMA NewPidIsFree == CanFork => NewPid \in FreePids
  BY DEF CanFork, NewPid

\* The states a caller is put in by a return are states of a caller.
LEMMA FreshIsCallerState ==
  ASSUME NEW pc \in CallerPcs
  PROVE  Fresh(pc) \in CallerStates
  BY DEF Fresh, CallerStates, NoPids, MaybePid

LEMMA DoneIsCallerState ==
  ASSUME NEW c PROVE Done(c) \in CallerStates
<1>1. "readStatus" \in CallerPcs /\ "setStatus" \in CallerPcs
  BY DEF CallerPcs, PollPcs
<1> QED
  BY <1>1, FreshIsCallerState DEF Done

\* A caller that moves on is still a caller.
LEMMA GotoType ==
  ASSUME TypeOK, NEW c \in Callers, NEW pc \in CallerPcs,
         Goto(c, pc) \/ Return(c)
  PROVE  caller' \in [Callers -> CallerStates]
<1>1. CASE Goto(c, pc)
  <2>1. [caller[c] EXCEPT !.pc = pc] \in CallerStates
    BY DEF TypeOK, CallerStates
  <2> QED
    BY <1>1, <2>1 DEF TypeOK, Goto
<1>2. CASE Return(c)
  BY <1>2, DoneIsCallerState DEF TypeOK, Return
<1> QED
  BY <1>1, <1>2

LEMMA RunPcsAreCallerPcs == RunPcs \subseteq CallerPcs
  BY DEF CallerPcs

\* Going from one command of a list to the next keeps a caller a caller.
LEMMA AdvanceType ==
  ASSUME TypeOK, NEW c \in Callers, NEW entry \in CallerStates,
         NEW pc \in RunPcs, Advance(c, entry, pc)
  PROVE  caller' \in [Callers -> CallerStates]
<1>1. CASE entry.i < 3
  <2>1. entry.i + 1 \in 1..3
    BY <1>1 DEF CallerStates
  <2>2. [entry EXCEPT !.i = @ + 1] \in CallerStates
    BY <2>1 DEF CallerStates
  <2> QED
    BY <1>1, <2>2 DEF TypeOK, Advance
<1>2. CASE ~(entry.i < 3)
  <2>1. pc \in CallerPcs /\ 1 \in 1..3
    BY RunPcsAreCallerPcs
  <2>2. [entry EXCEPT !.i = 1, !.pc = pc] \in CallerStates
    BY <2>1 DEF CallerStates
  <2> QED
    BY <1>2, <2>2 DEF TypeOK, Advance
<1> QED
  BY <1>1, <1>2

\* Every command of spond-runner keeps the types.
LEMMA RunnerType ==
  ASSUME TypeOK, NEW c \in Callers, SpondRunner(c)
  PROVE  TypeOK'
<1> USE DEF TypeOK
<1>0. {"startFlag", "startFork", "startWrite", "cat", "rmFlag"} \subseteq CallerPcs
  BY RunPcsAreCallerPcs DEF RunPcs
<1>1. CASE StartCheck(c)
  BY <1>1, <1>0, GotoType DEF StartCheck
<1>2. CASE StartFlag(c)
  BY <1>2, <1>0, GotoType DEF StartFlag
<1>3. CASE StartFork(c)
  <2>1. NewPid \in Pids
    BY <1>3, NewPidIsFree DEF StartFork, FreePids
  <2>2. NewWd \in WdStates
    BY DEF NewWd, WdStates, Daemons, MaybePid
  <2>3. wd' \in [Pids -> WdStates]
    BY <1>3, <2>1, <2>2 DEF StartFork
  <2>4. caller' \in [Callers -> CallerStates]
    <3>1. NewPid \in MaybePid
      BY <2>1 DEF MaybePid
    <3>2. [caller[c] EXCEPT !.pc = "startWrite", !.child = NewPid] \in CallerStates
      BY <1>0, <3>1 DEF CallerStates
    <3> QED
      BY <1>3, <3>2 DEF StartFork
  <2> QED
    BY <1>3, <2>3, <2>4 DEF StartFork
<1>4. CASE StartWrite(c)
  BY <1>4, DoneIsCallerState DEF StartWrite, Return, CallerStates
<1>5. CASE StopCheck(c)
  BY <1>5, <1>0, GotoType DEF StopCheck
<1>6. CASE CatPid(c)
  <2> DEFINE k == KillOrder[caller[c].i]
             entry == [caller[c] EXCEPT !.pid[k] = pidFile[k]]
  <2>1. k \in Kinds
    BY DEF KillOrder, CallerStates, Kinds, Daemons
  <2>2. entry \in CallerStates
    BY <2>1, Zenon DEF CallerStates, MaybePid
  <2>3. caller' \in [Callers -> CallerStates]
    BY <1>6, <2>2, AdvanceType DEF CatPid, RunPcs
  <2> QED
    BY <1>6, <2>3 DEF CatPid
<1>7. CASE KillPid(c)
  <2>1. NoWd \in WdStates
    BY DEF NoWd, WdStates, Daemons, MaybePid
  <2>2. caller' \in [Callers -> CallerStates]
    BY <1>7, AdvanceType DEF KillPid, RunPcs
  <2>3. wd' \in [Pids -> WdStates]
    BY <1>7, <2>1 DEF KillPid
  <2>4. dying' \in SUBSET Pids
    BY <1>7 DEF KillPid, Daemons
  <2> QED
    BY <1>7, <2>2, <2>3, <2>4 DEF KillPid
<1>8. CASE RmPidFile(c)
  <2>1. caller' \in [Callers -> CallerStates]
    BY <1>8, AdvanceType DEF RmPidFile, RunPcs
  <2> QED
    BY <1>8, <2>1 DEF RmPidFile, MaybePid
<1>9. CASE Wait3(c)
  BY <1>9, <1>0, GotoType DEF Wait3
<1>10. CASE RmFlag(c)
  BY <1>10, DoneIsCallerState DEF RmFlag, Return, CallerStates
<1> QED
  BY <1>1, <1>2, <1>3, <1>4, <1>5, <1>6, <1>7, <1>8, <1>9, <1>10 DEF SpondRunner

\* So does every step of the poll loop itself ...
LEMMA PollType == ASSUME TypeOK, ReadStatus \/ ReadFlag \/ ReadIp PROVE TypeOK'
<1> USE DEF TypeOK
<1>0. Poll \in Callers
  BY DEF Callers
<1>1. CASE ReadStatus
  <2>1. "readFlag" \in CallerPcs /\ caller[Poll] \in CallerStates
    BY <1>0 DEF CallerPcs, PollPcs
  <2>2. PICK entry : entry = [caller[Poll] EXCEPT !.pc = "readFlag", !.wanted = status]
    OBVIOUS
  <2>3. entry \in CallerStates
    BY <2>1, <2>2 DEF CallerStates
  <2>4. caller' = [caller EXCEPT ![Poll] = entry]
    BY <1>0, <1>1, <2>2 DEF ReadStatus
  <2>5. caller' \in [Callers -> CallerStates]
    BY <2>3, <2>4
  <2> QED
    BY <1>1, <2>5 DEF ReadStatus
<1>2. CASE ReadFlag
  <2>1. "readIp" \in CallerPcs /\ caller[Poll] \in CallerStates
    BY <1>0 DEF CallerPcs, PollPcs
  <2>2. PICK entry : entry = [caller[Poll] EXCEPT !.pc = "readIp", !.running = runFlag]
    OBVIOUS
  <2>3. entry \in CallerStates
    BY <2>1, <2>2 DEF CallerStates
  <2>4. caller' = [caller EXCEPT ![Poll] = entry]
    BY <1>0, <1>2, <2>2 DEF ReadFlag
  <2>5. caller' \in [Callers -> CallerStates]
    BY <2>3, <2>4
  <2> QED
    BY <1>2, <2>5 DEF ReadFlag
<1>3. CASE ReadIp
  <2>1. {"startCheck", "stopCheck"} \subseteq CallerPcs
    BY DEF CallerPcs, RunPcs
  <2> QED
    BY <1>0, <1>3, <2>1, GotoType DEF ReadIp
<1> QED
  BY <1>1, <1>2, <1>3

\* ... of a watchdog ...
LEMMA WatchdogType ==
  ASSUME TypeOK, NEW w \in Pids, Watchdog(w)
  PROVE  TypeOK'
<1> USE DEF TypeOK
<1>1. CASE WdFork(w)
  <2>1. NewPid \in Pids
    BY <1>1, NewPidIsFree DEF WdFork, FreePids
  <2>2. PICK entry : entry = [wd[w] EXCEPT !.pc = "write", !.pid = NewPid]
    OBVIOUS
  <2>3. entry \in WdStates
    <3>1. wd[w] \in WdStates /\ NewPid \in MaybePid
      BY <2>1 DEF MaybePid
    <3> HIDE DEF TypeOK
    <3> QED
      BY <2>2, <3>1 DEF WdStates
  <2>4. wd' = [wd EXCEPT ![w] = entry]
    BY <1>1, <2>2 DEF WdFork
  <2>5. wd' \in [Pids -> WdStates]
    BY <2>3, <2>4
  <2>6. wd[w].kind \in Daemons
    BY DEF WdStates
  <2>7. daemon' \in [Daemons -> SUBSET Pids]
    BY <1>1, <2>1, <2>6 DEF WdFork
  <2> QED
    BY <1>1, <2>5, <2>7 DEF WdFork
<1>2. CASE WdWrite(w)
  BY <1>2 DEF WdWrite, WdStates, MaybePid, Kinds, Daemons, Other
<1>3. CASE WdCat(w)
  <2>1. pidFile[wd[w].kind] \in MaybePid
    BY DEF WdStates, Kinds, Daemons
  <2>2. PICK entry : entry = [wd[w] EXCEPT !.pc = "test", !.pid = pidFile[wd[w].kind]]
    OBVIOUS
  <2>3. entry \in WdStates
    BY <2>1, <2>2 DEF WdStates
  <2>4. wd' = [wd EXCEPT ![w] = entry]
    BY <1>3, <2>2 DEF WdCat
  <2>5. wd' \in [Pids -> WdStates]
    BY <2>3, <2>4
  <2> QED
    BY <1>3, <2>5 DEF WdCat
<1>4. CASE WdTest(w)
  <2>1. [wd[w] EXCEPT !.pc = "fork"] \in WdStates
    BY DEF WdStates
  <2>2. [NoWd EXCEPT !.pc = "cat", !.kind = Other(wd[w].kind)] \in WdStates
    BY DEF WdStates, NoWd, MaybePid, Daemons, Other
  <2>3. wd' \in [Pids -> WdStates]
    <3>1. CASE wd[w].pid # None /\ wd[w].pid \notin Alive
      BY <1>4, <2>1, <3>1 DEF WdTest
    <3>2. CASE ~(wd[w].pid # None /\ wd[w].pid \notin Alive)
      BY <1>4, <2>2, <3>2 DEF WdTest
    <3> QED
      BY <3>1, <3>2
  <2> QED
    BY <1>4, <2>3 DEF WdTest
<1> QED
  BY <1>1, <1>2, <1>3, <1>4 DEF Watchdog

\* ... of a restart, and of what the scripts do not decide.
LEMMA RestartType ==
  ASSUME TypeOK, NEW c \in Restarters, Restart(c) \/ RestartEnds(c)
  PROVE  TypeOK'
<1> USE DEF TypeOK
<1>0. c \in Callers
  BY DEF Callers
<1>1. CASE Restart(c)
  <2>1. "stopCheck" \in CallerPcs
    BY DEF CallerPcs, RunPcs
  <2> QED
    BY <1>0, <1>1, <2>1, GotoType DEF Restart
<1>2. CASE RestartEnds(c)
  BY <1>0, <1>2, FreshIsCallerState DEF RestartEnds, CallerPcs
<1> QED
  BY <1>1, <1>2

LEMMA EnvironmentType ==
  ASSUME TypeOK,
         \/ SetStatus
         \/ IpChange
         \/ \E d \in Daemons, p \in Pids : Crash(d, p) \/ Exit(d, p)
  PROVE  TypeOK'
<1> USE DEF TypeOK, Event
<1>1. CASE SetStatus
  BY <1>1 DEF SetStatus
<1>2. CASE IpChange
  BY <1>2 DEF IpChange
<1>3. ASSUME NEW d \in Daemons, NEW p \in Pids, Crash(d, p) \/ Exit(d, p)
      PROVE  TypeOK'
  BY <1>3 DEF Crash, Exit, Bury
<1> QED
  BY <1>1, <1>2, <1>3

LEMMA TypeStep == TypeOK /\ [Next]_vars => TypeOK'
<1> SUFFICES ASSUME TypeOK, [Next]_vars PROVE TypeOK'
  OBVIOUS
<1>1. CASE UNCHANGED vars
  BY <1>1 DEF TypeOK, vars
<1>2. CASE PollLoop
  BY <1>2, PollType, RunnerType DEF PollLoop, Callers
<1>3. ASSUME NEW c \in Restarters, Restart(c) \/ SpondRunner(c) \/ RestartEnds(c)
      PROVE  TypeOK'
  BY <1>3, RestartType, RunnerType DEF Callers
<1>4. ASSUME NEW w \in Pids, Watchdog(w) PROVE TypeOK'
  BY <1>4, WatchdogType
<1> QED
  BY <1>1, <1>2, <1>3, <1>4, EnvironmentType DEF Next

LEMMA TypeInit == Init => TypeOK
<1>1. NoWd \in WdStates
  BY DEF NoWd, WdStates, Daemons, MaybePid
<1>2. {"readStatus", "idle"} \subseteq CallerPcs
  BY DEF CallerPcs, PollPcs
<1>3. NoPids \in [Kinds -> MaybePid]
  BY DEF NoPids, MaybePid
<1>4. Init => caller \in [Callers -> CallerStates]
  BY <1>2, FreshIsCallerState DEF Init
<1>5. Init => wd \in [Pids -> WdStates] /\ daemon \in [Daemons -> SUBSET Pids]
  BY <1>1 DEF Init
<1>6. Init => status \in BOOLEAN /\ ip \in BOOLEAN /\ runFlag \in BOOLEAN
  BY DEF Init
<1>7. Init => pidFile \in [Kinds -> MaybePid] /\ dying \in SUBSET Pids /\ events \in Nat
  BY <1>3 DEF Init
<1> QED
  BY <1>4, <1>5, <1>6, <1>7 DEF TypeOK

\* Every variable always has its type: the pid files, the processes and the
\* variables of the scripts only ever hold pids or nothing.
THEOREM TypeCorrect == Spec => []TypeOK
  BY TypeInit, TypeStep, PTL DEF Spec

-----------------------------------------------------------------------------
(***************************************************************************)
(* One watchdog, while the poll loop alone runs spond-runner.              *)
(***************************************************************************)
Others == OneWatchdog /\ WatchdogNamed /\ StartInv /\ StopInv /\ WatchdogInv

LEMMA InvInit == Init => Inv
<1> SUFFICES ASSUME Init PROVE Others
  BY TypeInit DEF Inv, Others
<1>1. Watchdogs = {}
  BY DEF Init, Watchdogs, NoWd
<1>2. PollPc = "readStatus"
  BY DEF Init, Callers, Fresh, PollPc
<1>3. pidFile = NoPids /\ daemon["mg"] = {}
  BY DEF Init, Daemons
<1>4. PollI = 1
  BY DEF Init, Callers, Fresh, PollI
<1> QED
  BY <1>1, <1>2, <1>3, <1>4
  DEF Others, OneWatchdog, WatchdogNamed, StartInv, StopInv, WatchdogInv, Killed,
      KindsDisjoint

\* The steps of the poll loop that change neither the processes nor a file.
LEMMA InvQuietStep ==
  ASSUME Inv, StartCheck(Poll) \/ StopCheck(Poll) \/ ReadStatus \/ ReadFlag \/ ReadIp
  PROVE  Others'
<1> USE DEF Inv, Others
<1>0. Poll \in Callers /\ caller \in [Callers -> CallerStates]
  BY DEF Callers, TypeOK
<1>1. UNCHANGED <<runFlag, pidFile, daemon, dying, wd>>
  BY DEF StartCheck, StopCheck, ReadStatus, ReadFlag, ReadIp
<1>2. Watchdogs' = Watchdogs /\ Alive' = Alive
  BY <1>1 DEF Watchdogs, Alive
<1>3. PollPc # "startWrite"
  BY DEF StartCheck, StopCheck, ReadStatus, ReadFlag, ReadIp, At, PollPc
<1>4. /\ PollPc' \in {"readStatus", "readFlag", "readIp", "startCheck",
                      "startFlag", "stopCheck", "cat"}
      /\ PollPc' = "startFlag" => ~runFlag
      /\ PollPc' = "cat" => runFlag
      /\ PollI' = 1
  BY <1>0 DEF StartCheck, StopCheck, ReadStatus, ReadFlag, ReadIp, Goto, Return,
              Done, Fresh, PollPc, PollI, CallerStates, StopInv, At
<1>5. OneWatchdog' /\ WatchdogNamed'
  BY <1>1, <1>2, <1>3, <1>4 DEF OneWatchdog, WatchdogNamed, At, PollPc
<1>6. StartInv'
  BY <1>1, <1>4 DEF StartInv
<1>7. StopInv'
  BY <1>1, <1>2, <1>4 DEF StopInv, KindsDisjoint, Killed
<1>8. WatchdogInv'
  BY <1>1, <1>2 DEF WatchdogInv
<1> QED
  BY <1>5, <1>6, <1>7, <1>8

LEMMA InvStartFlag == ASSUME Inv, StartFlag(Poll) PROVE Others'
<1> USE DEF Inv, Others
<1>1. UNCHANGED <<pidFile, daemon, dying, wd>> /\ runFlag'
  BY DEF StartFlag
<1>2. /\ PollPc = "startFlag"
      /\ PollPc' = "startFork"
      /\ PollI' = 1
  BY DEF StartFlag, Goto, At, PollPc, PollI, TypeOK, Callers, CallerStates, StopInv
<1>3. Watchdogs = {} /\ pidFile = NoPids
  BY <1>2 DEF StartInv, WatchdogNamed
<1>4. Watchdogs' = {}
  BY <1>1, <1>3 DEF Watchdogs
<1> QED
  BY <1>1, <1>2, <1>3, <1>4
  DEF OneWatchdog, WatchdogNamed, StartInv, StopInv, WatchdogInv, Killed,
      KindsDisjoint

LEMMA InvStartFork == ASSUME Inv, StartFork(Poll) PROVE Others'
<1> USE DEF Inv, Others
<1>1. /\ UNCHANGED <<runFlag, pidFile, daemon, dying>>
      /\ NewPid \in Pids
  BY NewPidIsFree DEF StartFork, FreePids
<1>2. /\ PollPc = "startFork"
      /\ PollPc' = "startWrite"
      /\ PollI' = 1
      /\ caller'[Poll].child = NewPid
  BY DEF StartFork, At, PollPc, PollI, TypeOK, Callers, CallerStates, StopInv
<1>3. Watchdogs = {} /\ pidFile = NoPids /\ runFlag
  BY <1>2 DEF StartInv
<1>4. wd' = [wd EXCEPT ![NewPid] = NewWd]
  BY DEF StartFork
<1>5. Watchdogs' = {NewPid} /\ wd'[NewPid] = NewWd
  BY <1>1, <1>3, <1>4 DEF Watchdogs, NewWd, TypeOK
<1>6. OneWatchdog' /\ WatchdogNamed'
  BY <1>1, <1>2, <1>3, <1>5 DEF OneWatchdog, WatchdogNamed, At, PollPc
<1>7. StartInv'
  BY <1>1, <1>2, <1>3 DEF StartInv, NoPids, Kinds
<1>8. StopInv'
  <2>1. NewPid \notin daemon["mg"] \cup daemon["cg"]
    BY NewPidIsFree DEF StartFork, FreePids, Alive
  <2> QED
    BY <1>1, <1>2, <1>5, <2>1 DEF StopInv, Killed, KindsDisjoint
<1>9. WatchdogInv'
  <2>1. pidFile["mg"] = None /\ pidFile["cg"] = None
    BY <1>3 DEF NoPids, Kinds, Daemons
  <2>2. None \notin daemon["mg"]
    BY NoneAssumption DEF TypeOK, Daemons
  <2> QED
    BY <1>1, <1>5, <2>1, <2>2 DEF WatchdogInv, NewWd
<1> QED
  BY <1>6, <1>7, <1>8, <1>9

LEMMA InvStartWrite == ASSUME Inv, StartWrite(Poll) PROVE Others'
<1> USE DEF Inv, Others
<1>1. UNCHANGED <<runFlag, daemon, dying, wd>>
  BY DEF StartWrite
<1>2. pidFile' = [pidFile EXCEPT !["wd"] = caller[Poll].child]
  BY DEF StartWrite
<1>3. /\ PollPc = "startWrite"
      /\ PollPc' = "readStatus"
      /\ PollI' = 1
  BY DEF StartWrite, Return, Done, Fresh, At, PollPc, PollI, TypeOK, Callers
<1>4. Watchdogs' = Watchdogs
  BY <1>1 DEF Watchdogs
<1>5. /\ pidFile'["wd"] = caller[Poll].child
      /\ \A d \in Daemons : pidFile'[d] = pidFile[d]
  BY <1>2 DEF TypeOK, Kinds, Daemons
<1>6. OneWatchdog' /\ WatchdogNamed'
  <2>1. \A w \in Watchdogs : pidFile["wd"] = w \/ caller[Poll].child = w
    BY DEF WatchdogNamed
  <2>2. \A w \in Watchdogs : caller[Poll].child = w
    BY <1>3, <2>1, NoneAssumption DEF StartInv, Watchdogs
  <2> QED
    BY <1>1, <1>4, <1>5, <2>2 DEF OneWatchdog, WatchdogNamed
<1>7. StartInv'
  BY <1>1, <1>3 DEF StartInv
<1>8. StopInv'
  BY <1>1, <1>3, <1>4 DEF StopInv, Killed, KindsDisjoint
<1>9. WatchdogInv'
  <2>1. \A w \in Watchdogs : wd[w].pc = "test" => wd[w].kind \in Daemons
    BY DEF TypeOK, WdStates, Watchdogs
  <2> QED
    BY <1>1, <1>4, <1>5, <2>1 DEF WatchdogInv, Watchdogs, TypeOK, WdStates, Daemons
<1> QED
  BY <1>6, <1>7, <1>8, <1>9

LEMMA InvCatPid == ASSUME Inv, CatPid(Poll) PROVE Others'
<1> USE DEF Inv, Others
<1>1. UNCHANGED <<runFlag, pidFile, daemon, dying, wd>>
  BY DEF CatPid
<1>2. Watchdogs' = Watchdogs /\ Alive' = Alive
  BY <1>1 DEF Watchdogs, Alive
<1> DEFINE k == KillOrder[PollI]
           entry == [caller[Poll] EXCEPT !.pid[k] = pidFile[k]]
<1>3. /\ PollPc = "cat"
      /\ Advance(Poll, entry, "kill")
      /\ PollI \in 1..3
      /\ caller[Poll] \in CallerStates
      /\ Poll \in Callers
  BY DEF CatPid, At, PollPc, PollI, TypeOK, Callers, CallerStates
<1>4. caller'[Poll].pid = entry.pid
  BY <1>3 DEF Advance, TypeOK, CallerStates
<1>5. entry.pid["wd"] = pidFile["wd"]
  <2>1. CASE PollI = 1
    BY <1>3, <2>1 DEF CallerStates, KillOrder, Kinds
  <2>2. CASE PollI > 1
    <3>1. k # "wd"
      BY <1>3, <2>2 DEF KillOrder
    <3>2. entry.pid["wd"] = caller[Poll].pid["wd"]
      BY <1>3, <3>1 DEF CallerStates, Kinds
    <3> QED
      BY <1>3, <2>2, <3>2 DEF StopInv
  <2> QED
    BY <1>3, <2>1, <2>2
<1>6. /\ PollPc' = "cat" \/ (PollPc' = "kill" /\ PollI' = 1)
      /\ PollPc # "startWrite"
  BY <1>3 DEF Advance, TypeOK, CallerStates, PollPc, PollI
<1>7. OneWatchdog' /\ WatchdogNamed'
  BY <1>1, <1>2, <1>6 DEF OneWatchdog, WatchdogNamed, At, PollPc
<1>8. StartInv'
  BY <1>1, <1>3, <1>6 DEF StartInv
<1>9. StopInv'
  BY <1>1, <1>2, <1>4, <1>5, <1>6 DEF StopInv, Killed, KindsDisjoint
<1>10. WatchdogInv'
  BY <1>1, <1>2 DEF WatchdogInv
<1> QED
  BY <1>7, <1>8, <1>9, <1>10

LEMMA InvKillPid == ASSUME Inv, KillPid(Poll) PROVE Others'
<1> USE DEF Inv, Others
<1> DEFINE p == caller[Poll].pid[KillOrder[PollI]]
<1>1. UNCHANGED <<runFlag, pidFile, daemon>>
  BY DEF KillPid
<1>2. /\ wd' = [q \in Pids |-> IF q = p THEN NoWd ELSE wd[q]]
      /\ dying' = dying \cup ({p} \cap (daemon["mg"] \cup daemon["cg"]))
  BY DEF KillPid, PollI
<1>3. /\ PollPc = "kill"
      /\ Advance(Poll, caller[Poll], "rm")
      /\ PollI \in 1..3
      /\ caller[Poll] \in CallerStates
      /\ Poll \in Callers
  BY DEF KillPid, At, PollPc, PollI, TypeOK, Callers, CallerStates
<1>4. caller'[Poll].pid = caller[Poll].pid
  BY <1>3 DEF Advance, TypeOK, CallerStates
<1>5. \/ PollI < 3 /\ PollPc' = "kill" /\ PollI' = PollI + 1
      \/ PollI = 3 /\ PollPc' = "rm" /\ PollI' = 1
  BY <1>3 DEF Advance, TypeOK, CallerStates, PollPc, PollI
<1>6. Watchdogs' = {}
  <2>1. Watchdogs' \subseteq Watchdogs \ {p}
    BY <1>2 DEF Watchdogs, NoWd
  <2>2. CASE PollI = 1
    <3>1. p = pidFile["wd"]
      BY <1>3, <2>2 DEF StopInv, KillOrder
    <3>2. \A w \in Watchdogs : w = p
      BY <1>3, <3>1 DEF WatchdogNamed, At, PollPc
    <3> QED
      BY <2>1, <3>2
  <2>3. CASE PollI > 1
    BY <1>3, <2>1, <2>3 DEF StopInv, Killed
  <2> QED
    BY <1>3, <2>2, <2>3
<1>7. \A j \in 1..3 : j <= PollI => Told(KillOrder[j])'
  <2> SUFFICES ASSUME NEW j \in 1..3, j <= PollI,
                      caller[Poll].pid[KillOrder[j]] \in Alive'
               PROVE  caller[Poll].pid[KillOrder[j]] \in dying'
    BY <1>4 DEF Told
  <2>1. caller[Poll].pid[KillOrder[j]] \in daemon["mg"] \cup daemon["cg"]
    BY <1>1, <1>6 DEF Alive
  <2>2. CASE j = PollI
    BY <1>2, <2>1, <2>2
  <2>3. CASE j < PollI
    <3>1. Told(KillOrder[j])
      BY <1>3, <2>3 DEF StopInv
    <3> QED
      BY <1>2, <2>1, <3>1 DEF Told, Alive
  <2> QED
    BY <1>3, <2>2, <2>3
<1>8. PollPc' = "rm" => \A k \in Kinds : Told(k)'
  <2>1. Kinds = {KillOrder[1], KillOrder[2], KillOrder[3]}
    BY DEF Kinds, Daemons, KillOrder
  <2> QED
    BY <1>5, <1>7, <2>1
<1>9. OneWatchdog' /\ WatchdogNamed' /\ WatchdogInv'
  BY <1>6 DEF OneWatchdog, WatchdogNamed, WatchdogInv
<1>10. StartInv'
  BY <1>1, <1>3, <1>5 DEF StartInv
<1>11. StopInv'
  BY <1>1, <1>3, <1>5, <1>6, <1>7, <1>8 DEF StopInv, Killed, KindsDisjoint
<1> QED
  BY <1>9, <1>10, <1>11

LEMMA InvRmPidFile == ASSUME Inv, RmPidFile(Poll) PROVE Others'
<1> USE DEF Inv, Others
<1>1. UNCHANGED <<runFlag, daemon, dying, wd>>
  BY DEF RmPidFile
<1>2. pidFile' = [pidFile EXCEPT ![RmOrder[PollI]] = None]
  BY DEF RmPidFile, PollI
<1>3. /\ PollPc = "rm"
      /\ Advance(Poll, caller[Poll], "wait")
      /\ PollI \in 1..3
      /\ caller[Poll] \in CallerStates
      /\ Poll \in Callers
  BY DEF RmPidFile, At, PollPc, PollI, TypeOK, Callers, CallerStates
<1>4. caller'[Poll].pid = caller[Poll].pid
  BY <1>3 DEF Advance, TypeOK, CallerStates
<1>5. \/ PollI < 3 /\ PollPc' = "rm" /\ PollI' = PollI + 1
      \/ PollI = 3 /\ PollPc' = "wait" /\ PollI' = 1
  BY <1>3 DEF Advance, TypeOK, CallerStates, PollPc, PollI
<1>6. Watchdogs' = {} /\ Alive' = Alive
  BY <1>1, <1>3 DEF StopInv, Killed, Watchdogs, Alive
<1>7. \A j \in 1..3 : j <= PollI => pidFile'[RmOrder[j]] = None
  <2>1. \A j \in 1..3 : RmOrder[j] \in Kinds
    BY DEF RmOrder, Kinds, Daemons
  <2> QED
    BY <1>2, <1>3, <2>1 DEF StopInv, TypeOK
<1>8. PollPc' = "wait" => pidFile' = NoPids
  <2>1. Kinds = {RmOrder[1], RmOrder[2], RmOrder[3]}
    BY DEF Kinds, Daemons, RmOrder
  <2>2. pidFile' \in [Kinds -> MaybePid]
    BY <1>2 DEF TypeOK, MaybePid
  <2> QED
    BY <1>5, <1>7, <2>1, <2>2 DEF NoPids
<1>9. OneWatchdog' /\ WatchdogNamed' /\ WatchdogInv'
  BY <1>6 DEF OneWatchdog, WatchdogNamed, WatchdogInv
<1>10. StartInv'
  BY <1>1, <1>3, <1>5 DEF StartInv
<1>11. StopInv'
  BY <1>1, <1>3, <1>4, <1>5, <1>6, <1>7, <1>8
  DEF StopInv, Killed, KindsDisjoint, Told
<1> QED
  BY <1>9, <1>10, <1>11

LEMMA InvWait3 == ASSUME Inv, Wait3(Poll) PROVE Others'
<1> USE DEF Inv, Others
<1>1. UNCHANGED <<runFlag, pidFile, daemon, dying, wd>>
  BY DEF Wait3
<1>2. Watchdogs' = Watchdogs /\ Alive' = Alive
  BY <1>1 DEF Watchdogs, Alive
<1>3. /\ PollPc = "wait"
      /\ PollPc' = "rmFlag"
      /\ PollI' = 1
      /\ caller'[Poll].pid = caller[Poll].pid
  BY DEF Wait3, Goto, At, PollPc, PollI, TypeOK, Callers, CallerStates, StopInv
<1>4. \A k \in Kinds : caller[Poll].pid[k] \notin Alive
  BY <1>3 DEF Wait3, StopInv, Told
<1>5. OneWatchdog' /\ WatchdogNamed' /\ StartInv' /\ WatchdogInv'
  BY <1>1, <1>2, <1>3
  DEF OneWatchdog, WatchdogNamed, StartInv, WatchdogInv, At, PollPc
<1>6. StopInv'
  BY <1>1, <1>2, <1>3, <1>4 DEF StopInv, Killed, KindsDisjoint, Told
<1> QED
  BY <1>5, <1>6

LEMMA InvRmFlag ==
  ASSUME Inv, RmFlag(Poll)
  PROVE  /\ Others'
         /\ Watchdogs = {} /\ pidFile = NoPids
         /\ \A k \in Kinds : caller[Poll].pid[k] \notin Alive
<1> USE DEF Inv, Others
<1>1. UNCHANGED <<pidFile, daemon, dying, wd>> /\ ~runFlag'
  BY DEF RmFlag
<1>2. /\ PollPc = "rmFlag"
      /\ PollPc' = "readStatus"
      /\ PollI' = 1
  BY DEF RmFlag, Return, Done, Fresh, At, PollPc, PollI, TypeOK, Callers
<1>3. /\ Watchdogs = {} /\ pidFile = NoPids
      /\ \A k \in Kinds : caller[Poll].pid[k] \notin Alive
  BY <1>2 DEF StopInv, Killed
<1>4. Watchdogs' = {}
  BY <1>1, <1>3 DEF Watchdogs
<1>5. OneWatchdog' /\ WatchdogNamed' /\ WatchdogInv' /\ StartInv'
  BY <1>1, <1>2, <1>3, <1>4 DEF OneWatchdog, WatchdogNamed, WatchdogInv, StartInv
<1>6. StopInv'
  BY <1>1, <1>2, <1>4 DEF StopInv, Killed, KindsDisjoint
<1> QED
  BY <1>3, <1>5, <1>6

\* A step of the watchdog means that there is one, which the poll loop has
\* not killed.
LEMMA WatchdogLives ==
  ASSUME Inv, NEW w \in Pids, Watchdog(w)
  PROVE  /\ Watchdogs = {w}
         /\ ~Killed /\ PollPc # "startFork" /\ PollPc # "startFlag"
         /\ runFlag
         /\ wd[w].kind \in Daemons
<1>1. w \in Watchdogs
  BY DEF Watchdog, WdFork, WdWrite, WdCat, WdTest, Watchdogs
<1>2. Watchdogs = {w}
  BY <1>1 DEF Inv, OneWatchdog, Watchdogs
<1> QED
  BY <1>1, <1>2 DEF Inv, WatchdogNamed, StartInv, StopInv, TypeOK, WdStates

LEMMA InvWatchdog ==
  ASSUME Inv, NEW w \in Pids, Watchdog(w)
  PROVE  Others'
<1> USE DEF Inv, Others
<1>0. /\ Watchdogs = {w}
      /\ ~Killed /\ PollPc # "startFork" /\ PollPc # "startFlag"
      /\ runFlag
      /\ wd[w].kind \in Daemons
      /\ wd \in [Pids -> WdStates]
  BY WatchdogLives DEF TypeOK
<1>1. UNCHANGED <<runFlag, caller, dying>>
  BY DEF Watchdog, WdFork, WdWrite, WdCat, WdTest
<1>2. /\ PollPc' = PollPc /\ PollI' = PollI
      /\ ~Killed'
  BY <1>0, <1>1 DEF Killed, PollPc, PollI
<1>3. Watchdogs' = {w}
  <2>1. \A q \in Pids : q # w => wd'[q] = wd[q]
    BY <1>0 DEF Watchdog, WdFork, WdWrite, WdCat, WdTest
  <2>2. wd'[w].pc # "none"
    <3>0. wd[w] \in WdStates
      BY <1>0
    <3>1. CASE WdFork(w)
      BY <1>0, <3>0, <3>1 DEF WdFork, WdStates
    <3>3. CASE WdWrite(w)
      BY <1>0, <3>0, <3>3 DEF WdWrite
    <3>4. CASE WdCat(w)
      BY <1>0, <3>0, <3>4 DEF WdCat, WdStates
    <3>2. CASE WdTest(w)
      <4>1. \/ wd'[w] = [wd[w] EXCEPT !.pc = "fork"]
            \/ wd'[w] = [NoWd EXCEPT !.pc = "cat", !.kind = Other(wd[w].kind)]
        BY <1>0, <3>2 DEF WdTest
      <4> QED
        BY <3>0, <4>1 DEF WdStates, NoWd
    <3> QED
      BY <3>1, <3>2, <3>3, <3>4 DEF Watchdog
  <2> QED
    BY <1>0, <2>1, <2>2 DEF Watchdogs
<1>4. pidFile'["wd"] = pidFile["wd"]
  BY <1>0 DEF Watchdog, WdFork, WdWrite, WdCat, WdTest, TypeOK, Kinds, Daemons
<1>5. OneWatchdog' /\ WatchdogNamed'
  BY <1>0, <1>1, <1>2, <1>3, <1>4 DEF OneWatchdog, WatchdogNamed, At
<1>6. StartInv'
  BY <1>0, <1>1, <1>2, <1>4 DEF StartInv, Killed
<1>7. KindsDisjoint'
  <2>1. CASE WdFork(w)
    <3>1. NewPid \notin Watchdogs \cup daemon["mg"] \cup daemon["cg"]
      BY <2>1, NewPidIsFree DEF WdFork, FreePids, Alive
    <3> QED
      BY <1>0, <1>3, <2>1, <3>1 DEF WdFork, StopInv, KindsDisjoint, TypeOK, Daemons
  <2>2. CASE ~WdFork(w)
    BY <1>0, <1>3, <2>2
    DEF Watchdog, WdWrite, WdCat, WdTest, StopInv, KindsDisjoint
  <2> QED
    BY <2>1, <2>2
<1>8. StopInv'
  <2>1. \A j \in 1..3 : ~(PollPc = "kill" /\ j < PollI)
    BY <1>0 DEF Killed, TypeOK, CallerStates, Callers, PollI
  <2> QED
    BY <1>0, <1>1, <1>2, <1>4, <1>7, <2>1 DEF StopInv, Killed
<1>9. WatchdogInv'
  <2>0. /\ wd[w].pc = "fork" => pidFile[wd[w].kind] \notin daemon[wd[w].kind]
        /\ wd[w].pc = "test" => wd[w].pid = pidFile[wd[w].kind]
        /\ wd[w].pc \in {"cat", "test"} => ~wd[w].boot
        /\ wd[w].boot => pidFile["cg"] = None
        /\ wd[w].boot /\ wd[w].pc = "fork" /\ wd[w].kind = "mg"
              => pidFile["mg"] = None
    BY <1>0 DEF WatchdogInv
  <2>1. CASE WdFork(w)
    BY <1>0, <1>3, <2>0, <2>1 DEF WdFork, WatchdogInv, WdStates
  <2>2. CASE WdWrite(w)
    <3>1. None \notin daemon["cg"]
      BY NoneAssumption DEF TypeOK, Daemons
    <3>2. PICK first, kind : first = (wd[w].boot /\ wd[w].kind = "mg") /\ kind = Other(wd[w].kind)
      OBVIOUS
    <3>3. wd'[w] = [pc |-> IF first THEN "fork" ELSE "cat", kind |-> kind, pid |-> None,
                    boot |-> first]
      BY <1>0, <2>2, <3>2 DEF WdWrite
    <3>4. daemon' = daemon /\ (first => pidFile'["cg"] = pidFile["cg"])
      <4>1. daemon' = daemon /\ pidFile' = [pidFile EXCEPT ![wd[w].kind] = wd[w].pid]
        BY <2>2 DEF WdWrite
      <4>2. pidFile \in [Kinds -> MaybePid] /\ "cg" \in Kinds
        <5>1. pidFile \in [Kinds -> MaybePid]
          BY DEF TypeOK
        <5> HIDE DEF Inv, Others
        <5>2. "cg" \in Kinds
          BY DEF Kinds, Daemons
        <5> QED
          BY <5>1, <5>2
      <4>3. first => wd[w].kind # "cg"
        BY <3>2
      <4> HIDE DEF Inv, Others
      <4> QED
        BY <4>1, <4>2, <4>3
    <3>5. first => kind = "cg" /\ pidFile["cg"] = None
      BY <2>0, <3>2 DEF Other
    <3>6. CASE first
      <4>1. /\ wd'[w].pc = "fork" /\ wd'[w].kind = "cg"
            /\ pidFile'["cg"] = None /\ daemon' = daemon
        BY <3>3, <3>4, <3>5, <3>6
      <4> QED
        BY <1>3, <3>1, <4>1 DEF WatchdogInv
    <3>7. CASE ~first
      <4>1. wd'[w].pc = "cat" /\ ~wd'[w].boot
        BY <3>3, <3>7
      <4> QED
        BY <1>3, <4>1 DEF WatchdogInv
    <3> QED
      BY <3>6, <3>7
  <2>3. CASE WdCat(w)
    BY <1>0, <1>3, <2>0, <2>3 DEF WdCat, WatchdogInv, WdStates
  <2>4. CASE WdTest(w)
    BY <1>0, <1>3, <2>0, <2>4 DEF WdTest, WatchdogInv, WdStates, NoWd, Alive, Daemons
  <2> QED
    BY <2>1, <2>2, <2>3, <2>4 DEF Watchdog
<1> QED
  BY <1>5, <1>6, <1>8, <1>9

LEMMA InvEnvironment ==
  ASSUME Inv,
         \/ SetStatus
         \/ IpChange
         \/ \E d \in Daemons, p \in Pids : Crash(d, p) \/ Exit(d, p)
         \/ UNCHANGED vars
  PROVE  Others'
<1> USE DEF Inv, Others
<1>1. UNCHANGED <<runFlag, pidFile, wd, caller>>
  BY DEF SetStatus, IpChange, Crash, Exit, vars
<1>2. /\ Watchdogs' = Watchdogs
      /\ PollPc' = PollPc /\ PollI' = PollI
      /\ Killed' = Killed
  BY <1>1 DEF Watchdogs, Killed, PollPc, PollI
<1>3. /\ \A d \in Daemons : daemon'[d] \subseteq daemon[d]
      /\ Alive' \subseteq Alive
      /\ \A q \in Alive' : q \in dying => q \in dying'
  <2>1. CASE SetStatus \/ IpChange \/ UNCHANGED vars
    BY <2>1 DEF SetStatus, IpChange, vars, Alive, Watchdogs
  <2>2. ASSUME NEW d \in Daemons, NEW p \in Pids, Crash(d, p) \/ Exit(d, p)
        PROVE  <1>3!:
    <3>1. Bury(d, p) /\ p \in daemon[d]
      BY <2>2 DEF Crash, Exit
    <3>2. \A e \in Daemons : daemon'[e] \subseteq daemon[e]
      BY <3>1 DEF Bury, TypeOK
    <3>3. Alive' \subseteq Alive
      BY <1>2, <3>2 DEF Alive, Daemons
    <3>4. Crash(d, p) => p \notin dying
      BY DEF Crash
    <3>5. CASE p \notin dying
      BY <3>1, <3>2, <3>3, <3>5 DEF Bury
    <3>6. CASE p \in dying
      <4>1. p \notin daemon'["mg"] \cup daemon'["cg"]
        BY <3>1 DEF Bury, StopInv, KindsDisjoint, Daemons, TypeOK
      <4>2. p \notin Watchdogs
        BY <3>1 DEF StopInv, KindsDisjoint, Daemons
      <4> QED
        BY <1>2, <3>1, <3>2, <3>3, <4>1, <4>2 DEF Bury, Alive
    <3> QED
      BY <3>5, <3>6
  <2> QED
    BY <2>1, <2>2
<1>4. OneWatchdog' /\ WatchdogNamed' /\ StartInv'
  BY <1>1, <1>2 DEF OneWatchdog, WatchdogNamed, StartInv, At
<1>5. StopInv'
  <2>1. \A k \in Kinds : Told(k) => Told(k)'
    BY <1>1, <1>3 DEF Told
  <2>2. KindsDisjoint'
    BY <1>2, <1>3 DEF StopInv, KindsDisjoint, Daemons
  <2>3. \A j \in 1..3 : KillOrder[j] \in Kinds
    BY DEF KillOrder, Kinds, Daemons
  <2> QED
    BY <1>1, <1>2, <1>3, <2>1, <2>2, <2>3 DEF StopInv
<1>6. WatchdogInv'
  <2>1. \A w \in Watchdogs : wd[w].kind \in Daemons
    BY DEF Watchdogs, TypeOK, WdStates
  <2> QED
    BY <1>1, <1>2, <1>3, <2>1 DEF WatchdogInv
<1> QED
  BY <1>4, <1>5, <1>6

LEMMA InvStep ==
  ASSUME Restarters = {}
  PROVE  Inv /\ [Next]_vars => Inv'
<1> SUFFICES ASSUME Inv, [Next]_vars PROVE Others'
  BY TypeStep DEF Inv, Others
<1>1. CASE PollLoop
  BY <1>1, InvQuietStep, InvStartFlag, InvStartFork, InvStartWrite, InvCatPid,
     InvKillPid, InvRmPidFile, InvWait3, InvRmFlag DEF PollLoop, SpondRunner
<1>2. ASSUME NEW w \in Pids, Watchdog(w) PROVE Others'
  BY <1>2, InvWatchdog
<1> QED
  BY <1>1, <1>2, InvEnvironment DEF Next

LEMMA Invariance == ASSUME Restarters = {} PROVE Spec => []Inv
  BY InvInit, InvStep, PTL DEF Spec

\* The check and the set of spond-manager.running let no second watchdog
\* through, whatever dies, comes or goes and however many pids there are.
THEOREM WatchdogIsUnique == ASSUME Restarters = {} PROVE Spec => []OneWatchdog
<1>1. Inv => OneWatchdog
  BY DEF Inv
<1> QED
  BY <1>1, Invariance, PTL

\* A watchdog is always within the reach of spond-runner stop.
THEOREM WatchdogIsNamed == ASSUME Restarters = {} PROVE Spec => []WatchdogNamed
<1>1. Inv => WatchdogNamed
  BY DEF Inv
<1> QED
  BY <1>1, Invariance, PTL

\* stop_mg takes the flag away only from a machine it has cleaned up.
THEOREM StopIsClean == ASSUME Restarters = {} PROVE Spec => CleanStop
<1> DEFINE Clean == runFlag /\ ~runFlag' =>
                      /\ Watchdogs = {}
                      /\ pidFile = NoPids
                      /\ \A k \in Kinds : caller[Poll].pid[k] \notin Alive
<1>1. Inv /\ [Next]_vars => [Clean]_vars
  <2> SUFFICES ASSUME Inv, Next, runFlag, ~runFlag' PROVE Clean
    OBVIOUS
  <2>1. RmFlag(Poll)
    BY Zenon DEF Next, PollLoop, SpondRunner, StartCheck, StartFlag, StartFork, StartWrite,
           StopCheck, CatPid, KillPid, RmPidFile, Wait3, ReadStatus, ReadFlag, ReadIp,
           Watchdog, WdFork, WdWrite, WdCat, WdTest, SetStatus, IpChange, Crash, Exit
  <2> QED
    BY <2>1, InvRmFlag
<1> QED
  BY <1>1, Invariance, PTL DEF Spec, CleanStop

\* A watchdog never forks a second daemon beside the one its pid file names.
THEOREM NamedDaemonNeverDoubled ==
  ASSUME Restarters = {} PROVE Spec => NamedDaemonIsUnique
<1> DEFINE Unique == \A d \in Daemons :
                       (daemon'[d] \ daemon[d]) # {} => pidFile[d] \notin daemon[d] \ dying
<1>1. Inv /\ [Next]_vars => [Unique]_vars
  <2> SUFFICES ASSUME Inv, Next, NEW d \in Daemons, (daemon'[d] \ daemon[d]) # {}
               PROVE  pidFile[d] \notin daemon[d]
    OBVIOUS
  <2>1. PICK w \in Pids : WdFork(w)
    <3>1. CASE \E e \in Daemons, p \in Pids : Crash(e, p) \/ Exit(e, p)
      BY <3>1 DEF Crash, Exit, Bury, Inv, TypeOK
    <3> QED
      BY <3>1, Zenon DEF Next, PollLoop, SpondRunner, StartCheck, StartFlag, StartFork,
             StartWrite, StopCheck, CatPid, KillPid, RmPidFile, Wait3, RmFlag,
             ReadStatus, ReadFlag, ReadIp, Watchdog, WdWrite, WdCat, WdTest,
             SetStatus, IpChange
  <2>2. d = wd[w].kind
    BY <2>1 DEF WdFork, Inv, TypeOK
  <2>3. w \in Watchdogs
    BY <2>1 DEF WdFork, Watchdogs
  <2> QED
    BY <2>1, <2>2, <2>3 DEF WdFork, Inv, WatchdogInv
<1> QED
  BY <1>1, Invariance, PTL DEF Spec, NamedDaemonIsUnique

\* A step that changes neither the flag nor the watchdogs nor reaches or
\* leaves the fork of the watchdog is a stutter of the service.
LEMMA ServiceStutter ==
  ASSUME runFlag' = runFlag, Watchdogs' = Watchdogs,
         (PollPc' = "startFork") <=> (PollPc = "startFork")
  PROVE  UNCHANGED Service!svars
  BY DEF Service!svars, servicePhase, At, PollPc

LEMMA ServiceStep ==
  ASSUME Restarters = {}, Inv, [Next]_vars
  PROVE  [Service!ServiceNext]_(Service!svars)
<1> USE DEF Inv
<1>0. caller \in [Callers -> CallerStates] /\ Poll \in Callers
  BY DEF TypeOK, Callers
<1>1. ASSUME NEW w \in Pids, Watchdog(w) PROVE UNCHANGED Service!svars
  <2>1. Watchdogs' = Watchdogs
    <3>1. Watchdogs = {w}
      BY <1>1, WatchdogLives
    <3>2. \A q \in Pids : q # w => wd'[q] = wd[q]
      BY <1>1 DEF Watchdog, WdFork, WdWrite, WdCat, WdTest, TypeOK
    <3>3. wd'[w].pc # "none"
      <4>1. wd \in [Pids -> WdStates] /\ wd[w] \in WdStates
        BY DEF TypeOK
      <4>2. CASE WdFork(w) \/ WdWrite(w)
        BY <4>1, <4>2 DEF WdFork, WdWrite, WdStates
      <4>3. CASE WdCat(w)
        BY <4>1, <4>3 DEF WdCat, WdStates
      <4>4. CASE WdTest(w)
        <5>1. \/ wd'[w] = [wd[w] EXCEPT !.pc = "fork"]
              \/ wd'[w] = [NoWd EXCEPT !.pc = "cat", !.kind = Other(wd[w].kind)]
          BY <4>1, <4>4 DEF WdTest
        <5> QED
          BY <4>1, <5>1 DEF WdStates, NoWd
      <4> QED
        BY <1>1, <4>2, <4>3, <4>4 DEF Watchdog
    <3> QED
      BY <3>1, <3>2, <3>3 DEF Watchdogs
  <2>2. runFlag' = runFlag /\ caller' = caller
    BY <1>1 DEF Watchdog, WdFork, WdWrite, WdCat, WdTest
  <2> QED
    BY <2>1, <2>2, ServiceStutter DEF PollPc
<1>2. CASE \/ SetStatus
           \/ IpChange
           \/ \E d \in Daemons, p \in Pids : Crash(d, p) \/ Exit(d, p)
           \/ UNCHANGED vars
  <2>1. UNCHANGED <<runFlag, wd, caller>>
    BY <1>2 DEF SetStatus, IpChange, Crash, Exit, vars
  <2> QED
    BY <2>1, ServiceStutter DEF Watchdogs, PollPc
<1>3. CASE \/ StartCheck(Poll) \/ StopCheck(Poll) \/ ReadStatus \/ ReadFlag
           \/ ReadIp \/ StartWrite(Poll) \/ CatPid(Poll) \/ RmPidFile(Poll)
           \/ Wait3(Poll)
  <2>1. UNCHANGED <<runFlag, wd>>
    BY <1>3 DEF StartCheck, StopCheck, ReadStatus, ReadFlag, ReadIp, StartWrite,
                CatPid, RmPidFile, Wait3
  <2>2. PollPc # "startFork"
    BY <1>3
    DEF StartCheck, StopCheck, ReadStatus, ReadFlag, ReadIp, StartWrite, CatPid,
        RmPidFile, Wait3, At, PollPc
  <2>3. PollPc' # "startFork"
    <3>1. CASE \/ StartCheck(Poll) \/ StopCheck(Poll) \/ ReadStatus \/ ReadFlag
               \/ ReadIp \/ StartWrite(Poll) \/ Wait3(Poll)
      BY <1>0, <3>1
      DEF StartCheck, StopCheck, ReadStatus, ReadFlag, ReadIp, StartWrite, Wait3,
          Goto, Return, Done, Fresh, PollPc, CallerStates
    <3>2. CASE CatPid(Poll)
      BY <1>0, <3>2 DEF CatPid, Advance, At, PollPc, CallerStates
    <3>3. CASE RmPidFile(Poll)
      BY <1>0, <3>3 DEF RmPidFile, Advance, At, PollPc, CallerStates
    <3> QED
      BY <1>3, <3>1, <3>2, <3>3
  <2> QED
    BY <2>1, <2>2, <2>3, ServiceStutter DEF Watchdogs
<1>4. CASE StartFlag(Poll)
  <2>1. ~runFlag /\ runFlag' /\ wd' = wd /\ PollPc' = "startFork"
    BY <1>0, <1>4 DEF StartFlag, Goto, At, PollPc, StartInv
  <2>2. Watchdogs = {} /\ Watchdogs' = {}
    BY <2>1 DEF WatchdogNamed, Watchdogs
  <2>3. servicePhase = "off" /\ servicePhase' = "claimed"
    BY <2>1, <2>2 DEF servicePhase, At, PollPc
  <2> QED
    BY <2>2, <2>3 DEF Service!ServiceNext, Service!Claim
<1>5. CASE StartFork(Poll)
  <2>1. NewPid \in Pids /\ runFlag' = runFlag
    BY <1>5, NewPidIsFree DEF StartFork, FreePids
  <2>2. runFlag /\ Watchdogs = {} /\ PollPc = "startFork"
    BY <1>5 DEF StartFork, StartInv, At, PollPc
  <2>3. Watchdogs' = {NewPid}
    BY <1>5, <2>1, <2>2 DEF StartFork, Watchdogs, NewWd, TypeOK
  <2>4. servicePhase = "claimed" /\ servicePhase' = "up"
    BY <2>1, <2>2, <2>3 DEF servicePhase, At, PollPc
  <2>5. InstanceOf(Watchdogs)' \in Pids
    BY <2>1, <2>3 DEF InstanceOf
  <2> QED
    BY <2>4, <2>5 DEF Service!ServiceNext, Service!Launch
<1>6. CASE KillPid(Poll)
  <2>1. Watchdogs' \subseteq Watchdogs /\ runFlag' = runFlag
    BY <1>6 DEF KillPid, Watchdogs, NoWd
  <2>2. runFlag /\ PollPc = "kill" /\ PollPc' # "startFork"
    BY <1>0, <1>6 DEF KillPid, Advance, At, PollPc, StartInv, CallerStates
  <2>3. Watchdogs' = {}
    <3>1. PollI \in 1..3
      BY <1>0 DEF PollI, CallerStates
    <3>2. CASE PollI > 1
      BY <2>1, <2>2, <3>2 DEF StopInv, Killed
    <3>3. CASE PollI = 1
      <4>1. \A w \in Watchdogs : w = caller[Poll].pid["wd"]
        BY <2>2, <3>3 DEF StopInv, WatchdogNamed, At, PollPc
      <4>2. caller[Poll].pid["wd"] \notin Watchdogs'
        BY <1>6, <3>3 DEF KillPid, KillOrder, PollI, Watchdogs, NoWd
      <4> QED
        BY <2>1, <4>1, <4>2
    <3> QED
      BY <3>1, <3>2, <3>3
  <2>4. CASE Watchdogs = {}
    BY <2>1, <2>2, <2>3, <2>4, ServiceStutter
  <2>5. CASE Watchdogs # {}
    <3>1. servicePhase = "up" /\ servicePhase' = "down"
      BY <2>1, <2>2, <2>3, <2>5 DEF servicePhase, At, PollPc
    <3>2. InstanceOf(Watchdogs)' = None
      BY <2>3 DEF InstanceOf
    <3> QED
      BY <3>1, <3>2 DEF Service!ServiceNext, Service!TearDown
  <2> QED
    BY <2>4, <2>5
<1>7. CASE RmFlag(Poll)
  <2>1. Watchdogs = {}
    BY <1>7, InvRmFlag
  <2>2. runFlag /\ ~runFlag' /\ wd' = wd /\ PollPc = "rmFlag"
    BY <1>7 DEF RmFlag, At, PollPc, StartInv
  <2>3. Watchdogs' = Watchdogs
    BY <2>2 DEF Watchdogs
  <2>4. servicePhase = "down" /\ servicePhase' = "off"
    BY <2>1, <2>2 DEF servicePhase, At, PollPc
  <2> QED
    BY <2>3, <2>4 DEF Service!ServiceNext, Service!Release
<1> QED
  BY <1>1, <1>2, <1>3, <1>4, <1>5, <1>6, <1>7 DEF Next, PollLoop, SpondRunner

\* The scripts implement the abstract service: claimed, up, down and off in
\* turn, with one watchdog as its instance.
THEOREM SupervisorRefinesService ==
  ASSUME Restarters = {} PROVE Spec => RefinesService
<1>1. Init => Service!ServiceInit
  <2>1. Init => Watchdogs = {} /\ ~runFlag
    BY DEF Init, Watchdogs, NoWd
  <2> QED
    BY <2>1 DEF Service!ServiceInit, servicePhase, InstanceOf
<1>2. Inv /\ [Next]_vars => [Service!ServiceNext]_(Service!svars)
  BY ServiceStep
<1> QED
  BY <1>1, <1>2, Invariance, PTL DEF Spec, RefinesService, Service!ServiceSpec
=============================================================================
