---------------------------- MODULE SpondLibProofs ----------------------------
(***************************************************************************)
(* The board is never overfilled and its answers are taken for what they   *)
(* mean, with any capacity, any number of ids, works, drops and spurious   *)
(* wake-ups, and restarts.                                                 *)
(*                                                                         *)
(* The library counts in works_map what the board holds.  A process that   *)
(* connects starts with an empty map; the count is right only if the board *)
(* has nothing left of the process before, which CHIPSTATE has to tell.    *)
(* The invariants follow that: the threads, the line and its order, the    *)
(* works and their room, what an answer to CHIPSTATE tells (for the first  *)
(* process, one that found commands on the line, a second one, a third),   *)
(* and the leading zeroes a command on the line will find.                 *)
(***************************************************************************)
EXTENDS SpondLib, FiniteSetTheorems, SequenceTheorems, TLAPS

\* One thread gives works, as in spond_test; any number may drop them.
OneGiver == Givers = {Connecting}

Kinds == {"STOP", "CHIPSTATE", "LEADING0", "DO_WORK"}
Waits == {"lock", "write", "arm", "waiting", "woken"}
Labels == Waits \cup {"idle", "connect", "connectState", "connected",
                      "leading", "leadSent", "work"}
Commands == [kind : Kinds, index : Nat, arg : Nat]
CallStates == [pc : Labels, cmd : Commands, ret : Labels, job : Jobs \cup {None},
           running : BOOLEAN]
Works == [state : {"none", "given", "finished", "lost"}, id : Nat, asked : Nat,
          lz : Nat, success : Nat, wins : Nat]
Responses == [kind : {"OK", "NO_SPACE", "DONE", "WIN"}, index : Nat, state : Nat,
              job : Jobs \cup {None}]
Counts == [drops : Nat, restarts : Nat, hasty : Nat, spurious : Nat, reused : BOOLEAN]
Entries == [id : Nat, job : Jobs, lead : Nat]

TypeOK ==
    /\ connected \in BOOLEAN
    /\ thread \in [Threads -> CallStates]
    /\ pm \in Threads \cup {None}
    /\ lastReq \in Nat /\ lastResp \in Nat /\ cmdIndex \in {0, 1}
    /\ leading0 \in Nat /\ maxJobs \in Nat
    /\ worksMap \in [Ids -> Jobs \cup {None}]
    /\ work \in [Jobs -> Works]
    /\ nextId \in Ids
    /\ given \in 0..MaxWorks
    /\ aborted \in {"no", "timeout", "mismatch", "no space"}
    /\ toBoard \in Seq(Commands)
    /\ toHost \in Seq(Responses)
    /\ queue \in Seq(Entries) /\ Len(queue) <= Capacity
    /\ lead \in Nat
    /\ used \in Counts

-----------------------------------------------------------------------------
(* The threads *)
Giver == thread[Connecting]
Stopping == Giver.pc \in Waits /\ Giver.cmd = Command("STOP", ConnectIndex, 0) /\ Giver.ret = "connectState"
Asking == Giver.pc \in Waits /\ Giver.cmd.kind = "CHIPSTATE" /\ Giver.cmd.index \in {5, 6} /\ Giver.ret = "connected"

ConnectInv ==
    ~connected =>
        /\ \A t \in Threads \ {Connecting} : thread[t].pc = "idle"
        /\ Giver.pc \in {"connect", "connectState", "connected"} \/ Stopping \/ Asking

InHand ==
    \/ Giver.pc \in {"leading", "leadSent", "work"}
    \/ Giver.pc \in Waits /\ Giver.cmd.kind = "LEADING0"
    \/ Giver.pc \in {"lock", "write"} /\ Giver.cmd.kind = "DO_WORK"

CallInv ==
    connected =>
        \A t \in Threads :
            /\ thread[t].pc \notin {"connect", "connectState", "connected"}
            /\ thread[t].pc \in {"leading", "leadSent", "work"} => t = Connecting
            /\ thread[t].pc \in Waits =>
                 \/ thread[t].cmd.kind = "STOP" /\ thread[t].ret = "idle"
                 \/ /\ t = Connecting /\ thread[t].ret = "leadSent"
                    /\ thread[t].cmd = Command("LEADING0", IdOf(given), work[given].asked)
                 \/ /\ t = Connecting /\ thread[t].ret = "idle"
                    /\ thread[t].cmd.kind = "DO_WORK"
                    /\ thread[t].pc \in {"lock", "write"} =>
                         thread[t].cmd = Command("DO_WORK", IdOf(given), given)

HandInv ==
    InHand =>
        /\ connected /\ maxJobs > 0
        /\ given \in Jobs /\ Giver.job = given
        /\ Giver.pc \in {"leading", "leadSent"} \/ Giver.cmd.kind = "LEADING0" =>
             work[given].lz = work[given].asked

MapInv ==
    /\ ~connected \/ maxJobs = 0 => \A i \in Ids : worksMap[i] = None
    /\ IsFiniteSet(Mapped) /\ Cardinality(Mapped) <= Capacity
    /\ maxJobs <= Capacity

-----------------------------------------------------------------------------
(* The line *)
StateAt(p) == toBoard[p].kind = "CHIPSTATE"

LineInv ==
    /\ \A j \in 1..given : IdOf(j) \in Ids
    /\ \A k \in 1..Len(toHost) : ResultAt(k) =>
          toHost[k].job \in 1..given /\ toHost[k].index = IdOf(toHost[k].job)
    /\ \A k \in 1..Len(queue) :
          queue[k].job \in 1..given /\ queue[k].id = IdOf(queue[k].job)
    /\ \A p \in 1..Len(toBoard) : WorkAt(p) =>
          toBoard[p].arg \in 1..given /\ toBoard[p].index = IdOf(toBoard[p].arg)

\* Works go to the board, through its queue and back in the order they are given.
Passes(k, j) == IF toHost[k].kind = "DONE" THEN toHost[k].job < j ELSE toHost[k].job <= j
OrderInv ==
    /\ \A k, m \in 1..Len(toHost) :
          k < m /\ ResultAt(k) /\ ResultAt(m) => Passes(k, toHost[m].job)
    /\ \A k \in 1..Len(toHost), m \in 1..Len(queue) : ResultAt(k) => Passes(k, queue[m].job)
    /\ \A k \in 1..Len(toHost), p \in 1..Len(toBoard) :
          ResultAt(k) /\ WorkAt(p) => toHost[k].job < toBoard[p].arg
    /\ \A k, m \in 1..Len(queue) : k < m => queue[k].job < queue[m].job
    /\ \A k \in 1..Len(queue), p \in 1..Len(toBoard) : WorkAt(p) => queue[k].job < toBoard[p].arg
    /\ \A p, q \in 1..Len(toBoard) :
          p < q /\ WorkAt(p) /\ WorkAt(q) => toBoard[p].arg < toBoard[q].arg
    /\ InHand =>
          /\ \A k \in 1..Len(toHost) : ResultAt(k) => toHost[k].job < given
          /\ \A k \in 1..Len(queue) : queue[k].job < given
          /\ \A p \in 1..Len(toBoard) : WorkAt(p) => toBoard[p].arg < given

-----------------------------------------------------------------------------
(* The works *)
Live == Reported \cup Queued \cup Ordered \cup (IF InHand THEN {given} ELSE {})

Size == Cardinality(Ids)

\* What is underway is in works_map, each work under the id that is its own.
Keeps(k) == worksMap[IdOf(k)] = k
CleanInv == Ordinary /\ connected /\ maxJobs > 0 => \A j \in Live : Keeps(j)
RoomInv ==
    Ordinary => /\ Cardinality(Queued \cup Ordered) <= Capacity
           /\ aborted # "no space"
           /\ \A k \in 1..Len(toHost) : toHost[k].kind # "NO_SPACE"

-----------------------------------------------------------------------------
(* What a CHIPSTATE tells *)
Few == used.hasty <= 2
Clear(s) == ~EngineRunning(s) /\ FreeSlots(s) > 0
NothingLive == Reported = {} /\ queue = <<>> /\ Ordered = {}
\* Only the answer to a CHIPSTATE has a state that is not 0.
ToldAt(k) == toHost[k].kind = "OK" /\ toHost[k].state # 0

StateInv ==
    /\ FreeSlots(lastResp) <= Capacity
    /\ \A k \in 1..Len(toHost) : FreeSlots(toHost[k].state) <= Capacity
    /\ Few /\ ~connected =>
         /\ \A p, q \in 1..Len(toBoard) : p < q /\ StateAt(p) => ~WorkAt(q)
         /\ \A k \in 1..Len(toHost) : toHost[k].kind = "OK" /\ Clear(toHost[k].state) =>
              /\ \A m \in 1..Len(toHost) : k < m => ~ResultAt(m)
              /\ queue = <<>> /\ Ordered = {}
         /\ Clear(lastResp) => NothingLive
         /\ Giver.pc = "connected" /\ ~Giver.running /\ maxJobs > 0 => NothingLive

NoOk == \A k \in 1..Len(toHost) : toHost[k].kind # "OK"
Matches == Giver.pc = "woken" /\ lastReq = Giver.cmd.index
NoState == (\A p \in 1..Len(toBoard) : ~StateAt(p)) /\ (\A k \in 1..Len(toHost) : ~ToldAt(k))

\* A process that found the line empty: its command is alone on it.
AloneInv ==
    used.hasty = 0 =>
        IF connected THEN \A p \in 1..Len(toBoard) : ~StateAt(p)
        ELSE /\ Giver.pc \in Waits /\ Giver.pc \notin {"lock", "write"} =>
                  /\ toBoard = <<>> \/ (toBoard = <<Giver.cmd>> /\ NoOk)
                  /\ \A k, m \in 1..Len(toHost) :
                       toHost[k].kind = "OK" /\ toHost[m].kind = "OK" => k = m
             /\ Giver.pc \notin {"arm", "waiting", "woken"} \/ Matches => toBoard = <<>> /\ NoOk
             /\ Giver.pc = "waiting" => lastReq = 0

\* The next one: a CHIPSTATE is alone, and what answers the STOP comes after it.
StatesFirst ==
    /\ \A p, q \in 1..Len(toBoard) :
          p < q /\ StateAt(q) => toBoard[p].index # ConnectIndex
    /\ \A k \in 1..Len(toHost), q \in 1..Len(toBoard) :
          toHost[k].kind = "OK" /\ StateAt(q) => toHost[k].index # ConnectIndex
    /\ \A k, m \in 1..Len(toHost) :
          k < m /\ toHost[k].kind = "OK" /\ ToldAt(m) => toHost[k].index # ConnectIndex
OneState ==
    /\ \A p, q \in 1..Len(toBoard) : StateAt(p) /\ StateAt(q) => p = q
    /\ \A k, m \in 1..Len(toHost) : ToldAt(k) /\ ToldAt(m) => k = m
    /\ \A k \in 1..Len(toHost), p \in 1..Len(toBoard) : ~(ToldAt(k) /\ StateAt(p))
NoWorkBehind == \A p, q \in 1..Len(toBoard) : p < q /\ StateAt(p) => ~WorkAt(q)
Knows ==
    \/ Stopping /\ Matches
    \/ Giver.pc = "connectState"
    \/ Asking /\ Giver.pc \in {"lock", "write"}
    \/ Asking /\ Matches /\ lastResp # 0
    \/ Giver.pc = "connected" /\ (Giver.running \/ maxJobs > 0)

SecondInv ==
    used.hasty = 1 =>
        IF connected
        THEN /\ maxJobs > 0 => \A p \in 1..Len(toBoard) : ~StateAt(p)
             /\ NoWorkBehind
        ELSE /\ Giver.pc = "waiting" => lastReq = 0
             /\ Giver.pc = "connect" \/ Stopping => StatesFirst
             /\ Knows => NoState
             /\ Asking => OneState

-----------------------------------------------------------------------------
(* Leading zeroes *)
\* Behind the commands s, a board that is set to l finds v in place p.
LeadIn(s, l, p, v) ==
    \/ /\ l = v
       /\ \A q \in 1..(p - 1) : s[q].kind # "LEADING0"
    \/ \E q \in 1..(p - 1) :
          /\ s[q].kind = "LEADING0" /\ s[q].arg = v
          /\ \A r \in (q + 1)..(p - 1) : s[r].kind # "LEADING0"
LeadAt(p, v) == LeadIn(toBoard, lead, p, v)
End == Len(toBoard) + 1
Asks(j) == work[j].state = "given" /\ work[j].asked # 0

\* What the library last set, or is about to note that it set.
Sets == Giver.pc = "leadSent" \/ (Giver.pc \in {"arm", "waiting", "woken"} /\ Giver.cmd.kind = "LEADING0")
SetInv ==
    IF Sets THEN LeadAt(End, work[given].asked)
            ELSE leading0 # 0 => LeadAt(End, leading0)
Ready == Giver.pc = "work" \/ (Giver.pc \in {"lock", "write"} /\ Giver.cmd.kind = "DO_WORK")
ReadyInv == Ready /\ work[given].asked # 0 => LeadAt(End, work[given].asked)
ComingInv ==
    \A p \in 1..Len(toBoard) : WorkAt(p) /\ Asks(toBoard[p].arg) =>
        LeadAt(p, work[toBoard[p].arg].asked)
QueuedInv == \A k \in 1..Len(queue) : Asks(queue[k].job) => queue[k].lead = work[queue[k].job].asked
LeadInv == SetInv /\ ReadyInv /\ ComingInv /\ QueuedInv

-------------------------------------------------------------------------------
LEMMA Constants ==
  ASSUME OneGiver
  PROVE  /\ Connecting \in Threads /\ None \notin Threads
         /\ Size \in Nat /\ Ids = 0..(Size - 1) /\ Size > 0
         /\ Capacity \in Nat /\ 0 < Capacity /\ Capacity < 65536 /\ MaxWorks \in Nat
         /\ None \notin Jobs /\ Jobs \subseteq Nat /\ Leads \subseteq Nat
<1>1. Size \in Nat
  BY IdsAssumption, FS_CardinalityType DEF Size
<1>2. Connecting \in Threads /\ None \notin Threads
  BY NoneAssumption DEF OneGiver, Threads
<1>3. Capacity \in Nat /\ 0 < Capacity /\ Capacity < 65536 /\ MaxWorks \in Nat /\ Leads \subseteq Nat
  BY CapacityAssumption, LeadsAssumption, BoundsAssumption
<1>4. Ids = 0..(Size - 1) /\ Size > 0
  BY <1>1, IdsAssumption DEF Size
<1>5. None \notin Jobs /\ Jobs \subseteq Nat
  BY <1>3, NoneAssumption DEF Jobs
<1> QED
  BY <1>1, <1>2, <1>3, <1>4, <1>5

LEMMA NextIs ==
  ASSUME NEW n \in Nat \ {0}, NEW k \in 0..(n - 1)
  PROVE  (k + 1) % n = IF k + 1 = n THEN 0 ELSE k + 1
<1>1. CASE k + 1 = n
  BY <1>1
<1>2. CASE k + 1 # n
  BY <1>2
<1> QED
  BY <1>1, <1>2

LEMMA CommandIs ==
  ASSUME NEW k \in Kinds, NEW i \in Nat, NEW a \in Nat
  PROVE  Command(k, i, a) \in Commands
BY DEF Command, Commands

LEMMA StartedIs ==
  ASSUME OneGiver
  PROVE  /\ Started \in [Threads -> CallStates]
         /\ Started[Connecting].pc = "connect"
         /\ \A t \in Threads \ {Connecting} : Started[t].pc = "idle"
<1>1. NoCommand \in Commands
  BY DEF NoCommand, Command, Commands, Kinds
<1>2. Idle \in CallStates /\ Idle.pc = "idle" /\ [Idle EXCEPT !.pc = "connect"] \in CallStates
      /\ [Idle EXCEPT !.pc = "connect"].pc = "connect"
  BY <1>1 DEF Idle, CallStates, Labels, Waits
<1>3. Connecting \in Threads
  BY Constants
<1> HIDE DEF Idle, CallStates
<1> QED
  BY <1>2, <1>3 DEF Started

\* The answer to a CHIPSTATE, taken apart.
LEMMA ChipStateIs ==
  ASSUME NEW free \in Nat, free < 65536
  PROVE  /\ FreeSlots(free) = free /\ ~EngineRunning(free)
         /\ FreeSlots(free + 65536) = free /\ EngineRunning(free + 65536)
<1>1. (free + 65536) % 65536 = free /\ (free + 65536) \div 65536 = 1
  OBVIOUS
<1>2. free % 65536 = free /\ free \div 65536 = 0
  OBVIOUS
<1>3. FreeSlots(free) = free /\ FreeSlots(free + 65536) = free
  BY <1>1, <1>2 DEF FreeSlots
<1>4. ~EngineRunning(free)
  BY <1>2 DEF EngineRunning
<1>5. EngineRunning(free + 65536)
  BY <1>1 DEF EngineRunning
<1> QED
  BY <1>3, <1>4, <1>5

-------------------------------------------------------------------------------
(***************************************************************************)
(* Types                                                                   *)
(***************************************************************************)
LEMMA TypeInit == ASSUME OneGiver, Init PROVE TypeOK
<1>1. Size \in Nat /\ Ids = 0..(Size - 1) /\ Size > 0
  BY Constants
<1>2. Started \in [Threads -> CallStates]
  BY StartedIs
<1>3. Unsent \in Works
  BY DEF Unsent, Works
<1>4. 0 \in Ids /\ lead \in Nat /\ Len(<<>>) <= Capacity /\ MaxWorks \in Nat
  BY <1>1, Constants DEF Init
<1> QED
  BY <1>2, <1>3, <1>4 DEF Init, TypeOK

LEMMA AnswerTyped ==
  ASSUME NEW s \in Nat
  PROVE  FreeSlots(s) \in Nat /\ EngineRunning(s) \in BOOLEAN
<1>1. FreeSlots(s) \in Nat
  BY DEF FreeSlots
<1>2. EngineRunning(s) \in BOOLEAN
  BY DEF EngineRunning
<1> QED
  BY <1>1, <1>2

\* A thread's next place in the code.
LEMMA GotoTyped ==
  ASSUME thread \in [Threads -> CallStates], NEW t \in Threads, NEW l \in Labels
  PROVE  [thread EXCEPT ![t].pc = l] \in [Threads -> CallStates]
BY DEF CallStates

LEMMA SendTyped ==
  ASSUME thread \in [Threads -> CallStates], NEW t \in Threads, NEW cmd \in Commands,
         NEW ret \in Labels, Send(t, cmd, ret)
  PROVE  thread' \in [Threads -> CallStates]
<1>1. thread' = [thread EXCEPT ![t] = [@ EXCEPT !.pc = "lock", !.cmd = cmd, !.ret = ret]]
  BY DEF Send
<1>2. "lock" \in Labels
  BY DEF Labels, Waits
<1>3. ASSUME NEW c \in CallStates
      PROVE  [c EXCEPT !.pc = "lock", !.cmd = cmd, !.ret = ret] \in CallStates
  BY <1>2, Zenon DEF CallStates
<1>4. [thread[t] EXCEPT !.pc = "lock", !.cmd = cmd, !.ret = ret] \in CallStates
  BY <1>3
<1> QED
  BY <1>1, <1>4

LEMMA QuietTyped ==
  ASSUME TypeOK, NEW t \in Threads,
         LockPm(t) \/ Wait(t) \/ Timeout(t) \/ SpuriousWakeup(t) \/ Mismatch(t)
  PROVE  TypeOK'
<1>0. thread \in [Threads -> CallStates] /\ {"write", "waiting", "woken"} \subseteq Labels
  BY DEF TypeOK, Labels, Waits
<1>1. CASE LockPm(t)
  <2>1. thread' \in [Threads -> CallStates]
    BY <1>0, <1>1, GotoTyped DEF LockPm, Goto
  <2> QED
    BY <1>1, <2>1 DEF LockPm, TypeOK, board
<1>2. CASE Wait(t)
  <2>1. thread' \in [Threads -> CallStates]
    BY <1>0, <1>2, GotoTyped DEF Wait, Goto
  <2> QED
    BY <1>2, <2>1 DEF Wait, TypeOK, board
<1>3. CASE Timeout(t)
  BY <1>3 DEF Timeout, TypeOK, board
<1>4. CASE SpuriousWakeup(t)
  <2>1. thread' \in [Threads -> CallStates]
    BY <1>0, <1>4, GotoTyped DEF SpuriousWakeup, Goto
  <2>2. used \in Counts
    BY DEF TypeOK
  <2>3. used' \in Counts
    BY <1>4, <2>2 DEF SpuriousWakeup, Counts
  <2> QED
    BY <1>4, <2>1, <2>3 DEF SpuriousWakeup, TypeOK, board
<1>5. CASE Mismatch(t)
  BY <1>5 DEF Mismatch, TypeOK, board
<1> QED
  BY <1>1, <1>2, <1>3, <1>4, <1>5

LEMMA WriteTyped ==
  ASSUME TypeOK, NEW t \in Threads, WriteCommand(t)
  PROVE  TypeOK'
<1>1. thread \in [Threads -> CallStates] /\ "arm" \in Labels /\ thread[t].cmd \in Commands
  BY DEF TypeOK, Labels, Waits, CallStates
<1>2. thread' \in [Threads -> CallStates]
  BY <1>1, GotoTyped DEF WriteCommand, Goto
<1>3. toBoard' \in Seq(Commands)
  BY <1>1, AppendProperties DEF WriteCommand, TypeOK
<1> QED
  BY <1>2, <1>3 DEF WriteCommand, TypeOK

LEMMA AnsweredTyped ==
  ASSUME TypeOK, NEW t \in Threads, Answered(t)
  PROVE  TypeOK'
<1>1. FreeSlots(lastResp) \in Nat /\ EngineRunning(lastResp) \in BOOLEAN
  BY AnswerTyped DEF TypeOK
<1>2. thread \in [Threads -> CallStates] /\ thread[t].ret \in Labels /\ maxJobs \in Nat
  BY DEF TypeOK, CallStates
<1>3. thread' \in [Threads -> CallStates] /\ maxJobs' \in Nat
  <2>1. CASE thread[t].cmd.kind = "CHIPSTATE"
    BY <1>1, <1>2, <2>1 DEF Answered, CallStates
  <2>2. CASE thread[t].cmd.kind # "CHIPSTATE"
    BY <1>2, <2>2, GotoTyped DEF Answered, Goto
  <2> QED
    BY <2>1, <2>2
<1> QED
  BY <1>3 DEF Answered, TypeOK, board

LEMMA ConnectTyped ==
  ASSUME TypeOK, NEW t \in Threads, ConnectStop(t) \/ ConnectState(t) \/ Connected(t)
  PROVE  TypeOK'
<1>0. thread \in [Threads -> CallStates]
      /\ {"connectState", "connected", "idle"} \subseteq Labels /\ cmdIndex \in {0, 1}
  BY DEF TypeOK, Labels, Waits
<1>1. CASE ConnectStop(t)
  <2>1. Command("STOP", ConnectIndex, 0) \in Commands
    BY CommandIs DEF Kinds, ConnectIndex
  <2>2. thread' \in [Threads -> CallStates]
    BY <1>0, <1>1, <2>1, SendTyped DEF ConnectStop
  <2> QED
    BY <1>1, <2>2 DEF ConnectStop, TypeOK, board
<1>2. CASE ConnectState(t)
  <2>1. StateIndex(cmdIndex) \in Nat
    BY <1>0 DEF StateIndex
  <2>2. Command("CHIPSTATE", StateIndex(cmdIndex), 0) \in Commands
    BY <2>1, CommandIs DEF Kinds
  <2>3. thread' \in [Threads -> CallStates]
    BY <1>0, <1>2, <2>2, SendTyped DEF ConnectState
  <2>4. cmdIndex' \in {0, 1}
    BY <1>0, <1>2 DEF ConnectState
  <2> QED
    BY <1>2, <2>3, <2>4 DEF ConnectState, TypeOK, board
<1>3. CASE Connected(t)
  <2>1. connected' \in BOOLEAN
    BY <1>0, <1>3 DEF Connected, CallStates
  <2>2. thread' \in [Threads -> CallStates]
    <3>1. CASE connected'
      BY <1>0, <1>3, <3>1, GotoTyped DEF Connected, Goto
    <3>2. CASE ~connected'
      BY <1>0, <1>3, <3>2, GotoTyped DEF Connected, Goto
    <3> QED
      BY <3>1, <3>2
  <2> QED
    BY <1>3, <2>1, <2>2 DEF Connected, TypeOK, board
<1> QED
  BY <1>1, <1>2, <1>3

\* What a work given does to the counts.
LEMMA GivenUsed ==
  ASSUME used \in Counts, NEW t, GiveWork(t)
  PROVE  /\ used' \in Counts /\ used'.hasty = used.hasty
         /\ used'.reused = (used.reused \/ worksMap[nextId] \in Underway)
<1> DEFINE now == used.reused \/ worksMap[nextId] \in Underway
<1>1. now \in BOOLEAN
  BY Zenon DEF Counts
<1>2. used' = [used EXCEPT !.reused = now]
  BY DEF GiveWork
<1> HIDE DEF now
<1>3. used' \in Counts /\ used'.hasty = used.hasty /\ used'.reused = now
  BY <1>1, <1>2, Zenon DEF Counts
<1> QED
  BY <1>3 DEF now

LEMMA WorkTyped ==
  ASSUME OneGiver, TypeOK, NEW t \in Threads,
         GiveWork(t) \/ SetLeading(t) \/ LeadingSet(t) \/ DoWork(t) \/ DropWork(t),
         \A j \in 1..given : IdOf(j) \in Ids,
         thread[t].pc \in {"leading", "leadSent", "work"} => thread[t].job \in 1..given
  PROVE  TypeOK'
<1>0. /\ thread \in [Threads -> CallStates] /\ work \in [Jobs -> Works] /\ leading0 \in Nat
      /\ given \in 0..MaxWorks /\ nextId \in Ids
  BY DEF TypeOK
<1>a. {"leadSent", "work", "idle", "leading"} \subseteq Labels
  BY DEF Labels, Waits
<1>b. Ids \subseteq Nat /\ MaxWorks \in Nat /\ Jobs = 1..MaxWorks
  BY Constants DEF Jobs
<1>c. thread[t].pc \in {"leading", "leadSent", "work"} =>
        thread[t].job \in Jobs /\ thread[t].job \in Nat /\ IdOf(thread[t].job) \in Nat
  <2> SUFFICES ASSUME thread[t].pc \in {"leading", "leadSent", "work"}
               PROVE  thread[t].job \in Jobs /\ thread[t].job \in Nat /\ IdOf(thread[t].job) \in Nat
    OBVIOUS
  <2>1. thread[t].job \in 1..given
    OBVIOUS
  <2>2. IdOf(thread[t].job) \in Ids
    BY <2>1 DEF IdOf
  <2>3. thread[t].job \in 1..MaxWorks /\ thread[t].job \in Nat
    BY <1>0, <1>b, <2>1
  <2> QED
    BY <1>b, <2>2, <2>3
<1>1. CASE GiveWork(t)
  <2>0. given < MaxWorks /\ given' = given + 1
    BY <1>1 DEF GiveWork
  <2>1. given + 1 \in Jobs /\ given' \in 0..MaxWorks
    BY <1>0, <1>b, <2>0
  <2>2. nextId \in Ids /\ nextId' \in Ids
    <3>1. nextId' = (nextId + 1) % Size
      BY <1>1 DEF GiveWork, NewId, Size
    <3>2. Size \in Nat \ {0} /\ Ids = 0..(Size - 1)
      BY Constants
    <3> QED
      BY <1>0, <3>1, <3>2, NextIs
  <2>3. work' \in [Jobs -> Works]
    <3>1. PICK lz \in Leads : work' = [work EXCEPT ![given + 1] =
                 [Unsent EXCEPT !.state = "given", !.id = nextId, !.asked = lz, !.lz = lz]]
      BY <1>1 DEF GiveWork
    <3>2. lz \in Nat /\ nextId \in Nat
      BY <1>b, <2>2, Constants
    <3>3. [Unsent EXCEPT !.state = "given", !.id = nextId, !.asked = lz, !.lz = lz] \in Works
      BY <3>2 DEF Unsent, Works
    <3> QED
      BY <1>0, <2>1, <3>1, <3>3
  <2>4. thread' \in [Threads -> CallStates]
    <3>1. PICK entry : entry = [thread[t] EXCEPT !.pc = "leading", !.job = given + 1]
      OBVIOUS
    <3>2. entry \in CallStates
      BY <1>0, <1>a, <2>1, <3>1, Zenon DEF CallStates
    <3>3. thread' = [thread EXCEPT ![t] = entry]
      BY <1>0, <1>1, <3>1 DEF GiveWork
    <3> QED
      BY <1>0, <3>2, <3>3
  <2>5. worksMap' \in [Ids -> Jobs \cup {None}]
    BY <1>1, <2>1, <2>2 DEF GiveWork, TypeOK
  <2>6. used' \in Counts
    BY <1>1, GivenUsed DEF TypeOK
  <2> QED
    BY <1>1, <2>1, <2>2, <2>3, <2>4, <2>5, <2>6 DEF GiveWork, TypeOK, board
<1>2. CASE SetLeading(t)
  <2>1. thread[t].job \in Jobs /\ IdOf(thread[t].job) \in Nat /\ work[thread[t].job].lz \in Nat
    BY <1>0, <1>c, <1>2 DEF SetLeading, Works
  <2>2. Command("LEADING0", IdOf(thread[t].job), work[thread[t].job].lz) \in Commands
    BY <2>1, CommandIs DEF Kinds
  <2>3. thread' \in [Threads -> CallStates]
    BY <1>0, <1>a, <1>2, <2>2, SendTyped, GotoTyped DEF SetLeading, Goto
  <2> QED
    BY <1>2, <2>3 DEF SetLeading, TypeOK, board
<1>3. CASE LeadingSet(t)
  <2>1. leading0' \in Nat
    BY <1>0, <1>c, <1>3 DEF LeadingSet, Works
  <2>2. thread' \in [Threads -> CallStates]
    BY <1>0, <1>a, <1>3, GotoTyped DEF LeadingSet, Goto
  <2> QED
    BY <1>3, <2>1, <2>2 DEF LeadingSet, TypeOK, board
<1>4. CASE DoWork(t)
  <2>1. thread[t].job \in Jobs /\ thread[t].job \in Nat /\ IdOf(thread[t].job) \in Nat
    BY <1>c, <1>4 DEF DoWork
  <2>2. Command("DO_WORK", IdOf(thread[t].job), thread[t].job) \in Commands
    BY <2>1, CommandIs DEF Kinds
  <2>3. thread' \in [Threads -> CallStates]
    BY <1>0, <1>a, <1>4, <2>2, SendTyped DEF DoWork
  <2>4. work' \in [Jobs -> Works]
    BY <1>0, <1>4, <2>1 DEF DoWork, Works
  <2> QED
    BY <1>4, <2>3, <2>4 DEF DoWork, TypeOK, board
<1>5. CASE DropWork(t)
  <2>1. Command("STOP", StopIndex, 0) \in Commands
    BY CommandIs DEF Kinds, StopIndex
  <2>2. thread' \in [Threads -> CallStates]
    BY <1>0, <1>a, <1>5, <2>1, SendTyped DEF DropWork
  <2>3. used \in Counts
    BY DEF TypeOK
  <2>4. used' \in Counts
    BY <1>5, <2>3 DEF DropWork, Counts
  <2> QED
    BY <1>5, <2>2, <2>4 DEF DropWork, TypeOK, board
<1> QED
  BY <1>1, <1>2, <1>3, <1>4, <1>5

LEMMA PollTyped ==
  ASSUME OneGiver, TypeOK, LineInv, ReadAnswer \/ HwWonWork \/ HwFinishedWork
  PROVE  TypeOK'
<1>1. toHost # <<>> /\ toHost \in Seq(Responses) /\ toHost' = Tail(toHost)
  BY DEF ReadAnswer, HwWonWork, HwFinishedWork, Reads, TypeOK
<1>2. toHost' \in Seq(Responses) /\ line \in Responses
  BY <1>1, HeadTailProperties DEF line
<1>3. CASE ReadAnswer
  <2>1. thread \in [Threads -> CallStates] /\ lastReq \in Nat /\ lastResp \in Nat
        /\ aborted \in {"no", "timeout", "mismatch", "no space"} /\ "woken" \in Labels
    BY DEF TypeOK, Labels, Waits
  <2>2. line.index \in Nat /\ line.state \in Nat
    BY <1>2 DEF Responses
  <2>3. lastReq' \in Nat /\ lastResp' \in Nat
        /\ aborted' \in {"no", "timeout", "mismatch", "no space"}
    BY <1>3, <2>1, <2>2 DEF ReadAnswer
  <2>4. thread' \in [Threads -> CallStates]
    <3>1. \A t \in Threads : [thread[t] EXCEPT !.pc = "woken"] \in CallStates
      BY <2>1 DEF CallStates
    <3> HIDE DEF CallStates
    <3>2. CASE line.kind = "OK"
      BY <1>3, <2>1, <3>1, <3>2 DEF ReadAnswer
    <3>3. CASE line.kind # "OK"
      BY <1>3, <2>1, <3>3 DEF ReadAnswer
    <3> QED
      BY <3>2, <3>3
  <2> QED
    BY <1>2, <1>3, <2>3, <2>4 DEF ReadAnswer, TypeOK
<1>4. worksMap \in [Ids -> Jobs \cup {None}] /\ work \in [Jobs -> Works]
  BY DEF TypeOK
<1>7. line.kind \in {"DONE", "WIN"} => line.index \in Ids
  <2>1. line = toHost[1] /\ 1 \in 1..Len(toHost)
    BY <1>1, HeadTailProperties DEF line
  <2> QED
    BY <2>1 DEF LineInv, ResultAt, IdOf
<1>8. HwWonWork \/ HwFinishedWork => worksMap[line.index] \in Jobs \cup {None}
  BY <1>4, <1>7 DEF HwWonWork, HwFinishedWork, Reads
<1>5. CASE HwWonWork
  <2>1. work' \in [Jobs -> Works]
    BY <1>4, <1>5, <1>8, SMT DEF HwWonWork, Works
  <2> QED
    BY <1>2, <1>5, <2>1 DEF HwWonWork, TypeOK
<1>6. CASE HwFinishedWork
  <2>1. work' \in [Jobs -> Works]
    BY <1>4, <1>6, <1>8 DEF HwFinishedWork, Works
  <2>2. worksMap' \in [Ids -> Jobs \cup {None}]
    BY <1>4, <1>6 DEF HwFinishedWork
  <2> QED
    BY <1>2, <1>6, <2>1, <2>2 DEF HwFinishedWork, TypeOK
<1> QED
  BY <1>3, <1>5, <1>6

\* What the board makes of a command: the commands left, the answer, and the queue.
LEMMA TakesIs ==
  ASSUME OneGiver, TypeOK, BoardTakesCommand
  PROVE  /\ toBoard # <<>> /\ toBoard' = Tail(toBoard)
         /\ \E k \in {"OK", "NO_SPACE"}, s \in Nat :
              /\ toHost' = Append(toHost, Response(k, Head(toBoard).index, s, None))
              /\ Response(k, Head(toBoard).index, s, None) \in Responses
              /\ FreeSlots(s) <= Capacity
              /\ k = "NO_SPACE" => Head(toBoard).kind = "DO_WORK" /\ Len(queue) = Capacity
              /\ s # 0 => Head(toBoard).kind = "CHIPSTATE" /\ k = "OK"
              /\ Head(toBoard).kind = "CHIPSTATE" => (EngineRunning(s) <=> queue # <<>>)
         /\ \/ Head(toBoard).kind = "LEADING0" /\ lead' = Head(toBoard).arg /\ queue' = queue
            \/ /\ Head(toBoard).kind = "DO_WORK" /\ lead' = lead
               /\ queue' \in {queue, Append(queue, [id |-> Head(toBoard).index,
                                                job |-> Head(toBoard).arg, lead |-> lead])}
            \/ /\ Head(toBoard).kind = "STOP" /\ lead' = lead
               /\ queue' = <<>> \/ (queue # <<>> /\ queue' = <<Head(queue)>>)
            \/ Head(toBoard).kind = "CHIPSTATE" /\ lead' = lead /\ queue' = queue
         /\ UNCHANGED <<process, used>>
<1> DEFINE c == Head(toBoard)
<1>1. toBoard # <<>> /\ toBoard' = Tail(toBoard) /\ UNCHANGED <<process, used>>
  BY DEF BoardTakesCommand
<1>9. toBoard \in Seq(Commands) /\ Len(queue) \in Nat /\ Len(queue) <= Capacity
  BY LenProperties DEF TypeOK
<1>2. c \in Commands /\ c.kind \in Kinds /\ c.index \in Nat
  <2>1. c \in Commands
    BY <1>1, <1>9, HeadTailProperties
  <2> QED
    BY <2>1 DEF Commands
<1>3. FreeSlots(0) <= Capacity
  BY Constants, ChipStateIs
<1>4. \A k \in {"OK", "NO_SPACE"}, s \in Nat : Response(k, c.index, s, None) \in Responses
  BY <1>2 DEF Response, Responses
<1>5. CASE c.kind = "LEADING0" /\ lead' = c.arg /\ Answers("OK", 0) /\ UNCHANGED queue
  BY <1>1, <1>3, <1>4, <1>5 DEF Answers
<1>6. CASE /\ c.kind = "DO_WORK"
           /\ IF Len(queue) < Capacity
              THEN /\ queue' = Append(queue, [id |-> c.index, job |-> c.arg, lead |-> lead])
                   /\ Answers("OK", 0)
              ELSE Answers("NO_SPACE", 0) /\ UNCHANGED queue
           /\ UNCHANGED lead
  <2>1. Len(queue) <= Capacity /\ Len(queue) \in Nat /\ Capacity \in Nat
    BY <1>9, Constants
  <2>2. CASE Len(queue) < Capacity
    BY <1>1, <1>3, <1>4, <1>6, <2>2 DEF Answers
  <2>3. CASE ~(Len(queue) < Capacity)
    BY <1>1, <1>3, <1>4, <1>6, <2>1, <2>3 DEF Answers
  <2> QED
    BY <2>2, <2>3
<1>7. CASE /\ c.kind = "STOP"
           /\ queue' \in {<<>>, IF queue = <<>> THEN <<>> ELSE <<Head(queue)>>}
           /\ Answers("OK", 0)
           /\ UNCHANGED lead
  <2>1. queue' = <<>> \/ (queue # <<>> /\ queue' = <<Head(queue)>>)
    BY <1>7
  <2> QED
    BY <1>1, <1>3, <1>4, <1>7, <2>1 DEF Answers
<1>8. CASE /\ c.kind = "CHIPSTATE"
           /\ Answers("OK", ChipState(Capacity - Len(queue), queue # <<>>))
           /\ UNCHANGED <<queue, lead>>
  <2> DEFINE s == ChipState(Capacity - Len(queue), queue # <<>>)
  <2>1. Len(queue) \in Nat /\ Len(queue) <= Capacity /\ Capacity \in Nat /\ Capacity < 65536
    BY <1>9, Constants
  <2>2. s \in Nat /\ FreeSlots(s) <= Capacity /\ (EngineRunning(s) <=> queue # <<>>)
    <3>1. CASE queue = <<>>
      <4>1. s = Capacity - Len(queue)
        BY <2>1, <3>1 DEF ChipState
      <4> QED
        BY <2>1, <3>1, <4>1, ChipStateIs
    <3>2. CASE queue # <<>>
      <4>1. s = (Capacity - Len(queue)) + 65536
        BY <2>1, <3>2 DEF ChipState
      <4> QED
        BY <2>1, <3>2, <4>1, ChipStateIs
    <3> QED
      BY <3>1, <3>2
  <2> HIDE DEF s
  <2>3. toHost' = Append(toHost, Response("OK", c.index, s, None))
    BY <1>8 DEF Answers, s
  <2> QED
    BY <1>1, <1>4, <1>8, <2>2, <2>3
<1> QED
  BY <1>5, <1>6, <1>7, <1>8 DEF BoardTakesCommand

LEMMA BoardTyped ==
  ASSUME OneGiver, TypeOK, LineInv, BoardTakesCommand \/ BoardFinishes \/ BoardWins
  PROVE  TypeOK'
<1>0. /\ toBoard \in Seq(Commands) /\ toHost \in Seq(Responses) /\ queue \in Seq(Entries)
      /\ Len(queue) <= Capacity /\ Len(queue) \in Nat /\ lead \in Nat
  BY LenProperties DEF TypeOK
<1>1. CASE BoardTakesCommand
  <2> DEFINE c == Head(toBoard)
  <2>1. toBoard # <<>> /\ toBoard' = Tail(toBoard) /\ UNCHANGED <<process, used>>
    BY <1>1, TakesIs
  <2>2. c \in Commands /\ toBoard' \in Seq(Commands)
    BY <1>0, <2>1, HeadTailProperties
  <2>3. toHost' \in Seq(Responses)
    <3>1. PICK r \in Responses : toHost' = Append(toHost, r)
      BY <1>1, TakesIs
    <3>2. Append(toHost, r) \in Seq(Responses)
      BY <1>0, AppendProperties
    <3> QED
      BY <3>1, <3>2
  <2>4. c.kind = "DO_WORK" => [id |-> c.index, job |-> c.arg, lead |-> lead] \in Entries
    <3> SUFFICES ASSUME c.kind = "DO_WORK"
                 PROVE  [id |-> c.index, job |-> c.arg, lead |-> lead] \in Entries
      OBVIOUS
    <3>1. c = toBoard[1] /\ 1 \in 1..Len(toBoard)
      BY <1>0, <2>1, HeadTailProperties
    <3>2. c.arg \in 1..given
      BY <3>1 DEF LineInv, WorkAt
    <3>3. given \in 0..MaxWorks
      BY DEF TypeOK
    <3>4. c.arg \in Jobs
      BY <3>2, <3>3, BoundsAssumption DEF Jobs
    <3> QED
      BY <1>0, <2>2, <3>4 DEF Commands, Entries
  <2>5. queue' \in Seq(Entries) /\ Len(queue') <= Capacity /\ lead' \in Nat
    <3>1. CASE queue' = queue
      BY <1>0, <1>1, <2>2, <3>1, TakesIs, Zenon DEF Commands
    <3>2. CASE lead' = lead /\ (queue' = <<>> \/ (queue # <<>> /\ queue' = <<Head(queue)>>))
      <4>1. queue # <<>> => <<Head(queue)>> \in Seq(Entries) /\ Len(<<Head(queue)>>) = 1
        BY <1>0, HeadTailProperties
      <4>2. <<>> \in Seq(Entries) /\ Len(<<>>) = 0 /\ Capacity \in Nat /\ 0 < Capacity
        BY Constants
      <4>3. CASE queue' = <<>>
        BY <1>0, <3>2, <4>2, <4>3
      <4>4. CASE queue # <<>> /\ queue' = <<Head(queue)>>
        BY <1>0, <3>2, <4>1, <4>2, <4>4
      <4> QED
        BY <3>2, <4>3, <4>4
    <3>3. CASE c.kind = "DO_WORK" /\ lead' = lead /\ queue' # queue
      <4>1. queue' = Append(queue, [id |-> c.index, job |-> c.arg, lead |-> lead])
            /\ Len(queue) < Capacity
        BY <1>1, <3>3 DEF BoardTakesCommand
      <4> DEFINE e == [id |-> c.index, job |-> c.arg, lead |-> lead]
      <4>2. e \in Entries
        BY <2>4, <3>3
      <4> HIDE DEF e
      <4>3. Append(queue, e) \in Seq(Entries) /\ Len(Append(queue, e)) = Len(queue) + 1
        BY <1>0, <4>2, AppendProperties
      <4>4. queue' = Append(queue, e) /\ Len(queue) + 1 <= Capacity
        BY <1>0, <4>1, Constants DEF e
      <4> QED
        BY <1>0, <3>3, <4>3, <4>4
    <3> QED
      BY <1>1, <3>1, <3>2, <3>3, TakesIs
  <2> QED
    BY <2>1, <2>2, <2>3, <2>5 DEF TypeOK, process
<1>2. CASE BoardFinishes
  <2>1. queue # <<>> /\ queue' = Tail(queue)
        /\ toHost' = Append(toHost, Response("DONE", Head(queue).id, 0, Head(queue).job))
    BY <1>2 DEF BoardFinishes
  <2>2. Head(queue) \in Entries /\ queue' \in Seq(Entries) /\ Len(queue') <= Capacity
    BY <1>0, <2>1, Constants, HeadTailProperties
  <2>3. Response("DONE", Head(queue).id, 0, Head(queue).job) \in Responses
    BY <2>2 DEF Response, Responses, Entries
  <2>4. toHost' \in Seq(Responses)
    BY <1>0, <2>1, <2>3, AppendProperties
  <2> QED
    BY <1>2, <2>2, <2>4 DEF BoardFinishes, process, TypeOK
<1>3. CASE BoardWins
  <2>1. queue # <<>>
        /\ toHost' = Append(toHost, Response("WIN", Head(queue).id, 0, Head(queue).job))
    BY <1>3 DEF BoardWins
  <2>2. Head(queue) \in Entries
    BY <1>0, <2>1, HeadTailProperties
  <2>3. Response("WIN", Head(queue).id, 0, Head(queue).job) \in Responses
    BY <2>2 DEF Response, Responses, Entries
  <2>4. toHost' \in Seq(Responses)
    BY <1>0, <2>1, <2>3, AppendProperties
  <2>5. work \in [Jobs -> Works]
    BY DEF TypeOK
  <2>6. work' \in [Jobs -> Works]
    <3> DEFINE r == [work[Head(queue).job] EXCEPT !.wins = 1]
    <3>1. Head(queue).job \in Jobs
      BY <2>2, Zenon DEF Entries
    <3>2. work[Head(queue).job] \in Works
      BY <2>5, <3>1, Zenon
    <3>3. r \in Works
      BY <3>2, SMT DEF Works
    <3>4. work' = [work EXCEPT ![Head(queue).job] = r]
      BY <1>3, Zenon DEF BoardWins
    <3> HIDE DEF r
    <3> QED
      BY <2>5, <3>1, <3>3, <3>4, Zenon
  <2> QED
    BY <1>3, <2>4, <2>6 DEF BoardWins, TypeOK
<1> QED
  BY <1>1, <1>2, <1>3

LEMMA RestartTyped ==
  ASSUME OneGiver, TypeOK, Restart
  PROVE  TypeOK'
<1>1. thread' \in [Threads -> CallStates]
  BY StartedIs DEF Restart
<1>2. 0 \in Ids
  BY Constants
<1>3. work \in [Jobs -> Works] /\ used \in Counts
  BY DEF TypeOK
<1>4. work' \in [Jobs -> Works]
  BY <1>3, Zenon DEF Restart, Works
<1>5. used' \in Counts
  <2> DEFINE h == IF toBoard = <<>> THEN used.hasty ELSE used.hasty + 1
  <2>1. h \in Nat /\ used.restarts + 1 \in Nat
    BY <1>3 DEF Counts
  <2>2. used' = [used EXCEPT !.restarts = used.restarts + 1, !.hasty = h]
    BY DEF Restart
  <2> HIDE DEF h
  <2> QED
    BY <1>3, <2>1, <2>2 DEF Counts
<1>6. worksMap' \in [Ids -> Jobs \cup {None}]
  BY DEF Restart
<1>7. <<>> \in Seq(Responses)
  OBVIOUS
<1> QED
  BY <1>1, <1>2, <1>4, <1>5, <1>6, <1>7 DEF Restart, TypeOK

-------------------------------------------------------------------------------
(***************************************************************************)
(* The line                                                                *)
(***************************************************************************)
\* What a step does to the line when it is not one of the board or the poll thread.
Quiet == UNCHANGED <<toBoard, toHost, queue, lead>>

LEMMA WrittenIs ==
  ASSUME TypeOK, NEW t \in Threads, WriteCommand(t)
  PROVE  /\ Len(toBoard') = Len(toBoard) + 1 /\ Len(toBoard) \in Nat
         /\ \A p \in 1..Len(toBoard) : toBoard'[p] = toBoard[p]
         /\ toBoard'[Len(toBoard) + 1] = thread[t].cmd
<1>1. toBoard \in Seq(Commands) /\ thread[t].cmd \in Commands
  BY DEF TypeOK, CallStates
<1> QED
  BY <1>1, AppendProperties, LenProperties DEF WriteCommand

LEMMA AnsweredIs ==
  ASSUME NEW s \in Seq(Responses), NEW r \in Responses
  PROVE  /\ Len(Append(s, r)) = Len(s) + 1 /\ Len(s) \in Nat
         /\ \A k \in 1..Len(s) : Append(s, r)[k] = s[k]
         /\ Append(s, r)[Len(s) + 1] = r
BY AppendProperties, LenProperties

LEMMA TailIs ==
  ASSUME NEW S, NEW s \in Seq(S), s # <<>>
  PROVE  /\ Len(s) \in Nat /\ Len(s) >= 1 /\ Len(Tail(s)) = Len(s) - 1 /\ Head(s) = s[1]
         /\ \A k \in 1..(Len(s) - 1) : Tail(s)[k] = s[k + 1]
BY HeadTailProperties, LenProperties, EmptySeq

-------------------------------------------------------------------------------
(***************************************************************************)
(* The threads                                                             *)
(***************************************************************************)
ThreadInv == ConnectInv /\ CallInv /\ HandInv /\ MapInv

LEMMA GotoIs ==
  ASSUME thread \in [Threads -> CallStates], NEW t \in Threads, NEW l, Goto(t, l)
  PROVE  /\ \A s \in Threads \ {t} : thread'[s] = thread[s]
         /\ thread'[t].pc = l /\ thread'[t].cmd = thread[t].cmd
         /\ thread'[t].ret = thread[t].ret /\ thread'[t].job = thread[t].job
         /\ thread'[t].running = thread[t].running
BY DEF Goto, CallStates

LEMMA SendIs ==
  ASSUME thread \in [Threads -> CallStates], NEW t \in Threads, NEW cmd, NEW ret, Send(t, cmd, ret)
  PROVE  /\ \A s \in Threads \ {t} : thread'[s] = thread[s]
         /\ thread'[t].pc = "lock" /\ thread'[t].cmd = cmd
         /\ thread'[t].ret = ret /\ thread'[t].job = thread[t].job
         /\ thread'[t].running = thread[t].running
BY DEF Send, CallStates

\* A step within a command.
LEMMA CommandKeepsThreads ==
  ASSUME OneGiver, TypeOK, ThreadInv, NEW t \in Threads, NEW l \in {"write", "arm", "waiting", "woken"},
         thread[t].pc \in Waits, l = "write" => thread[t].pc = "lock", Goto(t, l),
         UNCHANGED <<connected, given, work, maxJobs, worksMap>>
  PROVE  ThreadInv'
<1>1. /\ \A s \in Threads \ {t} : thread'[s] = thread[s]
      /\ thread'[t].pc = l /\ thread'[t].cmd = thread[t].cmd
      /\ thread'[t].ret = thread[t].ret /\ thread'[t].job = thread[t].job
      /\ thread'[t].running = thread[t].running
  BY GotoIs DEF TypeOK
<1>2. Connecting \in Threads /\ l \in Waits
  BY Constants DEF Waits
<1>3. /\ Giver'.pc = Giver.pc \/ (t = Connecting /\ Giver'.pc = l /\ Giver.pc \in Waits)
      /\ Giver'.cmd = Giver.cmd /\ Giver'.ret = Giver.ret /\ Giver'.job = Giver.job
  BY <1>1, <1>2 DEF Giver
<1>4. ConnectInv'
  BY <1>1, <1>2, <1>3 DEF ThreadInv, ConnectInv, Stopping, Asking, Waits
<1>5. CallInv'
  BY <1>1, <1>2 DEF ThreadInv, CallInv, IdOf, Waits
<1>6. InHand' => InHand
  <2>1. CASE Giver'.pc = Giver.pc
    BY <1>3, <2>1 DEF InHand
  <2>2. CASE t = Connecting /\ Giver'.pc = l /\ Giver.pc \in Waits /\ (l = "write" => Giver.pc = "lock")
    BY <1>3, <2>2 DEF InHand, Waits
  <2> QED
    BY <1>3, <2>1, <2>2 DEF Giver
<1>7. HandInv'
  BY <1>3, <1>6 DEF ThreadInv, HandInv, Waits
<1>8. MapInv'
  BY DEF ThreadInv, MapInv, Mapped
<1> QED
  BY <1>4, <1>5, <1>7, <1>8 DEF ThreadInv

LEMMA AnsweredKeepsThreads ==
  ASSUME OneGiver, TypeOK, ThreadInv, FreeSlots(lastResp) <= Capacity,
         NEW t \in Threads, Answered(t)
  PROVE  ThreadInv'
<1>0. Connecting \in Threads
  BY Constants
<1>1. Connecting \in Threads /\ thread \in [Threads -> CallStates]
  BY <1>0 DEF TypeOK
<1>2. /\ \A s \in Threads \ {t} : thread'[s] = thread[s]
      /\ thread'[t].pc = thread[t].ret /\ thread'[t].cmd = thread[t].cmd
      /\ thread'[t].ret = thread[t].ret /\ thread'[t].job = thread[t].job
  <2>1. CASE thread[t].cmd.kind = "CHIPSTATE"
    BY <1>1, <2>1 DEF Answered, CallStates
  <2>2. CASE thread[t].cmd.kind # "CHIPSTATE"
    BY <1>1, <2>2, GotoIs DEF Answered
  <2> QED
    BY <2>1, <2>2
<1>3. thread[t].pc = "woken" /\ UNCHANGED <<connected, given, work, worksMap>>
      /\ maxJobs' = IF thread[t].cmd.kind = "CHIPSTATE" THEN FreeSlots(lastResp) ELSE maxJobs
  BY DEF Answered
<1>4. CASE ~connected
  <2>1. t = Connecting /\ (Stopping \/ Asking)
    BY <1>1, <1>3, <1>4 DEF ThreadInv, ConnectInv, Giver
  <2>2. Giver'.pc \in {"connectState", "connected"}
    BY <1>2, <2>1 DEF Giver, Stopping, Asking
  <2>3. ConnectInv'
    BY <1>1, <1>2, <1>3, <1>4, <2>1, <2>2 DEF ThreadInv, ConnectInv
  <2>4. CallInv' /\ HandInv'
    BY <1>3, <1>4, <2>2 DEF CallInv, HandInv, InHand, Waits
  <2>5. MapInv'
    <3>1. maxJobs' <= Capacity
      BY <1>3 DEF ThreadInv, MapInv
    <3> QED
      BY <1>3, <1>4, <3>1 DEF ThreadInv, MapInv, Mapped
  <2> QED
    BY <2>3, <2>4, <2>5 DEF ThreadInv
<1>5. CASE connected
  <2>1. thread[t].cmd.kind # "CHIPSTATE" /\ maxJobs' = maxJobs
    BY <1>3, <1>5 DEF ThreadInv, CallInv, Waits, Command
  <2>2. thread'[t].pc = "idle" \/ (t = Connecting /\ thread'[t].pc = "leadSent" /\ Giver.cmd.kind = "LEADING0")
    BY <1>2, <1>3, <1>5 DEF ThreadInv, CallInv, Waits, Command, Giver
  <2>3. CallInv'
    BY <1>1, <1>2, <1>3, <1>5, <2>2 DEF ThreadInv, CallInv, IdOf, Waits
  <2>4. ConnectInv'
    BY <1>3, <1>5 DEF ConnectInv
  <2>5. /\ Giver'.cmd = Giver.cmd /\ Giver'.job = Giver.job
        /\ Giver'.pc \in {Giver.pc, "idle"} \/ (Giver'.pc = "leadSent" /\ Giver.cmd.kind = "LEADING0" /\ Giver.pc \in Waits)
    BY <1>1, <1>2, <1>3, <2>2 DEF Giver, Waits
  <2>6. InHand' => InHand
    BY <2>5 DEF InHand, Waits
  <2>7. HandInv'
    BY <1>3, <2>1, <2>5, <2>6 DEF ThreadInv, HandInv, InHand, Waits
  <2>8. MapInv'
    BY <1>3, <2>1 DEF ThreadInv, MapInv, Mapped
  <2> QED
    BY <2>3, <2>4, <2>7, <2>8 DEF ThreadInv
<1> QED
  BY <1>4, <1>5

LEMMA ConnectKeepsThreads ==
  ASSUME OneGiver, TypeOK, ThreadInv,
         NEW t \in Threads, ConnectStop(t) \/ ConnectState(t) \/ Connected(t)
  PROVE  ThreadInv'
<1>0. Connecting \in Threads
  BY Constants
<1>1. Connecting \in Threads /\ thread \in [Threads -> CallStates]
  BY <1>0 DEF TypeOK
<1>2. thread[t].pc \in {"connect", "connectState", "connected"}
      /\ UNCHANGED <<given, work, worksMap, maxJobs>>
  BY DEF ConnectStop, ConnectState, Connected
<1>3. ~connected /\ t = Connecting
  BY <1>2 DEF ThreadInv, CallInv, ConnectInv
<1>4. CASE ConnectStop(t) \/ ConnectState(t)
  <2>1. PICK cmd, ret :
          /\ Send(t, cmd, ret) /\ UNCHANGED connected
          /\ \/ cmd = Command("STOP", ConnectIndex, 0) /\ ret = "connectState"
             \/ cmd = Command("CHIPSTATE", StateIndex(cmdIndex), 0) /\ ret = "connected"
    BY <1>4 DEF ConnectStop, ConnectState
  <2>2. /\ \A s \in Threads \ {t} : thread'[s] = thread[s]
        /\ thread'[t].pc = "lock" /\ thread'[t].cmd = cmd /\ thread'[t].ret = ret
    BY <1>1, <2>1, SendIs
  <2>a. cmdIndex \in {0, 1}
    BY DEF TypeOK
  <2>3. StateIndex(cmdIndex) \in {5, 6}
    BY <2>a DEF StateIndex
  <2>4. Stopping' \/ Asking'
    BY <1>3, <2>1, <2>2, <2>3 DEF Giver, Stopping, Asking, Waits, Command
  <2>5. ConnectInv'
    BY <1>3, <2>1, <2>2, <2>4 DEF ThreadInv, ConnectInv
  <2>6. ~InHand'
    BY <2>4 DEF InHand, Stopping, Asking, Waits, Command
  <2>7. CallInv' /\ HandInv' /\ MapInv'
    BY <1>2, <1>3, <2>1, <2>6 DEF ThreadInv, CallInv, HandInv, MapInv, Mapped
  <2> QED
    BY <2>5, <2>7 DEF ThreadInv
<1>5. CASE Connected(t)
  <2>1. PICK l \in {"idle", "connectState"} : Goto(t, l) /\ (connected' <=> l = "idle") /\ connected' \in BOOLEAN
    BY <1>5, ConnectTyped DEF Connected, TypeOK
  <2>2. (\A s \in Threads \ {t} : thread'[s] = thread[s]) /\ thread'[t].pc = l
    BY <1>1, <2>1, GotoIs
  <2>3. ConnectInv'
    BY <1>3, <2>1, <2>2 DEF ThreadInv, ConnectInv, Giver
  <2>4. CallInv'
    BY <1>3, <2>1, <2>2 DEF ThreadInv, ConnectInv, CallInv, Waits
  <2>5. HandInv'
    BY <1>3, <2>2 DEF HandInv, InHand, Giver, Waits
  <2>6. MapInv'
    BY <1>2, <1>3 DEF ThreadInv, MapInv, Mapped
  <2> QED
    BY <2>3, <2>4, <2>5, <2>6 DEF ThreadInv
<1> QED
  BY <1>4, <1>5

LEMMA GiveKeepsThreads ==
  ASSUME OneGiver, TypeOK, ThreadInv, NEW t \in Threads, GiveWork(t)
  PROVE  ThreadInv'
<1>0. Connecting \in Threads
  BY Constants
<1>1. thread \in [Threads -> CallStates] /\ t = Connecting /\ thread[t].pc = "idle" /\ connected
  BY DEF GiveWork, OneGiver, TypeOK
<1>2. /\ \A s \in Threads \ {t} : thread'[s] = thread[s]
      /\ thread'[t].pc = "leading" /\ thread'[t].job = given + 1
  BY <1>1 DEF GiveWork, CallStates
<1>3. given \in Nat /\ given < MaxWorks /\ given' = given + 1 /\ given' \in Jobs /\ nextId \in Ids
  <2>1. given \in 0..MaxWorks /\ given < MaxWorks /\ given' = given + 1 /\ nextId \in Ids
    BY DEF TypeOK, GiveWork
  <2> QED
    BY <2>1, BoundsAssumption DEF Jobs
<1>4. work'[given'].lz = work'[given'].asked
  <2>1. work \in [Jobs -> Works]
    BY DEF TypeOK
  <2> QED
    BY <1>3, <2>1 DEF GiveWork, Unsent
<1>5. ConnectInv'
  BY <1>1 DEF GiveWork, ConnectInv
<1>6. CallInv'
  <2> SUFFICES ASSUME NEW s \in Threads
               PROVE  /\ thread'[s].pc \notin {"connect", "connectState", "connected"}
                      /\ thread'[s].pc \in {"leading", "leadSent", "work"} => s = Connecting
                      /\ thread'[s].pc \in Waits =>
                           s # t /\ thread'[s].cmd.kind = "STOP" /\ thread'[s].ret = "idle"
    BY <1>1 DEF CallInv
  <2>1. CASE s = t
    BY <1>1, <1>2, <2>1 DEF Waits
  <2>2. CASE s # t
    BY <1>1, <1>2, <2>2 DEF ThreadInv, CallInv, Waits
  <2> QED
    BY <2>1, <2>2
<1>7. Cardinality(Mapped) < maxJobs /\ IsFiniteSet(Mapped) /\ Cardinality(Mapped) \in Nat
      /\ maxJobs <= Capacity /\ maxJobs \in Nat
  BY FS_CardinalityType DEF GiveWork, HasSpace, ThreadInv, MapInv, TypeOK
<1>8. HandInv'
  BY <1>1, <1>2, <1>3, <1>4, <1>7 DEF HandInv, Giver, GiveWork, Waits
<1>9. MapInv'
  <2>1. Mapped' \in {Mapped, Mapped \cup {nextId}}
    <3>1. \A i \in Ids : worksMap'[i] = IF i = nextId THEN given + 1 ELSE worksMap[i]
      BY <1>3 DEF GiveWork, TypeOK
    <3>2. given + 1 # None
      BY <1>3, NoneAssumption
    <3> QED
      BY <1>3, <3>1, <3>2 DEF Mapped
  <2>2. IsFiniteSet(Mapped') /\ Cardinality(Mapped') <= Cardinality(Mapped) + 1
        /\ Cardinality(Mapped') \in Nat
    <3>1. CASE Mapped' = Mapped
      BY <1>7, <3>1
    <3>2. CASE Mapped' = Mapped \cup {nextId}
      <4>1. PICK m, x : m = Mapped /\ x = nextId
        OBVIOUS
      <4>2. IsFiniteSet(m) /\ Cardinality(m) \in Nat
        BY <1>7, <4>1
      <4>3. /\ IsFiniteSet(m \cup {x})
            /\ Cardinality(m \cup {x}) = IF x \in m THEN Cardinality(m) ELSE Cardinality(m) + 1
        BY <4>2, FS_AddElement
      <4>4. /\ Cardinality(m \cup {x}) <= Cardinality(m) + 1
            /\ Cardinality(m \cup {x}) \in Nat
        BY <4>2, <4>3
      <4> QED
        BY <3>2, <4>1, <4>3, <4>4
    <3> QED
      BY <2>1, <3>1, <3>2
  <2>3. Capacity \in Nat
    BY Constants
  <2> QED
    BY <1>1, <1>7, <2>2, <2>3 DEF MapInv, GiveWork
<1> QED
  BY <1>5, <1>6, <1>8, <1>9 DEF ThreadInv

LEMMA SetKeepsThreads ==
  ASSUME OneGiver, TypeOK, ThreadInv, NEW t \in Threads, SetLeading(t) \/ LeadingSet(t)
  PROVE  ThreadInv'
<1>0. Connecting \in Threads
  BY Constants
<1>1. thread \in [Threads -> CallStates]
      /\ UNCHANGED <<connected, given, work, worksMap, maxJobs>>
  BY DEF TypeOK, SetLeading, LeadingSet
<1>a. thread[t].pc \in {"leading", "leadSent", "work"}
  BY DEF SetLeading, LeadingSet
<1>b. connected
  BY <1>a DEF ThreadInv, ConnectInv, Stopping, Asking, Giver, Waits
<1>2. t = Connecting /\ connected /\ InHand
  BY <1>a, <1>b DEF ThreadInv, CallInv, InHand, Giver
<1>3. /\ maxJobs > 0 /\ given \in Jobs /\ Giver.job = given
      /\ work[given].lz = work[given].asked
  BY <1>2 DEF ThreadInv, HandInv, SetLeading, LeadingSet, Giver
<1>4. /\ \A s \in Threads \ {t} : thread'[s] = thread[s]
      /\ thread'[t].job = thread[t].job
      /\ \/ thread'[t].pc = "work"
         \/ /\ thread'[t].pc = "lock" /\ thread'[t].ret = "leadSent"
            /\ thread'[t].cmd = Command("LEADING0", IdOf(given), work[given].asked)
  <2>1. CASE SetLeading(t)
    <3>1. thread[t].job = given
      BY <1>2, <1>3 DEF Giver
    <3>2. CASE leading0 # work[given].lz
      <4>1. Send(t, Command("LEADING0", IdOf(given), work[given].lz), "leadSent")
        BY <2>1, <3>1, <3>2 DEF SetLeading
      <4> QED
        BY <1>1, <1>3, <4>1, SendIs
    <3>3. CASE ~(leading0 # work[given].lz)
      <4>1. Goto(t, "work")
        BY <2>1, <3>1, <3>3 DEF SetLeading
      <4> QED
        BY <1>1, <4>1, GotoIs
    <3> QED
      BY <3>2, <3>3
  <2>2. CASE LeadingSet(t)
    BY <1>1, <2>2, GotoIs DEF LeadingSet
  <2> QED
    BY <2>1, <2>2
<1>5. ConnectInv'
  BY <1>1, <1>2 DEF ConnectInv
<1>6. CallInv'
  BY <1>1, <1>2, <1>4 DEF ThreadInv, CallInv, IdOf, Waits
<1>7. HandInv'
  BY <1>1, <1>2, <1>3, <1>4 DEF HandInv, Giver
<1>8. MapInv'
  BY <1>1 DEF ThreadInv, MapInv, Mapped
<1> QED
  BY <1>5, <1>6, <1>7, <1>8 DEF ThreadInv

LEMMA DoKeepsThreads ==
  ASSUME OneGiver, TypeOK, ThreadInv, NEW t \in Threads, DoWork(t)
  PROVE  ThreadInv'
<1>0. Connecting \in Threads
  BY Constants
<1>1. thread \in [Threads -> CallStates] /\ work \in [Jobs -> Works]
      /\ UNCHANGED <<connected, given, worksMap, maxJobs>>
  BY DEF TypeOK, DoWork
<1>a. thread[t].pc \in {"leading", "leadSent", "work"}
  BY DEF DoWork
<1>b. connected
  BY <1>a DEF ThreadInv, ConnectInv, Stopping, Asking, Giver, Waits
<1>2. t = Connecting /\ connected /\ InHand
  BY <1>a, <1>b DEF ThreadInv, CallInv, InHand, Giver
<1>3. maxJobs > 0 /\ given \in Jobs /\ Giver.job = given
  BY <1>2 DEF ThreadInv, HandInv
<1>4. /\ \A s \in Threads \ {t} : thread'[s] = thread[s]
      /\ thread'[t].job = given
      /\ thread'[t].pc = "lock" /\ thread'[t].ret = "idle"
      /\ thread'[t].cmd = Command("DO_WORK", IdOf(given), given)
  <2>1. Send(t, Command("DO_WORK", IdOf(given), given), "idle")
    BY <1>2, <1>3 DEF DoWork, Giver
  <2> QED
    BY <1>1, <1>2, <1>3, <2>1, SendIs DEF Giver
<1>5. IdOf(given)' = IdOf(given)
  BY <1>1, <1>3 DEF DoWork, IdOf, Works
<1>6. ConnectInv'
  BY <1>1, <1>2 DEF ConnectInv
<1>7. CallInv'
  <2> SUFFICES ASSUME NEW s \in Threads
               PROVE  /\ thread'[s].pc \notin {"connect", "connectState", "connected"}
                      /\ thread'[s].pc \in {"leading", "leadSent", "work"} => s = Connecting
                      /\ thread'[s].pc \in Waits =>
                           \/ thread'[s].cmd.kind = "STOP" /\ thread'[s].ret = "idle"
                           \/ /\ s = Connecting /\ thread'[s].ret = "idle"
                              /\ thread'[s].cmd.kind = "DO_WORK"
                              /\ thread'[s].cmd = Command("DO_WORK", IdOf(given)', given')
    BY <1>1, <1>2 DEF CallInv
  <2>1. CASE s = t
    BY <1>1, <1>2, <1>4, <1>5, <2>1 DEF Waits, Command
  <2>2. CASE s # t
    BY <1>2, <1>4, <2>2 DEF ThreadInv, CallInv, Waits
  <2> QED
    BY <2>1, <2>2
<1>8. HandInv'
  BY <1>1, <1>2, <1>3, <1>4 DEF HandInv, Giver, Command
<1>9. MapInv'
  BY <1>1 DEF ThreadInv, MapInv, Mapped
<1> QED
  BY <1>6, <1>7, <1>8, <1>9 DEF ThreadInv

LEMMA DropKeepsThreads ==
  ASSUME OneGiver, TypeOK, ThreadInv, NEW t \in Threads, DropWork(t)
  PROVE  ThreadInv'
<1>0. Connecting \in Threads
  BY Constants
<1>1. thread \in [Threads -> CallStates] /\ connected /\ thread[t].pc = "idle"
      /\ UNCHANGED <<connected, given, work, worksMap, maxJobs>>
  BY DEF TypeOK, DropWork
<1>2. /\ \A s \in Threads \ {t} : thread'[s] = thread[s]
      /\ thread'[t].pc = "lock" /\ thread'[t].ret = "idle"
      /\ thread'[t].cmd.kind = "STOP"
  BY <1>1, SendIs DEF DropWork, Command
<1>3. ConnectInv'
  BY <1>1 DEF ConnectInv
<1>4. CallInv'
  BY <1>1, <1>2 DEF ThreadInv, CallInv, IdOf, Waits
<1>5. InHand' => InHand /\ Giver' = Giver
  <2>1. CASE t = Connecting
    BY <1>2, <2>1 DEF InHand, Giver
  <2>2. CASE t # Connecting
    BY <1>0, <1>2, <2>2 DEF InHand, Giver
  <2> QED
    BY <2>1, <2>2
<1>6. HandInv'
  BY <1>1, <1>5 DEF ThreadInv, HandInv
<1>7. MapInv'
  BY <1>1 DEF ThreadInv, MapInv, Mapped
<1> QED
  BY <1>3, <1>4, <1>6, <1>7 DEF ThreadInv

LEMMA SameKeepsThreads ==
  ASSUME ThreadInv, UNCHANGED <<connected, thread, given, work, worksMap, maxJobs>>
  PROVE  ThreadInv'
<1>1. ConnectInv' /\ CallInv'
  BY DEF ThreadInv, ConnectInv, CallInv, Giver, Stopping, Asking, IdOf
<1>2. HandInv' /\ MapInv'
  BY DEF ThreadInv, HandInv, MapInv, InHand, Giver, Mapped
<1> QED
  BY <1>1, <1>2 DEF ThreadInv

\* A work keeps its id and what it asks for while an answer or a win is noted in it.
WorksStay ==
    \A j \in Jobs : work'[j].id = work[j].id /\ work'[j].asked = work[j].asked

LEMMA NoteKeepsThreads ==
  ASSUME OneGiver, TypeOK, ThreadInv, WorksStay,
         UNCHANGED <<connected, thread, given, maxJobs>>,
         \A j \in Jobs : work'[j].lz = work[j].lz,
         \A i \in Ids : worksMap'[i] \in {worksMap[i], None}
  PROVE  ThreadInv'
<1>1. ConnectInv'
  BY DEF ThreadInv, ConnectInv, Giver, Stopping, Asking
<1>2. HandInv'
  BY DEF ThreadInv, HandInv, InHand, Giver, WorksStay
<1>3. CallInv'
  <2> SUFFICES ASSUME connected, NEW t \in Threads
               PROVE  /\ thread[t].pc \notin {"connect", "connectState", "connected"}
                      /\ thread[t].pc \in {"leading", "leadSent", "work"} => t = Connecting
                      /\ thread[t].pc \in Waits =>
                           \/ thread[t].cmd.kind = "STOP" /\ thread[t].ret = "idle"
                           \/ /\ t = Connecting /\ thread[t].ret = "leadSent"
                              /\ thread[t].cmd = Command("LEADING0", IdOf(given)', work'[given].asked)
                           \/ /\ t = Connecting /\ thread[t].ret = "idle"
                              /\ thread[t].cmd.kind = "DO_WORK"
                              /\ thread[t].pc \in {"lock", "write"} =>
                                   thread[t].cmd = Command("DO_WORK", IdOf(given)', given)
    BY DEF CallInv
  <2>1. given \in Jobs => IdOf(given)' = IdOf(given) /\ work'[given].asked = work[given].asked
    BY DEF WorksStay, IdOf
  <2>2. thread[t].pc \in Waits /\ t = Connecting /\ thread[t].cmd.kind = "LEADING0" => given \in Jobs
    BY DEF ThreadInv, HandInv, InHand, Giver
  <2>3. thread[t].pc \in {"lock", "write"} /\ t = Connecting /\ thread[t].cmd.kind = "DO_WORK" => given \in Jobs
    BY DEF ThreadInv, HandInv, InHand, Giver
  <2>4. thread[t].cmd = Command("LEADING0", IdOf(given), work[given].asked) => thread[t].cmd.kind = "LEADING0"
    BY DEF Command
  <2> QED
    BY <2>1, <2>2, <2>3, <2>4 DEF ThreadInv, CallInv
<1>4. MapInv'
  <2>1. Mapped' \subseteq Mapped
    BY DEF Mapped
  <2>2. IsFiniteSet(Mapped) /\ Cardinality(Mapped) <= Capacity /\ Cardinality(Mapped) \in Nat
    BY FS_CardinalityType DEF ThreadInv, MapInv
  <2>3. IsFiniteSet(Mapped') /\ Cardinality(Mapped') <= Cardinality(Mapped)
        /\ Cardinality(Mapped') \in Nat
    BY <2>1, <2>2, FS_Subset, FS_CardinalityType
  <2>4. Cardinality(Mapped') <= Capacity
    BY <2>2, <2>3, Constants
  <2>5. ~connected \/ maxJobs = 0 => \A i \in Ids : worksMap'[i] = None
    BY DEF ThreadInv, MapInv
  <2> QED
    BY <2>3, <2>4, <2>5 DEF ThreadInv, MapInv
<1> QED
  BY <1>1, <1>2, <1>3, <1>4 DEF ThreadInv

LEMMA NotesAre ==
  ASSUME TypeOK, LineInv, HwWonWork \/ HwFinishedWork \/ BoardWins
  PROVE  /\ WorksStay
         /\ \A j \in Jobs : work'[j].lz = work[j].lz /\ work'[j].state \in {work[j].state, "finished"}
         /\ \A i \in Ids : worksMap'[i] \in {worksMap[i], None}
         /\ UNCHANGED <<connected, thread, pm, lastReq, lastResp, cmdIndex, leading0,
                        maxJobs, nextId, given, aborted, toBoard, lead, used>>
<1>0. work \in [Jobs -> Works] /\ worksMap \in [Ids -> Jobs \cup {None}]
  BY DEF TypeOK
<1>1. CASE HwWonWork
  BY <1>0, <1>1 DEF HwWonWork, WorksStay, Works
<1>2. CASE HwFinishedWork
  BY <1>0, <1>2 DEF HwFinishedWork, WorksStay, Works
<1>3. CASE BoardWins
  BY <1>0, <1>3 DEF BoardWins, WorksStay, Works
<1> QED
  BY <1>1, <1>2, <1>3

LEMMA AnswerIs ==
  ASSUME OneGiver, TypeOK, ReadAnswer
  PROVE  /\ \A t \in Threads :
              /\ thread'[t].cmd = thread[t].cmd /\ thread'[t].ret = thread[t].ret
              /\ thread'[t].job = thread[t].job /\ thread'[t].running = thread[t].running
              /\ thread'[t].pc = IF line.kind = "OK" /\ thread[t].pc = "waiting" THEN "woken"
                                 ELSE thread[t].pc
         /\ \/ line.kind = "OK" /\ lastReq' = line.index /\ lastResp' = line.state /\ aborted' = aborted
            \/ /\ line.kind = "NO_SPACE" /\ aborted' = "no space"
               /\ lastReq' = lastReq /\ lastResp' = lastResp
         /\ toHost # <<>> /\ toHost' = Tail(toHost)
         /\ UNCHANGED <<connected, pm, cmdIndex, leading0, maxJobs, worksMap, work,
                        nextId, given, toBoard, queue, lead, used>>
<1>1. thread \in [Threads -> CallStates]
  BY DEF TypeOK
<1>2. line.kind \in {"OK", "NO_SPACE"} /\ toHost # <<>> /\ toHost' = Tail(toHost)
  BY DEF ReadAnswer, Reads
<1>3. CASE line.kind = "OK"
  <2>1. \A t \in Threads : thread'[t] = IF thread[t].pc = "waiting"
                                        THEN [thread[t] EXCEPT !.pc = "woken"] ELSE thread[t]
    BY <1>3 DEF ReadAnswer
  <2>2. \A t \in Threads : [thread[t] EXCEPT !.pc = "woken"].pc = "woken"
                           /\ [thread[t] EXCEPT !.pc = "woken"].cmd = thread[t].cmd
                           /\ [thread[t] EXCEPT !.pc = "woken"].ret = thread[t].ret
                           /\ [thread[t] EXCEPT !.pc = "woken"].job = thread[t].job
                           /\ [thread[t] EXCEPT !.pc = "woken"].running = thread[t].running
    BY <1>1 DEF CallStates
  <2> QED
    BY <1>2, <1>3, <2>1, <2>2, Zenon DEF ReadAnswer
<1>4. CASE line.kind = "NO_SPACE"
  BY <1>2, <1>4 DEF ReadAnswer
<1> QED
  BY <1>2, <1>3, <1>4

LEMMA PollKeepsThreads ==
  ASSUME OneGiver, TypeOK, ThreadInv, LineInv, ReadAnswer \/ HwWonWork \/ HwFinishedWork
  PROVE  ThreadInv'
<1>0. Connecting \in Threads
  BY Constants
<1>1. CASE HwWonWork \/ HwFinishedWork
  BY <1>1, NotesAre, NoteKeepsThreads
<1>2. CASE ReadAnswer
  <2>1. /\ \A t \in Threads :
              /\ thread'[t].cmd = thread[t].cmd /\ thread'[t].ret = thread[t].ret
              /\ thread'[t].job = thread[t].job
              /\ thread'[t].pc = thread[t].pc \/ (thread[t].pc = "waiting" /\ thread'[t].pc = "woken")
        /\ UNCHANGED <<connected, given, work, worksMap, maxJobs>>
    BY <1>2, AnswerIs
  <2>2. /\ Giver'.cmd = Giver.cmd /\ Giver'.ret = Giver.ret /\ Giver'.job = Giver.job
        /\ Giver'.pc = Giver.pc \/ (Giver.pc = "waiting" /\ Giver'.pc = "woken")
    BY <1>0, <2>1 DEF Giver
  <2>3. ConnectInv'
    BY <1>0, <2>1, <2>2 DEF ThreadInv, ConnectInv, Stopping, Asking, Waits
  <2>4. CallInv'
    BY <2>1 DEF ThreadInv, CallInv, IdOf, Waits
  <2>5. InHand' => InHand
    BY <2>2 DEF InHand, Waits
  <2>6. HandInv'
    BY <2>1, <2>2, <2>5 DEF ThreadInv, HandInv
  <2>7. MapInv'
    BY <2>1 DEF ThreadInv, MapInv, Mapped
  <2> QED
    BY <2>3, <2>4, <2>6, <2>7 DEF ThreadInv
<1> QED
  BY <1>1, <1>2

LEMMA BoardKeepsThreads ==
  ASSUME OneGiver, TypeOK, ThreadInv, LineInv, BoardTakesCommand \/ BoardFinishes \/ BoardWins
  PROVE  ThreadInv'
<1>1. CASE BoardTakesCommand \/ BoardFinishes
  <2>1. UNCHANGED <<connected, thread, given, work, worksMap, maxJobs>>
    BY <1>1 DEF BoardTakesCommand, BoardFinishes, process
  <2> QED
    BY <2>1, SameKeepsThreads
<1>2. CASE BoardWins
  BY <1>2, NotesAre, NoteKeepsThreads
<1> QED
  BY <1>1, <1>2

LEMMA RestartKeepsThreads ==
  ASSUME OneGiver, TypeOK, Restart
  PROVE  ThreadInv'
<1>1. thread' = Started /\ connected' = FALSE /\ maxJobs' = 0
      /\ worksMap' = [i \in Ids |-> None]
  BY DEF Restart
<1>2. Giver'.pc = "connect" /\ \A t \in Threads \ {Connecting} : thread'[t].pc = "idle"
  BY <1>1, StartedIs DEF Giver
<1>3. ConnectInv' /\ CallInv'
  BY <1>1, <1>2 DEF ConnectInv, CallInv
<1>4. HandInv'
  BY <1>2 DEF HandInv, InHand, Waits
<1>5. MapInv'
  <2>1. Mapped' = {} /\ Capacity \in Nat
    BY <1>1, Constants DEF Mapped
  <2> QED
    BY <1>1, <2>1, FS_EmptySet DEF MapInv
<1> QED
  BY <1>3, <1>4, <1>5 DEF ThreadInv

-------------------------------------------------------------------------------
(***************************************************************************)
(* The line, and the works on it                                           *)
(***************************************************************************)
\* A step of a thread within its call: it begins no work.
Goes(t) == LockPm(t) \/ WriteCommand(t) \/ Wait(t) \/ Timeout(t) \/ SpuriousWakeup(t) \/ Mismatch(t)
           \/ Answered(t) \/ ConnectStop(t) \/ ConnectState(t) \/ Connected(t)
           \/ SetLeading(t) \/ LeadingSet(t) \/ DoWork(t) \/ DropWork(t)

LEMMA GoesIs ==
  ASSUME OneGiver, TypeOK, ThreadInv, NEW t \in Threads, Goes(t)
  PROVE  /\ \A s \in Threads \ {t} : thread'[s] = thread[s]
         /\ InHand' => InHand
         /\ WorksStay
         /\ \A j \in Jobs : work'[j].state = work[j].state
         /\ UNCHANGED <<given, worksMap, nextId, toHost, queue, lead>>
         /\ ~WriteCommand(t) => toBoard' = toBoard
<1>0. Connecting \in Threads
  BY Constants
<1>1. thread \in [Threads -> CallStates] /\ work \in [Jobs -> Works]
  BY DEF TypeOK
<1>2. CASE LockPm(t) \/ WriteCommand(t) \/ Wait(t) \/ SpuriousWakeup(t)
  <2>1. PICK l \in {"write", "arm", "waiting", "woken"} :
           Goto(t, l) /\ thread[t].pc \in Waits /\ (l = "write" => thread[t].pc = "lock")
    BY <1>2 DEF LockPm, WriteCommand, Wait, SpuriousWakeup, Waits
  <2>2. /\ \A s \in Threads \ {t} : thread'[s] = thread[s]
        /\ thread'[t].pc = l /\ thread'[t].cmd = thread[t].cmd
    BY <1>1, <2>1, GotoIs
  <2>3. InHand' => InHand
    <3>1. CASE t = Connecting
      BY <2>1, <2>2, <3>1 DEF InHand, Giver, Waits
    <3>2. CASE t # Connecting
      BY <1>0, <2>2, <3>2 DEF InHand, Giver
    <3> QED
      BY <3>1, <3>2
  <2> QED
    BY <1>2, <2>2, <2>3 DEF LockPm, WriteCommand, Wait, SpuriousWakeup, WorksStay, board
<1>3. CASE Timeout(t) \/ Mismatch(t)
  BY <1>3 DEF Timeout, Mismatch, WorksStay, InHand, Giver, board
<1>4. CASE Answered(t)
  <2>1. /\ \A s \in Threads \ {t} : thread'[s] = thread[s]
        /\ thread'[t].pc = thread[t].ret /\ thread'[t].cmd = thread[t].cmd
    <3>1. CASE thread[t].cmd.kind = "CHIPSTATE"
      BY <1>1, <1>4, <3>1 DEF Answered, CallStates
    <3>2. CASE thread[t].cmd.kind # "CHIPSTATE"
      BY <1>1, <1>4, <3>2, GotoIs DEF Answered
    <3> QED
      BY <3>1, <3>2
  <2>2. thread[t].pc = "woken"
    BY <1>4 DEF Answered
  <2>3. InHand' => InHand
    <3>1. CASE t # Connecting
      BY <1>0, <2>1, <3>1 DEF InHand, Giver
    <3>2. CASE t = Connecting /\ connected
      BY <2>1, <2>2, <3>2 DEF ThreadInv, CallInv, InHand, Giver, Waits, Command
    <3>3. CASE t = Connecting /\ ~connected
      BY <2>1, <2>2, <3>3 DEF ThreadInv, ConnectInv, Stopping, Asking, InHand, Giver, Waits, Command
    <3> QED
      BY <1>0, <3>1, <3>2, <3>3 DEF TypeOK
  <2> QED
    BY <1>4, <2>1, <2>3 DEF Answered, WorksStay, board
<1>5. CASE ConnectStop(t) \/ ConnectState(t)
  <2>1. PICK cmd, ret : Send(t, cmd, ret) /\ cmd.kind \in {"STOP", "CHIPSTATE"}
    BY <1>5 DEF ConnectStop, ConnectState, Command
  <2>2. (\A s \in Threads \ {t} : thread'[s] = thread[s]) /\ thread'[t].pc = "lock" /\ thread'[t].cmd = cmd
    BY <1>1, <2>1, SendIs
  <2>3. InHand' => InHand
    <3>1. CASE t # Connecting
      BY <1>0, <2>2, <3>1 DEF InHand, Giver
    <3>2. CASE t = Connecting
      BY <2>1, <2>2, <3>2 DEF InHand, Giver
    <3> QED
      BY <3>1, <3>2
  <2> QED
    BY <1>5, <2>2, <2>3 DEF ConnectStop, ConnectState, WorksStay, board
<1>6. CASE Connected(t)
  <2>1. PICK l \in {"idle", "connectState"} : Goto(t, l)
    BY <1>6 DEF Connected
  <2>2. (\A s \in Threads \ {t} : thread'[s] = thread[s]) /\ thread'[t].pc = l
    BY <1>1, <2>1, GotoIs
  <2>3. InHand' => InHand
    <3>1. CASE t # Connecting
      BY <1>0, <2>2, <3>1 DEF InHand, Giver
    <3>2. CASE t = Connecting
      BY <2>1, <2>2, <3>2 DEF InHand, Giver, Waits
    <3> QED
      BY <3>1, <3>2
  <2> QED
    BY <1>6, <2>2, <2>3 DEF Connected, WorksStay, board
<1>7. CASE SetLeading(t) \/ LeadingSet(t) \/ DoWork(t)
  <2>1. InHand
    <3>1. thread[t].pc \in {"leading", "leadSent", "work"}
      BY <1>7 DEF SetLeading, LeadingSet, DoWork
    <3>2. connected
      BY <3>1 DEF ThreadInv, ConnectInv, Stopping, Asking, Giver, Waits
    <3> QED
      BY <3>1, <3>2 DEF ThreadInv, CallInv, InHand, Giver
  <2>2. \A s \in Threads \ {t} : thread'[s] = thread[s]
    BY <1>1, <1>7 DEF SetLeading, LeadingSet, DoWork, Send, Goto
  <2>4. \A j \in Jobs : work'[j].id = work[j].id /\ work'[j].asked = work[j].asked
                        /\ work'[j].state = work[j].state
    BY <1>1, <1>7 DEF SetLeading, LeadingSet, DoWork, Works
  <2> QED
    BY <1>7, <2>1, <2>2, <2>4 DEF SetLeading, LeadingSet, DoWork, WorksStay, board
<1>8. CASE DropWork(t)
  <2>1. (\A s \in Threads \ {t} : thread'[s] = thread[s]) /\ thread'[t].cmd.kind = "STOP" /\ thread'[t].pc = "lock"
    BY <1>1, <1>8, SendIs DEF DropWork, Command
  <2>2. InHand' => InHand
    <3>1. CASE t # Connecting
      BY <1>0, <2>1, <3>1 DEF InHand, Giver
    <3>2. CASE t = Connecting
      BY <2>1, <3>2 DEF InHand, Giver
    <3> QED
      BY <3>1, <3>2
  <2> QED
    BY <1>8, <2>1, <2>2 DEF DropWork, WorksStay, board
<1> QED
  BY <1>2, <1>3, <1>4, <1>5, <1>6, <1>7, <1>8 DEF Goes

LEMMA GivenAreJobs ==
  ASSUME TypeOK
  PROVE  given \in Nat /\ 1..given \subseteq Jobs
<1>1. given \in 0..MaxWorks /\ MaxWorks \in Nat
  BY BoundsAssumption DEF TypeOK
<1> QED
  BY <1>1 DEF Jobs

LEMMA IdsStay ==
  ASSUME TypeOK, WorksStay
  PROVE  \A j \in 1..given : IdOf(j)' = IdOf(j)
BY GivenAreJobs DEF WorksStay, IdOf

LEMMA QuietKeepsLine ==
  ASSUME TypeOK, LineInv, OrderInv, WorksStay,
         UNCHANGED <<toBoard, toHost, queue, given>>, InHand' => InHand
  PROVE  LineInv' /\ OrderInv'
<1>1. \A j \in 1..given : IdOf(j)' = IdOf(j)
  BY IdsStay
<1>2. LineInv'
  BY <1>1 DEF LineInv, ResultAt, WorkAt
<1>3. OrderInv'
  BY DEF OrderInv, ResultAt, WorkAt, Passes
<1> QED
  BY <1>2, <1>3

LEMMA WriteKeepsLine ==
  ASSUME OneGiver, TypeOK, ThreadInv, LineInv, OrderInv, NEW t \in Threads, WriteCommand(t)
  PROVE  LineInv' /\ OrderInv'
<1> DEFINE n == Len(toBoard)
<1>1. /\ Len(toBoard') = n + 1 /\ n \in Nat
      /\ \A p \in 1..n : toBoard'[p] = toBoard[p]
      /\ toBoard'[n + 1] = thread[t].cmd
  BY WrittenIs
<1>2. /\ InHand' => InHand /\ WorksStay
      /\ UNCHANGED <<given, toHost, queue>>
  BY GoesIs DEF Goes
<1>3. \A j \in 1..given : IdOf(j)' = IdOf(j)
  BY IdsStay, GoesIs DEF Goes
<1>4. thread[t].cmd.kind = "DO_WORK" =>
        t = Connecting /\ InHand /\ thread[t].cmd.arg = given /\ thread[t].cmd.index = IdOf(given)
        /\ given \in 1..given /\ ~InHand'
  <2> SUFFICES ASSUME thread[t].cmd.kind = "DO_WORK"
               PROVE  t = Connecting /\ InHand /\ thread[t].cmd.arg = given
                      /\ thread[t].cmd.index = IdOf(given) /\ given \in 1..given /\ ~InHand'
    OBVIOUS
  <2>1. thread[t].pc = "write"
    BY DEF WriteCommand
  <2>2. connected
    BY <2>1 DEF ThreadInv, ConnectInv, Stopping, Asking, Giver, Command
  <2>3. t = Connecting /\ thread[t].cmd = Command("DO_WORK", IdOf(given), given)
    BY <2>1, <2>2 DEF ThreadInv, CallInv, Waits, Command
  <2>4. InHand
    BY <2>1, <2>3 DEF InHand, Giver
  <2>5. given \in 1..given
    BY <2>4, GivenAreJobs DEF ThreadInv, HandInv, Jobs
  <2>6. thread'[t].pc = "arm" /\ thread'[t].cmd = thread[t].cmd
    BY GotoIs DEF WriteCommand, TypeOK
  <2>7. ~InHand'
    BY <2>3, <2>6 DEF InHand, Giver, Waits
  <2> QED
    BY <2>3, <2>4, <2>5, <2>7 DEF Command
<1> HIDE DEF n
<1>5. \A p \in 1..(n + 1) : p \in 1..n \/ p = n + 1
  BY <1>1
<1>a. \A p \in 1..n : p < n + 1 /\ ~(n + 1 < p)
  BY <1>1
<1>b. ~(n + 1 < n + 1)
  BY <1>1
<1>6. LineInv'
  <2>1. \A p \in 1..Len(toBoard') : WorkAt(p)' =>
          toBoard'[p].arg \in 1..given /\ toBoard'[p].index = IdOf(toBoard'[p].arg)
    BY <1>1, <1>4, <1>5 DEF LineInv, WorkAt, n
  <2> QED
    BY <1>2, <1>3, <2>1 DEF LineInv, ResultAt, WorkAt
<1>7. OrderInv'
  <2>1. \A k \in 1..Len(toHost'), p \in 1..Len(toBoard') :
          ResultAt(k)' /\ WorkAt(p)' => toHost'[k].job < toBoard'[p].arg
    BY <1>1, <1>2, <1>4, <1>5, SMT DEF OrderInv, ResultAt, WorkAt, n
  <2>2. \A k \in 1..Len(queue'), p \in 1..Len(toBoard') :
          WorkAt(p)' => queue'[k].job < toBoard'[p].arg
    BY <1>1, <1>2, <1>4, <1>5 DEF OrderInv, WorkAt, n
  <2>3. \A p, q \in 1..Len(toBoard') :
          p < q /\ WorkAt(p)' /\ WorkAt(q)' => toBoard'[p].arg < toBoard'[q].arg
    BY <1>1, <1>4, <1>5, <1>a, <1>b DEF OrderInv, WorkAt, n
  <2>4. InHand' =>
          /\ \A k \in 1..Len(toHost') : ResultAt(k)' => toHost'[k].job < given'
          /\ \A k \in 1..Len(queue') : queue'[k].job < given'
          /\ \A p \in 1..Len(toBoard') : WorkAt(p)' => toBoard'[p].arg < given'
    BY <1>1, <1>2, <1>4, <1>5 DEF OrderInv, ResultAt, WorkAt, n
  <2>5. /\ \A k, m \in 1..Len(toHost') :
              k < m /\ ResultAt(k)' /\ ResultAt(m)' => Passes(k, toHost[m].job)'
        /\ \A k \in 1..Len(toHost'), m \in 1..Len(queue') : ResultAt(k)' => Passes(k, queue[m].job)'
        /\ \A k, m \in 1..Len(queue') : k < m => queue'[k].job < queue'[m].job
    BY <1>2 DEF OrderInv, ResultAt, Passes
  <2> QED
    BY <2>1, <2>2, <2>3, <2>4, <2>5 DEF OrderInv
<1> QED
  BY <1>6, <1>7

LEMMA GiveKeepsLine ==
  ASSUME OneGiver, TypeOK, LineInv, OrderInv, NEW t \in Threads, GiveWork(t)
  PROVE  LineInv' /\ OrderInv'
<1>1. given \in Nat /\ given < MaxWorks /\ given' = given + 1 /\ nextId \in Ids /\ 1..given \subseteq Jobs
      /\ work \in [Jobs -> Works] /\ UNCHANGED <<toBoard, toHost, queue>>
  BY GivenAreJobs DEF TypeOK, GiveWork, board
<1>2. given + 1 \in Jobs /\ \A j \in 1..given : j # given + 1
  BY <1>1, BoundsAssumption DEF Jobs
<1>3. (\A j \in 1..given : IdOf(j)' = IdOf(j)) /\ work'[given + 1].id = nextId
  <2>1. PICK lz \in Leads :
           work' = [work EXCEPT ![given + 1] =
                     [Unsent EXCEPT !.state = "given", !.id = nextId, !.asked = lz, !.lz = lz]]
    BY DEF GiveWork
  <2>2. \A j \in 1..given : work'[j] = work[j]
    BY <1>1, <1>2, <2>1
  <2>3. work'[given + 1].id = nextId
    BY <1>1, <1>2, <2>1 DEF Unsent
  <2> QED
    BY <2>2, <2>3 DEF IdOf
<1>4. \A j \in 1..(given + 1) : j \in 1..given \/ j = given + 1
  BY <1>1
<1>5. \A j \in 1..given : j \in 1..(given + 1) /\ j < given + 1
  BY <1>1
<1>6. LineInv'
  <2>1. \A j \in 1..given' : IdOf(j)' \in Ids
    <3>1. \A j \in 1..(given + 1) : work'[j].id \in Ids
      BY <1>1, <1>3, <1>4 DEF LineInv, IdOf
    <3> QED
      BY <1>1, <3>1 DEF IdOf
  <2>2. \A k \in 1..Len(toHost') : ResultAt(k)' =>
          toHost'[k].job \in 1..given' /\ toHost'[k].index = IdOf(toHost[k].job)'
    BY <1>1, <1>3, <1>5 DEF LineInv, ResultAt
  <2>3. \A k \in 1..Len(queue') : queue'[k].job \in 1..given' /\ queue'[k].id = IdOf(queue[k].job)'
    BY <1>1, <1>3, <1>5 DEF LineInv
  <2>4. \A p \in 1..Len(toBoard') : WorkAt(p)' =>
          toBoard'[p].arg \in 1..given' /\ toBoard'[p].index = IdOf(toBoard[p].arg)'
    BY <1>1, <1>3, <1>5 DEF LineInv, WorkAt
  <2> QED
    BY <2>1, <2>2, <2>3, <2>4 DEF LineInv
<1>7. OrderInv'
  <2>1. /\ \A k \in 1..Len(toHost) : ResultAt(k) => toHost[k].job < given'
        /\ \A k \in 1..Len(queue) : queue[k].job < given'
        /\ \A p \in 1..Len(toBoard) : WorkAt(p) => toBoard[p].arg < given'
    BY <1>1, <1>5 DEF LineInv
  <2> QED
    BY <1>1, <2>1 DEF OrderInv, ResultAt, WorkAt, Passes
<1> QED
  BY <1>6, <1>7

LEMMA PollKeepsLine ==
  ASSUME OneGiver, TypeOK, LineInv, OrderInv, WorksStay, toHost # <<>>, toHost' = Tail(toHost),
         UNCHANGED <<toBoard, queue, given>>, InHand' => InHand
  PROVE  LineInv' /\ OrderInv'
<1> DEFINE n == Len(toHost)
<1>1. n \in Nat /\ n >= 1 /\ Len(toHost') = n - 1 /\ \A k \in 1..(n - 1) : toHost'[k] = toHost[k + 1]
  BY TailIs DEF TypeOK
<1>2. \A j \in 1..given : IdOf(j)' = IdOf(j)
  BY IdsStay
<1>3. \A k \in 1..Len(toHost') : toHost'[k] = toHost[k + 1] /\ k + 1 \in 1..Len(toHost)
  BY <1>1
<1>4. \A k, m \in 1..Len(toHost') : k < m => k + 1 < m + 1
  BY <1>1
<1> HIDE DEF n
<1>5. LineInv'
  BY <1>2, <1>3 DEF LineInv, ResultAt, WorkAt
<1>7. OrderInv'
  <2>1. \A k, m \in 1..Len(toHost') :
          k < m /\ ResultAt(k)' /\ ResultAt(m)' => Passes(k, toHost[m].job)'
    BY <1>3, <1>4 DEF OrderInv, ResultAt, Passes
  <2>2. \A k \in 1..Len(toHost'), m \in 1..Len(queue') : ResultAt(k)' => Passes(k, queue[m].job)'
    BY <1>3 DEF OrderInv, ResultAt, Passes
  <2>3. \A k \in 1..Len(toHost'), p \in 1..Len(toBoard') :
          ResultAt(k)' /\ WorkAt(p)' => toHost'[k].job < toBoard'[p].arg
    BY <1>3 DEF OrderInv, ResultAt, WorkAt
  <2>4. InHand' => \A k \in 1..Len(toHost') : ResultAt(k)' => toHost'[k].job < given'
    BY <1>3 DEF OrderInv, ResultAt
  <2> QED
    BY <2>1, <2>2, <2>3, <2>4 DEF OrderInv, WorkAt
<1> QED
  BY <1>5, <1>7

\* What BoardTakesCommand leaves, place by place.
LEMMA TakenIs ==
  ASSUME OneGiver, TypeOK, BoardTakesCommand
  PROVE  /\ Len(toBoard) \in Nat /\ 1 \in 1..Len(toBoard) /\ toBoard[1] = Head(toBoard)
         /\ Len(toBoard') = Len(toBoard) - 1
         /\ \A p \in 1..Len(toBoard') : p + 1 \in 1..Len(toBoard) /\ toBoard'[p] = toBoard[p + 1]
         /\ Len(toHost) \in Nat /\ Len(toHost') = Len(toHost) + 1
         /\ \A k \in 1..Len(toHost) : k \in 1..Len(toHost') /\ toHost'[k] = toHost[k]
         /\ \A k \in 1..Len(toHost') : k \in 1..Len(toHost) \/ k = Len(toHost) + 1
         /\ toHost'[Len(toHost) + 1].kind \in {"OK", "NO_SPACE"}
         /\ Len(queue) \in Nat
         /\ \A m \in 1..Len(queue') :
              \/ m \in 1..Len(queue) /\ queue'[m] = queue[m]
              \/ /\ m = Len(queue) + 1 /\ WorkAt(1) /\ queue'[m].lead = lead
                 /\ queue'[m].job = toBoard[1].arg /\ queue'[m].id = toBoard[1].index
<1>1. toBoard \in Seq(Commands) /\ toBoard # <<>> /\ toBoard' = Tail(toBoard)
  BY TakesIs DEF TypeOK
<1>2. /\ Len(toBoard) \in Nat /\ Len(toBoard) >= 1 /\ toBoard[1] = Head(toBoard)
      /\ Len(toBoard') = Len(toBoard) - 1
      /\ \A p \in 1..(Len(toBoard) - 1) : toBoard'[p] = toBoard[p + 1]
  BY <1>1, TailIs
<1>3. \A p \in 1..Len(toBoard') : p + 1 \in 1..Len(toBoard) /\ toBoard'[p] = toBoard[p + 1]
  BY <1>2
<1>4. PICK r \in Responses : toHost' = Append(toHost, r) /\ r.kind \in {"OK", "NO_SPACE"}
  BY TakesIs DEF Response
<1>5. toHost \in Seq(Responses)
  BY DEF TypeOK
<1>6. /\ Len(toHost) \in Nat /\ Len(toHost') = Len(toHost) + 1
      /\ \A k \in 1..Len(toHost) : toHost'[k] = toHost[k]
      /\ toHost'[Len(toHost) + 1] = r
  BY <1>4, <1>5, AnsweredIs
<1>7. \A k \in 1..Len(toHost') : k \in 1..Len(toHost) \/ k = Len(toHost) + 1
  BY <1>6
<1>8. \A k \in 1..Len(toHost) : k \in 1..Len(toHost')
  BY <1>6
<1>9. toHost'[Len(toHost) + 1].kind \in {"OK", "NO_SPACE"}
  BY <1>4, <1>6
<1>10. queue \in Seq(Entries) /\ Len(queue) \in Nat /\ lead \in Nat
  BY LenProperties DEF TypeOK
<1>11. \A m \in 1..Len(queue') :
          \/ m \in 1..Len(queue) /\ queue'[m] = queue[m]
          \/ /\ m = Len(queue) + 1 /\ WorkAt(1) /\ queue'[m].lead = lead
             /\ queue'[m].job = toBoard[1].arg /\ queue'[m].id = toBoard[1].index
  <2>1. CASE queue' = queue
    BY <2>1
  <2>2. CASE queue' = <<>>
    BY <2>2
  <2>3. CASE queue # <<>> /\ queue' = <<Head(queue)>>
    <3>1. Head(queue) = queue[1] /\ Len(queue) >= 1
      BY <1>10, <2>3, TailIs
    <3>2. Len(queue') = 1 /\ queue'[1] = queue[1]
      BY <2>3, <3>1
    <3> QED
      BY <1>10, <3>1, <3>2
  <2>4. CASE /\ Head(toBoard).kind = "DO_WORK"
             /\ queue' = Append(queue, [id |-> Head(toBoard).index, job |-> Head(toBoard).arg, lead |-> lead])
    <3> DEFINE e == [id |-> Head(toBoard).index, job |-> Head(toBoard).arg, lead |-> lead]
    <3>1. e.id = toBoard[1].index /\ e.job = toBoard[1].arg /\ e.lead = lead
      BY <1>2
    <3> HIDE DEF e
    <3>2. queue' = Append(queue, e)
      BY <2>4 DEF e
    <3>3. Len(queue') = Len(queue) + 1 /\ queue'[Len(queue) + 1] = e
          /\ \A m \in 1..Len(queue) : queue'[m] = queue[m]
      BY <1>10, <3>2
    <3>4. \A m \in 1..Len(queue') : m \in 1..Len(queue) \/ m = Len(queue) + 1
      BY <1>10, <3>3
    <3> QED
      BY <1>2, <2>4, <3>1, <3>3, <3>4 DEF WorkAt
  <2> QED
    BY <2>1, <2>2, <2>3, <2>4, TakesIs
<1> QED
  BY <1>2, <1>3, <1>6, <1>7, <1>8, <1>9, <1>10, <1>11

LEMMA TakeKeepsLine ==
  ASSUME OneGiver, TypeOK, LineInv, OrderInv, BoardTakesCommand
  PROVE  LineInv' /\ OrderInv'
<1>1. UNCHANGED <<thread, work, given>>
  BY DEF BoardTakesCommand, process
<1>2. \A j : IdOf(j)' = IdOf(j)
  BY <1>1 DEF IdOf
<1>3. /\ 1 \in 1..Len(toBoard)
      /\ \A p \in 1..Len(toBoard') : p + 1 \in 1..Len(toBoard) /\ toBoard'[p] = toBoard[p + 1]
                                     /\ 1 < p + 1
      /\ \A p, q \in 1..Len(toBoard') : p < q => p + 1 < q + 1
  <2>1. /\ 1 \in 1..Len(toBoard)
        /\ \A p \in 1..Len(toBoard') : p + 1 \in 1..Len(toBoard) /\ toBoard'[p] = toBoard[p + 1]
    BY TakenIs
  <2>2. PICK n : n = Len(toBoard')
    OBVIOUS
  <2>3. /\ \A p \in 1..n : 1 < p + 1
        /\ \A p, q \in 1..n : p < q => p + 1 < q + 1
    OBVIOUS
  <2> QED
    BY <2>1, <2>2, <2>3
<1>4. \A k \in 1..Len(toHost') : ResultAt(k)' => k \in 1..Len(toHost) /\ toHost'[k] = toHost[k] /\ ResultAt(k)
  BY TakenIs DEF ResultAt
<1>5. \A m \in 1..Len(queue') :
          \/ m \in 1..Len(queue) /\ queue'[m] = queue[m]
          \/ /\ m = Len(queue) + 1 /\ WorkAt(1)
             /\ queue'[m].job = toBoard[1].arg /\ queue'[m].id = toBoard[1].index
  BY TakenIs
<1>6. Len(queue) \in Nat
  BY TakenIs
<1>7. LineInv'
  <2>1. \A k \in 1..Len(toHost') : ResultAt(k)' =>
          toHost'[k].job \in 1..given /\ toHost'[k].index = IdOf(toHost'[k].job)
    BY <1>4 DEF LineInv
  <2>2. \A k \in 1..Len(queue') :
          queue'[k].job \in 1..given /\ queue'[k].id = IdOf(queue'[k].job)
    BY <1>3, <1>5 DEF LineInv
  <2>3. \A p \in 1..Len(toBoard') : WorkAt(p)' =>
          toBoard'[p].arg \in 1..given /\ toBoard'[p].index = IdOf(toBoard'[p].arg)
    BY <1>3 DEF LineInv, WorkAt
  <2> QED
    BY <1>1, <2>1, <2>2, <2>3 DEF LineInv, IdOf
<1>8. OrderInv'
  <2>0. \A k \in 1..Len(toHost), j \in Nat : ResultAt(k) /\ toHost[k].job < j => Passes(k, j)
    <3> SUFFICES ASSUME NEW k \in 1..Len(toHost), NEW j \in Nat, ResultAt(k), toHost[k].job < j
                 PROVE  Passes(k, j)
      OBVIOUS
    <3>1. toHost[k].job \in Nat
      BY DEF LineInv
    <3> QED
      BY <3>1 DEF Passes
  <2>a. \A j \in 1..given : j \in Nat
    OBVIOUS
  <2>1. \A k, m \in 1..Len(toHost') :
          k < m /\ ResultAt(k)' /\ ResultAt(m)' => Passes(k, toHost[m].job)'
    BY <1>4 DEF OrderInv, Passes
  <2>2. \A k \in 1..Len(toHost'), m \in 1..Len(queue') : ResultAt(k)' => Passes(k, queue[m].job)'
    <3> SUFFICES ASSUME NEW k \in 1..Len(toHost'), NEW m \in 1..Len(queue'), ResultAt(k)'
                 PROVE  Passes(k, queue[m].job)'
      OBVIOUS
    <3>1. k \in 1..Len(toHost) /\ ResultAt(k) /\ toHost'[k] = toHost[k]
      BY <1>4
    <3>2. Passes(k, queue'[m].job)
      <4>1. CASE m \in 1..Len(queue) /\ queue'[m] = queue[m]
        BY <3>1, <4>1 DEF OrderInv
      <4>2. CASE WorkAt(1) /\ queue'[m].job = toBoard[1].arg
        <5>1. toHost[k].job < toBoard[1].arg /\ toBoard[1].arg \in Nat
          BY <1>3, <3>1, <4>2 DEF OrderInv, LineInv
        <5> QED
          BY <2>0, <3>1, <4>2, <5>1, Zenon
      <4> QED
        BY <1>5, <4>1, <4>2
    <3> QED
      BY <3>1, <3>2 DEF Passes
  <2>3. \A k \in 1..Len(toHost'), p \in 1..Len(toBoard') :
          ResultAt(k)' /\ WorkAt(p)' => toHost'[k].job < toBoard'[p].arg
    BY <1>3, <1>4, Zenon DEF OrderInv, WorkAt
  <2>4. \A k, m \in 1..Len(queue') : k < m => queue'[k].job < queue'[m].job
    <3> SUFFICES ASSUME NEW k \in 1..Len(queue'), NEW m \in 1..Len(queue'), k < m
                 PROVE  queue'[k].job < queue'[m].job
      OBVIOUS
    <3>1. CASE k \in 1..Len(queue) /\ queue'[k] = queue[k] /\ m \in 1..Len(queue) /\ queue'[m] = queue[m]
      BY <3>1 DEF OrderInv
    <3>2. CASE k \in 1..Len(queue) /\ queue'[k] = queue[k] /\ WorkAt(1) /\ queue'[m].job = toBoard[1].arg
      BY <1>3, <3>2 DEF OrderInv
    <3>3. k # Len(queue) + 1
      BY <1>5, <1>6
    <3> QED
      BY <1>5, <3>1, <3>2, <3>3
  <2>5. \A k \in 1..Len(queue'), p \in 1..Len(toBoard') : WorkAt(p)' => queue'[k].job < toBoard'[p].arg
    <3> SUFFICES ASSUME NEW k \in 1..Len(queue'), NEW p \in 1..Len(toBoard'), WorkAt(p)'
                 PROVE  queue'[k].job < toBoard'[p].arg
      OBVIOUS
    <3>1. p + 1 \in 1..Len(toBoard) /\ toBoard'[p] = toBoard[p + 1] /\ WorkAt(p + 1) /\ 1 < p + 1
      BY <1>3 DEF WorkAt
    <3> QED
      BY <1>3, <1>5, <3>1, Zenon DEF OrderInv
  <2>6. \A p, q \in 1..Len(toBoard') :
          p < q /\ WorkAt(p)' /\ WorkAt(q)' => toBoard'[p].arg < toBoard'[q].arg
    BY <1>3 DEF OrderInv, WorkAt
  <2>7. InHand' =>
          /\ \A k \in 1..Len(toHost') : ResultAt(k)' => toHost'[k].job < given'
          /\ \A k \in 1..Len(queue') : queue'[k].job < given'
          /\ \A p \in 1..Len(toBoard') : WorkAt(p)' => toBoard'[p].arg < given'
    <3> SUFFICES ASSUME InHand'
                 PROVE  /\ \A k \in 1..Len(toHost') : ResultAt(k)' => toHost'[k].job < given
                        /\ \A k \in 1..Len(queue') : queue'[k].job < given
                        /\ \A p \in 1..Len(toBoard') : WorkAt(p)' => toBoard'[p].arg < given
      BY <1>1
    <3>1. InHand
      BY <1>1 DEF InHand, Giver
    <3>2. /\ \A k \in 1..Len(toHost) : ResultAt(k) => toHost[k].job < given
          /\ \A k \in 1..Len(queue) : queue[k].job < given
          /\ \A p \in 1..Len(toBoard) : WorkAt(p) => toBoard[p].arg < given
      BY <3>1 DEF OrderInv
    <3>3. \A k \in 1..Len(toHost') : ResultAt(k)' => toHost'[k].job < given
      BY <1>4, <3>2
    <3>4. \A k \in 1..Len(queue') : queue'[k].job < given
      BY <1>3, <1>5, <3>2
    <3>5. \A p \in 1..Len(toBoard') : WorkAt(p)' => toBoard'[p].arg < given
      BY <1>3, <3>2 DEF WorkAt
    <3> QED
      BY <3>3, <3>4, <3>5
  <2> QED
    BY <2>1, <2>2, <2>3, <2>4, <2>5, <2>6, <2>7 DEF OrderInv
<1> QED
  BY <1>7, <1>8

\* What the board says of the work at the front of its queue, place by place.
LEMMA ToldOfFront ==
  ASSUME OneGiver, TypeOK, BoardFinishes \/ BoardWins
  PROVE  /\ Len(toHost) \in Nat /\ Len(toHost') = Len(toHost) + 1
         /\ \A k \in 1..Len(toHost) : k \in 1..Len(toHost') /\ toHost'[k] = toHost[k]
         /\ \A k \in 1..Len(toHost') : k \in 1..Len(toHost) \/ k = Len(toHost) + 1
         /\ LET r == toHost'[Len(toHost) + 1]
            IN  /\ r.kind = IF BoardWins THEN "WIN" ELSE "DONE"
                /\ r.job = queue[1].job /\ r.index = queue[1].id /\ r.state = 0
         /\ Len(queue) \in Nat /\ 1 \in 1..Len(queue)
         /\ \A m \in 1..Len(queue') :
              \/ BoardWins /\ m \in 1..Len(queue) /\ queue'[m] = queue[m]
              \/ /\ ~BoardWins /\ m + 1 \in 1..Len(queue) /\ 1 < m + 1
                 /\ queue'[m] = queue[m + 1]
<1>1. toHost \in Seq(Responses) /\ queue \in Seq(Entries) /\ Len(queue) \in Nat
  BY LenProperties DEF TypeOK
<1>2. queue # <<>>
  BY DEF BoardFinishes, BoardWins
<1>3. /\ Len(queue) >= 1 /\ Head(queue) = queue[1] /\ Head(queue) \in Entries
      /\ Len(Tail(queue)) = Len(queue) - 1
      /\ \A k \in 1..(Len(queue) - 1) : Tail(queue)[k] = queue[k + 1]
  BY <1>1, <1>2, TailIs, HeadTailProperties
<1>4. PICK r \in Responses :
        /\ toHost' = Append(toHost, r) /\ r.kind = IF BoardWins THEN "WIN" ELSE "DONE"
        /\ r.job = queue[1].job /\ r.index = queue[1].id /\ r.state = 0
  <2>1. CASE BoardWins
    <3>1. Response("WIN", Head(queue).id, 0, Head(queue).job) \in Responses
      BY <1>3 DEF Response, Responses, Entries
    <3> QED
      BY <1>3, <2>1, <3>1 DEF BoardWins, Response
  <2>2. CASE ~BoardWins
    <3>1. Response("DONE", Head(queue).id, 0, Head(queue).job) \in Responses
      BY <1>3 DEF Response, Responses, Entries
    <3>2. toHost' = Append(toHost, Response("DONE", Head(queue).id, 0, Head(queue).job))
      BY <2>2 DEF BoardFinishes
    <3> QED
      BY <1>3, <2>2, <3>1, <3>2 DEF Response
  <2> QED
    BY <2>1, <2>2
<1>5. /\ Len(toHost) \in Nat /\ Len(toHost') = Len(toHost) + 1
      /\ \A k \in 1..Len(toHost) : toHost'[k] = toHost[k]
      /\ toHost'[Len(toHost) + 1] = r
  BY <1>1, <1>4, AnsweredIs
<1>6. /\ \A k \in 1..Len(toHost') : k \in 1..Len(toHost) \/ k = Len(toHost) + 1
      /\ \A k \in 1..Len(toHost) : k \in 1..Len(toHost')
  BY <1>5
<1>7. \A m \in 1..Len(queue') :
        \/ BoardWins /\ m \in 1..Len(queue) /\ queue'[m] = queue[m]
        \/ ~BoardWins /\ m + 1 \in 1..Len(queue) /\ 1 < m + 1 /\ queue'[m] = queue[m + 1]
  <2>1. CASE BoardWins
    <3>1. queue' = queue
      BY <2>1 DEF BoardWins
    <3> QED
      BY <2>1, <3>1
  <2>2. CASE ~BoardWins
    <3>1. queue' = Tail(queue)
      BY <2>2 DEF BoardFinishes
    <3>2. Len(queue') = Len(queue) - 1 /\ \A m \in 1..(Len(queue) - 1) : queue'[m] = queue[m + 1]
      BY <1>3, <3>1
    <3>3. \A m \in 1..Len(queue') : m \in 1..(Len(queue) - 1) /\ m + 1 \in 1..Len(queue) /\ 1 < m + 1
      BY <1>1, <3>2
    <3> QED
      BY <2>2, <3>2, <3>3
  <2> QED
    BY <2>1, <2>2
<1>8. 1 \in 1..Len(queue)
  BY <1>1, <1>3
<1> QED
  BY <1>1, <1>4, <1>5, <1>6, <1>7, <1>8

LEMMA FrontKeepsLine ==
  ASSUME OneGiver, TypeOK, LineInv, OrderInv, BoardFinishes \/ BoardWins
  PROVE  LineInv' /\ OrderInv'
<1> DEFINE n == Len(toHost)
           front == queue[1].job
<1>1. UNCHANGED <<thread, given, toBoard>> /\ \A j \in 1..given : IdOf(j)' = IdOf(j)
  <2>1. CASE BoardWins
    BY <2>1, NotesAre, IdsStay
  <2>2. CASE BoardFinishes
    BY <2>2 DEF BoardFinishes, process, IdOf
  <2> QED
    BY <2>1, <2>2
<1>2. /\ n \in Nat /\ \A k \in 1..n : toHost'[k] = toHost[k]
      /\ \A k \in 1..Len(toHost') : k \in 1..n \/ k = n + 1
      /\ toHost'[n + 1].kind = IF BoardWins THEN "WIN" ELSE "DONE"
      /\ toHost'[n + 1].job = front /\ toHost'[n + 1].index = queue[1].id
      /\ Len(queue) \in Nat /\ 1 \in 1..Len(queue)
      /\ \A m \in 1..Len(queue') :
              \/ BoardWins /\ m \in 1..Len(queue) /\ queue'[m] = queue[m]
              \/ ~BoardWins /\ m + 1 \in 1..Len(queue) /\ 1 < m + 1 /\ queue'[m] = queue[m + 1]
  BY ToldOfFront
<1>3. front \in 1..given /\ queue[1].id = IdOf(front) /\ given \in Nat
  BY <1>2, GivenAreJobs DEF LineInv
<1>3a. front \in Nat
  BY <1>3
<1>4. \A m \in 1..Len(queue') : \E q \in 1..Len(queue) :
          queue'[m] = queue[q] /\ (BoardWins \/ 1 < q) /\ (q = 1 \/ 1 < q)
  <2>1. \A m \in 1..Len(queue) : m = 1 \/ 1 < m
    BY <1>2
  <2> QED
    BY <1>2, <2>1
<1> HIDE DEF n, front
<1>5. LineInv'
  <2>1. \A k \in 1..Len(toHost') : ResultAt(k)' =>
          toHost'[k].job \in 1..given /\ toHost'[k].index = IdOf(toHost'[k].job)
    BY <1>2, <1>3 DEF LineInv, ResultAt, n
  <2>2. \A k \in 1..Len(queue') :
          queue'[k].job \in 1..given /\ queue'[k].id = IdOf(queue'[k].job)
    BY <1>4 DEF LineInv
  <2>3. \A k \in 1..Len(toHost') : ResultAt(k)' =>
          toHost'[k].job \in 1..given /\ toHost'[k].index = IdOf(toHost[k].job)'
    BY <1>1, <2>1
  <2>4. \A k \in 1..Len(queue') :
          queue'[k].job \in 1..given /\ queue'[k].id = IdOf(queue[k].job)'
    BY <1>1, <2>2
  <2> QED
    BY <1>1, <2>3, <2>4 DEF LineInv, WorkAt
<1>6. OrderInv'
  <2>1. \A k, m \in 1..Len(toHost') :
          k < m /\ ResultAt(k)' /\ ResultAt(m)' => Passes(k, toHost[m].job)'
    <3> SUFFICES ASSUME NEW k \in 1..Len(toHost'), NEW m \in 1..Len(toHost'),
                        k < m, ResultAt(k)', ResultAt(m)'
                 PROVE  Passes(k, toHost[m].job)'
      OBVIOUS
    <3>1. k \in 1..n /\ toHost'[k] = toHost[k] /\ ResultAt(k)
      BY <1>2 DEF ResultAt
    <3>2. Passes(k, toHost'[m].job)
      <4>1. CASE m \in 1..n
        BY <1>2, <3>1, <4>1 DEF OrderInv, ResultAt, n
      <4>2. CASE m = n + 1
        BY <1>2, <3>1, <4>2 DEF OrderInv, n, front
      <4> QED
        BY <1>2, <4>1, <4>2
    <3> QED
      BY <3>1, <3>2 DEF Passes
  <2>2. \A k \in 1..Len(toHost'), m \in 1..Len(queue') : ResultAt(k)' => Passes(k, queue[m].job)'
    <3> SUFFICES ASSUME NEW k \in 1..Len(toHost'), NEW m \in 1..Len(queue'), ResultAt(k)'
                 PROVE  Passes(k, queue[m].job)'
      OBVIOUS
    <3>1. PICK q \in 1..Len(queue) : queue'[m] = queue[q] /\ (BoardWins \/ 1 < q) /\ (q = 1 \/ 1 < q)
      BY <1>4
    <3>2. CASE k \in 1..n
      <4>1. toHost'[k] = toHost[k] /\ ResultAt(k)
        BY <1>2, <3>2 DEF ResultAt
      <4>2. Passes(k, queue[q].job)
        BY <3>2, <4>1 DEF OrderInv, n
      <4> QED
        BY <3>1, <4>1, <4>2 DEF Passes
    <3>3. CASE k = n + 1
      <4>1. 1 < q => front < queue[q].job
        BY <1>2 DEF OrderInv, front
      <4>2. queue[q].job \in Nat /\ (q = 1 => front = queue[q].job)
        BY DEF LineInv, front
      <4> QED
        BY <1>2, <1>3a, <3>1, <3>3, <4>1, <4>2 DEF Passes
    <3> QED
      BY <1>2, <3>2, <3>3
  <2>3. \A k \in 1..Len(toHost'), p \in 1..Len(toBoard') :
          ResultAt(k)' /\ WorkAt(p)' => toHost'[k].job < toBoard'[p].arg
    BY <1>1, <1>2 DEF OrderInv, ResultAt, WorkAt, n, front
  <2>4. \A k, m \in 1..Len(queue') : k < m => queue'[k].job < queue'[m].job
    <3> SUFFICES ASSUME NEW k \in 1..Len(queue'), NEW m \in 1..Len(queue'), k < m
                 PROVE  queue'[k].job < queue'[m].job
      OBVIOUS
    <3>1. k + 1 < m + 1
      OBVIOUS
    <3> QED
      BY <1>2, <3>1 DEF OrderInv
  <2>5. \A k \in 1..Len(queue'), p \in 1..Len(toBoard') : WorkAt(p)' => queue'[k].job < toBoard'[p].arg
    BY <1>1, <1>4, Zenon DEF OrderInv, WorkAt
  <2>6. InHand' =>
          /\ \A k \in 1..Len(toHost') : ResultAt(k)' => toHost'[k].job < given
          /\ \A k \in 1..Len(queue') : queue'[k].job < given
          /\ \A p \in 1..Len(toBoard') : WorkAt(p)' => toBoard'[p].arg < given
    <3> SUFFICES ASSUME InHand'
                 PROVE  /\ \A k \in 1..Len(toHost') : ResultAt(k)' => toHost'[k].job < given
                        /\ \A k \in 1..Len(queue') : queue'[k].job < given
                        /\ \A p \in 1..Len(toBoard') : WorkAt(p)' => toBoard'[p].arg < given
      OBVIOUS
    <3>1. InHand
      BY <1>1 DEF InHand, Giver
    <3> QED
      BY <1>1, <1>2, <1>4, <3>1, Zenon DEF OrderInv, ResultAt, WorkAt, n, front
  <2> QED
    BY <1>1, <2>1, <2>2, <2>3, <2>4, <2>5, <2>6 DEF OrderInv, WorkAt
<1> QED
  BY <1>5, <1>6

LEMMA RestartKeepsLine ==
  ASSUME OneGiver, TypeOK, LineInv, OrderInv, Restart
  PROVE  LineInv' /\ OrderInv'
<1>1. WorksStay
  BY DEF TypeOK, Restart, WorksStay, Works
<1>2. \A j \in 1..given : IdOf(j)' = IdOf(j)
  BY <1>1, IdsStay
<1>3. ~InHand' /\ Len(toHost') = 0 /\ UNCHANGED <<given, toBoard, queue>>
  BY StartedIs DEF Restart, InHand, Giver, Waits
<1>4. LineInv'
  BY <1>2, <1>3 DEF LineInv, WorkAt
<1>5. OrderInv'
  <2>1. 1..Len(toHost') = {}
    BY <1>3
  <2> QED
    BY <1>3, <2>1, Zenon DEF OrderInv, WorkAt
<1> QED
  BY <1>4, <1>5

-------------------------------------------------------------------------------
(***************************************************************************)
(* The works                                                               *)
(***************************************************************************)
LEMMA LiveAreGiven ==
  ASSUME TypeOK, ThreadInv, LineInv
  PROVE  /\ Live \subseteq 1..given /\ Reported \subseteq 1..given
         /\ Queued \subseteq 1..given /\ Ordered \subseteq 1..given
         /\ IsFiniteSet(Queued \cup Ordered)
<1>1. Reported \subseteq 1..given
  BY DEF Reported, LineInv
<1>2. Queued \subseteq 1..given
  BY DEF Queued, LineInv
<1>3. Ordered \subseteq 1..given
  BY DEF Ordered, LineInv
<1>4. InHand => given \in 1..given
  BY GivenAreJobs DEF ThreadInv, HandInv, Jobs
<1>5. Live \subseteq 1..given
  BY <1>1, <1>2, <1>3, <1>4 DEF Live
<1>6. IsFiniteSet(1..given)
  BY GivenAreJobs, FS_Interval
<1>7. IsFiniteSet(Queued \cup Ordered)
  BY <1>2, <1>3, <1>6, FS_Subset
<1> QED
  BY <1>1, <1>2, <1>3, <1>5, <1>7

\* Works that keep their ids take a place each in works_map.
LEMMA KeptAreMapped ==
  ASSUME TypeOK, ThreadInv, LineInv, NEW S \in SUBSET (1..given), \A k \in S : Keeps(k)
  PROVE  IsFiniteSet(S) /\ Cardinality(S) <= Cardinality(Mapped)
<1> DEFINE f == [k \in S |-> IdOf(k)]
<1>1. \A k \in S : IdOf(k) \in Ids /\ worksMap[IdOf(k)] = k /\ k # None
  <2>1. \A k \in 1..given : k # None
    BY NoneAssumption, GivenAreJobs
  <2> QED
    BY <2>1 DEF LineInv, Keeps, IdOf
<1>2. f \in [S -> Mapped]
  BY <1>1 DEF Mapped, IdOf
<1>3. \A k, m \in S : f[k] = f[m] => k = m
  BY <1>1 DEF IdOf
<1> HIDE DEF f
<1>4. f \in Injection(S, Mapped)
  BY <1>2, <1>3 DEF Injection, IsInjective
<1>5. IsFiniteSet(Mapped)
  BY DEF ThreadInv, MapInv
<1> QED
  BY <1>4, <1>5, FS_Injection DEF ExistsInjection

LEMMA LiveFit ==
  ASSUME OneGiver, TypeOK, ThreadInv, LineInv, CleanInv, Ordinary, connected, maxJobs > 0
  PROVE  IsFiniteSet(Live) /\ Cardinality(Live) <= Capacity
<1>1. Live \in SUBSET (1..given)
  BY LiveAreGiven
<1>3. \A k \in Live : Keeps(k)
  BY DEF CleanInv
<1>4. IsFiniteSet(Live) /\ Cardinality(Live) <= Cardinality(Mapped)
  BY <1>1, <1>3, KeptAreMapped
<1>5. Cardinality(Mapped) <= Capacity /\ Cardinality(Mapped) \in Nat /\ Cardinality(Live) \in Nat
      /\ Capacity \in Nat
  BY <1>4, FS_CardinalityType, Constants DEF ThreadInv, MapInv
<1> QED
  BY <1>4, <1>5

\* Where no work is begun, none forgotten, and no more is on its way.
LEMMA FewerKeepClean ==
  ASSUME TypeOK, ThreadInv, LineInv, CleanInv, WorksStay, Live' \subseteq Live,
         UNCHANGED <<worksMap, given>>,
         Ordinary' /\ connected' /\ maxJobs' > 0 => Ordinary /\ connected /\ maxJobs > 0
  PROVE  CleanInv'
<1> SUFFICES ASSUME Ordinary', connected', maxJobs' > 0, NEW j \in Live'
             PROVE  Keeps(j)'
  BY DEF CleanInv
<1>1. j \in Live /\ j \in 1..given
  BY LiveAreGiven
<1>2. Keeps(j)
  BY <1>1 DEF CleanInv
<1>3. IdOf(j)' = IdOf(j)
  BY <1>1, IdsStay
<1> QED
  BY <1>2, <1>3 DEF Keeps

LEMMA StillFits == \A a, b \in Nat : a <= b /\ b <= Capacity => a <= Capacity
BY CapacityAssumption

LEMMA FewerKeepRoom ==
  ASSUME OneGiver, TypeOK, ThreadInv, LineInv, RoomInv, Ordinary' => Ordinary,
         (Queued \cup Ordered)' \subseteq Queued \cup Ordered,
         Ordinary' => aborted' # "no space",
         Ordinary' => \A k \in 1..Len(toHost') : toHost'[k].kind # "NO_SPACE"
  PROVE  RoomInv'
<1> SUFFICES ASSUME Ordinary'
             PROVE  Cardinality((Queued \cup Ordered)') <= Capacity
  BY DEF RoomInv
<1>1. IsFiniteSet(Queued \cup Ordered) /\ Cardinality(Queued \cup Ordered) \in Nat
      /\ Cardinality(Queued \cup Ordered) <= Capacity
  BY LiveAreGiven, FS_CardinalityType DEF RoomInv
<1>2. Cardinality((Queued \cup Ordered)') <= Cardinality(Queued \cup Ordered)
      /\ Cardinality((Queued \cup Ordered)') \in Nat
  BY <1>1, FS_Subset, FS_CardinalityType
<1> QED
  BY <1>1, <1>2, StillFits, Zenon

\* The same restarts, as far as they are told apart; and no id comes round but
\* to a work given.
LEMMA OrdinaryIs ==
  ASSUME TypeOK, NEW t \in Threads, Goes(t) \/ GiveWork(t)
  PROVE  /\ used'.hasty = used.hasty /\ (Few' <=> Few) /\ (Ordinary' => Ordinary)
         /\ Goes(t) => (Ordinary' <=> Ordinary)
<1>1. used \in Counts
  BY DEF TypeOK
<1>2. CASE Goes(t)
  <2>1. used'.hasty = used.hasty /\ used'.reused = used.reused
    <3>1. CASE SpuriousWakeup(t) \/ DropWork(t)
      BY <1>1, <3>1, Zenon DEF SpuriousWakeup, DropWork, Counts
    <3>2. CASE ~(SpuriousWakeup(t) \/ DropWork(t))
      <4>1. used' = used
        BY <1>2, <3>2, Zenon DEF Goes, LockPm, WriteCommand, Wait, Timeout, Mismatch, Answered,
                    ConnectStop, ConnectState, Connected, SetLeading, LeadingSet, DoWork
      <4> QED
        BY <4>1
    <3> QED
      BY <3>1, <3>2
  <2> QED
    BY <2>1, Zenon DEF Ordinary, Few
<1>3. CASE GiveWork(t) /\ ~Goes(t)
  <2>1. used'.hasty = used.hasty /\ used'.reused = (used.reused \/ worksMap[nextId] \in Underway)
    BY <1>1, <1>3, GivenUsed
  <2> QED
    BY <1>3, <2>1, Zenon DEF Ordinary, Few
<1> QED
  BY <1>2, <1>3, Zenon

LEMMA GoesOtherwise ==
  ASSUME OneGiver, TypeOK, ThreadInv, NEW t \in Threads, Goes(t)
  PROVE  /\ aborted' \in {aborted, "timeout", "mismatch"}
         /\ ~Connected(t) => connected' = connected
         /\ ~Connected(t) /\ connected => maxJobs' = maxJobs
<1>1. Answered(t) /\ connected => maxJobs' = maxJobs
  <2> SUFFICES ASSUME Answered(t), connected PROVE maxJobs' = maxJobs
    OBVIOUS
  <2>1. thread[t].cmd.kind # "CHIPSTATE"
    BY DEF ThreadInv, CallInv, Answered, Waits, Command
  <2> QED
    BY <2>1 DEF Answered
<1>2. Answered(t) => UNCHANGED <<aborted, connected>>
  BY DEF Answered
<1>3. CASE ~Answered(t)
  BY <1>3 DEF Goes, LockPm, WriteCommand, Wait, Timeout, SpuriousWakeup, Mismatch,
              ConnectStop, ConnectState, Connected, SetLeading, LeadingSet, DoWork, DropWork
<1> QED
  BY <1>1, <1>2, <1>3

WorksInv == CleanInv /\ RoomInv

\* What was idle when it was asked is idle until it is believed.
IdleInv == Few /\ ~connected /\ Giver.pc = "connected" /\ ~Giver.running /\ maxJobs > 0 => NothingLive

LEMMA GoesKeepsWorks ==
  ASSUME OneGiver, TypeOK, ThreadInv, LineInv, WorksInv, IdleInv,
         NEW t \in Threads, Goes(t), ~WriteCommand(t)
  PROVE  WorksInv'
<1>1. /\ InHand' => InHand
      /\ WorksStay
      /\ UNCHANGED <<given, worksMap, nextId, toHost, queue, toBoard>>
  BY GoesIs
<1>2. Live' \subseteq Live /\ Reported' = Reported /\ Queued' = Queued /\ Ordered' = Ordered
  BY <1>1 DEF Live, Reported, Queued, Ordered, ResultAt, WorkAt
<1>3. Ordinary' <=> Ordinary
  BY OrdinaryIs
<1>4. RoomInv'
  <2>1. Ordinary => aborted' # "no space" /\ \A k \in 1..Len(toHost') : toHost'[k].kind # "NO_SPACE"
    BY <1>1, GoesOtherwise DEF WorksInv, RoomInv
  <2>2. (Queued \cup Ordered)' \subseteq Queued \cup Ordered
    BY <1>2
  <2> QED
    BY <1>3, <2>1, <2>2, FewerKeepRoom DEF WorksInv
<1>5. CleanInv'
  <2>1. CASE ~Connected(t)
    <3>1. Ordinary' /\ connected' /\ maxJobs' > 0 => Ordinary /\ connected /\ maxJobs > 0
      BY <1>3, <2>1, GoesOtherwise DEF TypeOK
    <3> QED
      BY <1>1, <1>2, <3>1, FewerKeepClean DEF WorksInv
  <2>2. CASE Connected(t)
    <3>0. Connecting \in Threads
      BY Constants
    <3>1. ~connected /\ t = Connecting /\ Giver.pc = "connected" /\ maxJobs' = maxJobs
      BY <2>2, <3>0 DEF Connected, ThreadInv, CallInv, ConnectInv, Giver
    <3>2. ~InHand'
      BY <1>1, <3>1 DEF ThreadInv, HandInv
    <3>3. connected' => ~Giver.running
      BY <2>2, <3>1 DEF Connected, Giver
    <3>4. Ordinary' /\ connected' /\ maxJobs' > 0 => NothingLive
      BY <1>3, <3>1, <3>3 DEF IdleInv, Ordinary, Few
    <3>5. NothingLive => Live' = {}
      <4>1. queue = <<>> => Queued = {}
        BY DEF Queued
      <4> QED
        BY <1>2, <3>2, <4>1 DEF NothingLive, Live
    <3> QED
      BY <3>4, <3>5 DEF CleanInv
  <2> QED
    BY <2>1, <2>2
<1> QED
  BY <1>4, <1>5 DEF WorksInv

LEMMA WriteKeepsWorks ==
  ASSUME OneGiver, TypeOK, ThreadInv, LineInv, WorksInv, NEW t \in Threads, WriteCommand(t)
  PROVE  WorksInv'
<1> DEFINE n == Len(toBoard)
<1>1. /\ Len(toBoard') = n + 1 /\ n \in Nat
      /\ \A p \in 1..n : toBoard'[p] = toBoard[p]
      /\ toBoard'[n + 1] = thread[t].cmd
  BY WrittenIs
<1>2. /\ InHand' => InHand /\ WorksStay
      /\ UNCHANGED <<given, worksMap, nextId, toHost, queue>>
  BY GoesIs DEF Goes
<1>2a. WorksStay
  BY GoesIs DEF Goes
<1>3. Ordinary' <=> Ordinary
  BY OrdinaryIs DEF Goes
<1>4. thread[t].cmd.kind = "DO_WORK" => InHand /\ thread[t].cmd.arg = given
  <2> SUFFICES ASSUME thread[t].cmd.kind = "DO_WORK" PROVE InHand /\ thread[t].cmd.arg = given
    OBVIOUS
  <2>1. thread[t].pc = "write"
    BY DEF WriteCommand
  <2>2. connected
    BY <2>1 DEF ThreadInv, ConnectInv, Stopping, Asking, Giver, Command
  <2>3. t = Connecting /\ thread[t].cmd = Command("DO_WORK", IdOf(given), given)
    BY <2>1, <2>2 DEF ThreadInv, CallInv, Waits, Command
  <2> QED
    BY <2>1, <2>3 DEF InHand, Giver, Command
<1>5. Ordered' \subseteq Ordered \cup (IF thread[t].cmd.kind = "DO_WORK" THEN {given} ELSE {})
  <2> SUFFICES ASSUME NEW p \in 1..Len(toBoard'), WorkAt(p)'
               PROVE  toBoard'[p].arg \in Ordered \cup (IF thread[t].cmd.kind = "DO_WORK" THEN {given} ELSE {})
    BY DEF Ordered
  <2>1. CASE p \in 1..n
    BY <1>1, <2>1 DEF Ordered, WorkAt
  <2>2. CASE p = n + 1
    BY <1>1, <1>4, <2>2 DEF WorkAt
  <2> QED
    BY <1>1, <2>1, <2>2
<1>6. Reported' = Reported /\ Queued' = Queued
  BY <1>2 DEF Reported, Queued, ResultAt
<1>7. Live' \subseteq Live
  BY <1>2, <1>4, <1>5, <1>6 DEF Live
<1>8. UNCHANGED <<connected, maxJobs, aborted>>
  BY DEF WriteCommand
<1>9. CleanInv'
  BY <1>2, <1>2a, <1>3, <1>7, <1>8, FewerKeepClean DEF WorksInv
<1>10. Ordinary => aborted' # "no space" /\ \A k \in 1..Len(toHost') : toHost'[k].kind # "NO_SPACE"
  BY <1>2, <1>8 DEF WorksInv, RoomInv
<1>11. RoomInv'
  <2>1. CASE thread[t].cmd.kind # "DO_WORK"
    <3>1. (Queued \cup Ordered)' \subseteq Queued \cup Ordered
      BY <1>5, <1>6, <2>1
    <3> QED
      BY <1>3, <1>10, <3>1, FewerKeepRoom DEF WorksInv
  <2>2. CASE thread[t].cmd.kind = "DO_WORK"
    <3> SUFFICES ASSUME Ordinary' PROVE Cardinality((Queued \cup Ordered)') <= Capacity
      BY <1>3, <1>10 DEF RoomInv
    <3>1. Ordinary /\ connected /\ maxJobs > 0
      BY <1>3, <1>4, <2>2 DEF ThreadInv, HandInv
    <3>2. IsFiniteSet(Live) /\ Cardinality(Live) <= Capacity
      BY <3>1, LiveFit DEF WorksInv
    <3>3. (Queued \cup Ordered)' \in SUBSET Live
      BY <1>4, <1>5, <1>6, <2>2 DEF Live
    <3>4. Cardinality((Queued \cup Ordered)') <= Cardinality(Live)
          /\ Cardinality((Queued \cup Ordered)') \in Nat /\ Cardinality(Live) \in Nat
      BY <3>2, <3>3, FS_Subset, FS_CardinalityType
    <3> QED
      BY <3>2, <3>4, StillFits, Zenon
  <2> QED
    BY <2>1, <2>2
<1> QED
  BY <1>9, <1>11 DEF WorksInv

LEMMA GiveKeepsWorks ==
  ASSUME OneGiver, TypeOK, ThreadInv, LineInv, WorksInv, NEW t \in Threads, GiveWork(t)
  PROVE  WorksInv'
<1>1. /\ given \in Nat /\ given < MaxWorks /\ given' = given + 1 /\ 1..given \subseteq Jobs
      /\ nextId \in Ids /\ work \in [Jobs -> Works] /\ worksMap \in [Ids -> Jobs \cup {None}]
      /\ connected /\ maxJobs \in Nat
      /\ UNCHANGED <<connected, maxJobs, aborted, toBoard, toHost, queue>>
  BY GivenAreJobs DEF TypeOK, GiveWork, board
<1>2. given + 1 \in Jobs /\ \A j \in 1..given : j # given + 1
  BY <1>1, BoundsAssumption DEF Jobs
<1>3. (\A j \in 1..given : work'[j] = work[j]) /\ work'[given + 1].id = nextId
  <2>1. PICK lz \in Leads :
           work' = [work EXCEPT ![given + 1] =
                     [Unsent EXCEPT !.state = "given", !.id = nextId, !.asked = lz, !.lz = lz]]
    BY DEF GiveWork
  <2> QED
    BY <1>1, <1>2, <2>1 DEF Unsent
<1>4. \A i \in Ids : worksMap'[i] = IF i = nextId THEN given + 1 ELSE worksMap[i]
  BY <1>1 DEF GiveWork
<1>5. Ordinary' => Ordinary /\ worksMap[nextId] \notin Underway
  <2>1. used'.reused = (used.reused \/ worksMap[nextId] \in Underway)
    BY GivenUsed DEF TypeOK
  <2>2. Ordinary' => Ordinary
    BY OrdinaryIs
  <2> QED
    BY <2>1, <2>2, Zenon DEF Ordinary
<1>6. Reported' = Reported /\ Queued' = Queued /\ Ordered' = Ordered
  BY <1>1 DEF Reported, Queued, Ordered, ResultAt, WorkAt
<1>7. RoomInv'
  <2>1. Ordinary' => aborted' # "no space" /\ \A k \in 1..Len(toHost') : toHost'[k].kind # "NO_SPACE"
    BY <1>1, <1>5 DEF WorksInv, RoomInv
  <2>2. (Queued \cup Ordered)' \subseteq Queued \cup Ordered
    BY <1>6
  <2>3. Ordinary' => Ordinary
    BY <1>5
  <2> QED
    BY <2>1, <2>2, <2>3, FewerKeepRoom DEF WorksInv
<1>8. maxJobs > 0
  <2>1. Cardinality(Mapped) \in Nat /\ Cardinality(Mapped) < maxJobs
    BY FS_CardinalityType DEF GiveWork, HasSpace, ThreadInv, MapInv
  <2> QED
    BY <1>1, <2>1
<1>9. Live' \subseteq Underway \cup {given + 1}
  <2>1. ~InHand
    BY DEF GiveWork, OneGiver, InHand, Giver, Waits
  <2> QED
    BY <1>1, <1>6, <2>1 DEF Live, Underway
<1>10. CleanInv'
  <2> SUFFICES ASSUME Ordinary', NEW j \in Live' PROVE worksMap'[work'[j].id] = j
    BY DEF CleanInv, Keeps, IdOf
  <2>1. CASE j = given + 1
    BY <1>1, <1>3, <1>4, <2>1
  <2>2. CASE j # given + 1
    <3>1. j \in Live /\ j \in 1..given /\ j \in Underway
      <4>1. j \in Live
        BY <1>1, <1>6, <2>2 DEF Live
      <4> QED
        BY <1>9, <2>2, <4>1, LiveAreGiven
    <3>2. worksMap[IdOf(j)] = j /\ IdOf(j) \in Ids
      BY <1>1, <1>5, <1>8, <3>1 DEF WorksInv, CleanInv, Keeps, LineInv
    <3>3. IdOf(j) # nextId
      BY <1>5, <3>1, <3>2
    <3>4. work'[j].id = IdOf(j)
      BY <1>3, <3>1 DEF IdOf
    <3> QED
      BY <1>4, <3>2, <3>3, <3>4
  <2> QED
    BY <2>1, <2>2
<1> QED
  BY <1>7, <1>10 DEF WorksInv

LEMMA TailReports ==
  ASSUME TypeOK, toHost # <<>>, toHost' = Tail(toHost)
  PROVE  /\ \A k \in 1..Len(toHost') : k + 1 \in 1..Len(toHost) /\ toHost'[k] = toHost[k + 1]
         /\ 1 \in 1..Len(toHost) /\ line = toHost[1] /\ Len(toHost) \in Nat
         /\ Reported' \subseteq Reported
<1>1. /\ Len(toHost) \in Nat /\ Len(toHost) >= 1 /\ Len(toHost') = Len(toHost) - 1
      /\ toHost[1] = Head(toHost)
      /\ \A k \in 1..(Len(toHost) - 1) : toHost'[k] = toHost[k + 1]
  BY TailIs DEF TypeOK
<1>2. \A k \in 1..Len(toHost') : k + 1 \in 1..Len(toHost) /\ toHost'[k] = toHost[k + 1]
  BY <1>1
<1>3. Reported' \subseteq Reported
  BY <1>2 DEF Reported, ResultAt
<1> QED
  BY <1>1, <1>2, <1>3 DEF line

LEMMA PollKeepsWorks ==
  ASSUME OneGiver, TypeOK, ThreadInv, LineInv, OrderInv, WorksInv,
         ReadAnswer \/ HwWonWork \/ HwFinishedWork
  PROVE  WorksInv'
<1>1. /\ toHost # <<>> /\ toHost' = Tail(toHost)
      /\ UNCHANGED <<connected, maxJobs, given, toBoard, queue, used, nextId>>
  BY DEF ReadAnswer, HwWonWork, HwFinishedWork, Reads
<1>2. /\ \A k \in 1..Len(toHost') : k + 1 \in 1..Len(toHost) /\ toHost'[k] = toHost[k + 1]
      /\ 1 \in 1..Len(toHost) /\ line = toHost[1] /\ Reported' \subseteq Reported
  BY <1>1, TailReports
<1>3. Queued' = Queued /\ Ordered' = Ordered /\ (Ordinary' <=> Ordinary)
  BY <1>1 DEF Queued, Ordered, WorkAt, Ordinary
<1>4. InHand' => InHand
  <2>1. CASE ReadAnswer
    <3>1. Connecting \in Threads
      BY Constants
    <3>2. Giver'.cmd = Giver.cmd /\ Giver'.pc = IF line.kind = "OK" /\ Giver.pc = "waiting" THEN "woken" ELSE Giver.pc
      BY <2>1, <3>1, AnswerIs DEF Giver
    <3> QED
      BY <3>2 DEF InHand, Waits
  <2>2. CASE HwWonWork \/ HwFinishedWork
    BY <2>2 DEF HwWonWork, HwFinishedWork, InHand, Giver
  <2> QED
    BY <2>1, <2>2
<1>5. Live' \subseteq Live
  BY <1>1, <1>2, <1>3, <1>4 DEF Live
<1>6. WorksStay
  <2>1. CASE ReadAnswer
    BY <2>1 DEF ReadAnswer, WorksStay
  <2>2. CASE HwWonWork \/ HwFinishedWork
    BY <2>2, NotesAre
  <2> QED
    BY <2>1, <2>2
<1>7. RoomInv'
  <2>1. Ordinary => aborted' # "no space"
    <3> SUFFICES ASSUME Ordinary PROVE aborted' # "no space"
      OBVIOUS
    <3>1. line.kind # "NO_SPACE" /\ aborted # "no space"
      BY <1>2 DEF WorksInv, RoomInv
    <3> QED
      BY <3>1 DEF ReadAnswer, HwWonWork, HwFinishedWork, Reads
  <2>2. Ordinary => \A k \in 1..Len(toHost') : toHost'[k].kind # "NO_SPACE"
    BY <1>2 DEF WorksInv, RoomInv
  <2>3. (Queued \cup Ordered)' \subseteq Queued \cup Ordered
    BY <1>3
  <2> QED
    BY <1>3, <2>1, <2>2, <2>3, FewerKeepRoom DEF WorksInv
<1>8. CASE ReadAnswer \/ HwWonWork
  <2>1. worksMap' = worksMap
    BY <1>8 DEF ReadAnswer, HwWonWork
  <2>2. Ordinary' /\ connected' /\ maxJobs' > 0 => Ordinary /\ connected /\ maxJobs > 0
    BY <1>1, <1>3
  <2>3. CleanInv'
    BY <1>1, <1>5, <1>6, <2>1, <2>2, FewerKeepClean DEF WorksInv
  <2> QED
    BY <1>7, <2>3 DEF WorksInv
<1>9. CASE HwFinishedWork
  <2> DEFINE front == toHost[1].job
  <2>1. ResultAt(1) /\ toHost[1].kind = "DONE"
    BY <1>2, <1>9 DEF HwFinishedWork, Reads, ResultAt
  <2>2. front \in Live /\ toHost[1].index = IdOf(front) /\ front \in 1..given
    BY <1>2, <2>1 DEF LineInv, Live, Reported
  <2>3. worksMap' = [worksMap EXCEPT ![IdOf(front)] = None] /\ worksMap \in [Ids -> Jobs \cup {None}]
    BY <1>2, <1>9, <2>2 DEF HwFinishedWork, TypeOK
  <2>4. ASSUME NEW j \in Live' PROVE front < j
    <3>1. CASE j \in Reported'
      <4>1. PICK k \in 1..Len(toHost') : ResultAt(k)' /\ j = toHost'[k].job
        BY <3>1 DEF Reported
      <4>2. k + 1 \in 1..Len(toHost) /\ ResultAt(k + 1) /\ j = toHost[k + 1].job /\ 1 < k + 1
        BY <1>2, <4>1 DEF ResultAt
      <4>3. Passes(1, j)
        BY <1>2, <2>1, <4>2 DEF OrderInv
      <4> QED
        BY <2>1, <4>3 DEF Passes
    <3>2. CASE j \in Queued
      <4>1. Passes(1, j)
        BY <1>2, <2>1, <3>2 DEF OrderInv, Queued
      <4> QED
        BY <2>1, <4>1 DEF Passes
    <3>3. CASE j \in Ordered
      BY <1>2, <2>1, <3>3 DEF OrderInv, Ordered
    <3>4. CASE InHand /\ j = given
      BY <1>2, <2>1, <3>4 DEF OrderInv
    <3> QED
      BY <1>1, <1>3, <1>4, <3>1, <3>2, <3>3, <3>4 DEF Live
  <2> HIDE DEF front
  <2>5. CleanInv'
    <3> SUFFICES ASSUME Ordinary, connected, maxJobs > 0, NEW j \in Live'
                 PROVE  Keeps(j)'
      BY <1>1, <1>3 DEF CleanInv
    <3>1. j \in Live /\ j \in 1..given /\ front < j
      BY <1>5, <2>4, LiveAreGiven
    <3>2. front # j /\ front \in Nat
      BY <2>2, <3>1, GivenAreJobs
    <3>3. Keeps(j) /\ Keeps(front)
      BY <2>2, <3>1 DEF WorksInv, CleanInv
    <3>4. IdOf(j) # IdOf(front) /\ IdOf(j) \in Ids
      BY <3>1, <3>2, <3>3 DEF Keeps, LineInv, IdOf
    <3>5. IdOf(j)' = IdOf(j)
      BY <1>6, <3>1, IdsStay
    <3>6. worksMap'[IdOf(j)] = worksMap[IdOf(j)]
      BY <2>3, <3>4
    <3> QED
      BY <3>3, <3>5, <3>6 DEF Keeps
  <2> QED
    BY <1>7, <2>5 DEF WorksInv
<1> QED
  BY <1>8, <1>9

\* The works in the queue are different ones.
LEMMA QueuedAreCounted ==
  ASSUME TypeOK, OrderInv
  PROVE  IsFiniteSet(Queued) /\ Cardinality(Queued) = Len(queue)
<1> DEFINE f == [m \in 1..Len(queue) |-> queue[m].job]
<1>1. Len(queue) \in Nat
  BY LenProperties DEF TypeOK
<1>2. f \in Surjection(1..Len(queue), Queued)
  BY DEF Surjection, Queued
<1>3. \A k, m \in 1..Len(queue) : f[k] = f[m] => k = m
  <2> SUFFICES ASSUME NEW k \in 1..Len(queue), NEW m \in 1..Len(queue), queue[k].job = queue[m].job
               PROVE  k = m
    OBVIOUS
  <2>1. queue[k].job \in Nat /\ queue[m].job \in Nat
    <3>0. queue \in Seq(Entries)
      BY DEF TypeOK
    <3>1. queue[k] \in Entries /\ queue[m] \in Entries
      BY <3>0, ElementOfSeq
    <3>2. Jobs \subseteq Nat
      BY BoundsAssumption DEF Jobs
    <3> QED
      BY <3>1, <3>2 DEF Entries
  <2>2. ~(k < m) /\ ~(m < k)
    BY <2>1 DEF OrderInv
  <2> QED
    BY <1>1, <2>2
<1>4. f \in [1..Len(queue) -> Queued]
  BY DEF Queued
<1> HIDE DEF f
<1>5. f \in Injection(1..Len(queue), Queued)
  BY <1>3, <1>4 DEF Injection, IsInjective
<1>6. IsFiniteSet(1..Len(queue)) /\ Cardinality(1..Len(queue)) = Len(queue)
  <2>1. PICK n \in Nat : n = Len(queue)
    BY <1>1
  <2>2. IsFiniteSet(1..n) /\ Cardinality(1..n) = IF 1 > n THEN 0 ELSE n - 1 + 1
    BY FS_Interval
  <2>3. Cardinality(1..n) = n
    BY <2>2
  <2> QED
    BY <2>1, <2>2, <2>3
<1> QED
  BY <1>2, <1>5, <1>6, FS_Surjection

LEMMA NoSpaceIsFull ==
  ASSUME OneGiver, TypeOK, ThreadInv, LineInv, OrderInv, toBoard # <<>>,
         Head(toBoard).kind = "DO_WORK", Len(queue) = Capacity
  PROVE  ~(Cardinality(Queued \cup Ordered) <= Capacity)
<1> DEFINE j == toBoard[1].arg
<1>1. 1 \in 1..Len(toBoard) /\ toBoard[1] = Head(toBoard)
  <2>1. Len(toBoard) \in Nat /\ Len(toBoard) >= 1 /\ Head(toBoard) = toBoard[1]
    BY TailIs DEF TypeOK
  <2> QED
    BY <2>1
<1>2. j \in Ordered /\ j \in Nat
  BY <1>1 DEF Ordered, WorkAt, LineInv
<1>3. j \notin Queued
  <2> SUFFICES ASSUME NEW k \in 1..Len(queue), queue[k].job = j PROVE FALSE
    BY DEF Queued
  <2>1. queue[k].job < j
    BY <1>1 DEF OrderInv, WorkAt
  <2> QED
    BY <1>2, <2>1
<1> HIDE DEF j
<1>4. IsFiniteSet(Queued) /\ Cardinality(Queued) = Capacity
  BY QueuedAreCounted
<1>5. Cardinality(Queued \cup {j}) = Cardinality(Queued) + 1 /\ IsFiniteSet(Queued \cup {j})
  BY <1>3, <1>4, FS_AddElement
<1>6. IsFiniteSet(Queued \cup Ordered) /\ Queued \cup {j} \in SUBSET (Queued \cup Ordered)
  BY <1>2, LiveAreGiven
<1>7. Cardinality(Queued \cup {j}) <= Cardinality(Queued \cup Ordered)
      /\ Cardinality(Queued \cup Ordered) \in Nat
  BY <1>6, FS_Subset, FS_CardinalityType
<1>8. Capacity \in Nat
  BY Constants
<1> QED
  BY <1>4, <1>5, <1>7, <1>8

LEMMA TakeKeepsWorks ==
  ASSUME OneGiver, TypeOK, ThreadInv, LineInv, OrderInv, WorksInv, BoardTakesCommand
  PROVE  WorksInv'
<1>1. UNCHANGED <<connected, thread, maxJobs, worksMap, work, nextId, given, aborted, used>>
  BY DEF BoardTakesCommand, process
<1>2. WorksStay /\ (Ordinary' <=> Ordinary) /\ (InHand' <=> InHand)
  BY <1>1 DEF WorksStay, Ordinary, InHand, Giver
<1>3. Reported' \subseteq Reported
  BY TakenIs DEF Reported, ResultAt
<1>4. Ordered' \subseteq Ordered
  BY TakenIs DEF Ordered, WorkAt
<1>5. Queued' \subseteq Queued \cup Ordered
  <2> SUFFICES ASSUME NEW m \in 1..Len(queue') PROVE queue'[m].job \in Queued \cup Ordered
    BY DEF Queued
  <2>1. CASE m \in 1..Len(queue) /\ queue'[m] = queue[m]
    BY <2>1 DEF Queued
  <2>2. CASE WorkAt(1) /\ queue'[m].job = toBoard[1].arg
    <3>1. 1 \in 1..Len(toBoard)
      BY TakenIs
    <3> QED
      BY <2>2, <3>1 DEF Ordered
  <2> QED
    BY <2>1, <2>2, TakenIs
<1>6. Live' \subseteq Live
  BY <1>1, <1>2, <1>3, <1>4, <1>5 DEF Live
<1>7. CleanInv'
  BY <1>1, <1>2, <1>6, FewerKeepClean DEF WorksInv
<1>8. Ordinary => \A k \in 1..Len(toHost') : toHost'[k].kind # "NO_SPACE"
  <2> SUFFICES ASSUME Ordinary, NEW k \in 1..Len(toHost'), toHost'[k].kind = "NO_SPACE" PROVE FALSE
    OBVIOUS
  <2>1. k \notin 1..Len(toHost)
    BY TakenIs DEF WorksInv, RoomInv
  <2>2. k = Len(toHost) + 1
    BY <2>1, TakenIs
  <2>3. PICK r \in {"OK", "NO_SPACE"}, s \in Nat :
          /\ toHost' = Append(toHost, Response(r, Head(toBoard).index, s, None))
          /\ Response(r, Head(toBoard).index, s, None) \in Responses
          /\ r = "NO_SPACE" => Head(toBoard).kind = "DO_WORK" /\ Len(queue) = Capacity
    BY TakesIs
  <2>4. toHost'[k] = Response(r, Head(toBoard).index, s, None)
    BY <2>2, <2>3, AnsweredIs DEF TypeOK
  <2>5. r = "NO_SPACE"
    BY <2>4 DEF Response
  <2>6. ~(Cardinality(Queued \cup Ordered) <= Capacity)
    BY <2>3, <2>5, NoSpaceIsFull, TakesIs
  <2> QED
    BY <2>6 DEF WorksInv, RoomInv
<1>9. RoomInv'
  <2>1. (Queued \cup Ordered)' \subseteq Queued \cup Ordered
    BY <1>4, <1>5
  <2>2. Ordinary => aborted' # "no space"
    BY <1>1 DEF WorksInv, RoomInv
  <2> QED
    BY <1>2, <1>8, <2>1, <2>2, FewerKeepRoom DEF WorksInv
<1> QED
  BY <1>7, <1>9 DEF WorksInv

LEMMA FrontKeepsWorks ==
  ASSUME OneGiver, TypeOK, ThreadInv, LineInv, OrderInv, WorksInv, BoardFinishes \/ BoardWins
  PROVE  WorksInv'
<1>1. /\ UNCHANGED <<connected, thread, maxJobs, worksMap, nextId, given, aborted, used, toBoard>>
      /\ WorksStay
  <2>1. CASE BoardWins
    BY <2>1, NotesAre DEF BoardWins
  <2>2. CASE BoardFinishes
    BY <2>2 DEF BoardFinishes, process, WorksStay
  <2> QED
    BY <2>1, <2>2
<1>2. (Ordinary' <=> Ordinary) /\ (InHand' <=> InHand) /\ Ordered' = Ordered
  BY <1>1 DEF Ordinary, InHand, Giver, Ordered, WorkAt
<1>3. Queued' \subseteq Queued
  <2> SUFFICES ASSUME NEW m \in 1..Len(queue') PROVE queue'[m].job \in Queued
    BY DEF Queued
  <2>1. \E k \in 1..Len(queue) : queue'[m] = queue[k]
    BY ToldOfFront
  <2> QED
    BY <2>1 DEF Queued
<1>4. Reported' \subseteq Reported \cup Queued
  <2> SUFFICES ASSUME NEW k \in 1..Len(toHost'), ResultAt(k)' PROVE toHost'[k].job \in Reported \cup Queued
    BY DEF Reported
  <2>1. CASE k \in 1..Len(toHost)
    BY <2>1, ToldOfFront DEF Reported, ResultAt
  <2>2. CASE k = Len(toHost) + 1
    BY <2>2, ToldOfFront DEF Queued
  <2> QED
    BY <2>1, <2>2, ToldOfFront
<1>5. Live' \subseteq Live
  BY <1>1, <1>2, <1>3, <1>4 DEF Live
<1>6. CleanInv'
  BY <1>1, <1>2, <1>5, FewerKeepClean DEF WorksInv
<1>7. RoomInv'
  <2>1. (Queued \cup Ordered)' \subseteq Queued \cup Ordered
    BY <1>2, <1>3
  <2>2. Ordinary => aborted' # "no space"
    BY <1>1 DEF WorksInv, RoomInv
  <2>3. Ordinary => \A k \in 1..Len(toHost') : toHost'[k].kind # "NO_SPACE"
    BY ToldOfFront DEF WorksInv, RoomInv
  <2> QED
    BY <1>2, <2>1, <2>2, <2>3, FewerKeepRoom DEF WorksInv
<1> QED
  BY <1>6, <1>7 DEF WorksInv

LEMMA RestartKeepsWorks ==
  ASSUME OneGiver, TypeOK, ThreadInv, LineInv, WorksInv, Restart
  PROVE  WorksInv'
<1>1. ~connected' /\ aborted' = "no" /\ Len(toHost') = 0 /\ UNCHANGED <<given, toBoard, queue>>
  BY DEF Restart
<1>2. Ordinary' => Ordinary
  <2>1. used \in Counts
    BY DEF TypeOK
  <2>2. used'.hasty \in {used.hasty, used.hasty + 1} /\ used.hasty \in Nat
    BY <2>1 DEF Restart, Counts
  <2>3. used'.reused = used.reused
    BY <2>1, Zenon DEF Restart, Counts
  <2> QED
    BY <2>2, <2>3 DEF Ordinary
<1>3. CleanInv'
  BY <1>1 DEF CleanInv
<1>4. (Queued \cup Ordered)' \subseteq Queued \cup Ordered
  BY <1>1 DEF Queued, Ordered, WorkAt
<1>5. RoomInv'
  BY <1>1, <1>2, <1>4, FewerKeepRoom DEF WorksInv
<1> QED
  BY <1>3, <1>5 DEF WorksInv

-------------------------------------------------------------------------------
(***************************************************************************)
(* Connecting                                                              *)
(***************************************************************************)
LEMMA NothingTold == FreeSlots(0) = 0 /\ ~EngineRunning(0) /\ ~Clear(0)
<1>1. FreeSlots(0) = 0 /\ ~EngineRunning(0)
  BY ChipStateIs
<1> QED
  BY <1>1 DEF Clear

\* What a process does until it is connected: its first thread is alone.
Same == /\ Giver'.cmd = Giver.cmd /\ Giver'.ret = Giver.ret /\ Giver'.running = Giver.running
        /\ UNCHANGED <<connected, maxJobs>>
Locks == Giver.pc = "lock" /\ Giver'.pc = "write" /\ Same /\ UNCHANGED <<lastReq, toBoard>>
Writes == /\ Giver.pc = "write" /\ Giver'.pc = "arm" /\ Same /\ UNCHANGED lastReq
          /\ toBoard' = Append(toBoard, Giver.cmd)
Arms == Giver.pc = "arm" /\ Giver'.pc = "waiting" /\ lastReq' = 0 /\ Same /\ UNCHANGED toBoard
Wakes == Giver.pc = "waiting" /\ Giver'.pc = "woken" /\ Same /\ UNCHANGED <<lastReq, toBoard>>
Aborts == Giver' = Giver /\ UNCHANGED <<connected, maxJobs, lastReq, toBoard>>
Stopped == /\ Matches /\ Stopping /\ Giver'.pc = "connectState"
           /\ UNCHANGED <<connected, maxJobs, lastReq, toBoard>>
Asked == /\ Matches /\ Asking /\ Giver'.pc = "connected"
         /\ maxJobs' = FreeSlots(lastResp) /\ Giver'.running = EngineRunning(lastResp)
         /\ UNCHANGED <<connected, lastReq, toBoard>>
Stops == /\ Giver.pc = "connect" /\ Stopping' /\ Giver'.pc = "lock"
         /\ UNCHANGED <<connected, maxJobs, lastReq, toBoard>>
AsksState == /\ Giver.pc = "connectState" /\ Asking' /\ Giver'.pc = "lock"
         /\ UNCHANGED <<connected, maxJobs, lastReq, toBoard>>
Ends == /\ Giver.pc = "connected" /\ UNCHANGED <<maxJobs, lastReq, toBoard>>
        /\ \/ ~Giver.running /\ connected'
           \/ Giver.running /\ Giver'.pc = "connectState" /\ connected' = connected

LEMMA ConnectingIs ==
  ASSUME OneGiver, TypeOK, ThreadInv, ~connected, NEW t \in Threads, Goes(t)
  PROVE  /\ UNCHANGED <<lastResp, toHost, queue, given>>
         /\ \/ Locks \/ Writes \/ Arms \/ Wakes \/ Aborts
            \/ Stopped \/ Asked \/ Stops \/ AsksState \/ Ends
<1>0. Connecting \in Threads
  BY Constants
<1>1. thread \in [Threads -> CallStates] /\ cmdIndex \in {0, 1}
  BY DEF TypeOK
<1>2. thread[t].pc # "idle" => t = Connecting
  BY DEF ThreadInv, ConnectInv
<1>3. Giver.pc \in {"connect", "connectState", "connected"} \/ Stopping \/ Asking
  BY DEF ThreadInv, ConnectInv
<1>4. UNCHANGED <<lastResp, toHost, queue, given>>
  BY DEF Goes, LockPm, WriteCommand, Wait, Timeout, SpuriousWakeup, Mismatch, Answered, board,
         ConnectStop, ConnectState, Connected, SetLeading, LeadingSet, DoWork, DropWork
<1>5. CASE LockPm(t)
  <2>1. t = Connecting
    BY <1>2, <1>5 DEF LockPm
  <2> QED
    BY <1>1, <1>4, <1>5, <2>1, GotoIs DEF LockPm, Locks, Same, Giver, board
<1>6. CASE WriteCommand(t)
  <2>1. t = Connecting
    BY <1>2, <1>6 DEF WriteCommand
  <2> QED
    BY <1>1, <1>4, <1>6, <2>1, GotoIs DEF WriteCommand, Writes, Same, Giver
<1>7. CASE Wait(t)
  <2>1. t = Connecting
    BY <1>2, <1>7 DEF Wait
  <2> QED
    BY <1>1, <1>4, <1>7, <2>1, GotoIs DEF Wait, Arms, Same, Giver, board
<1>8. CASE SpuriousWakeup(t)
  <2>1. t = Connecting
    BY <1>2, <1>8 DEF SpuriousWakeup
  <2> QED
    BY <1>1, <1>4, <1>8, <2>1, GotoIs DEF SpuriousWakeup, Wakes, Same, Giver, board
<1>9. CASE Timeout(t) \/ Mismatch(t)
  BY <1>4, <1>9 DEF Timeout, Mismatch, Aborts, Giver, board
<1>10. CASE Answered(t)
  <2>1. t = Connecting /\ Giver.pc = "woken" /\ Matches
    BY <1>2, <1>10 DEF Answered, Matches, Giver
  <2>2. UNCHANGED <<connected, lastReq, toBoard>>
    BY <1>10 DEF Answered, board
  <2>3. CASE Asking
    <3>1. thread' = [thread EXCEPT ![t].pc = thread[t].ret, ![t].running = EngineRunning(lastResp)]
          /\ maxJobs' = FreeSlots(lastResp)
      BY <1>10, <2>1, <2>3 DEF Answered, Asking, Giver
    <3>2. Giver'.pc = "connected" /\ Giver'.running = EngineRunning(lastResp)
      BY <1>0, <1>1, <2>1, <2>3, <3>1 DEF Giver, Asking, CallStates
    <3> QED
      BY <1>4, <2>1, <2>2, <2>3, <3>1, <3>2 DEF Asked
  <2>4. CASE Stopping
    <3>1. Goto(t, thread[t].ret) /\ maxJobs' = maxJobs
      BY <1>10, <2>1, <2>4 DEF Answered, Stopping, Giver, Command
    <3>2. Giver'.pc = "connectState"
      BY <1>1, <2>1, <2>4, <3>1, GotoIs DEF Giver, Stopping
    <3> QED
      BY <1>4, <2>1, <2>2, <2>4, <3>1, <3>2 DEF Stopped
  <2> QED
    BY <1>3, <2>1, <2>3, <2>4
<1>11. CASE ConnectStop(t)
  <2>1. t = Connecting /\ Giver.pc = "connect"
    BY <1>2, <1>11 DEF ConnectStop, Giver
  <2>2. Stopping' /\ Giver'.pc = "lock"
    BY <1>1, <1>11, <2>1, SendIs DEF ConnectStop, Stopping, Giver, Waits
  <2> QED
    BY <1>4, <1>11, <2>1, <2>2 DEF ConnectStop, Stops, board
<1>12. CASE ConnectState(t)
  <2>1. t = Connecting /\ Giver.pc = "connectState"
    BY <1>2, <1>12 DEF ConnectState, Giver
  <2>2. StateIndex(cmdIndex) \in {5, 6}
    BY <1>1 DEF StateIndex
  <2>3. /\ Giver'.pc = "lock" /\ Giver'.ret = "connected"
        /\ Giver'.cmd = Command("CHIPSTATE", StateIndex(cmdIndex), 0)
    BY <1>1, <1>12, <2>1, SendIs DEF ConnectState, Giver
  <2>4. Asking'
    BY <2>2, <2>3 DEF Asking, Waits, Command
  <2> QED
    BY <1>4, <1>12, <2>1, <2>3, <2>4 DEF ConnectState, AsksState, board
<1>13. CASE Connected(t)
  <2>1. t = Connecting /\ Giver.pc = "connected"
    BY <1>2, <1>13 DEF Connected, Giver
  <2>2. connected' = ~Giver.running /\ UNCHANGED <<maxJobs, lastReq, toBoard>>
    BY <1>13, <2>1 DEF Connected, Giver, board
  <2>3. Giver.running => Giver'.pc = "connectState"
    BY <1>1, <1>13, <2>1, <2>2, GotoIs DEF Connected, Giver
  <2>4. Giver.running \in BOOLEAN /\ connected = FALSE
    BY <1>0, <1>1 DEF Giver, CallStates, TypeOK
  <2> QED
    BY <1>4, <2>1, <2>2, <2>3, <2>4 DEF Ends
<1>14. CASE SetLeading(t) \/ LeadingSet(t) \/ DoWork(t) \/ DropWork(t)
  <2>1. thread[t].pc \in {"leading", "leadSent", "work"}
    BY <1>14 DEF SetLeading, LeadingSet, DoWork, DropWork
  <2> QED
    BY <1>2, <1>3, <2>1 DEF Giver, Stopping, Asking, Waits
<1> QED
  BY <1>5, <1>6, <1>7, <1>8, <1>9, <1>10, <1>11, <1>12, <1>13, <1>14 DEF Goes

\* The line meanwhile: what a connecting process writes is no work.
LEMMA ConnectingLine ==
  ASSUME OneGiver, TypeOK, ThreadInv, ~connected, NEW t \in Threads, Goes(t)
  PROVE  /\ Len(toBoard) \in Nat /\ Len(toBoard') \in Nat
         /\ \A p \in 1..Len(toBoard) : p \in 1..Len(toBoard') /\ toBoard'[p] = toBoard[p]
         /\ \A p \in 1..Len(toBoard') :
              \/ p \in 1..Len(toBoard)
              \/ /\ p = Len(toBoard) + 1 /\ toBoard'[p] = Giver.cmd
                 /\ Writes /\ toBoard'[p].kind # "DO_WORK"
         /\ Ordered' = Ordered
<1>0. Connecting \in Threads
  BY Constants
<1>1. toBoard \in Seq(Commands) /\ Giver \in CallStates
  BY <1>0 DEF TypeOK, Giver
<1>2. CASE Writes
  <2>1. Giver.cmd \in Commands /\ Giver.cmd.kind # "DO_WORK"
    BY <1>1, <1>2 DEF Writes, ThreadInv, ConnectInv, Stopping, Asking, Command, CallStates
  <2>2. toBoard' = Append(toBoard, Giver.cmd)
    BY <1>2 DEF Writes
  <2>3. /\ Len(toBoard) \in Nat /\ Len(toBoard') = Len(toBoard) + 1
        /\ \A p \in 1..Len(toBoard) : toBoard'[p] = toBoard[p]
        /\ toBoard'[Len(toBoard) + 1] = Giver.cmd
    BY <1>1, <2>1, <2>2
  <2>4. \A p \in 1..Len(toBoard) : p \in 1..Len(toBoard') /\ toBoard'[p] = toBoard[p]
    BY <2>3
  <2>5. \A p \in 1..Len(toBoard') : p \in 1..Len(toBoard) \/ p = Len(toBoard) + 1
    BY <2>3
  <2>6. Ordered' = Ordered
    <3>1. {q \in 1..Len(toBoard) : WorkAt(q)}' = {q \in 1..Len(toBoard) : WorkAt(q)}
      BY <2>1, <2>3, <2>4, <2>5 DEF WorkAt
    <3> QED
      BY <2>4, <3>1 DEF Ordered
  <2> QED
    BY <1>2, <2>1, <2>3, <2>4, <2>5, <2>6
<1>3. CASE ~Writes
  <2>1. toBoard' = toBoard
    BY <1>3, ConnectingIs DEF Locks, Arms, Wakes, Aborts, Stopped, Asked, Stops, AsksState, Ends
  <2>2. Ordered' = Ordered
    BY <2>1 DEF Ordered, WorkAt
  <2> QED
    BY <1>1, <2>1, <2>2
<1> QED
  BY <1>2, <1>3

LEMMA ConnectingKeepsState ==
  ASSUME OneGiver, TypeOK, ThreadInv, StateInv, ~connected, NEW t \in Threads, Goes(t)
  PROVE  StateInv'
<1>1. UNCHANGED <<lastResp, toHost, queue, given>> /\ (Few' <=> Few)
  BY ConnectingIs, OrdinaryIs
<1>2. /\ Len(toBoard) \in Nat /\ Len(toBoard') \in Nat
      /\ \A p \in 1..Len(toBoard) : p \in 1..Len(toBoard') /\ toBoard'[p] = toBoard[p]
      /\ \A p \in 1..Len(toBoard') :
           p \in 1..Len(toBoard) \/ (p = Len(toBoard) + 1 /\ toBoard'[p].kind # "DO_WORK")
      /\ Ordered' = Ordered
  BY ConnectingLine
<1>3. NothingLive' <=> NothingLive
  BY <1>1, <1>2 DEF NothingLive, Reported, ResultAt
<1>4. FreeSlots(lastResp') <= Capacity /\ \A k \in 1..Len(toHost') : FreeSlots(toHost'[k].state) <= Capacity
  BY <1>1 DEF StateInv
<1> SUFFICES ASSUME Few', ~connected'
             PROVE  /\ \A p, q \in 1..Len(toBoard') : p < q /\ StateAt(p)' => ~WorkAt(q)'
                    /\ \A k \in 1..Len(toHost') : toHost'[k].kind = "OK" /\ Clear(toHost'[k].state) =>
                         /\ \A m \in 1..Len(toHost') : k < m => ~ResultAt(m)'
                         /\ queue' = <<>> /\ Ordered' = {}
                    /\ Clear(lastResp') => NothingLive'
                    /\ Giver'.pc = "connected" /\ ~Giver'.running /\ maxJobs' > 0 => NothingLive'
  BY <1>4 DEF StateInv
<1>5. Few
  BY <1>1
<1>6. ASSUME NEW p \in 1..Len(toBoard'), NEW q \in 1..Len(toBoard'), p < q, StateAt(p)'
      PROVE  ~WorkAt(q)'
  <2>1. CASE q \in 1..Len(toBoard)
    <3>1. p \in 1..Len(toBoard) /\ toBoard'[p] = toBoard[p] /\ toBoard'[q] = toBoard[q]
      BY <1>2, <1>6, <2>1
    <3> QED
      BY <1>5, <1>6, <2>1, <3>1 DEF StateInv, StateAt, WorkAt
  <2>2. CASE q \notin 1..Len(toBoard)
    BY <1>2, <2>2 DEF WorkAt
  <2> QED
    BY <2>1, <2>2
<1>7. \A k \in 1..Len(toHost') : toHost'[k].kind = "OK" /\ Clear(toHost'[k].state) =>
         /\ \A m \in 1..Len(toHost') : k < m => ~ResultAt(m)'
         /\ queue' = <<>> /\ Ordered' = {}
  BY <1>1, <1>2, <1>5 DEF StateInv, ResultAt
<1>8. Clear(lastResp') => NothingLive'
  BY <1>1, <1>3, <1>5 DEF StateInv
<1>9. Giver'.pc = "connected" /\ ~Giver'.running /\ maxJobs' > 0 => NothingLive'
  <2>1. CASE Asked
    <3>1. Giver'.running = EngineRunning(lastResp) /\ maxJobs' = FreeSlots(lastResp)
      BY <2>1 DEF Asked
    <3> QED
      BY <1>3, <1>5, <3>1 DEF StateInv, Clear
  <2>2. CASE Aborts
    BY <1>3, <1>5, <2>2 DEF StateInv, Aborts
  <2>3. CASE ~Asked /\ ~Aborts
    <3>1. Giver'.pc # "connected"
      BY <2>3, ConnectingIs DEF Locks, Writes, Arms, Wakes, Stopped, Stops, AsksState, Ends
    <3> QED
      BY <3>1
  <2> QED
    BY <2>1, <2>2, <2>3
<1> QED
  BY <1>6, <1>7, <1>8, <1>9

\* While no process connects, only what was told before is to be kept.
LEMMA GoesKeepsState ==
  ASSUME OneGiver, TypeOK, ThreadInv, StateInv, connected, NEW t \in Threads, Goes(t) \/ GiveWork(t)
  PROVE  StateInv'
<1>1. UNCHANGED <<toHost, lastResp>> /\ connected'
  <2>1. UNCHANGED lastResp /\ UNCHANGED toHost
    BY Zenon DEF Goes, LockPm, WriteCommand, Wait, Timeout, SpuriousWakeup, Mismatch, Answered, board,
           ConnectStop, ConnectState, Connected, SetLeading, LeadingSet, DoWork, DropWork, GiveWork
  <2>2. ~Connected(t)
    BY DEF Connected, ThreadInv, CallInv
  <2>3. connected' = connected
    BY <2>2, GoesOtherwise DEF GiveWork
  <2> QED
    BY <2>1, <2>3, Zenon
<1> QED
  BY <1>1 DEF StateInv

LEMMA ReadKeepsState ==
  ASSUME OneGiver, TypeOK, StateInv, ReadAnswer
  PROVE  StateInv'
<1>1. /\ toHost # <<>> /\ toHost' = Tail(toHost)
      /\ UNCHANGED <<connected, maxJobs, toBoard, queue, used>>
      /\ \/ line.kind = "OK" /\ lastResp' = line.state
         \/ lastResp' = lastResp
      /\ Giver'.running = Giver.running
      /\ Giver'.pc = "connected" => Giver.pc = "connected"
  <2>1. Connecting \in Threads
    BY Constants
  <2>2. /\ Giver'.running = Giver.running
        /\ Giver'.pc = IF line.kind = "OK" /\ Giver.pc = "waiting" THEN "woken" ELSE Giver.pc
    BY <2>1, AnswerIs DEF Giver
  <2> QED
    BY <2>2, AnswerIs
<1>2. /\ \A k \in 1..Len(toHost') : k + 1 \in 1..Len(toHost) /\ toHost'[k] = toHost[k + 1]
      /\ 1 \in 1..Len(toHost) /\ line = toHost[1] /\ Len(toHost) \in Nat
      /\ Reported' \subseteq Reported
  BY <1>1, TailReports
<1>3. Ordered' = Ordered /\ (Few' <=> Few)
  BY <1>1 DEF Ordered, WorkAt, Few
<1>4. FreeSlots(lastResp') <= Capacity /\ \A k \in 1..Len(toHost') : FreeSlots(toHost'[k].state) <= Capacity
  BY <1>1, <1>2 DEF StateInv
<1> SUFFICES ASSUME Few', ~connected'
             PROVE  /\ \A p, q \in 1..Len(toBoard') : p < q /\ StateAt(p)' => ~WorkAt(q)'
                    /\ \A k \in 1..Len(toHost') : toHost'[k].kind = "OK" /\ Clear(toHost'[k].state) =>
                         /\ \A m \in 1..Len(toHost') : k < m => ~ResultAt(m)'
                         /\ queue' = <<>> /\ Ordered' = {}
                    /\ Clear(lastResp') => NothingLive'
                    /\ Giver'.pc = "connected" /\ ~Giver'.running /\ maxJobs' > 0 => NothingLive'
  BY <1>4 DEF StateInv
<1>5. Few /\ ~connected
  BY <1>1, <1>3
<1>6. NothingLive => NothingLive'
  BY <1>1, <1>2, <1>3 DEF NothingLive
<1>7. \A p, q \in 1..Len(toBoard') : p < q /\ StateAt(p)' => ~WorkAt(q)'
  BY <1>1, <1>5 DEF StateInv, StateAt, WorkAt
<1>8. ASSUME NEW k \in 1..Len(toHost'), toHost'[k].kind = "OK", Clear(toHost'[k].state)
      PROVE  /\ \A m \in 1..Len(toHost') : k < m => ~ResultAt(m)'
             /\ queue' = <<>> /\ Ordered' = {}
  <2>1. k + 1 \in 1..Len(toHost) /\ toHost[k + 1].kind = "OK" /\ Clear(toHost[k + 1].state)
    BY <1>2, <1>8
  <2>2. /\ \A m \in 1..Len(toHost) : k + 1 < m => ~ResultAt(m)
        /\ queue = <<>> /\ Ordered = {}
    BY <1>5, <2>1 DEF StateInv
  <2>3. ASSUME NEW m \in 1..Len(toHost'), k < m PROVE ~ResultAt(m)'
    <3>1. m + 1 \in 1..Len(toHost) /\ k + 1 < m + 1 /\ toHost'[m] = toHost[m + 1]
      BY <1>2, <2>3
    <3>2. ~ResultAt(m + 1)
      BY <2>2, <3>1
    <3> QED
      BY <3>1, <3>2 DEF ResultAt
  <2> QED
    BY <1>1, <1>3, <2>2, <2>3
<1>9. Clear(lastResp') => NothingLive'
  <2>1. CASE lastResp' = lastResp
    BY <1>5, <1>6, <2>1 DEF StateInv
  <2>2. CASE line.kind = "OK" /\ lastResp' = line.state
    <3> SUFFICES ASSUME Clear(lastResp') PROVE NothingLive'
      OBVIOUS
    <3>1. toHost[1].kind = "OK" /\ Clear(toHost[1].state)
      BY <1>2, <2>2
    <3>2. /\ \A m \in 1..Len(toHost) : 1 < m => ~ResultAt(m)
          /\ queue = <<>> /\ Ordered = {}
      BY <1>2, <1>5, <3>1 DEF StateInv
    <3>3. \A m \in 1..Len(toHost') : ~ResultAt(m)'
      <4> SUFFICES ASSUME NEW m \in 1..Len(toHost') PROVE ~ResultAt(m)'
        OBVIOUS
      <4>1. m + 1 \in 1..Len(toHost) /\ 1 < m + 1 /\ toHost'[m] = toHost[m + 1]
        BY <1>2
      <4>2. ~ResultAt(m + 1)
        BY <3>2, <4>1
      <4> QED
        BY <4>1, <4>2 DEF ResultAt
    <3>4. Reported' = {}
      BY <3>3 DEF Reported
    <3> QED
      BY <1>1, <1>3, <3>2, <3>4 DEF NothingLive
  <2> QED
    BY <1>1, <2>1, <2>2
<1>10. Giver'.pc = "connected" /\ ~Giver'.running /\ maxJobs' > 0 => NothingLive'
  BY <1>1, <1>5, <1>6 DEF StateInv
<1> QED
  BY <1>7, <1>8, <1>9, <1>10

\* A result is read: what is left was there before.
LEMMA ResultKeepsState ==
  ASSUME OneGiver, TypeOK, LineInv, StateInv, HwWonWork \/ HwFinishedWork
  PROVE  StateInv'
<1>1. /\ toHost # <<>> /\ toHost' = Tail(toHost)
      /\ UNCHANGED <<connected, maxJobs, toBoard, queue, used, thread, lastResp>>
  BY DEF HwWonWork, HwFinishedWork, Reads
<1>2. /\ \A k \in 1..Len(toHost') : k + 1 \in 1..Len(toHost) /\ toHost'[k] = toHost[k + 1]
      /\ 1 \in 1..Len(toHost) /\ line = toHost[1] /\ Len(toHost) \in Nat
      /\ Reported' \subseteq Reported
  BY <1>1, TailReports
<1>3. Ordered' = Ordered /\ (Few' <=> Few) /\ Giver' = Giver
  BY <1>1 DEF Ordered, WorkAt, Few, Giver
<1>4. FreeSlots(lastResp') <= Capacity /\ \A k \in 1..Len(toHost') : FreeSlots(toHost'[k].state) <= Capacity
  BY <1>1, <1>2 DEF StateInv
<1> SUFFICES ASSUME Few', ~connected'
             PROVE  /\ \A p, q \in 1..Len(toBoard') : p < q /\ StateAt(p)' => ~WorkAt(q)'
                    /\ \A k \in 1..Len(toHost') : toHost'[k].kind = "OK" /\ Clear(toHost'[k].state) =>
                         /\ \A m \in 1..Len(toHost') : k < m => ~ResultAt(m)'
                         /\ queue' = <<>> /\ Ordered' = {}
                    /\ Clear(lastResp') => NothingLive'
                    /\ Giver'.pc = "connected" /\ ~Giver'.running /\ maxJobs' > 0 => NothingLive'
  BY <1>4 DEF StateInv
<1>5. Few /\ ~connected
  BY <1>1, <1>3
<1>6. NothingLive => NothingLive'
  BY <1>1, <1>2, <1>3 DEF NothingLive
<1>7. \A p, q \in 1..Len(toBoard') : p < q /\ StateAt(p)' => ~WorkAt(q)'
  BY <1>1, <1>5 DEF StateInv, StateAt, WorkAt
<1>8. ASSUME NEW k \in 1..Len(toHost'), toHost'[k].kind = "OK", Clear(toHost'[k].state)
      PROVE  /\ \A m \in 1..Len(toHost') : k < m => ~ResultAt(m)'
             /\ queue' = <<>> /\ Ordered' = {}
  <2>1. k + 1 \in 1..Len(toHost) /\ toHost[k + 1].kind = "OK" /\ Clear(toHost[k + 1].state)
    BY <1>2, <1>8
  <2>2. /\ \A m \in 1..Len(toHost) : k + 1 < m => ~ResultAt(m)
        /\ queue = <<>> /\ Ordered = {}
    BY <1>5, <2>1 DEF StateInv
  <2>3. ASSUME NEW m \in 1..Len(toHost'), k < m PROVE ~ResultAt(m)'
    <3>1. m + 1 \in 1..Len(toHost) /\ k + 1 < m + 1 /\ toHost'[m] = toHost[m + 1]
      BY <1>2, <2>3
    <3>2. ~ResultAt(m + 1)
      BY <2>2, <3>1
    <3> QED
      BY <3>1, <3>2 DEF ResultAt
  <2> QED
    BY <1>1, <1>3, <2>2, <2>3
<1>9. (Clear(lastResp') => NothingLive')
      /\ (Giver'.pc = "connected" /\ ~Giver'.running /\ maxJobs' > 0 => NothingLive')
  BY <1>1, <1>3, <1>5, <1>6 DEF StateInv
<1> QED
  BY <1>7, <1>8, <1>9

LEMMA TakesNothing ==
  ASSUME OneGiver, TypeOK, BoardTakesCommand, Ordered = {}
  PROVE  Ordered' = {} /\ (queue = <<>> => queue' = <<>>)
<1>1. /\ 1 \in 1..Len(toBoard) /\ toBoard[1] = Head(toBoard)
      /\ \A p \in 1..Len(toBoard') : p + 1 \in 1..Len(toBoard) /\ toBoard'[p] = toBoard[p + 1]
  BY TakenIs
<1>2. \A p \in 1..Len(toBoard) : ~WorkAt(p)
  BY DEF Ordered
<1>3. \A p \in 1..Len(toBoard') : ~WorkAt(p)'
  BY <1>1, <1>2 DEF WorkAt
<1>4. Ordered' = {}
  BY <1>3 DEF Ordered
<1>5. Head(toBoard).kind # "DO_WORK"
  BY <1>1, <1>2 DEF WorkAt
<1>6. queue = <<>> => queue' = <<>>
  BY <1>5, TakesIs
<1> QED
  BY <1>4, <1>6

LEMMA TakeKeepsState ==
  ASSUME OneGiver, TypeOK, StateInv, BoardTakesCommand
  PROVE  StateInv'
<1>1. /\ Len(toBoard) \in Nat /\ 1 \in 1..Len(toBoard) /\ toBoard[1] = Head(toBoard)
      /\ \A p \in 1..Len(toBoard') : p + 1 \in 1..Len(toBoard) /\ toBoard'[p] = toBoard[p + 1]
      /\ Len(toHost) \in Nat /\ Len(toHost') = Len(toHost) + 1
      /\ \A k \in 1..Len(toHost) : k \in 1..Len(toHost') /\ toHost'[k] = toHost[k]
      /\ \A k \in 1..Len(toHost') : k \in 1..Len(toHost) \/ k = Len(toHost) + 1
      /\ toHost'[Len(toHost) + 1].kind \in {"OK", "NO_SPACE"}
  BY TakenIs
<1>2. PICK kind \in {"OK", "NO_SPACE"}, s \in Nat :
         /\ toHost' = Append(toHost, Response(kind, Head(toBoard).index, s, None))
         /\ Response(kind, Head(toBoard).index, s, None) \in Responses
         /\ FreeSlots(s) <= Capacity
         /\ s # 0 => Head(toBoard).kind = "CHIPSTATE"
         /\ Head(toBoard).kind = "CHIPSTATE" => (EngineRunning(s) <=> queue # <<>>)
  BY TakesIs
<1>3. toHost'[Len(toHost) + 1] = Response(kind, Head(toBoard).index, s, None)
  BY <1>2, AnsweredIs DEF TypeOK
<1>4. toHost'[Len(toHost) + 1].state = s
  BY <1>3 DEF Response
<1>5. /\ UNCHANGED <<thread, connected, maxJobs, lastResp, used>>
      /\ Head(toBoard).kind = "CHIPSTATE" => queue' = queue
  BY TakesIs DEF process
<1>6. FreeSlots(lastResp') <= Capacity /\ \A k \in 1..Len(toHost') : FreeSlots(toHost'[k].state) <= Capacity
  BY <1>1, <1>2, <1>4, <1>5 DEF StateInv
<1> SUFFICES ASSUME Few', ~connected'
             PROVE  /\ \A p, q \in 1..Len(toBoard') : p < q /\ StateAt(p)' => ~WorkAt(q)'
                    /\ \A k \in 1..Len(toHost') : toHost'[k].kind = "OK" /\ Clear(toHost'[k].state) =>
                         /\ \A m \in 1..Len(toHost') : k < m => ~ResultAt(m)'
                         /\ queue' = <<>> /\ Ordered' = {}
                    /\ Clear(lastResp') => NothingLive'
                    /\ Giver'.pc = "connected" /\ ~Giver'.running /\ maxJobs' > 0 => NothingLive'
  BY <1>6 DEF StateInv
<1>7. Few /\ ~connected
  BY <1>5 DEF Few
<1>8. \A p, q \in 1..Len(toBoard) : p < q /\ StateAt(p) => ~WorkAt(q)
  BY <1>7 DEF StateInv
<1>9. ASSUME NEW p \in 1..Len(toBoard'), NEW q \in 1..Len(toBoard'), p < q, StateAt(p)'
      PROVE  ~WorkAt(q)'
  <2>1. /\ p + 1 \in 1..Len(toBoard) /\ q + 1 \in 1..Len(toBoard) /\ p + 1 < q + 1
        /\ toBoard'[p] = toBoard[p + 1] /\ toBoard'[q] = toBoard[q + 1]
    BY <1>1, <1>9
  <2>2. StateAt(p + 1)
    BY <1>9, <2>1 DEF StateAt
  <2>3. ~WorkAt(q + 1)
    BY <1>8, <2>1, <2>2
  <2> QED
    BY <2>1, <2>3 DEF WorkAt
<1>10. ASSUME NEW k \in 1..Len(toHost'), toHost'[k].kind = "OK", Clear(toHost'[k].state)
       PROVE  /\ \A m \in 1..Len(toHost') : k < m => ~ResultAt(m)'
              /\ queue' = <<>> /\ Ordered' = {}
  <2>1. CASE k \in 1..Len(toHost)
    <3>1. toHost[k].kind = "OK" /\ Clear(toHost[k].state)
      BY <1>1, <1>10, <2>1
    <3>2. /\ \A m \in 1..Len(toHost) : k < m => ~ResultAt(m)
          /\ queue = <<>> /\ Ordered = {}
      BY <1>7, <2>1, <3>1 DEF StateInv
    <3>3. \A m \in 1..Len(toHost') : k < m => ~ResultAt(m)'
      BY <1>1, <3>2 DEF ResultAt
    <3> QED
      BY <3>2, <3>3, TakesNothing
  <2>2. CASE k = Len(toHost) + 1
    <3>1. Clear(s)
      BY <1>4, <1>10, <2>2
    <3>2. s # 0
      BY <3>1, NothingTold
    <3>3. Head(toBoard).kind = "CHIPSTATE" /\ queue = <<>>
      BY <1>2, <3>1, <3>2 DEF Clear
    <3>4. \A p \in 1..Len(toBoard') : ~WorkAt(p)'
      <4> SUFFICES ASSUME NEW p \in 1..Len(toBoard') PROVE ~WorkAt(p)'
        OBVIOUS
      <4>1. p + 1 \in 1..Len(toBoard) /\ 1 < p + 1 /\ toBoard'[p] = toBoard[p + 1]
        BY <1>1
      <4>2. StateAt(1)
        BY <1>1, <3>3 DEF StateAt
      <4>3. ~WorkAt(p + 1)
        BY <1>1, <1>8, <4>1, <4>2
      <4> QED
        BY <4>1, <4>3 DEF WorkAt
    <3>5. Ordered' = {}
      BY <3>4 DEF Ordered
    <3>6. \A m \in 1..Len(toHost') : ~(k < m)
      BY <1>1, <2>2
    <3> QED
      BY <1>5, <3>3, <3>5, <3>6
  <2> QED
    BY <1>1, <2>1, <2>2
<1>11. NothingLive => NothingLive'
  <2>1. \A k \in 1..Len(toHost') : ResultAt(k)' => k \in 1..Len(toHost) /\ ResultAt(k)
    BY <1>1 DEF ResultAt
  <2>2. Reported = {} => Reported' = {}
    BY <2>1 DEF Reported
  <2> QED
    BY <2>2, TakesNothing DEF NothingLive
<1>12. (Clear(lastResp') => NothingLive')
       /\ (Giver'.pc = "connected" /\ ~Giver'.running /\ maxJobs' > 0 => NothingLive')
  BY <1>5, <1>7, <1>11 DEF StateInv, Giver
<1> QED
  BY <1>9, <1>10, <1>12

LEMMA FrontKeepsState ==
  ASSUME OneGiver, TypeOK, StateInv, BoardFinishes \/ BoardWins
  PROVE  StateInv'
<1>1. /\ Len(toHost) \in Nat /\ Len(toHost') = Len(toHost) + 1
      /\ \A k \in 1..Len(toHost) : toHost'[k] = toHost[k]
      /\ \A k \in 1..Len(toHost') : k \in 1..Len(toHost) \/ k = Len(toHost) + 1
      /\ toHost'[Len(toHost) + 1].kind # "OK"
      /\ toHost'[Len(toHost) + 1].state = 0
  BY ToldOfFront
<1>2. queue # <<>> /\ UNCHANGED <<thread, connected, maxJobs, lastResp, toBoard, used>>
  BY DEF BoardFinishes, BoardWins, process
<1>3. FreeSlots(0) <= Capacity
  BY NothingTold, Constants
<1>4. FreeSlots(lastResp') <= Capacity /\ \A k \in 1..Len(toHost') : FreeSlots(toHost'[k].state) <= Capacity
  BY <1>1, <1>2, <1>3 DEF StateInv
<1> SUFFICES ASSUME Few', ~connected'
             PROVE  /\ \A p, q \in 1..Len(toBoard') : p < q /\ StateAt(p)' => ~WorkAt(q)'
                    /\ \A k \in 1..Len(toHost') : ~(toHost'[k].kind = "OK" /\ Clear(toHost'[k].state))
                    /\ ~Clear(lastResp')
                    /\ ~(Giver'.pc = "connected" /\ ~Giver'.running /\ maxJobs' > 0)
  BY <1>4 DEF StateInv
<1>5. Few /\ ~connected /\ ~NothingLive
  BY <1>2 DEF Few, NothingLive
<1>6. \A p, q \in 1..Len(toBoard') : p < q /\ StateAt(p)' => ~WorkAt(q)'
  BY <1>2, <1>5 DEF StateInv, StateAt, WorkAt
<1>7. \A k \in 1..Len(toHost') : ~(toHost'[k].kind = "OK" /\ Clear(toHost'[k].state))
  BY <1>1, <1>2, <1>5 DEF StateInv
<1>8. ~Clear(lastResp') /\ ~(Giver'.pc = "connected" /\ ~Giver'.running /\ maxJobs' > 0)
  BY <1>2, <1>5 DEF StateInv, Giver
<1> QED
  BY <1>6, <1>7, <1>8

LEMMA RestartKeepsState ==
  ASSUME OneGiver, TypeOK, StateInv, AloneInv, SecondInv, Restart
  PROVE  StateInv'
<1>1. /\ lastResp' = 0 /\ toHost' = <<>> /\ UNCHANGED toBoard /\ thread' = Started
      /\ used'.hasty = IF toBoard = <<>> THEN used.hasty ELSE used.hasty + 1
  BY DEF Restart, TypeOK, Counts
<1>2. Giver'.pc = "connect"
  BY <1>1, StartedIs DEF Giver
<1>3. FreeSlots(lastResp') <= Capacity /\ ~Clear(lastResp')
  BY <1>1, NothingTold, Constants
<1>4. Len(toHost') = 0
  BY <1>1
<1>5. ASSUME Few'
      PROVE  \A p, q \in 1..Len(toBoard') : p < q /\ StateAt(p)' => ~WorkAt(q)'
  <2>1. CASE toBoard = <<>>
    BY <1>1, <2>1
  <2>2. CASE toBoard # <<>>
    <3>1. used.hasty \in Nat /\ used.hasty + 1 <= 2
      BY <1>1, <1>5, <2>2 DEF Few, TypeOK, Counts
    <3>2. Few /\ (used.hasty = 0 \/ used.hasty = 1)
      BY <3>1 DEF Few
    <3>3. CASE ~connected
      BY <1>1, <3>2, <3>3 DEF StateInv, StateAt, WorkAt
    <3>4. CASE connected /\ used.hasty = 0
      BY <1>1, <3>4 DEF AloneInv, StateAt, WorkAt
    <3>5. CASE connected /\ used.hasty = 1
      BY <1>1, <3>5 DEF SecondInv, NoWorkBehind, StateAt, WorkAt
    <3> QED
      BY <3>2, <3>3, <3>4, <3>5
  <2> QED
    BY <2>1, <2>2
<1>6. \A k \in 1..Len(toHost') : FALSE
  BY <1>4
<1> QED
  BY <1>2, <1>3, <1>5, <1>6 DEF StateInv

-------------------------------------------------------------------------------
\* A connected process asks for no state.
LEMMA ConnectedLine ==
  ASSUME OneGiver, TypeOK, ThreadInv, connected, NEW t \in Threads, Goes(t) \/ GiveWork(t)
  PROVE  /\ connected' /\ maxJobs' = maxJobs /\ UNCHANGED <<toHost, queue, lastResp>>
         /\ Len(toBoard) \in Nat
         /\ \A p \in 1..Len(toBoard') :
              \/ p \in 1..Len(toBoard) /\ toBoard'[p] = toBoard[p]
              \/ /\ p = Len(toBoard) + 1 /\ toBoard'[p].kind # "CHIPSTATE"
                 /\ toBoard'[p].kind = "DO_WORK" => maxJobs > 0
<1>1. UNCHANGED lastResp /\ UNCHANGED toHost /\ UNCHANGED queue
  BY Zenon DEF Goes, LockPm, WriteCommand, Wait, Timeout, SpuriousWakeup, Mismatch, Answered, board,
         ConnectStop, ConnectState, Connected, SetLeading, LeadingSet, DoWork, DropWork, GiveWork
<1>2. ~Connected(t)
  BY DEF Connected, ThreadInv, CallInv
<1>3. connected' = connected /\ maxJobs' = maxJobs
  BY <1>2, GoesOtherwise DEF GiveWork
<1>4. Len(toBoard) \in Nat
  <2>1. toBoard \in Seq(Commands)
    BY DEF TypeOK
  <2> QED
    BY <2>1
<1>5. CASE WriteCommand(t)
  <2>1. /\ Len(toBoard') = Len(toBoard) + 1
        /\ \A p \in 1..Len(toBoard) : toBoard'[p] = toBoard[p]
        /\ toBoard'[Len(toBoard) + 1] = thread[t].cmd
    BY <1>5, WrittenIs
  <2>2. thread[t].pc = "write"
    BY <1>5 DEF WriteCommand
  <2>3. thread[t].cmd.kind # "CHIPSTATE"
    BY <2>2 DEF ThreadInv, CallInv, Waits, Command
  <2>4. thread[t].cmd.kind = "DO_WORK" => maxJobs > 0
    <3> SUFFICES ASSUME thread[t].cmd.kind = "DO_WORK" PROVE maxJobs > 0
      OBVIOUS
    <3>1. t = Connecting
      BY <2>2 DEF ThreadInv, CallInv, Waits
    <3>2. InHand
      BY <2>2, <3>1 DEF InHand, Giver
    <3> QED
      BY <3>2 DEF ThreadInv, HandInv
  <2> QED
    BY <1>1, <1>3, <1>4, <2>1, <2>3, <2>4
<1>6. CASE ~WriteCommand(t)
  <2>1. toBoard' = toBoard
    BY <1>6, GoesIs DEF GiveWork, board
  <2> QED
    BY <1>1, <1>3, <1>4, <2>1
<1> QED
  BY <1>5, <1>6, Zenon

(***************************************************************************)
(* A process that began with an empty line.                                *)
(***************************************************************************)
LEMMA GoesKeepsAlone ==
  ASSUME OneGiver, TypeOK, ThreadInv, AloneInv, connected, NEW t \in Threads, Goes(t) \/ GiveWork(t)
  PROVE  AloneInv'
<1>1. used'.hasty = used.hasty
  BY OrdinaryIs
<1>2. /\ connected'
      /\ \A p \in 1..Len(toBoard') :
           \/ p \in 1..Len(toBoard) /\ toBoard'[p] = toBoard[p]
           \/ toBoard'[p].kind # "CHIPSTATE"
  BY ConnectedLine
<1> QED
  BY <1>1, <1>2 DEF AloneInv, StateAt

LEMMA ConnectingKeepsAlone ==
  ASSUME OneGiver, TypeOK, ThreadInv, AloneInv, ~connected, NEW t \in Threads, Goes(t)
  PROVE  AloneInv'
<1>1. UNCHANGED toHost /\ used'.hasty = used.hasty
  BY ConnectingIs, OrdinaryIs
<1>2. NoOk' <=> NoOk
  BY <1>1 DEF NoOk
<1>3. Giver.pc \in {"connect", "connectState", "connected"} \/ Stopping \/ Asking
  BY DEF ThreadInv, ConnectInv
<1>4. Giver.pc \in Waits => Giver.cmd.index # 0
  BY <1>3 DEF Stopping, Asking, Waits, Command, ConnectIndex
<1> SUFFICES ASSUME used.hasty = 0
             PROVE  AloneInv'
  BY <1>1 DEF AloneInv
<1>5. /\ Giver.pc \in Waits /\ Giver.pc \notin {"lock", "write"} =>
           /\ toBoard = <<>> \/ (toBoard = <<Giver.cmd>> /\ NoOk)
           /\ \A k, m \in 1..Len(toHost) : toHost[k].kind = "OK" /\ toHost[m].kind = "OK" => k = m
      /\ Giver.pc \notin {"arm", "waiting", "woken"} \/ Matches => toBoard = <<>> /\ NoOk
      /\ Giver.pc = "waiting" => lastReq = 0
  BY DEF AloneInv
<1>6. CASE Locks
  BY <1>1, <1>2, <1>5, <1>6 DEF Locks, Same, AloneInv, Waits
<1>7. CASE Writes
  <2>1. toBoard = <<>> /\ NoOk
    BY <1>5, <1>7 DEF Writes
  <2>2. toBoard' = <<Giver'.cmd>>
    BY <1>7, <2>1 DEF Writes, Same
  <2>3. \A k, m \in 1..Len(toHost') : ~(toHost'[k].kind = "OK")
    BY <1>1, <2>1 DEF NoOk
  <2> QED
    BY <1>2, <1>7, <2>1, <2>2, <2>3 DEF Writes, Same, AloneInv, Matches
<1>8. CASE Arms
  BY <1>1, <1>2, <1>5, <1>8 DEF Arms, Same, AloneInv, Matches, Waits
<1>9. CASE Wakes
  <2>1. ~Matches'
    BY <1>4, <1>5, <1>9 DEF Wakes, Same, Matches, Waits
  <2> QED
    BY <1>1, <1>2, <1>5, <1>9, <2>1 DEF Wakes, Same, AloneInv, Waits
<1>10. CASE Aborts
  BY <1>1, <1>2, <1>5, <1>10 DEF Aborts, AloneInv, Matches
<1>11. CASE Stopped \/ Asked \/ Stops \/ AsksState
  <2>1. Giver'.pc \in {"connectState", "connected", "lock"} /\ toBoard' = toBoard
    BY <1>11 DEF Stopped, Asked, Stops, AsksState
  <2>2. toBoard = <<>> /\ NoOk
    BY <1>5, <1>11 DEF Stopped, Asked, Stops, AsksState
  <2>3. connected' = connected
    BY <1>11 DEF Stopped, Asked, Stops, AsksState
  <2> QED
    BY <1>2, <2>1, <2>2, <2>3 DEF AloneInv, Waits
<1>12. CASE Ends
  <2>1. toBoard' = <<>> /\ NoOk'
    BY <1>2, <1>5, <1>12 DEF Ends
  <2>2. CASE connected'
    BY <2>1, <2>2 DEF AloneInv
  <2>3. CASE ~connected'
    <3>1. Giver'.pc = "connectState"
      BY <1>12, <2>3 DEF Ends
    <3> QED
      BY <2>1, <2>3, <3>1 DEF AloneInv, Waits
  <2> QED
    BY <2>2, <2>3
<1> QED
  BY <1>6, <1>7, <1>8, <1>9, <1>10, <1>11, <1>12, ConnectingIs

\* An answer or a result is read that the process does not wait for.
LEMMA TailKeepsAlone ==
  ASSUME OneGiver, TypeOK, AloneInv, toHost # <<>>, toHost' = Tail(toHost),
         Giver'.pc = Giver.pc, Giver'.cmd = Giver.cmd,
         UNCHANGED <<connected, lastReq, toBoard, used>>
  PROVE  AloneInv'
<1>1. \A k \in 1..Len(toHost') : k + 1 \in 1..Len(toHost) /\ toHost'[k] = toHost[k + 1]
  BY TailReports
<1>2. NoOk => NoOk'
  BY <1>1 DEF NoOk
<1>3. ASSUME \A k, m \in 1..Len(toHost) : toHost[k].kind = "OK" /\ toHost[m].kind = "OK" => k = m
      PROVE  \A k, m \in 1..Len(toHost') : toHost'[k].kind = "OK" /\ toHost'[m].kind = "OK" => k = m
  <2> SUFFICES ASSUME NEW k \in 1..Len(toHost'), NEW m \in 1..Len(toHost'),
                      toHost'[k].kind = "OK", toHost'[m].kind = "OK"
               PROVE  k = m
    OBVIOUS
  <2>1. k + 1 \in 1..Len(toHost) /\ m + 1 \in 1..Len(toHost)
        /\ toHost[k + 1].kind = "OK" /\ toHost[m + 1].kind = "OK"
    BY <1>1
  <2>2. k + 1 = m + 1
    BY <1>3, <2>1
  <2> QED
    BY <2>2
<1>4. Matches' <=> Matches
  BY DEF Matches
<1> QED
  BY <1>2, <1>3, <1>4 DEF AloneInv, StateAt

LEMMA PollKeepsAlone ==
  ASSUME OneGiver, TypeOK, AloneInv, ReadAnswer \/ HwWonWork \/ HwFinishedWork
  PROVE  AloneInv'
<1>0. Connecting \in Threads
  BY Constants
<1>1. CASE HwWonWork \/ HwFinishedWork
  BY <1>1, TailKeepsAlone DEF HwWonWork, HwFinishedWork, Reads, Giver
<1>2. CASE ReadAnswer
  <2>1. /\ Giver'.cmd = Giver.cmd
        /\ Giver'.pc = IF line.kind = "OK" /\ Giver.pc = "waiting" THEN "woken" ELSE Giver.pc
        /\ line.kind # "OK" => lastReq' = lastReq
        /\ toHost # <<>> /\ toHost' = Tail(toHost)
        /\ UNCHANGED <<connected, toBoard, used>>
    BY <1>0, <1>2, AnswerIs DEF Giver
  <2>2. CASE line.kind # "OK"
    BY <2>1, <2>2, TailKeepsAlone
  <2>3. CASE line.kind = "OK" /\ connected
    BY <2>1, <2>3 DEF AloneInv, StateAt
  <2>4. CASE line.kind = "OK" /\ ~connected
    <3> SUFFICES ASSUME used.hasty = 0 PROVE AloneInv'
      BY <2>1 DEF AloneInv
    <3>1. /\ \A k \in 1..Len(toHost') : k + 1 \in 1..Len(toHost) /\ toHost'[k] = toHost[k + 1]
          /\ 1 \in 1..Len(toHost) /\ line = toHost[1]
      BY <2>1, TailReports
    <3>2. ~NoOk
      BY <2>4, <3>1 DEF NoOk
    <3>3. Giver.pc \in {"arm", "waiting", "woken"} /\ toBoard = <<>>
          /\ \A k, m \in 1..Len(toHost) : toHost[k].kind = "OK" /\ toHost[m].kind = "OK" => k = m
      BY <2>4, <3>2 DEF AloneInv, Waits
    <3>4. \A k \in 1..Len(toHost') : toHost'[k].kind # "OK"
      <4> SUFFICES ASSUME NEW k \in 1..Len(toHost'), toHost'[k].kind = "OK" PROVE FALSE
        OBVIOUS
      <4>1. k + 1 \in 1..Len(toHost) /\ toHost[k + 1].kind = "OK" /\ toHost[1].kind = "OK"
        BY <2>4, <3>1
      <4>2. k + 1 = 1
        BY <3>1, <3>3, <4>1
      <4> QED
        BY <4>2
    <3>5. NoOk' /\ toBoard' = <<>> /\ Giver'.pc # "waiting"
      BY <2>1, <2>4, <3>3, <3>4 DEF NoOk
    <3> QED
      BY <2>1, <2>4, <3>4, <3>5 DEF AloneInv
  <2> QED
    BY <2>2, <2>3, <2>4
<1> QED
  BY <1>1, <1>2

LEMMA TakeKeepsAlone ==
  ASSUME OneGiver, TypeOK, AloneInv, BoardTakesCommand
  PROVE  AloneInv'
<1>1. /\ Len(toBoard) \in Nat /\ 1 \in 1..Len(toBoard) /\ Len(toBoard') = Len(toBoard) - 1
      /\ \A p \in 1..Len(toBoard') : p + 1 \in 1..Len(toBoard) /\ toBoard'[p] = toBoard[p + 1]
      /\ Len(toHost) \in Nat
      /\ \A k \in 1..Len(toHost) : toHost'[k] = toHost[k]
      /\ \A k \in 1..Len(toHost') : k \in 1..Len(toHost) \/ k = Len(toHost) + 1
  BY TakenIs
<1>2. UNCHANGED <<thread, connected, lastReq, used>> /\ toBoard # <<>>
  BY TakesIs DEF process
<1>3. Giver' = Giver /\ (Matches' <=> Matches)
  BY <1>2 DEF Giver, Matches
<1> SUFFICES ASSUME used.hasty = 0 PROVE AloneInv'
  BY <1>2 DEF AloneInv
<1>4. CASE connected
  BY <1>1, <1>2, <1>4 DEF AloneInv, StateAt
<1>5. CASE ~connected
  <2>1. Giver.pc \in {"arm", "waiting", "woken"} /\ ~Matches
    BY <1>2, <1>5 DEF AloneInv
  <2>2. toBoard = <<Giver.cmd>> /\ NoOk
    BY <1>2, <1>5, <2>1 DEF AloneInv, Waits
  <2>3. toBoard' = <<>>
    BY <2>2 DEF BoardTakesCommand
  <2>4. \A k, m \in 1..Len(toHost') : toHost'[k].kind = "OK" /\ toHost'[m].kind = "OK" => k = m
    BY <1>1, <2>2 DEF NoOk
  <2> QED
    BY <1>2, <1>3, <1>5, <2>1, <2>3, <2>4 DEF AloneInv
<1> QED
  BY <1>4, <1>5

LEMMA FrontKeepsAlone ==
  ASSUME OneGiver, TypeOK, AloneInv, BoardFinishes \/ BoardWins
  PROVE  AloneInv'
<1>1. /\ Len(toHost) \in Nat
      /\ \A k \in 1..Len(toHost) : toHost'[k] = toHost[k]
      /\ \A k \in 1..Len(toHost') : k \in 1..Len(toHost) \/ k = Len(toHost) + 1
      /\ toHost'[Len(toHost) + 1].kind # "OK"
  BY ToldOfFront
<1>2. UNCHANGED <<thread, connected, lastReq, toBoard, used>>
  BY DEF BoardFinishes, BoardWins, process
<1>3. Giver' = Giver /\ (Matches' <=> Matches)
  BY <1>2 DEF Giver, Matches
<1>4. NoOk => NoOk'
  BY <1>1 DEF NoOk
<1>5. (\A k, m \in 1..Len(toHost) : toHost[k].kind = "OK" /\ toHost[m].kind = "OK" => k = m)
      => (\A k, m \in 1..Len(toHost') : toHost'[k].kind = "OK" /\ toHost'[m].kind = "OK" => k = m)
  BY <1>1
<1> QED
  BY <1>2, <1>3, <1>4, <1>5 DEF AloneInv, StateAt

LEMMA RestartKeepsAlone ==
  ASSUME OneGiver, TypeOK, Restart
  PROVE  AloneInv'
<1>1. /\ toHost' = <<>> /\ UNCHANGED toBoard /\ thread' = Started /\ ~connected'
      /\ used'.hasty = IF toBoard = <<>> THEN used.hasty ELSE used.hasty + 1
  BY DEF Restart, TypeOK, Counts
<1>2. Giver'.pc = "connect"
  BY <1>1, StartedIs DEF Giver
<1>3. used.hasty \in Nat
  BY DEF TypeOK, Counts
<1>4. used'.hasty = 0 => toBoard' = <<>>
  BY <1>1, <1>3
<1>5. NoOk'
  <2>1. Len(toHost') = 0
    BY <1>1
  <2>2. \A k \in 1..Len(toHost') : FALSE
    BY <2>1
  <2> QED
    BY <2>2 DEF NoOk
<1> QED
  BY <1>1, <1>2, <1>4, <1>5 DEF AloneInv, Waits

(***************************************************************************)
(* A process that found one line of another.                               *)
(***************************************************************************)
LEMMA GoesKeepsSecond ==
  ASSUME OneGiver, TypeOK, ThreadInv, SecondInv, connected, NEW t \in Threads, Goes(t) \/ GiveWork(t)
  PROVE  SecondInv'
<1>1. used'.hasty = used.hasty
  BY OrdinaryIs
<1>2. /\ connected' /\ maxJobs' = maxJobs /\ Len(toBoard) \in Nat
      /\ \A p \in 1..Len(toBoard') :
           \/ p \in 1..Len(toBoard) /\ toBoard'[p] = toBoard[p]
           \/ /\ p = Len(toBoard) + 1 /\ toBoard'[p].kind # "CHIPSTATE"
              /\ toBoard'[p].kind = "DO_WORK" => maxJobs > 0
  BY ConnectedLine
<1> SUFFICES ASSUME used.hasty = 1
             PROVE  /\ maxJobs' > 0 => \A p \in 1..Len(toBoard') : ~StateAt(p)'
                    /\ NoWorkBehind'
  BY <1>1, <1>2 DEF SecondInv
<1>3. maxJobs > 0 => \A p \in 1..Len(toBoard) : ~StateAt(p)
  BY DEF SecondInv
<1>4. NoWorkBehind
  BY DEF SecondInv
<1>5. maxJobs' > 0 => \A p \in 1..Len(toBoard') : ~StateAt(p)'
  BY <1>2, <1>3 DEF StateAt
<1>6. ASSUME NEW p \in 1..Len(toBoard'), NEW q \in 1..Len(toBoard'), p < q, StateAt(p)'
      PROVE  ~WorkAt(q)'
  <2>1. p \in 1..Len(toBoard) /\ toBoard'[p] = toBoard[p] /\ StateAt(p)
    BY <1>2, <1>6 DEF StateAt
  <2>2. CASE q \in 1..Len(toBoard) /\ toBoard'[q] = toBoard[q]
    <3>1. ~WorkAt(q)
      BY <1>4, <1>6, <2>1, <2>2 DEF NoWorkBehind
    <3> QED
      BY <2>2, <3>1 DEF WorkAt
  <2>3. CASE toBoard'[q].kind = "DO_WORK" => maxJobs > 0
    BY <1>3, <2>1, <2>3 DEF WorkAt
  <2> QED
    BY <1>2, <2>2, <2>3
<1> QED
  BY <1>5, <1>6 DEF NoWorkBehind

LEMMA ConnectingKeepsSecond ==
  ASSUME OneGiver, TypeOK, ThreadInv, StateInv, SecondInv, ~connected, NEW t \in Threads, Goes(t)
  PROVE  SecondInv'
<1>1. UNCHANGED <<toHost, lastResp>> /\ used'.hasty = used.hasty
  BY ConnectingIs, OrdinaryIs
<1>2. Giver.pc \in {"connect", "connectState", "connected"} \/ Stopping \/ Asking
  BY DEF ThreadInv, ConnectInv
<1>3. Giver.pc \in Waits => Giver.cmd.index # 0
  BY <1>2 DEF Stopping, Asking, Waits, Command, ConnectIndex
<1> SUFFICES ASSUME used.hasty = 1
             PROVE  SecondInv'
  BY <1>1 DEF SecondInv
<1>4. /\ Giver.pc = "waiting" => lastReq = 0
      /\ Giver.pc = "connect" \/ Stopping => StatesFirst
      /\ Knows => NoState
      /\ Asking => OneState
  BY DEF SecondInv
<1>5. toBoard' = toBoard => /\ StatesFirst' <=> StatesFirst
                            /\ NoState' <=> NoState
                            /\ OneState' <=> OneState
  BY <1>1 DEF StatesFirst, NoState, OneState, StateAt, ToldAt
<1>6. CASE Locks
  <2>1. /\ Giver'.pc = "write" /\ toBoard' = toBoard /\ connected' = connected
        /\ (Stopping' => Stopping) /\ (Asking' => Asking) /\ ~Matches'
    BY <1>6 DEF Locks, Same, Stopping, Asking, Waits, Matches
  <2>2. Asking' => Knows
    BY <1>6, <2>1 DEF Locks, Knows
  <2> QED
    BY <1>4, <1>5, <2>1, <2>2 DEF SecondInv, Knows
<1>7. CASE Writes
  <2>1. /\ Giver.pc = "write" /\ Giver'.pc = "arm" /\ connected' = connected
        /\ (Stopping' => Stopping) /\ (Asking' => Asking) /\ ~Matches'
    BY <1>7 DEF Writes, Same, Stopping, Asking, Waits, Matches
  <2>2. ~Knows'
    BY <2>1 DEF Knows
  <2>3. /\ Len(toBoard) \in Nat
        /\ \A p \in 1..Len(toBoard) : toBoard'[p] = toBoard[p]
        /\ \A p \in 1..Len(toBoard') :
             p \in 1..Len(toBoard) \/ (p = Len(toBoard) + 1 /\ toBoard'[p] = Giver.cmd)
    BY ConnectingLine
  <2>4. ASSUME Stopping PROVE StatesFirst'
    <3>1. StatesFirst
      BY <1>4, <2>4
    <3>2. Giver.cmd.kind # "CHIPSTATE"
      BY <2>4 DEF Stopping, Command
    <3>3. ASSUME NEW q \in 1..Len(toBoard'), StateAt(q)'
          PROVE  q \in 1..Len(toBoard) /\ StateAt(q)
      BY <2>3, <3>2, <3>3 DEF StateAt
    <3>4. \A p, q \in 1..Len(toBoard') : p < q /\ StateAt(q)' => toBoard'[p].index # ConnectIndex
      <4> SUFFICES ASSUME NEW p \in 1..Len(toBoard'), NEW q \in 1..Len(toBoard'), p < q, StateAt(q)'
                   PROVE  toBoard'[p].index # ConnectIndex
        OBVIOUS
      <4>1. q \in 1..Len(toBoard) /\ StateAt(q) /\ p \in 1..Len(toBoard)
        BY <2>3, <3>3
      <4> QED
        BY <2>3, <3>1, <4>1 DEF StatesFirst
    <3> QED
      BY <1>1, <3>1, <3>3, <3>4 DEF StatesFirst, ToldAt
  <2>5. ASSUME Asking PROVE OneState'
    <3>1. NoState
      BY <1>4, <2>1, <2>5 DEF Knows
    <3>2. \A k \in 1..Len(toHost') : ~ToldAt(k)'
      BY <1>1, <3>1 DEF NoState, ToldAt
    <3>3. \A p \in 1..Len(toBoard') : StateAt(p)' => p = Len(toBoard) + 1
      BY <2>3, <3>1 DEF NoState, StateAt
    <3> QED
      BY <3>2, <3>3 DEF OneState
  <2>6. Giver'.pc # "connect" /\ Giver'.pc # "waiting"
    BY <2>1
  <2> QED
    BY <2>1, <2>2, <2>4, <2>5, <2>6 DEF SecondInv
<1>8. CASE Arms
  <2>1. /\ lastReq' = 0 /\ Giver'.pc = "waiting" /\ toBoard' = toBoard /\ connected' = connected
        /\ (Stopping' => Stopping) /\ (Asking' => Asking) /\ ~Matches'
    BY <1>8 DEF Arms, Same, Stopping, Asking, Waits, Matches
  <2> QED
    BY <1>4, <1>5, <2>1 DEF SecondInv, Knows
<1>9. CASE Wakes
  <2>1. /\ Giver'.pc = "woken" /\ toBoard' = toBoard /\ connected' = connected
        /\ (Stopping' => Stopping) /\ (Asking' => Asking)
    BY <1>9 DEF Wakes, Same, Stopping, Asking, Waits
  <2>2. ~Matches'
    BY <1>3, <1>4, <1>9 DEF Wakes, Same, Matches, Waits
  <2> QED
    BY <1>4, <1>5, <2>1, <2>2 DEF SecondInv, Knows
<1>10. CASE Aborts
  BY <1>1, <1>4, <1>5, <1>10 DEF Aborts, SecondInv, Knows, Matches, Stopping, Asking
<1>11. CASE Stopped \/ Asked
  <2>1. toBoard' = toBoard /\ connected' = connected /\ Giver'.pc \in {"connectState", "connected"}
    BY <1>11 DEF Stopped, Asked
  <2>2. ~Stopping' /\ ~Asking' /\ Giver'.pc \notin {"connect", "waiting"}
    BY <2>1 DEF Stopping, Asking, Waits
  <2>3. Knows' => Knows
    <3>1. CASE Stopped
      BY <3>1 DEF Stopped, Knows
    <3>2. CASE Asked
      <4>1. Asking /\ Matches /\ Giver'.pc = "connected"
            /\ Giver'.running = EngineRunning(lastResp) /\ maxJobs' = FreeSlots(lastResp)
        BY <3>2 DEF Asked
      <4>2. Giver'.running \/ maxJobs' > 0 => lastResp # 0
        BY <4>1, NothingTold
      <4>3. Knows' => Giver'.running \/ maxJobs' > 0
        BY <2>2, <4>1 DEF Knows
      <4> QED
        BY <4>1, <4>2, <4>3 DEF Knows
    <3> QED
      BY <1>11, <3>1, <3>2
  <2> QED
    BY <1>4, <1>5, <2>1, <2>2, <2>3 DEF SecondInv
<1>12. CASE Stops
  <2>1. toBoard' = toBoard /\ connected' = connected /\ Giver'.pc = "lock" /\ Giver.pc = "connect"
        /\ ~Asking' /\ ~Matches'
    BY <1>12 DEF Stops, Stopping, Asking, Command, Matches
  <2> QED
    BY <1>4, <1>5, <2>1 DEF SecondInv, Knows
<1>13. CASE AsksState
  <2>1. toBoard' = toBoard /\ connected' = connected /\ Giver'.pc = "lock" /\ Giver.pc = "connectState"
        /\ ~Stopping'
    BY <1>13 DEF AsksState, Stopping, Asking, Command
  <2>2. NoState
    BY <1>4, <2>1 DEF Knows
  <2>3. OneState
    BY <2>2 DEF NoState, OneState
  <2> QED
    BY <1>5, <2>1, <2>2, <2>3 DEF SecondInv
<1>14. CASE Ends
  <2>1. toBoard' = toBoard /\ maxJobs' = maxJobs /\ Giver.pc = "connected"
    BY <1>14 DEF Ends
  <2>2. CASE connected'
    <3>1. maxJobs' > 0 => \A p \in 1..Len(toBoard') : ~StateAt(p)'
      BY <1>4, <2>1 DEF Knows, NoState, StateAt
    <3>2. NoWorkBehind'
      BY <2>1 DEF StateInv, Few, NoWorkBehind, StateAt, WorkAt
    <3> QED
      BY <2>2, <3>1, <3>2 DEF SecondInv
  <2>3. CASE ~connected'
    <3>1. Giver.running /\ Giver'.pc = "connectState"
      BY <1>14, <2>3 DEF Ends
    <3>2. NoState
      BY <1>4, <2>1, <3>1 DEF Knows
    <3>3. ~Stopping' /\ ~Asking' /\ Giver'.pc \notin {"connect", "waiting"}
      BY <3>1 DEF Stopping, Asking, Waits
    <3> QED
      BY <1>5, <2>1, <2>3, <3>2, <3>3 DEF SecondInv
  <2> QED
    BY <2>2, <2>3
<1> QED
  BY <1>6, <1>7, <1>8, <1>9, <1>10, <1>11, <1>12, <1>13, <1>14, ConnectingIs

\* One answer fewer.
LEMMA TailKeepsStates ==
  ASSUME TypeOK, toHost # <<>>, toHost' = Tail(toHost), UNCHANGED toBoard
  PROVE  (StatesFirst => StatesFirst') /\ (OneState => OneState') /\ (NoState => NoState')
<1>1. \A k \in 1..Len(toHost') : k + 1 \in 1..Len(toHost) /\ toHost'[k] = toHost[k + 1]
  BY TailReports
<1>2. \A k \in 1..Len(toHost') : ToldAt(k)' <=> ToldAt(k + 1)
  BY <1>1 DEF ToldAt
<1>3. \A p \in 1..Len(toBoard') : p \in 1..Len(toBoard) /\ toBoard'[p] = toBoard[p] /\ (StateAt(p)' <=> StateAt(p))
  BY DEF StateAt
<1>4. ASSUME StatesFirst PROVE StatesFirst'
  <2>1. \A p, q \in 1..Len(toBoard') : p < q /\ StateAt(q)' => toBoard'[p].index # ConnectIndex
    BY <1>3, <1>4 DEF StatesFirst
  <2>2. \A k \in 1..Len(toHost'), q \in 1..Len(toBoard') :
           toHost'[k].kind = "OK" /\ StateAt(q)' => toHost'[k].index # ConnectIndex
    BY <1>1, <1>3, <1>4 DEF StatesFirst
  <2>3. ASSUME NEW k \in 1..Len(toHost'), NEW m \in 1..Len(toHost'),
               k < m, toHost'[k].kind = "OK", ToldAt(m)'
        PROVE  toHost'[k].index # ConnectIndex
    <3>1. k + 1 \in 1..Len(toHost) /\ m + 1 \in 1..Len(toHost) /\ k + 1 < m + 1
          /\ toHost'[k] = toHost[k + 1]
      BY <1>1, <2>3
    <3>2. ToldAt(m + 1)
      BY <1>2, <2>3
    <3> QED
      BY <1>4, <2>3, <3>1, <3>2 DEF StatesFirst
  <2> QED
    BY <2>1, <2>2, <2>3 DEF StatesFirst
<1>5. ASSUME OneState PROVE OneState'
  <2>1. \A p, q \in 1..Len(toBoard') : StateAt(p)' /\ StateAt(q)' => p = q
    BY <1>3, <1>5 DEF OneState
  <2>2. ASSUME NEW k \in 1..Len(toHost'), NEW m \in 1..Len(toHost'), ToldAt(k)', ToldAt(m)'
        PROVE  k = m
    <3>1. k + 1 \in 1..Len(toHost) /\ m + 1 \in 1..Len(toHost) /\ ToldAt(k + 1) /\ ToldAt(m + 1)
      BY <1>1, <1>2, <2>2
    <3>2. k + 1 = m + 1
      BY <1>5, <3>1 DEF OneState
    <3> QED
      BY <3>2
  <2>3. \A k \in 1..Len(toHost'), p \in 1..Len(toBoard') : ~(ToldAt(k)' /\ StateAt(p)')
    BY <1>1, <1>2, <1>3, <1>5 DEF OneState
  <2> QED
    BY <2>1, <2>2, <2>3 DEF OneState
<1>6. ASSUME NoState PROVE NoState'
  BY <1>1, <1>2, <1>3, <1>6 DEF NoState
<1> QED
  BY <1>4, <1>5, <1>6

LEMMA PollKeepsSecond ==
  ASSUME OneGiver, TypeOK, SecondInv, ReadAnswer \/ HwWonWork \/ HwFinishedWork
  PROVE  SecondInv'
<1>0. Connecting \in Threads
  BY Constants
<1>1. /\ toHost # <<>> /\ toHost' = Tail(toHost)
      /\ UNCHANGED <<connected, maxJobs, toBoard, used>>
      /\ Giver'.cmd = Giver.cmd /\ Giver'.ret = Giver.ret /\ Giver'.running = Giver.running
      /\ \/ Giver'.pc = Giver.pc /\ lastReq' = lastReq /\ lastResp' = lastResp
         \/ /\ line.kind = "OK" /\ lastReq' = line.index /\ lastResp' = line.state
            /\ Giver'.pc = IF Giver.pc = "waiting" THEN "woken" ELSE Giver.pc
  <2>1. CASE HwWonWork \/ HwFinishedWork
    BY <2>1 DEF HwWonWork, HwFinishedWork, Reads, Giver
  <2>2. CASE ReadAnswer
    BY <1>0, <2>2, AnswerIs DEF Giver
  <2> QED
    BY <2>1, <2>2
<1> SUFFICES ASSUME used.hasty = 1 PROVE SecondInv'
  BY <1>1 DEF SecondInv
<1>2. CASE connected
  BY <1>1, <1>2 DEF SecondInv, NoWorkBehind, StateAt, WorkAt
<1>3. CASE ~connected
  <2>1. /\ Giver.pc = "waiting" => lastReq = 0
        /\ Giver.pc = "connect" \/ Stopping => StatesFirst
        /\ Knows => NoState
        /\ Asking => OneState
    BY <1>3 DEF SecondInv
  <2>2. (StatesFirst => StatesFirst') /\ (OneState => OneState') /\ (NoState => NoState')
    BY <1>1, TailKeepsStates
  <2>3. /\ Stopping' => Stopping
        /\ Asking' => Asking
        /\ Giver'.pc \in {"connect", "connectState", "connected", "lock", "write"} => Giver'.pc = Giver.pc
    BY <1>1 DEF Stopping, Asking, Waits
  <2>4. CASE Giver'.pc = Giver.pc /\ lastReq' = lastReq /\ lastResp' = lastResp
    BY <1>1, <1>3, <2>1, <2>2, <2>3, <2>4 DEF SecondInv, Knows, Matches
  <2>5. CASE /\ line.kind = "OK" /\ lastReq' = line.index /\ lastResp' = line.state
             /\ Giver'.pc = IF Giver.pc = "waiting" THEN "woken" ELSE Giver.pc
    <3>1. /\ \A k \in 1..Len(toHost') : k + 1 \in 1..Len(toHost) /\ toHost'[k] = toHost[k + 1]
          /\ 1 \in 1..Len(toHost) /\ line = toHost[1] /\ Len(toHost) \in Nat
      BY <1>1, TailReports
    <3>2. \A k \in 1..Len(toHost') : 1 < k + 1 /\ (ToldAt(k)' <=> ToldAt(k + 1))
      BY <3>1 DEF ToldAt
    <3>3. ASSUME Stopping', Matches' PROVE NoState'
      <4>1. StatesFirst
        BY <2>1, <2>3, <3>3
      <4>2. toHost[1].kind = "OK" /\ toHost[1].index = ConnectIndex
        BY <2>5, <3>1, <3>3 DEF Stopping, Matches, Command
      <4>3. \A p \in 1..Len(toBoard) : ~StateAt(p)
        BY <3>1, <4>1, <4>2 DEF StatesFirst
      <4>4. \A m \in 1..Len(toHost) : 1 < m => ~ToldAt(m)
        BY <3>1, <4>1, <4>2 DEF StatesFirst
      <4>5. \A k \in 1..Len(toHost') : ~ToldAt(k)'
        BY <3>1, <3>2, <4>4
      <4> QED
        BY <1>1, <4>3, <4>5 DEF NoState, StateAt
    <3>4. ASSUME Asking', lastResp' # 0 PROVE NoState'
      <4>1. OneState
        BY <2>1, <2>3, <3>4
      <4>2. ToldAt(1)
        BY <2>5, <3>1, <3>4 DEF ToldAt
      <4>3. \A p \in 1..Len(toBoard) : ~StateAt(p)
        BY <3>1, <4>1, <4>2 DEF OneState
      <4>4. \A m \in 1..Len(toHost) : 1 < m => ~ToldAt(m)
        BY <3>1, <4>1, <4>2 DEF OneState
      <4>5. \A k \in 1..Len(toHost') : ~ToldAt(k)'
        BY <3>1, <3>2, <4>4
      <4> QED
        BY <1>1, <4>3, <4>5 DEF NoState, StateAt
    <3>5. Knows' => NoState'
      BY <1>1, <2>1, <2>2, <2>3, <3>3, <3>4 DEF Knows
    <3>6. Giver'.pc # "waiting"
      BY <2>5
    <3> QED
      BY <1>1, <1>3, <2>1, <2>2, <2>3, <3>5, <3>6 DEF SecondInv
  <2> QED
    BY <1>1, <2>4, <2>5
<1> QED
  BY <1>2, <1>3

LEMMA TakeKeepsSecond ==
  ASSUME OneGiver, TypeOK, SecondInv, BoardTakesCommand
  PROVE  SecondInv'
<1>1. /\ Len(toBoard) \in Nat /\ 1 \in 1..Len(toBoard) /\ toBoard[1] = Head(toBoard)
      /\ \A p \in 1..Len(toBoard') : p + 1 \in 1..Len(toBoard) /\ toBoard'[p] = toBoard[p + 1]
      /\ Len(toHost) \in Nat /\ Len(toHost') = Len(toHost) + 1
      /\ \A k \in 1..Len(toHost) : k \in 1..Len(toHost') /\ toHost'[k] = toHost[k]
      /\ \A k \in 1..Len(toHost') : k \in 1..Len(toHost) \/ k = Len(toHost) + 1
  BY TakenIs
<1>2. PICK kind \in {"OK", "NO_SPACE"}, s \in Nat :
         /\ toHost' = Append(toHost, Response(kind, Head(toBoard).index, s, None))
         /\ Response(kind, Head(toBoard).index, s, None) \in Responses
         /\ s # 0 => Head(toBoard).kind = "CHIPSTATE"
  BY TakesIs
<1>3. toHost'[Len(toHost) + 1] = Response(kind, Head(toBoard).index, s, None)
  BY <1>2, AnsweredIs DEF TypeOK
<1>4. toHost'[Len(toHost) + 1].index = toBoard[1].index
  BY <1>1, <1>3 DEF Response
<1>5. \A k \in 1..Len(toHost') : k = Len(toHost) + 1 /\ ToldAt(k)' => StateAt(1)
  <2>1. toHost'[Len(toHost) + 1].state = s
    BY <1>3 DEF Response
  <2>2. toHost'[Len(toHost) + 1].state # 0 => StateAt(1)
    BY <1>1, <1>2, <2>1 DEF StateAt
  <2> QED
    BY <2>2 DEF ToldAt
<1>6. UNCHANGED <<thread, connected, lastReq, lastResp, maxJobs, used>>
  BY TakesIs DEF process
<1>7. \A p \in 1..Len(toBoard') : 1 < p + 1 /\ (StateAt(p)' <=> StateAt(p + 1)) /\ (WorkAt(p)' <=> WorkAt(p + 1))
  BY <1>1 DEF StateAt, WorkAt
<1>8. \A k \in 1..Len(toHost) : ToldAt(k)' <=> ToldAt(k)
  BY <1>1 DEF ToldAt
<1> SUFFICES ASSUME used.hasty = 1 PROVE SecondInv'
  BY <1>6 DEF SecondInv
<1>9. CASE connected
  <2>1. maxJobs' > 0 => \A p \in 1..Len(toBoard') : ~StateAt(p)'
    BY <1>1, <1>6, <1>7, <1>9 DEF SecondInv
  <2>2. ASSUME NEW p \in 1..Len(toBoard'), NEW q \in 1..Len(toBoard'), p < q, StateAt(p)'
        PROVE  ~WorkAt(q)'
    <3>1. p + 1 \in 1..Len(toBoard) /\ q + 1 \in 1..Len(toBoard) /\ p + 1 < q + 1 /\ StateAt(p + 1)
      BY <1>1, <1>7, <2>2
    <3>2. ~WorkAt(q + 1)
      BY <1>9, <3>1 DEF SecondInv, NoWorkBehind
    <3> QED
      BY <1>7, <3>2
  <2> QED
    BY <1>6, <1>9, <2>1, <2>2 DEF SecondInv, NoWorkBehind
<1>10. CASE ~connected
  <2>1. /\ Giver.pc = "waiting" => lastReq = 0
        /\ Giver.pc = "connect" \/ Stopping => StatesFirst
        /\ Knows => NoState
        /\ Asking => OneState
    BY <1>10 DEF SecondInv
  <2>2. /\ Giver' = Giver /\ (Knows' <=> Knows) /\ (Stopping' <=> Stopping) /\ (Asking' <=> Asking)
    BY <1>6 DEF Giver, Knows, Stopping, Asking, Matches
  <2>3. ASSUME StatesFirst PROVE StatesFirst'
    <3>1. ASSUME NEW p \in 1..Len(toBoard'), NEW q \in 1..Len(toBoard'), p < q, StateAt(q)'
          PROVE  toBoard'[p].index # ConnectIndex
      <4>1. p + 1 \in 1..Len(toBoard) /\ q + 1 \in 1..Len(toBoard) /\ p + 1 < q + 1 /\ StateAt(q + 1)
            /\ toBoard'[p] = toBoard[p + 1]
        BY <1>1, <1>7, <3>1
      <4> QED
        BY <2>3, <4>1 DEF StatesFirst
    <3>2. ASSUME NEW k \in 1..Len(toHost'), NEW q \in 1..Len(toBoard'), toHost'[k].kind = "OK", StateAt(q)'
          PROVE  toHost'[k].index # ConnectIndex
      <4>1. q + 1 \in 1..Len(toBoard) /\ 1 < q + 1 /\ StateAt(q + 1)
        BY <1>1, <1>7, <3>2
      <4>2. CASE k \in 1..Len(toHost)
        BY <1>1, <2>3, <3>2, <4>1, <4>2 DEF StatesFirst
      <4>3. CASE k = Len(toHost) + 1
        BY <1>1, <1>4, <2>3, <4>1, <4>3 DEF StatesFirst
      <4> QED
        BY <1>1, <4>2, <4>3
    <3>3. ASSUME NEW k \in 1..Len(toHost'), NEW m \in 1..Len(toHost'),
                 k < m, toHost'[k].kind = "OK", ToldAt(m)'
          PROVE  toHost'[k].index # ConnectIndex
      <4>1. k \in 1..Len(toHost) /\ toHost[k].kind = "OK" /\ toHost'[k] = toHost[k]
        BY <1>1, <3>3
      <4>2. CASE m \in 1..Len(toHost)
        BY <1>8, <2>3, <3>3, <4>1, <4>2 DEF StatesFirst
      <4>3. CASE m = Len(toHost) + 1
        <5>1. StateAt(1)
          BY <1>5, <3>3, <4>3
        <5> QED
          BY <1>1, <2>3, <4>1, <5>1 DEF StatesFirst
      <4> QED
        BY <1>1, <4>2, <4>3
    <3> QED
      BY <3>1, <3>2, <3>3 DEF StatesFirst
  <2>4. ASSUME NoState PROVE NoState'
    <3>1. \A p \in 1..Len(toBoard') : ~StateAt(p)'
      BY <1>1, <1>7, <2>4 DEF NoState
    <3>2. \A k \in 1..Len(toHost') : ~ToldAt(k)'
      BY <1>1, <1>5, <1>8, <2>4 DEF NoState
    <3> QED
      BY <3>1, <3>2 DEF NoState
  <2>5. ASSUME OneState PROVE OneState'
    <3>1. ASSUME NEW p \in 1..Len(toBoard'), NEW q \in 1..Len(toBoard'), StateAt(p)', StateAt(q)'
          PROVE  p = q
      <4>1. p + 1 \in 1..Len(toBoard) /\ q + 1 \in 1..Len(toBoard) /\ StateAt(p + 1) /\ StateAt(q + 1)
        BY <1>1, <1>7, <3>1
      <4>2. p + 1 = q + 1
        BY <2>5, <4>1 DEF OneState
      <4> QED
        BY <4>2
    <3>2. ASSUME NEW k \in 1..Len(toHost), ToldAt(k)
          PROVE  ~StateAt(1)
      BY <1>1, <2>5, <3>2 DEF OneState
    <3>3. ASSUME NEW k \in 1..Len(toHost'), NEW m \in 1..Len(toHost'), ToldAt(k)', ToldAt(m)'
          PROVE  k = m
      <4>1. CASE k \in 1..Len(toHost) /\ m \in 1..Len(toHost)
        BY <1>8, <2>5, <3>3, <4>1 DEF OneState
      <4>2. CASE k \in 1..Len(toHost) /\ m = Len(toHost) + 1
        BY <1>5, <1>8, <3>2, <3>3, <4>2
      <4>3. CASE k = Len(toHost) + 1 /\ m \in 1..Len(toHost)
        BY <1>5, <1>8, <3>2, <3>3, <4>3
      <4> QED
        BY <1>1, <4>1, <4>2, <4>3
    <3>4. ASSUME NEW k \in 1..Len(toHost'), NEW p \in 1..Len(toBoard'), ToldAt(k)', StateAt(p)'
          PROVE  FALSE
      <4>1. p + 1 \in 1..Len(toBoard) /\ 1 < p + 1 /\ StateAt(p + 1)
        BY <1>1, <1>7, <3>4
      <4>2. CASE k \in 1..Len(toHost)
        BY <1>8, <2>5, <3>4, <4>1, <4>2 DEF OneState
      <4>3. CASE k = Len(toHost) + 1
        <5>1. StateAt(1)
          BY <1>5, <3>4, <4>3
        <5>2. 1 = p + 1
          BY <1>1, <2>5, <4>1, <5>1 DEF OneState
        <5> QED
          BY <4>1, <5>2
      <4> QED
        BY <1>1, <4>2, <4>3
    <3> QED
      BY <3>1, <3>3, <3>4 DEF OneState
  <2> QED
    BY <1>6, <1>10, <2>1, <2>2, <2>3, <2>4, <2>5 DEF SecondInv
<1> QED
  BY <1>9, <1>10

LEMMA FrontKeepsSecond ==
  ASSUME OneGiver, TypeOK, SecondInv, BoardFinishes \/ BoardWins
  PROVE  SecondInv'
<1>1. /\ Len(toHost) \in Nat
      /\ \A k \in 1..Len(toHost) : toHost'[k] = toHost[k]
      /\ \A k \in 1..Len(toHost') : k \in 1..Len(toHost) \/ k = Len(toHost) + 1
      /\ toHost'[Len(toHost) + 1].kind # "OK"
  BY ToldOfFront
<1>2. UNCHANGED <<thread, connected, lastReq, lastResp, maxJobs, toBoard, used>>
  BY DEF BoardFinishes, BoardWins, process
<1>3. Giver' = Giver /\ (Knows' <=> Knows) /\ (Stopping' <=> Stopping) /\ (Asking' <=> Asking)
  BY <1>2 DEF Giver, Knows, Stopping, Asking, Matches
<1>4. \A k \in 1..Len(toHost') : toHost'[k].kind = "OK" => k \in 1..Len(toHost) /\ toHost'[k] = toHost[k]
  BY <1>1
<1>5. \A k \in 1..Len(toHost') : ToldAt(k)' => k \in 1..Len(toHost) /\ ToldAt(k)
  BY <1>4 DEF ToldAt
<1>6. StatesFirst => StatesFirst'
  BY <1>2, <1>4, <1>5 DEF StatesFirst, StateAt
<1>7. OneState => OneState'
  BY <1>2, <1>5 DEF OneState, StateAt
<1>8. NoState => NoState'
  BY <1>2, <1>5 DEF NoState, StateAt
<1>9. NoWorkBehind => NoWorkBehind'
  BY <1>2 DEF NoWorkBehind, StateAt, WorkAt
<1> QED
  BY <1>2, <1>3, <1>6, <1>7, <1>8, <1>9 DEF SecondInv, StateAt

LEMMA RestartKeepsSecond ==
  ASSUME OneGiver, TypeOK, AloneInv, Restart
  PROVE  SecondInv'
<1>1. /\ toHost' = <<>> /\ UNCHANGED toBoard /\ thread' = Started /\ ~connected'
      /\ used'.hasty = IF toBoard = <<>> THEN used.hasty ELSE used.hasty + 1
  BY DEF Restart, TypeOK, Counts
<1>2. Giver'.pc = "connect"
  BY <1>1, StartedIs DEF Giver
<1>3. used.hasty \in Nat
  BY DEF TypeOK, Counts
<1>4. \A k \in 1..Len(toHost') : FALSE
  <2>1. Len(toHost') = 0
    BY <1>1
  <2> QED
    BY <2>1
<1>5. ASSUME used'.hasty = 1
      PROVE  \A p, q \in 1..Len(toBoard) : p < q => ~StateAt(q)
  <2>1. CASE toBoard = <<>>
    BY <2>1
  <2>2. CASE toBoard # <<>>
    <3>1. used.hasty = 0
      BY <1>1, <1>3, <1>5, <2>2
    <3>2. CASE connected
      BY <3>1, <3>2 DEF AloneInv
    <3>3. CASE ~connected
      <4>1. toBoard = <<Giver.cmd>>
        BY <2>2, <3>1, <3>3 DEF AloneInv, Waits
      <4>2. Len(toBoard) = 1
        BY <4>1
      <4> QED
        BY <4>2
    <3> QED
      BY <3>2, <3>3
  <2> QED
    BY <2>1, <2>2
<1>6. used'.hasty = 1 => StatesFirst'
  BY <1>1, <1>4, <1>5 DEF StatesFirst, StateAt
<1>7. ~Knows' /\ ~Asking'
  BY <1>2 DEF Knows, Stopping, Asking, Waits
<1> QED
  BY <1>1, <1>2, <1>6, <1>7 DEF SecondInv

-------------------------------------------------------------------------------
(***************************************************************************)
(* Leading zeroes                                                          *)
(***************************************************************************)
\* One command more behind the others.
LEMMA LeadLater ==
  ASSUME NEW s, NEW s2, NEW l, NEW v, NEW n \in Nat, \A p \in 1..n : s2[p] = s[p]
  PROVE  /\ \A p \in 1..(n + 1) : LeadIn(s, l, p, v) => LeadIn(s2, l, p, v)
         /\ s2[n + 1].kind # "LEADING0" /\ LeadIn(s, l, n + 1, v) => LeadIn(s2, l, n + 1 + 1, v)
         /\ s2[n + 1].kind = "LEADING0" /\ s2[n + 1].arg = v => LeadIn(s2, l, n + 1 + 1, v)
<1>1. ASSUME NEW p \in 1..(n + 1), LeadIn(s, l, p, v) PROVE LeadIn(s2, l, p, v)
  <2>1. \A q \in 1..(p - 1) : q \in 1..n
    OBVIOUS
  <2>2. CASE l = v /\ \A q \in 1..(p - 1) : s[q].kind # "LEADING0"
    BY <2>1, <2>2 DEF LeadIn
  <2>3. CASE ~(l = v /\ \A q \in 1..(p - 1) : s[q].kind # "LEADING0")
    <3>1. PICK q \in 1..(p - 1) :
             /\ s[q].kind = "LEADING0" /\ s[q].arg = v
             /\ \A r \in (q + 1)..(p - 1) : s[r].kind # "LEADING0"
      BY <1>1, <2>3 DEF LeadIn
    <3>2. s2[q].kind = "LEADING0" /\ s2[q].arg = v
      BY <2>1, <3>1
    <3>3. \A r \in (q + 1)..(p - 1) : s2[r].kind # "LEADING0"
      BY <2>1, <3>1
    <3> QED
      BY <3>2, <3>3 DEF LeadIn
  <2> QED
    BY <2>2, <2>3
<1>2. ASSUME s2[n + 1].kind # "LEADING0", LeadIn(s, l, n + 1, v) PROVE LeadIn(s2, l, n + 1 + 1, v)
  <2>1. \A q \in 1..(n + 1 + 1 - 1) : q \in 1..n \/ q = n + 1
    OBVIOUS
  <2>2. CASE l = v /\ \A q \in 1..(n + 1 - 1) : s[q].kind # "LEADING0"
    <3>1. \A q \in 1..(n + 1 + 1 - 1) : s2[q].kind # "LEADING0"
      BY <1>2, <2>1, <2>2
    <3> QED
      BY <2>2, <3>1 DEF LeadIn
  <2>3. CASE ~(l = v /\ \A q \in 1..(n + 1 - 1) : s[q].kind # "LEADING0")
    <3>1. PICK q \in 1..(n + 1 - 1) :
             /\ s[q].kind = "LEADING0" /\ s[q].arg = v
             /\ \A r \in (q + 1)..(n + 1 - 1) : s[r].kind # "LEADING0"
      BY <1>2, <2>3 DEF LeadIn
    <3>2. q \in 1..(n + 1 + 1 - 1) /\ s2[q].kind = "LEADING0" /\ s2[q].arg = v
      BY <3>1
    <3>3. \A r \in (q + 1)..(n + 1 + 1 - 1) : s2[r].kind # "LEADING0"
      BY <1>2, <2>1, <3>1
    <3> QED
      BY <3>2, <3>3 DEF LeadIn
  <2> QED
    BY <2>2, <2>3
<1>3. ASSUME s2[n + 1].kind = "LEADING0", s2[n + 1].arg = v PROVE LeadIn(s2, l, n + 1 + 1, v)
  <2>1. n + 1 \in 1..(n + 1 + 1 - 1) /\ \A r \in (n + 1 + 1)..(n + 1 + 1 - 1) : FALSE
    OBVIOUS
  <2> QED
    BY <1>3, <2>1 DEF LeadIn
<1> QED
  BY <1>1, <1>2, <1>3

\* The first command is taken.
LEMMA LeadTaken ==
  ASSUME NEW s, NEW s2, NEW l, NEW l2, NEW v, NEW n \in Nat, \A p \in 1..n : s2[p] = s[p + 1],
         s[1].kind = "LEADING0" => l2 = s[1].arg, s[1].kind # "LEADING0" => l2 = l
  PROVE  \A p \in 1..(n + 1) : LeadIn(s, l, p + 1, v) => LeadIn(s2, l2, p, v)
<1> SUFFICES ASSUME NEW p \in 1..(n + 1), LeadIn(s, l, p + 1, v) PROVE LeadIn(s2, l2, p, v)
  OBVIOUS
<1>1. \A q \in 1..(p - 1) : q \in 1..n /\ q + 1 \in 1..(p + 1 - 1) /\ s2[q] = s[q + 1]
  OBVIOUS
<1>2. 1 \in 1..(p + 1 - 1)
  OBVIOUS
<1>3. CASE l = v /\ \A q \in 1..(p + 1 - 1) : s[q].kind # "LEADING0"
  <2>1. l2 = v /\ \A q \in 1..(p - 1) : s2[q].kind # "LEADING0"
    BY <1>1, <1>2, <1>3
  <2> QED
    BY <2>1 DEF LeadIn
<1>4. CASE ~(l = v /\ \A q \in 1..(p + 1 - 1) : s[q].kind # "LEADING0")
  <2>1. PICK q \in 1..(p + 1 - 1) :
           /\ s[q].kind = "LEADING0" /\ s[q].arg = v
           /\ \A r \in (q + 1)..(p + 1 - 1) : s[r].kind # "LEADING0"
    BY <1>4 DEF LeadIn
  <2>2. CASE q = 1
    <3>1. l2 = v
      BY <2>1, <2>2
    <3>2. \A r \in 1..(p - 1) : r + 1 \in (q + 1)..(p + 1 - 1)
      BY <2>2
    <3>3. \A r \in 1..(p - 1) : s2[r].kind # "LEADING0"
      BY <1>1, <2>1, <3>2
    <3> QED
      BY <3>1, <3>3 DEF LeadIn
  <2>3. CASE q # 1
    <3>1. q - 1 \in 1..(p - 1) /\ q - 1 + 1 = q
      BY <2>3
    <3>2. s2[q - 1].kind = "LEADING0" /\ s2[q - 1].arg = v
      BY <1>1, <2>1, <3>1
    <3>3. \A r \in (q - 1 + 1)..(p - 1) : r \in 1..(p - 1) /\ r + 1 \in (q + 1)..(p + 1 - 1)
      OBVIOUS
    <3>4. \A r \in (q - 1 + 1)..(p - 1) : s2[r].kind # "LEADING0"
      BY <1>1, <2>1, <3>3
    <3> QED
      BY <3>1, <3>2, <3>4 DEF LeadIn
  <2> QED
    BY <2>2, <2>3
<1> QED
  BY <1>3, <1>4

\* The work in hand is one of the jobs.
LEMMA InHandIsAJob ==
  ASSUME ThreadInv, Sets \/ Ready
  PROVE  given \in Jobs
<1>1. InHand
  BY DEF Sets, Ready, InHand, Waits
<1> QED
  BY <1>1 DEF ThreadInv, HandInv

\* What the works on their way ask for stays with them.
LEMMA WaitingKeepLead ==
  ASSUME OneGiver, TypeOK, LineInv, ComingInv, QueuedInv,
         \A j \in 1..given : work'[j].asked = work[j].asked /\ (Asks(j)' => Asks(j)),
         UNCHANGED <<toBoard, queue, lead>>
  PROVE  ComingInv' /\ QueuedInv'
<1>1. \A p \in 1..Len(toBoard) : WorkAt(p) => toBoard[p].arg \in 1..given
  BY DEF LineInv
<1>2. \A k \in 1..Len(queue) : queue[k].job \in 1..given
  BY DEF LineInv
<1>3. ComingInv'
  BY <1>1 DEF ComingInv, LeadAt, WorkAt, Asks
<1>4. QueuedInv'
  BY <1>2 DEF QueuedInv, Asks
<1> QED
  BY <1>3, <1>4

LEMMA GoesKeepsLead ==
  ASSUME OneGiver, TypeOK, ThreadInv, LineInv, LeadInv, NEW t \in Threads, Goes(t), ~WriteCommand(t)
  PROVE  LeadInv'
<1>0. Connecting \in Threads
  BY Constants
<1>1. /\ \A s \in Threads \ {t} : thread'[s] = thread[s]
      /\ \A j \in Jobs : work'[j].asked = work[j].asked /\ work'[j].state = work[j].state
      /\ UNCHANGED <<given, queue, lead, toBoard>>
  BY GoesIs DEF WorksStay
<1>2. \A j \in 1..given : work'[j].asked = work[j].asked /\ (Asks(j)' => Asks(j))
  BY <1>1, GivenAreJobs DEF Asks
<1>3. ComingInv' /\ QueuedInv'
  BY <1>1, <1>2, WaitingKeepLead DEF LeadInv
<1>4. Sets \/ Ready => work'[given].asked = work[given].asked
  BY <1>1, InHandIsAJob
<1>5. SetInv /\ ReadyInv
  BY DEF LeadInv
<1>6. thread \in [Threads -> CallStates]
  BY DEF TypeOK
<1>7. CASE (Sets' <=> Sets) /\ (Ready' => Ready) /\ leading0' = leading0
  <2>1. SetInv'
    BY <1>1, <1>4, <1>5, <1>7 DEF SetInv, LeadAt, End
  <2>2. ReadyInv'
    BY <1>1, <1>4, <1>5, <1>7 DEF ReadyInv, LeadAt, End
  <2> QED
    BY <1>3, <2>1, <2>2 DEF LeadInv
<1>8. CASE t # Connecting
  <2>1. Giver' = Giver
    BY <1>0, <1>1, <1>8 DEF Giver
  <2>2. ~LeadingSet(t)
    BY <1>8 DEF LeadingSet, ThreadInv, CallInv, ConnectInv
  <2>3. leading0' = leading0
    BY <2>2 DEF Goes, LockPm, WriteCommand, Wait, Timeout, SpuriousWakeup, Mismatch, Answered,
           ConnectStop, ConnectState, Connected, SetLeading, DoWork, DropWork
  <2> QED
    BY <1>7, <2>1, <2>3 DEF Sets, Ready
<1>9. CASE t = Connecting
  <2>1. CASE LockPm(t) \/ Wait(t) \/ SpuriousWakeup(t)
    <3>1. /\ Giver'.cmd = Giver.cmd /\ leading0' = leading0
          /\ \/ Giver.pc = "lock" /\ Giver'.pc = "write"
             \/ Giver.pc \in {"arm", "waiting"} /\ Giver'.pc \in {"waiting", "woken"}
      BY <1>6, <1>9, <2>1, GotoIs DEF LockPm, Wait, SpuriousWakeup, Giver
    <3> QED
      BY <1>7, <3>1 DEF Sets, Ready
  <2>2. CASE Timeout(t) \/ Mismatch(t)
    <3>1. Giver' = Giver /\ leading0' = leading0
      BY <2>2 DEF Timeout, Mismatch, Giver
    <3> QED
      BY <1>7, <3>1 DEF Sets, Ready
  <2>3. CASE Answered(t)
    <3>1. Giver.pc = "woken" /\ Giver'.pc = Giver.ret /\ leading0' = leading0
      <4>1. thread[t].pc = "woken" /\ leading0' = leading0
        BY <2>3 DEF Answered
      <4>2. thread'[t].pc = thread[t].ret
        <5>1. CASE thread[t].cmd.kind = "CHIPSTATE"
          BY <1>6, <2>3, <5>1 DEF Answered, CallStates
        <5>2. CASE thread[t].cmd.kind # "CHIPSTATE"
          BY <1>6, <2>3, <5>2, GotoIs DEF Answered
        <5> QED
          BY <5>1, <5>2
      <4> QED
        BY <1>9, <4>1, <4>2 DEF Giver
    <3>2. \/ Giver.cmd.kind = "LEADING0" /\ Giver.ret = "leadSent"
          \/ Giver.cmd.kind # "LEADING0" /\ Giver.ret \in {"idle", "connectState", "connected"}
      <4>1. CASE connected
        BY <1>0, <3>1, <4>1 DEF ThreadInv, CallInv, Giver, Waits, Command
      <4>2. CASE ~connected
        BY <3>1, <4>2 DEF ThreadInv, ConnectInv, Stopping, Asking, Command
      <4> QED
        BY <4>1, <4>2
    <3> QED
      BY <1>7, <3>1, <3>2 DEF Sets, Ready, Waits
  <2>4. CASE ConnectStop(t) \/ ConnectState(t)
    <3>1. PICK cmd, ret : Send(t, cmd, ret) /\ cmd.kind \in {"STOP", "CHIPSTATE"}
      BY <2>4 DEF ConnectStop, ConnectState, Command
    <3>2. Giver'.pc = "lock" /\ Giver'.cmd = cmd
      BY <1>6, <1>9, <3>1, SendIs DEF Giver
    <3>3. Giver.pc \in {"connect", "connectState"} /\ leading0' = leading0
      BY <1>9, <2>4 DEF ConnectStop, ConnectState, Giver
    <3> QED
      BY <1>7, <3>1, <3>2, <3>3 DEF Sets, Ready
  <2>5. CASE Connected(t)
    <3>1. Giver.pc = "connected" /\ leading0' = leading0
      BY <1>9, <2>5 DEF Connected, Giver
    <3>2. Giver'.pc \in {"idle", "connectState"}
      <4>1. PICK l \in {"idle", "connectState"} : Goto(t, l)
        BY <2>5 DEF Connected
      <4> QED
        BY <1>6, <1>9, <4>1, GotoIs DEF Giver
    <3> QED
      BY <1>7, <3>1, <3>2 DEF Sets, Ready
  <2>6. CASE SetLeading(t)
    <3>1. Giver.pc = "leading" /\ leading0' = leading0 /\ work' = work
      BY <1>9, <2>6 DEF SetLeading, Giver
    <3>2. Giver.job = given /\ work[given].lz = work[given].asked
      BY <3>1 DEF ThreadInv, HandInv, InHand
    <3>3. ~Sets /\ (leading0 # 0 => LeadAt(End, leading0))
      BY <1>5, <3>1 DEF SetInv, Sets
    <3>4. CASE leading0 # work[given].lz
      <4>1. Send(t, Command("LEADING0", IdOf(given), work[given].lz), "leadSent")
        BY <1>9, <2>6, <3>2, <3>4 DEF SetLeading, Giver
      <4>2. Giver'.pc = "lock" /\ Giver'.cmd.kind = "LEADING0"
        BY <1>6, <1>9, <4>1, SendIs DEF Giver, Command
      <4> QED
        BY <1>7, <3>1, <3>3, <4>2 DEF Sets, Ready
    <3>5. CASE leading0 = work[given].lz
      <4>1. Goto(t, "work")
        BY <1>9, <2>6, <3>2, <3>5 DEF SetLeading, Giver
      <4>2. Giver'.pc = "work"
        BY <1>6, <1>9, <4>1, GotoIs DEF Giver
      <4>3. ~Sets'
        BY <4>2 DEF Sets
      <4>4. ReadyInv'
        BY <1>1, <3>1, <3>2, <3>3, <3>5 DEF ReadyInv, LeadAt, End
      <4>5. SetInv'
        BY <1>1, <3>1, <3>3, <4>3 DEF SetInv, LeadAt, End
      <4> QED
        BY <1>3, <4>4, <4>5 DEF LeadInv
    <3> QED
      BY <3>4, <3>5
  <2>7. CASE LeadingSet(t)
    <3>1. Giver.pc = "leadSent" /\ leading0' = work[Giver.job].lz /\ work' = work /\ Goto(t, "work")
      BY <1>9, <2>7 DEF LeadingSet, Giver
    <3>2. Giver.job = given /\ work[given].lz = work[given].asked
      BY <3>1 DEF ThreadInv, HandInv, InHand
    <3>3. LeadAt(End, work[given].asked)
      BY <1>5, <3>1 DEF SetInv, Sets
    <3>4. Giver'.pc = "work"
      BY <1>6, <1>9, <3>1, GotoIs DEF Giver
    <3>5. ~Sets'
      BY <3>4 DEF Sets
    <3>6. SetInv' /\ ReadyInv'
      BY <1>1, <3>1, <3>2, <3>3, <3>5 DEF SetInv, ReadyInv, LeadAt, End
    <3> QED
      BY <1>3, <3>6 DEF LeadInv
  <2>8. CASE DoWork(t)
    <3>1. Giver.pc = "work" /\ leading0' = leading0
          /\ Send(t, Command("DO_WORK", IdOf(Giver.job), Giver.job), "idle")
      BY <1>9, <2>8 DEF DoWork, Giver
    <3>2. Giver'.pc = "lock"
      BY <1>6, <1>9, <3>1, SendIs DEF Giver
    <3> QED
      BY <1>7, <3>1, <3>2 DEF Sets, Ready
  <2>9. CASE DropWork(t)
    <3>1. Giver.pc = "idle" /\ leading0' = leading0
          /\ Send(t, Command("STOP", StopIndex, 0), "idle")
      BY <1>9, <2>9 DEF DropWork, Giver
    <3>2. Giver'.pc = "lock" /\ Giver'.cmd.kind = "STOP"
      BY <1>6, <1>9, <3>1, SendIs DEF Giver, Command
    <3> QED
      BY <1>7, <3>1, <3>2 DEF Sets, Ready
  <2> QED
    BY <2>1, <2>2, <2>3, <2>4, <2>5, <2>6, <2>7, <2>8, <2>9 DEF Goes
<1> QED
  BY <1>8, <1>9

LEMMA WriteKeepsLead ==
  ASSUME OneGiver, TypeOK, ThreadInv, LineInv, LeadInv, NEW t \in Threads, WriteCommand(t)
  PROVE  LeadInv'
<1>0. Connecting \in Threads
  BY Constants
<1>1. /\ Len(toBoard') = Len(toBoard) + 1 /\ Len(toBoard) \in Nat
      /\ \A p \in 1..Len(toBoard) : toBoard'[p] = toBoard[p]
      /\ toBoard'[Len(toBoard) + 1] = thread[t].cmd
  BY WrittenIs
<1>2. UNCHANGED <<work, given, queue, lead, leading0>>
  BY DEF WriteCommand
<1>3. /\ thread[t].pc = "write" /\ thread'[t].pc = "arm" /\ thread'[t].cmd = thread[t].cmd
      /\ \A s \in Threads \ {t} : thread'[s] = thread[s]
  BY GotoIs DEF WriteCommand, TypeOK
<1>4. SetInv /\ ReadyInv /\ ComingInv /\ QueuedInv
  BY DEF LeadInv
<1>5. QueuedInv'
  BY <1>2, <1>4 DEF QueuedInv, Asks
<1>6. \A v : \A p \in 1..(Len(toBoard) + 1) : LeadIn(toBoard, lead, p, v) => LeadIn(toBoard', lead, p, v)
  BY <1>1, LeadLater
<1>7. \A v : /\ thread[t].cmd.kind # "LEADING0" /\ LeadIn(toBoard, lead, Len(toBoard) + 1, v) =>
                  LeadIn(toBoard', lead, Len(toBoard) + 1 + 1, v)
             /\ thread[t].cmd.kind = "LEADING0" /\ thread[t].cmd.arg = v =>
                  LeadIn(toBoard', lead, Len(toBoard) + 1 + 1, v)
  BY <1>1, LeadLater
<1>8. t # Connecting => thread[t].cmd.kind = "STOP"
  BY <1>3 DEF ThreadInv, CallInv, ConnectInv, Waits
<1>9. t = Connecting /\ thread[t].cmd.kind = "LEADING0" => thread[t].cmd.arg = work[given].asked
  <2> SUFFICES ASSUME t = Connecting, thread[t].cmd.kind = "LEADING0"
               PROVE  thread[t].cmd.arg = work[given].asked
    OBVIOUS
  <2>1. connected
    BY <1>3 DEF ThreadInv, ConnectInv, Stopping, Asking, Giver, Command
  <2> QED
    BY <1>3, <2>1 DEF ThreadInv, CallInv, Waits, Command
<1>10. t = Connecting /\ thread[t].cmd.kind = "DO_WORK" => thread[t].cmd.arg = given /\ Ready
  <2> SUFFICES ASSUME t = Connecting, thread[t].cmd.kind = "DO_WORK"
               PROVE  thread[t].cmd.arg = given /\ Ready
    OBVIOUS
  <2>1. connected
    BY <1>3 DEF ThreadInv, ConnectInv, Stopping, Asking, Giver, Command
  <2>2. thread[t].cmd.arg = given
    BY <1>3, <2>1 DEF ThreadInv, CallInv, Waits, Command
  <2> QED
    BY <1>3, <2>2 DEF Ready, Giver
<1>11. ASSUME NEW p \in 1..Len(toBoard'), toBoard'[p].kind = "DO_WORK",
              work[toBoard'[p].arg].state = "given", work[toBoard'[p].arg].asked # 0
       PROVE  LeadIn(toBoard', lead, p, work[toBoard'[p].arg].asked)
  <2>1. CASE p \in 1..Len(toBoard)
    <3>1. toBoard'[p] = toBoard[p] /\ WorkAt(p) /\ Asks(toBoard[p].arg)
      BY <1>1, <1>2, <1>11, <2>1 DEF WorkAt, Asks
    <3>2. LeadIn(toBoard, lead, p, work[toBoard[p].arg].asked)
      BY <1>4, <2>1, <3>1 DEF ComingInv, LeadAt
    <3>3. p \in 1..(Len(toBoard) + 1)
      BY <1>1, <2>1
    <3> QED
      BY <1>6, <3>1, <3>2, <3>3
  <2>2. CASE p = Len(toBoard) + 1
    <3>1. thread[t].cmd.kind = "DO_WORK" /\ toBoard'[p] = thread[t].cmd
      BY <1>1, <1>11, <2>2 DEF WorkAt
    <3>2. thread[t].cmd.arg = given /\ Ready
      BY <1>8, <1>10, <3>1
    <3>3. work[given].asked # 0
      BY <1>2, <1>11, <3>1, <3>2 DEF Asks
    <3>4. LeadIn(toBoard, lead, Len(toBoard) + 1, work[given].asked)
      BY <1>4, <3>2, <3>3 DEF ReadyInv, LeadAt, End
    <3>5. Len(toBoard) + 1 \in 1..(Len(toBoard) + 1)
      BY <1>1
    <3> QED
      BY <1>6, <2>2, <3>1, <3>2, <3>4, <3>5
  <2> QED
    BY <1>1, <2>1, <2>2
<1>12. ComingInv'
  BY <1>2, <1>11 DEF ComingInv, LeadAt, WorkAt, Asks
<1>13. CASE t = Connecting
  <2>1. ~Ready' /\ ~Sets
    BY <1>3, <1>13 DEF Ready, Sets, Giver
  <2>2. CASE thread[t].cmd.kind = "LEADING0"
    <3>1. Sets'
      BY <1>3, <1>13, <2>2 DEF Sets, Giver
    <3>2. LeadIn(toBoard', lead, Len(toBoard) + 1 + 1, work[given].asked)
      BY <1>7, <1>9, <1>13, <2>2
    <3>3. SetInv'
      BY <1>1, <1>2, <3>1, <3>2 DEF SetInv, LeadAt, End
    <3> QED
      BY <1>5, <1>12, <2>1, <3>3 DEF LeadInv, ReadyInv
  <2>3. CASE thread[t].cmd.kind # "LEADING0"
    <3>1. ~Sets'
      BY <1>3, <1>13, <2>3 DEF Sets, Giver
    <3>2. leading0 # 0 => LeadIn(toBoard, lead, Len(toBoard) + 1, leading0)
      BY <1>4, <2>1 DEF SetInv, LeadAt, End
    <3>3. leading0 # 0 => LeadIn(toBoard', lead, Len(toBoard) + 1 + 1, leading0)
      BY <1>7, <2>3, <3>2
    <3>4. SetInv'
      BY <1>1, <1>2, <3>1, <3>3 DEF SetInv, LeadAt, End
    <3> QED
      BY <1>5, <1>12, <2>1, <3>4 DEF LeadInv, ReadyInv
  <2> QED
    BY <2>2, <2>3
<1>14. CASE t # Connecting
  <2>1. Giver' = Giver
    BY <1>0, <1>3, <1>14 DEF Giver
  <2>2. (Sets' <=> Sets) /\ (Ready' <=> Ready)
    BY <2>1 DEF Sets, Ready
  <2>3. \A v : LeadIn(toBoard, lead, Len(toBoard) + 1, v) => LeadIn(toBoard', lead, Len(toBoard) + 1 + 1, v)
    BY <1>7, <1>8, <1>14
  <2>4. SetInv'
    BY <1>1, <1>2, <1>4, <2>2, <2>3 DEF SetInv, LeadAt, End
  <2>5. ReadyInv'
    BY <1>1, <1>2, <1>4, <2>2, <2>3 DEF ReadyInv, LeadAt, End
  <2> QED
    BY <1>5, <1>12, <2>4, <2>5 DEF LeadInv
<1> QED
  BY <1>13, <1>14

LEMMA GiveKeepsLead ==
  ASSUME OneGiver, TypeOK, LineInv, LeadInv, NEW t \in Threads, GiveWork(t)
  PROVE  LeadInv'
<1>0. Connecting \in Threads /\ t = Connecting
  BY Constants DEF GiveWork, OneGiver
<1>1. Giver.pc = "idle" /\ Giver'.pc = "leading" /\ UNCHANGED <<toBoard, queue, lead, leading0>>
  <2>1. thread \in [Threads -> CallStates]
    BY DEF TypeOK
  <2>2. thread' = [thread EXCEPT ![t].pc = "leading", ![t].job = given + 1]
        /\ thread[t].pc = "idle" /\ UNCHANGED <<toBoard, queue, lead, leading0>>
    BY DEF GiveWork, board
  <2> QED
    BY <1>0, <2>1, <2>2 DEF Giver, CallStates
<1>2. \A j \in 1..given : work'[j] = work[j]
  <2>1. given \in Nat /\ 1..given \subseteq Jobs /\ work \in [Jobs -> Works]
    BY GivenAreJobs DEF TypeOK
  <2>2. PICK w : work' = [work EXCEPT ![given + 1] = w]
    BY DEF GiveWork
  <2> QED
    BY <2>1, <2>2
<1>3. ComingInv' /\ QueuedInv'
  <2>1. \A j \in 1..given : work'[j].asked = work[j].asked /\ (Asks(j)' => Asks(j))
    BY <1>2 DEF Asks
  <2> QED
    BY <1>1, <2>1, WaitingKeepLead DEF LeadInv
<1>4. ~Sets /\ ~Sets' /\ ~Ready'
  BY <1>1 DEF Sets, Ready
<1>5. SetInv'
  BY <1>1, <1>4 DEF LeadInv, SetInv, LeadAt, End
<1>6. ReadyInv'
  BY <1>4 DEF ReadyInv
<1> QED
  BY <1>3, <1>5, <1>6 DEF LeadInv

\* A step that leaves the commands and the leading zeroes alone.
LEMMA NoteKeepsLead ==
  ASSUME OneGiver, TypeOK, ThreadInv, LineInv, LeadInv, WorksStay,
         \A j \in Jobs : work'[j].state \in {work[j].state, "finished"},
         Sets' <=> Sets, Ready' <=> Ready, UNCHANGED <<given, toBoard, queue, lead, leading0>>
  PROVE  LeadInv'
<1>1. \A j \in 1..given : work'[j].asked = work[j].asked /\ (Asks(j)' => Asks(j))
  BY GivenAreJobs DEF Asks, WorksStay
<1>2. ComingInv' /\ QueuedInv'
  BY <1>1, WaitingKeepLead DEF LeadInv
<1>3. Sets \/ Ready => work'[given].asked = work[given].asked
  BY InHandIsAJob DEF WorksStay
<1>4. SetInv'
  BY <1>3 DEF LeadInv, SetInv, LeadAt, End
<1>5. ReadyInv'
  BY <1>3 DEF LeadInv, ReadyInv, LeadAt, End
<1> QED
  BY <1>2, <1>4, <1>5 DEF LeadInv

LEMMA PollKeepsLead ==
  ASSUME OneGiver, TypeOK, ThreadInv, LineInv, LeadInv, ReadAnswer \/ HwWonWork \/ HwFinishedWork
  PROVE  LeadInv'
<1>1. CASE ReadAnswer
  <2>1. Connecting \in Threads
    BY Constants
  <2>2. /\ Giver'.cmd = Giver.cmd
        /\ Giver'.pc = Giver.pc \/ (Giver.pc = "waiting" /\ Giver'.pc = "woken")
    BY <1>1, <2>1, AnswerIs DEF Giver
  <2>3. UNCHANGED <<given, toBoard, queue, lead, leading0, work>>
    BY <1>1, AnswerIs
  <2>4. (Sets' <=> Sets) /\ (Ready' <=> Ready)
    BY <2>2 DEF Sets, Ready
  <2>5. WorksStay
    BY <2>3 DEF WorksStay
  <2> QED
    BY <2>3, <2>4, <2>5, NoteKeepsLead
<1>2. CASE HwWonWork \/ HwFinishedWork
  <2>1. WorksStay /\ \A j \in Jobs : work'[j].state \in {work[j].state, "finished"}
    BY <1>2, NotesAre
  <2>2. UNCHANGED <<thread, given, toBoard, queue, lead, leading0>>
    BY <1>2 DEF HwWonWork, HwFinishedWork
  <2>3. (Sets' <=> Sets) /\ (Ready' <=> Ready)
    BY <2>2 DEF Sets, Ready, Giver
  <2> QED
    BY <2>1, <2>2, <2>3, NoteKeepsLead
<1> QED
  BY <1>1, <1>2

LEMMA FrontKeepsLead ==
  ASSUME OneGiver, TypeOK, ThreadInv, LineInv, LeadInv, BoardFinishes \/ BoardWins
  PROVE  LeadInv'
<1>1. CASE BoardWins
  <2>1. WorksStay /\ \A j \in Jobs : work'[j].state \in {work[j].state, "finished"}
    BY <1>1, NotesAre
  <2>2. UNCHANGED <<thread, given, toBoard, queue, lead, leading0>>
    BY <1>1 DEF BoardWins
  <2>3. (Sets' <=> Sets) /\ (Ready' <=> Ready)
    BY <2>2 DEF Sets, Ready, Giver
  <2> QED
    BY <2>1, <2>2, <2>3, NoteKeepsLead
<1>2. CASE BoardFinishes
  <2>1. queue # <<>> /\ queue' = Tail(queue)
        /\ UNCHANGED <<thread, given, toBoard, lead, leading0, work>>
    BY <1>2 DEF BoardFinishes, process
  <2>2. (Sets' <=> Sets) /\ (Ready' <=> Ready)
    BY <2>1 DEF Sets, Ready, Giver
  <2>3. SetInv' /\ ReadyInv' /\ ComingInv'
    BY <2>1, <2>2 DEF LeadInv, SetInv, ReadyInv, ComingInv, LeadAt, End, WorkAt, Asks
  <2>4. /\ Len(queue) \in Nat /\ Len(Tail(queue)) = Len(queue) - 1
        /\ \A k \in 1..(Len(queue) - 1) : Tail(queue)[k] = queue[k + 1]
    BY <2>1, TailIs DEF TypeOK
  <2>5. \A k \in 1..Len(queue') : k + 1 \in 1..Len(queue) /\ queue'[k] = queue[k + 1]
    BY <2>1, <2>4
  <2>6. \A k \in 1..Len(queue') : Asks(queue[k + 1].job) => queue[k + 1].lead = work[queue[k + 1].job].asked
    BY <2>5 DEF LeadInv, QueuedInv
  <2>7. QueuedInv'
    BY <2>1, <2>5, <2>6 DEF QueuedInv, Asks
  <2> QED
    BY <2>3, <2>7 DEF LeadInv
<1> QED
  BY <1>1, <1>2

LEMMA TakeKeepsLead ==
  ASSUME OneGiver, TypeOK, LeadInv, BoardTakesCommand
  PROVE  LeadInv'
<1>1. /\ Len(toBoard) \in Nat /\ 1 \in 1..Len(toBoard) /\ toBoard[1] = Head(toBoard)
      /\ Len(toBoard') = Len(toBoard) - 1
      /\ \A p \in 1..Len(toBoard') : p + 1 \in 1..Len(toBoard) /\ toBoard'[p] = toBoard[p + 1]
      /\ \A m \in 1..Len(queue') :
           \/ m \in 1..Len(queue) /\ queue'[m] = queue[m]
           \/ /\ m = Len(queue) + 1 /\ WorkAt(1) /\ queue'[m].lead = lead
              /\ queue'[m].job = toBoard[1].arg /\ queue'[m].id = toBoard[1].index
  BY TakenIs
<1>2. UNCHANGED <<thread, given, work, leading0>>
  BY TakesIs DEF process
<1>3. lead' = IF toBoard[1].kind = "LEADING0" THEN toBoard[1].arg ELSE lead
  BY <1>1, TakesIs
<1>4. SetInv /\ ReadyInv /\ ComingInv /\ QueuedInv
  BY DEF LeadInv
<1>5. Len(toBoard') \in Nat /\ \A p \in 1..Len(toBoard') : toBoard'[p] = toBoard[p + 1]
  BY <1>1
<1>6. ASSUME NEW v
      PROVE  \A p \in 1..(Len(toBoard') + 1) :
                LeadIn(toBoard, lead, p + 1, v) => LeadIn(toBoard', lead', p, v)
  <2> DEFINE s == toBoard
             s2 == toBoard'
             l == lead
             l2 == lead'
             n == Len(toBoard')
  <2>1. n \in Nat /\ \A p \in 1..n : s2[p] = s[p + 1]
    BY <1>5
  <2>2. (s[1].kind = "LEADING0" => l2 = s[1].arg) /\ (s[1].kind # "LEADING0" => l2 = l)
    BY <1>3
  <2> HIDE DEF s, s2, l, l2, n
  <2>3. \A p \in 1..(n + 1) : LeadIn(s, l, p + 1, v) => LeadIn(s2, l2, p, v)
    BY <2>1, <2>2, LeadTaken, Zenon
  <2> QED
    BY <2>3 DEF s, s2, l, l2, n
<1>7. (Sets' <=> Sets) /\ (Ready' <=> Ready)
  BY <1>2 DEF Sets, Ready, Giver
<1>8. Len(toBoard') + 1 \in 1..(Len(toBoard') + 1) /\ Len(toBoard') + 1 + 1 = Len(toBoard) + 1
  BY <1>1
<1>9. \A v : LeadIn(toBoard, lead, Len(toBoard) + 1, v) => LeadIn(toBoard', lead', Len(toBoard') + 1, v)
  BY <1>6, <1>8
<1>10. SetInv'
  BY <1>2, <1>4, <1>7, <1>9 DEF SetInv, LeadAt, End
<1>11. ReadyInv'
  BY <1>2, <1>4, <1>7, <1>9 DEF ReadyInv, LeadAt, End
<1>12. ASSUME NEW p \in 1..Len(toBoard'), toBoard'[p].kind = "DO_WORK",
              work[toBoard'[p].arg].state = "given", work[toBoard'[p].arg].asked # 0
       PROVE  LeadIn(toBoard', lead', p, work[toBoard'[p].arg].asked)
  <2>1. p + 1 \in 1..Len(toBoard) /\ toBoard'[p] = toBoard[p + 1] /\ p \in 1..(Len(toBoard') + 1)
    BY <1>1
  <2>2. LeadIn(toBoard, lead, p + 1, work[toBoard[p + 1].arg].asked)
    BY <1>4, <1>12, <2>1 DEF ComingInv, LeadAt, WorkAt, Asks
  <2> QED
    BY <1>6, <2>1, <2>2
<1>13. ComingInv'
  BY <1>2, <1>12 DEF ComingInv, LeadAt, WorkAt, Asks
<1>14. ASSUME NEW k \in 1..Len(queue'), work[queue'[k].job].state = "given", work[queue'[k].job].asked # 0
       PROVE  queue'[k].lead = work[queue'[k].job].asked
  <2>1. CASE k \in 1..Len(queue) /\ queue'[k] = queue[k]
    BY <1>4, <1>14, <2>1 DEF QueuedInv, Asks
  <2>2. CASE WorkAt(1) /\ queue'[k].lead = lead /\ queue'[k].job = toBoard[1].arg
    <3>1. LeadIn(toBoard, lead, 1, work[toBoard[1].arg].asked)
      BY <1>1, <1>4, <1>14, <2>2 DEF ComingInv, LeadAt, Asks
    <3>2. \A q \in 1..(1 - 1) : FALSE
      OBVIOUS
    <3>3. lead = work[toBoard[1].arg].asked
      BY <3>1, <3>2 DEF LeadIn
    <3> QED
      BY <2>2, <3>3
  <2> QED
    BY <1>1, <2>1, <2>2
<1>15. QueuedInv'
  BY <1>2, <1>14 DEF QueuedInv, Asks
<1> QED
  BY <1>10, <1>11, <1>13, <1>15 DEF LeadInv

LEMMA RestartKeepsLead ==
  ASSUME OneGiver, TypeOK, LineInv, Restart
  PROVE  LeadInv'
<1>1. /\ leading0' = 0 /\ thread' = Started /\ UNCHANGED <<given, toBoard, queue, lead>>
      /\ work' = [j \in Jobs |-> IF work[j].state = "given"
                                 THEN [work[j] EXCEPT !.state = "lost"] ELSE work[j]]
  BY DEF Restart
<1>2. Giver'.pc = "connect"
  BY <1>1, StartedIs DEF Giver
<1>3. ~Sets' /\ ~Ready'
  BY <1>2 DEF Sets, Ready
<1>4. SetInv' /\ ReadyInv'
  BY <1>1, <1>3 DEF SetInv, ReadyInv
<1>5. \A j \in 1..given : work'[j].state # "given"
  <2>1. 1..given \subseteq Jobs /\ work \in [Jobs -> Works]
    BY GivenAreJobs DEF TypeOK
  <2>2. ASSUME NEW w \in Works PROVE [w EXCEPT !.state = "lost"].state # "given"
    BY DEF Works
  <2>3. \A j \in Jobs : work[j] \in Works
    BY <2>1
  <2> QED
    BY <1>1, <2>1, <2>2, <2>3
<1>6. \A j \in 1..given : ~Asks(j)'
  BY <1>5 DEF Asks
<1>7. \A p \in 1..Len(toBoard) : WorkAt(p) => toBoard[p].arg \in 1..given
  BY DEF LineInv
<1>8. \A k \in 1..Len(queue) : queue[k].job \in 1..given
  BY DEF LineInv
<1>9. ComingInv'
  BY <1>1, <1>5, <1>7 DEF ComingInv, WorkAt, Asks
<1>10. QueuedInv'
  BY <1>1, <1>5, <1>8 DEF QueuedInv, Asks
<1> QED
  BY <1>4, <1>9, <1>10 DEF LeadInv

-------------------------------------------------------------------------------
(***************************************************************************)
(* The invariant                                                           *)
(***************************************************************************)
Inv ==
    /\ TypeOK
    /\ ThreadInv
    /\ LineInv /\ OrderInv
    /\ WorksInv
    /\ StateInv /\ AloneInv /\ SecondInv
    /\ LeadInv

LEMMA InvInit == ASSUME OneGiver, Init PROVE Inv
<1>1. TypeOK
  BY TypeInit
<1>2. /\ ~connected /\ thread = Started /\ lastResp = 0 /\ maxJobs = 0 /\ given = 0 /\ leading0 = 0
      /\ toBoard = <<>> /\ toHost = <<>> /\ queue = <<>> /\ aborted = "no"
      /\ worksMap = [i \in Ids |-> None] /\ used.hasty = 0
  BY DEF Init
<1>3. Len(toBoard) = 0 /\ Len(toHost) = 0 /\ Len(queue) = 0
  BY <1>2
<1>4. /\ \A p \in 1..Len(toBoard) : FALSE
      /\ \A k \in 1..Len(toHost) : FALSE
      /\ \A k \in 1..Len(queue) : FALSE
      /\ \A j \in 1..given : FALSE
  BY <1>2, <1>3
<1>5. Giver.pc = "connect" /\ \A t \in Threads \ {Connecting} : thread[t].pc = "idle"
  BY <1>2, StartedIs DEF Giver
<1>6. ~InHand /\ ~Sets /\ ~Ready /\ ~Stopping /\ ~Asking /\ ~Knows
  BY <1>5 DEF InHand, Sets, Ready, Stopping, Asking, Knows, Waits
<1>7. ThreadInv
  <2>1. Mapped = {}
    BY <1>2 DEF Mapped
  <2>2. IsFiniteSet(Mapped) /\ Cardinality(Mapped) = 0
    BY <2>1, FS_EmptySet
  <2>3. Capacity \in Nat
    BY Constants
  <2>4. MapInv
    BY <1>2, <2>2, <2>3 DEF MapInv
  <2> QED
    BY <1>2, <1>5, <1>6, <2>4 DEF ThreadInv, ConnectInv, CallInv, HandInv
<1>8. LineInv /\ OrderInv
  BY <1>4, <1>6 DEF LineInv, OrderInv
<1>9. WorksInv
  <2>1. Queued = {} /\ Ordered = {}
    BY <1>4 DEF Queued, Ordered
  <2>2. Cardinality(Queued \cup Ordered) = 0
    BY <2>1, FS_EmptySet
  <2>3. Capacity \in Nat
    BY Constants
  <2>4. CleanInv
    BY <1>2 DEF CleanInv
  <2>5. RoomInv
    BY <1>2, <1>4, <2>2, <2>3 DEF RoomInv
  <2> QED
    BY <2>4, <2>5 DEF WorksInv
<1>10. StateInv
  <2>1. FreeSlots(lastResp) <= Capacity /\ ~Clear(lastResp)
    BY <1>2, NothingTold, Constants
  <2> QED
    BY <1>4, <1>5, <2>1 DEF StateInv
<1>11. AloneInv
  <2>1. NoOk
    BY <1>4 DEF NoOk
  <2> QED
    BY <1>2, <1>5, <2>1 DEF AloneInv, Waits
<1>12. SecondInv
  BY <1>2 DEF SecondInv
<1>13. LeadInv
  BY <1>2, <1>4, <1>6 DEF LeadInv, SetInv, ReadyInv, ComingInv, QueuedInv
<1> QED
  BY <1>1, <1>7, <1>8, <1>9, <1>10, <1>11, <1>12, <1>13 DEF Inv

LEMMA GoesKeepsTypes ==
  ASSUME OneGiver, TypeOK, ThreadInv, LineInv, NEW t \in Threads, Goes(t) \/ GiveWork(t)
  PROVE  TypeOK'
<1>1. CASE LockPm(t) \/ Wait(t) \/ Timeout(t) \/ SpuriousWakeup(t) \/ Mismatch(t)
  BY <1>1, QuietTyped
<1>2. CASE WriteCommand(t)
  BY <1>2, WriteTyped
<1>3. CASE Answered(t)
  BY <1>3, AnsweredTyped
<1>4. CASE ConnectStop(t) \/ ConnectState(t) \/ Connected(t)
  BY <1>4, ConnectTyped
<1>5. CASE GiveWork(t) \/ SetLeading(t) \/ LeadingSet(t) \/ DoWork(t) \/ DropWork(t)
  <2>1. \A j \in 1..given : IdOf(j) \in Ids
    BY DEF LineInv
  <2>2. thread[t].pc \in {"leading", "leadSent", "work"} => thread[t].job \in 1..given
    <3> SUFFICES ASSUME thread[t].pc \in {"leading", "leadSent", "work"}
                 PROVE  thread[t].job \in 1..given
      OBVIOUS
    <3>1. t = Connecting
      BY DEF ThreadInv, ConnectInv, CallInv
    <3>2. InHand
      BY <3>1 DEF InHand, Giver
    <3>3. given \in Jobs /\ thread[t].job = given
      BY <3>1, <3>2 DEF ThreadInv, HandInv, Giver
    <3>4. given \in Nat /\ given \in 1..MaxWorks
      BY <3>3, GivenAreJobs DEF Jobs
    <3>5. given \in 1..given
      BY <3>4
    <3> QED
      BY <3>3, <3>5
  <2> QED
    BY <1>5, <2>1, <2>2, WorkTyped
<1> QED
  BY <1>1, <1>2, <1>3, <1>4, <1>5 DEF Goes

LEMMA GoesKeepsThreads ==
  ASSUME OneGiver, TypeOK, ThreadInv, StateInv, NEW t \in Threads, Goes(t)
  PROVE  ThreadInv'
<1>1. CASE LockPm(t) \/ WriteCommand(t) \/ Wait(t) \/ SpuriousWakeup(t)
  <2>1. PICK l \in {"write", "arm", "waiting", "woken"} :
           Goto(t, l) /\ thread[t].pc \in Waits /\ (l = "write" => thread[t].pc = "lock")
    BY <1>1 DEF LockPm, WriteCommand, Wait, SpuriousWakeup, Waits
  <2>2. UNCHANGED <<connected, given, work, maxJobs, worksMap>>
    BY <1>1 DEF LockPm, WriteCommand, Wait, SpuriousWakeup
  <2> QED
    BY <2>1, <2>2, CommandKeepsThreads
<1>2. CASE Timeout(t) \/ Mismatch(t)
  BY <1>2, SameKeepsThreads DEF Timeout, Mismatch
<1>3. CASE Answered(t)
  BY <1>3, AnsweredKeepsThreads DEF StateInv
<1>4. CASE ConnectStop(t) \/ ConnectState(t) \/ Connected(t)
  BY <1>4, ConnectKeepsThreads
<1>5. CASE SetLeading(t) \/ LeadingSet(t)
  BY <1>5, SetKeepsThreads
<1>6. CASE DoWork(t)
  BY <1>6, DoKeepsThreads
<1>7. CASE DropWork(t)
  BY <1>7, DropKeepsThreads
<1> QED
  BY <1>1, <1>2, <1>3, <1>4, <1>5, <1>6, <1>7 DEF Goes

\* What a process is told while it is not connected is what IdleInv says.
LEMMA IdleIsTold == ASSUME StateInv PROVE IdleInv
BY DEF StateInv, IdleInv

LEMMA GoesKeepsInv ==
  ASSUME OneGiver, Inv, NEW t \in Threads, Goes(t)
  PROVE  Inv'
<1>0. TypeOK /\ ThreadInv /\ LineInv /\ OrderInv /\ WorksInv /\ StateInv /\ AloneInv /\ SecondInv /\ LeadInv
  BY DEF Inv
<1>1. TypeOK'
  BY <1>0, GoesKeepsTypes
<1>2. ThreadInv'
  BY <1>0, GoesKeepsThreads
<1>3. LineInv' /\ OrderInv'
  <2>1. CASE WriteCommand(t)
    BY <1>0, <2>1, WriteKeepsLine
  <2>2. CASE ~WriteCommand(t)
    BY <1>0, <2>2, GoesIs, QuietKeepsLine
  <2> QED
    BY <2>1, <2>2
<1>4. WorksInv'
  <2>1. CASE WriteCommand(t)
    BY <1>0, <2>1, WriteKeepsWorks
  <2>2. CASE ~WriteCommand(t)
    BY <1>0, <2>2, IdleIsTold, GoesKeepsWorks
  <2> QED
    BY <2>1, <2>2
<1>5. StateInv' /\ AloneInv' /\ SecondInv'
  <2>1. CASE connected
    BY <1>0, <2>1, GoesKeepsState, GoesKeepsAlone, GoesKeepsSecond
  <2>2. CASE ~connected
    BY <1>0, <2>2, ConnectingKeepsState, ConnectingKeepsAlone, ConnectingKeepsSecond
  <2> QED
    BY <2>1, <2>2
<1>6. LeadInv'
  <2>1. CASE WriteCommand(t)
    BY <1>0, <2>1, WriteKeepsLead
  <2>2. CASE ~WriteCommand(t)
    BY <1>0, <2>2, GoesKeepsLead
  <2> QED
    BY <2>1, <2>2
<1> QED
  BY <1>1, <1>2, <1>3, <1>4, <1>5, <1>6 DEF Inv

LEMMA GiveKeepsInv ==
  ASSUME OneGiver, Inv, NEW t \in Threads, GiveWork(t)
  PROVE  Inv'
<1>0. TypeOK /\ ThreadInv /\ LineInv /\ OrderInv /\ WorksInv /\ StateInv /\ AloneInv /\ SecondInv /\ LeadInv
  BY DEF Inv
<1>1. connected
  BY DEF GiveWork
<1>2. TypeOK'
  BY <1>0, GoesKeepsTypes
<1>3. ThreadInv'
  BY <1>0, GiveKeepsThreads
<1>4. LineInv' /\ OrderInv'
  BY <1>0, GiveKeepsLine
<1>5. WorksInv'
  BY <1>0, GiveKeepsWorks
<1>6. StateInv' /\ AloneInv' /\ SecondInv'
  BY <1>0, <1>1, GoesKeepsState, GoesKeepsAlone, GoesKeepsSecond
<1>7. LeadInv'
  BY <1>0, GiveKeepsLead
<1> QED
  BY <1>2, <1>3, <1>4, <1>5, <1>6, <1>7 DEF Inv

LEMMA PollKeepsInv ==
  ASSUME OneGiver, Inv, ReadAnswer \/ HwWonWork \/ HwFinishedWork
  PROVE  Inv'
<1>0. TypeOK /\ ThreadInv /\ LineInv /\ OrderInv /\ WorksInv /\ StateInv /\ AloneInv /\ SecondInv /\ LeadInv
  BY DEF Inv
<1>1. TypeOK'
  BY <1>0, PollTyped
<1>2. ThreadInv'
  BY <1>0, PollKeepsThreads
<1>3. LineInv' /\ OrderInv'
  <2>1. /\ toHost # <<>> /\ toHost' = Tail(toHost)
        /\ UNCHANGED <<toBoard, queue, given>>
    BY DEF ReadAnswer, HwWonWork, HwFinishedWork, Reads
  <2>2. InHand' => InHand
    <3>1. CASE ReadAnswer
      <4>1. Connecting \in Threads
        BY Constants
      <4>2. /\ Giver'.cmd = Giver.cmd
            /\ Giver'.pc = Giver.pc \/ (Giver.pc = "waiting" /\ Giver'.pc = "woken")
        BY <1>0, <3>1, <4>1, AnswerIs DEF Giver
      <4> QED
        BY <4>2 DEF InHand, Waits
    <3>2. CASE HwWonWork \/ HwFinishedWork
      BY <3>2, Zenon DEF HwWonWork, HwFinishedWork, InHand, Giver
    <3> QED
      BY <3>1, <3>2
  <2>3. WorksStay
    <3>1. CASE ReadAnswer
      BY <3>1 DEF ReadAnswer, WorksStay
    <3>2. CASE HwWonWork \/ HwFinishedWork
      BY <1>0, <3>2, NotesAre
    <3> QED
      BY <3>1, <3>2
  <2> QED
    BY <1>0, <2>1, <2>2, <2>3, PollKeepsLine
<1>4. WorksInv'
  BY <1>0, PollKeepsWorks
<1>5. StateInv'
  BY <1>0, ReadKeepsState, ResultKeepsState
<1>6. AloneInv' /\ SecondInv'
  BY <1>0, PollKeepsAlone, PollKeepsSecond
<1>7. LeadInv'
  BY <1>0, PollKeepsLead
<1> QED
  BY <1>1, <1>2, <1>3, <1>4, <1>5, <1>6, <1>7 DEF Inv

LEMMA BoardKeepsInv ==
  ASSUME OneGiver, Inv, BoardTakesCommand \/ BoardFinishes \/ BoardWins
  PROVE  Inv'
<1>0. TypeOK /\ ThreadInv /\ LineInv /\ OrderInv /\ WorksInv /\ StateInv /\ AloneInv /\ SecondInv /\ LeadInv
  BY DEF Inv
<1>1. TypeOK' /\ ThreadInv'
  BY <1>0, BoardTyped, BoardKeepsThreads
<1>2. CASE BoardTakesCommand
  <2>1. LineInv' /\ OrderInv' /\ WorksInv'
    BY <1>0, <1>2, TakeKeepsLine, TakeKeepsWorks
  <2>2. StateInv' /\ AloneInv' /\ SecondInv' /\ LeadInv'
    BY <1>0, <1>2, TakeKeepsState, TakeKeepsAlone, TakeKeepsSecond, TakeKeepsLead
  <2> QED
    BY <1>1, <2>1, <2>2 DEF Inv
<1>3. CASE BoardFinishes \/ BoardWins
  <2>1. LineInv' /\ OrderInv' /\ WorksInv'
    BY <1>0, <1>3, FrontKeepsLine, FrontKeepsWorks
  <2>2. StateInv' /\ AloneInv' /\ SecondInv' /\ LeadInv'
    BY <1>0, <1>3, FrontKeepsState, FrontKeepsAlone, FrontKeepsSecond, FrontKeepsLead
  <2> QED
    BY <1>1, <2>1, <2>2 DEF Inv
<1> QED
  BY <1>2, <1>3

LEMMA RestartKeepsInv ==
  ASSUME OneGiver, Inv, Restart
  PROVE  Inv'
<1>0. TypeOK /\ ThreadInv /\ LineInv /\ OrderInv /\ WorksInv /\ StateInv /\ AloneInv /\ SecondInv /\ LeadInv
  BY DEF Inv
<1>1. TypeOK' /\ ThreadInv'
  BY <1>0, RestartTyped, RestartKeepsThreads
<1>2. LineInv' /\ OrderInv' /\ WorksInv'
  BY <1>0, RestartKeepsLine, RestartKeepsWorks
<1>3. StateInv' /\ AloneInv' /\ SecondInv' /\ LeadInv'
  BY <1>0, RestartKeepsState, RestartKeepsAlone, RestartKeepsSecond, RestartKeepsLead
<1> QED
  BY <1>1, <1>2, <1>3 DEF Inv

\* The id of the next work is no other's business.
LEMMA NewIdKeepsInv ==
  ASSUME Inv, nextId' \in Ids,
         UNCHANGED <<connected, thread, pm, lastReq, lastResp, cmdIndex, leading0, maxJobs,
                     worksMap, work, given, aborted, toBoard, toHost, queue, lead, used>>
  PROVE  Inv'
<1>1. UNCHANGED <<connected, thread, pm, lastReq, lastResp, cmdIndex, leading0, maxJobs,
                  worksMap, work, given, aborted, toBoard, toHost, queue, lead, used>>
  OBVIOUS
<1>2. TypeOK'
  BY <1>1 DEF Inv, TypeOK
<1>3. ThreadInv'
  BY <1>1, SameKeepsThreads DEF Inv
<1>4. LineInv' /\ OrderInv'
  BY <1>1 DEF Inv, LineInv, OrderInv, ResultAt, WorkAt, Passes, IdOf, InHand, Giver
<1>5. Live' = Live /\ Queued' = Queued /\ Ordered' = Ordered /\ Reported' = Reported
  BY <1>1 DEF Live, Queued, Ordered, Reported, ResultAt, WorkAt, InHand, Giver
<1>6. CleanInv'
  BY <1>1, <1>5 DEF Inv, WorksInv, CleanInv, Ordinary, Keeps, IdOf
<1>7. RoomInv'
  BY <1>1, <1>5 DEF Inv, WorksInv, RoomInv, Ordinary
<1>8. StateInv'
  BY <1>1, <1>5 DEF Inv, StateInv, Few, NothingLive, Giver, StateAt, WorkAt, ResultAt
<1>9. AloneInv'
  BY <1>1 DEF Inv, AloneInv, NoOk, Matches, Giver, StateAt
<1>10. SecondInv'
  BY <1>1 DEF Inv, SecondInv, StatesFirst, OneState, NoWorkBehind, Knows, NoState, Matches, Stopping,
              Asking, Giver, StateAt, WorkAt, ToldAt
<1>11. LeadInv'
  BY <1>1 DEF Inv, LeadInv, SetInv, ReadyInv, ComingInv, QueuedInv, LeadAt, End, Sets, Ready, Asks,
              WorkAt, Giver
<1> QED
  BY <1>2, <1>3, <1>4, <1>6, <1>7, <1>8, <1>9, <1>10, <1>11 DEF Inv, WorksInv

LEMMA RefuseKeepsInv == ASSUME OneGiver, Inv, NEW t \in Threads, RefuseWork(t) PROVE Inv'
<1>1. nextId' \in Ids
  <2>1. nextId' = (nextId + 1) % Size
    BY DEF RefuseWork, NewId, Size
  <2>2. Size \in Nat \ {0} /\ Ids = 0..(Size - 1)
    BY Constants
  <2>3. nextId \in Ids
    BY DEF Inv, TypeOK
  <2> QED
    BY <2>1, <2>2, <2>3, NextIs
<1> QED
  BY <1>1, NewIdKeepsInv DEF RefuseWork, board

LEMMA StutterKeepsInv == ASSUME Inv, UNCHANGED vars PROVE Inv'
<1>1. nextId' \in Ids
  BY DEF vars, process, Inv, TypeOK
<1> QED
  BY <1>1, NewIdKeepsInv DEF vars, process, board

LEMMA InvStep == ASSUME OneGiver, Inv, [Next]_vars PROVE Inv'
<1>1. CASE \E t \in Threads : Goes(t)
  BY <1>1, GoesKeepsInv
<1>2. CASE \E t \in Threads : GiveWork(t) \/ RefuseWork(t)
  BY <1>2, GiveKeepsInv, RefuseKeepsInv
<1>3. CASE ReadAnswer \/ HwWonWork \/ HwFinishedWork
  BY <1>3, PollKeepsInv
<1>4. CASE BoardTakesCommand \/ BoardFinishes \/ BoardWins
  BY <1>4, BoardKeepsInv
<1>5. CASE Restart
  BY <1>5, RestartKeepsInv
<1>6. CASE UNCHANGED vars
  BY <1>6, StutterKeepsInv
<1>7. ASSUME NEW t \in Threads, ThreadStep(t) \/ Calls(t) \/ Expires(t) \/ SpuriousWakeup(t)
      PROVE  Goes(t) \/ GiveWork(t) \/ RefuseWork(t)
  BY <1>7 DEF ThreadStep, Calls, Expires, Goes
<1> QED
  BY <1>1, <1>2, <1>3, <1>4, <1>5, <1>6, <1>7 DEF Next, PollStep, BoardStep

\* With one thread that gives works the threads, the line in both directions and the board
\* stay as Inv says: who is where in which call, that works pass the line in order, that
\* works_map holds what the board may still report, what a CHIPSTATE on its way will tell, and
\* what the board's leading zeroes will be when a work arrives.
THEOREM Invariance == OneGiver => (Spec => []Inv)
<1>1. OneGiver /\ Init => Inv
  BY InvInit
<1>2. OneGiver /\ Inv /\ [Next]_vars => Inv'
  BY InvStep
<1> SUFFICES ASSUME OneGiver PROVE Spec => []Inv
  OBVIOUS
<1>3. Init => Inv
  BY <1>1
<1>4. Inv /\ [Next]_vars => Inv'
  BY <1>2
<1> QED
  BY <1>3, <1>4, PTL DEF Spec

\* Every variable of the library and of the board keeps its type: no more works in the
\* board's queue than it has space for, and in works_map no id but those there are.
THEOREM Typed == OneGiver => (Spec => []TypeOK)
<1>1. Inv => TypeOK
  BY DEF Inv
<1> QED
  BY <1>1, Invariance, PTL

\* spond_give_work never gives the board more than it has space for, so that the assert on
\* NO_SPACE does not fail, with any capacity, number of ids, works, refused works, drops and
\* wake-ups, and any number of restarts of which at most two leave commands on the line; as
\* long as no id comes round to a work that is underway.
THEOREM NeverNoSpaceAlways == OneGiver => (Spec => []NeverNoSpace)
<1>1. Inv => NeverNoSpace
  BY DEF Inv, WorksInv, RoomInv, NeverNoSpace
<1> QED
  BY <1>1, Invariance, PTL

\* hw_finished_work and hw_won_work find in works_map the work the board means or none, as long
\* as no id comes round to a work that is underway; and the board computes a work with the
\* leading zeroes it asked for, whatever the process before this one left on the line, in the
\* queue and on the board.
THEOREM AnswersMeanTheWorkAlways == OneGiver => (Spec => []AnswersMeanTheWork)
<1>1. ASSUME Inv PROVE AnswersMeanTheWork
  <2>1. ASSUME NEW k \in 1..Len(toHost), ResultAt(k), connected, Ordinary
        PROVE  worksMap[toHost[k].index] \in {toHost[k].job, None}
    <3>1. toHost[k].job \in 1..given /\ toHost[k].index = IdOf(toHost[k].job)
      BY <1>1, <2>1 DEF Inv, LineInv, ResultAt
    <3>2. IdOf(toHost[k].job) \in Ids
      BY <1>1, <3>1 DEF Inv, LineInv
    <3>3. CASE maxJobs = 0
      BY <1>1, <3>1, <3>2, <3>3 DEF Inv, ThreadInv, MapInv
    <3>4. CASE maxJobs # 0
      <4>1. maxJobs \in Nat /\ given \in Nat
        BY <1>1, GivenAreJobs DEF Inv, TypeOK
      <4>2. maxJobs > 0
        BY <3>4, <4>1
      <4>3. toHost[k].job \in Live
        BY <2>1 DEF Live, Reported, ResultAt
      <4>5. Keeps(toHost[k].job)
        BY <1>1, <2>1, <4>2, <4>3 DEF Inv, WorksInv, CleanInv
      <4> QED
        BY <3>1, <4>5 DEF Keeps
    <3> QED
      BY <3>3, <3>4
  <2>2. ASSUME NEW k \in 1..Len(queue),
               work[queue[k].job].state = "given", work[queue[k].job].asked # 0
        PROVE  queue[k].lead = work[queue[k].job].asked
    BY <1>1, <2>2 DEF Inv, LeadInv, QueuedInv, Asks
  <2> QED
    BY <2>1, <2>2 DEF AnswersMeanTheWork
<1>2. Inv => AnswersMeanTheWork
  BY <1>1
<1> QED
  BY <1>2, Invariance, PTL
=============================================================================
