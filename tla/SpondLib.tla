------------------------------- MODULE SpondLib -------------------------------
(***************************************************************************)
(* The host library of the FPGA board, old/host_sw/spond_lib.cpp: threads  *)
(* of an application give works to the board over a serial line and a poll *)
(* thread reads the board's answers.  A command is written under the mutex *)
(* pm, which its thread holds until the answer is there; it waits for the  *)
(* answer on the condition cmd_cond.  works_map holds the works given and  *)
(* not finished.  The board itself is external: what it does is what the   *)
(* library takes it to do.                                                 *)
(*                                                                         *)
(* Critical sections of cmd_mutex and of works_map_mutex that call nothing *)
(* are one step each.  A failed assert ends the process; the application   *)
(* may be started again and connects anew to a board that went on.         *)
(***************************************************************************)
EXTENDS Naturals, Sequences, FiniteSets, Functions

CONSTANTS
    Givers,      \* application threads that call spond_give_work
    Others,      \* those that call spond_dropwork
    None,        \* no thread, no job
    Ids,         \* the work ids, 0 up to some number
    Capacity,    \* the works the board has space for
    Leads,       \* values of leading_zeroes
    MaxWorks,    \* bound on the works given
    MaxEvents    \* bound on the calls of spond_dropwork, the restarts of the
                 \* process and the spurious wake-ups together

Threads == Givers \cup Others

ASSUME IdsAssumption ==
    IsFiniteSet(Ids) /\ Ids = 0..(Cardinality(Ids) - 1) /\ Ids # {}
ASSUME CapacityAssumption == Capacity \in Nat /\ 0 < Capacity /\ Capacity < 65536
ASSUME NoneAssumption == None \notin Threads /\ None \notin Nat
ASSUME LeadsAssumption == Leads \subseteq Nat
ASSUME BoundsAssumption == MaxWorks \in Nat /\ MaxEvents \in Nat

Jobs == 1..MaxWorks

\* The index of a command.  STOP has two of its own, a work that of the work,
\* CHIPSTATE a running one, of which the last bit is enough.
StopIndex == 16
ConnectIndex == 18
StateIndex(n) == 5 + (n % 2)

Command(k, i, a) == [kind |-> k, index |-> i, arg |-> a]

\* The answer to CHIPSTATE: free slots in the lower half word, whether the
\* engine runs above.
ChipState(free, running) == free + 65536 * (IF running THEN 1 ELSE 0)
FreeSlots(state) == state % 65536
EngineRunning(state) == state \div 65536 > 0

\* A line of the board, RSP[index] OK, DONE, WIN or NO_SPACE.  (j is the work
\* the line is about, which the line does not say.)
Response(k, i, s, j) == [kind |-> k, index |-> i, state |-> s, job |-> j]

VARIABLES
    \* the process
    connected,  \* spond_connect has returned
    thread,     \* the application's threads
    pm,         \* who holds the mutex pm
    lastReq,    \* last_req_id
    lastResp,   \* last_resp
    cmdIndex,   \* current_cmd_index
    leading0,   \* what the library last set on the board
    maxJobs,    \* MAX_JOBS_IN_HW
    worksMap,   \* works_map: the job of each id, or None
    work,       \* the SPOND_WORK of each job
    nextId,     \* the id of the application's next work
    given,      \* the jobs given so far, by any process
    aborted,    \* the assert that failed, if one did
    \* the line and the board
    toBoard,    \* commands on the line
    toHost,     \* answers on the line
    queue,      \* works the board has accepted, the running one first
    lead,       \* its leading zeroes
    used        \* the drops, restarts and spurious wake-ups there were; a
                \* restart is hasty when commands are still on the line; and
                \* whether the id of a work underway was given to another

process == <<connected, thread, pm, lastReq, lastResp, cmdIndex, leading0,
             maxJobs, worksMap, work, nextId, given, aborted>>
board == <<toBoard, toHost, queue, lead>>
vars == <<process, board, used>>

Unsent == [state |-> "none", id |-> 0, asked |-> 0, lz |-> 0, success |-> 0, wins |-> 0]
NoCommand == Command("STOP", 0, 0)
Idle == [pc |-> "idle", cmd |-> NoCommand, ret |-> "idle", job |-> None,
         running |-> FALSE]

\* One thread connects.
Connecting == CHOOSE t \in Givers : TRUE
Started == [t \in Threads |-> IF t = Connecting THEN [Idle EXCEPT !.pc = "connect"] ELSE Idle]

Init ==
    /\ connected = FALSE
    /\ thread = Started
    /\ pm = None
    /\ lastReq = 0 /\ lastResp = 0 /\ cmdIndex = 0
    /\ leading0 = 0 /\ maxJobs = 0
    /\ worksMap = [i \in Ids |-> None]
    /\ work = [j \in Jobs |-> Unsent]
    /\ nextId = 0
    /\ given = 0
    /\ aborted = "no"
    /\ toBoard = <<>> /\ toHost = <<>> /\ queue = <<>>
    /\ lead \in Leads
    /\ used = [drops |-> 0, restarts |-> 0, hasty |-> 0, spurious |-> 0,
               reused |-> FALSE]

MayHappen == used.drops + used.restarts + used.spurious < MaxEvents

Goto(t, l) == thread' = [thread EXCEPT ![t].pc = l]

\* t calls send_cmd_to_board or send_cmd_to_board_get_responce.
Send(t, cmd, ret) ==
    thread' = [thread EXCEPT ![t].pc = "lock", ![t].cmd = cmd, ![t].ret = ret]

(***************************************************************************)
(* send_cmd_to_board                                                       *)
(***************************************************************************)

LockPm(t) ==
    /\ thread[t].pc = "lock"
    /\ pm = None
    /\ pm' = t
    /\ Goto(t, "write")
    /\ UNCHANGED <<connected, lastReq, lastResp, cmdIndex, leading0, maxJobs,
                   worksMap, work, nextId, given, aborted, board, used>>

WriteCommand(t) ==
    /\ thread[t].pc = "write"
    /\ toBoard' = Append(toBoard, thread[t].cmd)
    /\ Goto(t, "arm")
    /\ UNCHANGED <<connected, pm, lastReq, lastResp, cmdIndex, leading0, maxJobs,
                   worksMap, work, nextId, given, aborted, toHost, queue, lead, used>>

\* Only now cmd_mutex is taken, and given back by the wait.
Wait(t) ==
    /\ thread[t].pc = "arm"
    /\ lastReq' = 0
    /\ Goto(t, "waiting")
    /\ UNCHANGED <<connected, pm, lastResp, cmdIndex, leading0, maxJobs,
                   worksMap, work, nextId, given, aborted, board, used>>

\* Two seconds pass only when the board and the poll thread have nothing to
\* answer any more.
Timeout(t) ==
    /\ thread[t].pc = "waiting"
    /\ toBoard = <<>>
    /\ toHost = <<>>
    /\ aborted' = "timeout"
    /\ UNCHANGED <<connected, thread, pm, lastReq, lastResp, cmdIndex, leading0,
                   maxJobs, worksMap, work, nextId, given, board, used>>

SpuriousWakeup(t) ==
    /\ thread[t].pc = "waiting"
    /\ MayHappen
    /\ used' = [used EXCEPT !.spurious = @ + 1]
    /\ Goto(t, "woken")
    /\ UNCHANGED <<connected, pm, lastReq, lastResp, cmdIndex, leading0, maxJobs,
                   worksMap, work, nextId, given, aborted, board>>

Mismatch(t) ==
    /\ thread[t].pc = "woken"
    /\ lastReq # thread[t].cmd.index
    /\ aborted' = "mismatch"
    /\ UNCHANGED <<connected, thread, pm, lastReq, lastResp, cmdIndex, leading0,
                   maxJobs, worksMap, work, nextId, given, board, used>>

\* The call returns; spond_get_board_state takes the copied answer apart.
Answered(t) ==
    /\ thread[t].pc = "woken"
    /\ lastReq = thread[t].cmd.index
    /\ pm' = None
    /\ IF thread[t].cmd.kind = "CHIPSTATE"
       THEN /\ maxJobs' = FreeSlots(lastResp)
            /\ thread' = [thread EXCEPT ![t].pc = thread[t].ret,
                                        ![t].running = EngineRunning(lastResp)]
       ELSE Goto(t, thread[t].ret) /\ UNCHANGED maxJobs
    /\ UNCHANGED <<connected, lastReq, lastResp, cmdIndex, leading0,
                   worksMap, work, nextId, given, aborted, board, used>>

(***************************************************************************)
(* spond_connect: STOP, then CHIPSTATE until the engine does not run.      *)
(***************************************************************************)
ConnectStop(t) ==
    /\ thread[t].pc = "connect"
    /\ Send(t, Command("STOP", ConnectIndex, 0), "connectState")
    /\ UNCHANGED <<connected, pm, lastReq, lastResp, cmdIndex, leading0, maxJobs,
                   worksMap, work, nextId, given, aborted, board, used>>

ConnectState(t) ==
    /\ thread[t].pc = "connectState"
    /\ Send(t, Command("CHIPSTATE", StateIndex(cmdIndex), 0), "connected")
    /\ cmdIndex' = 1 - cmdIndex
    /\ UNCHANGED <<connected, pm, lastReq, lastResp, leading0, maxJobs,
                   worksMap, work, nextId, given, aborted, board, used>>

\* Variant: whatever the engine does.
ConnectedAnyhow(t) ==
    /\ thread[t].pc = "connected"
    /\ connected' = TRUE
    /\ Goto(t, "idle")
    /\ UNCHANGED <<pm, lastReq, lastResp, cmdIndex, leading0, maxJobs,
                   worksMap, work, nextId, given, aborted, board, used>>

Connected(t) ==
    /\ thread[t].pc = "connected"
    /\ connected' = ~thread[t].running
    /\ Goto(t, IF connected' THEN "idle" ELSE "connectState")
    /\ UNCHANGED <<pm, lastReq, lastResp, cmdIndex, leading0, maxJobs,
                   worksMap, work, nextId, given, aborted, board, used>>

(***************************************************************************)
(* spond_give_work.  The application asks as spond_test does, again and    *)
(* again, with a new id each time, whether it is refused or not; each      *)
(* process from the same id on.                                            *)
(***************************************************************************)
IdOf(j) == work[j].id
Mapped == {i \in Ids : worksMap[i] # None}
NewId == nextId' = (nextId + 1) % Cardinality(Ids)

\* Variant: one work too many.
HasSpaceForOneMore == Cardinality(Mapped) <= maxJobs
HasSpace == Cardinality(Mapped) < maxJobs

RefuseWork(t) ==
    /\ t \in Givers
    /\ connected
    /\ thread[t].pc = "idle"
    /\ ~HasSpace
    /\ NewId
    /\ UNCHANGED <<connected, thread, pm, lastReq, lastResp, cmdIndex, leading0,
                   maxJobs, worksMap, work, given, aborted, board, used>>

\* The works the board still has to hear of, has, or has told of; and those of
\* calls that have not returned.
ResultAt(k) == toHost[k].kind \in {"DONE", "WIN"}
WorkAt(p) == toBoard[p].kind = "DO_WORK"
Reported == {toHost[k].job : k \in {m \in 1..Len(toHost) : ResultAt(m)}}
Queued == {queue[k].job : k \in 1..Len(queue)}
Ordered == {toBoard[p].arg : p \in {q \in 1..Len(toBoard) : WorkAt(q)}}
Called == {thread[t].job : t \in {u \in Givers : thread[u].pc # "idle"}}
Underway == Reported \cup Queued \cup Ordered \cup Called

\* works_map[work->work_id] = work, whatever was there.
GiveWork(t) ==
    /\ t \in Givers
    /\ connected
    /\ thread[t].pc = "idle"
    /\ given < MaxWorks
    /\ HasSpace
    /\ \E lz \in Leads :
         work' = [work EXCEPT ![given + 1] =
                      [Unsent EXCEPT !.state = "given", !.id = nextId, !.asked = lz, !.lz = lz]]
    /\ given' = given + 1
    /\ NewId
    /\ worksMap' = [worksMap EXCEPT ![nextId] = given + 1]
    /\ used' = [used EXCEPT !.reused = @ \/ worksMap[nextId] \in Underway]
    /\ thread' = [thread EXCEPT ![t].pc = "leading", ![t].job = given + 1]
    /\ UNCHANGED <<connected, pm, lastReq, lastResp, cmdIndex, leading0, maxJobs,
                   aborted, board>>

SetLeading(t) ==
    /\ thread[t].pc = "leading"
    /\ LET j == thread[t].job
       IN  IF leading0 # work[j].lz
           THEN Send(t, Command("LEADING0", IdOf(j), work[j].lz), "leadSent")
           ELSE Goto(t, "work")
    /\ UNCHANGED <<connected, pm, lastReq, lastResp, cmdIndex, leading0, maxJobs,
                   worksMap, work, nextId, given, aborted, board, used>>

LeadingSet(t) ==
    /\ thread[t].pc = "leadSent"
    /\ leading0' = work[thread[t].job].lz
    /\ Goto(t, "work")
    /\ UNCHANGED <<connected, pm, lastReq, lastResp, cmdIndex, maxJobs,
                   worksMap, work, nextId, given, aborted, board, used>>

\* A work without leading zeroes leaves the call with one.
DoWork(t) ==
    /\ thread[t].pc = "work"
    /\ LET j == thread[t].job
       IN  /\ Send(t, Command("DO_WORK", IdOf(j), j), "idle")
           /\ work' = IF work[j].lz = 0 THEN [work EXCEPT ![j].lz = 1] ELSE work
    /\ UNCHANGED <<connected, pm, lastReq, lastResp, cmdIndex, leading0, maxJobs,
                   worksMap, nextId, given, aborted, board, used>>

\* spond_dropwork
DropWork(t) ==
    /\ t \in Others
    /\ connected
    /\ thread[t].pc = "idle"
    /\ MayHappen
    /\ used' = [used EXCEPT !.drops = @ + 1]
    /\ Send(t, Command("STOP", StopIndex, 0), "idle")
    /\ UNCHANGED <<connected, pm, lastReq, lastResp, cmdIndex, leading0, maxJobs,
                   worksMap, work, nextId, given, aborted, board>>

(***************************************************************************)
(* poll_board_thread and proccess_response                                 *)
(***************************************************************************)
line == Head(toHost)

Reads(kind) ==
    /\ toHost # <<>>
    /\ line.kind = kind
    /\ toHost' = Tail(toHost)

\* A broadcast of cmd_cond wakes who waits now; NO_SPACE fails an assert.
ReadAnswer ==
    /\ \E k \in {"OK", "NO_SPACE"} : Reads(k)
    /\ IF line.kind = "OK"
       THEN /\ lastReq' = line.index
            /\ lastResp' = line.state
            /\ thread' = [t \in Threads |-> IF thread[t].pc = "waiting"
                                            THEN [thread[t] EXCEPT !.pc = "woken"] ELSE thread[t]]
            /\ UNCHANGED aborted
       ELSE aborted' = "no space" /\ UNCHANGED <<lastReq, lastResp, thread>>
    /\ UNCHANGED <<connected, pm, cmdIndex, leading0, maxJobs, worksMap, work,
                   nextId, given, toBoard, queue, lead, used>>

\* Variant: the win erases the work, as the line commented out did.
HwWonWorkErases ==
    /\ Reads("WIN")
    /\ LET j == worksMap[line.index]
       IN  work' = IF j = None THEN work ELSE [work EXCEPT ![j].success = @ + 1]
    /\ worksMap' = [worksMap EXCEPT ![line.index] = None]
    /\ UNCHANGED <<connected, thread, pm, lastReq, lastResp, cmdIndex, leading0,
                   maxJobs, nextId, given, aborted, toBoard, queue, lead, used>>

HwWonWork ==
    /\ Reads("WIN")
    /\ LET j == worksMap[line.index]
       IN  work' = IF j = None THEN work ELSE [work EXCEPT ![j].success = @ + 1]
    /\ UNCHANGED <<connected, thread, pm, lastReq, lastResp, cmdIndex, leading0,
                   maxJobs, worksMap, nextId, given, aborted, toBoard, queue, lead, used>>

HwFinishedWork ==
    /\ Reads("DONE")
    /\ LET j == worksMap[line.index]
       IN  work' = IF j = None THEN work ELSE [work EXCEPT ![j].state = "finished"]
    /\ worksMap' = [worksMap EXCEPT ![line.index] = None]
    /\ UNCHANGED <<connected, thread, pm, lastReq, lastResp, cmdIndex, leading0,
                   maxJobs, nextId, given, aborted, toBoard, queue, lead, used>>

(***************************************************************************)
(* The board.  STOP empties its queue; the work that runs may run on.      *)
(***************************************************************************)
Answers(kind, state) ==
    toHost' = Append(toHost, Response(kind, Head(toBoard).index, state, None))

BoardTakesCommand ==
    /\ toBoard # <<>>
    /\ toBoard' = Tail(toBoard)
    /\ LET c == Head(toBoard)
       IN  \/ /\ c.kind = "LEADING0"
              /\ lead' = c.arg
              /\ Answers("OK", 0)
              /\ UNCHANGED queue
           \/ /\ c.kind = "DO_WORK"
              /\ IF Len(queue) < Capacity
                 THEN /\ queue' = Append(queue, [id |-> c.index, job |-> c.arg, lead |-> lead])
                      /\ Answers("OK", 0)
                 ELSE Answers("NO_SPACE", 0) /\ UNCHANGED queue
              /\ UNCHANGED lead
           \/ /\ c.kind = "STOP"
              /\ queue' \in {<<>>, IF queue = <<>> THEN <<>> ELSE <<Head(queue)>>}
              /\ Answers("OK", 0)
              /\ UNCHANGED lead
           \/ /\ c.kind = "CHIPSTATE"
              /\ Answers("OK", ChipState(Capacity - Len(queue), queue # <<>>))
              /\ UNCHANGED <<queue, lead>>
    /\ UNCHANGED <<process, used>>

\* (A work wins at most once here.)
BoardWins ==
    /\ queue # <<>>
    /\ work[Head(queue).job].wins = 0
    /\ work' = [work EXCEPT ![Head(queue).job].wins = 1]
    /\ toHost' = Append(toHost, Response("WIN", Head(queue).id, 0, Head(queue).job))
    /\ UNCHANGED <<connected, thread, pm, lastReq, lastResp, cmdIndex, leading0,
                   maxJobs, worksMap, nextId, given, aborted, toBoard, queue, lead, used>>

BoardFinishes ==
    /\ queue # <<>>
    /\ queue' = Tail(queue)
    /\ toHost' = Append(toHost, Response("DONE", Head(queue).id, 0, Head(queue).job))
    /\ UNCHANGED <<process, toBoard, lead, used>>

\* The process ends, by a failed assert or otherwise, and starts again.
\* Closing the line discards what was not read; works given are forgotten.
Restart ==
    /\ MayHappen
    /\ used' = [used EXCEPT !.restarts = @ + 1,
                            !.hasty = IF toBoard = <<>> THEN @ ELSE @ + 1]
    /\ connected' = FALSE
    /\ thread' = Started
    /\ pm' = None
    /\ lastReq' = 0 /\ lastResp' = 0 /\ cmdIndex' = 0
    /\ leading0' = 0 /\ maxJobs' = 0 /\ nextId' = 0
    /\ worksMap' = [i \in Ids |-> None]
    /\ work' = [j \in Jobs |-> IF work[j].state = "given"
                               THEN [work[j] EXCEPT !.state = "lost"] ELSE work[j]]
    /\ aborted' = "no"
    /\ toHost' = <<>>
    /\ UNCHANGED <<given, toBoard, queue, lead>>

-----------------------------------------------------------------------------
ThreadStep(t) ==
    /\ aborted = "no"
    /\ \/ LockPm(t) \/ WriteCommand(t) \/ Wait(t)
       \/ Mismatch(t) \/ Answered(t)
       \/ ConnectStop(t) \/ ConnectState(t) \/ Connected(t)
       \/ SetLeading(t) \/ LeadingSet(t) \/ DoWork(t)

Calls(t) == aborted = "no" /\ (GiveWork(t) \/ RefuseWork(t) \/ DropWork(t))

Expires(t) == aborted = "no" /\ Timeout(t)

PollStep ==
    /\ aborted = "no"
    /\ ReadAnswer \/ HwWonWork \/ HwFinishedWork

BoardStep == BoardTakesCommand \/ BoardFinishes

Next ==
    \/ \E t \in Threads : ThreadStep(t) \/ Calls(t)
    \/ \E t \in Threads : Expires(t) \/ (aborted = "no" /\ SpuriousWakeup(t))
    \/ PollStep
    \/ BoardStep \/ BoardWins
    \/ Restart

Spec == Init /\ [][Next]_vars

\* The scheduler runs every thread, two seconds pass, and the board takes commands and finishes
\* works.  (No thread waits for pm for ever: the calls are bounded.)
Fairness ==
    /\ \A t \in Threads : WF_vars(ThreadStep(t)) /\ WF_vars(Expires(t))
    /\ WF_vars(PollStep)
    /\ WF_vars(BoardTakesCommand)
    /\ WF_vars(BoardFinishes)
FairSpec == Spec /\ Fairness

-----------------------------------------------------------------------------
\* After three processes have ended with commands on the line the answer to an
\* earlier CHIPSTATE may be taken for that to the last; and an id that came round
\* to a work underway hides that work: the library promises nothing then (README).
Ordinary == used.hasty <= 2 /\ ~used.reused

\* The library never gives the board more than it has space for: it does not
\* fail on NO_SPACE (``Application gave too much''), however the works, the
\* drops and the restarts interleave with the board's answers.  (With one thread
\* that gives works, and no id that comes round to a work underway.)
NeverNoSpace == Ordinary => aborted # "no space"

\* A DONE or a WIN finishes or counts for the work the board means, although
\* it names an id only, ids are used again, and the board outlives the process;
\* and the board computed it with the leading zeroes the work asked for, whatever
\* it was set to before.  (The former if no id came round to a work underway; the
\* latter with one thread that gives works.  None asked for is no setting of the
\* hardware; it is not sent to a board set by another process.)
AnswersMeanTheWork ==
    /\ \A k \in 1..Len(toHost) :
          ResultAt(k) /\ connected /\ Ordinary =>
              worksMap[toHost[k].index] \in {toHost[k].job, None}
    /\ \A k \in 1..Len(queue) :
          LET w == work[queue[k].job]
          IN  w.state = "given" /\ w.asked # 0 => queue[k].lead = w.asked

\* Unless an assert fails, works are dropped, the application ends or an id comes
\* round to a work underway, every work given is finished.
WorksFinish ==
    [](aborted = "no" /\ used.restarts = 0 /\ used.drops = 0 /\ ~used.reused) =>
        \A j \in Jobs : work[j].state = "given" ~> work[j].state = "finished"
=============================================================================
