----------------------------- MODULE CryptoAsync -----------------------------
(***************************************************************************)
(* The asynchronous calls of /dev/crypto (cryptodev-linux-1.6/ioctl.c with *)
(* ENABLE_ASYNC): job items go round from the free list over todo to done  *)
(* and back.  Threads of the program give jobs, fetch results and poll; a  *)
(* work queue runs cryptask_routine, one instance at a time.  Each list    *)
(* has a lock, held for one step.  What a job computes is left out.        *)
(***************************************************************************)
EXTENDS Naturals, Sequences, FiniteSets

CONSTANTS
    Threads,    \* threads that use the open file
    Jobs,       \* contents of jobs
    NoJob,      \* none
    DefRing,    \* DEF_COP_RINGSIZE
    MaxRing     \* MAX_COP_RINGSIZE

ASSUME RingAssumption == DefRing \in Nat /\ MaxRing \in Nat \ {0} /\ DefRing <= MaxRing
ASSUME JobsAssumption == NoJob \notin Jobs
ASSUME ThreadsAssumption == IsFiniteSet(Threads)

VARIABLES
    free,       \* the length of the free list
    todo, done, \* the contents of the lists
    tmp,        \* the jobs cryptask_routine has taken
    itemcount,  \* the items counted
    lost,       \* the items counted that could not be allocated
    pending,    \* the work is queued
    worker,     \* where cryptask_routine is: "idle", "busy" or "wake"
    pc,         \* where each thread is
    job,        \* the job each thread has in hand
    watch,      \* what each thread polls for: "in" or "out"
    waiters     \* the threads in the wait queue that were not woken

vars == <<free, todo, done, tmp, itemcount, lost, pending, worker, pc, job, watch, waiters>>

lists   == <<free, todo, done, tmp, itemcount, lost>>
polling == <<watch, waiters>>

Open ==
    /\ free = DefRing /\ itemcount = DefRing /\ lost = 0
    /\ todo = <<>> /\ done = <<>> /\ tmp = <<>>

Init ==
    /\ Open
    /\ pending = FALSE /\ worker = "idle"
    /\ pc = [t \in Threads |-> "idle"]
    /\ job = [t \in Threads |-> NoJob]
    /\ watch = [t \in Threads |-> "in"]
    /\ waiters = {}

Goto(t, label) == pc' = [pc EXCEPT ![t] = label]

-------------------------------------------------------------------------------

\* crypto_async_run takes an item off the free list, or counts a new one; with
\* MAX_COP_RINGSIZE items it returns -EBUSY, which changes nothing.
TakeItem(t) ==
    /\ pc[t] = "idle"
    /\ \/ free > 0 /\ free' = free - 1 /\ Goto(t, "push") /\ UNCHANGED itemcount
       \/ /\ free = 0 /\ itemcount < MaxRing
          /\ itemcount' = itemcount + 1
          /\ Goto(t, "alloc")
          /\ UNCHANGED free
    /\ \E j \in Jobs : job' = [job EXCEPT ![t] = j]
    /\ UNCHANGED <<todo, done, tmp, lost, pending, worker, polling>>

\* The new item is allocated.  When that fails it stays counted.
Alloc(t) ==
    /\ pc[t] = "alloc"
    /\ \/ Goto(t, "push") /\ UNCHANGED <<lost, job>>
       \/ Goto(t, "idle") /\ lost' = lost + 1 /\ job' = [job EXCEPT ![t] = NoJob]
    /\ UNCHANGED <<free, todo, done, tmp, itemcount, pending, worker, polling>>

\* Variant: the test for a queued work inverted.
PushOnly(t) ==
    /\ pc[t] = "push"
    /\ todo' = Append(todo, job[t])
    /\ job' = [job EXCEPT ![t] = NoJob]
    /\ Goto(t, IF todo = <<>> THEN "idle" ELSE "queue")
    /\ UNCHANGED <<free, done, tmp, itemcount, lost, pending, worker, polling>>

Push(t) ==
    /\ pc[t] = "push"
    /\ todo' = Append(todo, job[t])
    /\ job' = [job EXCEPT ![t] = NoJob]
    /\ Goto(t, "queue")
    /\ UNCHANGED <<free, done, tmp, itemcount, lost, pending, worker, polling>>

\* queue_work: once more when the routine runs, nothing when it is queued.
QueueWork(t) ==
    /\ pc[t] = "queue"
    /\ pending' = TRUE
    /\ Goto(t, "idle")
    /\ UNCHANGED <<lists, worker, job, polling>>

-------------------------------------------------------------------------------
\* cryptask_routine takes all jobs to do ...
TakeJobs ==
    /\ worker = "idle" /\ pending
    /\ pending' = FALSE
    /\ tmp' = todo /\ todo' = <<>>
    /\ worker' = "busy"
    /\ UNCHANGED <<free, done, itemcount, lost, pc, job, polling>>

\* Variant: list_splice for list_splice_tail.
PushDoneFirst ==
    /\ worker = "busy"
    /\ done' = tmp \o done /\ tmp' = <<>>
    /\ worker' = "wake"
    /\ UNCHANGED <<free, todo, itemcount, lost, pending, pc, job, polling>>

\* ... runs them, and appends them to the done list ...
PushDone ==
    /\ worker = "busy"
    /\ done' = done \o tmp /\ tmp' = <<>>
    /\ worker' = "wake"
    /\ UNCHANGED <<free, todo, itemcount, lost, pending, pc, job, polling>>

\* ... and wakes who polls.
WakeIn ==
    /\ worker = "wake"
    /\ waiters' = {}
    /\ worker' = "idle"
    /\ UNCHANGED <<lists, pending, pc, job, watch>>

-------------------------------------------------------------------------------
\* crypto_async_fetch: the first job done, its item back to the free list, a
\* wake-up.  (-EBUSY, when there is none, changes nothing.)
Fetch(t) ==
    /\ pc[t] = "idle"
    /\ done # <<>>
    /\ job' = [job EXCEPT ![t] = Head(done)]
    /\ done' = Tail(done)
    /\ Goto(t, "put")
    /\ UNCHANGED <<free, todo, tmp, itemcount, lost, pending, worker, polling>>

\* Variant: a job that failed returns its code at once.
PutItemIfDone(t) ==
    /\ pc[t] = "put"
    /\ free' \in {free, free + 1}
    /\ job' = [job EXCEPT ![t] = NoJob]
    /\ Goto(t, "wake")
    /\ UNCHANGED <<todo, done, tmp, itemcount, lost, pending, worker, polling>>

\* Variant: no wake-up for who waits for a free item.
PutItemQuietly(t) ==
    /\ pc[t] = "put"
    /\ free' = free + 1
    /\ job' = [job EXCEPT ![t] = NoJob]
    /\ Goto(t, "idle")
    /\ UNCHANGED <<todo, done, tmp, itemcount, lost, pending, worker, polling>>

PutItem(t) ==
    /\ pc[t] = "put"
    /\ free' = free + 1
    /\ job' = [job EXCEPT ![t] = NoJob]
    /\ Goto(t, "wake")
    /\ UNCHANGED <<todo, done, tmp, itemcount, lost, pending, worker, polling>>

WakeOut(t) ==
    /\ pc[t] = "wake"
    /\ waiters' = {}
    /\ Goto(t, "idle")
    /\ UNCHANGED <<lists, pending, worker, job, watch>>

-------------------------------------------------------------------------------
\* The events cryptodev_poll reports.
PollIn  == done # <<>>
PollOut == free > 0 \/ itemcount < MaxRing
Ready(t) == IF watch[t] = "in" THEN PollIn ELSE PollOut

\* poll() enters the wait queue, asks for the events, sleeps when there are
\* none and it was not woken since, and asks again.
Poll(t) ==
    /\ pc[t] = "idle"
    /\ \E w \in {"in", "out"} : watch' = [watch EXCEPT ![t] = w]
    /\ waiters' = waiters \cup {t}
    /\ Goto(t, "check")
    /\ UNCHANGED <<lists, pending, worker, job>>

Check(t) ==
    /\ pc[t] = "check"
    /\ \/ Ready(t) /\ Goto(t, "idle") /\ waiters' = waiters \ {t}
       \/ ~Ready(t) /\ Goto(t, "asleep") /\ UNCHANGED waiters
    /\ watch' = IF Ready(t) THEN [watch EXCEPT ![t] = "in"] ELSE watch
    /\ UNCHANGED <<lists, pending, worker, job>>

Woken(t) ==
    /\ pc[t] = "asleep" /\ t \notin waiters
    /\ waiters' = waiters \cup {t}
    /\ Goto(t, "check")
    /\ UNCHANGED <<lists, pending, worker, job, watch>>

\* A poll with a timeout, or a signal, may end at any time.
PollEnds(t) ==
    /\ pc[t] = "asleep"
    /\ waiters' = waiters \ {t}
    /\ watch' = [watch EXCEPT ![t] = "in"]
    /\ Goto(t, "idle")
    /\ UNCHANGED <<lists, pending, worker, job>>

-------------------------------------------------------------------------------
\* cryptodev_release, once no thread is in a call: the work is cancelled (one
\* that runs is waited for), every item of the three lists is freed.  The
\* device is then opened again.
Release ==
    /\ \A t \in Threads : pc[t] = "idle"
    /\ worker = "idle"
    /\ pending' = FALSE
    /\ free' = DefRing /\ itemcount' = DefRing /\ lost' = 0
    /\ todo' = <<>> /\ done' = <<>>
    /\ UNCHANGED <<tmp, worker, pc, job, polling>>

\* The steps a call takes once it has begun.
Step(t) ==
    \/ Alloc(t) \/ Push(t) \/ QueueWork(t)
    \/ PutItem(t) \/ WakeOut(t)
    \/ Check(t) \/ Woken(t)

WorkerStep == TakeJobs \/ PushDone \/ WakeIn

Next ==
    \/ \E t \in Threads : Step(t) \/ TakeItem(t) \/ Fetch(t) \/ Poll(t) \/ PollEnds(t)
    \/ WorkerStep \/ Release

Spec == Init /\ [][Next]_vars
FairSpec == Spec /\ WF_vars(WorkerStep) /\ \A t \in Threads : WF_vars(Step(t))

-------------------------------------------------------------------------------

InHand == Cardinality({t \in Threads : pc[t] \in {"alloc", "push", "put"}})

\* Every item counted is in one list or in one thread's hand, or was never
\* allocated: none is there twice and none gets lost on its way.
ItemsAreSomewhere == free + Len(todo) + Len(tmp) + Len(done) + InHand + lost = itemcount

\* A job given is done in the end, also when it comes while the routine runs.
JobsAreDone == todo # <<>> ~> todo = <<>>

\* Who polls does not sleep on what it polls for.
PollersWake == \A t \in Threads : (pc[t] = "asleep" /\ Ready(t)) ~> ~(pc[t] = "asleep" /\ Ready(t))

\* The lists are a queue of jobs.
Queue == INSTANCE AsyncQueue WITH
    jobs <- done \o tmp \o todo, ready <- Len(done), Capacity <- MaxRing
ImplementsQueue == Queue!Spec
===============================================================================
