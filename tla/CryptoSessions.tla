---------------------------- MODULE CryptoSessions ----------------------------
(***************************************************************************)
(* The sessions of an open /dev/crypto (cryptodev-linux-1.6/ioctl.c and    *)
(* crypto_run of main.c).  The threads of a program share the open file:   *)
(* each makes its ioctl calls as it likes, the work queue's thread runs    *)
(* the jobs of the asynchronous calls, and the last close ends it all.     *)
(*                                                                         *)
(* A list of sessions is guarded by fcr->sem, each session by a mutex of   *)
(* its own, which is taken with fcr->sem held.  What runs with fcr->sem    *)
(* held and does not block is one step.  Failures to allocate, which leave *)
(* nothing in the list, and the keys and algorithms are left out.          *)
(***************************************************************************)
EXTENDS Naturals, FiniteSets, Sequences

CONSTANTS
    Users,      \* threads that call ioctl
    Worker,     \* the thread of cryptodev_wq
    Closer,     \* the thread that closes the file
    Sessions,   \* memory for sessions
    Sids,       \* session identifiers
    IvSizes,    \* initialisation vector sizes of the ciphers
    MaxJobs,    \* bound on the asynchronous jobs that wait
    None        \* no thread, no session

Threads == Users \cup {Worker, Closer}

ASSUME ThreadsAssumption ==
    /\ Worker \notin Users /\ Closer \notin Users /\ Worker # Closer
    /\ None \notin Threads /\ None \notin Sessions
ASSUME SizesAssumption == IvSizes \subseteq Nat
ASSUME SidsAssumption ==
    /\ Sids # {}
    /\ IsFiniteSet(Sids) /\ IsFiniteSet(Sessions)
    /\ Cardinality(Sids) >= Cardinality(Sessions)   \* Insert finds an unused one
ASSUME BoundsAssumption == MaxJobs \in Nat

VARIABLES
    file,     \* "open", "closing" (release called), "cancelled" (no job left), "closed"
    fcrSem,   \* the thread that holds fcr->sem
    state,    \* of each session: "free" memory, "built" (private), "listed", "unlinked"
    sid,      \* of each session
    ivsize,   \* of each session's cipher
    sem,      \* of each session: the thread that holds its mutex
    pc,       \* where each thread is
    op,       \* the call it is in
    cop,      \* the session identifier the call is about
    ses,      \* ses_ptr of each thread
    ivlen,    \* kcop->ivlen: the bytes of kcop->iv that are filled
    ivused,   \* the bytes of kcop->iv crypto_run reads
    todo      \* the jobs of CIOCASYNCCRYPT: session identifier and ivlen

vars == <<file, fcrSem, state, sid, ivsize, sem, pc, op, cop, ses, ivlen, ivused, todo>>

memory == <<state, sid, ivsize, sem>>
Calls  == {"none", "create", "undo", "finish", "info", "crypt", "async", "job", "release"}
AnySid == CHOOSE i \in Sids : TRUE

Listed == {s \in Sessions : state[s] = "listed"}
Found(id) == {s \in Listed : sid[s] = id}
MinOf(a, b) == IF a < b THEN a ELSE b

Init ==
    /\ file = "open"
    /\ fcrSem = None
    /\ state = [s \in Sessions |-> "free"]
    /\ sid = [s \in Sessions |-> AnySid]
    /\ ivsize = [s \in Sessions |-> 0]
    /\ sem = [s \in Sessions |-> None]
    /\ pc = [t \in Threads |-> "idle"]
    /\ op = [t \in Threads |-> "none"]
    /\ cop = [t \in Threads |-> AnySid]
    /\ ses = [t \in Threads |-> None]
    /\ ivlen = [t \in Threads |-> 0]
    /\ ivused = [t \in Threads |-> 0]
    /\ todo = <<>>

Goto(t, label) == pc' = [pc EXCEPT ![t] = label]

\* A call ends, and with it its local variables.
Return(t) ==
    /\ Goto(t, "idle")
    /\ op' = [op EXCEPT ![t] = "none"]
    /\ cop' = [cop EXCEPT ![t] = AnySid]
    /\ ses' = [ses EXCEPT ![t] = None]
    /\ ivlen' = [ivlen EXCEPT ![t] = 0]
    /\ ivused' = [ivused EXCEPT ![t] = 0]

\* An ioctl call begins.
Call(t, call, id, label) ==
    /\ t \in Users /\ pc[t] = "idle" /\ file = "open"
    /\ op' = [op EXCEPT ![t] = call]
    /\ cop' = [cop EXCEPT ![t] = id]
    /\ Goto(t, label)

-------------------------------------------------------------------------------
\* CIOCGSESSION.  The session is built in private memory ...
CreateSession(t) ==
    /\ Call(t, "create", AnySid, "insert")
    /\ \E s \in Sessions, id \in Sids, size \in IvSizes :
          /\ state[s] = "free"
          /\ state' = [state EXCEPT ![s] = "built"]
          /\ sid' = [sid EXCEPT ![s] = id]
          /\ ivsize' = [ivsize EXCEPT ![s] = size]
          /\ ses' = [ses EXCEPT ![t] = s]
    /\ UNCHANGED <<file, fcrSem, sem, ivlen, ivused, todo>>

\* ... and put in the list, under another random sid when one there has it.
Insert(t) ==
    /\ pc[t] = "insert"
    /\ fcrSem = None
    /\ \E id \in Sids :
          /\ Found(id) = {}
          /\ Found(sid[ses[t]]) = {} => id = sid[ses[t]]
          /\ sid' = [sid EXCEPT ![ses[t]] = id]
    /\ state' = [state EXCEPT ![ses[t]] = "listed"]
    /\ Goto(t, "created")
    /\ UNCHANGED <<file, fcrSem, ivsize, sem, op, cop, ses, ivlen, ivused, todo>>

\* sop->ses = ses_new->sid is read without fcr->sem: when the session is gone
\* by then its memory may hold anything.  When the identifier cannot be copied
\* to the caller the session is finished again.
Created(t) ==
    /\ pc[t] = "created"
    /\ \/ Return(t)
       \/ /\ \E id \in Sids :
                /\ state[ses[t]] # "free" => id = sid[ses[t]]
                /\ cop' = [cop EXCEPT ![t] = id]
          /\ op' = [op EXCEPT ![t] = "undo"]
          /\ ses' = [ses EXCEPT ![t] = None]
          /\ Goto(t, "finish")
          /\ UNCHANGED <<ivlen, ivused>>
    /\ UNCHANGED <<file, fcrSem, memory, todo>>

-------------------------------------------------------------------------------
\* CIOCFSESSION, for any identifier.
FinishSession(t) ==
    /\ \E id \in Sids : Call(t, "finish", id, "finish")
    /\ UNCHANGED <<file, fcrSem, memory, ses, ivlen, ivused, todo>>

\* crypto_finish_session.  (After the loop ses_ptr is never NULL, so that it
\* returns 0 whether it has found the session or not.)
FinishLookup(t) ==
    /\ pc[t] = "finish"
    /\ fcrSem = None
    /\ \/ /\ Found(cop[t]) = {}
          /\ Return(t)
          /\ UNCHANGED <<fcrSem, state>>
       \/ \E s \in Found(cop[t]) :
             /\ state' = [state EXCEPT ![s] = "unlinked"]
             /\ ses' = [ses EXCEPT ![t] = s]
             /\ fcrSem' = t
             /\ Goto(t, "destroy")
             /\ UNCHANGED <<op, cop, ivlen, ivused>>
    /\ UNCHANGED <<file, sid, ivsize, sem, todo>>

\* Variant: the session's mutex is not waited for.
DestroyAtOnce(t) ==
    /\ pc[t] = "destroy"
    /\ sem' = [sem EXCEPT ![ses[t]] = t]
    /\ Goto(t, "kfree")
    /\ UNCHANGED <<file, fcrSem, state, sid, ivsize, op, cop, ses, ivlen, ivused, todo>>

\* crypto_destroy_session waits for whoever works on the session ...
Destroy(t) ==
    /\ pc[t] = "destroy"
    /\ sem[ses[t]] = None
    /\ sem' = [sem EXCEPT ![ses[t]] = t]
    /\ Goto(t, "kfree")
    /\ UNCHANGED <<file, fcrSem, state, sid, ivsize, op, cop, ses, ivlen, ivused, todo>>

\* ... and frees it.  crypto_finish_session then unlocks fcr->sem,
\* crypto_finish_all_sessions goes on with the next session.
Kfree(t) ==
    /\ pc[t] = "kfree"
    /\ sem' = [sem EXCEPT ![ses[t]] = None]
    /\ state' = [state EXCEPT ![ses[t]] = "free"]
    /\ sid' = [sid EXCEPT ![ses[t]] = AnySid]
    /\ ivsize' = [ivsize EXCEPT ![ses[t]] = 0]
    /\ \/ /\ op[t] = "release"
          /\ ses' = [ses EXCEPT ![t] = None]
          /\ Goto(t, "finish all")
          /\ UNCHANGED <<fcrSem, op, cop, ivlen, ivused>>
       \/ /\ op[t] # "release"
          /\ fcrSem' = None
          /\ Return(t)
    /\ UNCHANGED <<file, todo>>

-------------------------------------------------------------------------------
\* CIOCGSESSINFO, CIOCCRYPT (CIOCAUTHCRYPT is alike) and CIOCASYNCCRYPT.
Lookup(t) ==
    /\ \E id \in Sids, call \in {"info", "crypt", "async"} : Call(t, call, id, "look up")
    /\ UNCHANGED <<file, fcrSem, memory, ses, ivlen, ivused, todo>>

\* Variant: fcr->sem is unlocked before the session's mutex is locked.
GetSessionUnlocked(t) ==
    /\ pc[t] \in {"look up", "run"}
    /\ fcrSem = None
    /\ \/ Found(cop[t]) = {} /\ Return(t)
       \/ /\ \E s \in Found(cop[t]) : ses' = [ses EXCEPT ![t] = s]
          /\ Goto(t, IF pc[t] = "run" THEN "lock run" ELSE "lock")
          /\ UNCHANGED <<op, cop, ivlen, ivused>>
    /\ UNCHANGED <<file, fcrSem, memory, todo>>

\* crypto_get_session_by_sid finds the session ...
GetSession(t) ==
    /\ pc[t] \in {"look up", "run"}
    /\ fcrSem = None
    /\ \/ /\ Found(cop[t]) = {}
          /\ Return(t)
          /\ UNCHANGED fcrSem
       \/ \E s \in Found(cop[t]) :
             /\ ses' = [ses EXCEPT ![t] = s]
             /\ fcrSem' = t
             /\ Goto(t, IF pc[t] = "run" THEN "lock run" ELSE "lock")
             /\ UNCHANGED <<op, cop, ivlen, ivused>>
    /\ UNCHANGED <<file, memory, todo>>

\* Variant: the mutex is not waited for.
LockSessionAnyhow(t) ==
    /\ pc[t] \in {"lock", "lock run"}
    /\ sem' = [sem EXCEPT ![ses[t]] = t]
    /\ fcrSem' = None
    /\ Goto(t, IF pc[t] = "lock run" THEN "running" ELSE "filling")
    /\ UNCHANGED <<file, state, sid, ivsize, op, cop, ses, ivlen, ivused, todo>>

\* ... and locks it before it unlocks fcr->sem.
LockSession(t) ==
    /\ pc[t] \in {"lock", "lock run"}
    /\ sem[ses[t]] = None
    /\ sem' = [sem EXCEPT ![ses[t]] = t]
    /\ fcrSem' = None
    /\ Goto(t, IF pc[t] = "lock run" THEN "running" ELSE "filling")
    /\ UNCHANGED <<file, state, sid, ivsize, op, cop, ses, ivlen, ivused, todo>>

\* get_session_info, or fill_kcop_from_cop: the initialisation vector, when
\* the caller gives one, has the size this session's cipher wants.
PutFilled(t) ==
    /\ pc[t] = "filling"
    /\ sem' = [sem EXCEPT ![ses[t]] = None]
    /\ \/ op[t] = "info" /\ Return(t)
       \/ /\ op[t] # "info"
          /\ ses' = [ses EXCEPT ![t] = None]
          /\ \E iv \in {0, ivsize[ses[t]]} : ivlen' = [ivlen EXCEPT ![t] = iv]
          /\ Goto(t, "filled")
          /\ UNCHANGED <<op, cop, ivused>>
    /\ UNCHANGED <<file, fcrSem, state, sid, ivsize, todo>>

\* The vector is copied (or the copy fails).  CIOCCRYPT goes on to crypto_run,
\* CIOCASYNCCRYPT leaves that to the work queue.
Filled(t) ==
    /\ pc[t] = "filled"
    /\ \/ Return(t) /\ UNCHANGED todo
       \/ /\ op[t] = "crypt"
          /\ Goto(t, "run")
          /\ UNCHANGED <<op, cop, ses, ivlen, ivused, todo>>
       \/ /\ op[t] = "async" /\ Len(todo) < MaxJobs
          /\ todo' = Append(todo, [cop |-> cop[t], ivlen |-> ivlen[t]])
          /\ Return(t)
    /\ UNCHANGED <<file, fcrSem, memory>>

\* cryptask_routine takes a job.
TakeJob(t) ==
    /\ t = Worker /\ pc[t] = "idle"
    /\ file \in {"open", "closing"}
    /\ todo # <<>>
    /\ op' = [op EXCEPT ![t] = "job"]
    /\ cop' = [cop EXCEPT ![t] = Head(todo).cop]
    /\ ivlen' = [ivlen EXCEPT ![t] = Head(todo).ivlen]
    /\ todo' = Tail(todo)
    /\ Goto(t, "run")
    /\ UNCHANGED <<file, fcrSem, memory, ses, ivused>>

\* Variant: the size the session's cipher wants.
RunWholeIv(t) ==
    /\ pc[t] = "running"
    /\ ivused' = [ivused EXCEPT ![t] = ivsize[ses[t]]]
    /\ Goto(t, "put")
    /\ UNCHANGED <<file, fcrSem, memory, op, cop, ses, ivlen, todo>>

\* crypto_run works on the session.  The session it has found under the
\* identifier need not be the one the vector was filled for.
Run(t) ==
    /\ pc[t] = "running"
    /\ ivused' = [ivused EXCEPT ![t] = MinOf(ivsize[ses[t]], ivlen[t])]
    /\ Goto(t, "put")
    /\ UNCHANGED <<file, fcrSem, memory, op, cop, ses, ivlen, todo>>

\* Variant: an error path that leaves the session locked.
PutUnlessError(t) ==
    /\ pc[t] = "put"
    /\ \/ sem' = [sem EXCEPT ![ses[t]] = None]
       \/ UNCHANGED sem
    /\ Return(t)
    /\ UNCHANGED <<file, fcrSem, state, sid, ivsize, todo>>

Put(t) ==
    /\ pc[t] = "put"
    /\ sem' = [sem EXCEPT ![ses[t]] = None]
    /\ Return(t)
    /\ UNCHANGED <<file, fcrSem, state, sid, ivsize, todo>>

-------------------------------------------------------------------------------
\* cryptodev_release, after the last call on the file has returned.
Release ==
    /\ file = "open"
    /\ \A t \in Users : pc[t] = "idle"
    /\ file' = "closing"
    /\ op' = [op EXCEPT ![Closer] = "release"]
    /\ Goto(Closer, "cancel")
    /\ UNCHANGED <<fcrSem, memory, cop, ses, ivlen, ivused, todo>>

\* cancel_work_sync waits for a job that runs; the jobs that wait are freed.
CancelWork ==
    /\ pc[Closer] = "cancel"
    /\ pc[Worker] = "idle"
    /\ file' = "cancelled"
    /\ todo' = <<>>
    /\ Goto(Closer, "finish lock")
    /\ UNCHANGED <<fcrSem, memory, op, cop, ses, ivlen, ivused>>

FinishAllLock ==
    /\ pc[Closer] = "finish lock"
    /\ fcrSem = None
    /\ fcrSem' = Closer
    /\ Goto(Closer, "finish all")
    /\ UNCHANGED <<file, memory, op, cop, ses, ivlen, ivused, todo>>

\* crypto_finish_all_sessions takes the next session, or is done and the
\* file's memory is freed.
FinishAllNext ==
    /\ pc[Closer] = "finish all"
    /\ \/ \E s \in Listed :
             /\ state' = [state EXCEPT ![s] = "unlinked"]
             /\ ses' = [ses EXCEPT ![Closer] = s]
             /\ Goto(Closer, "destroy")
             /\ UNCHANGED <<file, fcrSem, op, cop, ivlen, ivused>>
       \/ /\ Listed = {}
          /\ fcrSem' = None
          /\ file' = "closed"
          /\ Return(Closer)
          /\ UNCHANGED state
    /\ UNCHANGED <<sid, ivsize, sem, todo>>

\* The device is opened again.
Open ==
    /\ file = "closed"
    /\ file' = "open"
    /\ UNCHANGED <<fcrSem, memory, pc, op, cop, ses, ivlen, ivused, todo>>

\* The steps a thread takes by itself once its call has begun.
Step(t) ==
    \/ Insert(t) \/ Created(t)
    \/ FinishLookup(t) \/ Destroy(t) \/ Kfree(t)
    \/ GetSession(t) \/ LockSession(t) \/ PutFilled(t) \/ Filled(t)
    \/ Run(t) \/ Put(t)

CloserStep == CancelWork \/ FinishAllLock \/ FinishAllNext

Next ==
    \/ \E t \in Threads : Step(t) \/ CreateSession(t) \/ FinishSession(t) \/ Lookup(t) \/ TakeJob(t)
    \/ Release \/ CloserStep \/ Open

Spec == Init /\ [][Next]_vars

-------------------------------------------------------------------------------

\* Where a thread holds the mutex of its session, or waits for it.
Holds(t)   == pc[t] \in {"filling", "running", "put", "kfree"}
Waits(t)   == pc[t] \in {"lock", "lock run", "destroy"}

\* No thread works on a session that is freed, or waits for the mutex of one.
NoUseAfterFree == \A t \in Threads : Holds(t) \/ Waits(t) => state[ses[t]] \in {"listed", "unlinked"}

\* Who destroys a session is the last that knows it: nobody waits for its mutex.
DestroyedAlone ==
    \A t, u \in Threads : t # u /\ pc[t] = "kfree" => ~((Holds(u) \/ Waits(u)) /\ ses[u] = ses[t])

\* crypto_run reads no byte of the initialisation vector that was not copied
\* from the caller, though session and vector come from two lookups.
IvIsCopied == \A t \in Threads : ivused[t] <= ivlen[t]

\* A session is locked by a thread that works on it, and that needs no other
\* lock before it unlocks it: who waits for a session's mutex with the list
\* locked does not wait for ever.
LockedIsWorkedOn == \A s \in Sessions : sem[s] # None => Holds(sem[s]) /\ ses[sem[s]] = s

\* The threads' steps are those of a store of sessions.
Store == INSTANCE SessionStore WITH
    Users <- Threads, NoSession <- None,
    store <- [id \in Sids |-> IF Found(id) = {} THEN None ELSE CHOOSE s \in Found(id) : TRUE],
    dead <- {s \in Sessions : state[s] = "unlinked"},
    works <- [t \in Threads |-> IF pc[t] \in {"filling", "running", "put"} THEN ses[t] ELSE None]
ImplementsStore == Store!Spec
===============================================================================
