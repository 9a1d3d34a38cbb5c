------------------------- MODULE CryptoSessionsProofs -------------------------
(***************************************************************************)
(* The locks of CryptoSessions do what they are for, with any number of    *)
(* threads, sessions and jobs, and the sessions are a SessionStore.        *)
(***************************************************************************)
EXTENDS CryptoSessions, TLAPS

Labels ==
    {"idle", "insert", "created", "finish", "destroy", "kfree", "look up", "lock",
     "filling", "filled", "run", "lock run", "running", "put", "cancel",
     "finish lock", "finish all"}

TypeOK ==
    /\ file \in {"open", "closing", "cancelled", "closed"}
    /\ fcrSem \in Threads \cup {None}
    /\ state \in [Sessions -> {"free", "built", "listed", "unlinked"}]
    /\ sid \in [Sessions -> Sids]
    /\ ivsize \in [Sessions -> Nat]
    /\ sem \in [Sessions -> Threads \cup {None}]
    /\ pc \in [Threads -> Labels]
    /\ op \in [Threads -> Calls]
    /\ cop \in [Threads -> Sids]
    /\ ses \in [Threads -> Sessions \cup {None}]
    /\ ivlen \in [Threads -> Nat]
    /\ ivused \in [Threads -> Nat]
    /\ todo \in Seq([cop : Sids, ivlen : Nat])

\* fcr->sem is held from a lookup to the lock of the session, and through the
\* end of a session.
HasList(t) == pc[t] \in {"lock", "lock run", "destroy", "kfree", "finish all"}
ListInv == \A t \in Threads : fcrSem = t <=> HasList(t)

\* A session's mutex is held by who works on it, and by nobody else.
LockInv == \A t \in Threads : Holds(t) => sem[ses[t]] = t

\* The session a thread has in hand, and what is known of it.
Hand(t) ==
    /\ pc[t] = "insert" \/ Holds(t) \/ Waits(t) => ses[t] \in Sessions
    /\ pc[t] = "insert" => state[ses[t]] = "built"
    /\ pc[t] \in {"lock", "lock run"} => state[ses[t]] = "listed"
    /\ pc[t] \in {"filling", "running", "put"} => state[ses[t]] \in {"listed", "unlinked"}
    /\ pc[t] \in {"destroy", "kfree"} => state[ses[t]] = "unlinked"
HandInv == \A t \in Threads : Hand(t)

\* A session that is built is known to one thread only.
BuiltInv ==
    \A t, u \in Threads :
        pc[t] = "insert" /\ pc[u] = "insert" /\ ses[t] = ses[u] => t = u

\* A session of the list is the only one under its identifier.
SidInv == \A r, s \in Listed : sid[r] = sid[s] => r = s

\* Only crypto_run, between its work and its end, has read of the vector.
Iv(t) == (pc[t] # "put" => ivused[t] = 0) /\ ivused[t] <= ivlen[t]
IvInv == \A t \in Threads : Iv(t)

\* The closer has nothing to do while the file is open.
CloserInv == file \in {"open", "closed"} => pc[Closer] = "idle"

Inv ==
    /\ TypeOK /\ ListInv /\ LockInv /\ LockedIsWorkedOn /\ HandInv /\ BuiltInv
    /\ SidInv /\ IvInv /\ CloserInv

-------------------------------------------------------------------------------
LEMMA InvInit == Init => Inv
<1> SUFFICES ASSUME Init PROVE Inv
  OBVIOUS
<1>0. AnySid \in Sids
  BY SidsAssumption DEF AnySid
<1>1. TypeOK
  BY <1>0 DEF Init, TypeOK, Labels, Calls, Threads
<1>2. ListInv /\ LockInv /\ LockedIsWorkedOn
  BY ThreadsAssumption DEF Init, ListInv, HasList, LockInv, LockedIsWorkedOn, Holds
<1>3. HandInv /\ BuiltInv /\ SidInv
  BY DEF Init, HandInv, Hand, BuiltInv, SidInv, Holds, Waits, Listed
<1>4. IvInv /\ CloserInv
  BY DEF Init, IvInv, Iv, CloserInv, Threads
<1> QED
  BY <1>1, <1>2, <1>3, <1>4 DEF Inv

(***************************************************************************)
(* What a step of thread t does, as far as the invariant is concerned: it  *)
(* changes no other thread, and takes, keeps or gives back each lock.      *)
(***************************************************************************)
Alone(t) ==
    \A u \in Threads \ {t} :
        /\ pc'[u] = pc[u] /\ ses'[u] = ses[u]
        /\ ivlen'[u] = ivlen[u] /\ ivused'[u] = ivused[u]

ListMove(t) ==
    \/ fcrSem' = fcrSem /\ (HasList(t)' <=> HasList(t))
    \/ fcrSem = None /\ fcrSem' = t /\ HasList(t)'
    \/ HasList(t) /\ fcrSem' = None /\ ~HasList(t)'

LockMove(t) ==
    \/ sem' = sem /\ (Holds(t)' <=> Holds(t)) /\ (Holds(t) => ses'[t] = ses[t])
    \/ /\ Waits(t) /\ sem[ses[t]] = None /\ sem' = [sem EXCEPT ![ses[t]] = t]
       /\ Holds(t)' /\ ses'[t] = ses[t]
    \/ Holds(t) /\ sem' = [sem EXCEPT ![ses[t]] = None] /\ ~Holds(t)'

LEMMA ListMoves ==
  ASSUME Inv, NEW t \in Threads, Alone(t), ListMove(t)
  PROVE  ListInv'
<1>1. \A u \in Threads \ {t} : HasList(u)' <=> HasList(u)
  BY DEF Alone, HasList
<1> QED
  BY <1>1, ThreadsAssumption DEF Inv, ListInv, ListMove

LEMMA LockMoves ==
  ASSUME Inv, NEW t \in Threads, Alone(t), LockMove(t)
  PROVE  LockInv' /\ LockedIsWorkedOn'
<1>1. \A u \in Threads \ {t} : (Holds(u)' <=> Holds(u)) /\ ses'[u] = ses[u]
  BY DEF Alone, Holds
<1>2. \A u \in Threads : Holds(u) \/ Waits(u) => ses[u] \in Sessions
  BY DEF Inv, HandInv, Hand
<1>3. sem \in [Sessions -> Threads \cup {None}]
  BY DEF Inv, TypeOK
<1>4. Waits(t) => ~Holds(t)
  BY DEF Waits, Holds
<1>5. CASE sem' = sem /\ (Holds(t)' <=> Holds(t)) /\ (Holds(t) => ses'[t] = ses[t])
  BY <1>1, <1>3, <1>5 DEF Inv, LockInv, LockedIsWorkedOn
<1>6. CASE /\ Waits(t) /\ sem[ses[t]] = None /\ sem' = [sem EXCEPT ![ses[t]] = t]
           /\ Holds(t)' /\ ses'[t] = ses[t]
  BY <1>1, <1>2, <1>3, <1>4, <1>6, ThreadsAssumption DEF Inv, LockInv, LockedIsWorkedOn
<1>7. CASE Holds(t) /\ sem' = [sem EXCEPT ![ses[t]] = None] /\ ~Holds(t)'
  BY <1>1, <1>2, <1>3, <1>7, ThreadsAssumption DEF Inv, LockInv, LockedIsWorkedOn
<1> QED
  BY <1>5, <1>6, <1>7 DEF LockMove

\* Nothing else is to be shown of a step that keeps the sessions.
LEMMA SessionsKept ==
  ASSUME Inv, NEW t \in Threads, Alone(t), state' = state, sid' = sid,
         Hand(t)', pc'[t] # "insert"
  PROVE  HandInv' /\ BuiltInv' /\ SidInv'
<1>1. HandInv'
  BY Zenon DEF Inv, HandInv, Hand, Alone, Holds, Waits
<1>2. BuiltInv'
  BY DEF Inv, BuiltInv, Alone
<1>3. SidInv'
  BY DEF Inv, SidInv, Listed
<1> QED
  BY <1>1, <1>2, <1>3

LEMMA IvKept ==
  ASSUME Inv, NEW t \in Threads, Alone(t), Iv(t)'
  PROVE  IvInv'
BY DEF Inv, IvInv, Iv, Alone

LEMMA CloserKept ==
  ASSUME Inv, NEW t \in Threads, Alone(t), file' = file,
         t = Closer => pc[t] # "idle"
  PROVE  CloserInv'
BY DEF Inv, CloserInv, Alone, Threads

(***************************************************************************)
(* What the steps are made of.                                             *)
(***************************************************************************)
LEMMA QueueFacts ==
  ASSUME NEW S, NEW q \in Seq(S)
  PROVE  /\ <<>> \in Seq(S)
         /\ \A e \in S : Append(q, e) \in Seq(S)
         /\ q # <<>> => Head(q) \in S /\ Tail(q) \in Seq(S)
OBVIOUS

LEMMA GotoFacts ==
  ASSUME TypeOK, NEW t \in Threads, NEW l \in Labels, Goto(t, l)
  PROVE  /\ pc' \in [Threads -> Labels] /\ pc'[t] = l
         /\ \A u \in Threads \ {t} : pc'[u] = pc[u]
BY DEF TypeOK, Goto

LEMMA ReturnFacts ==
  ASSUME TypeOK, NEW t \in Threads, Return(t)
  PROVE  /\ pc' \in [Threads -> Labels] /\ op' \in [Threads -> Calls]
         /\ cop' \in [Threads -> Sids] /\ ses' \in [Threads -> Sessions \cup {None}]
         /\ ivlen' \in [Threads -> Nat] /\ ivused' \in [Threads -> Nat]
         /\ pc'[t] = "idle" /\ ses'[t] = None /\ ivlen'[t] = 0 /\ ivused'[t] = 0
         /\ Alone(t)
<1>1. AnySid \in Sids /\ "idle" \in Labels /\ "none" \in Calls
  BY SidsAssumption DEF AnySid, Labels, Calls
<1> QED
  BY <1>1 DEF TypeOK, Return, Goto, Alone

LEMMA CallFacts ==
  ASSUME TypeOK, NEW t \in Threads, NEW c \in Calls, NEW id \in Sids, NEW l \in Labels,
         Call(t, c, id, l)
  PROVE  /\ pc' \in [Threads -> Labels] /\ op' \in [Threads -> Calls]
         /\ cop' \in [Threads -> Sids]
         /\ t # Closer /\ pc[t] = "idle" /\ pc'[t] = l
         /\ \A u \in Threads \ {t} : pc'[u] = pc[u]
BY ThreadsAssumption DEF TypeOK, Call, Goto

(***************************************************************************)
(* The steps that keep the sessions.                                       *)
(***************************************************************************)
LEMMA Kept ==
  ASSUME Inv, NEW t \in Threads, TypeOK', Alone(t), file' = file, state' = state, sid' = sid,
         ListMove(t), LockMove(t), Hand(t)', Iv(t)', pc'[t] # "insert",
         t = Closer => pc[t] # "idle"
  PROVE  Inv'
BY ListMoves, LockMoves, SessionsKept, IvKept, CloserKept DEF Inv

LEMMA InvCreated == ASSUME Inv, NEW t \in Threads, Created(t) PROVE Inv'
<1>0. TypeOK /\ Iv(t) /\ pc[t] = "created"
  BY DEF Inv, IvInv, Created
<1>1. CASE Return(t)
  <2>1. TypeOK' /\ Alone(t) /\ pc'[t] = "idle" /\ ivused'[t] = 0 /\ ivlen'[t] = 0
    BY <1>0, <1>1, ReturnFacts DEF Created, TypeOK, memory
  <2>2. ListMove(t) /\ LockMove(t) /\ Hand(t)' /\ Iv(t)'
    BY <1>0, <2>1 DEF Created, memory, ListMove, LockMove, HasList, Holds, Waits, Hand, Iv
  <2> QED
    BY <1>0, <2>1, <2>2, Kept DEF Created, memory
<1>2. CASE ~Return(t)
  <2>1. /\ Goto(t, "finish") /\ "finish" \in Labels /\ "undo" \in Calls
        /\ op' = [op EXCEPT ![t] = "undo"] /\ ses' = [ses EXCEPT ![t] = None]
        /\ UNCHANGED <<ivlen, ivused, file, fcrSem, state, sid, ivsize, sem, todo>>
    BY <1>2 DEF Created, Labels, Calls, memory
  <2>a. PICK id \in Sids : cop' = [cop EXCEPT ![t] = id]
    BY <1>2 DEF Created
  <2>2. TypeOK' /\ Alone(t) /\ pc'[t] = "finish" /\ ivused' = ivused /\ ivlen' = ivlen
    BY <1>0, <2>1, <2>a, GotoFacts, Zenon DEF TypeOK, Alone
  <2>3. ListMove(t) /\ LockMove(t) /\ Hand(t)' /\ Iv(t)'
    BY <1>0, <2>1, <2>2 DEF ListMove, LockMove, HasList, Holds, Waits, Hand, Iv
  <2> QED
    BY <1>0, <2>2, <2>3, Kept DEF Created, memory
<1> QED
  BY <1>1, <1>2

LEMMA InvFinishSession == ASSUME Inv, NEW t \in Threads, FinishSession(t) PROVE Inv'
<1>0. TypeOK /\ Iv(t) /\ "finish" \in Calls /\ "finish" \in Labels
  BY DEF Inv, IvInv, Calls, Labels
<1>1. PICK id \in Sids : Call(t, "finish", id, "finish")
  BY DEF FinishSession
<1>2. TypeOK' /\ Alone(t) /\ t # Closer /\ pc[t] = "idle" /\ pc'[t] = "finish"
  BY <1>0, <1>1, CallFacts DEF FinishSession, TypeOK, memory, Alone
<1>3. ListMove(t) /\ LockMove(t) /\ Hand(t)' /\ Iv(t)'
  BY <1>0, <1>2 DEF FinishSession, memory, ListMove, LockMove, HasList, Holds, Waits, Hand, Iv
<1> QED
  BY <1>2, <1>3, Kept DEF FinishSession, memory

LEMMA InvLookup == ASSUME Inv, NEW t \in Threads, Lookup(t) PROVE Inv'
<1>0. TypeOK /\ Iv(t) /\ {"info", "crypt", "async"} \subseteq Calls /\ "look up" \in Labels
  BY DEF Inv, IvInv, Calls, Labels
<1>1. PICK id \in Sids, c \in Calls : Call(t, c, id, "look up")
  BY <1>0 DEF Lookup
<1>2. TypeOK' /\ Alone(t) /\ t # Closer /\ pc[t] = "idle" /\ pc'[t] = "look up"
  BY <1>0, <1>1, CallFacts DEF Lookup, TypeOK, memory, Alone
<1>3. ListMove(t) /\ LockMove(t) /\ Hand(t)' /\ Iv(t)'
  BY <1>0, <1>2 DEF Lookup, memory, ListMove, LockMove, HasList, Holds, Waits, Hand, Iv
<1> QED
  BY <1>2, <1>3, Kept DEF Lookup, memory

LEMMA InvDestroy == ASSUME Inv, NEW t \in Threads, Destroy(t) PROVE Inv'
<1>0. TypeOK /\ Iv(t) /\ Hand(t) /\ pc[t] = "destroy" /\ Goto(t, "kfree") /\ "kfree" \in Labels
  BY DEF Inv, IvInv, HandInv, Destroy, Labels
<1>1. ses[t] \in Sessions /\ state[ses[t]] = "unlinked"
  BY <1>0 DEF Hand, Waits
<1>2. TypeOK' /\ Alone(t) /\ pc'[t] = "kfree"
  BY <1>0, <1>1, GotoFacts, Zenon DEF Destroy, TypeOK, Alone
<1>3. ListMove(t) /\ LockMove(t) /\ Hand(t)' /\ Iv(t)'
  BY <1>0, <1>1, <1>2 DEF Destroy, ListMove, LockMove, HasList, Holds, Waits, Hand, Iv
<1> QED
  BY <1>0, <1>2, <1>3, Kept DEF Destroy

LEMMA InvGetSession == ASSUME Inv, NEW t \in Threads, GetSession(t) PROVE Inv'
<1>0. TypeOK /\ Iv(t) /\ pc[t] \in {"look up", "run"} /\ fcrSem = None
      /\ {"lock", "lock run"} \subseteq Labels
  BY DEF Inv, IvInv, GetSession, Labels
<1>1. CASE Return(t) /\ UNCHANGED fcrSem
  <2>0. sem' = sem
    BY DEF GetSession, memory
  <2>1. TypeOK' /\ Alone(t) /\ pc'[t] = "idle" /\ ivused'[t] = 0 /\ ivlen'[t] = 0
    BY <1>0, <1>1, ReturnFacts DEF GetSession, TypeOK, memory
  <2>2. ListMove(t) /\ LockMove(t) /\ Hand(t)' /\ Iv(t)'
    <3>1. ~HasList(t) /\ ~HasList(t)' /\ ~Holds(t) /\ ~Holds(t)' /\ ~Waits(t)'
      BY <1>0, <2>1 DEF HasList, Holds, Waits
    <3> QED
      BY <1>1, <2>0, <2>1, <3>1 DEF ListMove, LockMove, Hand, Iv, Holds, Waits
  <2> QED
    BY <1>0, <2>1, <2>2, Kept DEF GetSession, memory
<1>2. CASE ~(Return(t) /\ UNCHANGED fcrSem)
  <2>1. PICK s \in Found(cop[t]) :
          /\ ses' = [ses EXCEPT ![t] = s] /\ fcrSem' = t
          /\ Goto(t, IF pc[t] = "run" THEN "lock run" ELSE "lock")
          /\ UNCHANGED <<op, cop, ivlen, ivused>>
    BY <1>2 DEF GetSession
  <2>2. s \in Sessions /\ state[s] = "listed"
    BY DEF Found, Listed
  <2>3. PICK l \in {"lock", "lock run"} : Goto(t, l)
    BY <2>1
  <2>4. TypeOK' /\ Alone(t) /\ pc'[t] \in {"lock", "lock run"} /\ ses'[t] = s
    BY <1>0, <2>1, <2>2, <2>3, GotoFacts DEF GetSession, TypeOK, memory, Alone
  <2>5. ListMove(t) /\ LockMove(t) /\ Hand(t)' /\ Iv(t)'
    BY <1>0, <2>1, <2>2, <2>4
    DEF GetSession, memory, ListMove, LockMove, HasList, Holds, Waits, Hand, Iv
  <2> QED
    BY <1>0, <2>4, <2>5, Kept DEF GetSession, memory
<1> QED
  BY <1>1, <1>2

LEMMA InvLockSession == ASSUME Inv, NEW t \in Threads, LockSession(t) PROVE Inv'
<1>0. TypeOK /\ Iv(t) /\ Hand(t) /\ pc[t] \in {"lock", "lock run"}
      /\ {"running", "filling"} \subseteq Labels
  BY DEF Inv, IvInv, HandInv, LockSession, Labels
<1>1. ses[t] \in Sessions /\ state[ses[t]] = "listed"
  BY <1>0 DEF Hand, Waits
<1>2. PICK l \in {"running", "filling"} : Goto(t, l)
  BY DEF LockSession
<1>3. TypeOK' /\ Alone(t) /\ pc'[t] \in {"running", "filling"}
  BY <1>0, <1>1, <1>2, GotoFacts DEF LockSession, TypeOK, Alone
<1>4. ListMove(t) /\ LockMove(t) /\ Hand(t)' /\ Iv(t)'
  BY <1>0, <1>1, <1>3 DEF LockSession, ListMove, LockMove, HasList, Holds, Waits, Hand, Iv
<1> QED
  BY <1>0, <1>3, <1>4, Kept DEF LockSession

LEMMA InvPutFilled == ASSUME Inv, NEW t \in Threads, PutFilled(t) PROVE Inv'
<1>0. TypeOK /\ Iv(t) /\ Hand(t) /\ pc[t] = "filling" /\ "filled" \in Labels
  BY DEF Inv, IvInv, HandInv, PutFilled, Labels
<1>1. ses[t] \in Sessions
  BY <1>0 DEF Hand, Holds
<1>2. CASE Return(t)
  <2>1. TypeOK' /\ Alone(t) /\ pc'[t] = "idle" /\ ivused'[t] = 0 /\ ivlen'[t] = 0
    BY <1>0, <1>1, <1>2, ReturnFacts DEF PutFilled, TypeOK
  <2>2. ListMove(t) /\ LockMove(t) /\ Hand(t)' /\ Iv(t)'
    BY <1>0, <1>1, <2>1 DEF PutFilled, ListMove, LockMove, HasList, Holds, Waits, Hand, Iv
  <2> QED
    BY <1>0, <2>1, <2>2, Kept DEF PutFilled
<1>3. CASE ~Return(t)
  <2>1. Goto(t, "filled") /\ ses' = [ses EXCEPT ![t] = None] /\ UNCHANGED <<op, cop, ivused>>
    BY <1>3 DEF PutFilled
  <2>2. PICK iv \in {0, ivsize[ses[t]]} : ivlen' = [ivlen EXCEPT ![t] = iv]
    BY <1>3 DEF PutFilled
  <2>3. iv \in Nat
    BY <1>0, <1>1 DEF TypeOK
  <2>4. TypeOK' /\ Alone(t) /\ pc'[t] = "filled" /\ ivlen'[t] = iv
    BY <1>0, <1>1, <2>1, <2>2, <2>3, GotoFacts DEF PutFilled, TypeOK, Alone
  <2>5. ListMove(t) /\ LockMove(t) /\ Hand(t)' /\ Iv(t)'
    BY <1>0, <1>1, <2>1, <2>3, <2>4
    DEF PutFilled, ListMove, LockMove, HasList, Holds, Waits, Hand, Iv
  <2> QED
    BY <1>0, <2>4, <2>5, Kept DEF PutFilled
<1> QED
  BY <1>2, <1>3

LEMMA InvFilled == ASSUME Inv, NEW t \in Threads, Filled(t) PROVE Inv'
<1>0. TypeOK /\ Iv(t) /\ pc[t] = "filled" /\ "run" \in Labels
  BY DEF Inv, IvInv, Filled, Labels
<1>1. todo' \in Seq([cop : Sids, ivlen : Nat])
  <2>1. [cop |-> cop[t], ivlen |-> ivlen[t]] \in [cop : Sids, ivlen : Nat]
    BY <1>0 DEF TypeOK
  <2>2. todo \in Seq([cop : Sids, ivlen : Nat])
    BY <1>0 DEF TypeOK
  <2>3. todo' = todo \/ todo' = Append(todo, [cop |-> cop[t], ivlen |-> ivlen[t]])
    BY DEF Filled
  <2> QED
    BY <2>1, <2>2, <2>3, QueueFacts, Zenon
<1>2. CASE Return(t)
  <2>1. TypeOK' /\ Alone(t) /\ pc'[t] = "idle" /\ ivused'[t] = 0 /\ ivlen'[t] = 0
    BY <1>0, <1>1, <1>2, ReturnFacts DEF Filled, TypeOK, memory
  <2>2. ListMove(t) /\ LockMove(t) /\ Hand(t)' /\ Iv(t)'
    BY <1>0, <2>1 DEF Filled, memory, ListMove, LockMove, HasList, Holds, Waits, Hand, Iv
  <2> QED
    BY <1>0, <2>1, <2>2, Kept DEF Filled, memory
<1>3. CASE ~Return(t)
  <2>1. Goto(t, "run") /\ UNCHANGED <<op, cop, ses, ivlen, ivused, todo>>
    BY <1>3 DEF Filled
  <2>2. TypeOK' /\ Alone(t) /\ pc'[t] = "run"
    BY <1>0, <2>1, GotoFacts DEF Filled, TypeOK, memory, Alone
  <2>3. ListMove(t) /\ LockMove(t) /\ Hand(t)' /\ Iv(t)'
    BY <1>0, <2>1, <2>2 DEF Filled, memory, ListMove, LockMove, HasList, Holds, Waits, Hand, Iv
  <2> QED
    BY <1>0, <2>2, <2>3, Kept DEF Filled, memory
<1> QED
  BY <1>2, <1>3

LEMMA InvTakeJob == ASSUME Inv, NEW t \in Threads, TakeJob(t) PROVE Inv'
<1>0. TypeOK /\ Iv(t) /\ pc[t] = "idle" /\ t # Closer /\ Goto(t, "run")
      /\ "run" \in Labels /\ "job" \in Calls
  BY ThreadsAssumption DEF Inv, IvInv, TakeJob, Labels, Calls
<1>1. Head(todo) \in [cop : Sids, ivlen : Nat] /\ Tail(todo) \in Seq([cop : Sids, ivlen : Nat])
  <2>1. todo \in Seq([cop : Sids, ivlen : Nat]) /\ todo # <<>>
    BY <1>0 DEF TakeJob, TypeOK
  <2> QED
    BY <2>1, QueueFacts
<1>2. Head(todo).cop \in Sids /\ Head(todo).ivlen \in Nat
  BY <1>1
<1>3. TypeOK' /\ Alone(t) /\ pc'[t] = "run" /\ ivused' = ivused /\ ivlen'[t] \in Nat
  BY <1>0, <1>1, <1>2, GotoFacts, Zenon DEF TakeJob, TypeOK, memory, Alone
<1>4. ListMove(t) /\ LockMove(t) /\ Hand(t)' /\ Iv(t)'
  BY <1>0, <1>3 DEF TakeJob, memory, ListMove, LockMove, HasList, Holds, Waits, Hand, Iv
<1> QED
  BY <1>0, <1>3, <1>4, Kept DEF TakeJob, memory

LEMMA InvRun == ASSUME Inv, NEW t \in Threads, Run(t) PROVE Inv'
<1>0. TypeOK /\ Hand(t) /\ pc[t] = "running" /\ Goto(t, "put") /\ "put" \in Labels
  BY DEF Inv, HandInv, Run, Labels
<1>1. ses[t] \in Sessions
  BY <1>0 DEF Hand, Holds
<1>2. MinOf(ivsize[ses[t]], ivlen[t]) \in Nat /\ MinOf(ivsize[ses[t]], ivlen[t]) <= ivlen[t]
  <2>1. ivsize[ses[t]] \in Nat /\ ivlen[t] \in Nat
    BY <1>0, <1>1 DEF TypeOK
  <2> QED
    BY <2>1 DEF MinOf
<1>3. /\ TypeOK' /\ Alone(t) /\ pc'[t] = "put"
      /\ ivused'[t] = MinOf(ivsize[ses[t]], ivlen[t]) /\ ivlen' = ivlen
  BY <1>0, <1>2, GotoFacts, Zenon DEF Run, TypeOK, memory, Alone
<1>4. ListMove(t) /\ LockMove(t) /\ Hand(t)' /\ Iv(t)'
  BY <1>0, <1>2, <1>3 DEF Run, memory, ListMove, LockMove, HasList, Holds, Waits, Hand, Iv
<1> QED
  BY <1>0, <1>3, <1>4, Kept DEF Run, memory

LEMMA InvPut == ASSUME Inv, NEW t \in Threads, Put(t) PROVE Inv'
<1>0. TypeOK /\ Hand(t) /\ pc[t] = "put"
  BY DEF Inv, HandInv, Put
<1>1. ses[t] \in Sessions
  BY <1>0 DEF Hand, Holds
<1>2. TypeOK' /\ Alone(t) /\ pc'[t] = "idle" /\ ivused'[t] = 0 /\ ivlen'[t] = 0
  BY <1>0, <1>1, ReturnFacts DEF Put, TypeOK
<1>3. ListMove(t) /\ LockMove(t) /\ Hand(t)' /\ Iv(t)'
  BY <1>0, <1>1, <1>2 DEF Put, ListMove, LockMove, HasList, Holds, Waits, Hand, Iv
<1> QED
  BY <1>0, <1>2, <1>3, Kept DEF Put

(***************************************************************************)
(* The steps that change sessions.                                         *)
(***************************************************************************)
LEMMA Changed ==
  ASSUME Inv, NEW t \in Threads, TypeOK', Alone(t), ListMove(t), LockMove(t), Iv(t)',
         HandInv', BuiltInv', SidInv', CloserInv'
  PROVE  Inv'
BY ListMoves, LockMoves, IvKept DEF Inv

LEMMA InvCreateSession == ASSUME Inv, NEW t \in Threads, CreateSession(t) PROVE Inv'
<1>0. TypeOK /\ Iv(t) /\ "create" \in Calls /\ "insert" \in Labels /\ AnySid \in Sids
  BY SidsAssumption DEF Inv, IvInv, Calls, Labels, AnySid
<1>1. PICK s \in Sessions, id \in Sids, size \in IvSizes :
        /\ state[s] = "free"
        /\ state' = [state EXCEPT ![s] = "built"] /\ sid' = [sid EXCEPT ![s] = id]
        /\ ivsize' = [ivsize EXCEPT ![s] = size] /\ ses' = [ses EXCEPT ![t] = s]
  BY DEF CreateSession
<1>2. /\ Call(t, "create", AnySid, "insert")
      /\ UNCHANGED <<file, fcrSem, sem, ivlen, ivused, todo>>
  BY DEF CreateSession
<1>3. size \in Nat
  BY SizesAssumption
<1>4. /\ TypeOK' /\ Alone(t) /\ t # Closer /\ pc[t] = "idle" /\ pc'[t] = "insert"
      /\ ses'[t] = s
  <2>1. /\ pc' \in [Threads -> Labels] /\ op' \in [Threads -> Calls]
        /\ cop' \in [Threads -> Sids]
        /\ t # Closer /\ pc[t] = "idle" /\ pc'[t] = "insert"
        /\ \A u \in Threads \ {t} : pc'[u] = pc[u]
    BY <1>0, <1>2, CallFacts
  <2>2. /\ state' \in [Sessions -> {"free", "built", "listed", "unlinked"}]
        /\ sid' \in [Sessions -> Sids] /\ ivsize' \in [Sessions -> Nat]
    BY <1>0, <1>1, <1>3 DEF TypeOK
  <2>3. /\ ses' \in [Threads -> Sessions \cup {None}] /\ ses'[t] = s
        /\ \A u \in Threads \ {t} : ses'[u] = ses[u]
    BY <1>0, <1>1 DEF TypeOK
  <2>4. TypeOK'
    BY <1>0, <1>2, <2>1, <2>2, <2>3 DEF TypeOK
  <2>5. Alone(t)
    BY <1>2, <2>1, <2>3 DEF Alone
  <2> QED
    BY <2>1, <2>3, <2>4, <2>5
<1>5. ListMove(t) /\ LockMove(t) /\ Iv(t)'
  BY <1>0, <1>2, <1>4 DEF ListMove, LockMove, HasList, Holds, Iv
<1>6. HandInv' /\ BuiltInv'
  <2>1. \A u \in Threads : pc[u] = "insert" => state[ses[u]] = "built"
    BY DEF Inv, HandInv, Hand
  <2>2. ASSUME NEW u \in Threads \ {t} PROVE Hand(u)'
    <3>1. pc'[u] = pc[u] /\ ses'[u] = ses[u] /\ Hand(u)
      BY <1>4 DEF Alone, Inv, HandInv
    <3>2. CASE pc[u] = "insert" \/ Holds(u) \/ Waits(u)
      <4>1. ses[u] \in Sessions /\ state[ses[u]] # "free"
        BY <3>1, <3>2 DEF Hand, Holds, Waits
      <4>2. state'[ses[u]] = state[ses[u]]
        BY <1>0, <1>1, <4>1 DEF TypeOK
      <4> QED
        BY <3>1, <4>2 DEF Hand, Holds, Waits
    <3>3. CASE ~(pc[u] = "insert" \/ Holds(u) \/ Waits(u))
      BY <3>1, <3>3 DEF Hand, Holds, Waits
    <3> QED
      BY <3>2, <3>3
  <2>3. Hand(t)'
    BY <1>0, <1>1, <1>4 DEF Hand, Holds, Waits, TypeOK
  <2>4. BuiltInv'
    BY <1>1, <1>4, <2>1 DEF Inv, BuiltInv, Alone
  <2> QED
    BY <2>2, <2>3, <2>4 DEF HandInv
<1>7. SidInv'
  <2>1. \A r \in Listed' : r \in Listed /\ sid'[r] = sid[r]
    BY <1>0, <1>1 DEF Listed, TypeOK
  <2> QED
    BY <2>1 DEF Inv, SidInv
<1>8. CloserInv'
  BY <1>2, <1>4, CloserKept
<1> QED
  BY <1>4, <1>5, <1>6, <1>7, <1>8, Changed

LEMMA InvInsert == ASSUME Inv, NEW t \in Threads, Insert(t) PROVE Inv'
<1>0. /\ TypeOK /\ Iv(t) /\ Hand(t) /\ pc[t] = "insert" /\ Goto(t, "created")
      /\ "created" \in Labels /\ state' = [state EXCEPT ![ses[t]] = "listed"]
      /\ UNCHANGED <<file, fcrSem, ivsize, sem, op, cop, ses, ivlen, ivused, todo>>
  BY DEF Inv, IvInv, HandInv, Insert, Labels
<1>1. PICK id \in Sids : Found(id) = {} /\ sid' = [sid EXCEPT ![ses[t]] = id]
  BY DEF Insert
<1>2. ses[t] \in Sessions /\ state[ses[t]] = "built"
  BY <1>0 DEF Hand
<1>3. TypeOK' /\ Alone(t) /\ pc'[t] = "created"
  BY <1>0, <1>1, <1>2, GotoFacts, Zenon DEF TypeOK, Alone
<1>4. ListMove(t) /\ LockMove(t) /\ Iv(t)'
  BY <1>0, <1>3 DEF ListMove, LockMove, HasList, Holds, Iv
<1>5. HandInv' /\ BuiltInv'
  <2>1. \A u \in Threads \ {t} : pc[u] = "insert" => ses[u] # ses[t]
    BY <1>0 DEF Inv, BuiltInv
  <2>2. ASSUME NEW u \in Threads \ {t} PROVE Hand(u)'
    <3>1. Hand(u) /\ pc'[u] = pc[u] /\ ses'[u] = ses[u]
      BY <1>3 DEF Inv, HandInv, Alone
    <3>2. \A s \in Sessions : state'[s] = IF s = ses[t] THEN "listed" ELSE state[s]
      BY <1>0 DEF TypeOK
    <3>3. CASE ses[u] = ses[t]
      BY <1>2, <2>1, <3>1, <3>3 DEF Hand, Holds, Waits
    <3>4. CASE ses[u] # ses[t]
      BY <3>1, <3>2, <3>4 DEF Hand, Holds, Waits
    <3> QED
      BY <3>3, <3>4
  <2>3. Hand(t)'
    BY <1>3 DEF Hand, Holds, Waits
  <2>4. BuiltInv'
    BY <1>3 DEF Inv, BuiltInv, Alone
  <2> QED
    BY <2>2, <2>3, <2>4 DEF HandInv
<1>6. SidInv'
  <2>1. \A r \in Listed' : r = ses[t] \/ (r \in Listed /\ sid'[r] = sid[r] /\ sid[r] # id)
    BY <1>0, <1>1, <1>2 DEF Listed, Found, TypeOK
  <2>2. sid'[ses[t]] = id
    BY <1>0, <1>1, <1>2 DEF TypeOK
  <2> QED
    BY <2>1, <2>2 DEF Inv, SidInv
<1>7. CloserInv'
  BY <1>0, <1>3, CloserKept
<1> QED
  BY <1>3, <1>4, <1>5, <1>6, <1>7, Changed

\* A session that leaves the list is kept by who works on it.
LEMMA Unlinked ==
  ASSUME Inv, NEW t \in Threads, TypeOK', Alone(t), NEW s \in Listed,
         \A u \in Threads \ {t} : ~HasList(u),
         state' = [state EXCEPT ![s] = "unlinked"], sid' = sid,
         pc'[t] = "destroy", ses'[t] = s
  PROVE  HandInv' /\ BuiltInv' /\ SidInv'
<1>1. TypeOK /\ s \in Sessions /\ state[s] = "listed"
  BY DEF Inv, Listed
<1>2. ASSUME NEW u \in Threads \ {t} PROVE Hand(u)'
  <2>1. Hand(u) /\ ~HasList(u) /\ pc'[u] = pc[u] /\ ses'[u] = ses[u]
    BY DEF Inv, HandInv, Alone
  <2>2. \A r \in Sessions : state'[r] = IF r = s THEN "unlinked" ELSE state[r]
    BY <1>1 DEF TypeOK
  <2>3. CASE ses[u] = s
    BY <1>1, <2>1, <2>2, <2>3 DEF Hand, HasList, Holds, Waits
  <2>4. CASE ses[u] # s
    BY <2>1, <2>2, <2>4 DEF Hand, Holds, Waits
  <2> QED
    BY <2>3, <2>4
<1>3. Hand(t)'
  BY <1>1 DEF TypeOK, Hand, Holds, Waits
<1>4. BuiltInv'
  BY DEF Inv, BuiltInv, Alone
<1>5. SidInv'
  BY <1>1 DEF Inv, TypeOK, SidInv, Listed
<1> QED
  BY <1>2, <1>3, <1>4, <1>5 DEF HandInv

LEMMA InvFinishLookup == ASSUME Inv, NEW t \in Threads, FinishLookup(t) PROVE Inv'
<1>0. /\ TypeOK /\ Iv(t) /\ pc[t] = "finish" /\ "destroy" \in Labels /\ fcrSem = None
      /\ UNCHANGED <<file, sid, ivsize, sem, todo>>
  BY DEF Inv, IvInv, FinishLookup, Labels
<1>1. CASE Return(t) /\ UNCHANGED <<fcrSem, state>>
  <2>1. TypeOK' /\ Alone(t) /\ pc'[t] = "idle" /\ ivused'[t] = 0 /\ ivlen'[t] = 0
    BY <1>0, <1>1, ReturnFacts DEF TypeOK
  <2>2. ListMove(t) /\ LockMove(t) /\ Hand(t)' /\ Iv(t)'
    BY <1>0, <1>1, <2>1 DEF ListMove, LockMove, HasList, Holds, Waits, Hand, Iv
  <2> QED
    BY <1>0, <1>1, <2>1, <2>2, Kept
<1>2. CASE ~(Return(t) /\ UNCHANGED <<fcrSem, state>>)
  <2>1. PICK s \in Found(cop[t]) :
          /\ state' = [state EXCEPT ![s] = "unlinked"] /\ ses' = [ses EXCEPT ![t] = s]
          /\ fcrSem' = t /\ Goto(t, "destroy") /\ UNCHANGED <<op, cop, ivlen, ivused>>
    BY <1>2 DEF FinishLookup
  <2>2. s \in Listed /\ s \in Sessions
    BY DEF Found, Listed
  <2>3. TypeOK' /\ Alone(t) /\ pc'[t] = "destroy" /\ ses'[t] = s
    BY <1>0, <2>1, <2>2, GotoFacts, Zenon DEF TypeOK, Alone
  <2>4. ListMove(t) /\ LockMove(t) /\ Iv(t)'
    BY <1>0, <2>1, <2>3 DEF ListMove, LockMove, HasList, Holds, Iv
  <2>5. \A u \in Threads \ {t} : ~HasList(u)
    BY <1>0, ThreadsAssumption DEF Inv, ListInv
  <2>6. HandInv' /\ BuiltInv' /\ SidInv'
    BY <1>0, <2>1, <2>2, <2>3, <2>5, Unlinked
  <2>7. CloserInv'
    BY <1>0, <2>3, CloserKept
  <2> QED
    BY <2>3, <2>4, <2>6, <2>7, Changed
<1> QED
  BY <1>1, <1>2

LEMMA InvKfree == ASSUME Inv, NEW t \in Threads, Kfree(t) PROVE Inv'
<1>0. /\ TypeOK /\ Iv(t) /\ Hand(t) /\ pc[t] = "kfree" /\ "finish all" \in Labels
      /\ sem' = [sem EXCEPT ![ses[t]] = None] /\ state' = [state EXCEPT ![ses[t]] = "free"]
      /\ sid' = [sid EXCEPT ![ses[t]] = AnySid] /\ ivsize' = [ivsize EXCEPT ![ses[t]] = 0]
      /\ UNCHANGED <<file, todo>> /\ AnySid \in Sids
  BY SidsAssumption DEF Inv, IvInv, HandInv, Kfree, Labels, AnySid
<1>1. ses[t] \in Sessions /\ state[ses[t]] = "unlinked"
  BY <1>0 DEF Hand, Holds
<1>2. /\ TypeOK' /\ Alone(t) /\ Iv(t)'
      /\ \/ pc'[t] = "finish all" /\ fcrSem' = fcrSem
         \/ pc'[t] = "idle" /\ fcrSem' = None
  <2>1. CASE Return(t) /\ fcrSem' = None
    <3>1. /\ Alone(t) /\ pc'[t] = "idle" /\ ivused'[t] = 0 /\ ivlen'[t] = 0
          /\ pc' \in [Threads -> Labels] /\ op' \in [Threads -> Calls]
          /\ cop' \in [Threads -> Sids] /\ ses' \in [Threads -> Sessions \cup {None}]
          /\ ivlen' \in [Threads -> Nat] /\ ivused' \in [Threads -> Nat]
      BY <1>0, <2>1, ReturnFacts
    <3>2. TypeOK'
      BY <1>0, <1>1, <2>1, <3>1 DEF TypeOK
    <3> QED
      BY <2>1, <3>1, <3>2 DEF Iv
  <2>2. CASE /\ ses' = [ses EXCEPT ![t] = None] /\ Goto(t, "finish all")
             /\ UNCHANGED <<fcrSem, op, cop, ivlen, ivused>>
    BY <1>0, <1>1, <2>2, GotoFacts DEF TypeOK, Alone, Iv
  <2> QED
    BY <2>1, <2>2 DEF Kfree
<1>3. ListMove(t) /\ LockMove(t)
  BY <1>0, <1>2 DEF ListMove, LockMove, HasList, Holds
<1>4. HandInv' /\ BuiltInv'
  <2>1. HasList(t) /\ \A u \in Threads \ {t} : ~HasList(u)
    BY <1>0 DEF Inv, ListInv, HasList
  <2>2. \A u \in Threads \ {t} : Holds(u) => ses[u] # ses[t]
    BY <1>0 DEF Inv, LockInv, Holds
  <2>3. ASSUME NEW u \in Threads \ {t} PROVE Hand(u)'
    <3>1. Hand(u) /\ pc'[u] = pc[u] /\ ses'[u] = ses[u]
      BY <1>2 DEF Inv, HandInv, Alone
    <3>2. \A s \in Sessions : state'[s] = IF s = ses[t] THEN "free" ELSE state[s]
      BY <1>0 DEF TypeOK
    <3>3. CASE ses[u] = ses[t]
      BY <1>1, <2>1, <2>2, <3>1, <3>3 DEF Hand, HasList, Holds, Waits
    <3>4. CASE ses[u] # ses[t]
      BY <3>1, <3>2, <3>4 DEF Hand, Holds, Waits
    <3> QED
      BY <3>3, <3>4
  <2>4. Hand(t)'
    BY <1>2 DEF Hand, Holds, Waits
  <2>5. BuiltInv'
    BY <1>2, Zenon DEF Inv, BuiltInv, Alone
  <2> QED
    BY <2>3, <2>4, <2>5 DEF HandInv
<1>5. SidInv'
  <2>1. \A r \in Listed' : r \in Listed /\ sid'[r] = sid[r]
    BY <1>0, <1>1 DEF Listed, TypeOK
  <2> QED
    BY <2>1 DEF Inv, SidInv
<1>6. CloserInv'
  BY <1>0, <1>2, CloserKept
<1> QED
  BY <1>2, <1>3, <1>4, <1>5, <1>6, Changed

(***************************************************************************)
(* The end of the file.                                                    *)
(***************************************************************************)
\* A step of the closer that touches no session.
LEMMA CloserMoves ==
  ASSUME Inv, NEW l \in {"cancel", "finish lock", "finish all"}, Goto(Closer, l),
         pc[Closer] \in {"idle", "cancel", "finish lock"},
         UNCHANGED <<state, sid, sem, ses, ivlen, ivused>>,
         TypeOK', ListMove(Closer), file' \in {"closing", "cancelled"}
  PROVE  Inv'
<1>0. TypeOK /\ Closer \in Threads /\ Iv(Closer) /\ l \in Labels
  BY DEF Inv, IvInv, Threads, Labels
<1>1. Alone(Closer) /\ pc'[Closer] = l
  BY <1>0, GotoFacts DEF Alone
<1>2. LockMove(Closer) /\ Hand(Closer)' /\ Iv(Closer)'
  BY <1>0, <1>1 DEF LockMove, Holds, Waits, Hand, Iv
<1>3. HandInv' /\ BuiltInv' /\ SidInv'
  BY <1>0, <1>1, <1>2, SessionsKept
<1>4. CloserInv'
  BY DEF CloserInv
<1> QED
  BY <1>0, <1>1, <1>2, <1>3, <1>4, Changed

LEMMA InvRelease == ASSUME Inv, Release PROVE Inv'
<1>1. TypeOK /\ Closer \in Threads /\ pc[Closer] = "idle"
  BY DEF Inv, CloserInv, Release, Threads
<1>2. TypeOK'
  <2>1. "release" \in Calls /\ "cancel" \in Labels
    BY DEF Calls, Labels
  <2> QED
    BY <1>1, <2>1, GotoFacts DEF Release, TypeOK, memory
<1>3. ListMove(Closer)
  BY <1>1 DEF Release, Goto, ListMove, HasList, TypeOK
<1> QED
  BY <1>1, <1>2, <1>3, CloserMoves DEF Release, memory

LEMMA InvCancelWork == ASSUME Inv, CancelWork PROVE Inv'
<1>1. TypeOK /\ Closer \in Threads /\ pc[Closer] = "cancel"
  BY DEF Inv, CancelWork, Threads
<1>2. TypeOK'
  <2>1. "finish lock" \in Labels /\ <<>> \in Seq([cop : Sids, ivlen : Nat])
    BY DEF Labels
  <2> QED
    BY <1>1, <2>1, GotoFacts DEF CancelWork, TypeOK, memory
<1>3. ListMove(Closer)
  BY <1>1 DEF CancelWork, Goto, ListMove, HasList, TypeOK
<1> QED
  BY <1>1, <1>2, <1>3, CloserMoves DEF CancelWork, memory

LEMMA InvFinishAllLock == ASSUME Inv, FinishAllLock PROVE Inv'
<1>1. TypeOK /\ Closer \in Threads /\ pc[Closer] = "finish lock"
  BY DEF Inv, FinishAllLock, Threads
<1>2. TypeOK'
  <2>1. "finish all" \in Labels
    BY DEF Labels
  <2> QED
    BY <1>1, <2>1, GotoFacts DEF FinishAllLock, TypeOK, memory
<1>3. ListMove(Closer)
  BY <1>1 DEF FinishAllLock, Goto, ListMove, HasList, TypeOK
<1>4. file' \in {"closing", "cancelled"}
  BY <1>1 DEF FinishAllLock, Inv, CloserInv, TypeOK
<1> QED
  BY <1>1, <1>2, <1>3, <1>4, CloserMoves DEF FinishAllLock, memory

LEMMA InvFinishAllNext == ASSUME Inv, FinishAllNext PROVE Inv'
<1>0. /\ TypeOK /\ Closer \in Threads /\ Iv(Closer) /\ pc[Closer] = "finish all"
      /\ "destroy" \in Labels /\ HasList(Closer) /\ UNCHANGED <<sid, ivsize, sem, todo>>
  BY DEF Inv, IvInv, FinishAllNext, Threads, Labels, HasList
<1>1. CASE \E s \in Listed :
             /\ state' = [state EXCEPT ![s] = "unlinked"]
             /\ ses' = [ses EXCEPT ![Closer] = s] /\ Goto(Closer, "destroy")
             /\ UNCHANGED <<file, fcrSem, op, cop, ivlen, ivused>>
  <2>1. PICK s \in Listed :
             /\ state' = [state EXCEPT ![s] = "unlinked"]
             /\ ses' = [ses EXCEPT ![Closer] = s] /\ Goto(Closer, "destroy")
             /\ UNCHANGED <<file, fcrSem, op, cop, ivlen, ivused>>
    BY <1>1
  <2>2. s \in Sessions
    BY DEF Listed
  <2>3. TypeOK' /\ Alone(Closer) /\ pc'[Closer] = "destroy" /\ ses'[Closer] = s
    BY <1>0, <2>1, <2>2, GotoFacts DEF TypeOK, Alone
  <2>4. ListMove(Closer) /\ LockMove(Closer) /\ Iv(Closer)'
    BY <1>0, <2>1, <2>3 DEF ListMove, LockMove, HasList, Holds, Iv
  <2>5. \A u \in Threads \ {Closer} : ~HasList(u)
    BY <1>0 DEF Inv, ListInv
  <2>6. HandInv' /\ BuiltInv' /\ SidInv'
    BY <1>0, <2>1, <2>3, <2>5, Unlinked
  <2>7. CloserInv'
    BY <1>0, <2>1, <2>3, CloserKept
  <2> QED
    BY <1>0, <2>3, <2>4, <2>6, <2>7, Changed
<1>2. CASE fcrSem' = None /\ file' = "closed" /\ Return(Closer) /\ UNCHANGED state
  <2>1. /\ TypeOK' /\ Alone(Closer) /\ pc'[Closer] = "idle"
        /\ ivused'[Closer] = 0 /\ ivlen'[Closer] = 0
    BY <1>0, <1>2, ReturnFacts DEF TypeOK
  <2>2. ListMove(Closer) /\ LockMove(Closer) /\ Hand(Closer)' /\ Iv(Closer)'
    <3>1. ~HasList(Closer)' /\ ~Holds(Closer) /\ ~Holds(Closer)' /\ ~Waits(Closer)'
      BY <1>0, <2>1 DEF HasList, Holds, Waits
    <3>2. ListMove(Closer)
      BY <1>0, <1>2, <3>1 DEF ListMove
    <3>3. LockMove(Closer)
      BY <1>0, <3>1 DEF LockMove
    <3>4. Hand(Closer)' /\ Iv(Closer)'
      BY <2>1 DEF Hand, Iv, Holds, Waits
    <3> QED
      BY <3>2, <3>3, <3>4
  <2>3. HandInv' /\ BuiltInv' /\ SidInv'
    BY <1>0, <1>2, <2>1, <2>2, SessionsKept
  <2>4. CloserInv'
    BY <2>1 DEF CloserInv
  <2> QED
    BY <1>0, <2>1, <2>2, <2>3, <2>4, Changed
<1> QED
  BY <1>1, <1>2 DEF FinishAllNext

LEMMA NothingMoves ==
  ASSUME Inv, UNCHANGED <<fcrSem, memory, pc, op, cop, ses, ivlen, ivused, todo>>,
         file' \in {"open", "closing", "cancelled", "closed"}, CloserInv'
  PROVE  Inv'
<1>1. TypeOK'
  BY DEF Inv, memory, TypeOK
<1>2. ListInv'
  BY DEF Inv, ListInv, HasList
<1>3. LockInv' /\ LockedIsWorkedOn'
  BY DEF Inv, memory, LockInv, LockedIsWorkedOn, Holds
<1>4. HandInv' /\ BuiltInv'
  BY DEF Inv, memory, HandInv, Hand, BuiltInv, Holds, Waits
<1>5. SidInv'
  BY DEF Inv, memory, SidInv, Listed
<1>6. IvInv'
  BY DEF Inv, IvInv, Iv
<1> QED
  BY <1>1, <1>2, <1>3, <1>4, <1>5, <1>6 DEF Inv

LEMMA InvOpen == ASSUME Inv, Open PROVE Inv'
<1>1. CloserInv'
  BY DEF Inv, Open, CloserInv
<1> QED
  BY <1>1, NothingMoves DEF Open

LEMMA InvStutter == ASSUME Inv, UNCHANGED vars PROVE Inv'
<1>1. CloserInv'
  BY DEF Inv, vars, CloserInv
<1>2. file' \in {"open", "closing", "cancelled", "closed"}
  BY DEF Inv, vars, TypeOK
<1> QED
  BY <1>1, <1>2, NothingMoves DEF vars, memory

LEMMA InvNext == Inv /\ [Next]_vars => Inv'
<1> SUFFICES ASSUME Inv, [Next]_vars PROVE Inv'
  OBVIOUS
<1>1. ASSUME NEW t \in Threads, Step(t) PROVE Inv'
  BY <1>1, InvInsert, InvCreated, InvFinishLookup, InvDestroy, InvKfree, InvGetSession,
     InvLockSession, InvPutFilled, InvFilled, InvRun, InvPut DEF Step
<1>2. ASSUME CloserStep PROVE Inv'
  BY <1>2, InvCancelWork, InvFinishAllLock, InvFinishAllNext DEF CloserStep
<1> QED
  BY <1>1, <1>2, InvCreateSession, InvFinishSession, InvLookup, InvTakeJob, InvRelease, InvOpen,
     InvStutter DEF Next

LEMMA Invariance == Spec => []Inv
  BY InvInit, InvNext, PTL DEF Spec

-------------------------------------------------------------------------------
\* Every variable keeps its type.
THEOREM TypeCorrect == Spec => []TypeOK
<1>1. Inv => TypeOK
  BY DEF Inv
<1> QED
  BY <1>1, Invariance, PTL

\* No thread works on a session whose memory was freed, or waits for the
\* mutex in it: who looks a session up keeps fcr->sem until it has its mutex,
\* who frees one has both.
THEOREM NeverUsedAfterFree == Spec => []NoUseAfterFree
<1>1. Inv => NoUseAfterFree
  BY DEF Inv, HandInv, Hand, NoUseAfterFree, Holds, Waits
<1> QED
  BY <1>1, Invariance, PTL

\* crypto_destroy_session frees a session nobody else has or waits for.
THEOREM AlwaysDestroyedAlone == Spec => []DestroyedAlone
<1>1. Inv => DestroyedAlone
  <2> SUFFICES ASSUME Inv, NEW t \in Threads, NEW u \in Threads, t # u, pc[t] = "kfree",
                      Holds(u) \/ Waits(u), ses[u] = ses[t]
               PROVE  FALSE
    BY DEF DestroyedAlone
  <2>1. HasList(t) /\ Holds(t)
    BY DEF HasList, Holds
  <2>2. ~HasList(u)
    BY <2>1 DEF Inv, ListInv
  <2>3. ~Holds(u)
    BY <2>1 DEF Inv, LockInv
  <2> QED
    BY <2>2, <2>3 DEF HasList, Waits
<1> QED
  BY <1>1, Invariance, PTL

\* crypto_run reads only what was copied from the caller, whatever session
\* its second lookup has found.
THEOREM IvAlwaysCopied == Spec => []IvIsCopied
<1>1. Inv => IvIsCopied
  BY DEF Inv, IvInv, Iv, IvIsCopied
<1> QED
  BY <1>1, Invariance, PTL

\* A session's mutex is held only by a thread that works on the session.
THEOREM LockedIsAlwaysWorkedOn == Spec => []LockedIsWorkedOn
<1>1. Inv => LockedIsWorkedOn
  BY DEF Inv
<1> QED
  BY <1>1, Invariance, PTL

-------------------------------------------------------------------------------
(***************************************************************************)
(* The sessions are a SessionStore.                                        *)
(***************************************************************************)
Stored  == [id \in Sids |-> IF Found(id) = {} THEN None ELSE CHOOSE s \in Found(id) : TRUE]
Dead    == {s \in Sessions : state[s] = "unlinked"}
AtWork(t) == pc[t] \in {"filling", "running", "put"}
Works   == [t \in Threads |-> IF AtWork(t) THEN ses[t] ELSE None]

StoreStep == [Store!Next]_(Store!storeVars)

\* An identifier finds the one listed session that has it.
LEMMA StoredIsFound ==
  ASSUME Inv, NEW id \in Sids
  PROVE  /\ Found(id) = {} => Stored[id] = None
         /\ \A s \in Found(id) : Found(id) = {s} /\ Stored[id] = s
<1>1. \A s \in Found(id) : Found(id) = {s}
  BY DEF Inv, SidInv, Found
<1> QED
  BY <1>1 DEF Stored

LEMMA KeptIsListed == Inv => Store!Kept = Listed
<1> SUFFICES ASSUME Inv PROVE {Stored[id] : id \in Sids} \ {None} = Listed
  BY DEF Store!Kept, Stored
<1>1. ASSUME NEW id \in Sids, Stored[id] # None PROVE Stored[id] \in Listed
  <2>1. PICK s \in Found(id) : TRUE
    BY <1>1, StoredIsFound
  <2> QED
    BY <2>1, StoredIsFound DEF Found
<1>2. ASSUME NEW s \in Listed PROVE sid[s] \in Sids /\ Stored[sid[s]] = s /\ s # None
  <2>1. sid[s] \in Sids /\ s \in Found(sid[s]) /\ s # None
    BY ThreadsAssumption DEF Inv, TypeOK, Found, Listed
  <2> QED
    BY <2>1, StoredIsFound
<1> QED
  BY <1>1, <1>2

\* Which session that is depends on the ones it finds alone.
TheOne(S) == IF S = {} THEN None ELSE CHOOSE s \in S : TRUE

LEMMA StoredAt ==
  ASSUME NEW id \in Sids
  PROVE  Stored[id] = TheOne(Found(id)) /\ Stored'[id] = TheOne(Found(id)')
BY DEF Stored, TheOne, Found, Listed

\* The sessions' memory stays as it is, and so does the store.
LEMMA StoredStays ==
  ASSUME state' = state, sid' = sid
  PROVE  Stored' = Stored /\ Dead' = Dead
BY DEF Stored, Dead, Found, Listed

LEMMA WorksChange ==
  ASSUME NEW t \in Threads, Alone(t)
  PROVE  /\ Works' = [Works EXCEPT ![t] = IF AtWork(t)' THEN ses'[t] ELSE None]
         /\ ~AtWork(t) /\ ~AtWork(t)' => Works' = Works
         /\ AtWork(t) /\ AtWork(t)' /\ ses'[t] = ses[t] => Works' = Works
BY Zenon DEF Alone, Works, AtWork

LEMMA Stutters ==
  ASSUME Stored' = Stored, Dead' = Dead, Works' = Works
  PROVE  StoreStep
BY DEF StoreStep, Store!storeVars, Stored, Dead, Works, AtWork

LEMMA StopStep ==
  ASSUME Inv, NEW t \in Threads, Alone(t), AtWork(t), ~AtWork(t)', state' = state, sid' = sid
  PROVE  StoreStep
<1>1. Works[t] # None /\ Works' = [Works EXCEPT ![t] = None]
  <2>1. ses[t] # None
    BY ThreadsAssumption DEF Inv, HandInv, Hand, AtWork, Holds
  <2> QED
    BY <2>1, WorksChange DEF Works
<1>2. Stored' = Stored /\ Dead' = Dead
  BY StoredStays
<1>3. Store!Stop(t)
  BY <1>1, <1>2 DEF Store!Stop, Stored, Dead, Works, AtWork
<1> QED
  BY <1>3 DEF StoreStep, Store!Next

LEMMA Idles ==
  ASSUME NEW t \in Threads, Alone(t), state' = state, sid' = sid, ~AtWork(t), ~AtWork(t)'
  PROVE  StoreStep
BY StoredStays, WorksChange, Stutters

LEMMA StartStep ==
  ASSUME Inv, NEW t \in Threads, LockSession(t)
  PROVE  StoreStep
<1>1. /\ TypeOK /\ Waits(t) /\ ~AtWork(t) /\ ses[t] \in Listed
  BY DEF Inv, HandInv, Hand, LockSession, Waits, AtWork, Listed
<1>2. Alone(t) /\ ses' = ses /\ AtWork(t)' /\ state' = state /\ sid' = sid
  BY <1>1 DEF LockSession, Goto, TypeOK, Alone, AtWork
<1>3. \A u \in Threads : Works[u] # ses[t]
  <2>1. sem[ses[t]] = None /\ ses[t] # None
    BY <1>1, ThreadsAssumption DEF LockSession, Listed
  <2> QED
    BY <2>1, ThreadsAssumption DEF Inv, LockInv, Works, AtWork, Holds
<1>4. Works[t] = None /\ Works' = [Works EXCEPT ![t] = ses[t]]
  BY <1>1, <1>2, WorksChange DEF Works
<1>5. Stored' = Stored /\ Dead' = Dead /\ ses[t] \in Store!Kept
  BY <1>1, <1>2, StoredStays, KeptIsListed
<1>6. PICK s \in Sessions : s = ses[t]
  BY <1>1 DEF Listed
<1>7. Store!Start(t, s)
  BY <1>3, <1>4, <1>5, <1>6 DEF Store!Start, Stored, Dead, Works, AtWork
<1> QED
  BY <1>7 DEF StoreStep, Store!Next

LEMMA EnterStep ==
  ASSUME Inv, NEW t \in Threads, Insert(t)
  PROVE  StoreStep
<1>1. PICK id \in Sids : Found(id) = {} /\ sid' = [sid EXCEPT ![ses[t]] = id]
  BY DEF Insert
<1>2. DEFINE s == ses[t]
<1>3. /\ TypeOK /\ s \in Sessions /\ state[s] = "built" /\ state' = [state EXCEPT ![s] = "listed"]
      /\ ~AtWork(t)
  BY DEF Inv, HandInv, Hand, Insert, AtWork
<1>4. Alone(t) /\ ~AtWork(t)'
  BY <1>3 DEF Insert, Goto, TypeOK, Alone, AtWork
<1>5. Works' = Works
  BY <1>3, <1>4, WorksChange
<1>6. Dead' = Dead /\ s \notin Dead /\ s \notin Listed
  BY <1>3 DEF TypeOK, Dead, Listed
<1>7. Stored' = [Stored EXCEPT ![id] = s]
  <2>1. ASSUME NEW i \in Sids, i # id PROVE Found(i)' = Found(i)
    BY <1>1, <1>3, <2>1 DEF Found, Listed, TypeOK
  <2>2. Found(id)' = {s}
    BY <1>1, <1>3 DEF Found, Listed, TypeOK
  <2>3. ASSUME NEW i \in Sids, i # id PROVE Stored'[i] = Stored[i]
    <3>1. Found(i)' = Found(i)
      BY <2>1, <2>3
    <3>2. Stored[i] = TheOne(Found(i)) /\ Stored'[i] = TheOne(Found(i)')
      BY StoredAt
    <3> QED
      BY <3>1, <3>2
  <2>4. Stored'[id] = s
    BY <2>2 DEF Stored, Found, Listed
  <2> QED
    BY <2>3, <2>4 DEF Stored
<1>8. Stored[id] = None
  BY <1>1, StoredIsFound
<1>9. Store!Enter(s, id)
  BY <1>5, <1>6, <1>7, <1>8, KeptIsListed DEF Store!Enter, Stored, Dead, Works, AtWork
<1> QED
  BY <1>3, <1>9 DEF StoreStep, Store!Next

\* A session leaves the list.
LEMMA LeaveStep ==
  ASSUME Inv, NEW t \in Threads, Alone(t), ~AtWork(t), ~AtWork(t)', NEW s \in Listed,
         state' = [state EXCEPT ![s] = "unlinked"], sid' = sid
  PROVE  StoreStep
<1>1. TypeOK /\ s \in Sessions /\ state[s] = "listed" /\ s # None
  BY ThreadsAssumption DEF Inv, Listed
<1>2. PICK id \in Sids : id = sid[s]
  BY <1>1 DEF TypeOK
<1>3. s \in Found(id) /\ Found(id) = {s} /\ Stored[id] = s
  BY <1>2, StoredIsFound DEF Found
<1>4. Works' = Works
  BY WorksChange
<1>5. Dead' = Dead \cup {s}
  BY <1>1 DEF TypeOK, Dead
<1>6. Stored' = [Stored EXCEPT ![id] = None]
  <2>1. ASSUME NEW i \in Sids, i # id PROVE Found(i)' = Found(i)
    BY <1>1, <1>2, <2>1 DEF Found, Listed, TypeOK
  <2>2. Found(id)' = {}
    BY <1>1, <1>3 DEF Found, Listed, TypeOK
  <2>3. ASSUME NEW i \in Sids, i # id PROVE Stored'[i] = Stored[i]
    <3>1. Found(i)' = Found(i)
      BY <2>1, <2>3
    <3>2. Stored[i] = TheOne(Found(i)) /\ Stored'[i] = TheOne(Found(i)')
      BY StoredAt
    <3> QED
      BY <3>1, <3>2
  <2>4. Stored'[id] = None
    BY <2>2 DEF Stored, Found, Listed
  <2> QED
    BY <2>3, <2>4 DEF Stored
<1>7. Store!Leave(id)
  BY <1>1, <1>3, <1>4, <1>5, <1>6 DEF Store!Leave, Stored, Dead, Works, AtWork
<1> QED
  BY <1>7 DEF StoreStep, Store!Next

LEMMA FreeStep ==
  ASSUME Inv, NEW t \in Threads, Kfree(t)
  PROVE  StoreStep
<1>1. PICK s \in Sessions : s = ses[t] /\ state[s] = "unlinked"
  BY DEF Inv, HandInv, Hand, Kfree, Holds
<1>2. /\ TypeOK /\ pc[t] = "kfree" /\ s # None
      /\ state' = [state EXCEPT ![s] = "free"] /\ sid' = [sid EXCEPT ![s] = AnySid]
  BY <1>1, ThreadsAssumption DEF Inv, Kfree
<1>3. Alone(t) /\ ~AtWork(t)'
  <2>1. CASE Return(t)
    BY <1>2, <2>1, ReturnFacts DEF AtWork
  <2>2. CASE Goto(t, "finish all") /\ ses' = [ses EXCEPT ![t] = None] /\ UNCHANGED <<ivlen, ivused>>
    BY <1>2, <2>2 DEF TypeOK, Goto, Alone, AtWork
  <2> QED
    BY <2>1, <2>2 DEF Kfree
<1>4. Works' = Works
  BY <1>2, <1>3, WorksChange DEF AtWork
<1>5. \A u \in Threads : Works[u] # s
  <2>1. sem[s] = t
    BY <1>1, <1>2 DEF Inv, LockInv, Holds
  <2> QED
    BY <1>1, <1>2, <2>1 DEF Inv, LockInv, Holds, Works, AtWork
<1>6. s \in Dead /\ Dead' = Dead \ {s}
  BY <1>1, <1>2 DEF TypeOK, Dead
<1>7. Stored' = Stored
  <2>1. ASSUME NEW i \in Sids PROVE Found(i)' = Found(i)
    BY <1>1, <1>2 DEF Found, Listed, TypeOK
  <2>2. ASSUME NEW i \in Sids PROVE Stored'[i] = Stored[i]
    <3>1. Found(i)' = Found(i)
      BY <2>1
    <3>2. Stored[i] = TheOne(Found(i)) /\ Stored'[i] = TheOne(Found(i)')
      BY StoredAt
    <3> QED
      BY <3>1, <3>2
  <2> QED
    BY <2>2 DEF Stored
<1>8. Store!Free(s)
  BY <1>4, <1>5, <1>6, <1>7 DEF Store!Free, Stored, Dead, Works, AtWork
<1> QED
  BY <1>8 DEF StoreStep, Store!Next

LEMMA StoreSteps == Inv /\ [Next]_vars => StoreStep
<1> SUFFICES ASSUME Inv, [Next]_vars PROVE StoreStep
  OBVIOUS
<1>0. TypeOK
  BY DEF Inv
<1>1. ASSUME NEW t \in Threads, CreateSession(t) PROVE StoreStep
  <2>1. PICK s \in Sessions, id \in Sids :
          /\ state[s] = "free" /\ state' = [state EXCEPT ![s] = "built"]
          /\ sid' = [sid EXCEPT ![s] = id] /\ ses' = [ses EXCEPT ![t] = s]
    BY <1>1 DEF CreateSession
  <2>2. Alone(t) /\ ~AtWork(t) /\ ~AtWork(t)'
    BY <1>0, <1>1, <2>1 DEF CreateSession, Call, Goto, TypeOK, Alone, AtWork
  <2>3. Dead' = Dead
    BY <1>0, <2>1 DEF TypeOK, Dead
  <2>4. ASSUME NEW i \in Sids PROVE Found(i)' = Found(i)
    BY <1>0, <2>1 DEF Found, Listed, TypeOK
  <2>5. ASSUME NEW i \in Sids PROVE Stored'[i] = Stored[i]
    <3>1. Found(i)' = Found(i)
      BY <2>4
    <3>2. Stored[i] = TheOne(Found(i)) /\ Stored'[i] = TheOne(Found(i)')
      BY StoredAt
    <3> QED
      BY <3>1, <3>2
  <2>6. Stored' = Stored
    BY <2>5 DEF Stored
  <2> QED
    BY <2>2, <2>3, <2>6, WorksChange, Stutters
<1>2. ASSUME NEW t \in Threads, FinishSession(t) \/ Lookup(t) PROVE StoreStep
  <2>1. state' = state /\ sid' = sid
    BY <1>2 DEF FinishSession, Lookup, memory
  <2>2. Alone(t) /\ ~AtWork(t) /\ ~AtWork(t)'
    BY <1>0, <1>2 DEF FinishSession, Lookup, Call, Goto, TypeOK, Alone, AtWork
  <2> QED
    BY <2>1, <2>2, Idles
<1>3. ASSUME NEW t \in Threads, TakeJob(t) \/ Destroy(t) PROVE StoreStep
  <2>1. state' = state /\ sid' = sid
    BY <1>3 DEF TakeJob, Destroy, memory
  <2>2. Alone(t) /\ ~AtWork(t) /\ ~AtWork(t)'
    BY <1>0, <1>3 DEF TakeJob, Destroy, Goto, TypeOK, Alone, AtWork
  <2> QED
    BY <2>1, <2>2, Idles
<1>4. ASSUME NEW t \in Threads, Created(t) PROVE StoreStep
  <2>1. state' = state /\ sid' = sid /\ ~AtWork(t)
    BY <1>4 DEF Created, memory, AtWork
  <2>2. CASE Return(t)
    BY <1>0, <2>1, <2>2, ReturnFacts, Idles DEF AtWork
  <2>3. CASE ses' = [ses EXCEPT ![t] = None] /\ Goto(t, "finish") /\ UNCHANGED <<ivlen, ivused>>
    <3>1. Alone(t) /\ ~AtWork(t)'
      BY <1>0, <2>3 DEF Goto, TypeOK, Alone, AtWork
    <3> QED
      BY <2>1, <3>1, Idles
  <2> QED
    BY <1>4, <2>2, <2>3 DEF Created
<1>5. ASSUME NEW t \in Threads, GetSession(t) PROVE StoreStep
  <2>1. state' = state /\ sid' = sid /\ ~AtWork(t)
    BY <1>5 DEF GetSession, memory, AtWork
  <2>2. CASE Return(t)
    BY <1>0, <2>1, <2>2, ReturnFacts, Idles DEF AtWork
  <2>3. CASE ~Return(t)
    <3>1. Alone(t) /\ ~AtWork(t)'
      BY <1>0, <1>5, <2>3 DEF GetSession, Goto, TypeOK, Alone, AtWork
    <3> QED
      BY <2>1, <3>1, Idles
  <2> QED
    BY <2>2, <2>3
<1>6. ASSUME NEW t \in Threads, Filled(t) PROVE StoreStep
  <2>1. state' = state /\ sid' = sid /\ ~AtWork(t)
    BY <1>6 DEF Filled, memory, AtWork
  <2>2. CASE Return(t)
    BY <1>0, <2>1, <2>2, ReturnFacts, Idles DEF AtWork
  <2>3. CASE ~Return(t)
    <3>1. Alone(t) /\ ~AtWork(t)'
      BY <1>0, <1>6, <2>3 DEF Filled, Goto, TypeOK, Alone, AtWork
    <3> QED
      BY <2>1, <3>1, Idles
  <2> QED
    BY <2>2, <2>3
<1>7. ASSUME NEW t \in Threads, PutFilled(t) PROVE StoreStep
  <2>1. state' = state /\ sid' = sid /\ AtWork(t)
    BY <1>7 DEF PutFilled, AtWork
  <2>2. CASE Return(t)
    BY <1>0, <2>1, <2>2, ReturnFacts, StopStep DEF AtWork
  <2>3. CASE ~Return(t)
    <3>1. Alone(t) /\ ~AtWork(t)'
      BY <1>0, <1>7, <2>3 DEF PutFilled, Goto, TypeOK, Alone, AtWork
    <3> QED
      BY <2>1, <3>1, StopStep
  <2> QED
    BY <2>2, <2>3
<1>8. ASSUME NEW t \in Threads, Put(t) PROVE StoreStep
  <2>1. state' = state /\ sid' = sid /\ AtWork(t) /\ Return(t)
    BY <1>8 DEF Put, AtWork
  <2> QED
    BY <1>0, <2>1, ReturnFacts, StopStep DEF AtWork
<1>9. ASSUME NEW t \in Threads, Run(t) PROVE StoreStep
  <2>1. state' = state /\ sid' = sid /\ AtWork(t)
    BY <1>9 DEF Run, memory, AtWork
  <2>2. Alone(t) /\ AtWork(t)' /\ ses'[t] = ses[t]
    BY <1>0, <1>9 DEF Run, Goto, TypeOK, Alone, AtWork
  <2> QED
    BY <2>1, <2>2, StoredStays, WorksChange, Stutters
<1>10. ASSUME NEW t \in Threads, FinishLookup(t) PROVE StoreStep
  <2>1. sid' = sid /\ ~AtWork(t)
    BY <1>10 DEF FinishLookup, AtWork
  <2>2. CASE Return(t) /\ state' = state
    BY <1>0, <2>1, <2>2, ReturnFacts, Idles DEF AtWork
  <2>3. CASE \E s \in Found(cop[t]) :
               /\ state' = [state EXCEPT ![s] = "unlinked"] /\ ses' = [ses EXCEPT ![t] = s]
               /\ Goto(t, "destroy") /\ UNCHANGED <<ivlen, ivused>>
    <3>1. PICK s \in Found(cop[t]) :
               /\ state' = [state EXCEPT ![s] = "unlinked"] /\ ses' = [ses EXCEPT ![t] = s]
               /\ Goto(t, "destroy") /\ UNCHANGED <<ivlen, ivused>>
      BY <2>3
    <3>2. Alone(t) /\ ~AtWork(t)' /\ s \in Listed
      BY <1>0, <3>1 DEF Found, Goto, TypeOK, Alone, AtWork
    <3> QED
      BY <2>1, <3>1, <3>2, LeaveStep
  <2> QED
    BY <1>10, <2>2, <2>3 DEF FinishLookup
<1>11. ASSUME NEW t \in Threads, Step(t) PROVE StoreStep
  BY <1>3, <1>4, <1>5, <1>6, <1>7, <1>8, <1>9, <1>10, <1>11, EnterStep, StartStep, FreeStep
  DEF Step
<1>12. ASSUME Release \/ CancelWork \/ FinishAllLock PROVE StoreStep
  <2>1. /\ Closer \in Threads /\ state' = state /\ sid' = sid
        /\ pc[Closer] \in {"idle", "cancel", "finish lock"}
    BY <1>12 DEF Inv, CloserInv, Release, CancelWork, FinishAllLock, memory, Threads
  <2>2. Alone(Closer) /\ ~AtWork(Closer) /\ ~AtWork(Closer)'
    BY <1>0, <1>12, <2>1
    DEF Release, CancelWork, FinishAllLock, Goto, TypeOK, Alone, AtWork
  <2> QED
    BY <2>1, <2>2, Idles
<1>13. ASSUME FinishAllNext PROVE StoreStep
  <2>1. Closer \in Threads /\ sid' = sid /\ ~AtWork(Closer)
    BY <1>13 DEF FinishAllNext, AtWork, Threads
  <2>2. CASE Return(Closer) /\ state' = state
    BY <1>0, <2>1, <2>2, ReturnFacts, Idles DEF AtWork
  <2>3. CASE \E s \in Listed :
               /\ state' = [state EXCEPT ![s] = "unlinked"] /\ ses' = [ses EXCEPT ![Closer] = s]
               /\ Goto(Closer, "destroy") /\ UNCHANGED <<ivlen, ivused>>
    <3>1. PICK s \in Listed :
               /\ state' = [state EXCEPT ![s] = "unlinked"] /\ ses' = [ses EXCEPT ![Closer] = s]
               /\ Goto(Closer, "destroy") /\ UNCHANGED <<ivlen, ivused>>
      BY <2>3
    <3>2. Alone(Closer) /\ ~AtWork(Closer)'
      BY <1>0, <2>1, <3>1 DEF Goto, TypeOK, Alone, AtWork
    <3> QED
      BY <2>1, <3>1, <3>2, LeaveStep
  <2> QED
    BY <1>13, <2>2, <2>3 DEF FinishAllNext
<1>14. ASSUME Open \/ UNCHANGED vars PROVE StoreStep
  <2>1. state' = state /\ sid' = sid /\ Works' = Works
    BY <1>14 DEF Open, vars, memory, Works, AtWork
  <2> QED
    BY <2>1, StoredStays, Stutters
<1> QED
  BY <1>1, <1>2, <1>3, <1>11, <1>12, <1>13, <1>14 DEF Next, CloserStep

\* To find a session, to begin and to end work on it, to end it and to free it
\* are atomic to who uses the sessions: a thread has a session by itself from
\* crypto_get_session_by_sid to crypto_put_session, and one that was finished
\* is never found again.
THEOREM SessionsAreAStore == Spec => ImplementsStore
<1>1. Init => Store!Init
  <2> SUFFICES ASSUME Init PROVE Store!Init
    OBVIOUS
  <2>1. Listed = {} /\ Dead = {}
    BY DEF Init, Listed, Dead
  <2>2. Stored = [id \in Sids |-> None]
    BY <2>1 DEF Stored, Found
  <2>3. Works = [t \in Threads |-> None]
    BY DEF Init, Works, AtWork
  <2> QED
    BY <2>1, <2>2, <2>3 DEF Store!Init, Stored, Dead, Works, AtWork
<1>2. Inv /\ [Next]_vars => [Store!Next]_(Store!storeVars)
  BY StoreSteps DEF StoreStep
<1> QED
  BY <1>1, <1>2, Invariance, PTL DEF Spec, ImplementsStore, Store!Spec
===============================================================================
