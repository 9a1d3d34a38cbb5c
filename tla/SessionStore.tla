----------------------------- MODULE SessionStore -----------------------------
(***************************************************************************)
(* What the sessions of an open /dev/crypto promise their users: a session *)
(* is found by its identifier while it is in the store, one user works on  *)
(* it at a time, and its memory goes only when it is out of the store and  *)
(* nobody works on it.                                                     *)
(***************************************************************************)
CONSTANTS Users, Sessions, Sids, NoSession

VARIABLES
    store,   \* the session found under each identifier
    dead,    \* the sessions taken out whose memory is still there
    works    \* the session each user works on

storeVars == <<store, dead, works>>

Kept == {store[sid] : sid \in Sids} \ {NoSession}

Init ==
    /\ store = [sid \in Sids |-> NoSession]
    /\ dead = {}
    /\ works = [u \in Users |-> NoSession]

\* A session enters the store under an identifier no other one there has.
Enter(s, sid) ==
    /\ s \notin Kept \cup dead
    /\ store[sid] = NoSession
    /\ store' = [store EXCEPT ![sid] = s]
    /\ UNCHANGED <<dead, works>>

Start(u, s) ==
    /\ works[u] = NoSession
    /\ s \in Kept
    /\ \A v \in Users : works[v] # s
    /\ works' = [works EXCEPT ![u] = s]
    /\ UNCHANGED <<store, dead>>

Stop(u) ==
    /\ works[u] # NoSession
    /\ works' = [works EXCEPT ![u] = NoSession]
    /\ UNCHANGED <<store, dead>>

Leave(sid) ==
    /\ store[sid] # NoSession
    /\ store' = [store EXCEPT ![sid] = NoSession]
    /\ dead' = dead \cup {store[sid]}
    /\ UNCHANGED works

Free(s) ==
    /\ s \in dead
    /\ \A u \in Users : works[u] # s
    /\ dead' = dead \ {s}
    /\ UNCHANGED <<store, works>>

Next ==
    \/ \E sid \in Sids : Leave(sid) \/ \E s \in Sessions : Enter(s, sid)
    \/ \E s \in Sessions : Free(s) \/ \E u \in Users : Start(u, s)
    \/ \E u \in Users : Stop(u)

Spec == Init /\ [][Next]_storeVars
===============================================================================
