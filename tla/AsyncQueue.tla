------------------------------ MODULE AsyncQueue ------------------------------
(***************************************************************************)
(* What CIOCASYNCCRYPT and CIOCASYNCFETCH promise: the jobs come back in   *)
(* the order they were given, each one once, none before it is done, and   *)
(* there are never more than Capacity of them.                             *)
(***************************************************************************)
EXTENDS Naturals, Sequences

CONSTANTS Jobs, Capacity

VARIABLES
    jobs,   \* the jobs given and not fetched, the oldest first
    ready   \* how many of them, from the first, are done

queueVars == <<jobs, ready>>

Init == jobs = <<>> /\ ready = 0

Give(j) ==
    /\ Len(jobs) < Capacity
    /\ jobs' = Append(jobs, j)
    /\ UNCHANGED ready

Finish ==
    /\ ready < Len(jobs)
    /\ ready' \in (ready + 1)..Len(jobs)
    /\ UNCHANGED jobs

Fetch ==
    /\ ready > 0
    /\ jobs' = Tail(jobs)
    /\ ready' = ready - 1

Close == jobs' = <<>> /\ ready' = 0

Next == (\E j \in Jobs : Give(j)) \/ Finish \/ Fetch \/ Close

Spec == Init /\ [][Next]_queueVars
===============================================================================
