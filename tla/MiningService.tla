---------------------------- MODULE MiningService ----------------------------
(***************************************************************************)
(* What the scripts of MinerSupervisor promise, without files, commands or *)
(* daemons: mining is claimed, carried by one instance, torn down and      *)
(* released, in this order, and no instance starts before the last one was *)
(* released.                                                               *)
(***************************************************************************)
CONSTANTS Instances, Nobody   \* Nobody is not one of them

VARIABLES
    phase,     \* "off", "claimed", "up" or "down"
    instance   \* the one that carries mining

svars == <<phase, instance>>

ServiceInit == phase = "off" /\ instance = Nobody

\* start_mg found no flag and set it.
Claim == phase = "off" /\ phase' = "claimed" /\ UNCHANGED instance

\* The watchdog is forked ...
Launch == /\ phase = "claimed"
          /\ phase' = "up"
          /\ instance' \in Instances

\* ... and killed by stop_mg ...
TearDown == /\ phase = "up"
            /\ phase' = "down"
            /\ instance' = Nobody

\* ... which removes the flag last.
Release == phase = "down" /\ phase' = "off" /\ UNCHANGED instance

ServiceNext == Claim \/ Launch \/ TearDown \/ Release

ServiceSpec == ServiceInit /\ [][ServiceNext]_svars
=============================================================================
