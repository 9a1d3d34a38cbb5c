--------------------------- MODULE MCMinerSupervisor --------------------------
(* TLC instances of MinerSupervisor. *)
EXTENDS MinerSupervisor

\* Pids are taken from the lowest free one up, so that two runs that differ
\* only in the pids they draw are one.
MCPids == 1 .. 9
=============================================================================
