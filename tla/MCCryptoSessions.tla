--------------------------- MODULE MCCryptoSessions ---------------------------
(* CryptoSessions for TLC: users and sessions are interchangeable. *)
EXTENDS CryptoSessions, TLC

Symmetry == Permutations(Users) \cup Permutations(Sessions)
===============================================================================
