------------------------------ MODULE MCDaemon ------------------------------
(* Instances of Daemon for TLC. *)
EXTENDS Daemon, TLC

\* The order of CLI requests does not matter: each is served by a fresh goroutine.
ClientSymmetry == Permutations(Clients)
=============================================================================
