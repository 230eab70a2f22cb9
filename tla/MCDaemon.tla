------------------------------ MODULE MCDaemon ------------------------------
(* Instances of Daemon for TLC. *)
EXTENDS Daemon

\* All the requests of a client, and those of the clients of this machine.
AllRequests == {"env", "cs", "local", "compile", "transfer"}
OwnRequests == {"cs", "local"}

LiveRequests == {"cs", "local", "compile"}
=============================================================================
