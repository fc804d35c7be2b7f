---------------------------- MODULE MCTaskStore ----------------------------
(* Small instances of TaskStore for TLC. *)
EXTENDS TaskStore, TLC

CONSTANTS loop, handler, command, server, cli

\* A server with the loop of the task and a handler, and one command.
Threads == {loop, handler, command}
Processes == {server, cli}
Processing == loop :> server @@ handler :> server @@ command :> cli
=============================================================================
