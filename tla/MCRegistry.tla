----------------------------- MODULE MCRegistry -----------------------------
(* A server with two goroutines and a command, for TLC. *)
EXTENDS Registry, TLC

CONSTANTS server, command, s1, s2, c1

AtHome == s1 :> server @@ s2 :> server @@ c1 :> command

Symmetric ==
  Permutations({s1, s2}) \cup Permutations(Path) \cup Permutations(Account)
=============================================================================
