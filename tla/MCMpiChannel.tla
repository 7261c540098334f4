---------------------------- MODULE MCMpiChannel ----------------------------
(* A small instance of MpiChannel: process 1, room for two more, two messages a
   sender can tell apart.                                                     *)
EXTENDS MpiChannel, TLC

CONSTANTS init, a, b

MCTask == {init, a, b}
Slots == Permutations({a, b})
MCPids == {1, 2, 3}
MCMessage == [id : {1}, sender_pid : MCPids, addressee : MCPids]
=============================================================================
