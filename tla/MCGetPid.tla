------------------------------ MODULE MCGetPid ------------------------------
(* A small instance of GetPid: process 1, room for three more tasks, so that two
   can fork at once, and three pids besides that of process 1. *)
EXTENDS GetPid, TLC

CONSTANTS init, a, b, c

MCTask == {init, a, b, c}
Slots == Permutations({a, b, c})
============================================================================
