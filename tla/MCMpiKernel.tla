---------------------------- MODULE MCMpiKernel ----------------------------
(* Small instances of MpiKernel: process 1, room for two more tasks. *)
EXTENDS MpiKernel, TLC

CONSTANTS init, a, b

MCTask == {init, a, b}
MCTwoTasks == {init, a}

(* Pids of the other slots can be interchanged as long as no liveness is asked. *)
Slots == Permutations({a, b})

MCPids == {1, 2, 3}
MCSparePids == {1, 2, 3, 4}
MCTwoPids == {1, 2}
MCRequests == {<<2>>, <<1, 3>>}
MCSelfAndParent == {<<1, 2>>}

(* With 100 ticks a second and an int of 10 bits, 6 seconds wrap to a negative
   number of ticks and 1 second does not.                                     *)
MCTimeouts == {1, 6}
MCShortTimeouts == {1}
============================================================================
