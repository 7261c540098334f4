--------------------------- MODULE MCProcessTree ---------------------------
(* Small instances of ProcessTree: process 1 and room for two or three tasks. *)
EXTENDS ProcessTree, TLC

CONSTANTS swapper, init, a, b, c

MCTask == {swapper, init, a, b}
MCSlots == {a, b}
MCFlags == {{}, {"CLONE_PARENT"}, {"CLONE_THREAD"}, {"CLONE_PTRACE"}}
Permuted == Permutations(MCSlots)

MCThreeTasks == {swapper, init, a, b, c}
MCThreadFlags == {{}, {"CLONE_THREAD"}}
ThreePermuted == Permutations({a, b, c})
============================================================================
