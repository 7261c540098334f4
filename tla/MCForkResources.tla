-------------------------- MODULE MCForkResources --------------------------
(* Small instances of ForkResources: process 1 and room for two or three tasks. *)
EXTENDS ForkResources

CONSTANTS init, a, b, c

MCTask == {init, a, b}
MCFourTasks == {init, a, b, c}
MCObject == 1..4
MCThread == {"CLONE_VM", "CLONE_FS", "CLONE_FILES", "CLONE_SIGHAND"}
MCFlags == {{}, {"CLONE_FILES"}, MCThread, {"CLONE_VFORK", "CLONE_VM"}}
MCThreadsOnly == {MCThread}
============================================================================
