--------------------------- MODULE ForkResources ---------------------------
(***************************************************************************)
(* What processes share: files, fs, signal handlers and the address space, *)
(* handed on by the copy_* functions of do_fork, given back by do_exit and *)
(* by the labels at the end of do_fork when a step fails, and counted.     *)
(*                                                                         *)
(* Every copy_* function may sleep in its allocation and exit_fs and       *)
(* exit_files may block: each of them is an action.                        *)
(***************************************************************************)
EXTENDS Integers, FiniteSets

CONSTANTS
  Task,        \* task_struct addresses
  InitTask,    \* process 1
  NoTask, Null,
  Object,      \* addresses of the shared structures, of each kind
  Flags,       \* the sets of clone flags in use
  Fails,       \* the steps of do_fork that may fail
  Kernel,      \* the tasks that may become kernel threads
  max_threads

Kinds == {"files", "fs", "sig"}
CloneFlags == {"CLONE_FILES", "CLONE_FS", "CLONE_SIGHAND", "CLONE_VM", "CLONE_VFORK"}

ASSUME TaskAssumption == /\ IsFiniteSet(Task) /\ InitTask \in Task /\ NoTask \notin Task
                         /\ Object # {} /\ Null \notin Object
ASSUME UseAssumption == /\ Flags \subseteq SUBSET CloneFlags
                        /\ Fails \subseteq Kinds \cup {"mm", "namespace", "kernel_namespace"}
                        /\ Kernel \subseteq Task /\ max_threads \in Nat

VARIABLES
  pc,          \* where in which call each task is
  child,       \* fork: the child
  clone_flags, \* fork: its flags
  res,         \* files, fs, sig and mm of each task_struct
  active_mm,
  count,       \* the count of each structure; of an mm, mm_users
  mm_count,
  vfork_done,  \* the parent whose completion the child holds
  processes,   \* user->processes, and user->__count with it
  domain_users,\* the use counts of exec_domain and of the binary format
  nr_threads

call == <<pc, child, clone_flags>>
mms == <<active_mm, mm_count>>
charges == <<processes, domain_users, nr_threads>>
vars == <<call, res, count, mms, vfork_done, charges>>

All == Kinds \cup {"mm"}
Goto(t, where) == pc' = [pc EXCEPT ![t] = where]
Free(k) == {o \in Object : count[k][o] = 0 /\ (k = "mm" => mm_count[o] = 0)}
Some(k) == CHOOSE o \in Free(k) : TRUE

Added(k, o, n) == count' = [count EXCEPT ![k][o] = @ + n]

Flag == [files |-> "CLONE_FILES", fs |-> "CLONE_FS", sig |-> "CLONE_SIGHAND"]
After == [files |-> "fs", fs |-> "sig", sig |-> "mm"]

(* LabelTooLow forgets the signal handlers when copy_mm fails. *)
LabelTooLow == [files |-> "undo", fs |-> "undo_files", sig |-> "undo_fs",
                mm |-> "undo_fs", namespace |-> "undo_mm"]

(* Where a failed step jumps to. *)
Label == [files |-> "undo", fs |-> "undo_files", sig |-> "undo_fs",
          mm |-> "undo_sig", namespace |-> "undo_mm"]

----------------------------------------------------------------------------
(* do_fork *)

(* alloc_task_struct to get_pid.  Whatever fails in between is undone at once. *)
Begin(t, c, flags) ==
  /\ pc[t] = "user" /\ pc[c] = "none"
  /\ nr_threads < max_threads
  /\ pc' = [pc EXCEPT ![t] = "files", ![c] = "embryo"]
  /\ child' = [child EXCEPT ![t] = c]
  /\ clone_flags' = [clone_flags EXCEPT ![t] = flags]
  /\ res' = [res EXCEPT ![c] = res[t]]
  /\ processes' = processes + 1 /\ domain_users' = domain_users + 1
  /\ UNCHANGED <<count, mms, nr_threads>>

(* BeginKeepingVfork lets the child keep the completion its parent may hold. *)
BeginKeepingVfork(t, c, flags) ==
  /\ Begin(t, c, flags)
  /\ vfork_done' = [vfork_done EXCEPT ![c] = IF "CLONE_VFORK" \in flags THEN t
                                             ELSE vfork_done[t]]

ForkBegin(t, c, flags) ==
  /\ Begin(t, c, flags)
  /\ vfork_done' = [vfork_done EXCEPT ![c] = IF "CLONE_VFORK" \in flags THEN t ELSE NoTask]

(* copy_files, copy_fs and copy_sighand *)
Share(t, k) ==
  /\ Flag[k] \in clone_flags[t]
  /\ Added(k, res[t][k], 1)
  /\ Goto(t, After[k])
  /\ UNCHANGED res

Copy(t, k) ==
  /\ Flag[k] \notin clone_flags[t] /\ Free(k) # {}
  /\ res' = [res EXCEPT ![child[t]][k] = Some(k)]
  /\ count' = [count EXCEPT ![k][Some(k)] = 1]
  /\ Goto(t, After[k])

CopyFails(t, k) ==
  /\ Flag[k] \notin clone_flags[t] /\ k \in Fails
  /\ res' = [res EXCEPT ![child[t]][k] = Null]
  /\ Goto(t, Label[k])
  /\ UNCHANGED count

copy_kind(t, k) ==
  /\ pc[t] = k
  /\ Share(t, k) \/ Copy(t, k) \/ CopyFails(t, k)
  /\ UNCHANGED <<child, clone_flags, mms, vfork_done, charges>>

(* copy_mm: a kernel thread has none, and gives none.  MmOnly sets no active_mm. *)
MmOnly(c, o) ==
  /\ res' = [res EXCEPT ![c].mm = o]
  /\ UNCHANGED active_mm

Mm(c, o) ==
  /\ res' = [res EXCEPT ![c].mm = o]
  /\ active_mm' = [active_mm EXCEPT ![c] = o]

copy_mm(t) ==
  LET old == res[t].mm
      p == child[t]
  IN
  /\ pc[t] = "mm"
  /\ \/ /\ old = Null
        /\ Mm(p, Null) /\ UNCHANGED <<count, mm_count>>
        /\ Goto(t, "namespace")
     \/ /\ old # Null /\ "CLONE_VM" \in clone_flags[t]
        /\ Mm(p, old) /\ Added("mm", old, 1) /\ UNCHANGED mm_count
        /\ Goto(t, "namespace")
     \/ /\ old # Null /\ "CLONE_VM" \notin clone_flags[t] /\ Free("mm") # {}
        /\ Mm(p, Some("mm")) /\ Added("mm", Some("mm"), 1)
        /\ mm_count' = [mm_count EXCEPT ![Some("mm")] = 1]
        /\ Goto(t, "namespace")
     \/ /\ old # Null /\ "CLONE_VM" \notin clone_flags[t] /\ "mm" \in Fails
        /\ Mm(p, Null) /\ UNCHANGED <<count, mm_count>>
        /\ Goto(t, Label["mm"])
  /\ UNCHANGED <<child, clone_flags, vfork_done, charges>>

(* "kernel_namespace" lets it fail only where there is no mm for exit_mm to undo. *)
copy_namespace(t) ==
  /\ pc[t] = "namespace"
  /\ \/ Goto(t, "thread")
     \/ /\ "namespace" \in Fails \/ ("kernel_namespace" \in Fails /\ res[t].mm = Null)
        /\ Goto(t, Label["namespace"])
  /\ UNCHANGED <<child, clone_flags, res, count, mms, vfork_done, charges>>

(* The child becomes visible; vfork waits for its completion. *)
ForkEnd(t) ==
  /\ pc[t] = "thread"
  /\ pc' = [pc EXCEPT ![child[t]] = "user",
                      ![t] = IF "CLONE_VFORK" \in clone_flags[t] THEN "vfork" ELSE "user"]
  /\ child' = [child EXCEPT ![t] = NoTask]
  /\ clone_flags' = [clone_flags EXCEPT ![t] = {}]
  /\ nr_threads' = nr_threads + 1
  /\ UNCHANGED <<res, count, mms, vfork_done, processes, domain_users>>

----------------------------------------------------------------------------
(* Giving back, for a task that dies and for a child that is not to be. *)

Drop(c, k) ==
  /\ res' = [res EXCEPT ![c][k] = Null]
  /\ IF res[c][k] = Null THEN UNCHANGED count ELSE Added(k, res[c][k], -1)

(* mm_release_never forgets it. *)
mm_release_never(t, where) ==
  /\ Goto(t, where)
  /\ UNCHANGED vfork_done

(* mm_release of the task that runs: the parent in vfork goes on. *)
mm_release(t, where) ==
  /\ pc' = [s \in Task |-> IF s = t THEN where ELSE IF s = vfork_done[t] THEN "user" ELSE pc[s]]
  /\ vfork_done' = [vfork_done EXCEPT ![t] = NoTask]

(* exit_mm_alone counts the last user's reference twice. *)
exit_mm_alone(t, c, where) ==
  LET o == res[c].mm IN
  /\ mm_release(t, where)
  /\ Drop(c, "mm")
  /\ mm_count' = IF o = Null THEN mm_count ELSE [mm_count EXCEPT ![o] = @ + 1]
  /\ UNCHANGED active_mm

(* __exit_mm: t runs, c gives up its mm but keeps a reference as active_mm.
   mmput gives up the reference of all users with the last of them.         *)
exit_mm(t, c, where) ==
  LET o == res[c].mm IN
  /\ mm_release(t, where)
  /\ Drop(c, "mm")
  /\ mm_count' = IF o = Null THEN mm_count
                 ELSE [mm_count EXCEPT ![o] = @ + (IF count["mm"][o] = 1 THEN 0 ELSE 1)]
  /\ UNCHANGED active_mm

(* mmdrop of active_mm, and the end of t's turn with it. *)
DropActive(t) ==
  /\ active_mm' = [active_mm EXCEPT ![t] = Null]
  /\ mm_count' = [o \in Object |-> IF o = active_mm[t] THEN mm_count[o] - 1 ELSE mm_count[o]]

(* The labels of do_fork. *)
UndoMm(t) ==
  /\ pc[t] = "undo_mm"
  /\ exit_mm(t, child[t], "undo_sig")
  /\ UNCHANGED <<child, clone_flags, charges>>

Undo(t, k, next) ==
  /\ Drop(child[t], k) /\ Goto(t, next)
  /\ UNCHANGED <<child, clone_flags, mms, vfork_done, charges>>

(* ForkFailCharged leaves the user charged. *)
ForkFailCharged(t) ==
  LET p == child[t] IN
  /\ pc[t] = "undo"
  /\ domain_users' = domain_users - 1
  /\ pc' = [pc EXCEPT ![t] = "user", ![p] = "none"]
  /\ child' = [child EXCEPT ![t] = NoTask]
  /\ clone_flags' = [clone_flags EXCEPT ![t] = {}]
  /\ res' = [res EXCEPT ![p] = [k \in All |-> Null]]
  /\ active_mm' = [active_mm EXCEPT ![p] = Null]
  /\ vfork_done' = [vfork_done EXCEPT ![p] = NoTask]
  /\ UNCHANGED <<count, mm_count, processes, nr_threads>>

ForkFail(t) ==
  LET p == child[t] IN
  /\ pc[t] = "undo"
  /\ processes' = processes - 1 /\ domain_users' = domain_users - 1
  /\ pc' = [pc EXCEPT ![t] = "user", ![p] = "none"]
  /\ child' = [child EXCEPT ![t] = NoTask]
  /\ clone_flags' = [clone_flags EXCEPT ![t] = {}]
  /\ res' = [res EXCEPT ![p] = [k \in All |-> Null]]
  /\ active_mm' = [active_mm EXCEPT ![p] = Null]
  /\ vfork_done' = [vfork_done EXCEPT ![p] = NoTask]
  /\ UNCHANGED <<count, mm_count, nr_threads>>

Unwind(t) ==
  \/ UndoMm(t)
  \/ pc[t] = "undo_sig" /\ Undo(t, "sig", "undo_fs")
  \/ pc[t] = "undo_fs" /\ Undo(t, "fs", "undo_files")
  \/ pc[t] = "undo_files" /\ Undo(t, "files", "undo")
  \/ ForkFail(t)

(* do_exit *)
ExitMm(t) ==
  /\ pc[t] = "user" /\ t # InitTask
  /\ exit_mm(t, t, "exit_files")
  /\ UNCHANGED <<child, clone_flags, charges>>

ExitKind(t) ==
  /\ \/ pc[t] = "exit_files" /\ Drop(t, "files") /\ Goto(t, "exit_fs")
     \/ pc[t] = "exit_fs" /\ Drop(t, "fs") /\ Goto(t, "exit_sig")
     \/ pc[t] = "exit_sig" /\ Drop(t, "sig") /\ Goto(t, "exit")
  /\ UNCHANGED <<child, clone_flags, mms, vfork_done, charges>>

(* put_exec_domain, exit_notify and the last schedule(). *)
ExitEnd(t) ==
  /\ pc[t] = "exit"
  /\ domain_users' = domain_users - 1
  /\ Goto(t, "zombie")
  /\ DropActive(t)
  /\ UNCHANGED <<child, clone_flags, res, count, vfork_done, processes, nr_threads>>

release_task(t) ==
  /\ pc[t] = "zombie"
  /\ processes' = processes - 1 /\ nr_threads' = nr_threads - 1
  /\ Goto(t, "none")
  /\ UNCHANGED <<child, clone_flags, res, count, mms, vfork_done, domain_users>>

(* daemonize: t becomes a kernel thread with the fs and the files of the first task. *)
DaemonizeMm(t) ==
  /\ pc[t] = "user" /\ t \in Kernel
  /\ exit_mm(t, t, "daemonize_fs")
  /\ UNCHANGED <<child, clone_flags, charges>>

Adopt(t, k) ==
  LET old == res[t][k]
      new == res[InitTask][k]
  IN /\ res' = [res EXCEPT ![t][k] = new]
     /\ count' = [count EXCEPT ![k] = [o \in Object |->
                    @[o] - (IF o = old THEN 1 ELSE 0) + (IF o = new THEN 1 ELSE 0)]]

DaemonizeKind(t) ==
  /\ \/ pc[t] = "daemonize_fs" /\ Adopt(t, "fs") /\ Goto(t, "daemonize_files")
     \/ pc[t] = "daemonize_files" /\ Adopt(t, "files") /\ Goto(t, "user")
  /\ UNCHANGED <<child, clone_flags, mms, vfork_done, charges>>

(* schedule() of kernel/sched.c: a task without an mm borrows the one in use when
   it gets the processor, and drops it with the processor.                       *)
Lazy(t) == pc[t] \notin {"none", "embryo", "zombie"} /\ res[t].mm = Null

SwitchFrom(t) ==
  /\ Lazy(t) /\ active_mm[t] # Null
  /\ DropActive(t)
  /\ UNCHANGED <<call, res, count, vfork_done, charges>>

SwitchTo(t, o) ==
  /\ Lazy(t) /\ active_mm[t] = Null
  /\ mm_count[o] > 0
  /\ active_mm' = [active_mm EXCEPT ![t] = o]
  /\ mm_count' = [mm_count EXCEPT ![o] = @ + 1]
  /\ UNCHANGED <<call, res, count, vfork_done, charges>>

----------------------------------------------------------------------------
(* Process 1 alone, with the first structure of each kind. *)
First == CHOOSE o \in Object : TRUE

Init ==
  /\ pc = [t \in Task |-> IF t = InitTask THEN "user" ELSE "none"]
  /\ child = [t \in Task |-> NoTask] /\ clone_flags = [t \in Task |-> {}]
  /\ res = [t \in Task |-> [k \in All |-> IF t = InitTask THEN First ELSE Null]]
  /\ active_mm = [t \in Task |-> IF t = InitTask THEN First ELSE Null]
  /\ count = [k \in All |-> [o \in Object |-> IF o = First THEN 1 ELSE 0]]
  /\ mm_count = [o \in Object |-> IF o = First THEN 1 ELSE 0]
  /\ vfork_done = [t \in Task |-> NoTask]
  /\ processes = 1 /\ domain_users = 1 /\ nr_threads = 1

Step(t) ==
  \/ \E c \in Task, flags \in Flags : ForkBegin(t, c, flags)
  \/ \E k \in Kinds : copy_kind(t, k)
  \/ copy_mm(t) \/ copy_namespace(t) \/ ForkEnd(t) \/ Unwind(t)
  \/ ExitMm(t) \/ ExitKind(t) \/ ExitEnd(t) \/ release_task(t)
  \/ DaemonizeMm(t) \/ DaemonizeKind(t)
  \/ SwitchFrom(t) \/ \E o \in Object : SwitchTo(t, o)

Next == \E t \in Task : Step(t)

Spec == Init /\ [][Next]_vars

----------------------------------------------------------------------------
Steps == Kinds \cup {"mm", "namespace", "thread", "undo_mm", "undo_sig", "undo_fs",
                     "undo_files", "undo"}

(* Types; the BUG_ON of __exit_mm; a count is never negative. *)
TypeOK ==
  /\ pc \in [Task -> Steps \cup {"none", "embryo", "user", "vfork", "zombie", "exit_files",
                                 "exit_fs", "exit_sig", "exit", "daemonize_fs",
                                 "daemonize_files"}]
  /\ {child, vfork_done} \subseteq [Task -> Task \cup {NoTask}]
  /\ clone_flags \in [Task -> SUBSET CloneFlags]
  /\ res \in [Task -> [All -> Object \cup {Null}]]
  /\ active_mm \in [Task -> Object \cup {Null}]
  /\ count \in [All -> [Object -> Nat]] /\ mm_count \in [Object -> Nat]
  /\ {processes, domain_users, nr_threads} \subseteq Nat
  /\ \A t \in Task : pc[t] # "embryo" /\ res[t].mm # Null => active_mm[t] = res[t].mm

(* What a child holds of its own when its parent is at a step of do_fork. *)
Given(step) ==
  CASE step \in {"files", "undo"} -> {}
    [] step \in {"fs", "undo_files"} -> {"files"}
    [] step \in {"sig", "undo_fs"} -> {"files", "fs"}
    [] step \in {"mm", "undo_sig"} -> Kinds
    [] OTHER -> All

Holders(k, o) ==
  {t \in Task : /\ res[t][k] = o
                /\ \A p \in Task : child[p] = t => k \in Given(pc[p])}

(* Every count is the number of task_structs that hold the structure, between any
   two steps of forks, failed forks and exits: none is freed in use, none leaks.  *)
CountsAgree == \A k \in Kinds, o \in Object : count[k][o] = Cardinality(Holders(k, o))

(* mm_users counts the users with user space, mm_count the references to the
   mm_struct, all users together counting as one.                              *)
Borrowers(o) == {t \in Task : Lazy(t) /\ active_mm[t] = o}

MmCounted ==
  \A o \in Object :
    /\ count["mm"][o] = Cardinality(Holders("mm", o))
    /\ mm_count[o] = Cardinality(Borrowers(o)) + (IF Holders("mm", o) = {} THEN 0 ELSE 1)

(* The limits are kept by true numbers: a user is charged for every task_struct
   from its copy to its release, the format for every task that still runs.     *)
ChargesAgree ==
  LET made == {t \in Task : pc[t] # "none"}
      dead == {t \in Task : pc[t] = "zombie"}
      embryos == {t \in Task : pc[t] = "embryo"}
  IN /\ processes = Cardinality(made)
     /\ domain_users = Cardinality(made \ dead)
     /\ nr_threads = Cardinality(made \ embryos)

(* A parent in vfork sleeps until the very child it made has given up the memory
   it borrowed, whatever that child forks in the meantime.                        *)
VforkWaits ==
  [][\A t \in Task : pc[t] = "vfork" /\ pc'[t] # "vfork" =>
       \A c \in Task : vfork_done[c] = t => res'[c].mm = Null]_vars

(* And it does not sleep for ever: a child that has not begun to exit still holds
   its completion.                                                              *)
VforkEnds ==
  \A t \in Task : pc[t] = "vfork" =>
    \E c \in Task : vfork_done[c] = t /\ pc[c] \in Steps \cup {"user", "vfork"}

(* max_threads bounds the threads there are: the kernel lock is said to keep
   nr_threads from growing between the test and the end of do_fork.           *)
ThreadsBounded == nr_threads <= max_threads
============================================================================
