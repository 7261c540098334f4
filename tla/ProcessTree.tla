---------------------------- MODULE ProcessTree ----------------------------
(***************************************************************************)
(* The family of a process: the task list, the sibling lists and the       *)
(* parents, through fork, exit, reparenting, tracing and a wait4 that      *)
(* sleeps.                                                                 *)
(*                                                                         *)
(* The kernel is not preemptible: an action is the code between two points *)
(* where the task may sleep, or the whole critical section of              *)
(* tasklist_lock if there is none.                                         *)
(***************************************************************************)
EXTENDS Integers, FiniteSets

CONSTANTS
  Task,      \* task_struct addresses, init_task and child_reaper among them
  Swapper,   \* init_task, the head of the task list
  Reaper,    \* child_reaper, process 1
  NoTask,    \* a null pointer
  Options,   \* what wait4 is asked for: subset of WaitOptions
  Signals,   \* the exit signals of clone: subset of ExitSignals
  Flags,     \* the sets of clone flags in use
  Traceable, \* the tasks that may be traced
  Kernel,    \* the tasks that may be kernel threads: those call reparent_to_init
  Faulting   \* tasks whose put_user may sleep though they have threads

WaitOptions == {"normal", "__WCLONE", "__WALL"}
ExitSignals == {"SIGCHLD", "other"}
CloneFlags == {"CLONE_PARENT", "CLONE_THREAD", "CLONE_PTRACE"}

ASSUME TaskAssumption == /\ IsFiniteSet(Task) /\ {Swapper, Reaper} \subseteq Task /\ Swapper # Reaper
                         /\ NoTask \notin Task
ASSUME UseAssumption == /\ Options \subseteq WaitOptions /\ Signals \subseteq ExitSignals
                        /\ Flags \subseteq SUBSET CloneFlags
                        /\ Traceable \cup Kernel \subseteq Task \ {Swapper, Reaper}
                        /\ Faulting \subseteq Task

VARIABLES
  state,       \* task_struct.state; "FREE" is memory that holds no task_struct
  link,        \* next_task, prev_task, p_pptr, p_cptr, p_ysptr, p_osptr of each task
  p_opptr,     \* the original parent
  next_thread, \* the ring of the thread group
  exit_signal,
  ptrace,      \* PT_PTRACED
  exiting,     \* PF_EXITING
  pc,          \* where in which call the task is
  option,      \* wait4: its options
  peer         \* wait4: the zombie it found; fork: the child

family == <<link, p_opptr, next_thread>>
flags == <<exit_signal, ptrace, exiting>>
local == <<pc, option, peer>>
vars == <<state, family, flags, local>>

Fields == {"next_task", "prev_task", "p_pptr", "p_cptr", "p_ysptr", "p_osptr"}
NoLinks == [field \in Fields |-> NoTask]

Listed == {t \in Task : state[t] \notin {"FREE", "TASK_UNINTERRUPTIBLE"}}
Live == {t \in Listed : state[t] # "TASK_ZOMBIE"}
Slots == Task \ {Swapper, Reaper}

----------------------------------------------------------------------------
(* The link macros, as functions of the links L. *)

(* TakeFromSiblingsOnly forgets the pointer of the younger sibling. *)
TakeFromSiblingsOnly(L, p) ==
  LET old == L[p].p_osptr
      young == L[p].p_ysptr
  IN IF young # NoTask THEN [L EXCEPT ![young].p_osptr = old]
     ELSE [L EXCEPT ![L[p].p_pptr].p_cptr = old]

TakeFromSiblings(L, p) ==
  LET old == L[p].p_osptr
      young == L[p].p_ysptr
      L1 == IF old = NoTask THEN L ELSE [L EXCEPT ![old].p_ysptr = young]
  IN IF young # NoTask THEN [L1 EXCEPT ![young].p_osptr = old]
     ELSE [L1 EXCEPT ![L[p].p_pptr].p_cptr = old]

AddToSiblings(L, p) ==
  LET q == L[p].p_pptr
      old == L[q].p_cptr
      L1 == IF old = NoTask THEN L ELSE [L EXCEPT ![old].p_ysptr = p]
  IN [L1 EXCEPT ![p].p_ysptr = NoTask, ![p].p_osptr = old, ![q].p_cptr = p]

(* UnlinkForwards mends the list in one direction only. *)
UnlinkForwards(L, p) ==
  TakeFromSiblings([L EXCEPT ![L[p].prev_task].next_task = L[p].next_task], p)

REMOVE_LINKS(L, p) ==
  TakeFromSiblings([L EXCEPT ![L[p].next_task].prev_task = L[p].prev_task,
                             ![L[p].prev_task].next_task = L[p].next_task], p)

SET_LINKS(L, p) ==
  LET last == L[Swapper].prev_task
  IN AddToSiblings([L EXCEPT ![p].next_task = Swapper, ![p].prev_task = last,
                             ![last].next_task = p, ![Swapper].prev_task = p], p)

(* Unlink p, make q its parent, link it again. *)
Moved(L, p, q) == SET_LINKS([REMOVE_LINKS(L, p) EXCEPT ![p].p_pptr = q], p)

(* The tasks that a walk from x along the pointers `next' meets. *)
Met(x, next) ==
  LET met[n \in 0..Cardinality(Task)] ==
        ({x} \cup (IF n = 0 THEN {} ELSE {next[p] : p \in met[n - 1]})) \ {NoTask}
  IN met[Cardinality(Task)]

(* The children of q, as p_cptr and p_osptr give them. *)
Children(q) == Met(link[q].p_cptr, [p \in Task |-> link[p].p_osptr])

(* The thread group of t, from t round the ring. *)
Threads(t) == Met(t, next_thread)

----------------------------------------------------------------------------
(* do_notify_parent wakes every thread of the parent that sleeps in wait4. *)

Sleeping(t) == pc[t] = "wait" /\ state[t] = "TASK_INTERRUPTIBLE"

Woken(s, group) ==
  [t \in Task |-> IF t \in group /\ pc[t] = "wait" /\ s[t] = "TASK_INTERRUPTIBLE"
                  THEN "TASK_RUNNING" ELSE s[t]]

(* NotifyOne wakes the parent's own queue only. *)
NotifyOne(s, q) == Woken(s, {q})

Notify(s, q) == Woken(s, Threads(q))

CanRun(t) == state[t] = "TASK_RUNNING"
Enter(t) == CanRun(t) /\ pc[t] = "user"

Goto(t, where) == pc' = [pc EXCEPT ![t] = where]

----------------------------------------------------------------------------
(* do_fork: the copy of the parent, then, after calls that may sleep, the end
   that makes the child visible.  Process 1 has no use for CLONE_PARENT: its
   parent, the swapper, waits for nobody.                                    *)

ForkBegin(t, c, clone_flags) ==
  /\ Enter(t)
  /\ state[c] = "FREE"
  /\ state' = [state EXCEPT ![c] = "TASK_UNINTERRUPTIBLE"]
  /\ ptrace' = [ptrace EXCEPT ![c] = ptrace[t] /\ "CLONE_PTRACE" \in clone_flags]
  /\ peer' = [peer EXCEPT ![t] = c]
  /\ Goto(t, "fork")
  /\ UNCHANGED <<family, exit_signal, exiting, option>>

ForkFail(t) ==
  /\ CanRun(t) /\ pc[t] = "fork"
  /\ state' = [state EXCEPT ![peer[t]] = "FREE"]
  /\ ptrace' = [ptrace EXCEPT ![peer[t]] = FALSE]
  /\ peer' = [peer EXCEPT ![t] = NoTask]
  /\ Goto(t, "user")
  /\ UNCHANGED <<family, exit_signal, exiting, option>>

ChildParent(t, c, clone_flags) ==
  IF "CLONE_PARENT" \in clone_flags \/ ptrace[c] THEN link[t].p_pptr ELSE t

ForkEnd(t, clone_flags, signal) ==
  LET p == peer[t] IN
  /\ CanRun(t) /\ pc[t] = "fork"
  /\ "CLONE_PARENT" \in clone_flags => p_opptr[t] # Swapper
  /\ link' = SET_LINKS([link EXCEPT ![p] =
                [NoLinks EXCEPT !.p_pptr = ChildParent(t, p, clone_flags)]], p)
  /\ p_opptr' = [p_opptr EXCEPT ![p] =
                   IF "CLONE_PARENT" \in clone_flags THEN p_opptr[t] ELSE t]
  /\ next_thread' = IF "CLONE_THREAD" \in clone_flags
                    THEN [next_thread EXCEPT ![p] = next_thread[t], ![t] = p]
                    ELSE [next_thread EXCEPT ![p] = p]
  /\ exit_signal' = [exit_signal EXCEPT ![p] = signal]
  /\ state' = [state EXCEPT ![p] = "TASK_RUNNING"]
  /\ pc' = [pc EXCEPT ![t] = "user", ![p] = "user"]
  /\ peer' = [peer EXCEPT ![t] = NoTask]
  /\ UNCHANGED <<ptrace, exiting, option>>

----------------------------------------------------------------------------
(* do_exit, up to exit_notify; the calls in between may sleep. *)

ExitBegin(t) ==
  /\ Enter(t) /\ t \in Slots
  /\ exiting' = [exiting EXCEPT ![t] = TRUE]
  /\ Goto(t, "exit")
  /\ UNCHANGED <<state, family, exit_signal, ptrace, option, peer>>

(* The next thread of the group that is not exiting, else process 1: the walk stops
   at it.  AnyThread takes the next one, though it may be exiting too.              *)
AnyThread(father) ==
  IF next_thread[father] = father THEN Reaper ELSE next_thread[father]

NewParent(father) ==
  LET on == [p \in Task |-> IF exiting[p] THEN next_thread[p] ELSE NoTask]
      able == {p \in Met(next_thread[father], on) : ~exiting[p]}
  IN IF able = {} THEN Reaper ELSE CHOOSE p \in able : TRUE

Orphans(father) == {p \in Listed : p_opptr[p] = father}

(* The original parents from now on. *)
forget_original_parent(father) ==
  LET reaper == NewParent(father)
  IN [p \in Task |-> IF p \notin Orphans(father) THEN p_opptr[p]
                     ELSE IF p = reaper THEN Reaper ELSE reaper]

(* HandOverSilently tells nobody of a zombie. *)
HandOverSilently(t, parent, f) ==
  LET p == f.link[t].p_cptr
  IN IF p = NoTask THEN f
     ELSE [link |-> AddToSiblings([f.link EXCEPT ![t].p_cptr = f.link[p].p_osptr,
                                                 ![p].p_pptr = parent[p]], p),
           state |-> f.state]

(* One turn of the loop over the children of t: the youngest goes to its original
   parent, who is told if it is a zombie.                                        *)
HandOver(t, parent, f) ==
  LET p == f.link[t].p_cptr
  IN IF p = NoTask THEN f
     ELSE [link |-> AddToSiblings([f.link EXCEPT ![t].p_cptr = f.link[p].p_osptr,
                                                 ![p].p_pptr = parent[p]], p),
           state |-> IF f.state[p] = "TASK_ZOMBIE" THEN Notify(f.state, parent[p])
                     ELSE f.state]

HandedOver(t, parent, begin) ==
  LET f[n \in 0..Cardinality(Task)] == IF n = 0 THEN begin ELSE HandOver(t, parent, f[n - 1])
  IN f[Cardinality(Task)]

exit_notify(t) ==
  /\ CanRun(t) /\ pc[t] = "exit"
  /\ \E own \in {exit_signal[t], "SIGCHLD"} :
       exit_signal' = [p \in Task |-> IF p \in Orphans(t) THEN "SIGCHLD"
                                      ELSE IF p = t THEN own ELSE exit_signal[p]]
  /\ LET told == Notify([state EXCEPT ![t] = "TASK_ZOMBIE"], link[t].p_pptr)
         end == HandedOver(t, forget_original_parent(t), [link |-> link, state |-> told])
     IN link' = end.link /\ state' = end.state
  /\ p_opptr' = forget_original_parent(t)
  /\ ptrace' = [p \in Task |-> ptrace[p] /\ p \notin Children(t)]
  /\ Goto(t, "none")
  /\ UNCHANGED <<next_thread, exiting, option, peer>>

(* For a kernel thread that wants process 1 to clean up after it. *)
reparent_to_init(t) ==
  /\ Enter(t) /\ t \in Kernel
  /\ link' = Moved(link, t, Reaper)
  /\ p_opptr' = [p_opptr EXCEPT ![t] = Reaper]
  /\ exit_signal' = [exit_signal EXCEPT ![t] = "SIGCHLD"]
  /\ ptrace' = [ptrace EXCEPT ![t] = FALSE]
  /\ UNCHANGED <<state, next_thread, exiting, local>>

----------------------------------------------------------------------------
(* sys_wait4 *)

(* Which children an option asks for, by the signal they exit with. *)
Asked(p, options) ==
  options = "__WALL" \/ (exit_signal[p] # "SIGCHLD") = (options = "__WCLONE")

(* What the scan meets: the caller's children and those of the other threads. *)
Scanned(t, options) ==
  {p \in UNION {Children(s) : s \in Threads(t)} : Asked(p, options)}

Zombies(t, options) == {p \in Scanned(t, options) : state[p] = "TASK_ZOMBIE"}

(* The scan runs at entry and after each wake-up. *)
Scans(t, options) ==
  /\ CanRun(t)
  /\ pc[t] = "user" \/ (pc[t] = "wait" /\ options = option[t])

(* ReturnOnly leaves the call's locals behind. *)
ReturnOnly(t) == Goto(t, "user") /\ UNCHANGED <<option, peer>>

Return(t) ==
  /\ Goto(t, "user")
  /\ option' = [option EXCEPT ![t] = "normal"]
  /\ peer' = [peer EXCEPT ![t] = NoTask]

(* release_task; the ring loses p too. *)
release_task(t, p) ==
  /\ link' = [REMOVE_LINKS(link, p) EXCEPT ![p] = NoLinks]
  /\ next_thread' = [q \in Task |-> IF q = p THEN NoTask
                                    ELSE IF next_thread[q] = p THEN next_thread[p]
                                    ELSE next_thread[q]]
  /\ p_opptr' = [p_opptr EXCEPT ![p] = NoTask]
  /\ state' = [state EXCEPT ![p] = "FREE", ![t] = "TASK_RUNNING"]
  /\ exit_signal' = [exit_signal EXCEPT ![p] = "SIGCHLD"]
  /\ exiting' = [exiting EXCEPT ![p] = FALSE]
  /\ ptrace' = [ptrace EXCEPT ![p] = FALSE]

(* The tracer reaps a zombie that is not his child: the parent gets it back. *)
GiveBack(t, p) ==
  /\ link' = Moved(link, p, p_opptr[p])
  /\ state' = Notify(state, p_opptr[p])
  /\ UNCHANGED <<p_opptr, next_thread, flags>>

Reap(t, p) ==
  /\ IF p_opptr[p] # link[p].p_pptr THEN GiveBack(t, p) ELSE release_task(t, p)
  /\ Return(t)

(* After the lock is dropped put_user may sleep.  A task with threads is left out,
   its threads could meet the same zombie: AnyTaskMayFault is what the code does. *)
AnyTaskMayFault(t) == t \in Task

MayFault(t) == next_thread[t] = t \/ t \in Faulting

WaitReap(t, options) ==
  /\ Scans(t, options)
  /\ \E p \in Zombies(t, options) : Reap(t, p)

(* put_user sleeps, the lock being dropped. *)
WaitFault(t, options) ==
  /\ Scans(t, options) /\ MayFault(t)
  /\ \E p \in Zombies(t, options) : peer' = [peer EXCEPT ![t] = p]
  /\ Goto(t, "reap")
  /\ option' = [option EXCEPT ![t] = "normal"]
  /\ UNCHANGED <<state, family, flags>>

WaitEnd(t) ==
  /\ CanRun(t) /\ pc[t] = "reap"
  /\ \/ Reap(t, peer[t])
     \/ Return(t) /\ UNCHANGED <<state, family, flags>>   \* put_user failed

WaitSleep(t, options) ==
  /\ Scans(t, options)
  /\ Scanned(t, options) # {} /\ Zombies(t, options) = {}
  /\ state' = [state EXCEPT ![t] = "TASK_INTERRUPTIBLE"]
  /\ Goto(t, "wait")
  /\ option' = [option EXCEPT ![t] = options]
  /\ UNCHANGED <<family, flags, peer>>

(* -ECHILD, or -ERESTARTSYS after a signal. *)
WaitReturn(t) ==
  /\ CanRun(t) /\ pc[t] = "wait"
  /\ Zombies(t, option[t]) = {}
  /\ Return(t)
  /\ UNCHANGED <<state, family, flags>>

----------------------------------------------------------------------------
(* From outside: a signal, and ptrace of kernel/ptrace.c. *)

Signal(t) ==
  /\ Sleeping(t)
  /\ state' = [state EXCEPT ![t] = "TASK_RUNNING"]
  /\ UNCHANGED <<family, flags, local>>

Attach(t, c) ==
  /\ Enter(t)
  /\ c \in Traceable \cap Live /\ c # t
  /\ ~ptrace[c] /\ ~exiting[c]
  /\ ptrace' = [ptrace EXCEPT ![c] = TRUE]
  /\ link' = IF link[c].p_pptr = t THEN link ELSE Moved(link, c, t)
  /\ UNCHANGED <<state, p_opptr, next_thread, exit_signal, exiting, local>>

Detach(t, c) ==
  /\ Enter(t)
  /\ c \in Live /\ ptrace[c] /\ link[c].p_pptr = t
  /\ ptrace' = [ptrace EXCEPT ![c] = FALSE]
  /\ link' = Moved(link, c, p_opptr[c])
  /\ UNCHANGED <<state, p_opptr, next_thread, exit_signal, exiting, local>>

----------------------------------------------------------------------------
Init ==
  /\ state = [t \in Task |-> IF t \in Slots THEN "FREE" ELSE "TASK_RUNNING"]
  /\ link = SET_LINKS([[t \in Task |-> NoLinks] EXCEPT
               ![Swapper] = [NoLinks EXCEPT !.next_task = Swapper, !.prev_task = Swapper,
                                            !.p_pptr = Swapper],
               ![Reaper].p_pptr = Swapper], Reaper)
  /\ p_opptr = [t \in Task |-> IF t \in Slots THEN NoTask ELSE Swapper]
  /\ next_thread = [t \in Task |-> IF t \in Slots THEN NoTask ELSE t]
  /\ exit_signal = [t \in Task |-> "SIGCHLD"]
  /\ ptrace = [t \in Task |-> FALSE]
  /\ exiting = [t \in Task |-> FALSE]
  /\ pc = [t \in Task |-> IF t = Reaper THEN "user" ELSE "none"]
  /\ option = [t \in Task |-> "normal"]
  /\ peer = [t \in Task |-> NoTask]

Step(t) ==
  \/ \E clone_flags \in Flags :
       \/ \E c \in Task : ForkBegin(t, c, clone_flags)
       \/ \E signal \in Signals : ForkEnd(t, clone_flags, signal)
  \/ ForkFail(t)
  \/ ExitBegin(t) \/ exit_notify(t) \/ reparent_to_init(t)
  \/ \E options \in Options : \/ WaitReap(t, options) \/ WaitFault(t, options)
                               \/ WaitSleep(t, options)
  \/ WaitEnd(t) \/ WaitReturn(t) \/ Signal(t)
  \/ \E c \in Task : Attach(t, c) \/ Detach(t, c)

Next == \E t \in Task : Step(t)

Spec == Init /\ [][Next]_vars

----------------------------------------------------------------------------
(* Types; who is linked has a parent; a call holds a task only while it runs. *)
TypeOK ==
  /\ state \in [Task -> {"FREE", "TASK_UNINTERRUPTIBLE", "TASK_RUNNING",
                         "TASK_INTERRUPTIBLE", "TASK_ZOMBIE"}]
  /\ link \in [Task -> [Fields -> Task \cup {NoTask}]]
  /\ {p_opptr, next_thread, peer} \subseteq [Task -> Task \cup {NoTask}]
  /\ exit_signal \in [Task -> ExitSignals]
  /\ {ptrace, exiting} \subseteq [Task -> BOOLEAN]
  /\ pc \in [Task -> {"none", "user", "fork", "exit", "wait", "reap"}]
  /\ option \in [Task -> WaitOptions]
  /\ \A t \in Task : /\ (p_opptr[t] = NoTask) = (t \notin Listed)
                     /\ (peer[t] = NoTask) = (pc[t] \notin {"fork", "reap"})

(* The sibling list from p_cptr holds exactly the tasks whose p_pptr points
   there, each once, and p_ysptr leads back over it: so wait4 meets every
   child and exit_notify hands every child over.                             *)
SiblingsAgree ==
  \A q \in Listed :
    /\ Children(q) = {p \in Listed \ {Swapper} : link[p].p_pptr = q}
    /\ \A p \in Children(q) :
         /\ (link[p].p_ysptr = NoTask) = (link[q].p_cptr = p)
         /\ link[p].p_osptr # NoTask => link[link[p].p_osptr].p_ysptr = p

(* for_each_task meets every task that is linked, and prev_task is its inverse:
   forget_original_parent and get_pid rest on it.                              *)
TaskListWhole ==
  /\ Met(Swapper, [p \in Task |-> link[p].next_task]) = Listed
  /\ \A p \in Listed : link[link[p].next_task].prev_task = p

(* Nobody is the child, original or traced, of a task that has announced its own
   death, nor of itself: a zombie always has a parent that can still wait for it. *)
ParentsLive ==
  \A p \in Listed \ {Swapper} : {p_opptr[p], link[p].p_pptr} \subseteq Live \ {p}

(* No exit is missed: a task falls asleep in wait4 only if no zombie it asks for is
   there, neither its own nor of another thread, and sleeps through no step that brings
   one, whether the zombie dies or is handed over then.  One step is left out: the
   original parent of its zombie dies, and the new exit signal SIGCHLD makes it one that
   a plain wait4 asks for; only the new original parent is told.                       *)
NoExitMissed ==
  [][\A t \in Task : Sleeping(t)' =>
       \A p \in Zombies(t, option[t])' :
         /\ Sleeping(t)
         /\ \/ p \in Zombies(t, option[t])
            \/ p \in Zombies(t, "__WALL") /\ exit_signal'[p] # exit_signal[p]]_vars

(* The zombie a task is about to release is still there and still his, though
   he slept in put_user after he found it and dropped tasklist_lock.           *)
ReapedOnce ==
  \A t \in Task : pc[t] = "reap" =>
    /\ state[peer[t]] = "TASK_ZOMBIE"
    /\ link[peer[t]].p_pptr \in Threads(t)
    /\ \A s \in Task \ {t} : peer[s] # peer[t]
============================================================================
