----------------------------- MODULE MpiKernel -----------------------------
(***************************************************************************)
(* The MPI-like message system calls of HW_2/submit (register, send,       *)
(* receive, poll) together with the parts of fork, exit and wait4 that     *)
(* create, copy and destroy their state.                                   *)
(*                                                                         *)
(* The kernel is a uniprocessor 2.4 kernel: a task in the kernel keeps the *)
(* processor until it calls something that may sleep.  So an action is the *)
(* code between two such calls, and after it the task either still holds   *)
(* `cpu' or has let another task in, as MaySleep says of the call.  Timer  *)
(* and signal are interrupts and need no processor.                        *)
(***************************************************************************)
EXTENDS Integers, Sequences, FiniteSets

CONSTANTS
  Task,         \* task_struct addresses: the memory fork takes and release_task gives back
  InitTask,     \* the task of process 1, child_reaper
  NoTask,       \* a null task_struct pointer
  Pids,         \* what get_pid hands out
  MaxMsgs,      \* bound: messages allocated in one behaviour
  HZ,           \* timer interrupts in a second
  IntHalf,      \* an int is in -IntHalf..(IntHalf - 1)
  PollRequests, \* the arrays of pids a caller may pass to poll
  Timeouts,     \* the timeouts (seconds) a caller may pass to poll
  Signalled,    \* the tasks that may get a signal while they sleep
  MaySleep      \* the calls that may give up the processor

SleepingCalls == {"kmalloc", "copy_from_user", "copy_to_user", "copy_mm"}

ASSUME TaskAssumption == InitTask \in Task /\ NoTask \notin Task
ASSUME PidAssumption == Pids \subseteq Nat \ {0} /\ 1 \in Pids
ASSUME BoundAssumption == MaxMsgs \in Nat
ASSUME PollAssumption == PollRequests \subseteq Seq(Pids) \ {<< >>}
ASSUME TimeoutAssumption == /\ HZ \in Nat \ {0} /\ IntHalf \in Nat \ {0}
                            /\ Timeouts \subseteq 0..(IntHalf - 1)
ASSUME SleepAssumption == MaySleep \subseteq SleepingCalls

VARIABLES
  state,          \* task_struct.state; "FREE" is memory that holds no task_struct
  pid,            \* task_struct.pid
  p_opptr,        \* task_struct.p_opptr, the parent
  comm_on,        \* task_struct.comm_on
  comm_channel,   \* task_struct.comm_channel, oldest message first
  poll_list,      \* task_struct.poll_list; << >> is NULL
  poll_list_size, \* task_struct.poll_list_size
  timer,          \* the timer of schedule_timeout
  heap,           \* blocks our_kmalloc returned and our_kfree did not get back
  pc,             \* where in which system call the task is
  peer,           \* send: `receiver'; fork: `p'
  held,           \* send: `new_msg'; receive: `msg'
  entries,        \* poll: `poll_pids_ker'
  sent,           \* how many messages were allocated
  cpu             \* the task inside the kernel, or NoTask

local == <<peer, held, entries>>
process == <<pid, p_opptr, comm_on>>
polling == <<poll_list, poll_list_size, timer>>
vars == <<state, process, comm_channel, polling, heap, pc, local, sent, cpu>>

(* message_t.  id and addressee are history: the order of allocation and the
   pid the sender named.                                                    *)
Message == [id : 1..MaxMsgs, sender_pid : Pids, addressee : Pids]
NoMsg == [id |-> 0, sender_pid |-> 0, addressee |-> 0]

Entry == [pid : Pids, incoming : BOOLEAN]

(* The blocks of our_kmalloc, named by what they hold. *)
MessageBlocks(m) == {<<"message_t", m.id>>, <<"data", m.id>>}
EntriesBlock(t) == <<"poll_pids_ker", t>>
PollListBlock(t) == <<"poll_list", t>>

SendPcs == {"send_data", "send_link"}
PollPcs == {"poll_scan", "poll_list", "poll_sleep", "poll_out"}
Pcs == {"none", "user", "recv_copy", "fork_copy"} \cup SendPcs \cup PollPcs

----------------------------------------------------------------------------
(* Tasks. *)

(* Tasks SET_LINKS and hash_pid made visible and release_task did not remove. *)
Hashed == {t \in Task : state[t] \notin {"FREE", "TASK_UNINTERRUPTIBLE"}}

find_task_by_pid(p) == {t \in Hashed : pid[t] = p}

(* get_pid, under the assumption that the counter does not go once round all
   pids while a fork sleeps: the pid of no task_struct in memory.  (Unchecked,
   do_fork would also take the 0 that says there is none.)                   *)
get_pidUnchecked == (Pids \ {pid[t] : t \in {u \in Task : state[u] # "FREE"}}) \cup {0}
get_pid == Pids \ {pid[t] : t \in {u \in Task : state[u] # "FREE"}}

CanRun(t) == state[t] = "TASK_RUNNING" /\ cpu \in {t, NoTask}

Enter(t) == CanRun(t) /\ cpu = NoTask /\ pc[t] = "user"

(* t calls functions that may sleep, or returns to user mode. *)
Calls(t, functions) == cpu' = IF functions \cap MaySleep = {} THEN t ELSE NoTask
Return(t) == /\ pc' = [pc EXCEPT ![t] = "user"]
             /\ cpu' = NoTask

----------------------------------------------------------------------------
(* sys_mpi_register.  (RegisterAgain lacks the early return of a registered task.) *)

RegisterAgain(t) ==
  /\ Enter(t)
  /\ comm_on' = [comm_on EXCEPT ![t] = TRUE]
  /\ comm_channel' = [comm_channel EXCEPT ![t] = << >>]
  /\ UNCHANGED <<state, pid, p_opptr, polling, heap, pc, local, sent, cpu>>

Register(t) ==
  /\ Enter(t)
  /\ ~comm_on[t]
  /\ comm_on' = [comm_on EXCEPT ![t] = TRUE]
  /\ comm_channel' = [comm_channel EXCEPT ![t] = << >>]
  /\ UNCHANGED <<state, pid, p_opptr, polling, heap, pc, local, sent, cpu>>

----------------------------------------------------------------------------
(* sys_mpi_send: the failed checks change nothing; the rest is three steps,
   cut at the allocations and at copy_from_user.                             *)

SendBegin(t, p) ==
  /\ Enter(t)
  /\ sent < MaxMsgs
  /\ \E receiver \in find_task_by_pid(p) :
       /\ comm_on[receiver]
       /\ comm_on[t]
       /\ peer' = [peer EXCEPT ![t] = receiver]
  /\ sent' = sent + 1
  /\ held' = [held EXCEPT ![t] = [id |-> sent + 1, sender_pid |-> pid[t], addressee |-> p]]
  /\ heap' = heap \cup {<<"message_t", sent + 1>>}
  /\ pc' = [pc EXCEPT ![t] = "send_data"]
  /\ Calls(t, {"kmalloc"})
  /\ UNCHANGED <<state, process, comm_channel, polling, entries>>

SendAllocData(t) ==
  /\ CanRun(t)
  /\ pc[t] = "send_data"
  /\ heap' = heap \cup {<<"data", held[t].id>>}
  /\ pc' = [pc EXCEPT ![t] = "send_link"]
  /\ Calls(t, {"kmalloc", "copy_from_user"})
  /\ UNCHANGED <<state, process, comm_channel, polling, local, sent>>

SendNoMemory(t) ==
  /\ CanRun(t)
  /\ pc[t] = "send_data"
  /\ heap' = heap \ {<<"message_t", held[t].id>>}
  /\ held' = [held EXCEPT ![t] = NoMsg]
  /\ peer' = [peer EXCEPT ![t] = NoTask]
  /\ Return(t)
  /\ UNCHANGED <<state, process, comm_channel, polling, entries, sent>>

SendFault(t) ==
  /\ CanRun(t)
  /\ pc[t] = "send_link"
  /\ heap' = heap \ MessageBlocks(held[t])
  /\ held' = [held EXCEPT ![t] = NoMsg]
  /\ peer' = [peer EXCEPT ![t] = NoTask]
  /\ Return(t)
  /\ UNCHANGED <<state, process, comm_channel, polling, entries, sent>>

(* The receiver found before the sleeps is used without another look.  In
   memory that holds no registered task the link is a write nobody reads.
   (LinkIntoHead is list_add for list_add_tail.)                            *)
HasQueue(receiver) == state[receiver] # "FREE" /\ comm_on[receiver]

LinkIntoHead(receiver, m) ==
  IF HasQueue(receiver)
  THEN [comm_channel EXCEPT ![receiver] = <<m>> \o @]
  ELSE comm_channel

LinkInto(receiver, m) ==
  IF HasQueue(receiver)
  THEN [comm_channel EXCEPT ![receiver] = Append(@, m)]
  ELSE comm_channel

(* The wake-up loop.  (First stops after one entry; Any does not compare pids.) *)
PollsForFirst(receiver, p) ==
  poll_list[receiver] # << >> /\ poll_list[receiver][1] = p

PollsForAny(receiver, p) == poll_list[receiver] # << >>

PollsFor(receiver, p) ==
  /\ poll_list[receiver] # << >>
  /\ \E i \in 1..poll_list_size[receiver] : poll_list[receiver][i] = p

WakeUp(receiver, p) ==
  IF PollsFor(receiver, p)
  THEN [state EXCEPT ![receiver] = "TASK_RUNNING"]
  ELSE state

SendLink(t) ==
  /\ CanRun(t)
  /\ pc[t] = "send_link"
  /\ comm_channel' = LinkInto(peer[t], held[t])
  /\ state' = WakeUp(peer[t], pid[t])
  /\ held' = [held EXCEPT ![t] = NoMsg]
  /\ peer' = [peer EXCEPT ![t] = NoTask]
  /\ Return(t)
  /\ UNCHANGED <<process, polling, heap, entries, sent>>

----------------------------------------------------------------------------
(* sys_mpi_receive: the message is found, copied out, and only then unlinked. *)

From(queue, p) == {i \in DOMAIN queue : queue[i].sender_pid = p}

IsFirstFrom(queue, p, i) == /\ i \in From(queue, p)
                            /\ \A j \in From(queue, p) : i <= j

(* list_del of the entry at position i.  (StillLinked forgets it.) *)
StillLinked(queue, i) == queue

Without(queue, i) ==
  [j \in 1..(Len(queue) - 1) |-> IF j < i THEN queue[j] ELSE queue[j + 1]]

ReceiveBegin(t, p) ==
  /\ Enter(t)
  /\ comm_on[t]
  /\ \E i \in DOMAIN comm_channel[t] :
       /\ IsFirstFrom(comm_channel[t], p, i)
       /\ held' = [held EXCEPT ![t] = comm_channel[t][i]]
  /\ pc' = [pc EXCEPT ![t] = "recv_copy"]
  /\ Calls(t, {"copy_to_user"})
  /\ UNCHANGED <<state, process, comm_channel, polling, heap, peer, entries, sent>>

ReceiveEnd(t) ==
  /\ CanRun(t)
  /\ pc[t] = "recv_copy"
  /\ \E i \in DOMAIN comm_channel[t] :
       /\ comm_channel[t][i] = held[t]
       /\ comm_channel' = [comm_channel EXCEPT ![t] = Without(@, i)]
  /\ heap' = heap \ MessageBlocks(held[t])
  /\ held' = [held EXCEPT ![t] = NoMsg]
  /\ Return(t)
  /\ UNCHANGED <<state, process, polling, peer, entries, sent>>

ReceiveFault(t) ==
  /\ CanRun(t)
  /\ pc[t] = "recv_copy"
  /\ held' = [held EXCEPT ![t] = NoMsg]
  /\ Return(t)
  /\ UNCHANGED <<state, process, comm_channel, polling, heap, peer, entries, sent>>

----------------------------------------------------------------------------
(* sys_mpi_poll *)

is_incoming_msg_from(t, p) == From(comm_channel[t], p) # {}

(* The entries with `incoming' set anew.  (ScanAny takes anybody's message.) *)
ScanAny(t) == [i \in DOMAIN entries[t] |->
                 [pid |-> entries[t][i].pid, incoming |-> comm_channel[t] # << >>]]

Scan(t) == [i \in DOMAIN entries[t] |->
              [pid |-> entries[t][i].pid,
               incoming |-> is_incoming_msg_from(t, entries[t][i].pid)]]

Reported(es) == \E i \in DOMAIN es : es[i].incoming

PollBegin(t, request) ==
  /\ Enter(t)
  /\ comm_on[t]
  /\ entries' = [entries EXCEPT ![t] =
                   [i \in DOMAIN request |-> [pid |-> request[i], incoming |-> FALSE]]]
  /\ heap' = heap \cup {EntriesBlock(t)}
  /\ pc' = [pc EXCEPT ![t] = "poll_scan"]
  /\ Calls(t, {"kmalloc", "copy_from_user"})
  /\ UNCHANGED <<state, process, comm_channel, polling, peer, held, sent>>

PollFault(t) ==
  /\ CanRun(t)
  /\ pc[t] = "poll_scan"
  /\ heap' = heap \ {EntriesBlock(t)}
  /\ entries' = [entries EXCEPT ![t] = << >>]
  /\ Return(t)
  /\ UNCHANGED <<state, process, comm_channel, polling, peer, held, sent>>

PollScanFound(t) ==
  /\ CanRun(t)
  /\ pc[t] = "poll_scan"
  /\ Reported(Scan(t))
  /\ entries' = [entries EXCEPT ![t] = Scan(t)]
  /\ pc' = [pc EXCEPT ![t] = "poll_out"]
  /\ Calls(t, {"copy_to_user"})
  /\ UNCHANGED <<state, process, comm_channel, polling, heap, peer, held, sent>>

(* poll_list = NULL, or a forgotten one. *)
PollListKept(t) == poll_list
PollListCleared(t) == [poll_list EXCEPT ![t] = << >>]

(* The block our_kfree gets when it is handed the task's poll_list. *)
OldPollList(t) == IF poll_list[t] # << >> THEN {PollListBlock(t)} ELSE {}

PollScanNone(t) ==
  /\ CanRun(t)
  /\ pc[t] = "poll_scan"
  /\ ~Reported(Scan(t))
  /\ entries' = [entries EXCEPT ![t] = Scan(t)]
  /\ heap' = heap \ OldPollList(t)
  /\ poll_list_size' = [poll_list_size EXCEPT ![t] = Len(entries[t])]
  /\ pc' = [pc EXCEPT ![t] = "poll_list"]
  /\ Calls(t, {"kmalloc"})
  /\ UNCHANGED <<state, process, comm_channel, poll_list, timer, peer, held, sent>>

PollNoMemory(t) ==
  /\ CanRun(t)
  /\ pc[t] = "poll_list"
  /\ poll_list' = PollListCleared(t)
  /\ heap' = heap \ {EntriesBlock(t)}
  /\ entries' = [entries EXCEPT ![t] = << >>]
  /\ Return(t)
  /\ UNCHANGED <<state, process, comm_channel, poll_list_size, timer, peer, held, sent>>

PublishPollList(t) ==
  /\ CanRun(t)
  /\ pc[t] = "poll_list"
  /\ heap' = heap \cup {PollListBlock(t)}
  /\ poll_list' = [poll_list EXCEPT ![t] =
                     [i \in DOMAIN entries[t] |-> entries[t][i].pid]]
  /\ pc' = [pc EXCEPT ![t] = "poll_sleep"]
  /\ UNCHANGED <<process, comm_channel, poll_list_size, local, sent>>

(* `timeout * HZ' in an int *)
Jiffies(timeout) == ((timeout * HZ + IntHalf) % (2 * IntHalf)) - IntHalf

(* set_current_state and schedule_timeout, which schedules...  (PollSleepForever
   is schedule without a timer.)                                            *)
PollSleepForever(t) ==
  /\ PublishPollList(t)
  /\ state' = [state EXCEPT ![t] = "TASK_INTERRUPTIBLE"]
  /\ cpu' = NoTask
  /\ UNCHANGED timer

PollSleep(t) ==
  /\ PublishPollList(t)
  /\ \E timeout \in Timeouts : Jiffies(timeout) >= 0
  /\ state' = [state EXCEPT ![t] = "TASK_INTERRUPTIBLE"]
  /\ timer' = [timer EXCEPT ![t] = "pending"]
  /\ cpu' = NoTask

(* ...or refuses a negative timeout, sets TASK_RUNNING and returns at once. *)
PollRefused(t) ==
  /\ PublishPollList(t)
  /\ \E timeout \in Timeouts : Jiffies(timeout) < 0
  /\ cpu' = t
  /\ UNCHANGED <<state, timer>>

PollRescan(t) ==
  /\ CanRun(t)
  /\ pc[t] = "poll_sleep"
  /\ entries' = [entries EXCEPT ![t] = Scan(t)]
  /\ timer' = [timer EXCEPT ![t] = IF @ = "pending" THEN "off" ELSE @]
  /\ poll_list_size' = [poll_list_size EXCEPT ![t] = 0]
  /\ heap' = heap \ OldPollList(t)
  /\ poll_list' = PollListCleared(t)
  /\ pc' = [pc EXCEPT ![t] = "poll_out"]
  /\ Calls(t, {"copy_to_user"})
  /\ UNCHANGED <<state, process, comm_channel, peer, held, sent>>

(* Whether or not copy_to_user fails. *)
PollEnd(t) ==
  /\ CanRun(t)
  /\ pc[t] = "poll_out"
  /\ heap' = heap \ {EntriesBlock(t)}
  /\ entries' = [entries EXCEPT ![t] = << >>]
  /\ timer' = [timer EXCEPT ![t] = "off"]
  /\ Return(t)
  /\ UNCHANGED <<state, process, comm_channel, poll_list, poll_list_size, peer, held, sent>>

----------------------------------------------------------------------------
(* Interrupts: process_timeout, and a signal that wakes an interruptible task. *)

TimerExpire(t) ==
  /\ timer[t] = "pending"
  /\ timer' = [timer EXCEPT ![t] = "expired"]
  /\ state' = [state EXCEPT ![t] = "TASK_RUNNING"]
  /\ UNCHANGED <<process, comm_channel, poll_list, poll_list_size, heap, pc, local, sent, cpu>>

Signal(t) ==
  /\ t \in Signalled
  /\ state[t] = "TASK_INTERRUPTIBLE"
  /\ state' = [state EXCEPT ![t] = "TASK_RUNNING"]
  /\ UNCHANGED <<process, comm_channel, polling, heap, pc, local, sent, cpu>>

----------------------------------------------------------------------------
(* do_fork: the child is a copy of the caller, invisible and with its own
   message state, while the rest is copied; then it is linked and runs.      *)

(* `*p = *current' and the communication handler.  (Inherited is the copy alone.) *)
InheritedCommOn(t) == comm_on[t]
ChildCommOn(t) == comm_on[t] /\ pid[t] # 1

InheritedChannel(t) == comm_channel[t]
ChildChannel(t) == << >>

ForkBegin(t, child) ==
  /\ Enter(t)
  /\ state[child] = "FREE"
  /\ \E p \in get_pid : pid' = [pid EXCEPT ![child] = p]
  /\ state' = [state EXCEPT ![child] = "TASK_UNINTERRUPTIBLE"]
  /\ comm_on' = [comm_on EXCEPT ![child] = ChildCommOn(t)]
  /\ comm_channel' = [comm_channel EXCEPT ![child] = ChildChannel(t)]
  /\ poll_list' = PollListCleared(child)
  /\ poll_list_size' = [poll_list_size EXCEPT ![child] = 0]
  /\ peer' = [peer EXCEPT ![t] = child]
  /\ pc' = [pc EXCEPT ![t] = "fork_copy"]
  /\ Calls(t, {"copy_mm"})
  /\ UNCHANGED <<p_opptr, timer, heap, held, entries, sent>>

ForkEnd(t) ==
  /\ CanRun(t)
  /\ pc[t] = "fork_copy"
  /\ state' = [state EXCEPT ![peer[t]] = "TASK_RUNNING"]
  /\ p_opptr' = [p_opptr EXCEPT ![peer[t]] = t]
  /\ peer' = [peer EXCEPT ![t] = NoTask]
  /\ pc' = [pc EXCEPT ![t] = "user", ![peer[t]] = "user"]
  /\ cpu' = NoTask
  /\ UNCHANGED <<pid, comm_on, comm_channel, polling, heap, held, entries, sent>>

(* free_task_struct: nothing of the task can be found any more. *)
FreeTask(t) ==
  /\ state' = [state EXCEPT ![t] = "FREE"]
  /\ pid' = [pid EXCEPT ![t] = 0]
  /\ p_opptr' = [p_opptr EXCEPT ![t] = NoTask]
  /\ comm_on' = [comm_on EXCEPT ![t] = FALSE]
  /\ comm_channel' = [comm_channel EXCEPT ![t] = << >>]
  /\ poll_list' = PollListCleared(t)
  /\ poll_list_size' = [poll_list_size EXCEPT ![t] = 0]

ForkFail(t) ==
  /\ CanRun(t)
  /\ pc[t] = "fork_copy"
  /\ FreeTask(peer[t])
  /\ peer' = [peer EXCEPT ![t] = NoTask]
  /\ Return(t)
  /\ UNCHANGED <<timer, heap, held, entries, sent>>

----------------------------------------------------------------------------
(* do_exit and sys_wait4.  A zombie keeps its queue and can be sent to. *)

(* forget_original_parent *)
Reparented(t) == [u \in Task |-> IF p_opptr[u] = t THEN InitTask ELSE p_opptr[u]]

Exit(t) ==
  /\ Enter(t)
  /\ t # InitTask
  /\ state' = [state EXCEPT ![t] = "TASK_ZOMBIE"]
  /\ p_opptr' = Reparented(t)
  /\ pc' = [pc EXCEPT ![t] = "none"]
  /\ UNCHANGED <<pid, comm_on, comm_channel, polling, heap, local, sent, cpu>>

(* What release_task gives to our_kfree.  (Before HW_1 it freed no queue.) *)
ReleasedBlocksNoQueue(t) == OldPollList(t)

ReleasedBlocks(t) ==
  (IF comm_on[t]
   THEN UNION {MessageBlocks(comm_channel[t][i]) : i \in DOMAIN comm_channel[t]}
   ELSE {}) \cup OldPollList(t)

Wait(t, child) ==
  /\ Enter(t)
  /\ state[child] = "TASK_ZOMBIE"
  /\ p_opptr[child] = t
  /\ heap' = heap \ ReleasedBlocks(child)
  /\ FreeTask(child)
  /\ UNCHANGED <<timer, pc, local, sent, cpu>>

----------------------------------------------------------------------------
Init ==
  /\ state = [t \in Task |-> IF t = InitTask THEN "TASK_RUNNING" ELSE "FREE"]
  /\ pid = [t \in Task |-> IF t = InitTask THEN 1 ELSE 0]
  /\ p_opptr = [t \in Task |-> NoTask]
  /\ comm_on = [t \in Task |-> FALSE]
  /\ comm_channel = [t \in Task |-> << >>]
  /\ poll_list = [t \in Task |-> << >>]
  /\ poll_list_size = [t \in Task |-> 0]
  /\ timer = [t \in Task |-> "off"]
  /\ heap = {}
  /\ pc = [t \in Task |-> IF t = InitTask THEN "user" ELSE "none"]
  /\ peer = [t \in Task |-> NoTask]
  /\ held = [t \in Task |-> NoMsg]
  /\ entries = [t \in Task |-> << >>]
  /\ sent = 0
  /\ cpu = NoTask

(* A task in user mode makes a system call, or exits. *)
Call(t) ==
  \/ Register(t)
  \/ \E p \in Pids : SendBegin(t, p) \/ ReceiveBegin(t, p)
  \/ \E request \in PollRequests : PollBegin(t, request)
  \/ \E child \in Task : ForkBegin(t, child) \/ Wait(t, child)
  \/ Exit(t)

(* A task in the kernel goes on. *)
Continue(t) ==
  \/ SendAllocData(t) \/ SendNoMemory(t) \/ SendFault(t) \/ SendLink(t)
  \/ ReceiveEnd(t) \/ ReceiveFault(t)
  \/ PollFault(t) \/ PollScanFound(t) \/ PollScanNone(t) \/ PollNoMemory(t)
  \/ PollSleep(t) \/ PollRefused(t) \/ PollRescan(t) \/ PollEnd(t)
  \/ ForkEnd(t) \/ ForkFail(t)

Next == \E t \in Task : Call(t) \/ Continue(t) \/ TimerExpire(t) \/ Signal(t)

Spec == Init /\ [][Next]_vars

(* The scheduler serves every runnable task (the active and expired arrays
   swap), and a pending timer expires.                                       *)
Fairness == \A t \in Task : SF_vars(Continue(t)) /\ WF_vars(TimerExpire(t))

LiveSpec == Spec /\ Fairness

----------------------------------------------------------------------------
(* Properties. *)

(* Types of the task_struct fields, the heap and the locals of the calls. *)
TypeOK ==
  /\ state \in [Task -> {"FREE", "TASK_RUNNING", "TASK_INTERRUPTIBLE",
                         "TASK_UNINTERRUPTIBLE", "TASK_ZOMBIE"}]
  /\ pid \in [Task -> Pids \cup {0}]
  /\ \A t \in Task : pid[t] = 0 <=> state[t] = "FREE"
  /\ p_opptr \in [Task -> Task \cup {NoTask}]
  /\ comm_on \in [Task -> BOOLEAN]
  /\ comm_channel \in [Task -> Seq(Message)]
  /\ poll_list \in [Task -> Seq(Pids)]
  /\ poll_list_size \in [Task -> Nat]
  /\ timer \in [Task -> {"off", "pending", "expired"}]
  /\ heap \subseteq ({"message_t", "data"} \X (1..MaxMsgs))
                      \cup ({"poll_pids_ker", "poll_list"} \X Task)
  /\ pc \in [Task -> Pcs]
  /\ peer \in [Task -> Task \cup {NoTask}]
  /\ held \in [Task -> Message \cup {NoMsg}]
  /\ entries \in [Task -> Seq(Entry)]
  /\ sent \in 0..MaxMsgs
  /\ cpu \in Task \cup {NoTask}

Asleep(t) == pc[t] = "poll_sleep" /\ state[t] = "TASK_INTERRUPTIBLE"

(* Nobody sleeps in poll while a message from one of the polled pids is in his
   queue: the scan of sys_mpi_poll and the wake-up loop of sys_mpi_send leave no
   gap between them.                                                          *)
NoLostWakeup ==
  \A t \in Task : Asleep(t) =>
    \A i \in DOMAIN poll_list[t] : ~is_incoming_msg_from(t, poll_list[t][i])

(* What poll reports is there to receive: an entry marked incoming still has its
   message when the array is copied out, however long that sleeps.            *)
ReportSound ==
  \A t \in Task : pc[t] = "poll_out" =>
    \A i \in DOMAIN entries[t] :
      entries[t][i].incoming => is_incoming_msg_from(t, entries[t][i].pid)

(* Poll gives up (no entry marked, ETIMEDOUT) only when its timer expired. *)
TimeoutHonest ==
  \A t \in Task :
    pc[t] = "poll_out" /\ ~Reported(entries[t]) => timer[t] = "expired"

(* Messages of one sender wait in the order it sent them, whatever was linked,
   received or slept through in between.                                      *)
FifoPerSender ==
  \A t \in Task : \A i, j \in DOMAIN comm_channel[t] :
    i < j /\ comm_channel[t][i].sender_pid = comm_channel[t][j].sender_pid
      => comm_channel[t][i].id < comm_channel[t][j].id

(* While copy_to_user of receive sleeps, the message it holds stays the first one
   of its sender in the queue, so that the list_del that follows takes that
   message and no other.                                                      *)
ReceiveHoldsFirst ==
  \A t \in Task : pc[t] = "recv_copy" =>
    \E i \in DOMAIN comm_channel[t] :
      /\ IsFirstFrom(comm_channel[t], held[t].sender_pid, i)
      /\ comm_channel[t][i] = held[t]

(* poll_list is there exactly while its owner is in schedule_timeout, is what the
   owner asked for and has poll_list_size entries: the wake-up loop reads no
   freed list and no entry beyond the end.                                    *)
PollListInUse ==
  \A t \in Task :
    /\ poll_list[t] # << >> <=> pc[t] = "poll_sleep"
    /\ pc[t] = "poll_sleep" =>
         /\ poll_list_size[t] = Len(poll_list[t])
         /\ Len(poll_list[t]) = Len(entries[t])
         /\ \A i \in DOMAIN entries[t] : poll_list[t][i] = entries[t][i].pid

(* The blocks somebody will still free. *)
Queued == UNION {{comm_channel[t][i] : i \in DOMAIN comm_channel[t]} : t \in Task}
Owned ==
  (UNION {MessageBlocks(m) : m \in Queued})
  \cup {<<"message_t", held[t].id>> : t \in {u \in Task : pc[u] \in SendPcs}}
  \cup {<<"data", held[t].id>> : t \in {u \in Task : pc[u] = "send_link"}}
  \cup {EntriesBlock(t) : t \in {u \in Task : pc[u] \in PollPcs}}
  \cup {PollListBlock(t) : t \in {u \in Task : poll_list[u] # << >>}}

(* No block is freed while a queue or a running call still points to it. *)
NothingDangles == Owned \subseteq heap

(* No block is forgotten: what our_kmalloc gave out is in a queue, or is a local
   of a running call (the `ALL GOOD' of mem_stats).                           *)
NoLeak == heap \subseteq Owned

(* A message waits in the queue of the process it was sent to. *)
OnlyAddressee ==
  \A t \in Task : \A i \in DOMAIN comm_channel[t] : comm_channel[t][i].addressee = pid[t]

(* A message leaves a queue only by its owner's receive, or with its owner. *)
NobodyTakesMessages ==
  [][\A t \in Task : \A i \in DOMAIN comm_channel[t] :
       \/ \E j \in DOMAIN comm_channel'[t] : comm_channel'[t][j] = comm_channel[t][i]
       \/ state'[t] = "FREE"
       \/ pc[t] = "recv_copy" /\ held[t] = comm_channel[t][i]]_vars

(* A call of poll comes back. *)
PollReturns == \A t \in Task : pc[t] \in PollPcs ~> pc[t] = "user"

----------------------------------------------------------------------------
(* What of the state a caller can tell: a child is there once it is linked, and a
   task waits for its poll_list while it is asleep.                           *)
Channel == INSTANCE MpiChannel WITH
  life <- [t \in Task |-> CASE t \notin Hashed -> "FREE"
                            [] state[t] = "TASK_ZOMBIE" -> "ZOMBIE"
                            [] OTHER -> "ALIVE"],
  pid <- [t \in Task |-> IF t \in Hashed THEN pid[t] ELSE 0],
  comm_on <- [t \in Task |-> t \in Hashed /\ comm_on[t]],
  waiting <- [t \in Task |-> IF Asleep(t)
                             THEN {poll_list[t][i] : i \in DOMAIN poll_list[t]}
                             ELSE {}]

(* When no send can sleep, nor poll between its scan and its sleep, every call
   takes effect at one point: the split calls implement the atomic ones.      *)
ChannelSpec == Channel!Spec
=============================================================================
