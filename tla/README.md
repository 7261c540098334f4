# Verification of the kernel exercises

This directory models what this repository adds to a 2.4 Linux kernel, and the
kernel code that it changes and relies on: the message system calls `mpi_register`,
`mpi_send`, `mpi_receive` (HW_1) and `mpi_poll` (HW_2); `fork`, `exit` and `wait4`
with their lists, counts and pids (both HW_1 and HW_2 carry and change those files);
and the character device of HW_3. TLC checks the modules on small instances; TLAPS
proves, for every instance, the invariants of the message calls and that they implement
the channel they promise, and the invariants of the pid allocation, of the counted
structures and of the device.

## 1. Inventory

| Part | Source | State | Operations | Interacts through |
|---|---|---|---|---|
| Message system calls | `HW_2/submit/kernel/sys_mpi_*.c`, `HW_1/HW1/kernel/sys_mpi_*.c` | four fields of `task_struct`: `comm_on`, `comm_channel`, `poll_list_size`, `poll_list` | register, send, receive, poll | a sender writes the receiver's queue, reads its `poll_list`, calls `wake_up_process`; a poller reads its own queue and sleeps in `schedule_timeout` |
| Process family | `fork.c`, `exit.c`, `sched.h` | `task_struct`: `state`, the sibling pointers, `p_pptr`, `p_opptr`, the task list, `thread_group`, `exit_signal`, `ptrace` | do_fork, do_exit with exit_notify and forget_original_parent, sys_wait4, release_task, reparent_to_init, ptrace attach and detach | copies the parent's fields, makes a task visible to `find_task_by_pid`, wakes the parent, frees the queue in `release_task` |
| Shared structures | `fork.c`, `exit.c`, `sched.h` | the counts of files, fs, signal handlers and mm; `processes`, `nr_threads`, the use counts of modules; `vfork_done` | the copy_* functions and their undoing, the __exit_* functions, daemonize, context switch | a fork sleeps in each copy_* function |
| Pid allocation | `fork.c` `get_pid`, `sys.c` by its use | `last_pid`, `next_safe`, the four ids of a task | get_pid, setpgid, setsid, daemonize | called by do_fork, searches the task list |
| Allocation tracking | `helper.c` | `kmallocs_alive`, `ptr_malloced`, `ptr_freed` and their two counters | our_kmalloc, our_kfree, mem_stats | every allocation of the message calls |
| System call entry | `entry.S` | none of its own | entry, return, reschedule | the points at which another task may run |
| User library | `mpi_api.h` | none | four stubs | turns a negative result into `errno` |
| Character device | `HW_3/hw3_helper_files/vegenere_copy.c` | `key`, `key_len`, `buffer`, `buffer_size`, `data_size`, `debug_mode`, a position per open file | init_module, cleanup_module, open, release, read, write, ioctl, llseek | one buffer and one key for all open files |
| HW_0 | `my_module.c`, `ex0_syscall.c` | a magic string and a counter | read, ioctl, a printk | none |

What makes them hard: the kernel is not preemptible, so a system call runs alone,
except that `kmalloc(GFP_KERNEL)`, `copy_from_user`, `copy_to_user` and the copy
of the address space in `fork` may sleep, and then every other process may run
whole system calls. State read before such a call and used after it
(the receiver in `send`, the empty queue in `poll`, the message in `receive`, the
half-made child in `fork`) is where these functions can go wrong. Timers and
signals come at any time. A fork sleeps several times with its child half
made: its pid taken, its structures counted, the child on no list yet. Threads of
one group exit, wait and hand children to each other at once. A write to the
device sleeps at every character while all openers share one buffer and one key.

What makes each part correct:

- messages: order per sender; a message is received by the process it was sent to,
  once; nobody sleeps over a message he polls for; what poll reports is there;
  ETIMEDOUT means that the time ran out; every block is freed once and only when
  nothing points to it; a child starts with an empty queue.
- process family: the task list and the sibling lists are whole and agree with the
  parent pointers; every task has a parent that can still wait for it; a `wait4` that
  sleeps is told of every exit it may report; a zombie is reaped once.
- shared structures: a count is the number of those who hold; a failed fork leaves every
  count as it was; a vfork waits for its own child, and not for ever.
- pid allocation: never a pid in use as pid, group, thread group or session; the search
  ends, and fails only when nothing is left.
- allocation tracking: `ALL GOOD` exactly when nothing is alive, as long as
  the tables do not overflow.
- character device: what is stored is the encryption of what was written, under the
  key and mode of that moment; data and pending writes stay in the buffer.

`PROJECT.json` lists under "hazards" each place, at its line, where this can
fail, with the properties that watch it.

## 2. Modules

| Module | Models | Role |
|---|---|---|
| `MpiMailbox` | HW_1: register, send, receive, fork, exit, wait4, each call at once | the promise of HW_1 |
| `MpiChannel` | HW_2: `MpiMailbox` and poll | the promise of HW_2, built on the first (`INSTANCE MpiMailbox`) |
| `MpiKernel` | HW_2 as it is: each call cut where it may sleep, the heap, the timers | the detailed model; `Channel == INSTANCE MpiChannel WITH ...` maps it to the promise |
| `ProcessTree` | the links of HW_2's tasks through fork, exit, wait4, threads, ptrace and reparenting | list structure and the sleeping `wait4` |
| `GetPid` | `get_pid` pass by pass, with everything that changes an id (fork.c, exit.c of HW_1, the same text as in HW_2) | what `MpiKernel` assumes of `get_pid` |
| `ForkResources` | the counted structures of do_fork, its failures, do_exit, daemonize, vfork (fork.c, exit.c of HW_1) | what a half-made child and a failed fork leave behind |
| `Vegenere` | the device of HW_3, `vegenere_copy.c` | cipher and file operations |
| `MC...` of each | | constants for TLC |
| `MpiKernelProofs` | | types, who may point to which task, the life of `poll_list` |
| `MpiOrderProofs` | | order of messages, what receive holds, the heap |
| `MpiWakeupProofs` | | no lost wake-up, poll's report, honest timeouts; whole sends, and the refinement of `MpiChannel` |
| `MpiChannelProofs` | | the promise: no poll over a message, no messages of the unregistered |
| `GetPidProofs` | | unique pids, the cache, the end of the search |
| `ProcessTreeProofs` | | the lists, the parents, the zombies and the sleeping `wait4` |
| `ForkResourcesProofs` | | counts, charges, `active_mm`, vfork |
| `VegenereProofs` | | buffer bounds, key length, no hole, the cipher |

The process modules cut do_fork into different layers: `ProcessTree` keeps the links,
`GetPid` the ids, `ForkResources` the counts, `MpiKernel` the message fields. The layers
meet in few places: a fork sleeps between its copy of the parent and its
SET_LINKS in all four, `MpiKernel`'s `get_pid` promises what `GetPid` shows
(`UniquePids`), its `Wait` finds the zombies `ProcessTree` does.

### State of MpiKernel

`Task` is the set of task_struct addresses: `fork` takes one whose `state` is
`"FREE"`, `release_task` gives it back, and a stale pointer may meet it with a new
owner. `state`, `pid`, `p_opptr`, `comm_on`, `comm_channel`, `poll_list`,
`poll_list_size` are the fields of that name. `pc`, `peer`, `held`, `entries` are
where a task is in a system call and its locals (`receiver` or `p`; `new_msg` or
`msg`; `poll_pids_ker`). `heap` is the set of blocks `our_kmalloc` gave out and
`our_kfree` did not get back, `timer` the timer of `schedule_timeout`, `cpu` the task
that is inside the kernel and has not yet given up the processor. A message has its
sender's pid and two history fields: `id`, the order of allocation, and `addressee`,
the pid the sender named.

### Actions and code

An action is the code between two calls that may sleep. After it, `Calls(t,
functions)` keeps the processor with `t` unless one of those functions is in the
constant `MaySleep`; `Return` gives it up, since `ret_from_sys_call` reschedules.

| Call | Actions | Cut at |
|---|---|---|
| register | `Register` | |
| send | `SendBegin`, `SendAllocData`, `SendLink`; failures `SendNoMemory`, `SendFault` | the two allocations, `copy_from_user` |
| receive | `ReceiveBegin`, `ReceiveEnd`; failure `ReceiveFault` | `copy_to_user` |
| poll | `PollBegin`, `PollScanFound` or `PollScanNone`, `PollSleep` or `PollRefused`, `PollRescan`, `PollEnd`; failures `PollFault`, `PollNoMemory` | the two allocations, the copies, `schedule_timeout` |
| fork | `ForkBegin`, `ForkEnd`; failure `ForkFail` | the `copy_*` calls |
| exit, wait4 | `Exit`, `Wait` | |
| interrupts | `TimerExpire`, `Signal` | |

### What is abstracted

- A call that fails its argument checks changes nothing and is not an action; return
  codes are not kept.
- Message bytes and sizes. Two messages differ by sender and order.
- `get_pid` returns the pid of no task_struct in memory. That excludes that the
  counter goes once round all pids while one fork sleeps.
- A write into memory that holds no task (the link of a message after its
  receiver was freed), or holds a task that is not registered, is lost. It is
  undefined behaviour in the code; this is the mildest outcome, and it is enough
  to break the properties of section 4.
- Threads, `ptrace`, `vfork`, process groups, the signals between relatives, and the
  blocking of `wait4` are left to the other modules; here a wait is the step that finds
  a zombie.
- `timeout * HZ` is computed in an int of `2 * IntHalf` values, as in the code, with
  `IntHalf` small enough for TLC. The one value that `schedule_timeout` treats as
  "for ever" is odd and never a multiple of HZ = 100.

### ProcessTree

`link` holds the six list pointers of each task, `next_thread` the ring of its thread
group; `REMOVE_LINKS`, `SET_LINKS` and the open-coded relinking of `exit_notify` are
functions on `link`, assignment by assignment. A fork is `ForkBegin` (the copy and
the sleeps), then `ForkEnd` or `ForkFail`; an exit `ExitBegin` (PF_EXITING, and the sleeps of
the __exit_* functions), then `exit_notify`; `wait4` is a scan that returns (`WaitReap`,
`WaitFault`, `WaitEnd`, `WaitReturn`) or sleeps (`WaitSleep`) with its state already
TASK_INTERRUPTIBLE, so that an exit between the two is seen. `Attach`, `Detach` and
`reparent_to_init` move tasks between parents, `Signal` ends a sleep.

Two of its constants exclude what the code gets wrong or undefined. `Faulting` is the
set of thread-group members whose `put_user` in `wait4` may sleep: `wait4` drops
`tasklist_lock` before it, so that two threads of a group find one zombie and both
release it (with `Faulting` not empty TLC finds `ReapedOnce` violated). And
`NoExitMissed`, which says that a wait falls asleep with no zombie it asks for and sleeps
through no step that brings one, leaves out one step: `forget_original_parent` sets
`exit_signal` of a traced zombie to SIGCHLD and tells only its new original parent;
a tracer that sleeps in a wait without options is not told, though the zombie is now
one he asks for.
The pid argument of `wait4` is the choice of one zombie among those found. A walk is the set
of tasks it meets (`Met`), so that facts about the pointers need no order of the lists.
Process 1 does not use CLONE_PARENT. Stopped children, selection by pid or group and
orphaned process groups are not modelled. A thread made with CLONE_THREAD and without
CLONE_PARENT is its creator's child, so that the creator's group can wait for it.

### GetPid

`id` holds pid, group, thread group and session of each task. `TakeNext` is the call that
finds `last_pid + 1 < next_safe`; otherwise `Search`, and then one action a pass over
the task list, `SearchFound`, `SearchOn` or `NoMorePids`. The two spinlocks are held from
the first pass to the last, so nothing else steps meanwhile (`NoSearch`). `ForkEnd`, `ForkFail`,
`Exit`, `release_task`, `daemonize`, `setpgid` and `setsid` are everything else that
puts an id on the list or takes one off.

The order of the task list is left out: a pass leaves the least used id above the
counter in `next_safe` (`NextUsed`), or, when it stops early, any value a shorter scan may
give. Two histories end all promises, and `unsound` records them. After `nomorepids`
`next_safe` may come from half a scan, so that a later fork takes a used pid; and
when the counter goes round all pids while one fork sleeps, that child's pid, which
is on no list, is given again. Without `unsound` TLC finds `CacheSound` violated by the
first and `UniquePids` by the second. Also left out: CLONE_PID, which only the swapper
may use, and `setpgid` by another process while a child is half made.

### ForkResources

`res` holds the files, fs, signal handlers and mm of each task, `count` and `mm_count`
their counts. `ForkBegin` charges the user, the modules and `nr_threads` as do_fork does;
`copy_kind`, `copy_mm` and `copy_namespace` share or copy, or fail and go to a label;
`Label` is the table of labels and `Unwind` walks them down. `ExitMm`, `ExitKind`, `ExitEnd` and
`release_task` are do_exit and the end, `DaemonizeMm` and `DaemonizeKind` daemonize,
`SwitchFrom` and `SwitchTo` the borrowing of `active_mm` by tasks without an mm.

`Fails` names the copy_* functions that may fail. With "namespace" in it TLC finds
`MmCounted` violated: do_fork's label `bad_fork_cleanup_mm` calls `exit_mm(p)`, which is
written for a running task and takes a reference for `p->active_mm` that nobody drops
(`sched.h:247` says that the users count as one); and `VforkWaits`, because its
`mm_release` looks at `current`: the parent of a vfork is woken while its child runs
(`fork.c:305` says otherwise). The passing run has "kernel_namespace" instead, which lets
`copy_namespace` fail only for a parent without an mm, where nothing is to undo. One user is
modelled, so that `reparent_to_init`, which sets `current->user` without moving the
charge, is left out; so are exec, `start_lazy_tlb`, the list of all mms (on which
`mmput` would act after a failing `init_new_context`), and the insides of the structures.

### Vegenere

An operation is one action, except write: it sleeps in `get_user` once a character, and
is `WriteBegin` and then `WriteChar`, `WritePlain` or `WriteFail` (the locks are commented
out in the source). The file as committed does not compile: the declaration of `key`
is a comment and `translate_msg` is called with four arguments instead of three. `key`
is taken as the pointer it must be, and both readings of the call are modelled
(`TranslateCalls`). `my_read` translates the buffer in place and copies nothing to its
caller; `test.py:93` expects the message back. `my_llseek` moves `private_data`, which
read and write do not use. The buffer is not terminated, so the walk of
`translate_msg` may stop at any byte not written yet (`Stops`) or run to the end of the
block; what it does beyond is left out.

`Disturbs` names the ioctls that may come while a write sleeps. With "RESET" in it
`WritesInside` and `KeyMatches` are violated: the buffer is replaced and the key
forgotten under the sleeping write. The run leaves that out, and shows the others.
An empty key (remainder by zero) and `rmmod` with open files (`my_fops` names no
owner) are excluded by assumption and guard.

## 3. Runs that pass

The message runs have process 1 and one or two more task slots. Two more are needed,
and are enough, for a sender that sleeps while its receiver is reaped and
the slot is taken by somebody else; two messages of one sender show order, and three
show it again after a receive took one from the middle.

| Run | Instance | Shows |
|---|---|---|
| `channel` | 3 slots, 3 pids, at most one message a sender and addressee | in the promise itself nobody waits for a message he has (`WaitsForNothingThere`) and new or unregistered tasks have none (`UnregisteredHasNothing`) |
| `calls` | 2 slots, 3 messages, all message-call functions may sleep or fail, signals, a timeout that wraps | `TypeOK`, `FifoPerSender`, `ReceiveHoldsFirst`, `ReportSound`, `PollListInUse`; under fairness every poll returns (`PollReturns`) |
| `slots` | 3 slots, 2 messages, everything but `kmalloc` may sleep | no block is freed while something points to it (`NothingDangles`); a message leaves a queue only by its owner's receive or with its owner (`NobodyTakesMessages`); no lost wake-up (`NoLostWakeup`), and ETIMEDOUT only after the timer (`TimeoutHonest`), when no signal comes and the timeout fits an int |
| `implements_channel` | 3 slots, 1 message, `copy_to_user` and `copy_mm` may sleep, signals | `ChannelSpec`: the split calls implement the atomic ones; no leak (`NoLeak`), every message at its addressee (`OnlyAddressee`) |
| `process_tree` | process 1 and 2 slots, every flag, exit signal, option, ptrace | lists and parents agree (`SiblingsAgree`, `TaskListWhole`), no exit is missed (`NoExitMissed`), no zombie is reaped twice (`ReapedOnce`) |
| `thread_group` | process 1 and 3 slots, threads | children go to a parent that can still wait (`ParentsLive`), every thread of its group is told (`NoExitMissed`) |
| `get_pid` | 4 tasks, 4 pids, `Reserved` = 2 | `UniquePids`, `CacheSound`, `FreshPid`, `GivesUpWhenFull`, `SearchProgresses` |
| `fork_resources` | 3 tasks, 4 structures of a kind | counts equal holders (`CountsAgree`, `MmCounted`), charges equal tasks (`ChargesAgree`), vfork waits as it must (`VforkWaits`, `VforkEnds`) |
| `vegenere` | 2 files, a buffer of 1 or 2 bytes, 1 read | `WritesInside`, `DataInBuffer`, `NoHole`, `KeyMatches`, `StoredUnderItsKey` |

Bounds of the new runs. Links: a task in the middle of a sibling list needs three
children, which process 1 has with the slots and the tasks it adopts; three slots make a
group of two with a child, or a group of three. Pids: 4 tasks, so that two
fork at once while a third holds an id as group or session only; `PID_MAX` = 5 makes
the counter wrap and the pids run out. Counts: a structure with three holders, two of
which leave or fork at the same time. Device: one write that grows the block and one that
does not, overlapping; keys of one letter and of a digit before a character that is no
key; texts that are empty, a letter, and a digit before a NUL. `MaxReads` = 1 bounds reads only
because each adds a translation of the buffer.

`MaxMsgs` bounds the messages allocated in a behaviour; a request of poll is
`<<1, 2>>` (parent or oneself, and a child). Deadlock is checked in every run.
`Slots` makes the two slots besides process 1 interchangeable in runs without a
temporal property.

Fairness (`LiveSpec`, used by `calls`): strong fairness of `Continue(t)`, because a
runnable task waits in the active or the expired array and the scheduler swaps
them, so it runs again even if others take the processor over and over; weak
fairness of `TimerExpire(t)`, because the timer interrupt comes. Nothing is assumed
of user programs: nobody has to send, receive or exit.

## 4. Runs that show a disagreement

| Run | Property | What happens |
|---|---|---|
| `lost_wakeup` | `NoLostWakeup` | poll scans its queue, `kmalloc` (`sys_mpi_poll.c:128`) sleeps, a sender links its message and finds no `poll_list`; poll then sleeps with the message in its queue. `HW_2/README:6` calls this atomic |
| `wrong_receiver` | `OnlyAddressee` | as above, and the slot was taken by a new registered process. `sys_mpi_send.c:28`: a message goes to "the process identified by pid" |
| `too_many_threads` | `ThreadsBounded` | two forks pass the test of `max_threads` before either counts its child: nothing holds a lock over the sleeps of the copy_* functions. `fork.c:648` relies on "the kernel lock" |

`wrong_receiver`'s text is the comment at `sys_mpi_send.c:28`: a message goes to "the process
identified by pid". Four more disagreements can be seen by changing a constant:

- a message leaked (`NoLeak` in `wrong_receiver`'s instance): the receiver is reaped
  while the sender sleeps in `copy_from_user`, and the message is linked into freed
  memory; `hw1_test.c:31` wants remaining messages deleted;
- `TimeoutHonest` with `Timeouts = {6}`: `timeout * HZ` wraps to a negative number,
  `schedule_timeout` refuses it, and poll returns ETIMEDOUT at once;
  `sys_mpi_poll.c:62` says that no message came "before timeout expired";
- `TimeoutHonest` with a task in `Signalled`: a signal ends the sleep, and poll returns
  ETIMEDOUT;
- those of `Fails`, `Faulting` and `Disturbs` described in section 2.

The same properties hold in section 3 where the cause is taken away by a constant
(`MaySleep`, `Timeouts`, `Signalled`), so each isolates one cause.

## 5. Proofs

`tlapm` checks every leaf; the assumptions are the named ASSUMEs of `MpiKernel` (in
short: process 1 is a task, pids are positive numbers, a poll request is a
non-empty sequence of pids, HZ and the int width are positive), of `MpiChannel` (the same
of its constants), of `GetPid` (process 1 is a task, 1 < `Reserved` < `PID_MAX`), of
`ForkResources` (process 1 is one of finitely many tasks, there is a structure, null
pointers are none), of `ProcessTree` (two tasks, the swapper and process 1, among finitely many;
null is none of them; neither is traced or a kernel thread) and of
`Vegenere` (keys are non-empty strings without NUL, texts are strings of bytes, a page
fits the bound of the buffer), all evaluated by TLC on the passing runs. Nothing is
assumed of the number of tasks, structures or messages.

| Theorem | States |
|---|---|
| `BaseInvariant` | `Spec => []Base` |
| `TypeCorrect` | `Spec => []TypeOK` |
| `PollListSafe` | `Spec => []PollListInUse` |
| `ReportIsSound` | `Spec => []ReportSound` |
| `WakeupNotLost` | `Spec => []NoLostWakeup`, assuming `"kmalloc" \notin MaySleep` |
| `FifoHolds` | `Spec => []FifoPerSender` |
| `ReceiveTakesFirst` | `Spec => []ReceiveHoldsFirst` |
| `MessagesStay` | `Spec => NobodyTakesMessages` |
| `HeapIsSafe` | `Spec => []NothingDangles` |
| `TimeoutsAreHonest` | `Spec => []TimeoutHonest`, assuming `Signalled = {}` and that no timeout wraps to a negative number of jiffies |
| `MessagesReachAddressee` | `Spec => []OnlyAddressee`, assuming `SendsNeverSleep` |
| `NothingLeaks` | `Spec => []NoLeak`, assuming `SendsNeverSleep` |
| `ImplementsChannel` | `Spec => ChannelSpec`, assuming `SendsNeverSleep` |
| `GetPidProofs!TypeCorrect` | `Spec => []TypeOK` of `GetPid` |
| `PidsUnique` | `Spec => []UniquePids` |
| `CacheIsSound` | `Spec => []CacheSound` |
| `NewPidFresh` | `Spec => FreshPid` |
| `FailsOnlyWhenFull` | `Spec => GivesUpWhenFull` |
| `SearchEnds` | `Spec => SearchProgresses` |
| `NobodyWaitsForWhatIsThere` | `Spec => []WaitsForNothingThere` of `MpiChannel` |
| `UnregisteredIsEmpty` | `Spec => []UnregisteredHasNothing` of `MpiChannel` |
| `ProcessTreeProofs!TypeCorrect`, `TaskListIsWhole`, `SiblingsAreRight`, `ParentsAreLive`, `ReapedOnlyOnce` | `Spec => []` of `TypeOK`, `TaskListWhole`, `SiblingsAgree`, `ParentsLive`, `ReapedOnce` of `ProcessTree`, assuming `Faulting = {}` |
| `NoExitIsMissed` | `Spec => NoExitMissed`, assuming `Faulting = {}` |
| `ForkResourcesProofs!TypeCorrect` | `Spec => []TypeOK` of `ForkResources` |
| `CountsAreRight` | `Spec => []CountsAgree` |
| `MmCountsAreRight` | `Spec => []MmCounted`, assuming `"namespace" \notin Fails` |
| `ChargesAreRight` | `Spec => []ChargesAgree` |
| `VforkIsEnded` | `Spec => []VforkEnds` |
| `VforkIsHonoured` | `Spec => VforkWaits`, assuming `"namespace" \notin Fails` |
| `VegenereProofs!TypeCorrect`, `WritesStayInside`, `DataStaysInside`, `KeyLengthMatches`, `DataWithoutHole`, `EncryptsUnderItsKey` | `Spec => []` of `TypeOK`, `WritesInside`, `DataInBuffer`, `KeyMatches`, `NoHole`, `StoredUnderItsKey` of `Vegenere`, assuming `"RESET" \notin Disturbs` |

`Base` (in `MpiKernelProofs`) is `TypeOK` with three parts no run needs by itself.
`StateOK` ties `state` to `pc`: without it a task that is FREE or a zombie might
continue a system call. `HoldsOK` says who holds a message (in `send` and
`receive`). `ForkOK` says that the child a forking task holds is the invisible
one and has one parent at work: without it the end of one fork might make
a task of another visible. `BaseStep` proves that every action keeps `Base`,
with a step per action.

`WakeupNotLost` needs `ScanStands`: a task that is between its scan and its sleep
holds `cpu` and has nothing from a polled pid in its queue. It only keeps `cpu` when
`kmalloc` cannot give it up; then no `SendLink` of another task runs there.
`SleepStands` says the same of the queue of a task asleep in its poll: `SendLink` is
the only action that adds a message (`WhilePolling`), and when it adds one to a sleeper
it wakes him by the same pid comparison. `PollFlow` says how a poll gets to each of its
points, and `WakeupStep` puts the two together. This is the statement TLC refutes in
`lost_wakeup` without the assumption: the assumption is exactly what the code needs.

`FifoHolds` needs `Order`: message ids in queues and in the hands of senders are at
most `sent` and all different (`Numbered`), a sender in `send` holds the youngest
message with its pid (`Youngest`), and no two tasks in memory have one pid
(`PidsUnique`), which rests on `get_pid`.

`ReceiveTakesFirst` rests on `QueueSteps`, which says of each queue what a step may do to
it: nothing, append a message of a sender in `send_link`, take out the one its owner holds
in `recv_copy`, or empty it with its owner. A sender's new message is the youngest with his
pid, so the oldest that receive found stays the oldest; and the owner sleeps in his own
receive, so nobody else takes it. `MessagesStay` reads the same cases as a statement about a
step. `HeapIsSafe` adds where the blocks are: `PollBlocks` (a poll has its two blocks
between their allocation and their freeing, and no other time) and `MessagesAllocated`
(what a queue or a sender holds is allocated). A free is safe because `InOnePlace` says
that the message freed is in no other queue and no other hand.

`TimeoutsAreHonest` needs `WokenRightly`: who is awake before his timer ran out has
something from a polled pid in his queue. It holds because `SendLink` wakes after it
links, and because nothing but the sleeper's own receive takes a message
away. Its two assumptions exclude a signal and an overflow of `timeout * HZ`: under
either the code returns ETIMEDOUT early, as section 4 says.

`SendsNeverSleep` is `{"kmalloc", "copy_from_user"} \cap MaySleep = {}`. Under it a send
keeps `cpu` from `find_task_by_pid` to `list_add_tail` (`SendsWhole`), so that its receiver is
still there, registered and the process it named; without it `wrong_receiver` shows the
opposite. `MessagesReachAddressee` also follows messages through fork and the reuse of a
slot: `ChildLikeParent` (the child that is made is registered as its parent) and
`HiddenEmpty` (nothing is ever linked into a task that is on no list). `NothingLeaks`
is `NoneLost`: every message block allocated is in a queue or in the hands of one call.

`ImplementsChannel` maps, under the same assumption, what `MpiChannel` calls a task's state,
pid, queue and awaited pids to the fields that `MpiKernel` has for it (`SeenPid`, `SeenOn`,
`Awaited`, `Life`: half-made children are not there yet). `ChannelInit` is the
initial state; then there is one lemma for each kind of step that can be seen
(`SendSeen` for `SendLink`, `ReceiveSeen`, `PollSeen`, `WakeSeen`, `ForkEndSeen`, and so on),
and `ChannelStep` shows every other step to be a stutter. A send is seen when it
links: before that its message is in nobody's queue, and by `SendsWhole` what it found
in `SendBegin` still holds. The assumption is needed: where a send may sleep, its message can go to
a process the channel would not give it to.

`PidsUnique` and `CacheIsSound` are one induction, over `IInv` = `Base`, `Round`, `Made`,
`CacheSound` and `UniquePids`; none of the last two is inductive alone. A new pid is free
of the list because the cache says so, and free of the other half-made children because
`Made` says that their pids are not ahead of the counter. The cache stays true when such a child
is listed later because its pid is behind the counter and its other three ids are
those of its parent, which is listed (`Made` again). `QuietSound` states that once, for every
step outside `get_pid`: whatever ids a listed task has afterwards were in use before
or lie behind the counter. `Round` is the argument of the search: since it began, every pid
from `beginpid` to the counter was seen in use, and `beginpid` is not below `Reserved`.
So a pass that fails has one pid less to try (`SearchEnds`), and coming back to
`beginpid` means that all were in use (`FailsOnlyWhenFull`). `SearchSteps` says that the
lists do not change meanwhile.

For `MpiChannel` the invariant adds `FreeIsOff`: memory without a task is not registered,
so that the child a fork puts there, registered or not, finds no messages.

For `ForkResources` the invariant is `Shape`, `Counts`, `Mentions` and `Charged`. `Counts` and `Mentions`
are the tallies themselves: `count` is the number of `Holders`, `mm_count` that of `Borrowers`
plus one for all users. Neither is inductive alone, because a step moves a count by what the
child's field says while the theorem counts who was *given* the structure. `Shape` ties the
two together:

- `Making`: a task in do_fork has a child of its own, invisible, and nobody else's; so one
  task joins or leaves the holders of a structure at a time (`Recounted`).
- `Inherits`: until its turn comes a field of the child is a copy of the parent's, which
  is what `Share` increments.
- `GivenUp`: what do_exit, daemonize and release_task have let go of is null; a task_struct
  that is reused holds nothing.
- `Active`: who has an mm runs in it, so that nobody both uses and borrows one.
- `Completion`: the completion of a parent in vfork is held by one task, its child,
  until that lets the memory go; this is `VforkEnds`, and most of `VforkWaits`.

`CountsKept` and `MmCountKept` then say that the set of holders before and after a step
differs in one task at most, so that its cardinality follows the count
(`OneMoreOrLess`, from the library's facts on finite sets: this is where the tasks
must be finitely many). `CountsStep` shows for every action that it is so.
`MmCounted` and `VforkWaits` assume `"namespace" \notin Fails` because they are false without it
(section 2, ForkResources). With it `Mentions` still proves that no count falls below what its
users and borrowers need: `exit_mm` for a half-made child keeps a reference too many, never
one too few; that is why `TypeCorrect` needs no assumption.

For `Vegenere` `Base` adds to `WritesInside` and `DataInBuffer` that a pending write belongs
to an open file (`Writers`: so `cleanup_module` meets none), that nothing is left of the
data when the module is out (`Unloaded`), and that `key_len` is the key's length
(`KeyLen`). `buffer_size` is the size of the block, and no step but RESET makes it
smaller: that is why one comparison at the start of a write is enough, and why the
theorems assume that RESET meets no write. `NoHole` needs `Standing`, no position past the
data, and `Stored`, what a write has stored so far. `StoredUnderItsKey` is a step
invariant by `CharStep`; `Encrypts` compares the arithmetic of `find_offset`, `Remainder` and
`CharAt` with the order of the alphabet for all characters at once.

For `ProcessTree` the invariant is `IInv`: `Types`; for every task `Control` (its state, flags and
call fit each other) and `Holds` (whose child it makes, whose zombie it reaps); `Roots` (the swapper and
process 1 stay); and `Family`, which is `Tree`, `Rings` and `ParentsLive`. It assumes `Faulting = {}`
because all of it is false otherwise: two threads release one task (section 2).

- A walk is a recursive function, and what it meets in as many turns as there are tasks
  is the least set that holds its start and is closed under the pointers (`MetLeast`, by a
  count of the finite sets on the way). So nothing is said of the order of a list: `Ring`, `Sib`
  and `Rings` say that a pointer's inverse points back and that every closed
  set holds the whole list, and `RingMet`, `SibMet` and `RingWalk` read off what a walk meets.
- What the link macros assign is stated field by field (`TakeWrites`, `SetWrites`, ...); from
  that come the lists with a task more, less or moved (`RingAdd`, `SibRemove`, `TreeMoved`,
  `TreeForked`, `TreeReleased`, and `RingJoin`, `RingLeave` for thread groups).
- exit_notify's loop takes the youngest child from its old list without mending the links of the
  next one. `SibDrop` says what is whole in the middle of it: every list but the
  head of that one. Each turn takes one task from that list and wakes who must be told (`Turn`), so
  after as many turns as there are tasks it is empty (`HandedOverWhole`).
- `ParentsLive` needs `NewParents`: the walk round the ring ends at a thread that has not begun
  to exit, or at process 1, and neither is the dying task or the child itself.
- `ReapedOnce` needs that threads see each other (`RingBack`): who sleeps in put_user is alone in
  its ring, so its zombie is in nobody else's scan (`FoundIsFree`).
- `NoExitMissed` is proved step by step: what a sleeper could find after the step it could find
  before (`NoNews`), unless the step tells him. exit_notify tells the parent of the dead, and the
  new parents of the zombies handed over; a zombie that its tracer gives back is told to
  its parent; and fork and release_task bring nobody new into a ring but the child
  (`ThreadsAfterFork`, `ThreadsAfterRelease`).

Only model-checked: `PollReturns`, which is liveness under fairness; TLAPS does not prove
that. (That a search for a pid ends is stated in `GetPid` as a decreasing number of passes,
and proved.) The step that `NoExitMissed` leaves out stays left out in the theorem.

## 6. Plan

1. (done) `MpiMailbox`, `MpiChannel`, `MpiKernel`; types, poll list, wake-up, order proved.
2. (done) `ProcessTree`, `GetPid`, `ForkResources`, `Vegenere`; proofs of `GetPid`,
   `Vegenere` and `MpiChannel`.
3. (done) Proofs of `MpiKernel`: what receive holds, the heap, timeouts, leaks, and the
   refinement of `MpiChannel`; proofs of `ForkResources`.
4. (done) Proofs of `ProcessTree`: walks as least closed sets, the loop of
   exit_notify, the rings, and every property its runs check.
5. Stopped children and process groups in `ProcessTree`; exec in `ForkResources`.

## 7. Not modelled

- `mem_stats` and the two fixed tables of `helper.c`: debugging output. Their counters
  do not stop at the end of the tables; a model would only restate the missing test.
  The live blocks themselves are `heap` in `MpiKernel`.
- `vegenere.c`: its first 260 lines are an unfinished draft, the rest repeats
  `vegenere_copy.c`.
- Sizes and bytes of messages, and the NUL that receive writes one byte past a full
  buffer (`sys_mpi_receive.c:83`).
- The HW_0 exercises, the user stubs, the Python bindings, register saving and traps of
  `entry.S`, and the parts of `sched.h` that declare what no modelled code uses.
