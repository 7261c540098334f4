----------------------------- MODULE MpiChannel -----------------------------
(***************************************************************************)
(* What the message system calls of HW_2 promise: those of HW_1, and a     *)
(* poll that waits only while none of the polled processes has a message   *)
(* in the caller's queue, until one of them sends, the time is up or a     *)
(* signal comes.  MpiKernel splits the calls where they sleep; this module *)
(* is what it is measured against.                                         *)
(***************************************************************************)
EXTENDS Naturals, Sequences

CONSTANTS Task, InitTask, NoTask, Pids, Message

ASSUME TasksAreTasks == InitTask \in Task /\ NoTask \notin Task
ASSUME PidsAreNumbers == Pids \subseteq Nat \ {0} /\ 1 \in Pids
ASSUME MessagesHaveSender == \A m \in Message : m.sender_pid \in Pids /\ m.addressee \in Pids

VARIABLES
  life, pid, p_opptr, comm_on, comm_channel, \* as in MpiMailbox
  waiting                                    \* the pids a sleeping poll waits for

Mailbox == INSTANCE MpiMailbox

vars == <<life, pid, p_opptr, comm_on, comm_channel, waiting>>

Init == Mailbox!Init /\ waiting = [t \in Task |-> {}]

(* A task in poll makes no other call. *)
Awake(t) == waiting[t] = {}

HasMessageFrom(t, p) == \E i \in DOMAIN comm_channel[t] : comm_channel[t][i].sender_pid = p

(* (MayBlockBlindly is a poll that does not look.) *)
MayBlockBlindly(t, ps) == TRUE

MayBlock(t, ps) == \A p \in ps : ~HasMessageFrom(t, p)

PollBlock(t, ps) ==
  /\ life[t] = "ALIVE" /\ Awake(t)
  /\ comm_on[t]
  /\ ps # {} /\ MayBlock(t, ps)
  /\ waiting' = [waiting EXCEPT ![t] = ps]
  /\ UNCHANGED <<life, pid, p_opptr, comm_on, comm_channel>>

(* Timeout or signal. *)
PollGiveUp(t) ==
  /\ waiting[t] # {}
  /\ waiting' = [waiting EXCEPT ![t] = {}]
  /\ UNCHANGED <<life, pid, p_opptr, comm_on, comm_channel>>

WaitsFor(receiver, p) == p \in waiting[receiver]

Send(t, receiver, m) ==
  /\ Awake(t)
  /\ Mailbox!Send(t, receiver, m)
  /\ waiting' = [waiting EXCEPT ![receiver] = IF WaitsFor(receiver, pid[t]) THEN {} ELSE @]

(* The calls that wake nobody. *)
QuietCall(t) ==
  /\ Awake(t)
  /\ \/ Mailbox!Register(t)
     \/ \E i \in DOMAIN comm_channel[t] : Mailbox!Receive(t, i)
     \/ \E child \in Task : Mailbox!Fork(t, child) \/ Mailbox!Reap(t, child)
     \/ Mailbox!Exit(t)
  /\ UNCHANGED waiting

Next ==
  \E t \in Task :
    \/ \E receiver \in Task, m \in Message : Send(t, receiver, m)
    \/ \E ps \in SUBSET Pids : PollBlock(t, ps)
    \/ PollGiveUp(t)
    \/ QuietCall(t)

Spec == Init /\ [][Next]_vars

----------------------------------------------------------------------------
(* Types. *)
TypeOK ==
  /\ life \in [Task -> {"FREE", "ALIVE", "ZOMBIE"}]
  /\ pid \in [Task -> Pids \cup {0}]
  /\ p_opptr \in [Task -> Task \cup {NoTask}]
  /\ comm_on \in [Task -> BOOLEAN]
  /\ comm_channel \in [Task -> Seq(Message)]
  /\ waiting \in [Task -> SUBSET Pids]

(* Nobody waits for a process whose message he already has: sys_mpi_poll and the
   wake-up in sys_mpi_send together.                                         *)
WaitsForNothingThere ==
  \A t \in Task : \A p \in waiting[t] : ~HasMessageFrom(t, p)

(* A task that is not registered, a child of process 1 or new memory among them,
   has no messages: do_fork and release_task together.                       *)
UnregisteredHasNothing ==
  \A t \in Task : ~comm_on[t] => comm_channel[t] = << >>
=============================================================================
