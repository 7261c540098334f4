----------------------------- MODULE MpiMailbox -----------------------------
(***************************************************************************)
(* What the message system calls of HW_1 promise: every call happens at    *)
(* once.  A send puts one message at the end of the queue of the process   *)
(* it names, a receive takes the oldest message of the sender it names, a  *)
(* child starts with an empty queue and a process disappears with its      *)
(* messages.  MpiChannel adds the poll of HW_2.                            *)
(***************************************************************************)
EXTENDS Naturals, Sequences

CONSTANTS Task, InitTask, NoTask, Pids, Message

VARIABLES
  life,         \* "FREE", "ALIVE" or "ZOMBIE"
  pid,          \* the process id, 0 when FREE
  p_opptr,      \* the parent
  comm_on,      \* registered for messages
  comm_channel  \* messages sent and not yet received

vars == <<life, pid, p_opptr, comm_on, comm_channel>>

Init ==
  /\ life = [t \in Task |-> IF t = InitTask THEN "ALIVE" ELSE "FREE"]
  /\ pid = [t \in Task |-> IF t = InitTask THEN 1 ELSE 0]
  /\ p_opptr = [t \in Task |-> NoTask]
  /\ comm_on = [t \in Task |-> FALSE]
  /\ comm_channel = [t \in Task |-> << >>]

Register(t) ==
  /\ life[t] = "ALIVE"
  /\ ~comm_on[t]
  /\ comm_on' = [comm_on EXCEPT ![t] = TRUE]
  /\ comm_channel' = [comm_channel EXCEPT ![t] = << >>]
  /\ UNCHANGED <<life, pid, p_opptr>>

Fresh(m) == \A t \in Task : \A i \in DOMAIN comm_channel[t] : comm_channel[t][i] # m

Send(t, receiver, m) ==
  /\ life[t] = "ALIVE"
  /\ life[receiver] # "FREE"
  /\ comm_on[t] /\ comm_on[receiver]
  /\ m.sender_pid = pid[t] /\ m.addressee = pid[receiver] /\ Fresh(m)
  /\ comm_channel' = [comm_channel EXCEPT ![receiver] = Append(@, m)]
  /\ UNCHANGED <<life, pid, p_opptr, comm_on>>

IsOldestFrom(t, i) ==
  \A j \in DOMAIN comm_channel[t] :
    comm_channel[t][j].sender_pid = comm_channel[t][i].sender_pid => i <= j

Receive(t, i) ==
  /\ life[t] = "ALIVE"
  /\ comm_on[t]
  /\ IsOldestFrom(t, i)
  /\ comm_channel' = [comm_channel EXCEPT ![t] =
                        [j \in 1..(Len(@) - 1) |-> IF j < i THEN @[j] ELSE @[j + 1]]]
  /\ UNCHANGED <<life, pid, p_opptr, comm_on>>

UsedPids == {pid[t] : t \in {u \in Task : life[u] # "FREE"}}

(* The child is registered as its parent is, except under process 1, and never
   gets its parent's messages.                                               *)
Fork(t, child) ==
  /\ life[t] = "ALIVE"
  /\ life[child] = "FREE"
  /\ \E p \in Pids \ UsedPids : pid' = [pid EXCEPT ![child] = p]
  /\ life' = [life EXCEPT ![child] = "ALIVE"]
  /\ p_opptr' = [p_opptr EXCEPT ![child] = t]
  /\ comm_on' = [comm_on EXCEPT ![child] = comm_on[t] /\ pid[t] # 1]
  /\ UNCHANGED comm_channel

Exit(t) ==
  /\ life[t] = "ALIVE"
  /\ t # InitTask
  /\ life' = [life EXCEPT ![t] = "ZOMBIE"]
  /\ p_opptr' = [u \in Task |-> IF p_opptr[u] = t THEN InitTask ELSE p_opptr[u]]
  /\ UNCHANGED <<pid, comm_on, comm_channel>>

(* The queue release_task leaves behind: none.  (Kept leaves it to whatever gets
   the memory next.)                                                           *)
QueueKept(child) == comm_channel
QueueReleased(child) == [comm_channel EXCEPT ![child] = << >>]

Reap(t, child) ==
  /\ life[t] = "ALIVE"
  /\ life[child] = "ZOMBIE"
  /\ p_opptr[child] = t
  /\ life' = [life EXCEPT ![child] = "FREE"]
  /\ pid' = [pid EXCEPT ![child] = 0]
  /\ p_opptr' = [p_opptr EXCEPT ![child] = NoTask]
  /\ comm_on' = [comm_on EXCEPT ![child] = FALSE]
  /\ comm_channel' = QueueReleased(child)
=============================================================================
