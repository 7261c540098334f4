-------------------------- MODULE MpiChannelProofs --------------------------
(***************************************************************************)
(* Proofs about MpiChannel: the promise itself never lets a task wait for  *)
(* a message it has, and gives no messages to a task that did not ask.     *)
(***************************************************************************)
EXTENDS MpiChannel, TLAPS

(* Memory that holds no task is not registered; so a fork finds its queue empty. *)
FreeIsOff == \A t \in Task : life[t] = "FREE" => ~comm_on[t]

IInv == TypeOK /\ FreeIsOff /\ UnregisteredHasNothing /\ WaitsForNothingThere

(* No step but a send adds to a queue: from whom a task has messages, it had them. *)
NoNews == \A t \in Task, p \in Pids : HasMessageFrom(t, p)' => HasMessageFrom(t, p)

----------------------------------------------------------------------------
LEMMA InitIInv == Init => IInv
<1> SUFFICES ASSUME Init PROVE IInv
  OBVIOUS
<1> USE DEF Init, Mailbox!Init
<1>1. TypeOK
  BY TasksAreTasks, PidsAreNumbers DEF TypeOK
<1>2. FreeIsOff /\ UnregisteredHasNothing /\ WaitsForNothingThere
  BY DEF FreeIsOff, UnregisteredHasNothing, WaitsForNothingThere
<1> QED
  BY <1>1, <1>2 DEF IInv

(* A step that brings no news and makes nobody wait keeps everybody right. *)
LEMMA StillNothing ==
  ASSUME TypeOK, WaitsForNothingThere, NoNews,
         \A t \in Task : waiting'[t] \subseteq waiting[t]
  PROVE  WaitsForNothingThere'
BY DEF TypeOK, WaitsForNothingThere, NoNews

(* A receive closes the gap it makes: the queue is a queue of fewer messages. *)
LEMMA ReceiveStep ==
  ASSUME IInv, NEW t \in Task, NEW i \in DOMAIN comm_channel[t], Mailbox!Receive(t, i)
  PROVE  /\ comm_channel' \in [Task -> Seq(Message)]
         /\ NoNews
         /\ \A s \in Task \ {t} : comm_channel'[s] = comm_channel[s]
<1> DEFINE q == comm_channel[t]
           rest == [j \in 1..(Len(q) - 1) |-> IF j < i THEN q[j] ELSE q[j + 1]]
<1>1. q \in Seq(Message) /\ i \in 1..Len(q)
  BY DEF IInv, TypeOK
<1>2. comm_channel' = [comm_channel EXCEPT ![t] = rest]
  BY DEF Mailbox!Receive
<1>3. \A j \in 1..(Len(q) - 1) : j \in 1..Len(q) /\ j + 1 \in 1..Len(q)
  BY <1>1
<1>4. Len(q) - 1 \in Nat
  BY <1>1
<1>5. rest \in Seq(Message)
  BY <1>1, <1>3, <1>4
<1>6. comm_channel' \in [Task -> Seq(Message)]
  BY <1>2, <1>5 DEF IInv, TypeOK
<1>7. \A s \in Task \ {t} : comm_channel'[s] = comm_channel[s]
  BY <1>2 DEF IInv, TypeOK
<1>8. ASSUME NEW p \in Pids, HasMessageFrom(t, p)' PROVE HasMessageFrom(t, p)
  <2>1. comm_channel'[t] = rest
    BY <1>2 DEF IInv, TypeOK
  <2>2. PICK j \in 1..(Len(q) - 1) : rest[j].sender_pid = p
    BY <1>8, <2>1 DEF HasMessageFrom
  <2>3. \E k \in 1..Len(q) : q[k].sender_pid = p
    BY <2>2, <1>3
  <2> QED
    BY <2>3, <1>1 DEF HasMessageFrom
<1>9. NoNews
  BY <1>7, <1>8 DEF NoNews, HasMessageFrom
<1> QED
  BY <1>6, <1>7, <1>9

(* A send adds one message, from a pid its receiver does not wait for afterwards. *)
LEMMA SendStep ==
  ASSUME IInv, NEW t \in Task, NEW receiver \in Task, NEW m \in Message,
         Send(t, receiver, m)
  PROVE  IInv'
<1> USE DEF IInv
<1> DEFINE q == comm_channel[receiver]
<1>1. q \in Seq(Message) /\ comm_channel' = [comm_channel EXCEPT ![receiver] = Append(q, m)]
  BY DEF Send, Mailbox!Send, TypeOK
<1>2. UNCHANGED <<life, pid, p_opptr, comm_on>> /\ comm_on[receiver] /\ m.sender_pid = pid[t]
  BY DEF Send, Mailbox!Send
<1>3. waiting' = [waiting EXCEPT ![receiver] =
                    IF pid[t] \in waiting[receiver] THEN {} ELSE waiting[receiver]]
  BY DEF Send, WaitsFor
<1>4. TypeOK'
  BY <1>1, <1>2, <1>3 DEF TypeOK
<1>5. FreeIsOff' /\ UnregisteredHasNothing'
  BY <1>1, <1>2 DEF TypeOK, FreeIsOff, UnregisteredHasNothing
<1>6. ASSUME NEW p \in waiting'[receiver] PROVE ~HasMessageFrom(receiver, p)'
  <2>1. p \in waiting[receiver] /\ p # m.sender_pid
    BY <1>2, <1>3, <1>6 DEF TypeOK
  <2>2. \A i \in 1..Len(q) : q[i].sender_pid # p
    BY <2>1, <1>1 DEF WaitsForNothingThere, HasMessageFrom
  <2>3. \A i \in 1..(Len(q) + 1) : Append(q, m)[i].sender_pid # p
    BY <2>1, <2>2, <1>1
  <2>4. comm_channel'[receiver] = Append(q, m) /\ DOMAIN Append(q, m) = 1..(Len(q) + 1)
    BY <1>1 DEF TypeOK
  <2> QED
    BY <2>3, <2>4 DEF HasMessageFrom
<1>7. ASSUME NEW s \in Task \ {receiver}, NEW p \in waiting'[s] PROVE ~HasMessageFrom(s, p)'
  BY <1>1, <1>3, <1>7 DEF TypeOK, WaitsForNothingThere, HasMessageFrom
<1>8. WaitsForNothingThere'
  BY <1>6, <1>7 DEF WaitsForNothingThere
<1> QED
  BY <1>4, <1>5, <1>8

(* The calls that wake nobody, one by one. *)
LEMMA QuietStep ==
  ASSUME IInv, NEW t \in Task, QuietCall(t)
  PROVE  IInv'
<1> USE DEF IInv
<1>0. UNCHANGED waiting
  BY DEF QuietCall
<1>1. CASE Mailbox!Register(t)
  <2> USE <1>1 DEF Mailbox!Register
  <2>1. TypeOK'
    BY <1>0 DEF TypeOK
  <2>2. FreeIsOff' /\ UnregisteredHasNothing'
    BY DEF TypeOK, FreeIsOff, UnregisteredHasNothing
  <2>3. NoNews
    BY DEF TypeOK, NoNews, HasMessageFrom
  <2> QED
    BY <2>1, <2>2, <2>3, <1>0, StillNothing
<1>2. ASSUME NEW i \in DOMAIN comm_channel[t], Mailbox!Receive(t, i) PROVE IInv'
  <2>1. /\ comm_channel' \in [Task -> Seq(Message)] /\ NoNews
        /\ \A s \in Task \ {t} : comm_channel'[s] = comm_channel[s]
    BY <1>2, ReceiveStep
  <2>2. UNCHANGED <<life, pid, p_opptr, comm_on>> /\ comm_on[t]
    BY <1>2 DEF Mailbox!Receive
  <2>3. TypeOK'
    BY <1>0, <2>1, <2>2 DEF TypeOK
  <2>4. FreeIsOff' /\ UnregisteredHasNothing'
    BY <2>1, <2>2 DEF FreeIsOff, UnregisteredHasNothing
  <2> QED
    BY <2>1, <2>3, <2>4, <1>0, StillNothing
<1>3. ASSUME NEW child \in Task, Mailbox!Fork(t, child) PROVE IInv'
  <2> USE <1>3 DEF Mailbox!Fork
  <2>1. TypeOK'
    BY <1>0 DEF TypeOK
  <2>2. FreeIsOff' /\ UnregisteredHasNothing'
    BY DEF TypeOK, FreeIsOff, UnregisteredHasNothing
  <2>3. NoNews
    BY DEF NoNews, HasMessageFrom
  <2> QED
    BY <2>1, <2>2, <2>3, <1>0, StillNothing
<1>4. ASSUME NEW child \in Task, Mailbox!Reap(t, child) PROVE IInv'
  <2> USE <1>4 DEF Mailbox!Reap, Mailbox!QueueReleased
  <2>1. TypeOK'
    BY <1>0 DEF TypeOK
  <2>2. FreeIsOff' /\ UnregisteredHasNothing'
    BY DEF TypeOK, FreeIsOff, UnregisteredHasNothing
  <2>3. NoNews
    BY DEF TypeOK, NoNews, HasMessageFrom
  <2> QED
    BY <2>1, <2>2, <2>3, <1>0, StillNothing
<1>5. CASE Mailbox!Exit(t)
  <2> USE <1>5 DEF Mailbox!Exit
  <2>1. TypeOK'
    BY <1>0, TasksAreTasks DEF TypeOK
  <2>2. FreeIsOff' /\ UnregisteredHasNothing'
    BY DEF TypeOK, FreeIsOff, UnregisteredHasNothing
  <2>3. NoNews
    BY DEF NoNews, HasMessageFrom
  <2> QED
    BY <2>1, <2>2, <2>3, <1>0, StillNothing
<1> QED
  BY <1>1, <1>2, <1>3, <1>4, <1>5 DEF QuietCall

LEMMA Inductive == IInv /\ [Next]_vars => IInv'
<1> SUFFICES ASSUME IInv, [Next]_vars PROVE IInv'
  OBVIOUS
<1> USE DEF IInv
<1>1. ASSUME NEW t \in Task, NEW receiver \in Task, NEW m \in Message, Send(t, receiver, m)
      PROVE  IInv'
  BY <1>1, SendStep
<1>2. ASSUME NEW t \in Task, NEW ps \in SUBSET Pids, PollBlock(t, ps) PROVE IInv'
  <2> USE <1>2 DEF PollBlock
  <2>1. TypeOK'
    BY DEF TypeOK
  <2>2. FreeIsOff' /\ UnregisteredHasNothing'
    BY DEF FreeIsOff, UnregisteredHasNothing
  <2>3. WaitsForNothingThere'
    BY DEF TypeOK, WaitsForNothingThere, MayBlock, HasMessageFrom
  <2> QED
    BY <2>1, <2>2, <2>3
<1>3. ASSUME NEW t \in Task, PollGiveUp(t) PROVE IInv'
  <2> USE <1>3 DEF PollGiveUp
  <2>1. TypeOK'
    BY DEF TypeOK
  <2>2. FreeIsOff' /\ UnregisteredHasNothing'
    BY DEF FreeIsOff, UnregisteredHasNothing
  <2>3. NoNews /\ \A s \in Task : waiting'[s] \subseteq waiting[s]
    BY DEF TypeOK, NoNews, HasMessageFrom
  <2> QED
    BY <2>1, <2>2, <2>3, StillNothing
<1>4. ASSUME NEW t \in Task, QuietCall(t) PROVE IInv'
  BY <1>4, QuietStep
<1>5. CASE UNCHANGED vars
  BY <1>5 DEF vars, TypeOK, FreeIsOff, UnregisteredHasNothing, WaitsForNothingThere,
              HasMessageFrom
<1> QED
  BY <1>1, <1>2, <1>3, <1>4, <1>5 DEF Next

LEMMA AlwaysIInv == Spec => []IInv
BY InitIInv, Inductive, PTL DEF Spec

(* Whatever the queues and however many processes: no poll of the promise sleeps
   over a message it polls for.                                                 *)
THEOREM NobodyWaitsForWhatIsThere == Spec => []WaitsForNothingThere
<1>1. IInv => WaitsForNothingThere
  BY DEF IInv
<1> QED
  BY <1>1, AlwaysIInv, PTL

(* Forks, failed or not, exits and reaps never leave messages with a task that is
   not registered, nor in memory the next child will get.                       *)
THEOREM UnregisteredIsEmpty == Spec => []UnregisteredHasNothing
<1>1. IInv => UnregisteredHasNothing
  BY DEF IInv
<1> QED
  BY <1>1, AlwaysIInv, PTL
=============================================================================
