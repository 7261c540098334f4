-------------------------- MODULE MpiOrderProofs ---------------------------
(***************************************************************************)
(* The queues and the heap, whatever sleeps.  The messages of one sender   *)
(* wait in the order they were sent, although sends of several processes   *)
(* overlap and a pid can come back in another process; a message leaves    *)
(* its queue only by its owner's receive, which takes the one it copied;   *)
(* and no block is freed while a queue or a call points to it.             *)
(***************************************************************************)
EXTENDS MpiKernelProofs

(* No two task_structs in memory have one pid. *)
PidsUnique ==
  \A t, u \in Task : state[t] # "FREE" /\ state[u] # "FREE" /\ pid[t] = pid[u] => t = u

(* Messages are numbered as they are allocated, each number once. *)
Numbered ==
  /\ \A r \in Task : \A i \in DOMAIN comm_channel[r] : comm_channel[r][i].id <= sent
  /\ \A t \in Task : pc[t] \in SendPcs => held[t].id <= sent
  /\ \A t, u \in Task :
       pc[t] \in SendPcs /\ pc[u] \in SendPcs /\ held[t].id = held[u].id => t = u

(* A message on its way is in no queue, and is younger than all of its sender. *)
Youngest ==
  \A t, r \in Task : \A i \in DOMAIN comm_channel[r] :
    pc[t] \in SendPcs =>
      /\ comm_channel[r][i].id # held[t].id
      /\ comm_channel[r][i].sender_pid = pid[t] => comm_channel[r][i].id < held[t].id

(* A message is in one queue, once. *)
InOnePlace ==
  \A r, s \in Task : \A i \in DOMAIN comm_channel[r], j \in DOMAIN comm_channel[s] :
    comm_channel[r][i].id = comm_channel[s][j].id => r = s /\ i = j

Order == PidsUnique /\ Numbered /\ Youngest /\ FifoPerSender /\ InOnePlace

----------------------------------------------------------------------------
(* get_pid hands out a pid no task_struct in memory has. *)
LEMMA PidsUniqueStep == Base /\ PidsUnique /\ [Next]_vars => PidsUnique'
<1> SUFFICES ASSUME Base, PidsUnique, [Next]_vars PROVE PidsUnique'
  OBVIOUS
<1> USE TaskAssumption, PidAssumption DEF Base, process, polling, local
<1> DEFINE Goal == PidsUnique'
<1>1. ASSUME NEW t \in Task, Register(t)
      PROVE  Goal
  BY <1>1 DEF TypeOK, PidsUnique, Register
<1>2. ASSUME NEW t \in Task, NEW p \in Pids, SendBegin(t, p)
      PROVE  Goal
  BY <1>2 DEF TypeOK, PidsUnique, SendBegin
<1>3. ASSUME NEW t \in Task, SendAllocData(t)
      PROVE  Goal
  BY <1>3 DEF TypeOK, PidsUnique, SendAllocData
<1>4. ASSUME NEW t \in Task, SendNoMemory(t)
      PROVE  Goal
  BY <1>4 DEF TypeOK, PidsUnique, SendNoMemory, Return
<1>5. ASSUME NEW t \in Task, SendFault(t)
      PROVE  Goal
  BY <1>5 DEF TypeOK, PidsUnique, SendFault, Return
<1>6. ASSUME NEW t \in Task, SendLink(t)
      PROVE  Goal
  <2>1. \A u \in Task : state'[u] # "FREE" => state[u] # "FREE"
    BY <1>6 DEF StateOK, PollListInUse, SendLink, WakeUp, PollsFor
  <2> QED BY <1>6, <2>1 DEF PidsUnique, SendLink
<1>7. ASSUME NEW t \in Task, NEW p \in Pids, ReceiveBegin(t, p)
      PROVE  Goal
  BY <1>7 DEF TypeOK, PidsUnique, ReceiveBegin
<1>8. ASSUME NEW t \in Task, ReceiveEnd(t)
      PROVE  Goal
  BY <1>8 DEF TypeOK, PidsUnique, ReceiveEnd, Return
<1>9. ASSUME NEW t \in Task, ReceiveFault(t)
      PROVE  Goal
  BY <1>9 DEF TypeOK, PidsUnique, ReceiveFault, Return
<1>10. ASSUME NEW t \in Task, NEW request \in PollRequests, PollBegin(t, request)
      PROVE  Goal
  BY <1>10 DEF TypeOK, PidsUnique, PollBegin
<1>11. ASSUME NEW t \in Task, PollFault(t)
      PROVE  Goal
  BY <1>11 DEF TypeOK, PidsUnique, PollFault, Return
<1>12. ASSUME NEW t \in Task, PollScanFound(t)
      PROVE  Goal
  BY <1>12 DEF TypeOK, PidsUnique, PollScanFound
<1>13. ASSUME NEW t \in Task, PollScanNone(t)
      PROVE  Goal
  BY <1>13 DEF TypeOK, PidsUnique, PollScanNone
<1>14. ASSUME NEW t \in Task, PollNoMemory(t)
      PROVE  Goal
  BY <1>14 DEF TypeOK, PidsUnique, PollNoMemory, Return
<1>15. ASSUME NEW t \in Task, PollSleep(t)
      PROVE  Goal
  BY <1>15 DEF TypeOK, PidsUnique, PollSleep, PublishPollList
<1>16. ASSUME NEW t \in Task, PollRefused(t)
      PROVE  Goal
  BY <1>16 DEF TypeOK, PidsUnique, PollRefused, PublishPollList
<1>17. ASSUME NEW t \in Task, PollRescan(t)
      PROVE  Goal
  BY <1>17 DEF PidsUnique, PollRescan
<1>18. ASSUME NEW t \in Task, PollEnd(t)
      PROVE  Goal
  BY <1>18 DEF TypeOK, PidsUnique, PollEnd, Return
<1>19. ASSUME NEW t \in Task, NEW child \in Task, ForkBegin(t, child)
      PROVE  Goal
  <2>1. PICK p \in get_pid : pid' = [pid EXCEPT ![child] = p]
    BY <1>19 DEF ForkBegin
  <2>2. \A u \in Task : state[u] # "FREE" => pid[u] # p
    BY <2>1 DEF get_pid
  <2>3. \A u \in Task \ {child} : state'[u] = state[u] /\ pid'[u] = pid[u]
    BY <1>19, <2>1 DEF TypeOK, ForkBegin
  <2>4. pid'[child] = p
    BY <2>1 DEF TypeOK
  <2> QED BY <2>2, <2>3, <2>4 DEF PidsUnique
<1>20. ASSUME NEW t \in Task, ForkEnd(t)
      PROVE  Goal
  <2>1. \A u \in Task : state'[u] # "FREE" => state[u] # "FREE"
    BY <1>20 DEF TypeOK, ForkOK, ForkEnd
  <2> QED BY <1>20, <2>1 DEF PidsUnique, ForkEnd
<1>21. ASSUME NEW t \in Task, ForkFail(t)
      PROVE  Goal
  BY <1>21 DEF TypeOK, PidsUnique, ForkFail, FreeTask
<1>22. ASSUME NEW t \in Task, NEW child \in Task, Wait(t, child)
      PROVE  Goal
  BY <1>22 DEF TypeOK, PidsUnique, Wait, FreeTask
<1>23. ASSUME NEW t \in Task, Exit(t)
      PROVE  Goal
  BY <1>23 DEF TypeOK, PidsUnique, Exit
<1>24. ASSUME NEW t \in Task, TimerExpire(t)
      PROVE  Goal
  BY <1>24 DEF StateOK, PidsUnique, TimerExpire
<1>25. ASSUME NEW t \in Task, Signal(t)
      PROVE  Goal
  BY <1>25 DEF TypeOK, PidsUnique, Signal
<1>26. CASE UNCHANGED vars
  BY <1>26 DEF vars, PidsUnique
<1> QED BY <1>1, <1>2, <1>3, <1>4, <1>5, <1>6, <1>7, <1>8, <1>9, <1>10, <1>11, <1>12, <1>13,
           <1>14, <1>15, <1>16, <1>17, <1>18, <1>19, <1>20, <1>21, <1>22, <1>23, <1>24, <1>25,
           <1>26 DEF Next, Call, Continue

----------------------------------------------------------------------------
(* What a step can do to the messages: begin a send, link one, unlink one, or
   nothing but to drop a queue and end sends.                                *)
SendersStay ==
  \A t \in Task : pc'[t] \in SendPcs =>
    pc[t] \in SendPcs /\ held'[t] = held[t] /\ pid'[t] = pid[t]

QueuesShrink ==
  \A r \in Task : comm_channel'[r] \in {comm_channel[r], << >>}

(* Only the linking of a message, the start of a send and the end of a receive
   touch senders and queues; any other step leaves each sender where it is and
   each queue as it is or empty.                                             *)
LEMMA MessageSteps ==
  ASSUME Base, [Next]_vars
  PROVE  \/ \E t \in Task, p \in Pids : SendBegin(t, p)
         \/ \E t \in Task : SendLink(t) \/ ReceiveEnd(t)
         \/ SendersStay /\ QueuesShrink /\ sent' = sent
<1> DEFINE Goal == \/ \E t \in Task, p \in Pids : SendBegin(t, p)
                   \/ \E t \in Task : SendLink(t) \/ ReceiveEnd(t)
                   \/ SendersStay /\ QueuesShrink /\ sent' = sent
<1> SUFFICES Goal
  OBVIOUS
<1> USE TaskAssumption, PidAssumption DEF Base, process, polling, local
<1>1. ASSUME NEW u \in Task, Register(u)
      PROVE  Goal
  BY <1>1 DEF SendersStay, QueuesShrink, Register
<1>2. ASSUME NEW u \in Task, NEW p \in Pids, SendBegin(u, p)
      PROVE  Goal
  BY <1>2
<1>3. ASSUME NEW u \in Task, SendAllocData(u)
      PROVE  Goal
  BY <1>3 DEF SendersStay, QueuesShrink, SendPcs, SendAllocData
<1>4. ASSUME NEW u \in Task, SendNoMemory(u)
      PROVE  Goal
  BY <1>4 DEF TypeOK, SendersStay, QueuesShrink, SendPcs, SendNoMemory, Return
<1>5. ASSUME NEW u \in Task, SendFault(u)
      PROVE  Goal
  BY <1>5 DEF TypeOK, SendersStay, QueuesShrink, SendPcs, SendFault, Return
<1>6. ASSUME NEW u \in Task, SendLink(u)
      PROVE  Goal
  BY <1>6
<1>7. ASSUME NEW u \in Task, NEW p \in Pids, ReceiveBegin(u, p)
      PROVE  Goal
  BY <1>7 DEF TypeOK, SendersStay, QueuesShrink, SendPcs, ReceiveBegin
<1>8. ASSUME NEW u \in Task, ReceiveEnd(u)
      PROVE  Goal
  BY <1>8
<1>9. ASSUME NEW u \in Task, ReceiveFault(u)
      PROVE  Goal
  BY <1>9 DEF SendersStay, QueuesShrink, SendPcs, ReceiveFault, Return
<1>10. ASSUME NEW u \in Task, NEW request \in PollRequests, PollBegin(u, request)
      PROVE  Goal
  BY <1>10 DEF SendersStay, QueuesShrink, SendPcs, PollBegin
<1>11. ASSUME NEW u \in Task, PollFault(u)
      PROVE  Goal
  BY <1>11 DEF SendersStay, QueuesShrink, SendPcs, PollFault, Return
<1>12. ASSUME NEW u \in Task, PollScanFound(u)
      PROVE  Goal
  BY <1>12 DEF SendersStay, QueuesShrink, SendPcs, PollScanFound
<1>13. ASSUME NEW u \in Task, PollScanNone(u)
      PROVE  Goal
  BY <1>13 DEF SendersStay, QueuesShrink, SendPcs, PollScanNone
<1>14. ASSUME NEW u \in Task, PollNoMemory(u)
      PROVE  Goal
  BY <1>14 DEF SendersStay, QueuesShrink, SendPcs, PollNoMemory, Return
<1>15. ASSUME NEW u \in Task, PollSleep(u)
      PROVE  Goal
  BY <1>15 DEF SendersStay, QueuesShrink, SendPcs, PollSleep, PublishPollList
<1>16. ASSUME NEW u \in Task, PollRefused(u)
      PROVE  Goal
  BY <1>16 DEF SendersStay, QueuesShrink, SendPcs, PollRefused, PublishPollList
<1>17. ASSUME NEW u \in Task, PollRescan(u)
      PROVE  Goal
  BY <1>17 DEF SendersStay, QueuesShrink, SendPcs, PollRescan
<1>18. ASSUME NEW u \in Task, PollEnd(u)
      PROVE  Goal
  BY <1>18 DEF SendersStay, QueuesShrink, SendPcs, PollEnd, Return
<1>19. ASSUME NEW u \in Task, NEW child \in Task, ForkBegin(u, child)
      PROVE  Goal
  BY <1>19 DEF StateOK, SendersStay, QueuesShrink, SendPcs, ForkBegin, ChildChannel
<1>20. ASSUME NEW u \in Task, ForkEnd(u)
      PROVE  Goal
  BY <1>20 DEF TypeOK, SendersStay, QueuesShrink, SendPcs, ForkEnd
<1>21. ASSUME NEW u \in Task, ForkFail(u)
      PROVE  Goal
  BY <1>21 DEF StateOK, ForkOK, SendersStay, QueuesShrink, SendPcs, ForkFail, FreeTask, Return
<1>22. ASSUME NEW u \in Task, NEW child \in Task, Wait(u, child)
      PROVE  Goal
  BY <1>22 DEF TypeOK, StateOK, SendersStay, QueuesShrink, SendPcs, Wait, FreeTask
<1>23. ASSUME NEW u \in Task, Exit(u)
      PROVE  Goal
  BY <1>23 DEF SendersStay, QueuesShrink, SendPcs, Exit
<1>24. ASSUME NEW u \in Task, TimerExpire(u)
      PROVE  Goal
  BY <1>24 DEF SendersStay, QueuesShrink, TimerExpire
<1>25. ASSUME NEW u \in Task, Signal(u)
      PROVE  Goal
  BY <1>25 DEF SendersStay, QueuesShrink, Signal
<1>26. CASE UNCHANGED vars
  BY <1>26 DEF vars, SendersStay, QueuesShrink
<1> QED BY <1>1, <1>2, <1>3, <1>4, <1>5, <1>6, <1>7, <1>8, <1>9, <1>10, <1>11, <1>12, <1>13,
           <1>14, <1>15, <1>16, <1>17, <1>18, <1>19, <1>20, <1>21, <1>22, <1>23, <1>24, <1>25,
           <1>26 DEF Next, Call, Continue

----------------------------------------------------------------------------
(* The end of a send: its message goes to the end of one queue, or nowhere.  *)
LEMMA Linked ==
  ASSUME Base, NEW t \in Task, SendLink(t)
  PROVE  /\ pc[t] = "send_link" /\ peer[t] \in Task
         /\ held[t] \in Message /\ held[t].sender_pid = pid[t]
         /\ sent' = sent /\ pid' = pid /\ comm_on' = comm_on /\ heap' = heap
         /\ \A u \in Task : pc'[u] \in SendPcs =>
              u # t /\ pc[u] \in SendPcs /\ held'[u] = held[u] /\ pc'[u] = pc[u]
         /\ \A r \in Task : \/ comm_channel'[r] = comm_channel[r]
                            \/ /\ r = peer[t] /\ HasQueue(r)
                               /\ comm_channel'[r] = Append(comm_channel[r], held[t])
         /\ \A r \in Task : \A i \in DOMAIN comm_channel'[r] :
              \/ i \in DOMAIN comm_channel[r] /\ comm_channel'[r][i] = comm_channel[r][i]
              \/ /\ r = peer[t]
                 /\ i = Len(comm_channel[r]) + 1 /\ DOMAIN comm_channel[r] = 1..Len(comm_channel[r])
                 /\ comm_channel'[r][i] = held[t]
<1>1. pc[t] = "send_link" /\ peer[t] \in Task /\ held[t] \in Message
  BY DEF SendLink, Base, HoldsOK, SendPcs
<1>2. held[t].sender_pid = pid[t]
  BY <1>1 DEF Base, HoldsOK, SendPcs
<1>3. sent' = sent /\ pid' = pid /\ comm_on' = comm_on /\ heap' = heap
  BY DEF SendLink, process
<1>4. \A u \in Task : pc'[u] \in SendPcs =>
        u # t /\ pc[u] \in SendPcs /\ held'[u] = held[u] /\ pc'[u] = pc[u]
  BY DEF SendLink, Return, Base, TypeOK, SendPcs
<1>5. \A r \in Task : \/ comm_channel'[r] = comm_channel[r]
                      \/ /\ r = peer[t] /\ HasQueue(r)
                         /\ comm_channel'[r] = Append(comm_channel[r], held[t])
  BY <1>1 DEF SendLink, LinkInto, Base, TypeOK
<1>6. ASSUME NEW r \in Task, NEW i \in DOMAIN comm_channel'[r]
      PROVE  \/ i \in DOMAIN comm_channel[r] /\ comm_channel'[r][i] = comm_channel[r][i]
             \/ /\ r = peer[t]
                /\ i = Len(comm_channel[r]) + 1 /\ DOMAIN comm_channel[r] = 1..Len(comm_channel[r])
                /\ comm_channel'[r][i] = held[t]
  <2>1. comm_channel[r] \in Seq(Message)
    BY DEF Base, TypeOK
  <2>2. CASE comm_channel'[r] = comm_channel[r]
    BY <2>2
  <2>3. CASE r = peer[t] /\ comm_channel'[r] = Append(comm_channel[r], held[t])
    BY <1>1, <2>1, <2>3
  <2> QED BY <1>5, <2>2, <2>3
<1> QED BY <1>1, <1>2, <1>3, <1>4, <1>5, <1>6

(* The end of a receive: one position of one queue is closed, and it held the
   message that was copied out.                                              *)
LEMMA Unlinked ==
  ASSUME Base, NEW t \in Task, ReceiveEnd(t)
  PROVE  /\ sent' = sent /\ pid' = pid
         /\ \A u \in Task : pc'[u] \in SendPcs =>
              pc[u] \in SendPcs /\ held'[u] = held[u] /\ pc'[u] = pc[u]
         /\ \A r \in Task : r # t => comm_channel'[r] = comm_channel[r]
         /\ \E k \in DOMAIN comm_channel[t] :
              /\ k \in Int /\ comm_channel[t][k] = held[t]
              /\ \A i \in DOMAIN comm_channel'[t] :
                   /\ i \in Int
                   /\ i < k => i \in DOMAIN comm_channel[t]
                                 /\ comm_channel'[t][i] = comm_channel[t][i]
                   /\ i >= k => i + 1 \in DOMAIN comm_channel[t]
                                  /\ comm_channel'[t][i] = comm_channel[t][i + 1]
              /\ \A i \in DOMAIN comm_channel[t] :
                   /\ i < k => i \in DOMAIN comm_channel'[t]
                   /\ i > k => i - 1 \in DOMAIN comm_channel'[t]
<1>1. PICK k \in DOMAIN comm_channel[t] :
        /\ comm_channel[t][k] = held[t]
        /\ comm_channel' = [comm_channel EXCEPT ![t] = Without(@, k)]
  BY DEF ReceiveEnd
<1>2. comm_channel[t] \in Seq(Message) /\ Len(comm_channel[t]) \in Nat
  BY DEF Base, TypeOK
<1>3. /\ comm_channel'[t] = Without(comm_channel[t], k)
      /\ \A r \in Task : r # t => comm_channel'[r] = comm_channel[r]
  BY <1>1 DEF Base, TypeOK
<1>4. /\ comm_channel'[t] \in Seq(Message)
      /\ Len(comm_channel'[t]) = Len(comm_channel[t]) - 1
      /\ \A j \in 1..(Len(comm_channel[t]) - 1) :
           comm_channel'[t][j] = IF j < k THEN comm_channel[t][j] ELSE comm_channel[t][j + 1]
  BY <1>2, <1>3, WithoutFact
<1>5. /\ DOMAIN comm_channel'[t] = 1..(Len(comm_channel[t]) - 1)
      /\ DOMAIN comm_channel[t] = 1..Len(comm_channel[t])
  BY <1>2, <1>4
<1>6. k \in 1..Len(comm_channel[t])
  BY <1>5
<1>7. ASSUME NEW i \in 1..(Len(comm_channel[t]) - 1)
      PROVE  /\ i \in Int
             /\ i < k => i \in 1..Len(comm_channel[t])
                           /\ comm_channel'[t][i] = comm_channel[t][i]
             /\ i >= k => i + 1 \in 1..Len(comm_channel[t])
                            /\ comm_channel'[t][i] = comm_channel[t][i + 1]
  BY <1>2, <1>4, <1>6
<1>8. ASSUME NEW i \in 1..Len(comm_channel[t])
      PROVE  /\ i < k => i \in 1..(Len(comm_channel[t]) - 1)
             /\ i > k => i - 1 \in 1..(Len(comm_channel[t]) - 1)
  BY <1>2, <1>6
<1>9. /\ sent' = sent /\ pid' = pid
      /\ \A u \in Task : pc'[u] \in SendPcs =>
           pc[u] \in SendPcs /\ held'[u] = held[u] /\ pc'[u] = pc[u]
  BY DEF ReceiveEnd, Return, SendPcs, process, Base, TypeOK
<1> QED BY <1>1, <1>3, <1>5, <1>6, <1>7, <1>8, <1>9

----------------------------------------------------------------------------
(* Every step keeps the queues in the order their senders numbered messages. *)
LEMMA OrderStep == Base /\ Order /\ [Next]_vars => Order'
<1> SUFFICES ASSUME Base, Order, [Next]_vars PROVE Order'
  OBVIOUS
<1>0. PidsUnique'
  BY PidsUniqueStep DEF Order
<1>1. \A r \in Task : comm_channel[r] \in Seq(Message)
  BY DEF Base, TypeOK
<1>2. \A m \in Message : m.id \in Nat
  BY DEF Message
<1>3. ASSUME NEW t \in Task, NEW p \in Pids, SendBegin(t, p)
      PROVE  Order'
  <2>1. comm_channel' = comm_channel /\ sent' = sent + 1 /\ sent \in Nat
    BY <1>3, BoundAssumption DEF SendBegin, Base, TypeOK
  <2>2. held'[t].id = sent + 1
    BY <1>3 DEF SendBegin, Base, TypeOK
  <2>3. \A u \in Task \ {t} :
          pc'[u] \in SendPcs => pc[u] \in SendPcs /\ held'[u] = held[u] /\ pid'[u] = pid[u]
    BY <1>3 DEF SendBegin, Base, TypeOK, process
  <2>4. \A u \in Task : pc[u] \in SendPcs => held[u].id \in Nat
    BY <1>2 DEF Base, HoldsOK
  <2>5. \A r \in Task : \A i \in DOMAIN comm_channel[r] : comm_channel[r][i].id \in Nat
    BY <1>1, <1>2
  <2>6. Numbered'
    BY <2>1, <2>2, <2>3, <2>4, <2>5 DEF Order, Numbered
  <2>7. Youngest'
    BY <2>1, <2>2, <2>3, <2>4, <2>5 DEF Order, Numbered, Youngest
  <2>8. FifoPerSender'
    BY <2>1 DEF Order, FifoPerSender
  <2>9. InOnePlace'
    BY <2>1 DEF Order, InOnePlace
  <2> QED BY <1>0, <2>6, <2>7, <2>8, <2>9 DEF Order
<1>4. ASSUME NEW t \in Task, SendLink(t)
      PROVE  Order'
  <2>1. \A u \in Task : pc[u] \in SendPcs /\ u # t =>
          held[u].id # held[t].id /\ pid[u] # pid[t]
    BY <1>4, Linked DEF Order, Numbered, PidsUnique, Base, StateOK, SendPcs
  <2>2. Numbered'
    BY <1>4, Linked DEF Order, Numbered, SendPcs
  <2>3. Youngest'
    BY <1>4, <2>1, Linked DEF Order, Youngest, SendPcs
  <2>4. FifoPerSender'
    <3> SUFFICES ASSUME NEW r \in Task, NEW i \in DOMAIN comm_channel'[r],
                        NEW j \in DOMAIN comm_channel'[r], i < j,
                        comm_channel'[r][i].sender_pid = comm_channel'[r][j].sender_pid
                 PROVE  comm_channel'[r][i].id < comm_channel'[r][j].id
      BY DEF FifoPerSender
    <3>1. i \in DOMAIN comm_channel[r] /\ comm_channel'[r][i] = comm_channel[r][i]
      <4>1. CASE comm_channel'[r] = comm_channel[r]
        BY <4>1
      <4>2. CASE comm_channel'[r] = Append(comm_channel[r], held[t])
        BY <1>1, <1>4, <4>2, Linked
      <4> QED BY <1>4, <4>1, <4>2, Linked
    <3>2. CASE j \in DOMAIN comm_channel[r] /\ comm_channel'[r][j] = comm_channel[r][j]
      BY <3>1, <3>2 DEF Order, FifoPerSender
    <3>3. CASE comm_channel'[r][j] = held[t]
      BY <1>4, <3>1, <3>3, Linked DEF Order, Youngest, SendPcs
    <3> QED BY <1>4, <3>2, <3>3, Linked
  <2>5. InOnePlace'
    <3> SUFFICES ASSUME NEW r \in Task, NEW i \in DOMAIN comm_channel'[r],
                        NEW s \in Task, NEW j \in DOMAIN comm_channel'[s],
                        comm_channel'[r][i].id = comm_channel'[s][j].id
                 PROVE  r = s /\ i = j
      BY DEF InOnePlace
    <3>1. \A q \in Task : \A k \in DOMAIN comm_channel[q] : comm_channel[q][k].id # held[t].id
      BY <1>4, Linked DEF Order, Youngest, SendPcs
    <3>2. CASE i \in DOMAIN comm_channel[r] /\ comm_channel'[r][i] = comm_channel[r][i]
      BY <1>4, <3>1, <3>2, Linked DEF Order, InOnePlace
    <3>3. CASE r = peer[t] /\ i = Len(comm_channel[r]) + 1 /\ comm_channel'[r][i] = held[t]
      BY <1>4, <3>1, <3>3, Linked
    <3> QED BY <1>4, <3>2, <3>3, Linked
  <2> QED BY <1>0, <2>2, <2>3, <2>4, <2>5 DEF Order
<1>5. ASSUME NEW t \in Task, ReceiveEnd(t)
      PROVE  Order'
  <2>1. PICK k \in DOMAIN comm_channel[t] :
          /\ k \in Int
          /\ \A i \in DOMAIN comm_channel'[t] :
               /\ i \in Int
               /\ i < k => i \in DOMAIN comm_channel[t]
                             /\ comm_channel'[t][i] = comm_channel[t][i]
               /\ i >= k => i + 1 \in DOMAIN comm_channel[t]
                              /\ comm_channel'[t][i] = comm_channel[t][i + 1]
    BY <1>5, Unlinked
  <2>2. \A r \in Task : r # t => comm_channel'[r] = comm_channel[r]
    BY <1>5, Unlinked
  <2>3. \A r \in Task : \A i \in DOMAIN comm_channel'[r] :
          \E j \in DOMAIN comm_channel[r] : comm_channel'[r][i] = comm_channel[r][j]
    BY <2>1, <2>2
  <2>4. sent' = sent /\ pid' = pid /\ \A u \in Task : pc'[u] \in SendPcs =>
              pc[u] \in SendPcs /\ held'[u] = held[u]
    BY <1>5, Unlinked
  <2>5. Numbered'
    BY <2>3, <2>4 DEF Order, Numbered
  <2>6. Youngest'
    BY <2>3, <2>4 DEF Order, Youngest
  <2>7. FifoPerSender'
    <3> SUFFICES ASSUME NEW r \in Task, NEW i \in DOMAIN comm_channel'[r],
                        NEW j \in DOMAIN comm_channel'[r], i < j,
                        comm_channel'[r][i].sender_pid = comm_channel'[r][j].sender_pid
                 PROVE  comm_channel'[r][i].id < comm_channel'[r][j].id
      BY DEF FifoPerSender
    <3>1. CASE r # t
      BY <2>2, <3>1 DEF Order, FifoPerSender
    <3>2. CASE r = t
      <4>1. PICK i2 \in DOMAIN comm_channel[t], j2 \in DOMAIN comm_channel[t] :
              /\ i2 < j2
              /\ comm_channel'[t][i] = comm_channel[t][i2]
              /\ comm_channel'[t][j] = comm_channel[t][j2]
        BY <2>1, <3>2
      <4> QED BY <3>2, <4>1 DEF Order, FifoPerSender
    <3> QED BY <3>1, <3>2
  <2>8. InOnePlace'
    <3> SUFFICES ASSUME NEW r \in Task, NEW i \in DOMAIN comm_channel'[r],
                        NEW s \in Task, NEW j \in DOMAIN comm_channel'[s],
                        comm_channel'[r][i].id = comm_channel'[s][j].id
                 PROVE  r = s /\ i = j
      BY DEF InOnePlace
    <3>1. r = s
      BY <2>3 DEF Order, InOnePlace
    <3>2. CASE r # t
      BY <2>2, <3>1, <3>2 DEF Order, InOnePlace
    <3>3. CASE r = t
      BY <2>1, <3>1, <3>3 DEF Order, InOnePlace
    <3> QED BY <3>1, <3>2, <3>3
  <2> QED BY <1>0, <2>5, <2>6, <2>7, <2>8 DEF Order
<1>6. ASSUME SendersStay, QueuesShrink, sent' = sent
      PROVE  Order'
  <2>1. \A r \in Task : \A i \in DOMAIN comm_channel'[r] :
          comm_channel'[r] = comm_channel[r]
    BY <1>6 DEF QueuesShrink
  <2>2. Numbered'
    BY <1>6, <2>1 DEF SendersStay, Order, Numbered
  <2>3. Youngest'
    BY <1>6, <2>1 DEF SendersStay, Order, Youngest
  <2>4. FifoPerSender'
    BY <2>1 DEF Order, FifoPerSender
  <2>5. InOnePlace'
    BY <2>1 DEF Order, InOnePlace
  <2> QED BY <1>0, <2>2, <2>3, <2>4, <2>5 DEF Order
<1> QED BY <1>3, <1>4, <1>5, <1>6, MessageSteps

(* Order, which the theorems below rest on, always holds. *)
THEOREM OrderInvariant == Spec => []Order
<1>1. Init => Order
  BY TaskAssumption DEF Init, Order, PidsUnique, Numbered, Youngest, FifoPerSender, InOnePlace,
     SendPcs
<1> QED BY BaseInvariant, OrderStep, <1>1, PTL DEF Spec

(* Receivers get the messages of a sender in the order of its sends, whatever
   sends and receives overlap, sleep or fail (list_add_tail and the scan from the
   head of sys_mpi_receive).                                                 *)
THEOREM FifoHolds == Spec => []FifoPerSender
<1>1. Order => FifoPerSender
  BY DEF Order
<1> QED BY OrderInvariant, <1>1, PTL

----------------------------------------------------------------------------
(* A task that is not registered, memory that holds no task among them, has an
   empty queue: so Register and do_fork lose no message.                     *)
NoQueue ==
  \A t \in Task : /\ ~comm_on[t] => comm_channel[t] = << >>
                  /\ state[t] = "FREE" => ~comm_on[t]

(* What a step can do to one queue.                                          *)
LEMMA QueueSteps ==
  ASSUME Base, NoQueue, [Next]_vars, NEW r \in Task
  PROVE  /\ \/ comm_channel'[r] = comm_channel[r]
            \/ \E t \in Task : SendLink(t) /\ peer[t] = r /\ HasQueue(r)
                                 /\ comm_channel'[r] = Append(comm_channel[r], held[t])
            \/ ReceiveEnd(r)
            \/ state'[r] = "FREE" /\ pc[r] = "none" /\ comm_channel'[r] = << >>
         /\ ~comm_on'[r] => comm_channel'[r] = << >>
         /\ state'[r] = "FREE" => ~comm_on'[r]
<1> DEFINE Goal == /\ \/ comm_channel'[r] = comm_channel[r]
                      \/ \E t \in Task : SendLink(t) /\ peer[t] = r /\ HasQueue(r)
                                 /\ comm_channel'[r] = Append(comm_channel[r], held[t])
                      \/ ReceiveEnd(r)
                      \/ state'[r] = "FREE" /\ pc[r] = "none" /\ comm_channel'[r] = << >>
                   /\ ~comm_on'[r] => comm_channel'[r] = << >>
                   /\ state'[r] = "FREE" => ~comm_on'[r]
<1> SUFFICES Goal
  OBVIOUS
<1> USE TaskAssumption, PidAssumption DEF Base, NoQueue, process, polling, local
<1>1. ASSUME NEW t \in Task, Register(t)
      PROVE  Goal
  BY <1>1 DEF TypeOK, Register, Enter, CanRun
<1>2. ASSUME NEW t \in Task, NEW p \in Pids, SendBegin(t, p)
      PROVE  Goal
  BY <1>2 DEF TypeOK, SendBegin
<1>3. ASSUME NEW t \in Task, SendAllocData(t)
      PROVE  Goal
  BY <1>3 DEF TypeOK, SendAllocData
<1>4. ASSUME NEW t \in Task, SendNoMemory(t)
      PROVE  Goal
  BY <1>4 DEF TypeOK, SendNoMemory
<1>5. ASSUME NEW t \in Task, SendFault(t)
      PROVE  Goal
  BY <1>5 DEF TypeOK, SendFault
<1>6. ASSUME NEW t \in Task, SendLink(t)
      PROVE  Goal
  <2>1. /\ \/ comm_channel'[r] = comm_channel[r]
           \/ peer[t] = r /\ HasQueue(r) /\ comm_channel'[r] = Append(comm_channel[r], held[t])
        /\ comm_on' = comm_on
    BY <1>6, Linked
  <2>2. state'[r] = state[r] \/ state'[r] = "TASK_RUNNING"
    BY <1>6, Linked DEF SendLink, WakeUp, TypeOK
  <2> QED BY <1>6, <2>1, <2>2 DEF HasQueue
<1>7. ASSUME NEW t \in Task, NEW p \in Pids, ReceiveBegin(t, p)
      PROVE  Goal
  BY <1>7 DEF TypeOK, ReceiveBegin
<1>8. ASSUME NEW t \in Task, ReceiveEnd(t)
      PROVE  Goal
  <2>1. comm_on' = comm_on /\ state' = state /\ comm_channel[t] # << >>
    BY <1>8 DEF ReceiveEnd
  <2>2. r # t => comm_channel'[r] = comm_channel[r]
    BY <1>8, Unlinked
  <2> QED BY <1>8, <2>1, <2>2
<1>9. ASSUME NEW t \in Task, ReceiveFault(t)
      PROVE  Goal
  BY <1>9 DEF TypeOK, ReceiveFault
<1>10. ASSUME NEW t \in Task, NEW request \in PollRequests, PollBegin(t, request)
      PROVE  Goal
  BY <1>10 DEF TypeOK, PollBegin
<1>11. ASSUME NEW t \in Task, PollFault(t)
      PROVE  Goal
  BY <1>11 DEF TypeOK, PollFault
<1>12. ASSUME NEW t \in Task, PollScanFound(t)
      PROVE  Goal
  BY <1>12 DEF TypeOK, PollScanFound
<1>13. ASSUME NEW t \in Task, PollScanNone(t)
      PROVE  Goal
  BY <1>13 DEF TypeOK, PollScanNone
<1>14. ASSUME NEW t \in Task, PollNoMemory(t)
      PROVE  Goal
  BY <1>14 DEF TypeOK, PollNoMemory
<1>15. ASSUME NEW t \in Task, PollSleep(t)
      PROVE  Goal
  BY <1>15 DEF TypeOK, PollSleep, PublishPollList
<1>16. ASSUME NEW t \in Task, PollRefused(t)
      PROVE  Goal
  BY <1>16 DEF TypeOK, PollRefused, PublishPollList
<1>17. ASSUME NEW t \in Task, PollRescan(t)
      PROVE  Goal
  BY <1>17 DEF TypeOK, PollRescan
<1>18. ASSUME NEW t \in Task, PollEnd(t)
      PROVE  Goal
  BY <1>18 DEF TypeOK, PollEnd
<1>19. ASSUME NEW t \in Task, NEW child \in Task, ForkBegin(t, child)
      PROVE  Goal
  BY <1>19 DEF TypeOK, ForkBegin, ChildChannel, ChildCommOn
<1>20. ASSUME NEW t \in Task, ForkEnd(t)
      PROVE  Goal
  <2>1. state'[r] = "FREE" => state[r] = "FREE"
    BY <1>20 DEF TypeOK, ForkOK, ForkEnd
  <2> QED BY <1>20, <2>1 DEF ForkEnd
<1>21. ASSUME NEW t \in Task, ForkFail(t)
      PROVE  Goal
  BY <1>21 DEF TypeOK, StateOK, ForkOK, ForkFail, FreeTask
<1>22. ASSUME NEW t \in Task, NEW child \in Task, Wait(t, child)
      PROVE  Goal
  BY <1>22 DEF TypeOK, StateOK, Wait, FreeTask
<1>23. ASSUME NEW t \in Task, Exit(t)
      PROVE  Goal
  BY <1>23 DEF TypeOK, Exit
<1>24. ASSUME NEW t \in Task, TimerExpire(t)
      PROVE  Goal
  BY <1>24 DEF TypeOK, TimerExpire
<1>25. ASSUME NEW t \in Task, Signal(t)
      PROVE  Goal
  BY <1>25 DEF TypeOK, Signal
<1>26. CASE UNCHANGED vars
  BY <1>26 DEF vars, TypeOK
<1> QED BY <1>1, <1>2, <1>3, <1>4, <1>5, <1>6, <1>7, <1>8, <1>9, <1>10, <1>11, <1>12,
           <1>13, <1>14, <1>15, <1>16, <1>17, <1>18, <1>19, <1>20, <1>21, <1>22,
           <1>23, <1>24, <1>25, <1>26 DEF Next, Call, Continue

(* Every step keeps NoQueue. *)
LEMMA NoQueueStep == Base /\ NoQueue /\ [Next]_vars => NoQueue'
<1> SUFFICES ASSUME Base, NoQueue, [Next]_vars, NEW r \in Task
             PROVE  (~comm_on'[r] => comm_channel'[r] = << >>)
                      /\ (state'[r] = "FREE" => ~comm_on'[r])
  BY DEF NoQueue
<1> QED BY QueueSteps

(* A receive that sleeps keeps its message, and got it from a scan.          *)
LEMMA WhileReceiving ==
  ASSUME Base, [Next]_vars, NEW r \in Task, pc'[r] = "recv_copy"
  PROVE  \/ pc[r] = "recv_copy" /\ held'[r] = held[r] /\ ~ReceiveEnd(r)
         \/ \E p \in Pids : ReceiveBegin(r, p)
<1> DEFINE Goal == \/ pc[r] = "recv_copy" /\ held'[r] = held[r] /\ ~ReceiveEnd(r)
                   \/ \E p \in Pids : ReceiveBegin(r, p)
<1> SUFFICES Goal
  OBVIOUS
<1>0. ReceiveEnd(r) => pc'[r] = "user"
  BY DEF ReceiveEnd, Return, Base, TypeOK
<1> USE <1>0, TaskAssumption, PidAssumption DEF Base, process, polling, local
<1>1. ASSUME NEW t \in Task, Register(t)
      PROVE  Goal
  BY <1>1 DEF TypeOK, Register
<1>2. ASSUME NEW t \in Task, NEW p \in Pids, SendBegin(t, p)
      PROVE  Goal
  BY <1>2 DEF TypeOK, SendBegin, Calls
<1>3. ASSUME NEW t \in Task, SendAllocData(t)
      PROVE  Goal
  BY <1>3 DEF TypeOK, SendAllocData, Calls
<1>4. ASSUME NEW t \in Task, SendNoMemory(t)
      PROVE  Goal
  BY <1>4 DEF TypeOK, SendNoMemory, Return
<1>5. ASSUME NEW t \in Task, SendFault(t)
      PROVE  Goal
  BY <1>5 DEF TypeOK, SendFault, Return
<1>6. ASSUME NEW t \in Task, SendLink(t)
      PROVE  Goal
  BY <1>6 DEF TypeOK, SendLink, Return
<1>7. ASSUME NEW t \in Task, NEW p \in Pids, ReceiveBegin(t, p)
      PROVE  Goal
  <2>1. CASE r = t
    BY <1>7, <2>1
  <2>2. CASE r # t
    BY <1>7, <2>2 DEF TypeOK, ReceiveBegin
  <2> QED BY <2>1, <2>2
<1>8. ASSUME NEW t \in Task, ReceiveEnd(t)
      PROVE  Goal
  BY <1>8 DEF TypeOK, ReceiveEnd, Return
<1>9. ASSUME NEW t \in Task, ReceiveFault(t)
      PROVE  Goal
  BY <1>9 DEF TypeOK, ReceiveFault, Return
<1>10. ASSUME NEW t \in Task, NEW request \in PollRequests, PollBegin(t, request)
      PROVE  Goal
  BY <1>10 DEF TypeOK, PollBegin, Calls
<1>11. ASSUME NEW t \in Task, PollFault(t)
      PROVE  Goal
  BY <1>11 DEF TypeOK, PollFault, Return
<1>12. ASSUME NEW t \in Task, PollScanFound(t)
      PROVE  Goal
  BY <1>12 DEF TypeOK, PollScanFound, Calls
<1>13. ASSUME NEW t \in Task, PollScanNone(t)
      PROVE  Goal
  BY <1>13 DEF TypeOK, PollScanNone, Calls
<1>14. ASSUME NEW t \in Task, PollNoMemory(t)
      PROVE  Goal
  BY <1>14 DEF TypeOK, PollNoMemory, Return
<1>15. ASSUME NEW t \in Task, PollSleep(t)
      PROVE  Goal
  BY <1>15 DEF TypeOK, PollSleep, PublishPollList
<1>16. ASSUME NEW t \in Task, PollRefused(t)
      PROVE  Goal
  BY <1>16 DEF TypeOK, PollRefused, PublishPollList
<1>17. ASSUME NEW t \in Task, PollRescan(t)
      PROVE  Goal
  BY <1>17 DEF TypeOK, PollRescan, Calls
<1>18. ASSUME NEW t \in Task, PollEnd(t)
      PROVE  Goal
  BY <1>18 DEF TypeOK, PollEnd, Return
<1>19. ASSUME NEW t \in Task, NEW child \in Task, ForkBegin(t, child)
      PROVE  Goal
  BY <1>19 DEF TypeOK, ForkBegin, Calls
<1>20. ASSUME NEW t \in Task, ForkEnd(t)
      PROVE  Goal
  BY <1>20 DEF TypeOK, ForkOK, StateOK, ForkEnd
<1>21. ASSUME NEW t \in Task, ForkFail(t)
      PROVE  Goal
  BY <1>21 DEF TypeOK, ForkFail, FreeTask, Return
<1>22. ASSUME NEW t \in Task, NEW child \in Task, Wait(t, child)
      PROVE  Goal
  BY <1>22 DEF TypeOK, Wait, FreeTask
<1>23. ASSUME NEW t \in Task, Exit(t)
      PROVE  Goal
  BY <1>23 DEF TypeOK, Exit
<1>24. ASSUME NEW t \in Task, TimerExpire(t)
      PROVE  Goal
  BY <1>24 DEF TypeOK, TimerExpire
<1>25. ASSUME NEW t \in Task, Signal(t)
      PROVE  Goal
  BY <1>25 DEF TypeOK, Signal
<1>26. CASE UNCHANGED vars
  BY <1>26 DEF vars, TypeOK
<1> QED BY <1>1, <1>2, <1>3, <1>4, <1>5, <1>6, <1>7, <1>8, <1>9, <1>10, <1>11, <1>12,
           <1>13, <1>14, <1>15, <1>16, <1>17, <1>18, <1>19, <1>20, <1>21, <1>22,
           <1>23, <1>24, <1>25, <1>26 DEF Next, Call, Continue

(* While receive sleeps nobody takes its message from the queue, and what is
   linked meanwhile comes behind it.                                         *)
LEMMA ReceiveHoldsStep ==
  Base /\ NoQueue /\ ReceiveHoldsFirst /\ [Next]_vars => ReceiveHoldsFirst'
<1> SUFFICES ASSUME Base, NoQueue, ReceiveHoldsFirst, [Next]_vars,
                    NEW r \in Task, pc'[r] = "recv_copy"
             PROVE  \E i \in DOMAIN comm_channel'[r] :
                      /\ IsFirstFrom(comm_channel'[r], held'[r].sender_pid, i)
                      /\ comm_channel'[r][i] = held'[r]
  BY DEF ReceiveHoldsFirst
<1>1. CASE pc[r] = "recv_copy" /\ held'[r] = held[r] /\ ~ReceiveEnd(r)
  <2>1. PICK i \in DOMAIN comm_channel[r] :
          /\ IsFirstFrom(comm_channel[r], held[r].sender_pid, i)
          /\ comm_channel[r][i] = held[r]
    BY <1>1 DEF ReceiveHoldsFirst
  <2>2. CASE comm_channel'[r] = comm_channel[r]
    BY <1>1, <2>1, <2>2
  <2>3. ASSUME NEW t \in Task, SendLink(t), comm_channel'[r] = Append(comm_channel[r], held[t])
        PROVE  \E j \in DOMAIN comm_channel'[r] :
                 /\ IsFirstFrom(comm_channel'[r], held'[r].sender_pid, j)
                 /\ comm_channel'[r][j] = held'[r]
    <3>1. comm_channel[r] \in Seq(Message) /\ held[t] \in Message
      BY <2>3, Linked DEF Base, TypeOK
    <3>2. /\ DOMAIN comm_channel[r] = 1..Len(comm_channel[r]) /\ Len(comm_channel[r]) \in Nat
          /\ DOMAIN comm_channel'[r] = 1..(Len(comm_channel[r]) + 1)
          /\ \A j \in DOMAIN comm_channel[r] : comm_channel'[r][j] = comm_channel[r][j]
      BY <2>3, <3>1, AppendFact
    <3>3. i \in DOMAIN comm_channel'[r] /\ comm_channel'[r][i] = held[r]
      BY <2>1, <3>2
    <3>4. \A j \in DOMAIN comm_channel'[r] :
            j \in DOMAIN comm_channel[r] \/ j = Len(comm_channel[r]) + 1
      BY <3>2
    <3>5. IsFirstFrom(comm_channel'[r], held[r].sender_pid, i)
      BY <2>1, <3>2, <3>3, <3>4 DEF IsFirstFrom, From
    <3> QED BY <1>1, <3>3, <3>5
  <2>4. pc[r] # "none" /\ ~ReceiveEnd(r)
    BY <1>1
  <2> QED BY <2>2, <2>3, <2>4, QueueSteps
<1>2. ASSUME NEW p \in Pids, ReceiveBegin(r, p)
      PROVE  \E i \in DOMAIN comm_channel'[r] :
               /\ IsFirstFrom(comm_channel'[r], held'[r].sender_pid, i)
               /\ comm_channel'[r][i] = held'[r]
  <2>1. PICK i \in DOMAIN comm_channel[r] :
          IsFirstFrom(comm_channel[r], p, i) /\ held' = [held EXCEPT ![r] = comm_channel[r][i]]
    BY <1>2 DEF ReceiveBegin
  <2>2. held'[r] = comm_channel[r][i] /\ held'[r].sender_pid = p
    BY <2>1 DEF Base, TypeOK, IsFirstFrom, From
  <2>3. comm_channel' = comm_channel
    BY <1>2 DEF ReceiveBegin
  <2> QED BY <2>1, <2>2, <2>3
<1> QED BY <1>1, <1>2, WhileReceiving

(* A queue loses a message only to its owner's receive, or with its owner.   *)
LEMMA TakesStep ==
  ASSUME Base, NoQueue, [Next]_vars, NEW r \in Task, NEW i \in DOMAIN comm_channel[r]
  PROVE  \/ \E j \in DOMAIN comm_channel'[r] : comm_channel'[r][j] = comm_channel[r][i]
         \/ state'[r] = "FREE"
         \/ pc[r] = "recv_copy" /\ held[r] = comm_channel[r][i]
<1>1. CASE comm_channel'[r] = comm_channel[r]
  BY <1>1
<1>2. ASSUME NEW t \in Task, SendLink(t), comm_channel'[r] = Append(comm_channel[r], held[t])
      PROVE  \E j \in DOMAIN comm_channel'[r] : comm_channel'[r][j] = comm_channel[r][i]
  <2>1. comm_channel[r] \in Seq(Message) /\ held[t] \in Message
    BY <1>2, Linked DEF Base, TypeOK
  <2> QED BY <1>2, <2>1, AppendFact
<1>3. CASE ReceiveEnd(r)
  <2>1. PICK k \in DOMAIN comm_channel[r] :
          /\ k \in Int /\ comm_channel[r][k] = held[r]
          /\ \A j \in DOMAIN comm_channel'[r] :
               /\ j \in Int
               /\ j < k => comm_channel'[r][j] = comm_channel[r][j]
               /\ j >= k => comm_channel'[r][j] = comm_channel[r][j + 1]
          /\ \A j \in DOMAIN comm_channel[r] :
               /\ j < k => j \in DOMAIN comm_channel'[r]
               /\ j > k => j - 1 \in DOMAIN comm_channel'[r]
    BY <1>3, Unlinked
  <2>2. comm_channel[r] \in Seq(Message)
    BY DEF Base, TypeOK
  <2>3. i \in Int
    BY <2>2
  <2>4. CASE i < k
    BY <2>1, <2>4
  <2>5. CASE i > k
    <3>1. i - 1 >= k /\ (i - 1) + 1 = i
      BY <2>1, <2>3, <2>5
    <3> QED BY <2>1, <2>5, <3>1
  <2>6. CASE i = k
    BY <1>3, <2>1, <2>6 DEF ReceiveEnd
  <2> QED BY <2>1, <2>3, <2>4, <2>5, <2>6
<1> QED BY <1>1, <1>2, <1>3, QueueSteps

(* NoQueue always holds. *)
LEMMA NoQueueHolds == Spec => []NoQueue
<1>1. Init => NoQueue
  BY DEF Init, NoQueue
<1> QED BY BaseInvariant, NoQueueStep, <1>1, PTL DEF Spec

(* The list_del after copy_to_user of sys_mpi_receive takes the message that was
   copied, and that message is still the oldest of its sender, whatever was sent
   or slept through meanwhile.                                               *)
THEOREM ReceiveTakesFirst == Spec => []ReceiveHoldsFirst
<1>1. Init => ReceiveHoldsFirst
  BY TaskAssumption DEF Init, ReceiveHoldsFirst
<1> QED BY BaseInvariant, NoQueueHolds, ReceiveHoldsStep, <1>1, PTL DEF Spec

(* No message is lost from a queue: not by mpi_register, not by a fork that takes
   over memory, not by another task.                                         *)
THEOREM MessagesStay == Spec => NobodyTakesMessages
<1>1. Base /\ NoQueue /\ [Next]_vars =>
        \A t \in Task : \A i \in DOMAIN comm_channel[t] :
          \/ \E j \in DOMAIN comm_channel'[t] : comm_channel'[t][j] = comm_channel[t][i]
          \/ state'[t] = "FREE"
          \/ pc[t] = "recv_copy" /\ held[t] = comm_channel[t][i]
  BY TakesStep
<1> QED BY BaseInvariant, NoQueueHolds, <1>1, PTL DEF Spec, NobodyTakesMessages

----------------------------------------------------------------------------
(* The heap.  The blocks of a poll are those of the polls under way, exactly. *)
PollBlocks ==
  \A t \in Task : /\ EntriesBlock(t) \in heap <=> pc[t] \in PollPcs
                  /\ PollListBlock(t) \in heap <=> poll_list[t] # << >>

(* A poll frees what it allocated, and nobody else does. *)
LEMMA PollBlocksStep == Base /\ PollBlocks /\ [Next]_vars => PollBlocks'
<1> SUFFICES ASSUME Base, PollBlocks, [Next]_vars, NEW r \in Task
             PROVE  /\ (EntriesBlock(r) \in heap') <=> pc'[r] \in PollPcs
                    /\ (PollListBlock(r) \in heap') <=> poll_list'[r] # << >>
  BY DEF PollBlocks, EntriesBlock, PollListBlock
<1> DEFINE Goal == /\ (EntriesBlock(r) \in heap') <=> pc'[r] \in PollPcs
                   /\ (PollListBlock(r) \in heap') <=> poll_list'[r] # << >>
<1> SUFFICES Goal
  OBVIOUS
<1> USE TaskAssumption, PidAssumption
    DEF Base, PollBlocks, EntriesBlock, PollListBlock, MessageBlocks, process, polling, local
<1>1. ASSUME NEW t \in Task, Register(t)
      PROVE  Goal
  BY <1>1 DEF TypeOK, PollPcs, Register
<1>2. ASSUME NEW t \in Task, NEW p \in Pids, SendBegin(t, p)
      PROVE  Goal
  <2>1. /\ heap' = heap \cup {<<"message_t", sent + 1>>} /\ poll_list' = poll_list
        /\ pc[t] = "user" /\ pc' = [pc EXCEPT ![t] = "send_data"]
    BY <1>2 DEF SendBegin, Enter
  <2> QED BY <2>1 DEF TypeOK, PollPcs
<1>3. ASSUME NEW t \in Task, SendAllocData(t)
      PROVE  Goal
  BY <1>3 DEF TypeOK, PollPcs, SendAllocData
<1>4. ASSUME NEW t \in Task, SendNoMemory(t)
      PROVE  Goal
  BY <1>4 DEF TypeOK, PollPcs, SendNoMemory, Return
<1>5. ASSUME NEW t \in Task, SendFault(t)
      PROVE  Goal
  BY <1>5 DEF TypeOK, PollPcs, SendFault, Return
<1>6. ASSUME NEW t \in Task, SendLink(t)
      PROVE  Goal
  BY <1>6 DEF TypeOK, PollPcs, SendLink, Return
<1>7. ASSUME NEW t \in Task, NEW p \in Pids, ReceiveBegin(t, p)
      PROVE  Goal
  BY <1>7 DEF TypeOK, PollPcs, ReceiveBegin, Enter
<1>8. ASSUME NEW t \in Task, ReceiveEnd(t)
      PROVE  Goal
  BY <1>8 DEF TypeOK, PollPcs, ReceiveEnd, Return
<1>9. ASSUME NEW t \in Task, ReceiveFault(t)
      PROVE  Goal
  BY <1>9 DEF TypeOK, PollPcs, ReceiveFault, Return
<1>10. ASSUME NEW t \in Task, NEW request \in PollRequests, PollBegin(t, request)
      PROVE  Goal
  BY <1>10 DEF TypeOK, PollPcs, PollBegin
<1>11. ASSUME NEW t \in Task, PollFault(t)
      PROVE  Goal
  BY <1>11 DEF TypeOK, PollPcs, PollFault, Return
<1>12. ASSUME NEW t \in Task, PollScanFound(t)
      PROVE  Goal
  BY <1>12 DEF TypeOK, PollPcs, PollScanFound
<1>13. ASSUME NEW t \in Task, PollScanNone(t)
      PROVE  Goal
  BY <1>13 DEF TypeOK, PollPcs, PollScanNone, OldPollList, PollListInUse
<1>14. ASSUME NEW t \in Task, PollNoMemory(t)
      PROVE  Goal
  BY <1>14 DEF TypeOK, PollPcs, PollNoMemory, PollListCleared, PollListInUse, Return
<1>15. ASSUME NEW t \in Task, PollSleep(t)
      PROVE  Goal
  <2>1. entries[t] \in Seq(Entry) /\ entries[t] # << >>
    BY <1>15 DEF TypeOK, HoldsOK, PollPcs, PollSleep, PublishPollList
  <2>2. [i \in DOMAIN entries[t] |-> entries[t][i].pid] # << >>
    BY <2>1
  <2> QED BY <1>15, <2>2 DEF TypeOK, PollPcs, PollSleep, PublishPollList
<1>16. ASSUME NEW t \in Task, PollRefused(t)
      PROVE  Goal
  <2>1. entries[t] \in Seq(Entry) /\ entries[t] # << >>
    BY <1>16 DEF TypeOK, HoldsOK, PollPcs, PollRefused, PublishPollList
  <2>2. [i \in DOMAIN entries[t] |-> entries[t][i].pid] # << >>
    BY <2>1
  <2> QED BY <1>16, <2>2 DEF TypeOK, PollPcs, PollRefused, PublishPollList
<1>17. ASSUME NEW t \in Task, PollRescan(t)
      PROVE  Goal
  BY <1>17 DEF TypeOK, PollPcs, PollRescan, OldPollList, PollListCleared, PollListInUse
<1>18. ASSUME NEW t \in Task, PollEnd(t)
      PROVE  Goal
  BY <1>18 DEF TypeOK, PollPcs, PollEnd, Return
<1>19. ASSUME NEW t \in Task, NEW child \in Task, ForkBegin(t, child)
      PROVE  Goal
  BY <1>19 DEF TypeOK, StateOK, PollPcs, ForkBegin, Enter, PollListCleared, PollListInUse
<1>20. ASSUME NEW t \in Task, ForkEnd(t)
      PROVE  Goal
  <2>1. peer[t] \in Task /\ pc[peer[t]] = "none" /\ pc[t] = "fork_copy"
    BY <1>20 DEF ForkOK, StateOK, ForkEnd
  <2> QED BY <1>20, <2>1 DEF TypeOK, PollPcs, ForkEnd
<1>21. ASSUME NEW t \in Task, ForkFail(t)
      PROVE  Goal
  BY <1>21 DEF TypeOK, StateOK, ForkOK, PollPcs, ForkFail, Return, FreeTask, PollListCleared,
     PollListInUse
<1>22. ASSUME NEW t \in Task, NEW child \in Task, Wait(t, child)
      PROVE  Goal
  <2>1. /\ heap' = heap \ ReleasedBlocks(child) /\ pc' = pc /\ poll_list[child] = << >>
        /\ poll_list' = [poll_list EXCEPT ![child] = << >>]
    BY <1>22 DEF Wait, FreeTask, PollListCleared, StateOK, PollListInUse
  <2>2. \A b \in ReleasedBlocks(child) : \E m : b \in MessageBlocks(m)
    BY <2>1 DEF ReleasedBlocks, OldPollList
  <2>3. /\ <<"poll_pids_ker", r>> \notin ReleasedBlocks(child)
        /\ <<"poll_list", r>> \notin ReleasedBlocks(child)
    BY <2>2
  <2> QED BY <2>1, <2>3 DEF TypeOK
<1>23. ASSUME NEW t \in Task, Exit(t)
      PROVE  Goal
  BY <1>23 DEF TypeOK, PollPcs, Exit, Enter
<1>24. ASSUME NEW t \in Task, TimerExpire(t)
      PROVE  Goal
  BY <1>24 DEF TypeOK, PollPcs, TimerExpire
<1>25. ASSUME NEW t \in Task, Signal(t)
      PROVE  Goal
  BY <1>25 DEF TypeOK, PollPcs, Signal
<1>26. CASE UNCHANGED vars
  BY <1>26 DEF vars, TypeOK, PollPcs
<1> QED BY <1>1, <1>2, <1>3, <1>4, <1>5, <1>6, <1>7, <1>8, <1>9, <1>10, <1>11, <1>12,
           <1>13, <1>14, <1>15, <1>16, <1>17, <1>18, <1>19, <1>20, <1>21, <1>22,
           <1>23, <1>24, <1>25, <1>26 DEF Next, Call, Continue

(* What a step can do to the blocks of messages and to those who hold them.  *)
LEMMA BlockSteps ==
  ASSUME Base, NoQueue, [Next]_vars
  PROVE  \/ \E t \in Task : \/ \E p \in Pids : SendBegin(t, p)
                            \/ SendAllocData(t) \/ SendNoMemory(t) \/ SendFault(t) \/ SendLink(t)
                            \/ ReceiveEnd(t)
                            \/ \E child \in Task : Wait(t, child)
         \/ /\ \A u \in Task : pc[u] \in SendPcs \/ pc'[u] \in SendPcs =>
                 pc'[u] = pc[u] /\ held'[u] = held[u] /\ peer'[u] = peer[u]
            /\ \A r \in Task : \/ comm_channel'[r] = comm_channel[r]
                               \/ comm_channel'[r] = << >> /\ state[r] = "TASK_UNINTERRUPTIBLE"
            /\ \A n : /\ <<"message_t", n>> \in heap' <=> <<"message_t", n>> \in heap
                      /\ <<"data", n>> \in heap' <=> <<"data", n>> \in heap
<1> DEFINE Quiet ==
             /\ \A u \in Task : pc[u] \in SendPcs \/ pc'[u] \in SendPcs =>
                  pc'[u] = pc[u] /\ held'[u] = held[u] /\ peer'[u] = peer[u]
             /\ \A r \in Task : \/ comm_channel'[r] = comm_channel[r]
                                \/ comm_channel'[r] = << >> /\ state[r] = "TASK_UNINTERRUPTIBLE"
             /\ \A n : /\ <<"message_t", n>> \in heap' <=> <<"message_t", n>> \in heap
                       /\ <<"data", n>> \in heap' <=> <<"data", n>> \in heap
           Loud == \E t \in Task : \/ \E p \in Pids : SendBegin(t, p)
                                   \/ SendAllocData(t) \/ SendNoMemory(t) \/ SendFault(t)
                                   \/ SendLink(t) \/ ReceiveEnd(t)
                                   \/ \E child \in Task : Wait(t, child)
           Goal == Loud \/ Quiet
<1> SUFFICES Goal
  OBVIOUS
<1> USE TaskAssumption, PidAssumption
    DEF Base, EntriesBlock, PollListBlock, process, polling, local
<1>1. ASSUME NEW t \in Task, Register(t)
      PROVE  Goal
  BY <1>1 DEF TypeOK, SendPcs, NoQueue, Register
<1>2. ASSUME NEW t \in Task, NEW p \in Pids, SendBegin(t, p)
      PROVE  Goal
  BY <1>2
<1>3. ASSUME NEW t \in Task, SendAllocData(t)
      PROVE  Goal
  BY <1>3
<1>4. ASSUME NEW t \in Task, SendNoMemory(t)
      PROVE  Goal
  BY <1>4
<1>5. ASSUME NEW t \in Task, SendFault(t)
      PROVE  Goal
  BY <1>5
<1>6. ASSUME NEW t \in Task, SendLink(t)
      PROVE  Goal
  BY <1>6
<1>7. ASSUME NEW t \in Task, NEW p \in Pids, ReceiveBegin(t, p)
      PROVE  Goal
  BY <1>7 DEF TypeOK, SendPcs, ReceiveBegin, Enter
<1>8. ASSUME NEW t \in Task, ReceiveEnd(t)
      PROVE  Goal
  BY <1>8
<1>9. ASSUME NEW t \in Task, ReceiveFault(t)
      PROVE  Goal
  BY <1>9 DEF TypeOK, SendPcs, ReceiveFault, Return
<1>10. ASSUME NEW t \in Task, NEW request \in PollRequests, PollBegin(t, request)
      PROVE  Goal
  BY <1>10 DEF TypeOK, SendPcs, PollBegin, Enter
<1>11. ASSUME NEW t \in Task, PollFault(t)
      PROVE  Goal
  BY <1>11 DEF TypeOK, SendPcs, PollFault, Return
<1>12. ASSUME NEW t \in Task, PollScanFound(t)
      PROVE  Goal
  BY <1>12 DEF TypeOK, SendPcs, PollScanFound
<1>13. ASSUME NEW t \in Task, PollScanNone(t)
      PROVE  Goal
  BY <1>13 DEF TypeOK, SendPcs, PollScanNone, OldPollList
<1>14. ASSUME NEW t \in Task, PollNoMemory(t)
      PROVE  Goal
  BY <1>14 DEF TypeOK, SendPcs, PollNoMemory, Return
<1>15. ASSUME NEW t \in Task, PollSleep(t)
      PROVE  Goal
  BY <1>15 DEF TypeOK, SendPcs, PollSleep, PublishPollList
<1>16. ASSUME NEW t \in Task, PollRefused(t)
      PROVE  Goal
  BY <1>16 DEF TypeOK, SendPcs, PollRefused, PublishPollList
<1>17. ASSUME NEW t \in Task, PollRescan(t)
      PROVE  Goal
  BY <1>17 DEF TypeOK, SendPcs, PollRescan, OldPollList
<1>18. ASSUME NEW t \in Task, PollEnd(t)
      PROVE  Goal
  BY <1>18 DEF TypeOK, SendPcs, PollEnd, Return
<1>19. ASSUME NEW t \in Task, NEW child \in Task, ForkBegin(t, child)
      PROVE  Goal
  BY <1>19 DEF TypeOK, SendPcs, StateOK, NoQueue, ForkBegin, Enter, ChildChannel
<1>20. ASSUME NEW t \in Task, ForkEnd(t)
      PROVE  Goal
  <2>1. peer[t] \in Task /\ pc[peer[t]] = "none" /\ pc[t] = "fork_copy"
    BY <1>20 DEF ForkOK, StateOK, ForkEnd
  <2> QED BY <1>20, <2>1 DEF TypeOK, SendPcs, ForkEnd
<1>21. ASSUME NEW t \in Task, ForkFail(t)
      PROVE  Goal
  BY <1>21 DEF TypeOK, SendPcs, StateOK, ForkOK, ForkFail, Return, FreeTask
<1>22. ASSUME NEW t \in Task, NEW child \in Task, Wait(t, child)
      PROVE  Goal
  BY <1>22
<1>23. ASSUME NEW t \in Task, Exit(t)
      PROVE  Goal
  BY <1>23 DEF TypeOK, SendPcs, Exit, Enter
<1>24. ASSUME NEW t \in Task, TimerExpire(t)
      PROVE  Goal
  BY <1>24 DEF TypeOK, SendPcs, TimerExpire
<1>25. ASSUME NEW t \in Task, Signal(t)
      PROVE  Goal
  BY <1>25 DEF TypeOK, SendPcs, Signal
<1>26. CASE UNCHANGED vars
  BY <1>26 DEF vars, TypeOK, SendPcs
<1> QED BY <1>1, <1>2, <1>3, <1>4, <1>5, <1>6, <1>7, <1>8, <1>9, <1>10, <1>11, <1>12,
           <1>13, <1>14, <1>15, <1>16, <1>17, <1>18, <1>19, <1>20, <1>21, <1>22,
           <1>23, <1>24, <1>25, <1>26 DEF Next, Call, Continue

(* The blocks of a message stay allocated while it is in a queue or in the hands
   of its sender.                                                            *)
MessagesAllocated ==
  /\ \A r \in Task : \A i \in DOMAIN comm_channel[r] :
       MessageBlocks(comm_channel[r][i]) \subseteq heap
  /\ \A t \in Task : pc[t] \in SendPcs => <<"message_t", held[t].id>> \in heap
  /\ \A t \in Task : pc[t] = "send_link" => <<"data", held[t].id>> \in heap

(* What is freed is the message of the call that frees it, which no queue and no
   other sender has; release_task frees a queue that goes with it.           *)
LEMMA MessagesAllocatedStep ==
  Base /\ Order /\ NoQueue /\ MessagesAllocated /\ [Next]_vars => MessagesAllocated'
<1> SUFFICES ASSUME Base, Order, NoQueue, MessagesAllocated, [Next]_vars
             PROVE  MessagesAllocated'
  OBVIOUS
<1> DEFINE Both(n) == <<"message_t", n>> \in heap /\ <<"data", n>> \in heap
           NewBoth(n) == <<"message_t", n>> \in heap' /\ <<"data", n>> \in heap'
<1>1. /\ \A r \in Task : \A i \in DOMAIN comm_channel[r] : Both(comm_channel[r][i].id)
      /\ \A t \in Task : pc[t] \in SendPcs => <<"message_t", held[t].id>> \in heap
      /\ \A t \in Task : pc[t] = "send_link" => <<"data", held[t].id>> \in heap
  BY DEF MessagesAllocated, MessageBlocks
<1> DEFINE QueuesGoal ==
             \A r \in Task : \A i \in DOMAIN comm_channel'[r] : NewBoth(comm_channel'[r][i].id)
           SendersGoal ==
             /\ \A t \in Task : pc'[t] \in SendPcs => <<"message_t", held'[t].id>> \in heap'
             /\ \A t \in Task : pc'[t] = "send_link" => <<"data", held'[t].id>> \in heap'
           Goal == QueuesGoal /\ SendersGoal
<1>2. Goal => MessagesAllocated'
  BY DEF MessagesAllocated, MessageBlocks
<1> HIDE DEF Both
<1>3. \A r, s \in Task : \A i \in DOMAIN comm_channel[r], j \in DOMAIN comm_channel[s] :
        comm_channel[r][i].id = comm_channel[s][j].id => r = s /\ i = j
  BY DEF Order, InOnePlace
<1>4. \A t, r \in Task : \A i \in DOMAIN comm_channel[r] :
        pc[t] \in SendPcs => comm_channel[r][i].id # held[t].id
  BY DEF Order, Youngest
<1>5. \A t, u \in Task : pc[t] \in SendPcs /\ pc[u] \in SendPcs /\ t # u => held[t].id # held[u].id
  BY DEF Order, Numbered
<1>6. \A t \in Task : pc[t] = "send_link" => pc[t] \in SendPcs
  BY DEF SendPcs
<1>7. ASSUME NEW t \in Task, NEW p \in Pids, SendBegin(t, p)
      PROVE  Goal
  <2>1. /\ comm_channel' = comm_channel /\ heap' = heap \cup {<<"message_t", sent + 1>>}
        /\ pc' = [pc EXCEPT ![t] = "send_data"] /\ held'[t].id = sent + 1
        /\ \A u \in Task \ {t} : held'[u] = held[u]
    BY <1>7 DEF SendBegin, Base, TypeOK
  <2> QED BY <1>1, <1>6, <2>1 DEF Both, Base, TypeOK
<1>8. ASSUME NEW t \in Task, SendAllocData(t)
      PROVE  Goal
  <2>1. /\ comm_channel' = comm_channel /\ heap' = heap \cup {<<"data", held[t].id>>}
        /\ pc' = [pc EXCEPT ![t] = "send_link"] /\ held' = held /\ pc[t] \in SendPcs
    BY <1>8 DEF SendAllocData, local, SendPcs
  <2> QED BY <1>1, <1>6, <2>1 DEF Both, Base, TypeOK
<1>9. ASSUME NEW t \in Task, SendNoMemory(t) \/ SendFault(t)
      PROVE  Goal
  <2>1. /\ comm_channel' = comm_channel
        /\ \A b : b \in heap /\ b \notin MessageBlocks(held[t]) => b \in heap'
        /\ pc' = [pc EXCEPT ![t] = "user"] /\ pc[t] \in SendPcs
        /\ \A u \in Task \ {t} : held'[u] = held[u]
    <3>1. CASE SendNoMemory(t)
      BY <3>1 DEF SendNoMemory, Return, SendPcs, MessageBlocks, Base, TypeOK
    <3>2. CASE SendFault(t)
      BY <3>2 DEF SendFault, Return, SendPcs, MessageBlocks, Base, TypeOK
    <3> QED BY <1>9, <3>1, <3>2
  <2>2. \A n : n # held[t].id => /\ <<"message_t", n>> \in heap => <<"message_t", n>> \in heap'
                                 /\ <<"data", n>> \in heap => <<"data", n>> \in heap'
    BY <2>1 DEF MessageBlocks
  <2>3. \A u \in Task : pc'[u] \in SendPcs => u # t /\ pc[u] \in SendPcs /\ pc'[u] = pc[u]
    BY <2>1 DEF Base, TypeOK, SendPcs
  <2>4. QueuesGoal
    BY <1>1, <1>4, <2>1, <2>2 DEF Both
  <2>5. SendersGoal
    <3>1. \A u \in Task : pc'[u] \in SendPcs =>
            pc[u] \in SendPcs /\ pc'[u] = pc[u] /\ held'[u] = held[u] /\ held[u].id # held[t].id
      BY <1>5, <2>1, <2>3
    <3>2. \A u \in Task : pc'[u] \in SendPcs => <<"message_t", held'[u].id>> \in heap'
      BY <1>1, <2>2, <3>1
    <3>3. \A u \in Task : pc'[u] = "send_link" => <<"data", held'[u].id>> \in heap'
      BY <1>1, <2>2, <3>1 DEF SendPcs
    <3> QED BY <3>2, <3>3
  <2> QED BY <2>4, <2>5
<1>10. ASSUME NEW t \in Task, SendLink(t)
       PROVE  Goal
  <2>1. /\ pc[t] = "send_link" /\ heap' = heap
        /\ \A u \in Task : pc'[u] \in SendPcs =>
             u # t /\ pc[u] \in SendPcs /\ held'[u] = held[u] /\ pc'[u] = pc[u]
        /\ \A r \in Task : \A i \in DOMAIN comm_channel'[r] :
             \/ i \in DOMAIN comm_channel[r] /\ comm_channel'[r][i] = comm_channel[r][i]
             \/ comm_channel'[r][i] = held[t]
    BY <1>10, Linked
  <2> QED BY <1>1, <1>6, <2>1 DEF Both
<1>11. ASSUME NEW t \in Task, ReceiveEnd(t)
       PROVE  Goal
  <2>1. heap' = heap \ MessageBlocks(held[t])
    BY <1>11 DEF ReceiveEnd
  <2>2. PICK k \in DOMAIN comm_channel[t] :
          /\ k \in Int /\ comm_channel[t][k] = held[t]
          /\ \A i \in DOMAIN comm_channel'[t] :
               /\ i \in Int
               /\ i < k => i \in DOMAIN comm_channel[t]
                             /\ comm_channel'[t][i] = comm_channel[t][i]
               /\ i >= k => i + 1 \in DOMAIN comm_channel[t]
                              /\ comm_channel'[t][i] = comm_channel[t][i + 1]
    BY <1>11, Unlinked
  <2>3. \A r \in Task : r # t => comm_channel'[r] = comm_channel[r]
    BY <1>11, Unlinked
  <2>4. \A r \in Task : \A i \in DOMAIN comm_channel'[r] :
          \E j \in DOMAIN comm_channel[r] :
            (r # t \/ j # k) /\ comm_channel'[r][i] = comm_channel[r][j]
    BY <2>2, <2>3
  <2>5. \A r \in Task : \A i \in DOMAIN comm_channel'[r] :
          Both(comm_channel'[r][i].id) /\ comm_channel'[r][i].id # held[t].id
    BY <1>1, <1>3, <2>2, <2>4
  <2>6. \A u \in Task : pc'[u] \in SendPcs =>
          /\ pc[u] \in SendPcs /\ held'[u] = held[u] /\ pc'[u] = pc[u]
          /\ held[u].id # held[t].id
    BY <1>4, <1>11, <2>2, Unlinked
  <2>7. \A n : n # held[t].id => /\ <<"message_t", n>> \in heap => <<"message_t", n>> \in heap'
                                 /\ <<"data", n>> \in heap => <<"data", n>> \in heap'
    BY <2>1 DEF MessageBlocks
  <2>8. QueuesGoal
    BY <2>5, <2>7 DEF Both
  <2>9. SendersGoal
    <3>1. \A u \in Task : pc'[u] \in SendPcs => <<"message_t", held'[u].id>> \in heap'
      BY <1>1, <2>6, <2>7
    <3>2. \A u \in Task : pc'[u] = "send_link" => <<"data", held'[u].id>> \in heap'
      BY <1>1, <2>6, <2>7 DEF SendPcs
    <3> QED BY <3>1, <3>2
  <2> QED BY <2>8, <2>9
<1>12. ASSUME NEW t \in Task, NEW child \in Task, Wait(t, child)
       PROVE  Goal
  <2>1. /\ heap' = heap \ ReleasedBlocks(child) /\ poll_list[child] = << >>
        /\ comm_channel' = [comm_channel EXCEPT ![child] = << >>]
        /\ pc' = pc /\ held' = held
    BY <1>12 DEF Wait, FreeTask, local, Base, StateOK, PollListInUse
  <2>2. \A n : (\A j \in DOMAIN comm_channel[child] : comm_channel[child][j].id # n) =>
          /\ <<"message_t", n>> \in heap => <<"message_t", n>> \in heap'
          /\ <<"data", n>> \in heap => <<"data", n>> \in heap'
    BY <2>1 DEF ReleasedBlocks, OldPollList, MessageBlocks
  <2>3. \A r \in Task : \A i \in DOMAIN comm_channel'[r] :
          r # child /\ comm_channel'[r] = comm_channel[r]
    BY <2>1 DEF Base, TypeOK
  <2>4. QueuesGoal
    BY <1>1, <1>3, <2>2, <2>3 DEF Both
  <2>5. SendersGoal
    BY <1>1, <1>4, <1>6, <2>1, <2>2
  <2> QED BY <2>4, <2>5
<1>13. ASSUME \A u \in Task : pc[u] \in SendPcs \/ pc'[u] \in SendPcs =>
                pc'[u] = pc[u] /\ held'[u] = held[u],
              \A r \in Task : comm_channel'[r] \in {comm_channel[r], << >>},
              \A n : /\ <<"message_t", n>> \in heap' <=> <<"message_t", n>> \in heap
                     /\ <<"data", n>> \in heap' <=> <<"data", n>> \in heap
       PROVE  Goal
  <2>1. QueuesGoal
    <3> SUFFICES ASSUME NEW r \in Task, NEW i \in DOMAIN comm_channel'[r]
                 PROVE  NewBoth(comm_channel'[r][i].id)
      OBVIOUS
    <3>1. comm_channel'[r] = comm_channel[r]
      BY <1>13
    <3> QED BY <1>1, <1>13, <3>1 DEF Both
  <2>2. SendersGoal
    <3>1. \A u \in Task : pc'[u] \in SendPcs => <<"message_t", held'[u].id>> \in heap'
      BY <1>1, <1>13
    <3>2. \A u \in Task : pc'[u] = "send_link" => <<"data", held'[u].id>> \in heap'
      BY <1>1, <1>13 DEF SendPcs
    <3> QED BY <3>1, <3>2
  <2> QED BY <2>1, <2>2
<1>14. Goal
  <2> HIDE DEF Goal
  <2> QED BY <1>7, <1>8, <1>9, <1>10, <1>11, <1>12, <1>13, BlockSteps
<1> QED BY <1>2, <1>14

(* No block is freed while a queue, a sender or a poll still points to it: the
   our_kfree calls of sys_mpi_receive, sys_mpi_poll, release_task and the error
   paths each free what nobody else holds.                                   *)
THEOREM HeapIsSafe == Spec => []NothingDangles
<1>1. Init => MessagesAllocated /\ PollBlocks
  BY DEF Init, MessagesAllocated, PollBlocks, SendPcs, PollPcs
<1>2. Base /\ MessagesAllocated /\ PollBlocks => NothingDangles
  <2> SUFFICES ASSUME MessagesAllocated, PollBlocks PROVE Owned \subseteq heap
    BY DEF NothingDangles
  <2>1. \A m \in Queued : MessageBlocks(m) \subseteq heap
    BY DEF MessagesAllocated, Queued
  <2>2. {<<"message_t", held[t].id>> : t \in {u \in Task : pc[u] \in SendPcs}} \subseteq heap
    BY DEF MessagesAllocated
  <2>3. {<<"data", held[t].id>> : t \in {u \in Task : pc[u] = "send_link"}} \subseteq heap
    BY DEF MessagesAllocated
  <2>4. {EntriesBlock(t) : t \in {u \in Task : pc[u] \in PollPcs}} \subseteq heap
    BY DEF PollBlocks
  <2>5. {PollListBlock(t) : t \in {u \in Task : poll_list[u] # << >>}} \subseteq heap
    BY DEF PollBlocks
  <2>6. UNION {MessageBlocks(m) : m \in Queued} \subseteq heap
    BY <2>1
  <2> QED BY <2>2, <2>3, <2>4, <2>5, <2>6, Zenon DEF Owned
<1> QED BY BaseInvariant, OrderInvariant, NoQueueHolds, MessagesAllocatedStep, PollBlocksStep,
           <1>1, <1>2, PTL DEF Spec
=============================================================================
