-------------------------- MODULE MpiWakeupProofs --------------------------
(***************************************************************************)
(* What poll may rely on, and what callers may when no send sleeps.        *)
(*                                                                         *)
(* Poll: its report is sound whatever sleeps, and it times out only when   *)
(* its time is up.  That it misses no wake-up needs one thing more: that   *)
(* kmalloc does not sleep between the scan and the sleep.                  *)
(*                                                                         *)
(* Send: the receiver is found before the allocations and used after them. *)
(* If they do not sleep it is still the process that was named, no message *)
(* is lost, and the split calls implement the atomic ones of MpiChannel.   *)
(***************************************************************************)
EXTENDS MpiOrderProofs

(* Nobody sent what t polls for. *)
NothingFor(t) ==
  \A i \in DOMAIN entries[t] : ~is_incoming_msg_from(t, entries[t][i].pid)

(* From its scan to its sleep a poll keeps the processor, and nothing arrives. *)
ScanStands ==
  \A t \in Task : pc[t] = "poll_list" => cpu = t /\ NothingFor(t)

SleepStands == \A t \in Task : Asleep(t) => NothingFor(t)

----------------------------------------------------------------------------
(* While a poll stays between its scan and its rescan, its entries stay, it does
   not fall asleep again, and its queue changes by nothing but a message a sender
   links; while it also keeps the processor, by nothing at all.               *)
LEMMA WhilePolling ==
  ASSUME Base, [Next]_vars, NEW t \in Task,
         pc[t] \in {"poll_list", "poll_sleep", "poll_out"}, pc'[t] = pc[t]
  PROVE  /\ entries'[t] = entries[t]
         /\ Asleep(t)' => Asleep(t)
         /\ \/ comm_channel'[t] = comm_channel[t]
            \/ \E u \in Task : SendLink(u) /\ peer[u] = t /\ cpu # t
         /\ pc[t] = "poll_list" /\ cpu = t => cpu' = t
<1> DEFINE Goal == /\ entries'[t] = entries[t]
                   /\ Asleep(t)' => Asleep(t)
                   /\ \/ comm_channel'[t] = comm_channel[t]
                      \/ \E u \in Task : SendLink(u) /\ peer[u] = t /\ cpu # t
                   /\ pc[t] = "poll_list" /\ cpu = t => cpu' = t
<1> SUFFICES Goal
  OBVIOUS
<1> USE TaskAssumption DEF Base, process, polling, local, Asleep
<1>1. ASSUME NEW u \in Task, Register(u)
      PROVE  Goal
  BY <1>1 DEF Register, Enter
<1>2. ASSUME NEW u \in Task, NEW p \in Pids, SendBegin(u, p)
      PROVE  Goal
  BY <1>2 DEF SendBegin, Enter
<1>3. ASSUME NEW u \in Task, SendAllocData(u)
      PROVE  Goal
  BY <1>3 DEF SendAllocData, CanRun
<1>4. ASSUME NEW u \in Task, SendNoMemory(u)
      PROVE  Goal
  BY <1>4 DEF SendNoMemory, CanRun
<1>5. ASSUME NEW u \in Task, SendFault(u)
      PROVE  Goal
  BY <1>5 DEF SendFault, CanRun
<1>6. ASSUME NEW u \in Task, SendLink(u)
      PROVE  Goal
  <2>1. peer[u] \in Task /\ u # t /\ cpu # t
    BY <1>6 DEF HoldsOK, SendPcs, SendLink, CanRun
  <2>2. entries' = entries /\ (Asleep(t)' => Asleep(t))
    BY <1>6, <2>1 DEF SendLink, WakeUp, TypeOK
  <2>3. peer[u] # t => comm_channel'[t] = comm_channel[t]
    BY <1>6, <2>1 DEF SendLink, LinkInto, TypeOK
  <2> QED BY <1>6, <2>1, <2>2, <2>3
<1>7. ASSUME NEW u \in Task, NEW p \in Pids, ReceiveBegin(u, p)
      PROVE  Goal
  BY <1>7 DEF ReceiveBegin, Enter
<1>8. ASSUME NEW u \in Task, ReceiveEnd(u)
      PROVE  Goal
  BY <1>8 DEF ReceiveEnd, CanRun
<1>9. ASSUME NEW u \in Task, ReceiveFault(u)
      PROVE  Goal
  BY <1>9 DEF ReceiveFault, CanRun
<1>10. ASSUME NEW u \in Task, NEW request \in PollRequests, PollBegin(u, request)
      PROVE  Goal
  BY <1>10 DEF TypeOK, StateOK, PollBegin, Enter, CanRun, Calls, EntriesBlock
<1>11. ASSUME NEW u \in Task, PollFault(u)
      PROVE  Goal
  BY <1>11 DEF PollFault, CanRun
<1>12. ASSUME NEW u \in Task, PollScanFound(u)
      PROVE  Goal
  BY <1>12 DEF TypeOK, StateOK, PollScanFound, CanRun, Calls, Scan
<1>13. ASSUME NEW u \in Task, PollScanNone(u)
      PROVE  Goal
  BY <1>13 DEF TypeOK, StateOK, PollScanNone, CanRun, Calls, Scan, OldPollList, PollListBlock
<1>14. ASSUME NEW u \in Task, PollNoMemory(u)
      PROVE  Goal
  BY <1>14 DEF TypeOK, PollNoMemory, CanRun, Return
<1>15. ASSUME NEW u \in Task, PollSleep(u)
      PROVE  Goal
  BY <1>15 DEF TypeOK, PollSleep, CanRun, PublishPollList
<1>16. ASSUME NEW u \in Task, PollRefused(u)
      PROVE  Goal
  BY <1>16 DEF PollRefused, CanRun, PublishPollList
<1>17. ASSUME NEW u \in Task, PollRescan(u)
      PROVE  Goal
  BY <1>17 DEF TypeOK, StateOK, PollRescan, CanRun, Calls, Scan, PollListCleared, OldPollList,
     PollListBlock
<1>18. ASSUME NEW u \in Task, PollEnd(u)
      PROVE  Goal
  BY <1>18 DEF TypeOK, PollEnd, CanRun, Return
<1>19. ASSUME NEW u \in Task, NEW child \in Task, ForkBegin(u, child)
      PROVE  Goal
  BY <1>19 DEF TypeOK, StateOK, ForkBegin, Enter, CanRun, Calls, get_pid, ChildCommOn,
     ChildChannel, PollListCleared
<1>20. ASSUME NEW u \in Task, ForkEnd(u)
      PROVE  Goal
  BY <1>20 DEF ForkEnd, CanRun
<1>21. ASSUME NEW u \in Task, ForkFail(u)
      PROVE  Goal
  BY <1>21 DEF StateOK, ForkOK, ForkFail, CanRun, FreeTask
<1>22. ASSUME NEW u \in Task, NEW child \in Task, Wait(u, child)
      PROVE  Goal
  BY <1>22 DEF StateOK, Wait, FreeTask
<1>23. ASSUME NEW u \in Task, Exit(u)
      PROVE  Goal
  BY <1>23 DEF Exit
<1>24. ASSUME NEW u \in Task, TimerExpire(u)
      PROVE  Goal
  BY <1>24 DEF TypeOK, StateOK, TimerExpire
<1>25. ASSUME NEW u \in Task, Signal(u)
      PROVE  Goal
  BY <1>25 DEF TypeOK, StateOK, Signal
<1>26. CASE UNCHANGED vars
  BY <1>26 DEF vars, Asleep
<1> QED BY <1>1, <1>2, <1>3, <1>4, <1>5, <1>6, <1>7, <1>8, <1>9, <1>10, <1>11, <1>12, <1>13,
           <1>14, <1>15, <1>16, <1>17, <1>18, <1>19, <1>20, <1>21, <1>22, <1>23, <1>24, <1>25,
           <1>26 DEF Next, Call, Continue

(* Which code starts each part of a poll. *)
LEMMA PollFlow ==
  ASSUME Base, [Next]_vars, NEW t \in Task, pc'[t] # pc[t]
  PROVE  /\ pc'[t] = "poll_list" => PollScanNone(t)
         /\ pc'[t] = "poll_sleep" => PollSleep(t) \/ PollRefused(t)
         /\ pc'[t] = "poll_out" => PollScanFound(t) \/ PollRescan(t)
<1> DEFINE Goal == /\ pc'[t] = "poll_list" => PollScanNone(t)
                   /\ pc'[t] = "poll_sleep" => PollSleep(t) \/ PollRefused(t)
                   /\ pc'[t] = "poll_out" => PollScanFound(t) \/ PollRescan(t)
<1> SUFFICES Goal
  OBVIOUS
<1> USE TaskAssumption DEF Base, process, polling, local
<1>1. ASSUME NEW u \in Task, Register(u)
      PROVE  Goal
  BY <1>1 DEF TypeOK, Register
<1>2. ASSUME NEW u \in Task, NEW p \in Pids, SendBegin(u, p)
      PROVE  Goal
  BY <1>2 DEF TypeOK, SendBegin
<1>3. ASSUME NEW u \in Task, SendAllocData(u)
      PROVE  Goal
  BY <1>3 DEF TypeOK, SendAllocData
<1>4. ASSUME NEW u \in Task, SendNoMemory(u)
      PROVE  Goal
  BY <1>4 DEF TypeOK, SendNoMemory, Return
<1>5. ASSUME NEW u \in Task, SendFault(u)
      PROVE  Goal
  BY <1>5 DEF TypeOK, SendFault, Return
<1>6. ASSUME NEW u \in Task, SendLink(u)
      PROVE  Goal
  BY <1>6 DEF TypeOK, SendLink, Return
<1>7. ASSUME NEW u \in Task, NEW p \in Pids, ReceiveBegin(u, p)
      PROVE  Goal
  BY <1>7 DEF TypeOK, ReceiveBegin
<1>8. ASSUME NEW u \in Task, ReceiveEnd(u)
      PROVE  Goal
  BY <1>8 DEF TypeOK, ReceiveEnd, Return
<1>9. ASSUME NEW u \in Task, ReceiveFault(u)
      PROVE  Goal
  BY <1>9 DEF TypeOK, ReceiveFault, Return
<1>10. ASSUME NEW u \in Task, NEW request \in PollRequests, PollBegin(u, request)
      PROVE  Goal
  BY <1>10 DEF TypeOK, PollBegin
<1>11. ASSUME NEW u \in Task, PollFault(u)
      PROVE  Goal
  BY <1>11 DEF TypeOK, PollFault, Return
<1>12. ASSUME NEW u \in Task, PollScanFound(u)
      PROVE  Goal
  BY <1>12 DEF TypeOK, PollScanFound
<1>13. ASSUME NEW u \in Task, PollScanNone(u)
      PROVE  Goal
  BY <1>13 DEF TypeOK, PollScanNone
<1>14. ASSUME NEW u \in Task, PollNoMemory(u)
      PROVE  Goal
  BY <1>14 DEF TypeOK, PollNoMemory, Return
<1>15. ASSUME NEW u \in Task, PollSleep(u)
      PROVE  Goal
  BY <1>15 DEF TypeOK, PollSleep, PublishPollList
<1>16. ASSUME NEW u \in Task, PollRefused(u)
      PROVE  Goal
  BY <1>16 DEF TypeOK, PollRefused, PublishPollList
<1>17. ASSUME NEW u \in Task, PollRescan(u)
      PROVE  Goal
  BY <1>17 DEF TypeOK, PollRescan
<1>18. ASSUME NEW u \in Task, PollEnd(u)
      PROVE  Goal
  BY <1>18 DEF TypeOK, PollEnd, Return
<1>19. ASSUME NEW u \in Task, NEW child \in Task, ForkBegin(u, child)
      PROVE  Goal
  BY <1>19 DEF TypeOK, ForkBegin
<1>20. ASSUME NEW u \in Task, ForkEnd(u)
      PROVE  Goal
  BY <1>20 DEF TypeOK, ForkEnd, ForkOK
<1>21. ASSUME NEW u \in Task, ForkFail(u)
      PROVE  Goal
  BY <1>21 DEF TypeOK, ForkFail, Return
<1>22. ASSUME NEW u \in Task, NEW child \in Task, Wait(u, child)
      PROVE  Goal
  BY <1>22 DEF TypeOK, Wait
<1>23. ASSUME NEW u \in Task, Exit(u)
      PROVE  Goal
  BY <1>23 DEF TypeOK, Exit
<1>24. ASSUME NEW u \in Task, TimerExpire(u)
      PROVE  Goal
  BY <1>24 DEF TypeOK, TimerExpire
<1>25. ASSUME NEW u \in Task, Signal(u)
      PROVE  Goal
  BY <1>25 DEF TypeOK, Signal
<1>26. CASE UNCHANGED vars
  BY <1>26 DEF vars
<1> QED BY <1>1, <1>2, <1>3, <1>4, <1>5, <1>6, <1>7, <1>8, <1>9, <1>10, <1>11, <1>12, <1>13,
           <1>14, <1>15, <1>16, <1>17, <1>18, <1>19, <1>20, <1>21, <1>22, <1>23, <1>24, <1>25,
           <1>26 DEF Next, Call, Continue

----------------------------------------------------------------------------
(* A poll that found nothing still has nothing when it sleeps, and while it does. *)
LEMMA WakeupStep ==
  ASSUME "kmalloc" \notin MaySleep, Base, ScanStands, SleepStands, [Next]_vars
  PROVE  ScanStands' /\ SleepStands'
<1>1. ASSUME NEW t \in Task, comm_channel'[t] = comm_channel[t],
             entries'[t] = entries[t], NothingFor(t)
      PROVE  NothingFor(t)'
  BY <1>1 DEF NothingFor, is_incoming_msg_from, From
<1>2. ASSUME NEW t \in Task, pc'[t] = "poll_list"
      PROVE  cpu' = t /\ NothingFor(t)'
  <2>1. CASE pc'[t] = pc[t]
    BY <1>1, <1>2, <2>1, WhilePolling DEF ScanStands
  <2>2. CASE pc'[t] # pc[t]
    <3>1. PollScanNone(t)
      BY <1>2, <2>2, PollFlow
    <3>2. cpu' = t
      BY <3>1 DEF PollScanNone, Calls
    <3>3. entries'[t] = Scan(t) /\ comm_channel'[t] = comm_channel[t] /\ ~Reported(Scan(t))
      BY <3>1 DEF PollScanNone, Base, TypeOK
    <3>4. entries[t] \in Seq(Entry)
      BY DEF Base, TypeOK
    <3>5. NothingFor(t)'
      BY <3>3, <3>4, ScanFact DEF NothingFor, is_incoming_msg_from, Reported
    <3> QED BY <3>2, <3>5
  <2> QED BY <2>1, <2>2
<1>3. ASSUME NEW t \in Task, Asleep(t)', pc'[t] = pc[t]
      PROVE  NothingFor(t)'
  <2>1. Asleep(t) /\ entries'[t] = entries[t] /\ NothingFor(t) /\ pc[t] = "poll_sleep"
    BY <1>3, WhilePolling DEF SleepStands, Asleep
  <2>2. CASE comm_channel'[t] = comm_channel[t]
    BY <1>1, <2>1, <2>2
  <2>3. ASSUME NEW u \in Task, SendLink(u), peer[u] = t
        PROVE  NothingFor(t)'
    <3>1. held[u] \in Message /\ held[u].sender_pid = pid[u]
      BY <2>3 DEF SendLink, Base, HoldsOK, SendPcs
    <3>2. ~PollsFor(t, pid[u])
      BY <1>3, <2>3 DEF SendLink, WakeUp, Base, TypeOK, Asleep
    <3>3. \A i \in DOMAIN entries[t] : entries[t][i].pid # held[u].sender_pid
      <4>1. /\ poll_list[t] # << >>
            /\ poll_list_size[t] = Len(entries[t])
            /\ \A i \in DOMAIN entries[t] : poll_list[t][i] = entries[t][i].pid
        BY <2>1 DEF Base, PollListInUse
      <4>2. DOMAIN entries[t] = 1..Len(entries[t])
        BY DEF Base, TypeOK
      <4> QED BY <3>1, <3>2, <4>1, <4>2 DEF PollsFor
    <3>4. comm_channel'[t] \in {comm_channel[t], Append(comm_channel[t], held[u])}
      BY <2>3 DEF SendLink, LinkInto, Base, TypeOK
    <3>5. comm_channel[t] \in Seq(Message)
      BY DEF Base, TypeOK
    <3>6. \A j \in DOMAIN comm_channel'[t] :
            \/ comm_channel'[t][j] = held[u]
            \/ j \in DOMAIN comm_channel[t] /\ comm_channel'[t][j] = comm_channel[t][j]
      <4>1. CASE comm_channel'[t] = comm_channel[t]
        BY <4>1
      <4>2. CASE comm_channel'[t] = Append(comm_channel[t], held[u])
        BY <3>1, <3>5, <4>2, AppendFact
      <4> QED BY <3>4, <4>1, <4>2
    <3> QED BY <2>1, <3>3, <3>6 DEF NothingFor, is_incoming_msg_from, From
  <2> QED BY <1>3, <2>1, <2>2, <2>3, WhilePolling
<1>4. ASSUME NEW t \in Task, Asleep(t)', pc'[t] # pc[t]
      PROVE  NothingFor(t)'
  <2>1. PollSleep(t) \/ PollRefused(t)
    BY <1>4, PollFlow DEF Asleep
  <2>2. /\ pc[t] = "poll_list"
        /\ comm_channel'[t] = comm_channel[t]
        /\ entries'[t] = entries[t]
    BY <2>1 DEF PollSleep, PollRefused, PublishPollList, local
  <2> QED BY <1>1, <2>2 DEF ScanStands
<1> QED BY <1>2, <1>3, <1>4 DEF ScanStands, SleepStands

(* Nobody sleeps in poll while a message he polls for is in his queue, provided the
   kmalloc between the scan (sys_mpi_poll.c:107) and set_current_state (:142) does
   not sleep.                                                                *)
THEOREM WakeupNotLost ==
  ASSUME "kmalloc" \notin MaySleep
  PROVE  Spec => []NoLostWakeup
<1>1. Init => ScanStands /\ SleepStands
  BY DEF Init, ScanStands, SleepStands, Asleep
<1>2. Base /\ ScanStands /\ SleepStands /\ [Next]_vars => ScanStands' /\ SleepStands'
  BY WakeupStep
<1>3. Base /\ SleepStands => NoLostWakeup
  BY DEF Base, SleepStands, NothingFor, NoLostWakeup, PollListInUse
<1> QED BY BaseInvariant, <1>1, <1>2, <1>3, PTL DEF Spec

(* The report poll copies out is true of the queue for as long as it is copied. *)
THEOREM ReportIsSound == Spec => []ReportSound
<1>1. Init => ReportSound
  BY DEF Init, ReportSound
<1>2. ASSUME Base, ReportSound, [Next]_vars
      PROVE  ReportSound'
  <2> SUFFICES ASSUME NEW t \in Task, pc'[t] = "poll_out",
                      NEW i \in DOMAIN entries'[t], entries'[t][i].incoming
               PROVE  is_incoming_msg_from(t, entries[t][i].pid)'
    BY DEF ReportSound
  <2>0. comm_channel[t] \in Seq(Message) /\ entries[t] \in Seq(Entry)
    BY <1>2 DEF Base, TypeOK
  <2>1. CASE pc'[t] = pc[t]
    <3>1. entries'[t] = entries[t] /\ is_incoming_msg_from(t, entries[t][i].pid)
      BY <1>2, <2>1, WhilePolling DEF ReportSound
    <3>2. CASE comm_channel'[t] = comm_channel[t]
      BY <3>1, <3>2 DEF is_incoming_msg_from, From
    <3>3. ASSUME NEW u \in Task, SendLink(u), peer[u] = t
          PROVE  is_incoming_msg_from(t, entries[t][i].pid)'
      <4>1. held[u] \in Message
        BY <1>2, <3>3 DEF SendLink, Base, HoldsOK, SendPcs
      <4>2. comm_channel'[t] \in {comm_channel[t], Append(comm_channel[t], held[u])}
        BY <1>2, <3>3 DEF SendLink, LinkInto, Base, TypeOK
      <4>3. PICK j \in DOMAIN comm_channel[t] :
              comm_channel[t][j].sender_pid = entries[t][i].pid
        BY <3>1 DEF is_incoming_msg_from, From
      <4>4. j \in DOMAIN comm_channel'[t] /\ comm_channel'[t][j] = comm_channel[t][j]
        BY <2>0, <4>1, <4>2, AppendFact
      <4> QED BY <3>1, <4>3, <4>4 DEF is_incoming_msg_from, From
    <3> QED BY <1>2, <2>1, <3>2, <3>3, WhilePolling
  <2>2. CASE pc'[t] # pc[t]
    <3>1. PollScanFound(t) \/ PollRescan(t)
      BY <1>2, <2>2, PollFlow
    <3>2. entries'[t] = Scan(t) /\ comm_channel'[t] = comm_channel[t]
      BY <1>2, <3>1 DEF PollScanFound, PollRescan, Base, TypeOK
    <3> QED BY <2>0, <3>2, ScanFact DEF is_incoming_msg_from
  <2> QED BY <2>1, <2>2
<1> QED BY BaseInvariant, <1>1, <1>2, PTL DEF Spec

----------------------------------------------------------------------------
(* Who sends, receives or polls is registered, and stays it while he does.   *)
Calling == SendPcs \cup PollPcs \cup {"recv_copy"}

Registered == \A t \in Task : pc[t] \in Calling => comm_on[t]

(* Only release_task and a fork that fails take the registration back. *)
LEMMA RegisteredStep == Base /\ Registered /\ [Next]_vars => Registered'
<1> SUFFICES ASSUME Base, Registered, [Next]_vars, NEW t \in Task, pc'[t] \in Calling
             PROVE  comm_on'[t]
  BY DEF Registered
<1> DEFINE Goal == comm_on'[t]
<1> SUFFICES Goal
  OBVIOUS
<1> USE TaskAssumption, PidAssumption DEF Base, Registered, process, polling, local
<1>1. ASSUME NEW u \in Task, Register(u)
      PROVE  Goal
  BY <1>1 DEF TypeOK, StateOK, Calling, SendPcs, PollPcs, Register
<1>2. ASSUME NEW u \in Task, NEW p \in Pids, SendBegin(u, p)
      PROVE  Goal
  BY <1>2 DEF TypeOK, StateOK, Calling, SendPcs, PollPcs, SendBegin, Calls
<1>3. ASSUME NEW u \in Task, SendAllocData(u)
      PROVE  Goal
  BY <1>3 DEF TypeOK, StateOK, Calling, SendPcs, PollPcs, SendAllocData, Calls
<1>4. ASSUME NEW u \in Task, SendNoMemory(u)
      PROVE  Goal
  BY <1>4 DEF TypeOK, StateOK, Calling, SendPcs, PollPcs, SendNoMemory, Return
<1>5. ASSUME NEW u \in Task, SendFault(u)
      PROVE  Goal
  BY <1>5 DEF TypeOK, StateOK, Calling, SendPcs, PollPcs, SendFault, Return
<1>6. ASSUME NEW u \in Task, SendLink(u)
      PROVE  Goal
  BY <1>6 DEF TypeOK, StateOK, Calling, SendPcs, PollPcs, SendLink, Return
<1>7. ASSUME NEW u \in Task, NEW p \in Pids, ReceiveBegin(u, p)
      PROVE  Goal
  BY <1>7 DEF TypeOK, StateOK, Calling, SendPcs, PollPcs, ReceiveBegin, Calls
<1>8. ASSUME NEW u \in Task, ReceiveEnd(u)
      PROVE  Goal
  BY <1>8 DEF TypeOK, StateOK, Calling, SendPcs, PollPcs, ReceiveEnd, Return
<1>9. ASSUME NEW u \in Task, ReceiveFault(u)
      PROVE  Goal
  BY <1>9 DEF TypeOK, StateOK, Calling, SendPcs, PollPcs, ReceiveFault, Return
<1>10. ASSUME NEW u \in Task, NEW request \in PollRequests, PollBegin(u, request)
      PROVE  Goal
  BY <1>10 DEF TypeOK, StateOK, Calling, SendPcs, PollPcs, PollBegin, Calls
<1>11. ASSUME NEW u \in Task, PollFault(u)
      PROVE  Goal
  BY <1>11 DEF TypeOK, StateOK, Calling, SendPcs, PollPcs, PollFault, Return
<1>12. ASSUME NEW u \in Task, PollScanFound(u)
      PROVE  Goal
  BY <1>12 DEF TypeOK, StateOK, Calling, SendPcs, PollPcs, PollScanFound, Calls
<1>13. ASSUME NEW u \in Task, PollScanNone(u)
      PROVE  Goal
  BY <1>13 DEF TypeOK, StateOK, Calling, SendPcs, PollPcs, PollScanNone, Calls
<1>14. ASSUME NEW u \in Task, PollNoMemory(u)
      PROVE  Goal
  BY <1>14 DEF TypeOK, StateOK, Calling, SendPcs, PollPcs, PollNoMemory, Return
<1>15. ASSUME NEW u \in Task, PollSleep(u)
      PROVE  Goal
  BY <1>15 DEF TypeOK, StateOK, Calling, SendPcs, PollPcs, PollSleep, PublishPollList
<1>16. ASSUME NEW u \in Task, PollRefused(u)
      PROVE  Goal
  BY <1>16 DEF TypeOK, StateOK, Calling, SendPcs, PollPcs, PollRefused, PublishPollList
<1>17. ASSUME NEW u \in Task, PollRescan(u)
      PROVE  Goal
  BY <1>17 DEF TypeOK, StateOK, Calling, SendPcs, PollPcs, PollRescan, Calls
<1>18. ASSUME NEW u \in Task, PollEnd(u)
      PROVE  Goal
  BY <1>18 DEF TypeOK, StateOK, Calling, SendPcs, PollPcs, PollEnd, Return
<1>19. ASSUME NEW u \in Task, NEW child \in Task, ForkBegin(u, child)
      PROVE  Goal
  BY <1>19 DEF TypeOK, StateOK, Calling, SendPcs, PollPcs, ForkBegin, Enter
<1>20. ASSUME NEW u \in Task, ForkEnd(u)
      PROVE  Goal
  <2>1. peer[u] \in Task /\ pc[peer[u]] = "none" /\ pc[u] = "fork_copy"
    BY <1>20 DEF ForkOK, StateOK, ForkEnd
  <2> QED BY <1>20, <2>1 DEF TypeOK, Calling, SendPcs, PollPcs, ForkEnd
<1>21. ASSUME NEW u \in Task, ForkFail(u)
      PROVE  Goal
  BY <1>21 DEF TypeOK, StateOK, Calling, SendPcs, PollPcs, ForkOK, ForkFail, FreeTask, Return
<1>22. ASSUME NEW u \in Task, NEW child \in Task, Wait(u, child)
      PROVE  Goal
  BY <1>22 DEF TypeOK, StateOK, Calling, SendPcs, PollPcs, Wait, FreeTask
<1>23. ASSUME NEW u \in Task, Exit(u)
      PROVE  Goal
  BY <1>23 DEF TypeOK, StateOK, Calling, SendPcs, PollPcs, Exit
<1>24. ASSUME NEW u \in Task, TimerExpire(u)
      PROVE  Goal
  BY <1>24 DEF TypeOK, StateOK, Calling, SendPcs, PollPcs, TimerExpire
<1>25. ASSUME NEW u \in Task, Signal(u)
      PROVE  Goal
  BY <1>25 DEF TypeOK, StateOK, Calling, SendPcs, PollPcs, Signal
<1>26. CASE UNCHANGED vars
  BY <1>26 DEF vars, TypeOK, StateOK, Calling, SendPcs, PollPcs
<1> QED BY <1>1, <1>2, <1>3, <1>4, <1>5, <1>6, <1>7, <1>8, <1>9, <1>10, <1>11, <1>12,
           <1>13, <1>14, <1>15, <1>16, <1>17, <1>18, <1>19, <1>20, <1>21, <1>22,
           <1>23, <1>24, <1>25, <1>26 DEF Next, Call, Continue

(* Registered always holds. *)
LEMMA RegisteredHolds == Spec => []Registered
<1>1. Init => Registered
  BY DEF Init, Registered, Calling, SendPcs, PollPcs
<1> QED BY BaseInvariant, RegisteredStep, <1>1, PTL DEF Spec

(* A task leaves its sleep by its timer, a signal or a sender it polls for, and
   nothing takes back that its timer expired.                                *)
LEMMA WhileAsleep ==
  ASSUME Base, [Next]_vars, NEW t \in Task,
         pc[t] \in {"poll_sleep", "poll_out"}, pc'[t] = pc[t]
  PROVE  /\ timer'[t] \in {timer[t], "expired"}
         /\ \/ state'[t] = state[t]
            \/ timer'[t] = "expired"
            \/ t \in Signalled
            \/ \E u \in Task : SendLink(u) /\ peer[u] = t /\ PollsFor(t, pid[u])
<1> DEFINE Goal == /\ timer'[t] \in {timer[t], "expired"}
                   /\ \/ state'[t] = state[t]
                      \/ timer'[t] = "expired"
                      \/ t \in Signalled
                      \/ \E u \in Task : SendLink(u) /\ peer[u] = t /\ PollsFor(t, pid[u])
<1> SUFFICES Goal
  OBVIOUS
<1> USE TaskAssumption, PidAssumption DEF Base, process, polling, local
<1>1. ASSUME NEW u \in Task, Register(u)
      PROVE  Goal
  BY <1>1 DEF TypeOK, StateOK, Register
<1>2. ASSUME NEW u \in Task, NEW p \in Pids, SendBegin(u, p)
      PROVE  Goal
  BY <1>2 DEF TypeOK, StateOK, SendBegin, Calls
<1>3. ASSUME NEW u \in Task, SendAllocData(u)
      PROVE  Goal
  BY <1>3 DEF TypeOK, StateOK, SendAllocData, Calls
<1>4. ASSUME NEW u \in Task, SendNoMemory(u)
      PROVE  Goal
  BY <1>4 DEF TypeOK, StateOK, SendNoMemory, Return
<1>5. ASSUME NEW u \in Task, SendFault(u)
      PROVE  Goal
  BY <1>5 DEF TypeOK, StateOK, SendFault, Return
<1>6. ASSUME NEW u \in Task, SendLink(u)
      PROVE  Goal
  <2>1. timer' = timer /\ peer[u] \in Task
    BY <1>6 DEF SendLink, HoldsOK, SendPcs
  <2>2. CASE peer[u] = t
    <3>1. state'[t] = state[t] \/ PollsFor(t, pid[u])
      BY <1>6, <2>2 DEF SendLink, WakeUp
    <3> QED BY <1>6, <2>1, <2>2, <3>1
  <2>3. CASE peer[u] # t
    <3>1. state'[t] = state[t]
      BY <1>6, <2>1, <2>3 DEF TypeOK, SendLink, WakeUp
    <3> QED BY <2>1, <3>1
  <2> QED BY <2>2, <2>3
<1>7. ASSUME NEW u \in Task, NEW p \in Pids, ReceiveBegin(u, p)
      PROVE  Goal
  BY <1>7 DEF TypeOK, StateOK, ReceiveBegin, Calls
<1>8. ASSUME NEW u \in Task, ReceiveEnd(u)
      PROVE  Goal
  BY <1>8 DEF TypeOK, StateOK, ReceiveEnd, Return
<1>9. ASSUME NEW u \in Task, ReceiveFault(u)
      PROVE  Goal
  BY <1>9 DEF TypeOK, StateOK, ReceiveFault, Return
<1>10. ASSUME NEW u \in Task, NEW request \in PollRequests, PollBegin(u, request)
      PROVE  Goal
  BY <1>10 DEF TypeOK, StateOK, PollBegin, Calls
<1>11. ASSUME NEW u \in Task, PollFault(u)
      PROVE  Goal
  BY <1>11 DEF TypeOK, StateOK, PollFault, Return
<1>12. ASSUME NEW u \in Task, PollScanFound(u)
      PROVE  Goal
  BY <1>12 DEF TypeOK, StateOK, PollScanFound, Calls
<1>13. ASSUME NEW u \in Task, PollScanNone(u)
      PROVE  Goal
  BY <1>13 DEF TypeOK, StateOK, PollScanNone, Calls
<1>14. ASSUME NEW u \in Task, PollNoMemory(u)
      PROVE  Goal
  BY <1>14 DEF TypeOK, StateOK, PollNoMemory, Return
<1>15. ASSUME NEW u \in Task, PollSleep(u)
      PROVE  Goal
  BY <1>15 DEF TypeOK, StateOK, PollSleep, PublishPollList
<1>16. ASSUME NEW u \in Task, PollRefused(u)
      PROVE  Goal
  BY <1>16 DEF TypeOK, StateOK, PollRefused, PublishPollList
<1>17. ASSUME NEW u \in Task, PollRescan(u)
      PROVE  Goal
  BY <1>17 DEF TypeOK, StateOK, PollRescan, Calls
<1>18. ASSUME NEW u \in Task, PollEnd(u)
      PROVE  Goal
  BY <1>18 DEF TypeOK, StateOK, PollEnd, Return
<1>19. ASSUME NEW u \in Task, NEW child \in Task, ForkBegin(u, child)
      PROVE  Goal
  BY <1>19 DEF TypeOK, StateOK, ForkBegin, Enter
<1>20. ASSUME NEW u \in Task, ForkEnd(u)
      PROVE  Goal
  BY <1>20 DEF TypeOK, StateOK, ForkEnd
<1>21. ASSUME NEW u \in Task, ForkFail(u)
      PROVE  Goal
  BY <1>21 DEF TypeOK, StateOK, ForkOK, ForkFail, FreeTask, Return
<1>22. ASSUME NEW u \in Task, NEW child \in Task, Wait(u, child)
      PROVE  Goal
  BY <1>22 DEF TypeOK, StateOK, Wait, FreeTask
<1>23. ASSUME NEW u \in Task, Exit(u)
      PROVE  Goal
  BY <1>23 DEF TypeOK, StateOK, Exit
<1>24. ASSUME NEW u \in Task, TimerExpire(u)
      PROVE  Goal
  BY <1>24 DEF TypeOK, StateOK, TimerExpire
<1>25. ASSUME NEW u \in Task, Signal(u)
      PROVE  Goal
  BY <1>25 DEF TypeOK, StateOK, Signal
<1>26. CASE UNCHANGED vars
  BY <1>26 DEF vars, TypeOK, StateOK
<1> QED BY <1>1, <1>2, <1>3, <1>4, <1>5, <1>6, <1>7, <1>8, <1>9, <1>10, <1>11, <1>12,
           <1>13, <1>14, <1>15, <1>16, <1>17, <1>18, <1>19, <1>20, <1>21, <1>22,
           <1>23, <1>24, <1>25, <1>26 DEF Next, Call, Continue

(* Who is awake in schedule_timeout has run out of time or got a message. *)
WokenRightly ==
  \A t \in Task : pc[t] = "poll_sleep" /\ ~Asleep(t) => timer[t] = "expired" \/ ~NothingFor(t)

(* A queue that grows at its end still has what somebody polls for. *)
LEMMA StillSomething ==
  ASSUME Base, NEW t \in Task, entries'[t] = entries[t], ~NothingFor(t),
         \/ comm_channel'[t] = comm_channel[t]
         \/ \E u \in Task : SendLink(u) /\ comm_channel'[t] = Append(comm_channel[t], held[u])
  PROVE  ~NothingFor(t)'
<1>1. PICK i \in DOMAIN entries[t], j \in DOMAIN comm_channel[t] :
        comm_channel[t][j].sender_pid = entries[t][i].pid
  BY DEF NothingFor, is_incoming_msg_from, From
<1>2. comm_channel[t] \in Seq(Message)
  BY DEF Base, TypeOK
<1>3. \A u \in Task : SendLink(u) => held[u] \in Message
  BY DEF SendLink, Base, HoldsOK, SendPcs
<1>4. j \in DOMAIN comm_channel'[t] /\ comm_channel'[t][j] = comm_channel[t][j]
  BY <1>1, <1>2, <1>3, AppendFact
<1> QED BY <1>1, <1>4 DEF NothingFor, is_incoming_msg_from, From

(* What a sender brings to the poller it wakes is what the poller asked for. *)
LEMMA WokenBySend ==
  ASSUME Base, Registered, [Next]_vars, NEW t \in Task, NEW u \in Task, SendLink(u), peer[u] = t,
         pc[t] = "poll_sleep", PollsFor(t, pid[u]), entries'[t] = entries[t]
  PROVE  ~NothingFor(t)'
<1>1. held[u] \in Message /\ held[u].sender_pid = pid[u]
  BY DEF SendLink, Base, HoldsOK, SendPcs
<1>2. HasQueue(t)
  BY DEF HasQueue, Base, StateOK, Registered, Calling, PollPcs
<1>3. comm_channel'[t] = Append(comm_channel[t], held[u])
  BY <1>2 DEF SendLink, LinkInto, Base, TypeOK
<1>4. comm_channel[t] \in Seq(Message)
  BY DEF Base, TypeOK
<1>5. Len(comm_channel[t]) + 1 \in DOMAIN comm_channel'[t]
        /\ comm_channel'[t][Len(comm_channel[t]) + 1] = held[u]
  BY <1>1, <1>3, <1>4, AppendFact
<1>6. \E i \in DOMAIN entries[t] : entries[t][i].pid = pid[u]
  <2>1. /\ poll_list_size[t] = Len(entries[t])
        /\ \A i \in DOMAIN entries[t] : poll_list[t][i] = entries[t][i].pid
    BY DEF Base, PollListInUse
  <2>2. DOMAIN entries[t] = 1..Len(entries[t])
    BY DEF Base, TypeOK
  <2> QED BY <2>1, <2>2 DEF PollsFor
<1> QED BY <1>1, <1>5, <1>6 DEF NothingFor, is_incoming_msg_from, From

(* Every step keeps what poll reports when it gives up true. *)
LEMMA TimeoutStep ==
  ASSUME Signalled = {}, \A timeout \in Timeouts : Jiffies(timeout) >= 0,
         Base, NoQueue, Registered, WokenRightly, TimeoutHonest, [Next]_vars
  PROVE  WokenRightly' /\ TimeoutHonest'
<1>1. ASSUME NEW t \in Task, pc'[t] = "poll_sleep", pc[t] = "poll_sleep", ~Asleep(t)',
             timer'[t] # "expired"
      PROVE  ~NothingFor(t)'
  <2>1. entries'[t] = entries[t] /\ timer[t] # "expired"
    BY <1>1, WhilePolling, WhileAsleep
  <2>2. CASE state'[t] = state[t]
    <3>1. ~NothingFor(t)
      BY <1>1, <2>1, <2>2 DEF WokenRightly, Asleep
    <3>2. \/ comm_channel'[t] = comm_channel[t]
          \/ \E u \in Task : SendLink(u) /\ comm_channel'[t] = Append(comm_channel[t], held[u])
      <4>1. ~ReceiveEnd(t)
        BY <1>1 DEF ReceiveEnd
      <4> QED BY <1>1, <4>1, QueueSteps
    <3> QED BY <2>1, <3>1, <3>2, StillSomething
  <2>3. ASSUME NEW u \in Task, SendLink(u), peer[u] = t, PollsFor(t, pid[u])
        PROVE  ~NothingFor(t)'
    BY <1>1, <2>1, <2>3, WokenBySend
  <2> QED BY <1>1, <2>2, <2>3, WhileAsleep
<1>2. ASSUME NEW t \in Task, pc'[t] = "poll_sleep", pc[t] # "poll_sleep"
      PROVE  Asleep(t)'
  <2>1. PollSleep(t) \/ PollRefused(t)
    BY <1>2, PollFlow
  <2>2. CASE PollSleep(t)
    BY <1>2, <2>2 DEF PollSleep, PublishPollList, Asleep, Base, TypeOK
  <2>3. CASE PollRefused(t)
    <3>1. PICK timeout \in Timeouts : Jiffies(timeout) < 0
      BY <2>3 DEF PollRefused
    <3>2. Jiffies(timeout) >= 0 /\ Jiffies(timeout) \in Int
      BY TimeoutAssumption DEF Jiffies
    <3> QED BY <3>1, <3>2
  <2> QED BY <2>1, <2>2, <2>3
<1>3. ASSUME NEW t \in Task, pc'[t] = "poll_out", ~Reported(entries[t])'
      PROVE  timer'[t] = "expired"
  <2>1. CASE pc[t] = "poll_out"
    BY <1>3, <2>1, WhilePolling, WhileAsleep DEF TimeoutHonest, Reported
  <2>2. CASE pc[t] # "poll_out"
    <3>1. PollScanFound(t) \/ PollRescan(t)
      BY <1>3, <2>2, PollFlow
    <3>2. entries'[t] = Scan(t)
      BY <3>1 DEF PollScanFound, PollRescan, Base, TypeOK
    <3>3. PollRescan(t) /\ ~Reported(Scan(t))
      BY <1>3, <3>1, <3>2 DEF PollScanFound, Reported
    <3>4. entries[t] \in Seq(Entry)
      BY DEF Base, TypeOK
    <3>5. NothingFor(t)
      BY <3>3, <3>4, ScanFact DEF NothingFor, Reported
    <3>6. pc[t] = "poll_sleep" /\ ~Asleep(t)
      BY <3>3 DEF PollRescan, CanRun, Asleep
    <3> QED BY <3>3, <3>5, <3>6 DEF WokenRightly, PollRescan, Base, TypeOK
  <2> QED BY <2>1, <2>2
<1> QED BY <1>1, <1>2, <1>3 DEF WokenRightly, TimeoutHonest

(* Poll returns ETIMEDOUT for a reason: where no signal interrupts it and no
   timeout overflows, its time was up, whatever else sleeps.                 *)
THEOREM TimeoutsAreHonest ==
  ASSUME Signalled = {}, \A timeout \in Timeouts : Jiffies(timeout) >= 0
  PROVE  Spec => []TimeoutHonest
<1>1. Init => WokenRightly /\ TimeoutHonest
  BY DEF Init, WokenRightly, TimeoutHonest
<1>2. Base /\ NoQueue /\ Registered /\ WokenRightly /\ TimeoutHonest /\ [Next]_vars
        => WokenRightly' /\ TimeoutHonest'
  BY TimeoutStep
<1> QED BY BaseInvariant, NoQueueHolds, RegisteredHolds, <1>1, <1>2, PTL DEF Spec

----------------------------------------------------------------------------
(* When the allocations and copy_from_user find what they need at once, a send is
   not interrupted.                                                          *)
SendsNeverSleep == {"kmalloc", "copy_from_user"} \cap MaySleep = {}

(* So its receiver stays the process it named, and registered. *)
SendsWhole ==
  \A t \in Task : pc[t] \in SendPcs =>
    /\ cpu = t
    /\ peer[t] \in Hashed /\ comm_on[peer[t]]
    /\ held[t].addressee = pid[peer[t]]

(* Nobody else runs between the parts of a send, so its receiver stays. *)
LEMMA SendsWholeStep ==
  SendsNeverSleep /\ Base /\ SendsWhole /\ [Next]_vars => SendsWhole'
<1> SUFFICES ASSUME SendsNeverSleep, Base, SendsWhole, [Next]_vars,
                    NEW t \in Task, pc'[t] \in SendPcs
             PROVE  /\ cpu' = t
                    /\ peer'[t] \in Hashed' /\ comm_on'[peer'[t]]
                    /\ held'[t].addressee = pid'[peer'[t]]
  BY DEF SendsWhole
<1> DEFINE Goal == /\ cpu' = t
                   /\ peer'[t] \in Hashed' /\ comm_on'[peer'[t]]
                   /\ held'[t].addressee = pid'[peer'[t]]
<1> SUFFICES Goal
  OBVIOUS
<1> USE TaskAssumption DEF Base, SendsWhole, process, polling, local
<1>1. ASSUME NEW u \in Task, Register(u)
      PROVE  Goal
  BY <1>1 DEF TypeOK, StateOK, SendPcs, Register, Enter, CanRun
<1>2. ASSUME NEW u \in Task, NEW p \in Pids, SendBegin(u, p)
      PROVE  Goal
  <2>1. pc[u] = "user" /\ cpu = NoTask /\ cpu' = u /\ pc' = [pc EXCEPT ![u] = "send_data"]
    BY <1>2 DEF SendsNeverSleep, SendBegin, Enter, Calls
  <2>2. \A v \in Task : pc[v] \notin SendPcs
    BY <2>1
  <2>3. \A v \in Task : pc'[v] \in SendPcs => v = u
    BY <2>1, <2>2 DEF TypeOK
  <2>4. PICK receiver \in find_task_by_pid(p) :
          comm_on[receiver] /\ peer' = [peer EXCEPT ![u] = receiver]
    BY <1>2 DEF SendBegin
  <2>5. /\ receiver \in Hashed /\ peer'[u] = receiver /\ pid'[receiver] = p
        /\ held'[u].addressee = p /\ comm_on' = comm_on /\ state' = state
    BY <1>2, <2>4 DEF SendBegin, TypeOK, find_task_by_pid
  <2> QED BY <2>1, <2>3, <2>4, <2>5 DEF Hashed
<1>3. ASSUME NEW u \in Task, SendAllocData(u)
      PROVE  Goal
  <2>1. cpu' = u /\ pc' = [pc EXCEPT ![u] = "send_link"] /\ pc[u] = "send_data"
    BY <1>3 DEF SendsNeverSleep, SendAllocData, Calls
  <2>2. UNCHANGED <<state, pid, comm_on, peer, held>>
    BY <1>3 DEF SendAllocData
  <2> QED BY <2>1, <2>2 DEF TypeOK, SendPcs, Hashed
<1>4. ASSUME NEW u \in Task, SendNoMemory(u)
      PROVE  Goal
  BY <1>4 DEF TypeOK, StateOK, SendPcs, SendNoMemory, Enter, CanRun, Return
<1>5. ASSUME NEW u \in Task, SendFault(u)
      PROVE  Goal
  BY <1>5 DEF TypeOK, StateOK, SendPcs, SendFault, Enter, CanRun, Return
<1>6. ASSUME NEW u \in Task, SendLink(u)
      PROVE  Goal
  BY <1>6 DEF TypeOK, SendPcs, SendLink, CanRun, Return
<1>7. ASSUME NEW u \in Task, NEW p \in Pids, ReceiveBegin(u, p)
      PROVE  Goal
  BY <1>7 DEF TypeOK, StateOK, SendPcs, ReceiveBegin, Enter, CanRun, Calls
<1>8. ASSUME NEW u \in Task, ReceiveEnd(u)
      PROVE  Goal
  BY <1>8 DEF TypeOK, StateOK, SendPcs, ReceiveEnd, Enter, CanRun, Return
<1>9. ASSUME NEW u \in Task, ReceiveFault(u)
      PROVE  Goal
  BY <1>9 DEF TypeOK, StateOK, SendPcs, ReceiveFault, Enter, CanRun, Return
<1>10. ASSUME NEW u \in Task, NEW request \in PollRequests, PollBegin(u, request)
      PROVE  Goal
  BY <1>10 DEF TypeOK, StateOK, SendPcs, PollBegin, Enter, CanRun, Calls
<1>11. ASSUME NEW u \in Task, PollFault(u)
      PROVE  Goal
  BY <1>11 DEF TypeOK, StateOK, SendPcs, PollFault, Enter, CanRun, Return
<1>12. ASSUME NEW u \in Task, PollScanFound(u)
      PROVE  Goal
  BY <1>12 DEF TypeOK, StateOK, SendPcs, PollScanFound, Enter, CanRun, Calls
<1>13. ASSUME NEW u \in Task, PollScanNone(u)
      PROVE  Goal
  BY <1>13 DEF TypeOK, StateOK, SendPcs, PollScanNone, Enter, CanRun, Calls
<1>14. ASSUME NEW u \in Task, PollNoMemory(u)
      PROVE  Goal
  BY <1>14 DEF TypeOK, StateOK, SendPcs, PollNoMemory, Enter, CanRun, Return
<1>15. ASSUME NEW u \in Task, PollSleep(u)
      PROVE  Goal
  BY <1>15 DEF TypeOK, StateOK, SendPcs, PollSleep, Enter, CanRun, PublishPollList
<1>16. ASSUME NEW u \in Task, PollRefused(u)
      PROVE  Goal
  BY <1>16 DEF TypeOK, StateOK, SendPcs, PollRefused, Enter, CanRun, PublishPollList
<1>17. ASSUME NEW u \in Task, PollRescan(u)
      PROVE  Goal
  BY <1>17 DEF TypeOK, StateOK, SendPcs, PollRescan, Enter, CanRun, Calls
<1>18. ASSUME NEW u \in Task, PollEnd(u)
      PROVE  Goal
  BY <1>18 DEF TypeOK, StateOK, SendPcs, PollEnd, Enter, CanRun, Return
<1>19. ASSUME NEW u \in Task, NEW child \in Task, ForkBegin(u, child)
      PROVE  Goal
  BY <1>19 DEF TypeOK, StateOK, SendPcs, ForkBegin, Enter, CanRun, Calls
<1>20. ASSUME NEW u \in Task, ForkEnd(u)
      PROVE  Goal
  <2>1. peer[u] \in Task /\ pc[peer[u]] = "none" /\ pc[u] = "fork_copy" /\ cpu \in {u, NoTask}
    BY <1>20 DEF ForkOK, StateOK, ForkEnd, CanRun
  <2>2. pc'[t] = pc[t]
    BY <1>20, <2>1 DEF TypeOK, SendPcs, ForkEnd
  <2> QED BY <2>1, <2>2 DEF SendPcs
<1>21. ASSUME NEW u \in Task, ForkFail(u)
      PROVE  Goal
  BY <1>21 DEF TypeOK, StateOK, SendPcs, ForkFail, Enter, CanRun, FreeTask, Return
<1>22. ASSUME NEW u \in Task, NEW child \in Task, Wait(u, child)
      PROVE  Goal
  BY <1>22 DEF TypeOK, StateOK, SendPcs, Wait, Enter, CanRun, FreeTask
<1>23. ASSUME NEW u \in Task, Exit(u)
      PROVE  Goal
  BY <1>23 DEF TypeOK, StateOK, SendPcs, Exit, Enter, CanRun
<1>24. ASSUME NEW u \in Task, TimerExpire(u)
      PROVE  Goal
  <2>1. pc[u] = "poll_sleep" /\ state' = [state EXCEPT ![u] = "TASK_RUNNING"]
    BY <1>24 DEF TimerExpire, StateOK
  <2>2. \A v \in Task : v \in Hashed => v \in Hashed'
    BY <2>1 DEF TypeOK, StateOK, Hashed
  <2>3. UNCHANGED <<pid, comm_on, cpu, pc, peer, held>>
    BY <1>24 DEF TimerExpire
  <2>4. peer[t] \in Hashed /\ peer[t] \in Task
    BY <2>3 DEF Hashed
  <2> QED BY <2>2, <2>3, <2>4
<1>25. ASSUME NEW u \in Task, Signal(u)
      PROVE  Goal
  <2>1. \A v \in Task : v \in Hashed => v \in Hashed'
    BY <1>25 DEF Signal, TypeOK, Hashed
  <2>2. UNCHANGED <<pid, comm_on, cpu, pc, peer, held>>
    BY <1>25 DEF Signal
  <2>3. peer[t] \in Hashed /\ peer[t] \in Task
    BY <2>2 DEF Hashed
  <2> QED BY <2>1, <2>2, <2>3
<1>26. CASE UNCHANGED vars
  BY <1>26 DEF vars, Hashed
<1> QED BY <1>1, <1>2, <1>3, <1>4, <1>5, <1>6, <1>7, <1>8, <1>9, <1>10, <1>11, <1>12,
           <1>13, <1>14, <1>15, <1>16, <1>17, <1>18, <1>19, <1>20, <1>21, <1>22,
           <1>23, <1>24, <1>25, <1>26 DEF Next, Call, Continue

(* Memory without a task, and a child fork is still making. *)
Hidden == {"FREE", "TASK_UNINTERRUPTIBLE"}

HiddenOrphans == \A t \in Task : state[t] \in Hidden => p_opptr[t] = NoTask

(* Only memory fork takes hides a child, a pid goes with its task, and what is
   hidden has no parent.                                                     *)
LEMMA TaskSteps ==
  ASSUME Base, HiddenOrphans, [Next]_vars, NEW t \in Task
  PROVE  /\ pid'[t] = pid[t] \/ state[t] = "FREE" \/ state'[t] = "FREE"
         /\ state'[t] = "TASK_UNINTERRUPTIBLE" => state[t] \in Hidden
         /\ state'[t] \in Hidden => p_opptr'[t] = NoTask
<1> DEFINE Goal == /\ pid'[t] = pid[t] \/ state[t] = "FREE" \/ state'[t] = "FREE"
                   /\ state'[t] = "TASK_UNINTERRUPTIBLE" => state[t] \in Hidden
                   /\ state'[t] \in Hidden => p_opptr'[t] = NoTask
<1> SUFFICES Goal
  OBVIOUS
<1> USE TaskAssumption DEF Base, HiddenOrphans, process, polling, local
<1>1. ASSUME NEW u \in Task, Register(u)
      PROVE  Goal
  BY <1>1 DEF TypeOK, StateOK, Hidden, Register
<1>2. ASSUME NEW u \in Task, NEW p \in Pids, SendBegin(u, p)
      PROVE  Goal
  BY <1>2 DEF TypeOK, StateOK, Hidden, SendBegin, Calls
<1>3. ASSUME NEW u \in Task, SendAllocData(u)
      PROVE  Goal
  BY <1>3 DEF TypeOK, StateOK, Hidden, SendAllocData, Calls
<1>4. ASSUME NEW u \in Task, SendNoMemory(u)
      PROVE  Goal
  BY <1>4 DEF TypeOK, StateOK, Hidden, SendNoMemory, Return
<1>5. ASSUME NEW u \in Task, SendFault(u)
      PROVE  Goal
  BY <1>5 DEF TypeOK, StateOK, Hidden, SendFault, Return
<1>6. ASSUME NEW u \in Task, SendLink(u)
      PROVE  Goal
  <2>1. UNCHANGED <<pid, p_opptr>> /\ (state'[t] = state[t] \/ state'[t] = "TASK_RUNNING")
    BY <1>6, Linked DEF TypeOK, SendLink, WakeUp
  <2> QED BY <1>6, <2>1 DEF Hidden
<1>7. ASSUME NEW u \in Task, NEW p \in Pids, ReceiveBegin(u, p)
      PROVE  Goal
  BY <1>7 DEF TypeOK, StateOK, Hidden, ReceiveBegin, Calls
<1>8. ASSUME NEW u \in Task, ReceiveEnd(u)
      PROVE  Goal
  BY <1>8 DEF TypeOK, StateOK, Hidden, ReceiveEnd, Return
<1>9. ASSUME NEW u \in Task, ReceiveFault(u)
      PROVE  Goal
  BY <1>9 DEF TypeOK, StateOK, Hidden, ReceiveFault, Return
<1>10. ASSUME NEW u \in Task, NEW request \in PollRequests, PollBegin(u, request)
      PROVE  Goal
  BY <1>10 DEF TypeOK, StateOK, Hidden, PollBegin, Calls
<1>11. ASSUME NEW u \in Task, PollFault(u)
      PROVE  Goal
  BY <1>11 DEF TypeOK, StateOK, Hidden, PollFault, Return
<1>12. ASSUME NEW u \in Task, PollScanFound(u)
      PROVE  Goal
  BY <1>12 DEF TypeOK, StateOK, Hidden, PollScanFound, Calls
<1>13. ASSUME NEW u \in Task, PollScanNone(u)
      PROVE  Goal
  BY <1>13 DEF TypeOK, StateOK, Hidden, PollScanNone, Calls
<1>14. ASSUME NEW u \in Task, PollNoMemory(u)
      PROVE  Goal
  BY <1>14 DEF TypeOK, StateOK, Hidden, PollNoMemory, Return
<1>15. ASSUME NEW u \in Task, PollSleep(u)
      PROVE  Goal
  BY <1>15 DEF TypeOK, StateOK, Hidden, PollSleep, PublishPollList
<1>16. ASSUME NEW u \in Task, PollRefused(u)
      PROVE  Goal
  BY <1>16 DEF TypeOK, StateOK, Hidden, PollRefused, PublishPollList
<1>17. ASSUME NEW u \in Task, PollRescan(u)
      PROVE  Goal
  BY <1>17 DEF TypeOK, StateOK, Hidden, PollRescan, Calls
<1>18. ASSUME NEW u \in Task, PollEnd(u)
      PROVE  Goal
  BY <1>18 DEF TypeOK, StateOK, Hidden, PollEnd, Return
<1>19. ASSUME NEW u \in Task, NEW child \in Task, ForkBegin(u, child)
      PROVE  Goal
  BY <1>19 DEF TypeOK, StateOK, Hidden, ForkBegin, Calls
<1>20. ASSUME NEW u \in Task, ForkEnd(u)
      PROVE  Goal
  <2>1. peer[u] \in Task /\ state' = [state EXCEPT ![peer[u]] = "TASK_RUNNING"]
    BY <1>20 DEF ForkOK, ForkEnd
  <2>2. pid' = pid /\ p_opptr' = [p_opptr EXCEPT ![peer[u]] = u]
    BY <1>20 DEF ForkEnd
  <2> QED BY <2>1, <2>2 DEF TypeOK, Hidden
<1>21. ASSUME NEW u \in Task, ForkFail(u)
      PROVE  Goal
  BY <1>21 DEF TypeOK, StateOK, Hidden, ForkOK, ForkFail, FreeTask, Return
<1>22. ASSUME NEW u \in Task, NEW child \in Task, Wait(u, child)
      PROVE  Goal
  BY <1>22 DEF TypeOK, StateOK, Hidden, Wait, FreeTask
<1>23. ASSUME NEW u \in Task, Exit(u)
      PROVE  Goal
  BY <1>23 DEF TypeOK, StateOK, Hidden, Reparented, Exit
<1>24. ASSUME NEW u \in Task, TimerExpire(u)
      PROVE  Goal
  BY <1>24 DEF TypeOK, StateOK, Hidden, TimerExpire
<1>25. ASSUME NEW u \in Task, Signal(u)
      PROVE  Goal
  BY <1>25 DEF TypeOK, StateOK, Hidden, Signal
<1>26. CASE UNCHANGED vars
  BY <1>26 DEF vars, TypeOK, StateOK, Hidden
<1> QED BY <1>1, <1>2, <1>3, <1>4, <1>5, <1>6, <1>7, <1>8, <1>9, <1>10, <1>11, <1>12,
           <1>13, <1>14, <1>15, <1>16, <1>17, <1>18, <1>19, <1>20, <1>21, <1>22,
           <1>23, <1>24, <1>25, <1>26 DEF Next, Call, Continue

(* HiddenOrphans always holds. *)
LEMMA HiddenOrphansHolds == Spec => []HiddenOrphans
<1>1. Init => HiddenOrphans
  BY DEF Init, HiddenOrphans
<1>2. Base /\ HiddenOrphans /\ [Next]_vars => HiddenOrphans'
  BY TaskSteps DEF HiddenOrphans
<1> QED BY BaseInvariant, <1>1, <1>2, PTL DEF Spec

(* The child fork makes is registered as its parent is, except under process 1,
   until it is linked.                                                       *)
ChildLikeParent ==
  \A t \in Task : pc[t] = "fork_copy" => comm_on[peer[t]] = (comm_on[t] /\ pid[t] # 1)

(* Nothing changes a child, or its parent's registration, while it is made. *)
LEMMA ChildLikeParentStep == Base /\ ChildLikeParent /\ [Next]_vars => ChildLikeParent'
<1> SUFFICES ASSUME Base, ChildLikeParent, [Next]_vars, NEW t \in Task, pc'[t] = "fork_copy"
             PROVE  comm_on'[peer'[t]] = (comm_on'[t] /\ pid'[t] # 1)
  BY DEF ChildLikeParent
<1> DEFINE Goal == comm_on'[peer'[t]] = (comm_on'[t] /\ pid'[t] # 1)
<1> SUFFICES Goal
  OBVIOUS
<1> USE TaskAssumption DEF Base, ChildLikeParent, process, polling, local
<1>1. ASSUME NEW u \in Task, Register(u)
      PROVE  Goal
  <2>1. /\ pc[u] = "user" /\ pc' = pc /\ peer' = peer /\ pid' = pid
        /\ comm_on' = [comm_on EXCEPT ![u] = TRUE]
    BY <1>1 DEF Register, Enter
  <2>2. peer[t] \in Task /\ pc[peer[t]] = "none" /\ t # u
    BY <2>1 DEF ForkOK, StateOK
  <2> QED BY <2>1, <2>2 DEF TypeOK
<1>2. ASSUME NEW u \in Task, NEW p \in Pids, SendBegin(u, p)
      PROVE  Goal
  BY <1>2 DEF TypeOK, StateOK, SendBegin, Calls
<1>3. ASSUME NEW u \in Task, SendAllocData(u)
      PROVE  Goal
  BY <1>3 DEF TypeOK, StateOK, SendAllocData, Calls
<1>4. ASSUME NEW u \in Task, SendNoMemory(u)
      PROVE  Goal
  BY <1>4 DEF TypeOK, StateOK, SendNoMemory, Return
<1>5. ASSUME NEW u \in Task, SendFault(u)
      PROVE  Goal
  BY <1>5 DEF TypeOK, StateOK, SendFault, Return
<1>6. ASSUME NEW u \in Task, SendLink(u)
      PROVE  Goal
  BY <1>6 DEF TypeOK, StateOK, SendLink, Return
<1>7. ASSUME NEW u \in Task, NEW p \in Pids, ReceiveBegin(u, p)
      PROVE  Goal
  BY <1>7 DEF TypeOK, StateOK, ReceiveBegin, Calls
<1>8. ASSUME NEW u \in Task, ReceiveEnd(u)
      PROVE  Goal
  BY <1>8 DEF TypeOK, StateOK, ReceiveEnd, Return
<1>9. ASSUME NEW u \in Task, ReceiveFault(u)
      PROVE  Goal
  BY <1>9 DEF TypeOK, StateOK, ReceiveFault, Return
<1>10. ASSUME NEW u \in Task, NEW request \in PollRequests, PollBegin(u, request)
      PROVE  Goal
  BY <1>10 DEF TypeOK, StateOK, PollBegin, Calls
<1>11. ASSUME NEW u \in Task, PollFault(u)
      PROVE  Goal
  BY <1>11 DEF TypeOK, StateOK, PollFault, Return
<1>12. ASSUME NEW u \in Task, PollScanFound(u)
      PROVE  Goal
  BY <1>12 DEF TypeOK, StateOK, PollScanFound, Calls
<1>13. ASSUME NEW u \in Task, PollScanNone(u)
      PROVE  Goal
  BY <1>13 DEF TypeOK, StateOK, PollScanNone, Calls
<1>14. ASSUME NEW u \in Task, PollNoMemory(u)
      PROVE  Goal
  BY <1>14 DEF TypeOK, StateOK, PollNoMemory, Return
<1>15. ASSUME NEW u \in Task, PollSleep(u)
      PROVE  Goal
  BY <1>15 DEF TypeOK, StateOK, PollSleep, PublishPollList
<1>16. ASSUME NEW u \in Task, PollRefused(u)
      PROVE  Goal
  BY <1>16 DEF TypeOK, StateOK, PollRefused, PublishPollList
<1>17. ASSUME NEW u \in Task, PollRescan(u)
      PROVE  Goal
  BY <1>17 DEF TypeOK, StateOK, PollRescan, Calls
<1>18. ASSUME NEW u \in Task, PollEnd(u)
      PROVE  Goal
  BY <1>18 DEF TypeOK, StateOK, PollEnd, Return
<1>19. ASSUME NEW u \in Task, NEW child \in Task, ForkBegin(u, child)
      PROVE  Goal
  <2>1. /\ pc[u] = "user" /\ state[u] = "TASK_RUNNING" /\ state[child] = "FREE"
        /\ pc' = [pc EXCEPT ![u] = "fork_copy"] /\ peer' = [peer EXCEPT ![u] = child]
        /\ comm_on' = [comm_on EXCEPT ![child] = ChildCommOn(u)]
    BY <1>19 DEF ForkBegin, Enter, CanRun
  <2>2. \A v \in Task : v # child => pid'[v] = pid[v]
    BY <1>19 DEF ForkBegin, TypeOK
  <2>3. CASE t = u
    BY <2>1, <2>2, <2>3 DEF TypeOK, ChildCommOn
  <2>4. CASE t # u
    <3>1. pc[t] = "fork_copy" /\ peer'[t] = peer[t]
      BY <2>1, <2>4 DEF TypeOK
    <3>2. t # child /\ peer[t] # child /\ peer[t] \in Task
      BY <2>1, <3>1 DEF StateOK, ForkOK
    <3> QED BY <2>1, <2>2, <3>1, <3>2 DEF TypeOK
  <2> QED BY <2>3, <2>4
<1>20. ASSUME NEW u \in Task, ForkEnd(u)
      PROVE  Goal
  <2>1. UNCHANGED <<pid, comm_on>> /\ peer[u] \in Task /\ pc[peer[u]] = "none"
    BY <1>20 DEF ForkOK, StateOK, ForkEnd
  <2>2. pc[t] = "fork_copy" /\ peer'[t] = peer[t]
    BY <1>20, <2>1 DEF TypeOK, ForkEnd
  <2> QED BY <2>1, <2>2
<1>21. ASSUME NEW u \in Task, ForkFail(u)
      PROVE  Goal
  <2>1. /\ pc[u] = "fork_copy" /\ pc' = [pc EXCEPT ![u] = "user"] /\ peer[u] \in Task
        /\ comm_on' = [comm_on EXCEPT ![peer[u]] = FALSE]
        /\ pid' = [pid EXCEPT ![peer[u]] = 0] /\ peer' = [peer EXCEPT ![u] = NoTask]
        /\ pc[peer[u]] = "none"
    BY <1>21 DEF ForkOK, StateOK, ForkFail, FreeTask, Return
  <2>2. t # u /\ pc[t] = "fork_copy" /\ peer'[t] = peer[t]
    BY <2>1 DEF TypeOK
  <2>3. peer[t] \in Task /\ peer[t] # peer[u] /\ t # peer[u]
    BY <2>1, <2>2 DEF ForkOK
  <2> QED BY <2>1, <2>2, <2>3 DEF TypeOK
<1>22. ASSUME NEW u \in Task, NEW child \in Task, Wait(u, child)
      PROVE  Goal
  <2>1. /\ state[child] = "TASK_ZOMBIE" /\ pc[child] = "none" /\ pc' = pc /\ peer' = peer
        /\ comm_on' = [comm_on EXCEPT ![child] = FALSE]
        /\ pid' = [pid EXCEPT ![child] = 0]
    BY <1>22 DEF StateOK, Wait, FreeTask
  <2>2. peer[t] \in Task /\ peer[t] # child /\ t # child
    BY <2>1 DEF ForkOK
  <2> QED BY <2>1, <2>2 DEF TypeOK
<1>23. ASSUME NEW u \in Task, Exit(u)
      PROVE  Goal
  BY <1>23 DEF TypeOK, StateOK, Exit
<1>24. ASSUME NEW u \in Task, TimerExpire(u)
      PROVE  Goal
  BY <1>24 DEF TypeOK, StateOK, TimerExpire
<1>25. ASSUME NEW u \in Task, Signal(u)
      PROVE  Goal
  BY <1>25 DEF TypeOK, StateOK, Signal
<1>26. CASE UNCHANGED vars
  BY <1>26 DEF vars, TypeOK, StateOK
<1> QED BY <1>1, <1>2, <1>3, <1>4, <1>5, <1>6, <1>7, <1>8, <1>9, <1>10, <1>11, <1>12,
           <1>13, <1>14, <1>15, <1>16, <1>17, <1>18, <1>19, <1>20, <1>21, <1>22,
           <1>23, <1>24, <1>25, <1>26 DEF Next, Call, Continue

(* With whole sends nothing is ever linked into a hidden task. *)
HiddenEmpty == \A t \in Task : state[t] \in Hidden => comm_channel[t] = << >>

(* Nobody sends to a task he cannot find. *)
LEMMA HiddenEmptyStep ==
  Base /\ NoQueue /\ HiddenOrphans /\ SendsWhole /\ HiddenEmpty /\ [Next]_vars => HiddenEmpty'
<1> SUFFICES ASSUME Base, NoQueue, HiddenOrphans, SendsWhole, HiddenEmpty, [Next]_vars,
                    NEW t \in Task, state'[t] \in Hidden
             PROVE  comm_channel'[t] = << >>
  BY DEF HiddenEmpty
<1>1. CASE state'[t] = "FREE"
  BY <1>1, QueueSteps
<1>2. CASE state'[t] = "TASK_UNINTERRUPTIBLE"
  <2>1. state[t] \in Hidden /\ comm_channel[t] = << >> /\ pc[t] = "none"
    BY <1>2, TaskSteps DEF HiddenEmpty, Hidden, Base, StateOK
  <2>2. \A u \in Task : SendLink(u) => peer[u] # t
    BY <2>1 DEF SendLink, SendPcs, SendsWhole, Hashed, Hidden
  <2>3. ~ReceiveEnd(t)
    BY <2>1 DEF ReceiveEnd
  <2> QED BY <2>1, <2>2, <2>3, QueueSteps
<1> QED BY <1>1, <1>2 DEF Hidden

(* What whole sends rest on and bring. *)
Whole == SendsWhole /\ ChildLikeParent /\ HiddenEmpty

(* All of it always holds when no send sleeps. *)
LEMMA WholeHolds ==
  ASSUME SendsNeverSleep
  PROVE  Spec => []Whole
<1>1. Init => Whole
  BY DEF Init, Whole, SendsWhole, ChildLikeParent, HiddenEmpty, SendPcs
<1>2. Base /\ NoQueue /\ HiddenOrphans /\ Whole /\ [Next]_vars => Whole'
  BY SendsWholeStep, ChildLikeParentStep, HiddenEmptyStep DEF Whole
<1> QED BY BaseInvariant, NoQueueHolds, HiddenOrphansHolds, <1>1, <1>2, PTL DEF Spec

(* A message waits in the queue of the process it was sent to, if no send sleeps:
   the receiver sys_mpi_send found is still that process when the message is
   linked.                                                                   *)
THEOREM MessagesReachAddressee ==
  ASSUME SendsNeverSleep
  PROVE  Spec => []OnlyAddressee
<1>1. Init => OnlyAddressee
  BY DEF Init, OnlyAddressee
<1>2. ASSUME Base, NoQueue, HiddenOrphans, Whole, OnlyAddressee, [Next]_vars
      PROVE  OnlyAddressee'
  <2> SUFFICES ASSUME NEW t \in Task, NEW i \in DOMAIN comm_channel'[t]
               PROVE  comm_channel'[t][i].addressee = pid'[t]
    BY DEF OnlyAddressee
  <2>0. comm_channel[t] \in Seq(Message)
    BY <1>2 DEF Base, TypeOK
  <2>1. state'[t] # "FREE"
    BY <1>2, QueueSteps
  <2>2. state[t] = "FREE" => comm_channel[t] = << >>
    BY <1>2 DEF NoQueue
  <2>3. CASE comm_channel'[t] = comm_channel[t]
    <3>1. pid'[t] = pid[t]
      BY <1>2, <2>1, <2>2, <2>3, TaskSteps
    <3> QED BY <1>2, <2>3, <3>1 DEF OnlyAddressee
  <2>4. ASSUME NEW u \in Task, SendLink(u), peer[u] = t,
               comm_channel'[t] = Append(comm_channel[t], held[u])
        PROVE  comm_channel'[t][i].addressee = pid'[t]
    <3>1. held[u] \in Message /\ held[u].addressee = pid[t] /\ pid' = pid
      BY <1>2, <2>4 DEF SendLink, Base, HoldsOK, SendPcs, Whole, SendsWhole, process
    <3>2. \/ comm_channel'[t][i] = held[u]
          \/ i \in DOMAIN comm_channel[t] /\ comm_channel'[t][i] = comm_channel[t][i]
      BY <2>0, <2>4, <3>1, AppendFact
    <3> QED BY <1>2, <3>1, <3>2 DEF OnlyAddressee
  <2>5. CASE ReceiveEnd(t)
    <3>1. PICK k \in DOMAIN comm_channel[t] : comm_channel'[t][i] = comm_channel[t][k]
      BY <1>2, <2>5, Unlinked
    <3>2. pid' = pid
      BY <2>5 DEF ReceiveEnd, process
    <3> QED BY <1>2, <3>1, <3>2 DEF OnlyAddressee
  <2> QED BY <1>2, <2>1, <2>3, <2>4, <2>5, QueueSteps
<1> QED BY BaseInvariant, NoQueueHolds, HiddenOrphansHolds, WholeHolds, <1>1, <1>2, PTL DEF Spec

----------------------------------------------------------------------------
(* A message somebody can still reach: in a queue, or by its sender. *)
InQueue(n) == \E r \in Task : \E i \in DOMAIN comm_channel[r] : comm_channel[r][i].id = n

NoneLost ==
  \A n \in 1..MaxMsgs :
    /\ <<"message_t", n>> \in heap =>
         InQueue(n) \/ \E t \in Task : pc[t] \in SendPcs /\ held[t].id = n
    /\ <<"data", n>> \in heap =>
         InQueue(n) \/ \E t \in Task : pc[t] = "send_link" /\ held[t].id = n

(* A block goes from its sender into the queue, and out of the queue to be freed. *)
LEMMA NoneLostStep ==
  Base /\ Order /\ NoQueue /\ Whole /\ NoneLost /\ [Next]_vars => NoneLost'
<1> SUFFICES ASSUME Base, Order, NoQueue, Whole, NoneLost, [Next]_vars
             PROVE  NoneLost'
  OBVIOUS
<1> DEFINE BySender(n) == \E t \in Task : pc[t] \in SendPcs /\ held[t].id = n
           Linking(n) == \E t \in Task : pc[t] = "send_link" /\ held[t].id = n
           NewBySender(n) == \E t \in Task : pc'[t] \in SendPcs /\ held'[t].id = n
           NewLinking(n) == \E t \in Task : pc'[t] = "send_link" /\ held'[t].id = n
           NewInQueue(n) == \E r \in Task : \E i \in DOMAIN comm_channel'[r] :
                              comm_channel'[r][i].id = n
           Goal == \A n \in 1..MaxMsgs :
                     /\ <<"message_t", n>> \in heap' => NewInQueue(n) \/ NewBySender(n)
                     /\ <<"data", n>> \in heap' => NewInQueue(n) \/ NewLinking(n)
<1>1. \A n \in 1..MaxMsgs : /\ <<"message_t", n>> \in heap => InQueue(n) \/ BySender(n)
                            /\ <<"data", n>> \in heap => InQueue(n) \/ Linking(n)
  BY DEF NoneLost
<1>2. Goal => NoneLost'
  BY DEF NoneLost, InQueue
<1>3. ASSUME comm_channel' = comm_channel, NEW n
      PROVE  InQueue(n) => NewInQueue(n)
  BY <1>3 DEF InQueue
<1>4. ASSUME NEW t \in Task, NEW p \in Pids, SendBegin(t, p)
      PROVE  Goal
  <2>1. /\ comm_channel' = comm_channel /\ heap' = heap \cup {<<"message_t", sent + 1>>}
        /\ pc' = [pc EXCEPT ![t] = "send_data"] /\ held'[t].id = sent + 1 /\ pc[t] = "user"
        /\ \A u \in Task \ {t} : held'[u] = held[u]
    BY <1>4 DEF SendBegin, Enter, Base, TypeOK
  <2>2. \A u \in Task : pc[u] \in SendPcs => pc'[u] = pc[u] /\ held'[u] = held[u]
    BY <2>1 DEF Base, TypeOK, SendPcs
  <2>3. NewBySender(sent + 1)
    BY <2>1 DEF Base, TypeOK, SendPcs
  <2>4. \A n : BySender(n) => NewBySender(n)
    BY <2>2
  <2>5. \A n : Linking(n) => NewLinking(n)
    BY <2>2 DEF SendPcs
  <2>6. \A n : /\ <<"message_t", n>> \in heap' => <<"message_t", n>> \in heap \/ n = sent + 1
               /\ <<"data", n>> \in heap' => <<"data", n>> \in heap
    BY <2>1
  <2> HIDE DEF BySender, Linking, NewBySender, NewLinking, NewInQueue
  <2> QED BY <1>1, <1>3, <2>1, <2>3, <2>4, <2>5, <2>6
<1>5. ASSUME NEW t \in Task, SendAllocData(t)
      PROVE  Goal
  <2>1. /\ comm_channel' = comm_channel /\ heap' = heap \cup {<<"data", held[t].id>>}
        /\ pc' = [pc EXCEPT ![t] = "send_link"] /\ held' = held
    BY <1>5 DEF SendAllocData, local
  <2>2. \A n : BySender(n) => NewBySender(n)
    BY <2>1 DEF Base, TypeOK, SendPcs
  <2>3. \A n : Linking(n) => NewLinking(n)
    BY <2>1 DEF Base, TypeOK
  <2>4. NewLinking(held[t].id)
    BY <2>1 DEF Base, TypeOK
  <2>5. \A n : /\ <<"message_t", n>> \in heap' => <<"message_t", n>> \in heap
               /\ <<"data", n>> \in heap' => <<"data", n>> \in heap \/ n = held[t].id
    BY <2>1
  <2> HIDE DEF BySender, Linking, NewBySender, NewLinking, NewInQueue
  <2> QED BY <1>1, <1>3, <2>1, <2>2, <2>3, <2>4, <2>5
<1>6. ASSUME NEW t \in Task, SendNoMemory(t) \/ SendFault(t)
      PROVE  Goal
  <2>1. /\ comm_channel' = comm_channel /\ pc' = [pc EXCEPT ![t] = "user"]
        /\ \A u \in Task \ {t} : held'[u] = held[u]
        /\ \A n : /\ <<"message_t", n>> \in heap' => <<"message_t", n>> \in heap /\ n # held[t].id
                  /\ <<"data", n>> \in heap' =>
                       <<"data", n>> \in heap /\ (pc[t] = "send_link" => n # held[t].id)
    <3>1. CASE SendNoMemory(t)
      BY <3>1 DEF SendNoMemory, Return, Base, TypeOK
    <3>2. CASE SendFault(t)
      BY <3>2 DEF SendFault, Return, MessageBlocks, Base, TypeOK
    <3> QED BY <1>6, <3>1, <3>2
  <2>2. \A n : BySender(n) => NewBySender(n) \/ n = held[t].id
    BY <2>1 DEF Base, TypeOK
  <2>3. \A n : Linking(n) => NewLinking(n) \/ (pc[t] = "send_link" /\ n = held[t].id)
    <3> SUFFICES ASSUME NEW n, NEW u \in Task, pc[u] = "send_link", held[u].id = n
                 PROVE  NewLinking(n) \/ (pc[t] = "send_link" /\ n = held[t].id)
      OBVIOUS
    <3>1. CASE u = t
      BY <3>1
    <3>2. CASE u # t
      <4>1. pc'[u] = pc[u] /\ held'[u] = held[u]
        BY <2>1, <3>2 DEF Base, TypeOK
      <4>2. NewLinking(n)
        BY <4>1
      <4> QED BY <4>2
    <3> QED BY <3>1, <3>2
  <2> HIDE DEF BySender, Linking, NewBySender, NewLinking, NewInQueue
  <2> QED BY <1>1, <1>3, <2>1, <2>2, <2>3
<1>7. ASSUME NEW t \in Task, SendLink(t)
      PROVE  Goal
  <2>1. /\ heap' = heap /\ pc' = [pc EXCEPT ![t] = "user"] /\ pc[t] = "send_link"
        /\ \A u \in Task \ {t} : held'[u] = held[u]
        /\ held[t] \in Message /\ peer[t] \in Task
    BY <1>7 DEF SendLink, Return, Base, TypeOK, HoldsOK, SendPcs
  <2>2. comm_channel' = [comm_channel EXCEPT ![peer[t]] = Append(@, held[t])]
    BY <1>7, <2>1 DEF SendLink, LinkInto, HasQueue, Whole, SendsWhole, SendPcs, Hashed
  <2>3. /\ comm_channel'[peer[t]] = Append(comm_channel[peer[t]], held[t])
        /\ \A r \in Task : r # peer[t] => comm_channel'[r] = comm_channel[r]
    BY <2>1, <2>2 DEF Base, TypeOK
  <2>4. comm_channel[peer[t]] \in Seq(Message)
    BY <2>1 DEF Base, TypeOK
  <2>5. /\ Len(comm_channel[peer[t]]) + 1 \in DOMAIN comm_channel'[peer[t]]
        /\ comm_channel'[peer[t]][Len(comm_channel[peer[t]]) + 1] = held[t]
        /\ \A j \in DOMAIN comm_channel[peer[t]] :
             /\ j \in DOMAIN comm_channel'[peer[t]]
             /\ comm_channel'[peer[t]][j] = comm_channel[peer[t]][j]
    BY <2>1, <2>3, <2>4, AppendFact
  <2>6. \A n : InQueue(n) \/ n = held[t].id => NewInQueue(n)
    BY <2>1, <2>3, <2>5 DEF InQueue
  <2>7. \A n : BySender(n) => NewBySender(n) \/ n = held[t].id
    BY <2>1 DEF Base, TypeOK
  <2>8. \A n : Linking(n) => NewLinking(n) \/ n = held[t].id
    BY <2>1 DEF Base, TypeOK
  <2> HIDE DEF BySender, Linking, NewBySender, NewLinking, NewInQueue
  <2> QED BY <1>1, <2>1, <2>6, <2>7, <2>8
<1>8. ASSUME NEW t \in Task, ReceiveEnd(t)
      PROVE  Goal
  <2>1. \A n : /\ <<"message_t", n>> \in heap' => <<"message_t", n>> \in heap /\ n # held[t].id
               /\ <<"data", n>> \in heap' => <<"data", n>> \in heap /\ n # held[t].id
    BY <1>8 DEF ReceiveEnd, MessageBlocks
  <2>2. PICK k \in DOMAIN comm_channel[t] :
          /\ k \in Int /\ comm_channel[t][k] = held[t]
          /\ \A i \in DOMAIN comm_channel'[t] :
               /\ i < k => comm_channel'[t][i] = comm_channel[t][i]
               /\ i >= k => comm_channel'[t][i] = comm_channel[t][i + 1]
          /\ \A i \in DOMAIN comm_channel[t] :
               /\ i < k => i \in DOMAIN comm_channel'[t]
               /\ i > k => i - 1 \in DOMAIN comm_channel'[t]
    BY <1>8, Unlinked
  <2>3. \A i \in DOMAIN comm_channel[t] : i # k =>
          \E j \in DOMAIN comm_channel'[t] : comm_channel'[t][j] = comm_channel[t][i]
    <3> SUFFICES ASSUME NEW i \in DOMAIN comm_channel[t], i # k
                 PROVE  \E j \in DOMAIN comm_channel'[t] : comm_channel'[t][j] = comm_channel[t][i]
      OBVIOUS
    <3>1. i \in Int
      BY DEF Base, TypeOK
    <3>2. CASE i < k
      BY <2>2, <3>2
    <3>3. CASE i > k
      <4>1. i - 1 >= k /\ (i - 1) + 1 = i
        BY <2>2, <3>1, <3>3
      <4> QED BY <2>2, <3>3, <4>1
    <3> QED BY <2>2, <3>1, <3>2, <3>3
  <2>4. \A r \in Task : r # t => comm_channel'[r] = comm_channel[r]
    BY <1>8, Unlinked
  <2>5. \A n : InQueue(n) => NewInQueue(n) \/ n = held[t].id
    <3> SUFFICES ASSUME NEW r \in Task, NEW i \in DOMAIN comm_channel[r],
                        comm_channel[r][i].id # held[t].id
                 PROVE  NewInQueue(comm_channel[r][i].id)
      BY DEF InQueue
    <3>1. CASE r = t
      BY <2>2, <2>3, <3>1
    <3>2. CASE r # t
      BY <2>4, <3>2
    <3> QED BY <3>1, <3>2
  <2>6. /\ pc[t] = "recv_copy" /\ pc' = [pc EXCEPT ![t] = "user"]
        /\ \A u \in Task \ {t} : held'[u] = held[u]
    BY <1>8 DEF ReceiveEnd, Return, Base, TypeOK
  <2>7. \A n : /\ BySender(n) => NewBySender(n)
               /\ Linking(n) => NewLinking(n)
    BY <2>6 DEF Base, TypeOK, SendPcs
  <2> HIDE DEF BySender, Linking, NewBySender, NewLinking, NewInQueue
  <2> QED BY <1>1, <2>1, <2>5, <2>7
<1>9. ASSUME NEW t \in Task, NEW child \in Task, Wait(t, child)
      PROVE  Goal
  <2>1. /\ heap' = heap \ ReleasedBlocks(child)
        /\ comm_channel' = [comm_channel EXCEPT ![child] = << >>]
        /\ pc' = pc /\ held' = held
    BY <1>9 DEF Wait, FreeTask, local
  <2>2. \A i \in DOMAIN comm_channel[child] :
          MessageBlocks(comm_channel[child][i]) \subseteq ReleasedBlocks(child)
    BY DEF ReleasedBlocks, NoQueue
  <2>3. \A i \in DOMAIN comm_channel[child] :
          /\ <<"message_t", comm_channel[child][i].id>> \notin heap'
          /\ <<"data", comm_channel[child][i].id>> \notin heap'
    BY <2>1, <2>2 DEF MessageBlocks
  <2>4. \A r \in Task : r # child => comm_channel'[r] = comm_channel[r]
    BY <2>1 DEF Base, TypeOK
  <2>5. \A n : InQueue(n) =>
          NewInQueue(n) \/ (<<"message_t", n>> \notin heap' /\ <<"data", n>> \notin heap')
    <3> SUFFICES ASSUME NEW n, NEW r \in Task, NEW i \in DOMAIN comm_channel[r],
                        comm_channel[r][i].id = n
                 PROVE  \/ NewInQueue(n)
                        \/ <<"message_t", n>> \notin heap' /\ <<"data", n>> \notin heap'
      BY DEF InQueue
    <3>1. CASE r = child
      BY <2>3, <3>1
    <3>2. CASE r # child
      <4>1. comm_channel'[r] = comm_channel[r]
        BY <2>4, <3>2
      <4>2. NewInQueue(n)
        BY <4>1
      <4> QED BY <4>2
    <3> QED BY <3>1, <3>2
  <2>6. \A n : /\ BySender(n) => NewBySender(n)
               /\ Linking(n) => NewLinking(n)
    BY <2>1
  <2>7. heap' \subseteq heap
    BY <2>1
  <2> HIDE DEF BySender, Linking, NewBySender, NewLinking, NewInQueue
  <2> QED BY <1>1, <2>5, <2>6, <2>7
<1>10. ASSUME \A u \in Task : pc[u] \in SendPcs \/ pc'[u] \in SendPcs =>
                pc'[u] = pc[u] /\ held'[u] = held[u] /\ peer'[u] = peer[u],
              \A r \in Task : \/ comm_channel'[r] = comm_channel[r]
                              \/ comm_channel'[r] = << >> /\ state[r] = "TASK_UNINTERRUPTIBLE",
              \A n : /\ <<"message_t", n>> \in heap' <=> <<"message_t", n>> \in heap
                     /\ <<"data", n>> \in heap' <=> <<"data", n>> \in heap
       PROVE  Goal
  <2>1. \A r \in Task : comm_channel'[r] = comm_channel[r]
    BY <1>10 DEF Whole, HiddenEmpty, Hidden
  <2>2. \A n : InQueue(n) => NewInQueue(n)
    BY <2>1 DEF InQueue
  <2>3. \A n : BySender(n) => NewBySender(n)
    BY <1>10
  <2>4. \A n : Linking(n) => NewLinking(n)
    BY <1>10 DEF SendPcs
  <2> HIDE DEF BySender, Linking, NewBySender, NewLinking, NewInQueue
  <2> QED BY <1>1, <1>10, <2>2, <2>3, <2>4
<1>11. Goal
  <2> HIDE DEF Goal
  <2> QED BY <1>4, <1>5, <1>6, <1>7, <1>8, <1>9, <1>10, BlockSteps
<1> QED BY <1>2, <1>11

(* No message, no array of a poll is forgotten in memory: every block our_kmalloc
   gave out is in a queue or in a call under way.                            *)
THEOREM NothingLeaks ==
  ASSUME SendsNeverSleep
  PROVE  Spec => []NoLeak
<1>1. Init => NoneLost /\ PollBlocks
  BY DEF Init, NoneLost, PollBlocks, PollPcs
<1>2. Base /\ NoneLost /\ PollBlocks => NoLeak
  <2> SUFFICES ASSUME Base, NoneLost, PollBlocks, NEW b \in heap
               PROVE  b \in Owned
    BY DEF NoLeak
  <2>1. ASSUME NEW n \in 1..MaxMsgs, InQueue(n)
        PROVE  <<"message_t", n>> \in Owned /\ <<"data", n>> \in Owned
    <3>1. PICK m \in Queued : m.id = n
      BY <2>1 DEF InQueue, Queued
    <3> QED BY <3>1 DEF Owned, MessageBlocks
  <2>2. ASSUME NEW n \in 1..MaxMsgs, b = <<"message_t", n>>
        PROVE  b \in Owned
    <3>1. CASE InQueue(n)
      BY <2>1, <2>2, <3>1
    <3>2. ASSUME NEW t \in Task, pc[t] \in SendPcs, held[t].id = n
          PROVE  b \in Owned
      BY <2>2, <3>2 DEF Owned
    <3> QED BY <2>2, <3>1, <3>2 DEF NoneLost
  <2>3. ASSUME NEW n \in 1..MaxMsgs, b = <<"data", n>>
        PROVE  b \in Owned
    <3>1. CASE InQueue(n)
      BY <2>1, <2>3, <3>1
    <3>2. ASSUME NEW t \in Task, pc[t] = "send_link", held[t].id = n
          PROVE  b \in Owned
      BY <2>3, <3>2 DEF Owned
    <3> QED BY <2>3, <3>1, <3>2 DEF NoneLost
  <2>4. ASSUME NEW t \in Task, b = EntriesBlock(t)
        PROVE  b \in Owned
    BY <2>4 DEF PollBlocks, Owned
  <2>5. ASSUME NEW t \in Task, b = PollListBlock(t)
        PROVE  b \in Owned
    BY <2>5 DEF PollBlocks, Owned
  <2>6. \/ \E n \in 1..MaxMsgs : b = <<"message_t", n>> \/ b = <<"data", n>>
        \/ \E t \in Task : b = EntriesBlock(t) \/ b = PollListBlock(t)
    <3>1. heap \subseteq ({"message_t", "data"} \X (1..MaxMsgs))
                            \cup ({"poll_pids_ker", "poll_list"} \X Task)
      BY DEF Base, TypeOK
    <3>2. CASE b \in {"message_t", "data"} \X (1..MaxMsgs)
      BY <3>2
    <3>3. CASE b \in {"poll_pids_ker", "poll_list"} \X Task
      BY <3>3 DEF EntriesBlock, PollListBlock
    <3> QED BY <3>1, <3>2, <3>3
  <2> QED BY <2>2, <2>3, <2>4, <2>5, <2>6
<1> QED BY BaseInvariant, OrderInvariant, NoQueueHolds, WholeHolds, NoneLostStep, PollBlocksStep,
           <1>1, <1>2, PTL DEF Spec

----------------------------------------------------------------------------
(* What a caller can tell of a task, as MpiKernel maps it to MpiChannel. *)
Life(t) == CASE t \notin Hashed -> "FREE"
             [] state[t] = "TASK_ZOMBIE" -> "ZOMBIE"
             [] OTHER -> "ALIVE"
SeenPid(t) == IF t \in Hashed THEN pid[t] ELSE 0
SeenOn(t) == t \in Hashed /\ comm_on[t]
Awaited(t) == IF Asleep(t) THEN {poll_list[t][i] : i \in DOMAIN poll_list[t]} ELSE {}

(* At the start callers see process 1 and nothing else. *)
LEMMA ChannelInit == Init => Channel!Init
<1> SUFFICES ASSUME Init PROVE Channel!Init
  OBVIOUS
<1>1. \A t \in Task : t \in Hashed <=> t = InitTask
  BY DEF Init, Hashed
<1>2. \A t \in Task : ~Asleep(t)
  BY DEF Init, Asleep
<1> QED BY <1>1, <1>2 DEF Init, Channel!Init, Channel!Mailbox!Init

(* A step nobody can tell. *)
LEMMA NobodyTells ==
  ASSUME \A u \in Task : /\ Life(u)' = Life(u) /\ SeenPid(u)' = SeenPid(u)
                         /\ SeenOn(u)' = SeenOn(u) /\ Awaited(u)' = Awaited(u),
         UNCHANGED <<p_opptr, comm_channel>>
  PROVE  UNCHANGED Channel!vars
BY DEF Channel!vars, Life, SeenPid, SeenOn, Awaited

(* The part of a call that touches the caller's own place in it only. *)
LEMMA OwnStep ==
  ASSUME Base, NEW t \in Task, state[t] = "TASK_RUNNING",
         UNCHANGED <<state, process, comm_channel>>,
         \A u \in Task : u # t => pc'[u] = pc[u] /\ poll_list'[u] = poll_list[u]
  PROVE  UNCHANGED Channel!vars
<1>1. Hashed' = Hashed
  BY DEF Hashed
<1>2. \A u \in Task : Awaited(u)' = Awaited(u)
  BY DEF Awaited, Asleep
<1>3. \A u \in Task : /\ Life(u)' = Life(u) /\ SeenPid(u)' = SeenPid(u)
                      /\ SeenOn(u)' = SeenOn(u)
  BY <1>1 DEF Life, SeenPid, SeenOn, process
<1> QED BY <1>2, <1>3, NobodyTells DEF process

(* A task that makes a call is there, is not waiting, and is who it says. *)
LEMMA CallerSeen ==
  ASSUME Base, NEW t \in Task, state[t] = "TASK_RUNNING"
  PROVE  t \in Hashed /\ Life(t) = "ALIVE" /\ Awaited(t) = {}
BY DEF Hashed, Life, Awaited, Asleep

(* sys_mpi_register takes effect at once. *)
LEMMA RegisterSeen ==
  ASSUME Base, NEW t \in Task, Register(t)
  PROVE  Channel!QuietCall(t)
<1>1. t \in Hashed /\ Life(t) = "ALIVE" /\ Awaited(t) = {}
  BY CallerSeen DEF Register, Enter, CanRun
<1>2. Hashed' = Hashed /\ UNCHANGED <<state, pid, p_opptr, pc, poll_list>>
  BY DEF Register, Hashed, polling
<1>3. \A u \in Task : /\ Life(u)' = Life(u) /\ SeenPid(u)' = SeenPid(u)
                      /\ Awaited(u)' = Awaited(u)
                      /\ u # t => SeenOn(u)' = SeenOn(u)
                      /\ u = t => SeenOn(u)'
  <2>1. \A u \in Task : u # t => SeenOn(u)' = SeenOn(u)
    BY <1>2 DEF SeenOn, Register, Base, TypeOK
  <2>2. SeenOn(t)'
    BY <1>1, <1>2 DEF SeenOn, Register, Base, TypeOK
  <2>3. \A u \in Task : /\ Life(u)' = Life(u) /\ SeenPid(u)' = SeenPid(u)
                        /\ Awaited(u)' = Awaited(u)
    BY <1>2 DEF Life, SeenPid, Awaited, Asleep
  <2> QED BY <2>1, <2>2, <2>3
<1>4. ~SeenOn(t)
  BY DEF Register, SeenOn
<1>5. Channel!Mailbox!Register(t)
  BY <1>1, <1>2, <1>3, <1>4 DEF Channel!Mailbox!Register, Life, SeenPid, SeenOn, Register
<1> QED BY <1>1, <1>3, <1>5 DEF Channel!QuietCall, Channel!Awake, Awaited

(* A send takes effect when it links its message and wakes the poll that asked. *)
LEMMA SendSeen ==
  ASSUME Base, Order, Registered, Whole, NEW t \in Task, SendLink(t),
         NEW r \in Task, NEW m \in Message, r = peer[t], m = held[t]
  PROVE  Channel!Send(t, r, m)
<1>1. /\ t \in Hashed /\ Life(t) = "ALIVE" /\ Awaited(t) = {}
      /\ pc[t] = "send_link" /\ pc' = [pc EXCEPT ![t] = "user"]
      /\ UNCHANGED <<pid, p_opptr, comm_on, poll_list>>
  BY CallerSeen DEF SendLink, CanRun, Return, process, polling
<1>2. /\ r \in Task /\ r \in Hashed /\ comm_on[r] /\ comm_on[t]
      /\ m \in Message /\ m.sender_pid = pid[t] /\ m.addressee = pid[r]
  BY <1>1 DEF Base, HoldsOK, Whole, SendsWhole, Registered, Calling, SendPcs
<1>3. comm_channel' = [comm_channel EXCEPT ![r] = Append(@, m)]
  BY <1>2 DEF SendLink, LinkInto, HasQueue, Hashed
<1>4. \A s \in Task : \A i \in DOMAIN comm_channel[s] : comm_channel[s][i] # m
  BY <1>1 DEF Order, Youngest, SendPcs
<1>5. state' = IF PollsFor(r, pid[t]) THEN [state EXCEPT ![r] = "TASK_RUNNING"] ELSE state
  BY DEF SendLink, WakeUp
<1>6. PollsFor(r, pid[t]) =>
        pc[r] = "poll_sleep" /\ state[r] \in {"TASK_RUNNING", "TASK_INTERRUPTIBLE"}
  BY <1>2 DEF PollsFor, Base, PollListInUse, StateOK, TypeOK
<1>7. Hashed' = Hashed /\ \A u \in Task : state'[u] = "TASK_ZOMBIE" <=> state[u] = "TASK_ZOMBIE"
  BY <1>2, <1>5, <1>6 DEF Hashed, Base, TypeOK
<1>8. \A u \in Task : Life(u)' = Life(u) /\ SeenPid(u)' = SeenPid(u) /\ SeenOn(u)' = SeenOn(u)
  BY <1>1, <1>7 DEF Life, SeenPid, SeenOn
<1>9. pid[t] \in Awaited(r) <=> Asleep(r) /\ PollsFor(r, pid[t])
  <2>1. Asleep(r) => /\ poll_list[r] # << >>
                     /\ DOMAIN poll_list[r] = 1..poll_list_size[r]
    BY <1>2 DEF Asleep, Base, PollListInUse, TypeOK
  <2> QED BY <2>1 DEF Awaited, PollsFor
<1>10. \A u \in Task : u # r => Awaited(u)' = Awaited(u)
  BY <1>1, <1>5 DEF Awaited, Asleep, Base, TypeOK
<1>11. PollsFor(r, pid[t]) => Awaited(r)' = {}
  <2>1. PollsFor(r, pid[t]) => state'[r] = "TASK_RUNNING"
    BY <1>2, <1>5 DEF Base, TypeOK
  <2> QED BY <2>1 DEF Awaited, Asleep
<1>12. ~PollsFor(r, pid[t]) => Awaited(r)' = Awaited(r)
  <2>1. state[t] = "TASK_RUNNING"
    BY DEF SendLink, CanRun
  <2>2. ~PollsFor(r, pid[t]) => (Asleep(r)' <=> Asleep(r))
    BY <1>1, <1>2, <1>5, <2>1 DEF Asleep, Base, TypeOK
  <2> QED BY <1>1, <2>2 DEF Awaited
<1>13. Awaited(r)' = IF pid[t] \in Awaited(r) THEN {} ELSE Awaited(r)
  <2>1. CASE Asleep(r)
    BY <1>9, <1>11, <1>12, <2>1
  <2>2. CASE ~Asleep(r)
    <3>1. Awaited(r) = {}
      BY <2>2 DEF Awaited
    <3> QED BY <1>11, <1>12, <3>1
  <2> QED BY <2>1, <2>2
<1>14. /\ Life(r) # "FREE" /\ SeenOn(t) /\ SeenOn(r)
       /\ SeenPid(t) = pid[t] /\ SeenPid(r) = pid[r]
  BY <1>1, <1>2 DEF Life, SeenOn, SeenPid
<1>15. Channel!Mailbox!Fresh(m)
  BY <1>4 DEF Channel!Mailbox!Fresh
<1>16. Channel!Mailbox!Send(t, r, m)
  <2> DEFINE l == [u \in Task |-> Life(u)]
             i == [u \in Task |-> SeenPid(u)]
             o == [u \in Task |-> SeenOn(u)]
  <2>1. l' = l /\ i' = i /\ o' = o /\ l[t] = "ALIVE" /\ l[r] # "FREE"
    BY <1>1, <1>8, <1>14
  <2>2. o[t] = TRUE /\ o[r] = TRUE /\ i[t] = pid[t] /\ i[r] = pid[r]
    BY <1>14 DEF SeenOn
  <2> QED BY <1>1, <1>2, <1>3, <1>15, <2>1, <2>2
          DEF Channel!Mailbox!Send, Life, SeenPid, SeenOn
<1> QED
  <2> DEFINE w == [u \in Task |-> Awaited(u)]
  <2>1. w' = [w EXCEPT ![r] = IF pid[t] \in Awaited(r) THEN {} ELSE @]
    BY <1>2, <1>10, <1>13
  <2>2. Channel!WaitsFor(r, SeenPid(t)) <=> pid[t] \in Awaited(r)
    BY <1>2, <1>14 DEF Channel!WaitsFor, Awaited
  <2>3. w' = [w EXCEPT ![r] = IF Channel!WaitsFor(r, SeenPid(t)) THEN {} ELSE @]
    BY <2>1, <2>2
  <2>4. Channel!Awake(t)
    BY <1>1 DEF Channel!Awake, Awaited
  <2> QED BY <1>16, <2>3, <2>4 DEF Channel!Send, Awaited, SeenPid


(* A receive takes effect when it unlinks its message, the oldest of its sender. *)
LEMMA ReceiveSeen ==
  ASSUME Base, Order, Registered, ReceiveHoldsFirst, NEW t \in Task, ReceiveEnd(t)
  PROVE  Channel!QuietCall(t)
<1>1. /\ t \in Hashed /\ Life(t) = "ALIVE" /\ Awaited(t) = {}
      /\ pc[t] = "recv_copy" /\ pc' = [pc EXCEPT ![t] = "user"]
      /\ UNCHANGED <<state, pid, p_opptr, comm_on, poll_list>>
  BY CallerSeen DEF ReceiveEnd, CanRun, Return, process, polling
<1>2. PICK i \in DOMAIN comm_channel[t] :
        /\ comm_channel[t][i] = held[t]
        /\ comm_channel' = [comm_channel EXCEPT ![t] = Without(@, i)]
  BY DEF ReceiveEnd
<1>3. PICK j \in DOMAIN comm_channel[t] :
        IsFirstFrom(comm_channel[t], held[t].sender_pid, j) /\ comm_channel[t][j] = held[t]
  BY <1>1 DEF ReceiveHoldsFirst
<1>4. i = j
  BY <1>2, <1>3 DEF Order, InOnePlace
<1>5. Channel!Mailbox!IsOldestFrom(t, i)
  BY <1>2, <1>3, <1>4 DEF Channel!Mailbox!IsOldestFrom, IsFirstFrom, From
<1>6. \A u \in Task : /\ Life(u)' = Life(u) /\ SeenPid(u)' = SeenPid(u)
                      /\ SeenOn(u)' = SeenOn(u) /\ Awaited(u)' = Awaited(u)
  <2>1. Hashed' = Hashed /\ \A u \in Task : Asleep(u)' <=> Asleep(u)
    BY <1>1 DEF Hashed, Asleep, Base, TypeOK
  <2> QED BY <1>1, <2>1 DEF Life, SeenPid, SeenOn, Awaited
<1>7. SeenOn(t)
  BY <1>1 DEF SeenOn, Registered, Calling
<1>8. Channel!Mailbox!Receive(t, i)
  BY <1>1, <1>2, <1>5, <1>6, <1>7 DEF Channel!Mailbox!Receive, Life, SeenPid, SeenOn, Without
<1> QED BY <1>1, <1>2, <1>6, <1>8 DEF Channel!QuietCall, Channel!Awake, Awaited

(* A poll takes effect when it falls asleep, having found nothing. *)
LEMMA PollSeen ==
  ASSUME Base, Registered, ScanStands, NEW t \in Task, PollSleep(t)
  PROVE  \E ps \in SUBSET Pids : Channel!PollBlock(t, ps)
<1>0. PICK ps : ps = {poll_list'[t][i] : i \in DOMAIN poll_list'[t]}
  OBVIOUS
<1>1. /\ t \in Hashed /\ Life(t) = "ALIVE" /\ Awaited(t) = {}
      /\ pc[t] = "poll_list" /\ pc' = [pc EXCEPT ![t] = "poll_sleep"]
      /\ state[t] = "TASK_RUNNING" /\ state' = [state EXCEPT ![t] = "TASK_INTERRUPTIBLE"]
      /\ UNCHANGED <<pid, p_opptr, comm_on, comm_channel>>
      /\ poll_list' = [poll_list EXCEPT ![t] = [i \in DOMAIN entries[t] |-> entries[t][i].pid]]
  BY CallerSeen DEF PollSleep, PublishPollList, CanRun, process
<1>2. entries[t] \in Seq(Entry) /\ entries[t] # << >> /\ comm_on[t] /\ NothingFor(t)
  BY <1>1 DEF Base, TypeOK, HoldsOK, PollPcs, Registered, Calling, ScanStands
<1>3. poll_list'[t] = [i \in DOMAIN entries[t] |-> entries[t][i].pid]
  BY <1>1 DEF Base, TypeOK
<1>4. ps = {entries[t][i].pid : i \in DOMAIN entries[t]}
  BY <1>0, <1>3
<1>5. ps \subseteq Pids /\ ps # {}
  <2>1. 1 \in DOMAIN entries[t]
    BY <1>2
  <2> QED BY <1>2, <1>4, <2>1, EntryPids
<1>6. Channel!MayBlock(t, ps)
  BY <1>2, <1>4 DEF Channel!MayBlock, Channel!HasMessageFrom, NothingFor, is_incoming_msg_from, From
<1>7. /\ Awaited(t)' = ps
      /\ \A u \in Task : u # t => Awaited(u)' = Awaited(u)
  BY <1>0, <1>1 DEF Awaited, Asleep, Base, TypeOK
<1>8. \A u \in Task : Life(u)' = Life(u) /\ SeenPid(u)' = SeenPid(u) /\ SeenOn(u)' = SeenOn(u)
  <2>1. Hashed' = Hashed /\ \A u \in Task : state'[u] = "TASK_ZOMBIE" <=> state[u] = "TASK_ZOMBIE"
    BY <1>1 DEF Hashed, Base, TypeOK
  <2> QED BY <1>1, <2>1 DEF Life, SeenPid, SeenOn
<1>9. SeenOn(t)
  BY <1>1, <1>2 DEF SeenOn
<1>10. Channel!PollBlock(t, ps)
  <2> DEFINE w == [u \in Task |-> Awaited(u)]
  <2>1. w' = [w EXCEPT ![t] = ps]
    BY <1>7
  <2>2. Channel!Awake(t)
    BY <1>1 DEF Channel!Awake, Awaited
  <2> DEFINE l == [u \in Task |-> Life(u)]
             i == [u \in Task |-> SeenPid(u)]
             o == [u \in Task |-> SeenOn(u)]
  <2>3. l' = l /\ i' = i /\ o' = o /\ l[t] = "ALIVE" /\ o[t] = TRUE
    BY <1>1, <1>8, <1>9 DEF SeenOn
  <2> QED BY <1>1, <1>5, <1>6, <2>1, <2>2, <2>3
          DEF Channel!PollBlock, Life, SeenPid, SeenOn, Awaited
<1>11. ps \in SUBSET Pids
  BY <1>5
<1> QED BY <1>10, <1>11

(* A timer or a signal ends the wait of a poll, and is else for nobody to see. *)
LEMMA WakeSeen ==
  ASSUME Base, NEW t \in Task, state[t] \in {"TASK_RUNNING", "TASK_INTERRUPTIBLE"},
         state' = [state EXCEPT ![t] = "TASK_RUNNING"],
         UNCHANGED <<process, comm_channel, poll_list, pc>>
  PROVE  Channel!PollGiveUp(t) \/ UNCHANGED Channel!vars
<1>1. \A u \in Task : Life(u)' = Life(u) /\ SeenPid(u)' = SeenPid(u) /\ SeenOn(u)' = SeenOn(u)
  <2>1. Hashed' = Hashed /\ \A u \in Task : state'[u] = "TASK_ZOMBIE" <=> state[u] = "TASK_ZOMBIE"
    BY DEF Hashed, Base, TypeOK
  <2> QED BY <2>1 DEF Life, SeenPid, SeenOn, process
<1>2. \A u \in Task : u # t => Awaited(u)' = Awaited(u)
  BY DEF Awaited, Asleep, Base, TypeOK
<1>3. Awaited(t)' = {}
  BY DEF Awaited, Asleep, Base, TypeOK
<1>4. CASE Asleep(t)
  <2>1. poll_list[t] # << >> /\ poll_list[t] \in Seq(Pids)
    BY <1>4 DEF Asleep, Base, PollListInUse, TypeOK
  <2>2. Awaited(t) # {}
    <3>1. 1 \in DOMAIN poll_list[t]
      BY <2>1
    <3> QED BY <1>4, <3>1 DEF Awaited
  <2>3. Channel!PollGiveUp(t)
    BY <1>1, <1>2, <1>3, <2>2 DEF Channel!PollGiveUp, Life, SeenPid, SeenOn, Awaited, process
  <2> QED BY <2>3
<1>5. CASE ~Asleep(t)
  <2>1. Awaited(t) = {}
    BY <1>5 DEF Awaited
  <2> QED BY <1>1, <1>2, <1>3, <2>1, NobodyTells DEF process
<1> QED BY <1>4, <1>5

(* An exit takes effect at once. *)
LEMMA ExitSeen ==
  ASSUME Base, NEW t \in Task, Exit(t)
  PROVE  Channel!QuietCall(t)
<1>1. /\ t \in Hashed /\ Life(t) = "ALIVE" /\ Awaited(t) = {}
      /\ pc[t] = "user" /\ t # InitTask
      /\ state[t] = "TASK_RUNNING" /\ state' = [state EXCEPT ![t] = "TASK_ZOMBIE"]
      /\ UNCHANGED <<pid, comm_on, comm_channel, poll_list>>
      /\ p_opptr' = [u \in Task |-> IF p_opptr[u] = t THEN InitTask ELSE p_opptr[u]]
  BY CallerSeen DEF Exit, Enter, CanRun, Reparented, polling
<1>2. Hashed' = Hashed
  BY <1>1 DEF Hashed, Base, TypeOK
<1>3. \A u \in Task : /\ SeenPid(u)' = SeenPid(u) /\ SeenOn(u)' = SeenOn(u)
                      /\ u # t => Life(u)' = Life(u)
                      /\ u = t => Life(u)' = "ZOMBIE"
  BY <1>1, <1>2 DEF Life, SeenPid, SeenOn, Base, TypeOK
<1>4. \A u \in Task : Awaited(u)' = Awaited(u)
  <2>1. pc' = [pc EXCEPT ![t] = "none"]
    BY DEF Exit
  <2> QED BY <1>1, <2>1 DEF Awaited, Asleep, Base, TypeOK
<1>5. Channel!Mailbox!Exit(t)
  <2> DEFINE l == [u \in Task |-> Life(u)]
             i == [u \in Task |-> SeenPid(u)]
             o == [u \in Task |-> SeenOn(u)]
  <2>1. l' = [l EXCEPT ![t] = "ZOMBIE"] /\ i' = i /\ o' = o /\ l[t] = "ALIVE"
    BY <1>1, <1>3
  <2> QED BY <1>1, <2>1 DEF Channel!Mailbox!Exit, Life, SeenPid, SeenOn
<1> QED BY <1>1, <1>4, <1>5 DEF Channel!QuietCall, Channel!Awake, Awaited

(* wait4 takes the zombie and its queue away at once. *)
LEMMA WaitSeen ==
  ASSUME Base, NEW t \in Task, NEW child \in Task, Wait(t, child)
  PROVE  Channel!QuietCall(t)
<1>1. /\ t \in Hashed /\ Life(t) = "ALIVE" /\ Awaited(t) = {}
      /\ state[child] = "TASK_ZOMBIE" /\ state' = [state EXCEPT ![child] = "FREE"]
      /\ p_opptr[child] = t /\ pc' = pc /\ pc[child] = "none"
      /\ pid' = [pid EXCEPT ![child] = 0]
      /\ p_opptr' = [p_opptr EXCEPT ![child] = NoTask]
      /\ comm_on' = [comm_on EXCEPT ![child] = FALSE]
      /\ comm_channel' = [comm_channel EXCEPT ![child] = << >>]
      /\ poll_list' = [poll_list EXCEPT ![child] = << >>]
  BY CallerSeen DEF Wait, Enter, CanRun, FreeTask, PollListCleared, Base, StateOK
<1>2. \A u \in Task : u \in Hashed' <=> u \in Hashed /\ u # child
  BY <1>1 DEF Hashed, Base, TypeOK
<1>3. \A u \in Task : /\ u # child => /\ SeenPid(u)' = SeenPid(u) /\ SeenOn(u)' = SeenOn(u)
                                      /\ Life(u)' = Life(u)
                      /\ u = child => /\ SeenPid(u)' = 0 /\ SeenOn(u)' = FALSE /\ Life(u)' = "FREE"
  BY <1>1, <1>2 DEF Life, SeenPid, SeenOn, Base, TypeOK
<1>4. \A u \in Task : Awaited(u)' = Awaited(u)
  <2>1. \A u \in Task : Asleep(u)' <=> Asleep(u)
    BY <1>1 DEF Asleep, Base, TypeOK
  <2>2. \A u \in Task : Asleep(u) => poll_list'[u] = poll_list[u]
    BY <1>1 DEF Asleep, Base, TypeOK
  <2> QED BY <2>1, <2>2 DEF Awaited
<1>5. Life(child) = "ZOMBIE"
  BY <1>1 DEF Life, Hashed
<1>6. Channel!Mailbox!Reap(t, child)
  <2> DEFINE l == [u \in Task |-> Life(u)]
             i == [u \in Task |-> SeenPid(u)]
             o == [u \in Task |-> SeenOn(u)]
  <2>1. l' = [l EXCEPT ![child] = "FREE"] /\ i' = [i EXCEPT ![child] = 0]
    BY <1>3
  <2>2. o' = [o EXCEPT ![child] = FALSE]
    BY <1>3
  <2> QED BY <1>1, <1>5, <2>1, <2>2
          DEF Channel!Mailbox!Reap, Channel!Mailbox!QueueReleased, Life, SeenPid, SeenOn
<1> QED BY <1>1, <1>4, <1>6 DEF Channel!QuietCall, Channel!Awake, Awaited

(* The child of a fork appears when it is linked, as its parent was when the fork
   began.                                                                    *)
LEMMA ForkEndSeen ==
  ASSUME Base, Order, HiddenOrphans, Whole, NEW t \in Task, ForkEnd(t),
         NEW child \in Task, child = peer[t]
  PROVE  Channel!QuietCall(t)
<1>1. /\ t \in Hashed /\ Life(t) = "ALIVE" /\ Awaited(t) = {}
      /\ pc[t] = "fork_copy" /\ state[child] = "TASK_UNINTERRUPTIBLE"
      /\ state[t] = "TASK_RUNNING" /\ pc[child] = "none"
      /\ state' = [state EXCEPT ![child] = "TASK_RUNNING"]
      /\ p_opptr' = [p_opptr EXCEPT ![child] = t]
      /\ pc' = [pc EXCEPT ![t] = "user", ![child] = "user"]
      /\ UNCHANGED <<pid, comm_on, comm_channel, poll_list>>
  BY CallerSeen DEF ForkEnd, CanRun, Base, ForkOK, StateOK, polling
<1>2. \A u \in Task : u \in Hashed' <=> u \in Hashed \/ u = child
  BY <1>1 DEF Hashed, Base, TypeOK
<1>3. child \notin Hashed /\ child # t
  BY <1>1 DEF Hashed
<1>4. \A u \in Task : /\ u # child => /\ SeenPid(u)' = SeenPid(u) /\ SeenOn(u)' = SeenOn(u)
                                      /\ Life(u)' = Life(u)
                      /\ u = child => /\ SeenPid(u)' = pid[u] /\ SeenOn(u)' = comm_on[u]
                                      /\ Life(u)' = "ALIVE"
  BY <1>1, <1>2, <1>3 DEF Life, SeenPid, SeenOn, Base, TypeOK
<1>5. \A u \in Task : Awaited(u)' = Awaited(u)
  <2>1. \A u \in Task : Asleep(u)' <=> Asleep(u)
    BY <1>1 DEF Asleep, Base, TypeOK
  <2> QED BY <1>1, <2>1 DEF Awaited
<1>6. SeenPid(t) = pid[t] /\ SeenOn(t) = comm_on[t]
  BY <1>1 DEF SeenPid, SeenOn, Base, TypeOK
<1>7. comm_on[child] = (SeenOn(t) /\ SeenPid(t) # 1)
  BY <1>1, <1>6 DEF Whole, ChildLikeParent
<1>8. pid[child] \in Pids \ Channel!Mailbox!UsedPids
  <2>1. pid[child] \in Pids
    BY <1>1 DEF Base, TypeOK
  <2>2. \A u \in Task : u \in Hashed => pid[u] # pid[child]
    BY <1>1, <1>3 DEF Order, PidsUnique, Hashed
  <2>3. \A u \in Task : Life(u) # "FREE" => SeenPid(u) # pid[child]
    <3>1. \A u \in Task : Life(u) # "FREE" => u \in Hashed
      BY DEF Life, Hashed
    <3> QED BY <2>2, <3>1 DEF SeenPid
  <2> QED BY <2>1, <2>3 DEF Channel!Mailbox!UsedPids, Life, SeenPid
<1>9. Channel!Mailbox!Fork(t, child)
  <2> DEFINE l == [u \in Task |-> Life(u)]
             i == [u \in Task |-> SeenPid(u)]
             o == [u \in Task |-> SeenOn(u)]
  <2>0. Life(child) = "FREE"
    BY <1>3 DEF Life, Hashed
  <2>1. /\ l' = [l EXCEPT ![child] = "ALIVE"] /\ i' = [i EXCEPT ![child] = pid[child]]
        /\ l[t] = "ALIVE" /\ l[child] = "FREE"
    BY <1>1, <1>4, <2>0
  <2>2. o' = [o EXCEPT ![child] = o[t] /\ i[t] # 1]
    BY <1>4, <1>7
  <2> QED BY <1>1, <1>8, <2>1, <2>2 DEF Channel!Mailbox!Fork, Life, SeenPid, SeenOn
<1> QED BY <1>1, <1>5, <1>9 DEF Channel!QuietCall, Channel!Awake, Awaited

(* A fork that begins changes memory nobody can find. *)
LEMMA ForkBeginSeen ==
  ASSUME Base, NoQueue, NEW t \in Task, NEW child \in Task, ForkBegin(t, child)
  PROVE  UNCHANGED Channel!vars
<1>1. /\ state[t] = "TASK_RUNNING" /\ state[child] = "FREE" /\ pc[child] = "none"
      /\ state' = [state EXCEPT ![child] = "TASK_UNINTERRUPTIBLE"]
      /\ comm_channel[child] = << >>
      /\ comm_channel' = [comm_channel EXCEPT ![child] = << >>]
      /\ p_opptr' = p_opptr
      /\ comm_on' = [comm_on EXCEPT ![child] = ChildCommOn(t)]
      /\ poll_list' = [poll_list EXCEPT ![child] = << >>]
      /\ pc' = [pc EXCEPT ![t] = "fork_copy"]
  BY DEF ForkBegin, Enter, CanRun, Base, StateOK, NoQueue, ChildChannel, PollListCleared
<1>2. \A u \in Task : u # child => pid'[u] = pid[u]
  BY DEF ForkBegin, Base, TypeOK
<1>3. Hashed' = Hashed /\ child \notin Hashed
  BY <1>1 DEF Hashed, Base, TypeOK
<1>4. \A u \in Task : Life(u)' = Life(u) /\ SeenPid(u)' = SeenPid(u) /\ SeenOn(u)' = SeenOn(u)
  BY <1>1, <1>2, <1>3 DEF Life, SeenPid, SeenOn, Base, TypeOK
<1>5. \A u \in Task : Awaited(u)' = Awaited(u)
  <2>1. \A u \in Task : Asleep(u)' <=> Asleep(u)
    BY <1>1 DEF Asleep, Base, TypeOK
  <2>2. \A u \in Task : Asleep(u) => poll_list'[u] = poll_list[u]
    BY <1>1 DEF Asleep, Base, TypeOK
  <2> QED BY <2>1, <2>2 DEF Awaited
<1>6. comm_channel' = comm_channel
  BY <1>1 DEF Base, TypeOK
<1> QED BY <1>1, <1>4, <1>5, <1>6, NobodyTells

(* A fork that fails leaves that memory as it was. *)
LEMMA ForkFailSeen ==
  ASSUME Base, HiddenOrphans, Whole, NEW t \in Task, ForkFail(t),
         NEW child \in Task, child = peer[t]
  PROVE  UNCHANGED Channel!vars
<1>1. /\ state[t] = "TASK_RUNNING" /\ state[child] = "TASK_UNINTERRUPTIBLE"
      /\ pc[child] = "none" /\ pc[t] = "fork_copy"
      /\ state' = [state EXCEPT ![child] = "FREE"]
      /\ comm_channel[child] = << >> /\ p_opptr[child] = NoTask
      /\ comm_channel' = [comm_channel EXCEPT ![child] = << >>]
      /\ p_opptr' = [p_opptr EXCEPT ![child] = NoTask]
      /\ comm_on' = [comm_on EXCEPT ![child] = FALSE]
      /\ pid' = [pid EXCEPT ![child] = 0]
      /\ poll_list' = [poll_list EXCEPT ![child] = << >>]
      /\ pc' = [pc EXCEPT ![t] = "user"]
  BY DEF ForkFail, FreeTask, Return, CanRun, Base, ForkOK, StateOK, HiddenOrphans, Whole,
         HiddenEmpty, Hidden, PollListCleared
<1>2. Hashed' = Hashed /\ child \notin Hashed
  BY <1>1 DEF Hashed, Base, TypeOK
<1>3. \A u \in Task : Life(u)' = Life(u) /\ SeenPid(u)' = SeenPid(u) /\ SeenOn(u)' = SeenOn(u)
  BY <1>1, <1>2 DEF Life, SeenPid, SeenOn, Base, TypeOK
<1>4. \A u \in Task : Awaited(u)' = Awaited(u)
  <2>1. \A u \in Task : Asleep(u)' <=> Asleep(u)
    BY <1>1 DEF Asleep, Base, TypeOK
  <2>2. \A u \in Task : Asleep(u) => poll_list'[u] = poll_list[u]
    BY <1>1 DEF Asleep, Base, TypeOK
  <2> QED BY <2>1, <2>2 DEF Awaited
<1>5. comm_channel' = comm_channel /\ p_opptr' = p_opptr
  BY <1>1 DEF Base, TypeOK
<1> QED BY <1>3, <1>4, <1>5, NobodyTells

(* Every step is a call of MpiChannel taking effect, or is for nobody to tell. *)
LEMMA ChannelStep ==
  ASSUME Base, Order, NoQueue, Registered, ReceiveHoldsFirst, ScanStands, HiddenOrphans, Whole,
         [Next]_vars
  PROVE  [Channel!Next]_(Channel!vars)
<1> DEFINE Goal == Channel!Next \/ UNCHANGED Channel!vars
<1> SUFFICES Goal
  OBVIOUS
<1> USE DEF Base, process, polling, local
<1>1. ASSUME NEW t \in Task, Register(t)
      PROVE  Goal
  BY <1>1, RegisterSeen DEF Channel!Next
<1>2. ASSUME NEW t \in Task, NEW p \in Pids, SendBegin(t, p)
      PROVE  Goal
  BY <1>2, OwnStep DEF TypeOK, SendBegin, Enter, CanRun
<1>3. ASSUME NEW t \in Task, SendAllocData(t)
      PROVE  Goal
  BY <1>3, OwnStep DEF TypeOK, SendAllocData, CanRun
<1>4. ASSUME NEW t \in Task, SendNoMemory(t)
      PROVE  Goal
  BY <1>4, OwnStep DEF TypeOK, SendNoMemory, Return, CanRun
<1>5. ASSUME NEW t \in Task, SendFault(t)
      PROVE  Goal
  BY <1>5, OwnStep DEF TypeOK, SendFault, Return, CanRun
<1>6. ASSUME NEW t \in Task, SendLink(t)
      PROVE  Goal
  <2>1. PICK r \in Task, m \in Message : r = peer[t] /\ m = held[t]
    BY <1>6 DEF SendLink, SendPcs, HoldsOK
  <2> QED BY <1>6, <2>1, SendSeen DEF Channel!Next
<1>7. ASSUME NEW t \in Task, NEW p \in Pids, ReceiveBegin(t, p)
      PROVE  Goal
  BY <1>7, OwnStep DEF TypeOK, ReceiveBegin, Enter, CanRun
<1>8. ASSUME NEW t \in Task, ReceiveEnd(t)
      PROVE  Goal
  BY <1>8, ReceiveSeen DEF Channel!Next
<1>9. ASSUME NEW t \in Task, ReceiveFault(t)
      PROVE  Goal
  BY <1>9, OwnStep DEF TypeOK, ReceiveFault, Return, CanRun
<1>10. ASSUME NEW t \in Task, NEW request \in PollRequests, PollBegin(t, request)
      PROVE  Goal
  BY <1>10, OwnStep DEF TypeOK, PollBegin, Enter, CanRun
<1>11. ASSUME NEW t \in Task, PollFault(t)
      PROVE  Goal
  BY <1>11, OwnStep DEF TypeOK, PollFault, Return, CanRun
<1>12. ASSUME NEW t \in Task, PollScanFound(t)
      PROVE  Goal
  BY <1>12, OwnStep DEF TypeOK, PollScanFound, CanRun
<1>13. ASSUME NEW t \in Task, PollScanNone(t)
      PROVE  Goal
  BY <1>13, OwnStep DEF TypeOK, PollScanNone, CanRun
<1>14. ASSUME NEW t \in Task, PollNoMemory(t)
      PROVE  Goal
  BY <1>14, OwnStep DEF TypeOK, PollNoMemory, Return, CanRun, PollListCleared
<1>15. ASSUME NEW t \in Task, PollSleep(t)
      PROVE  Goal
  BY <1>15, PollSeen DEF Channel!Next
<1>16. ASSUME NEW t \in Task, PollRefused(t)
      PROVE  Goal
  BY <1>16, OwnStep DEF TypeOK, PollRefused, PublishPollList, CanRun
<1>17. ASSUME NEW t \in Task, PollRescan(t)
      PROVE  Goal
  BY <1>17, OwnStep DEF TypeOK, PollRescan, CanRun, PollListCleared
<1>18. ASSUME NEW t \in Task, PollEnd(t)
      PROVE  Goal
  BY <1>18, OwnStep DEF TypeOK, PollEnd, Return, CanRun
<1>19. ASSUME NEW t \in Task, NEW child \in Task, ForkBegin(t, child)
      PROVE  Goal
  BY <1>19, ForkBeginSeen
<1>20. ASSUME NEW t \in Task, ForkEnd(t)
      PROVE  Goal
  <2>1. PICK child \in Task : child = peer[t]
    BY <1>20 DEF ForkEnd, ForkOK
  <2> QED BY <1>20, <2>1, ForkEndSeen DEF Channel!Next
<1>21. ASSUME NEW t \in Task, ForkFail(t)
      PROVE  Goal
  <2>1. PICK child \in Task : child = peer[t]
    BY <1>21 DEF ForkFail, ForkOK
  <2> QED BY <1>21, <2>1, ForkFailSeen
<1>22. ASSUME NEW t \in Task, NEW child \in Task, Wait(t, child)
      PROVE  Goal
  BY <1>22, WaitSeen DEF Channel!Next
<1>23. ASSUME NEW t \in Task, Exit(t)
      PROVE  Goal
  BY <1>23, ExitSeen DEF Channel!Next
<1>24. ASSUME NEW t \in Task, TimerExpire(t)
      PROVE  Goal
  <2>1. state[t] \in {"TASK_RUNNING", "TASK_INTERRUPTIBLE"}
    <3>1. pc[t] = "poll_sleep"
      BY <1>24 DEF TimerExpire, StateOK
    <3> QED BY <3>1 DEF StateOK, TypeOK
  <2> QED BY <1>24, <2>1, WakeSeen DEF Channel!Next, TimerExpire
<1>25. ASSUME NEW t \in Task, Signal(t)
      PROVE  Goal
  BY <1>25, WakeSeen DEF Channel!Next, Signal
<1>26. CASE UNCHANGED vars
  <2>1. \A u \in Task : /\ Life(u)' = Life(u) /\ SeenPid(u)' = SeenPid(u)
                        /\ SeenOn(u)' = SeenOn(u) /\ Awaited(u)' = Awaited(u)
    BY <1>26 DEF vars, Life, SeenPid, SeenOn, Awaited, Asleep, Hashed
  <2> QED BY <1>26, <2>1, NobodyTells DEF vars
<1> QED BY <1>1, <1>2, <1>3, <1>4, <1>5, <1>6, <1>7, <1>8, <1>9, <1>10, <1>11, <1>12,
           <1>13, <1>14, <1>15, <1>16, <1>17, <1>18, <1>19, <1>20, <1>21, <1>22,
           <1>23, <1>24, <1>25, <1>26 DEF Next, Call, Continue

(* The calls of HW_2, split where they sleep, implement those of MpiChannel, which
   happen at once: provided no allocation sleeps and no copy_from_user does. *)
THEOREM ImplementsChannel ==
  ASSUME SendsNeverSleep
  PROVE  Spec => ChannelSpec
<1>1. "kmalloc" \notin MaySleep
  BY DEF SendsNeverSleep
<1>2. Init => ScanStands /\ SleepStands
  BY DEF Init, ScanStands, SleepStands, Asleep
<1>3. Base /\ ScanStands /\ SleepStands /\ [Next]_vars => ScanStands' /\ SleepStands'
  BY <1>1, WakeupStep
<1>4. Base /\ Order /\ NoQueue /\ Registered /\ ReceiveHoldsFirst /\ ScanStands /\ HiddenOrphans
        /\ Whole /\ [Next]_vars => [Channel!Next]_(Channel!vars)
  BY ChannelStep
<1> QED BY BaseInvariant, OrderInvariant, NoQueueHolds, RegisteredHolds, ReceiveTakesFirst,
           HiddenOrphansHolds, WholeHolds, ChannelInit, <1>2, <1>3, <1>4, PTL
        DEF Spec, ChannelSpec, Channel!Spec
=============================================================================
