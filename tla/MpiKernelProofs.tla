-------------------------- MODULE MpiKernelProofs --------------------------
(* Proofs about MpiKernel, for every value of its constants. *)
EXTENDS MpiKernel, TLAPS

(* Where a task is in a call, what its state may then be, and that only a task in
   schedule_timeout has a timer running.                                      *)
StateOK ==
  \A t \in Task :
    /\ pc[t] = "none" <=> state[t] \in {"FREE", "TASK_UNINTERRUPTIBLE", "TASK_ZOMBIE"}
    /\ state[t] = "TASK_INTERRUPTIBLE" => pc[t] = "poll_sleep"
    /\ timer[t] = "pending" => pc[t] = "poll_sleep"

(* What a task holds at each point of a call. *)
HoldsOK ==
  \A t \in Task :
    /\ pc[t] \in SendPcs =>
         /\ held[t] \in Message
         /\ held[t].sender_pid = pid[t]
         /\ peer[t] \in Task
    /\ pc[t] = "recv_copy" => held[t] \in Message
    /\ pc[t] \in PollPcs => entries[t] # << >>
    /\ pc[t] = "poll_list" => poll_list_size[t] = Len(entries[t])

(* Every fork under way has a child of its own. *)
ForkOK ==
  \A t \in Task : pc[t] = "fork_copy" =>
    /\ peer[t] \in Task
    /\ state[peer[t]] = "TASK_UNINTERRUPTIBLE"
    /\ \A u \in Task : pc[u] = "fork_copy" /\ u # t => peer[u] # peer[t]

Base == TypeOK /\ StateOK /\ HoldsOK /\ ForkOK /\ PollListInUse

----------------------------------------------------------------------------
(* Taking an entry out of a sequence. *)
LEMMA WithoutFact ==
  ASSUME NEW S, NEW q \in Seq(S), NEW i \in DOMAIN q
  PROVE  /\ Without(q, i) \in Seq(S)
         /\ Len(Without(q, i)) = Len(q) - 1
         /\ \A j \in 1..(Len(q) - 1) :
              Without(q, i)[j] = IF j < i THEN q[j] ELSE q[j + 1]
<1>1. Len(q) - 1 \in Nat
  OBVIOUS
<1>2. \A j \in 1..(Len(q) - 1) : q[j] \in S /\ q[j + 1] \in S
  OBVIOUS
<1> QED BY <1>1, <1>2 DEF Without

(* Adding an entry at the end of a sequence. *)
LEMMA AppendFact ==
  ASSUME NEW S, NEW q \in Seq(S), NEW x \in S
  PROVE  /\ DOMAIN q = 1..Len(q)
         /\ DOMAIN Append(q, x) = 1..(Len(q) + 1)
         /\ Append(q, x)[Len(q) + 1] = x
         /\ \A j \in DOMAIN q : j \in DOMAIN Append(q, x) /\ Append(q, x)[j] = q[j]
  OBVIOUS

(* The pids of a poll's entries, as the list it publishes. *)
LEMMA EntryPids ==
  ASSUME NEW t, entries[t] \in Seq(Entry)
  PROVE  /\ \A i \in DOMAIN entries[t] : entries[t][i].pid \in Pids
         /\ [i \in DOMAIN entries[t] |-> entries[t][i].pid] \in Seq(Pids)
         /\ Len([i \in DOMAIN entries[t] |-> entries[t][i].pid]) = Len(entries[t])
<1>1. \A i \in DOMAIN entries[t] : entries[t][i] \in Entry
  OBVIOUS
<1>2. \A i \in DOMAIN entries[t] : entries[t][i].pid \in Pids
  BY <1>1 DEF Entry
<1> QED BY <1>2

(* Scanning changes no pid and no length. *)
LEMMA ScanFact ==
  ASSUME NEW t \in Task, entries[t] \in Seq(Entry)
  PROVE  /\ Scan(t) \in Seq(Entry)
         /\ Len(Scan(t)) = Len(entries[t])
         /\ DOMAIN Scan(t) = DOMAIN entries[t]
         /\ \A i \in DOMAIN entries[t] :
              /\ Scan(t)[i].pid = entries[t][i].pid
              /\ Scan(t)[i].incoming = is_incoming_msg_from(t, entries[t][i].pid)
<1>1. \A i \in DOMAIN entries[t] : entries[t][i].pid \in Pids
  BY EntryPids
<1>2. \A i \in DOMAIN entries[t] :
        is_incoming_msg_from(t, entries[t][i].pid) \in BOOLEAN
  BY DEF is_incoming_msg_from
<1> QED BY <1>1, <1>2 DEF Scan, Entry

----------------------------------------------------------------------------
(* The system starts with Base: no call under way, no message, no entry.     *)
LEMMA BaseInit == Init => Base
<1> SUFFICES ASSUME Init PROVE Base
  OBVIOUS
<1> USE TaskAssumption, PidAssumption, BoundAssumption DEF Init
<1>1. TypeOK
  BY DEF TypeOK, Pcs
<1>2. StateOK /\ HoldsOK /\ ForkOK /\ PollListInUse
  BY DEF StateOK, HoldsOK, ForkOK, PollListInUse, SendPcs, PollPcs
<1> QED BY <1>1, <1>2 DEF Base

(* Every step of a system call, of the timer or of a signal keeps Base.      *)
LEMMA BaseStep == Base /\ [Next]_vars => Base'
<1> SUFFICES ASSUME Base, [Next]_vars PROVE Base'
  OBVIOUS
<1> USE TaskAssumption, PidAssumption, BoundAssumption, PollAssumption
      DEF Base, process, polling, local
<1>1. ASSUME NEW t \in Task, Register(t)
      PROVE  Base'
  <2>1. comm_channel' \in [Task -> Seq(Message)]
    BY <1>1 DEF TypeOK, Register, Enter, CanRun
  <2>2. TypeOK'
    BY <1>1, <2>1 DEF TypeOK, Register
  <2>3. StateOK'
    BY <1>1, <2>1 DEF StateOK, Register
  <2>4. HoldsOK'
    BY <1>1, <2>1 DEF HoldsOK, Register
  <2>5. ForkOK'
    BY <1>1, <2>1 DEF ForkOK, Register
  <2>6. PollListInUse'
    BY <1>1, <2>1 DEF PollListInUse, Register
  <2> QED BY <2>2, <2>3, <2>4, <2>5, <2>6
<1>2. ASSUME NEW t \in Task, NEW p \in Pids, SendBegin(t, p)
      PROVE  Base'
  <2>1. sent + 1 \in 1..MaxMsgs /\ pid[t] \in Pids /\ pid' = pid
    <3>1. sent < MaxMsgs /\ pid' = pid
      BY <1>2 DEF SendBegin, process
    <3>2. sent \in 0..MaxMsgs /\ pid[t] \in Pids \cup {0} /\ (pid[t] = 0 <=> state[t] = "FREE")
      BY DEF TypeOK
    <3>3. state[t] = "TASK_RUNNING"
      BY <1>2 DEF Enter, CanRun, SendBegin
    <3> QED BY <3>1, <3>2, <3>3
  <2>2. [id |-> sent + 1, sender_pid |-> pid[t], addressee |-> p] \in Message
    BY <1>2, <2>1 DEF Message
  <2>3. held' \in [Task -> Message \cup {NoMsg}]
    BY <1>2, <2>2 DEF TypeOK, SendBegin
  <2>4. heap' \subseteq ({"message_t", "data"} \X (1..MaxMsgs))
                   \cup ({"poll_pids_ker", "poll_list"} \X Task)
    <3>1. heap' = heap \cup {<<"message_t", sent + 1>>}
      BY <1>2 DEF SendBegin
    <3>2. <<"message_t", sent + 1>> \in {"message_t", "data"} \X (1..MaxMsgs)
      BY <2>1
    <3> QED BY <3>1, <3>2 DEF TypeOK
  <2>5. peer' \in [Task -> Task \cup {NoTask}] /\ peer'[t] \in Task
    BY <1>2 DEF TypeOK, find_task_by_pid, Hashed, SendBegin
  <2>6. sent' \in 0..MaxMsgs /\ cpu' \in Task \cup {NoTask} /\ pc' \in [Task -> Pcs]
    BY <1>2, <2>1 DEF TypeOK, SendBegin, Calls, Pcs, SendPcs
  <2>11. UNCHANGED <<state, process, comm_channel, polling, entries>>
    BY <1>2 DEF SendBegin
  <2>12. TypeOK'
    BY <2>3, <2>4, <2>5, <2>6, <2>11 DEF TypeOK
  <2>7. StateOK'
    BY <1>2 DEF StateOK, SendBegin, Enter
  <2>8. HoldsOK'
    <3>1. held'[t] \in Message /\ held'[t].sender_pid = pid'[t] /\ peer'[t] \in Task
      BY <1>2, <2>1, <2>2, <2>5 DEF TypeOK, SendBegin
    <3>2. pc'[t] = "send_data"
      BY <1>2 DEF TypeOK, SendBegin
    <3>3. \A u \in Task \ {t} : pc'[u] = pc[u] /\ held'[u] = held[u] /\ peer'[u] = peer[u]
      BY <1>2 DEF TypeOK, SendBegin
    <3> QED BY <1>2, <2>1, <3>1, <3>2, <3>3 DEF HoldsOK, SendBegin, SendPcs, PollPcs
  <2>9. ForkOK'
    BY <1>2 DEF TypeOK, ForkOK, SendBegin
  <2>10. PollListInUse'
    BY <1>2 DEF PollListInUse, SendBegin, Enter
  <2> QED BY <2>12, <2>7, <2>8, <2>9, <2>10
<1>3. ASSUME NEW t \in Task, SendAllocData(t)
      PROVE  Base'
  <2>1. held[t] \in Message /\ held[t].id \in 1..MaxMsgs
    BY <1>3 DEF HoldsOK, SendPcs, Message, SendAllocData
  <2>2. heap' \subseteq ({"message_t", "data"} \X (1..MaxMsgs))
                   \cup ({"poll_pids_ker", "poll_list"} \X Task)
    BY <1>3, <2>1 DEF TypeOK, SendAllocData, CanRun, Calls
  <2>3. TypeOK'
    BY <1>3, <2>2 DEF TypeOK, Pcs, SendPcs, SendAllocData, Calls
  <2>4. StateOK'
    BY <1>3 DEF StateOK, SendAllocData
  <2>5. HoldsOK'
    BY <1>3 DEF HoldsOK, SendPcs, PollPcs, SendAllocData
  <2>6. ForkOK'
    BY <1>3 DEF ForkOK, SendAllocData
  <2>7. PollListInUse'
    BY <1>3 DEF PollListInUse, SendAllocData
  <2> QED BY <2>3, <2>4, <2>5, <2>6, <2>7
<1>4. ASSUME NEW t \in Task, SendNoMemory(t)
      PROVE  Base'
  <2>1. heap' \subseteq ({"message_t", "data"} \X (1..MaxMsgs))
                   \cup ({"poll_pids_ker", "poll_list"} \X Task)
    BY <1>4 DEF TypeOK, SendNoMemory, CanRun, Return
  <2>2. TypeOK'
    BY <1>4, <2>1 DEF TypeOK, Pcs, SendNoMemory, Return
  <2>3. StateOK'
    BY <1>4, <2>1 DEF StateOK, SendNoMemory, Return
  <2>4. HoldsOK'
    BY <1>4, <2>1 DEF TypeOK, HoldsOK, SendPcs, PollPcs, SendNoMemory, Return
  <2>5. ForkOK'
    BY <1>4, <2>1 DEF ForkOK, SendNoMemory, Return
  <2>6. PollListInUse'
    BY <1>4, <2>1 DEF TypeOK, PollListInUse, HoldsOK, StateOK, PollPcs, SendNoMemory, CanRun,
       Return
  <2> QED BY <2>2, <2>3, <2>4, <2>5, <2>6
<1>5. ASSUME NEW t \in Task, SendFault(t)
      PROVE  Base'
  <2>1. heap' \subseteq ({"message_t", "data"} \X (1..MaxMsgs))
                   \cup ({"poll_pids_ker", "poll_list"} \X Task)
    BY <1>5 DEF TypeOK, SendFault
  <2>2. TypeOK'
    BY <1>5, <2>1 DEF TypeOK, Pcs, SendFault, Return
  <2>3. StateOK'
    BY <1>5, <2>1 DEF StateOK, SendFault, Return
  <2>4. HoldsOK'
    BY <1>5, <2>1 DEF TypeOK, HoldsOK, SendPcs, PollPcs, SendFault, Return
  <2>5. ForkOK'
    BY <1>5, <2>1 DEF ForkOK, SendFault, Return
  <2>6. PollListInUse'
    BY <1>5, <2>1 DEF PollListInUse, SendFault, Return
  <2> QED BY <2>2, <2>3, <2>4, <2>5, <2>6
<1>6. ASSUME NEW t \in Task, SendLink(t)
      PROVE  Base'
  <2>1. held[t] \in Message /\ peer[t] \in Task
    BY <1>6 DEF HoldsOK, SendPcs, SendLink
  <2>2. comm_channel' \in [Task -> Seq(Message)]
    BY <1>6, <2>1 DEF TypeOK, LinkInto, SendLink, CanRun
  <2>3. \/ state' = state
         \/ /\ state' = [state EXCEPT ![peer[t]] = "TASK_RUNNING"]
            /\ pc[peer[t]] = "poll_sleep"
            /\ state[peer[t]] \in {"TASK_RUNNING", "TASK_INTERRUPTIBLE"}
    BY <1>6, <2>1 DEF WakeUp, PollsFor, PollListInUse, StateOK, TypeOK, SendLink
  <2>4. TypeOK'
    BY <1>6, <2>1, <2>2, <2>3 DEF TypeOK, Pcs, SendLink, CanRun, Return, HasQueue, WakeUp,
       PollsFor
  <2>5. StateOK'
    <3>1. pc[t] = "send_link" /\ pc' = [pc EXCEPT ![t] = "user"] /\ timer' = timer
      BY <1>6 DEF SendLink, Return, polling
    <3>2. \A u \in Task : state'[u] # state[u] =>
            state'[u] = "TASK_RUNNING" /\ pc[u] = "poll_sleep"
      <4>1. CASE state' = state
        BY <4>1
      <4>2. CASE /\ state' = [state EXCEPT ![peer[t]] = "TASK_RUNNING"]
                 /\ pc[peer[t]] = "poll_sleep"
        <5>1. \A u \in Task : u # peer[t] => state'[u] = state[u]
          BY <4>2 DEF TypeOK
        <5>2. state'[peer[t]] = "TASK_RUNNING"
          BY <2>1, <4>2 DEF TypeOK
        <5> QED BY <4>2, <5>1, <5>2
      <4> QED BY <2>3, <4>1, <4>2
    <3>3. \A u \in Task : IF u = t THEN pc'[u] = "user" ELSE pc'[u] = pc[u]
      BY <3>1 DEF TypeOK
    <3> QED BY <3>1, <3>2, <3>3 DEF StateOK
  <2>6. HoldsOK'
    BY <1>6 DEF TypeOK, HoldsOK, SendPcs, PollPcs, SendLink, Return
  <2>7. ForkOK'
    <3>1. \A u \in Task : pc'[u] = "fork_copy" => pc[u] = "fork_copy" /\ peer'[u] = peer[u]
      BY <1>6 DEF TypeOK, SendLink, Return
    <3>2. \A u \in Task : state[u] = "TASK_UNINTERRUPTIBLE" => state'[u] = state[u]
      BY <2>1, <2>3 DEF TypeOK
    <3> QED BY <3>1, <3>2 DEF ForkOK
  <2>8. PollListInUse'
    BY <1>6 DEF PollListInUse, SendLink, Return
  <2> QED BY <2>4, <2>5, <2>6, <2>7, <2>8
<1>7. ASSUME NEW t \in Task, NEW p \in Pids, ReceiveBegin(t, p)
      PROVE  Base'
  <2>1. held' \in [Task -> Message \cup {NoMsg}] /\ held'[t] \in Message
    BY <1>7 DEF TypeOK, ReceiveBegin
  <2>2. TypeOK'
    BY <1>7, <2>1 DEF TypeOK, Pcs, ReceiveBegin, Calls
  <2>3. StateOK'
    BY <1>7, <2>1 DEF StateOK, ReceiveBegin, Enter
  <2>4. HoldsOK'
    BY <1>7, <2>1 DEF TypeOK, HoldsOK, SendPcs, PollPcs, ReceiveBegin
  <2>5. ForkOK'
    BY <1>7, <2>1 DEF ForkOK, ReceiveBegin
  <2>6. PollListInUse'
    BY <1>7, <2>1 DEF TypeOK, PollListInUse, HoldsOK, StateOK, PollPcs, ReceiveBegin, Enter,
       CanRun, Calls
  <2> QED BY <2>2, <2>3, <2>4, <2>5, <2>6
<1>8. ASSUME NEW t \in Task, ReceiveEnd(t)
      PROVE  Base'
  <2>1. comm_channel' \in [Task -> Seq(Message)]
    BY <1>8, WithoutFact DEF TypeOK, ReceiveEnd
  <2>2. heap' \subseteq ({"message_t", "data"} \X (1..MaxMsgs))
                   \cup ({"poll_pids_ker", "poll_list"} \X Task)
    BY <1>8, <2>1 DEF TypeOK, ReceiveEnd
  <2>3. TypeOK'
    BY <1>8, <2>1 DEF TypeOK, Pcs, ReceiveEnd, Return
  <2>4. StateOK'
    BY <1>8 DEF StateOK, ReceiveEnd, Return
  <2>5. HoldsOK'
    BY <1>8 DEF TypeOK, HoldsOK, SendPcs, PollPcs, ReceiveEnd, Return
  <2>6. ForkOK'
    BY <1>8 DEF ForkOK, ReceiveEnd, Return
  <2>7. PollListInUse'
    BY <1>8 DEF PollListInUse, ReceiveEnd, Return
  <2> QED BY <2>3, <2>4, <2>5, <2>6, <2>7
<1>9. ASSUME NEW t \in Task, ReceiveFault(t)
      PROVE  Base'
  <2>1. TypeOK'
    BY <1>9 DEF TypeOK, Pcs, ReceiveFault, Return
  <2>2. StateOK'
    BY <1>9 DEF StateOK, ReceiveFault, Return
  <2>3. HoldsOK'
    BY <1>9 DEF TypeOK, HoldsOK, SendPcs, PollPcs, ReceiveFault, Return
  <2>4. ForkOK'
    BY <1>9 DEF ForkOK, ReceiveFault, Return
  <2>5. PollListInUse'
    BY <1>9 DEF PollListInUse, ReceiveFault, Return
  <2> QED BY <2>1, <2>2, <2>3, <2>4, <2>5
<1>10. ASSUME NEW t \in Task, NEW request \in PollRequests, PollBegin(t, request)
      PROVE  Base'
  <2>1. request \in Seq(Pids) /\ request # << >>
    BY <1>10
  <2>2. \A i \in DOMAIN request : [pid |-> request[i], incoming |-> FALSE] \in Entry
    BY <1>10, <2>1 DEF Entry
  <2>3. [i \in DOMAIN request |-> [pid |-> request[i], incoming |-> FALSE]]
          \in Seq(Entry) \ {<< >>}
    <3>1. DOMAIN request = 1..Len(request) /\ Len(request) \in Nat \ {0}
      BY <2>1
    <3> QED BY <2>2, <3>1
  <2>4. entries' \in [Task -> Seq(Entry)] /\ entries'[t] # << >>
    BY <1>10, <2>3 DEF TypeOK, PollBegin
  <2>5. heap' \subseteq ({"message_t", "data"} \X (1..MaxMsgs))
                   \cup ({"poll_pids_ker", "poll_list"} \X Task)
    BY <1>10 DEF TypeOK, EntriesBlock, PollBegin
  <2>6. TypeOK'
    BY <1>10, <2>4, <2>5 DEF TypeOK, Pcs, PollPcs, PollBegin, Calls
  <2>7. StateOK'
    BY <1>10, <2>1, <2>2, <2>3, <2>4, <2>5 DEF TypeOK, StateOK, PollListInUse, PollBegin,
       Enter, CanRun, Calls, EntriesBlock
  <2>8. HoldsOK'
    BY <1>10 DEF TypeOK, HoldsOK, SendPcs, PollBegin
  <2>9. ForkOK'
    BY <1>10 DEF ForkOK, PollBegin
  <2>10. PollListInUse'
    BY <1>10, <2>1, <2>2, <2>3, <2>4, <2>5 DEF TypeOK, PollListInUse, HoldsOK, StateOK,
       PollPcs, PollBegin, Enter, CanRun, Calls, EntriesBlock
  <2> QED BY <2>6, <2>7, <2>8, <2>9, <2>10
<1>11. ASSUME NEW t \in Task, PollFault(t)
      PROVE  Base'
  <2>1. entries' \in [Task -> Seq(Entry)]
    BY <1>11 DEF TypeOK, PollFault
  <2>2. heap' \subseteq ({"message_t", "data"} \X (1..MaxMsgs))
                   \cup ({"poll_pids_ker", "poll_list"} \X Task)
    BY <1>11, <2>1 DEF TypeOK, PollFault
  <2>3. TypeOK'
    BY <1>11 DEF TypeOK, Pcs, PollFault, Return
  <2>4. StateOK'
    BY <1>11 DEF StateOK, PollFault, Return
  <2>5. HoldsOK'
    BY <1>11 DEF TypeOK, HoldsOK, SendPcs, PollPcs, PollFault, Return
  <2>6. ForkOK'
    BY <1>11 DEF ForkOK, PollFault, Return
  <2>7. PollListInUse'
    BY <1>11, <2>1, <2>2 DEF TypeOK, PollListInUse, HoldsOK, StateOK, PollPcs, PollFault,
       CanRun, Return, EntriesBlock
  <2> QED BY <2>3, <2>4, <2>5, <2>6, <2>7
<1>12. ASSUME NEW t \in Task, PollScanFound(t)
      PROVE  Base'
  <2>1. Scan(t) \in Seq(Entry) /\ Len(Scan(t)) = Len(entries[t])
    BY ScanFact DEF TypeOK
  <2>2. entries' \in [Task -> Seq(Entry)] /\ entries'[t] # << >>
    BY <1>12, <2>1 DEF TypeOK, HoldsOK, PollPcs, PollScanFound
  <2>3. TypeOK'
    BY <1>12, <2>2 DEF TypeOK, Pcs, PollPcs, PollScanFound, Calls
  <2>4. StateOK'
    BY <1>12 DEF StateOK, PollScanFound
  <2>5. HoldsOK'
    BY <1>12, <2>2 DEF HoldsOK, SendPcs, PollScanFound
  <2>6. ForkOK'
    BY <1>12 DEF ForkOK, PollScanFound
  <2>7. PollListInUse'
    BY <1>12 DEF PollListInUse, PollScanFound
  <2> QED BY <2>3, <2>4, <2>5, <2>6, <2>7
<1>13. ASSUME NEW t \in Task, PollScanNone(t)
      PROVE  Base'
  <2>1. Scan(t) \in Seq(Entry) /\ Len(Scan(t)) = Len(entries[t])
    BY ScanFact DEF TypeOK
  <2>2. entries' \in [Task -> Seq(Entry)] /\ entries'[t] # << >>
    BY <1>13, <2>1 DEF TypeOK, HoldsOK, PollPcs, PollScanNone
  <2>3. heap' \subseteq ({"message_t", "data"} \X (1..MaxMsgs))
                   \cup ({"poll_pids_ker", "poll_list"} \X Task)
    BY <1>13 DEF TypeOK, PollScanNone
  <2>4. TypeOK'
    BY <1>13, <2>1 DEF TypeOK, Pcs, PollPcs, PollScanNone, Calls
  <2>5. StateOK'
    BY <1>13 DEF StateOK, PollScanNone
  <2>6. HoldsOK'
    BY <1>13, <2>1, <2>2 DEF TypeOK, HoldsOK, SendPcs, PollScanNone
  <2>7. ForkOK'
    BY <1>13 DEF ForkOK, PollScanNone
  <2>8. PollListInUse'
    BY <1>13 DEF PollListInUse, PollScanNone
  <2> QED BY <2>4, <2>5, <2>6, <2>7, <2>8
<1>14. ASSUME NEW t \in Task, PollNoMemory(t)
      PROVE  Base'
  <2>1. entries' \in [Task -> Seq(Entry)]
    BY <1>14 DEF TypeOK, PollNoMemory
  <2>2. poll_list' \in [Task -> Seq(Pids)]
    BY <1>14, <2>1 DEF TypeOK, PollListCleared, PollNoMemory
  <2>3. heap' \subseteq ({"message_t", "data"} \X (1..MaxMsgs))
                   \cup ({"poll_pids_ker", "poll_list"} \X Task)
    BY <1>14 DEF TypeOK, PollNoMemory
  <2>4. TypeOK'
    BY <1>14, <2>1, <2>2 DEF TypeOK, Pcs, PollNoMemory, Return
  <2>5. StateOK'
    BY <1>14 DEF StateOK, PollNoMemory, Return
  <2>6. HoldsOK'
    BY <1>14 DEF TypeOK, HoldsOK, SendPcs, PollPcs, PollNoMemory, Return
  <2>7. ForkOK'
    BY <1>14 DEF ForkOK, PollNoMemory, Return
  <2>8. PollListInUse'
    BY <1>14 DEF PollListInUse, PollNoMemory, Return, PollListCleared
  <2> QED BY <2>4, <2>5, <2>6, <2>7, <2>8
<1>15. ASSUME NEW t \in Task, PollSleep(t)
      PROVE  Base'
  <2>1. [i \in DOMAIN entries[t] |-> entries[t][i].pid] \in Seq(Pids)
    BY EntryPids DEF TypeOK
  <2>2. poll_list' \in [Task -> Seq(Pids)]
    BY <1>15, <2>1 DEF TypeOK, PollSleep, PublishPollList
  <2>3. TypeOK'
    BY <1>15, <2>1, <2>2 DEF TypeOK, Pcs, SendPcs, PollPcs, StateOK, PollSleep, CanRun,
       PublishPollList, PollListBlock
  <2>4. StateOK'
    BY <1>15 DEF TypeOK, StateOK, PollSleep, PublishPollList
  <2>5. HoldsOK'
    BY <1>15, <2>1, <2>2 DEF TypeOK, HoldsOK, StateOK, SendPcs, PollPcs, PollSleep, CanRun,
       PublishPollList, PollListBlock
  <2>6. ForkOK'
    BY <1>15 DEF ForkOK, PollSleep, CanRun, PublishPollList
  <2>7. PollListInUse'
    <3>1. /\ poll_list'[t] = [i \in DOMAIN entries[t] |-> entries[t][i].pid]
          /\ pc'[t] = "poll_sleep" /\ poll_list_size[t] = Len(entries[t])
          /\ poll_list_size' = poll_list_size /\ entries' = entries
      BY <1>15 DEF TypeOK, PollSleep, PublishPollList, local, HoldsOK
    <3>2. entries[t] \in Seq(Entry) /\ entries[t] # << >>
      BY <1>15 DEF TypeOK, HoldsOK, PollPcs, PollSleep, PublishPollList
    <3>3. Len(poll_list'[t]) = Len(entries[t]) /\ poll_list'[t] # << >>
      BY <3>1, <3>2
    <3>4. \A u \in Task \ {t} : poll_list'[u] = poll_list[u] /\ pc'[u] = pc[u]
      BY <1>15 DEF TypeOK, PollSleep, PublishPollList
    <3> QED BY <3>1, <3>3, <3>4 DEF PollListInUse
  <2> QED BY <2>3, <2>4, <2>5, <2>6, <2>7
<1>16. ASSUME NEW t \in Task, PollRefused(t)
      PROVE  Base'
  <2>1. [i \in DOMAIN entries[t] |-> entries[t][i].pid] \in Seq(Pids)
    BY EntryPids DEF TypeOK
  <2>2. poll_list' \in [Task -> Seq(Pids)]
    BY <1>16, <2>1 DEF TypeOK, PollRefused, PublishPollList
  <2>3. TypeOK'
    BY <1>16, <2>2 DEF TypeOK, Pcs, PollPcs, PollRefused, PublishPollList, PollListBlock
  <2>4. StateOK'
    BY <1>16 DEF StateOK, PollRefused, PublishPollList
  <2>5. HoldsOK'
    BY <1>16, <2>1, <2>2 DEF TypeOK, HoldsOK, StateOK, SendPcs, PollPcs, PollRefused, CanRun,
       PublishPollList, PollListBlock
  <2>6. ForkOK'
    BY <1>16 DEF ForkOK, PollRefused, PublishPollList
  <2>7. PollListInUse'
    <3>1. /\ poll_list'[t] = [i \in DOMAIN entries[t] |-> entries[t][i].pid]
          /\ pc'[t] = "poll_sleep" /\ poll_list_size[t] = Len(entries[t])
          /\ poll_list_size' = poll_list_size /\ entries' = entries
      BY <1>16 DEF TypeOK, PollRefused, PublishPollList, local, HoldsOK
    <3>2. entries[t] \in Seq(Entry) /\ entries[t] # << >>
      BY <1>16 DEF TypeOK, HoldsOK, PollPcs, PollRefused, PublishPollList
    <3>3. Len(poll_list'[t]) = Len(entries[t]) /\ poll_list'[t] # << >>
      BY <3>1, <3>2
    <3>4. \A u \in Task \ {t} : poll_list'[u] = poll_list[u] /\ pc'[u] = pc[u]
      BY <1>16 DEF TypeOK, PollRefused, PublishPollList
    <3> QED BY <3>1, <3>3, <3>4 DEF PollListInUse
  <2> QED BY <2>3, <2>4, <2>5, <2>6, <2>7
<1>17. ASSUME NEW t \in Task, PollRescan(t)
      PROVE  Base'
  <2>1. Scan(t) \in Seq(Entry) /\ Len(Scan(t)) = Len(entries[t])
    BY ScanFact DEF TypeOK
  <2>2. entries' \in [Task -> Seq(Entry)] /\ entries'[t] # << >>
    BY <1>17, <2>1 DEF TypeOK, HoldsOK, PollPcs, PollRescan
  <2>3. poll_list' \in [Task -> Seq(Pids)]
    BY <1>17 DEF TypeOK, PollListCleared, PollRescan
  <2>4. heap' \subseteq ({"message_t", "data"} \X (1..MaxMsgs))
                   \cup ({"poll_pids_ker", "poll_list"} \X Task)
    BY <1>17 DEF TypeOK, PollRescan
  <2>5. TypeOK'
    BY <1>17, <2>2, <2>3 DEF TypeOK, Pcs, PollPcs, PollRescan, Calls
  <2>6. StateOK'
    BY <1>17 DEF TypeOK, StateOK, PollRescan, CanRun
  <2>7. HoldsOK'
    BY <1>17, <2>2 DEF HoldsOK, SendPcs, PollRescan
  <2>8. ForkOK'
    BY <1>17 DEF ForkOK, PollRescan
  <2>9. PollListInUse'
    BY <1>17 DEF TypeOK, PollListInUse, PollRescan, PollListCleared
  <2> QED BY <2>5, <2>6, <2>7, <2>8, <2>9
<1>18. ASSUME NEW t \in Task, PollEnd(t)
      PROVE  Base'
  <2>1. entries' \in [Task -> Seq(Entry)]
    BY <1>18 DEF TypeOK, PollEnd
  <2>2. heap' \subseteq ({"message_t", "data"} \X (1..MaxMsgs))
                   \cup ({"poll_pids_ker", "poll_list"} \X Task)
    BY <1>18, <2>1 DEF TypeOK, PollEnd
  <2>3. TypeOK'
    BY <1>18 DEF TypeOK, Pcs, PollEnd, Return
  <2>4. StateOK'
    BY <1>18 DEF StateOK, PollEnd, Return
  <2>5. HoldsOK'
    BY <1>18 DEF TypeOK, HoldsOK, SendPcs, PollPcs, PollEnd, Return
  <2>6. ForkOK'
    BY <1>18 DEF ForkOK, PollEnd, Return
  <2>7. PollListInUse'
    BY <1>18 DEF PollListInUse, PollEnd, Return
  <2> QED BY <2>3, <2>4, <2>5, <2>6, <2>7
<1>19. ASSUME NEW t \in Task, NEW child \in Task, ForkBegin(t, child)
      PROVE  Base'
  <2>1. \A u \in Task : pc[u] = "fork_copy" => peer[u] \in Task /\ peer[u] # child
    BY <1>19 DEF ForkOK, ForkBegin
  <2>2. /\ peer' = [peer EXCEPT ![t] = child] /\ child # t
        /\ state'[child] = "TASK_UNINTERRUPTIBLE"
    BY <1>19, <2>1 DEF TypeOK, ForkBegin, Enter, CanRun
  <2>3. TypeOK'
    BY <1>19, <2>1 DEF TypeOK, Pcs, SendPcs, StateOK, ForkBegin, Enter, Calls, get_pid,
       ChildCommOn, ChildChannel, PollListCleared
  <2>4. StateOK'
    BY <1>19 DEF StateOK, ForkBegin, Enter
  <2>5. HoldsOK'
    <3>1. pc[child] = "none" /\ pc'[child] = "none" /\ child # t
      BY <1>19, <2>1, <2>2 DEF TypeOK, StateOK, ForkBegin, Enter
    <3>2. \A u \in Task \ {t} :
            /\ pc'[u] = pc[u] /\ held'[u] = held[u]
            /\ peer'[u] = peer[u] /\ entries'[u] = entries[u]
      BY <1>19 DEF TypeOK, ForkBegin, Enter
    <3>3. \A u \in Task \ {child} : pid'[u] = pid[u] /\ poll_list_size'[u] = poll_list_size[u]
      BY <1>19 DEF TypeOK, ForkBegin, Enter
    <3>4. pc'[t] \notin SendPcs \cup PollPcs /\ pc'[t] # "recv_copy"
      BY <1>19 DEF TypeOK, SendPcs, PollPcs, ForkBegin
    <3> QED BY <3>1, <3>2, <3>3, <3>4 DEF HoldsOK, SendPcs, PollPcs
  <2>6. ForkOK'
    <3>1. \A u \in Task : u # t /\ pc'[u] = "fork_copy" =>
            pc[u] = "fork_copy" /\ peer'[u] = peer[u] /\ state'[peer[u]] = state[peer[u]]
      BY <1>19, <2>1 DEF TypeOK, ForkBegin
    <3>2. peer'[t] = child
      BY <1>19 DEF TypeOK, ForkBegin
    <3> QED BY <2>1, <2>2, <3>1, <3>2 DEF ForkOK
  <2>7. PollListInUse'
    BY <1>19 DEF PollListInUse, StateOK, ForkBegin, Enter, PollListCleared
  <2> QED BY <2>3, <2>4, <2>5, <2>6, <2>7
<1>20. ASSUME NEW t \in Task, ForkEnd(t)
      PROVE  Base'
  <2>1. /\ peer[t] \in Task /\ peer[t] # t
        /\ state[peer[t]] = "TASK_UNINTERRUPTIBLE" /\ pc[peer[t]] = "none"
    BY <1>20 DEF ForkOK, StateOK, ForkEnd
  <2>2. \A u \in Task : pc[u] = "fork_copy" /\ u # t => peer[u] \in Task /\ peer[u] # peer[t]
    BY <1>20, <2>1 DEF ForkOK, ForkEnd, CanRun
  <2>3. TypeOK'
    BY <1>20, <2>1 DEF TypeOK, Pcs, SendPcs, ForkEnd
  <2>4. StateOK'
    <3>1. /\ state' = [state EXCEPT ![peer[t]] = "TASK_RUNNING"]
          /\ pc' = [pc EXCEPT ![t] = "user", ![peer[t]] = "user"]
          /\ pc[t] = "fork_copy" /\ timer' = timer
      BY <1>20 DEF ForkEnd, polling
    <3>2. \A u \in Task \ {t, peer[t]} : state'[u] = state[u] /\ pc'[u] = pc[u]
      BY <3>1 DEF TypeOK
    <3>3. /\ state'[t] = state[t] /\ pc'[t] = "user"
          /\ state'[peer[t]] = "TASK_RUNNING" /\ pc'[peer[t]] = "user"
      BY <2>1, <3>1 DEF TypeOK
    <3> SUFFICES ASSUME NEW u \in Task
                 PROVE  StateOK!(u)'
      BY DEF StateOK
    <3>4. CASE u \in {t, peer[t]}
      BY <2>1, <3>1, <3>3, <3>4 DEF StateOK
    <3>5. CASE u \notin {t, peer[t]}
      BY <3>1, <3>2, <3>5 DEF StateOK
    <3> QED BY <3>4, <3>5
  <2>5. HoldsOK'
    BY <1>20, <2>2 DEF TypeOK, HoldsOK, StateOK, SendPcs, PollPcs, ForkEnd, CanRun
  <2>6. ForkOK'
    <3>1. \A u \in Task : pc'[u] = "fork_copy" =>
            u # t /\ pc[u] = "fork_copy" /\ peer'[u] = peer[u]
      BY <1>20, <2>1 DEF TypeOK, ForkEnd
    <3>2. \A u \in Task : u # peer[t] => state'[u] = state[u]
      BY <1>20, <2>1 DEF TypeOK, ForkEnd
    <3> QED BY <2>2, <3>1, <3>2 DEF ForkOK
  <2>7. PollListInUse'
    <3>1. /\ pc' = [pc EXCEPT ![t] = "user", ![peer[t]] = "user"]
          /\ pc[t] = "fork_copy" /\ UNCHANGED <<poll_list, poll_list_size, entries>>
      BY <1>20 DEF ForkEnd, polling
    <3>2. \A u \in Task : pc'[u] = "poll_sleep" <=> pc[u] = "poll_sleep"
      BY <2>1, <3>1 DEF TypeOK
    <3> QED BY <3>1, <3>2 DEF PollListInUse
  <2> QED BY <2>3, <2>4, <2>5, <2>6, <2>7
<1>21. ASSUME NEW t \in Task, ForkFail(t)
      PROVE  Base'
  <2>1. /\ peer[t] \in Task /\ peer[t] # t
        /\ state[peer[t]] = "TASK_UNINTERRUPTIBLE" /\ pc[peer[t]] = "none"
    BY <1>21 DEF ForkOK, StateOK, ForkFail
  <2>2. \A u \in Task : pc[u] = "fork_copy" /\ u # t => peer[u] \in Task /\ peer[u] # peer[t]
    BY <1>21, <2>1 DEF ForkOK, ForkFail
  <2>3. TypeOK'
    BY <1>21, <2>1, <2>2 DEF TypeOK, Pcs, StateOK, ForkFail, Return, FreeTask, PollListCleared
  <2>4. StateOK'
    BY <1>21, <2>1 DEF StateOK, ForkFail, Return, FreeTask
  <2>5. HoldsOK'
    <3>1. pc[peer[t]] = "none" /\ pc'[peer[t]] = "none" /\ peer[t] # t
      BY <1>21, <2>1 DEF ForkFail, Return
    <3>2. \A u \in Task \ {t} :
            /\ pc'[u] = pc[u] /\ held'[u] = held[u]
            /\ peer'[u] = peer[u] /\ entries'[u] = entries[u]
      BY <1>21 DEF ForkFail, Return
    <3>3. \A u \in Task \ {peer[t]} : pid'[u] = pid[u] /\ poll_list_size'[u] = poll_list_size[u]
      BY <1>21 DEF ForkFail, FreeTask
    <3>4. pc'[t] \notin SendPcs \cup PollPcs /\ pc'[t] # "recv_copy"
      BY <1>21 DEF SendPcs, PollPcs, ForkFail, Return
    <3> QED BY <3>1, <3>2, <3>3, <3>4 DEF HoldsOK, SendPcs, PollPcs
  <2>6. ForkOK'
    BY <1>21 DEF TypeOK, ForkOK, ForkFail, Return, FreeTask
  <2>7. PollListInUse'
    BY <1>21, <2>1 DEF PollListInUse, ForkFail, Return, FreeTask, PollListCleared
  <2> QED BY <2>3, <2>4, <2>5, <2>6, <2>7
<1>22. ASSUME NEW t \in Task, NEW child \in Task, Wait(t, child)
      PROVE  Base'
  <2>1. TypeOK'
    BY <1>22 DEF TypeOK, Pcs, SendPcs, PollPcs, StateOK, Wait, FreeTask, PollListCleared
  <2>2. StateOK'
    BY <1>22 DEF StateOK, Wait, FreeTask
  <2>3. HoldsOK'
    BY <1>22 DEF HoldsOK, StateOK, SendPcs, Wait, FreeTask
  <2>4. ForkOK'
    BY <1>22 DEF ForkOK, Wait, FreeTask
  <2>5. PollListInUse'
    BY <1>22 DEF PollListInUse, StateOK, Wait, FreeTask, PollListCleared
  <2> QED BY <2>1, <2>2, <2>3, <2>4, <2>5
<1>23. ASSUME NEW t \in Task, Exit(t)
      PROVE  Base'
  <2>1. TypeOK'
    BY <1>23 DEF TypeOK, Pcs, Exit, Enter, CanRun, Reparented
  <2>2. StateOK'
    BY <1>23 DEF TypeOK, StateOK, Exit, Enter
  <2>3. HoldsOK'
    BY <1>23 DEF HoldsOK, SendPcs, PollPcs, Exit
  <2>4. ForkOK'
    BY <1>23 DEF ForkOK, Exit, Enter, CanRun
  <2>5. PollListInUse'
    BY <1>23 DEF PollListInUse, Exit, Enter
  <2> QED BY <2>1, <2>2, <2>3, <2>4, <2>5
<1>24. ASSUME NEW t \in Task, TimerExpire(t)
      PROVE  Base'
  <2>1. TypeOK'
    BY <1>24 DEF TypeOK, Pcs, SendPcs, PollPcs, StateOK, TimerExpire
  <2>2. StateOK'
    BY <1>24 DEF TypeOK, StateOK, PollListInUse, TimerExpire
  <2>3. HoldsOK'
    BY <1>24 DEF HoldsOK, TimerExpire
  <2>4. ForkOK'
    BY <1>24 DEF ForkOK, StateOK, TimerExpire
  <2>5. PollListInUse'
    BY <1>24 DEF PollListInUse, TimerExpire
  <2> QED BY <2>1, <2>2, <2>3, <2>4, <2>5
<1>25. ASSUME NEW t \in Task, Signal(t)
      PROVE  Base'
  <2>1. TypeOK'
    BY <1>25 DEF TypeOK, SendPcs, PollPcs, Signal
  <2>2. StateOK'
    BY <1>25 DEF TypeOK, StateOK, PollListInUse, Signal
  <2>3. HoldsOK'
    BY <1>25 DEF HoldsOK, Signal
  <2>4. ForkOK'
    BY <1>25 DEF ForkOK, Signal
  <2>5. PollListInUse'
    BY <1>25 DEF PollListInUse, Signal
  <2> QED BY <2>1, <2>2, <2>3, <2>4, <2>5
<1>26. CASE UNCHANGED vars
  <2>1. TypeOK'
    BY <1>26 DEF vars, TypeOK
  <2>2. StateOK'
    BY <1>26 DEF vars, StateOK
  <2>3. HoldsOK'
    BY <1>26 DEF vars, HoldsOK
  <2>4. ForkOK'
    BY <1>26 DEF vars, ForkOK
  <2>5. PollListInUse'
    BY <1>26 DEF vars, PollListInUse
  <2> QED BY <2>1, <2>2, <2>3, <2>4, <2>5
<1> QED BY <1>1, <1>2, <1>3, <1>4, <1>5, <1>6, <1>7, <1>8, <1>9, <1>10, <1>11, <1>12, <1>13,
           <1>14, <1>15, <1>16, <1>17, <1>18, <1>19, <1>20, <1>21, <1>22, <1>23, <1>24, <1>25,
           <1>26 DEF Next, Call, Continue

----------------------------------------------------------------------------
(* Base, the inductive invariant the theorems below rest on, always holds:
   the types, and what each point inside a system call implies about the
   task's locals and its record in the poll list.                            *)
THEOREM BaseInvariant == Spec => []Base
<1> QED BY BaseInit, BaseStep, PTL DEF Spec

(* Every field of task_struct, every block of the heap and every local of a call
   keeps its type, whatever calls interleave: find_task_by_pid never returns a
   free slot, a message has a sender's pid, the identity of a held block is known. *)
THEOREM TypeCorrect == Spec => []TypeOK
<1>1. Base => TypeOK
  BY DEF Base
<1> QED BY BaseInvariant, <1>1, PTL

(* poll_list is allocated exactly while its owner is in schedule_timeout and has
   the length and content the wake-up loop of sys_mpi_send reads.             *)
THEOREM PollListSafe == Spec => []PollListInUse
<1>1. Base => PollListInUse
  BY DEF Base
<1> QED BY BaseInvariant, <1>1, PTL
=============================================================================
