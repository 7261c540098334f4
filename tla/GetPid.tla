------------------------------- MODULE GetPid -------------------------------
(***************************************************************************)
(* get_pid of kernel/fork.c: the counter last_pid, the cache next_safe of  *)
(* the next pid in use, and who gets which pid through fork, exit, wait4   *)
(* and the calls that change process group and session.                    *)
(*                                                                         *)
(* A fork copies the ids of the parent, takes a pid, and sleeps in between *)
(* before its child is on the task list.  The search holds lastpid_lock    *)
(* and tasklist_lock: one action is one pass over the list, and nothing    *)
(* else happens between two passes.                                        *)
(***************************************************************************)
EXTENDS Integers, FiniteSets

CONSTANTS
  Task,      \* task_struct addresses
  InitTask,  \* process 1
  NoTask,    \* a null pointer
  PID_MAX,   \* 0x8000
  Reserved   \* 300: pids below it are handed out in the first round only

ASSUME TaskAssumption == InitTask \in Task /\ NoTask \notin Task
ASSUME PidAssumption == /\ PID_MAX \in Nat /\ Reserved \in Nat
                        /\ 1 < Reserved /\ Reserved < PID_MAX

VARIABLES
  last_pid, next_safe,
  beginpid,  \* last_pid when the search began, 0 outside a search
  id,        \* pid, pgrp, tgid and session of each task_struct
  listed,    \* the task list, without the swapper; its order is not kept
  pc,        \* where each task is
  child,     \* the child a fork is making
  unsound    \* history: the pids were exhausted, or came round during a fork

counter == <<last_pid, next_safe, beginpid>>
vars == <<counter, id, listed, pc, child, unsound>>

NoIds == [pid |-> 0, pgrp |-> 0, tgid |-> 0, session |-> 0]
(* IdsWithoutThreads forgets that a thread keeps its leader's pid in use. *)
IdsWithoutThreads(t) == {id[t].pid, id[t].pgrp, id[t].session}
Ids(t) == {id[t].pid, id[t].pgrp, id[t].tgid, id[t].session}
Used == UNION {Ids(t) : t \in listed}
Pids == 0..(PID_MAX - 1)
IdRecord == [pid : Pids, pgrp : Pids, tgid : Pids, session : Pids]

InFlight == {t \in Task : pc[t] = "fork"}
NoSearch == \A t \in Task : pc[t] # "search"
Enter(t) == NoSearch /\ t \in listed /\ pc[t] = "user"
Goto(t, where) == pc' = [pc EXCEPT ![t] = where]

(* The counter goes round.  BumpTooFar lets it reach PID_MAX. *)
BumpTooFar(pid) == IF pid + 1 > PID_MAX THEN Reserved ELSE pid + 1
Bump(pid) == IF pid + 1 >= PID_MAX THEN Reserved ELSE pid + 1

(* n is the least of bound and the ids above pid: what a pass leaves in next_safe. *)
NextUsed(n, pid, ids, bound) ==
  /\ n \in {bound} \cup {x \in ids : x > pid}
  /\ n <= bound
  /\ \A x \in ids : x > pid => n <= x

----------------------------------------------------------------------------
(* do_fork up to get_pid, and get_pid up to its search. *)

Take(t, pid) ==
  /\ id' = [id EXCEPT ![child'[t]] = [id[t] EXCEPT !.pid = pid]]
  /\ Goto(t, "fork")

(* Once the pids are unsound nothing more is promised, and nobody forks. *)
Copy(t, c) ==
  /\ Enter(t) /\ ~unsound
  /\ c \in Task \ listed /\ \A s \in Task : child[s] # c
  /\ child' = [child EXCEPT ![t] = c]
  /\ UNCHANGED listed

(* TakeNextOrEqual searches one pid too late. *)
TakeNextOrEqual(t, c) ==
  /\ Copy(t, c)
  /\ last_pid + 1 < PID_MAX /\ last_pid + 1 <= next_safe
  /\ last_pid' = last_pid + 1
  /\ Take(t, last_pid + 1)
  /\ UNCHANGED <<next_safe, beginpid, unsound>>

(* The pid below next_safe is free: no search. *)
TakeNext(t, c) ==
  /\ Copy(t, c)
  /\ last_pid + 1 < PID_MAX /\ last_pid + 1 < next_safe
  /\ last_pid' = last_pid + 1
  /\ Take(t, last_pid + 1)
  /\ UNCHANGED <<next_safe, beginpid, unsound>>

Search(t, c) ==
  /\ Copy(t, c)
  /\ last_pid + 1 >= PID_MAX \/ last_pid + 1 >= next_safe
  /\ last_pid' = Bump(last_pid)
  /\ next_safe' = PID_MAX
  /\ beginpid' = last_pid
  /\ id' = [id EXCEPT ![c] = [id[t] EXCEPT !.pid = 0]]
  /\ Goto(t, "search")
  /\ unsound' = (unsound \/ (last_pid' <= last_pid /\ InFlight # {}))

(* SearchFoundPidsOnly overlooks groups and sessions when it sets the cache. *)
SearchFoundPidsOnly(t) ==
  /\ pc[t] = "search"
  /\ last_pid \notin Used
  /\ next_safe' \in 1..PID_MAX
  /\ NextUsed(next_safe', last_pid, {id[p].pid : p \in listed}, next_safe)
  /\ beginpid' = 0
  /\ UNCHANGED <<last_pid, listed, child, unsound>>
  /\ Take(t, last_pid)

(* A whole pass meets nobody with the pid. *)
SearchFound(t) ==
  /\ pc[t] = "search"
  /\ last_pid \notin Used
  /\ next_safe' \in 1..PID_MAX
  /\ NextUsed(next_safe', last_pid, Used, next_safe)
  /\ beginpid' = 0
  /\ UNCHANGED <<last_pid, listed, child, unsound>>
  /\ Take(t, last_pid)

(* The pass ends at a task with the pid, after it has seen some others. *)
Advance(seen) ==
  /\ last_pid' = Bump(last_pid)
  /\ \E safe \in 1..PID_MAX :
       /\ NextUsed(safe, last_pid, UNION {Ids(p) : p \in seen}, next_safe)
       /\ next_safe' = IF last_pid + 1 >= safe THEN PID_MAX ELSE safe

Hit(t) ==
  /\ pc[t] = "search"
  /\ \E seen \in SUBSET {p \in listed : last_pid \notin Ids(p)} : Advance(seen)
  /\ last_pid \in Used
  /\ UNCHANGED listed

(* NeverRound and TooSoon end the search never, and one pid early. *)
NeverRound == FALSE
TooSoon == last_pid' + 1 >= beginpid

(* last_pid has come round to beginpid: nomorepids. *)
CameRound == last_pid' = beginpid

SearchOn(t) ==
  /\ Hit(t) /\ ~CameRound
  /\ unsound' = (unsound \/ (last_pid' <= last_pid /\ InFlight # {}))
  /\ UNCHANGED <<beginpid, id, pc, child>>

NoMorePids(t) ==
  /\ Hit(t) /\ CameRound
  /\ beginpid' = 0
  /\ unsound' = TRUE
  /\ id' = [id EXCEPT ![child[t]] = NoIds]
  /\ child' = [child EXCEPT ![t] = NoTask]
  /\ Goto(t, "user")

----------------------------------------------------------------------------
(* The end of do_fork, which may have slept meanwhile, and its failure. *)

ForkEnd(t, thread) ==
  LET p == child[t] IN
  /\ NoSearch /\ pc[t] = "fork"
  /\ id' = [id EXCEPT ![p].tgid = IF thread THEN id[t].tgid ELSE id[p].pid]
  /\ listed' = listed \cup {p}
  /\ pc' = [pc EXCEPT ![t] = "user", ![p] = "user"]
  /\ child' = [child EXCEPT ![t] = NoTask]
  /\ UNCHANGED <<counter, unsound>>

ForkFail(t) ==
  /\ NoSearch /\ pc[t] = "fork"
  /\ id' = [id EXCEPT ![child[t]] = NoIds]
  /\ child' = [child EXCEPT ![t] = NoTask]
  /\ Goto(t, "user")
  /\ UNCHANGED <<counter, listed, unsound>>

(* A zombie stays on the list with all its ids. *)
Exit(t) ==
  /\ Enter(t) /\ t # InitTask
  /\ Goto(t, "zombie")
  /\ UNCHANGED <<counter, id, listed, child, unsound>>

release_task(t) ==
  /\ NoSearch /\ pc[t] = "zombie"
  /\ listed' = listed \ {t}
  /\ id' = [id EXCEPT ![t] = NoIds]
  /\ Goto(t, "none")
  /\ UNCHANGED <<counter, child, unsound>>

daemonize(t) ==
  /\ Enter(t)
  /\ id' = [id EXCEPT ![t].session = 1, ![t].pgrp = 1]
  /\ UNCHANGED <<counter, listed, pc, child, unsound>>

(* setpgid and setsid of kernel/sys.c, called by the task itself. *)
setpgid(t, pgid) ==
  /\ Enter(t)
  /\ id[t].session # id[t].pid
  /\ \/ pgid = id[t].pid
     \/ \E p \in listed : id[p].pgrp = pgid /\ id[p].session = id[t].session
  /\ id' = [id EXCEPT ![t].pgrp = pgid]
  /\ UNCHANGED <<counter, listed, pc, child, unsound>>

setsid(t) ==
  /\ Enter(t)
  /\ \A p \in listed : id[p].pgrp # id[t].pid
  /\ id' = [id EXCEPT ![t].session = id[t].pid, ![t].pgrp = id[t].pid]
  /\ UNCHANGED <<counter, listed, pc, child, unsound>>

----------------------------------------------------------------------------
(* Process 1 has called setsid. *)
Init ==
  /\ last_pid = 1 /\ next_safe = PID_MAX /\ beginpid = 0
  /\ id = [t \in Task |-> IF t # InitTask THEN NoIds
                           ELSE [pid |-> 1, pgrp |-> 1, tgid |-> 1, session |-> 1]]
  /\ listed = {InitTask}
  /\ pc = [t \in Task |-> IF t = InitTask THEN "user" ELSE "none"]
  /\ child = [t \in Task |-> NoTask]
  /\ unsound = FALSE

Step(t) ==
  \/ \E c \in Task : TakeNext(t, c) \/ Search(t, c)
  \/ SearchFound(t) \/ SearchOn(t) \/ NoMorePids(t)
  \/ \E thread \in BOOLEAN : ForkEnd(t, thread)
  \/ ForkFail(t) \/ Exit(t) \/ release_task(t)
  \/ daemonize(t) \/ setsid(t) \/ \E pgid \in Pids : setpgid(t, pgid)

Next == \E t \in Task : Step(t)

Spec == Init /\ [][Next]_vars

----------------------------------------------------------------------------
TypeOK ==
  /\ {last_pid, beginpid} \subseteq Pids /\ next_safe \in 1..PID_MAX
  /\ id \in [Task -> IdRecord]
  /\ listed \in SUBSET Task
  /\ pc \in [Task -> {"none", "user", "search", "fork", "zombie"}]
  /\ child \in [Task -> Task \cup {NoTask}]
  /\ unsound \in BOOLEAN

(* No two processes have one pid, whether on the list or still being forked,
   however the forks sleep and wherever the counter is.                      *)
Holders == listed \cup {child[t] : t \in InFlight}

UniquePids ==
  ~unsound => \A s, t \in Holders : s # t => id[s].pid # id[t].pid

(* The cache tells the truth: between last_pid and next_safe no pid, group,
   thread group or session is in use, although the list has changed since.    *)
InUse(pid) ==
  \E p \in listed : \/ id[p].pid = pid \/ id[p].pgrp = pid
                    \/ id[p].tgid = pid \/ id[p].session = pid

CacheSound ==
  ~unsound /\ NoSearch => \A pid \in (last_pid + 1)..(next_safe - 1) : ~InUse(pid)

(* A new pid is nobody's group or session: no signal to a group whose leader is
   gone can reach the newcomer.                                               *)
FreshPid ==
  [][~unsound' => \A t \in Task : pc[t] # "fork" /\ pc'[t] = "fork" =>
       LET pid == id'[child'[t]].pid IN pid # 0 /\ ~InUse(pid)]_vars

(* get_pid gives up only if every pid of the later rounds is taken, but for the
   one handed out last, which it does not try.                                 *)
GivesUpWhenFull ==
  [][\A t \in Task : pc[t] = "search" /\ pc'[t] = "user" =>
       \A pid \in Reserved..(PID_MAX - 1) : InUse(pid) \/ pid = beginpid]_vars

(* Every search ends: each pass that fails brings last_pid one step closer to
   beginpid on the round, and none goes past it, although the pids below Reserved
   are on no later round.                                                        *)
StepsLeft == IF last_pid <= beginpid THEN beginpid - last_pid
             ELSE beginpid - last_pid + PID_MAX - Reserved

SearchProgresses ==
  [][\A t \in Task : pc[t] = "search" /\ pc'[t] = "search" =>
                       StepsLeft' < StepsLeft /\ 0 <= StepsLeft']_vars
============================================================================
