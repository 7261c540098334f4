---------------------------- MODULE GetPidProofs ----------------------------
(***************************************************************************)
(* What GetPid promises, for every set of tasks, every range of pids and   *)
(* every interleaving of forks.                                            *)
(***************************************************************************)
EXTENDS GetPid, TLAPS

Calling == {"search", "fork"}

(* Who is on the list, who has a child in the making, and that the locks admit
   one search.                                                                *)
Shape ==
  /\ \A t \in Task : t \in listed <=> pc[t] # "none"
  /\ \A t \in Task : child[t] # NoTask <=> pc[t] \in Calling
  /\ \A t \in Task : child[t] \notin listed
  /\ \A s, t \in Task : child[s] = child[t] /\ child[s] # NoTask => s = t
  /\ \A s, t \in Task : pc[s] = "search" /\ pc[t] = "search" => s = t

(* What a search leaves behind is in use, and it never meets beginpid again. *)
Passed(pid) == IF beginpid < last_pid THEN beginpid < pid /\ pid < last_pid
               ELSE beginpid < pid \/ pid < last_pid

Round ==
  /\ 1 <= last_pid
  /\ NoSearch /\ last_pid < Reserved => next_safe = PID_MAX
  /\ ~NoSearch =>
       /\ Reserved <= beginpid /\ Reserved <= last_pid
       /\ last_pid # beginpid \/ Reserved + 1 = PID_MAX
       /\ \A pid \in Reserved..(PID_MAX - 1) : Passed(pid) => InUse(pid)

(* A child in the making has a pid behind the counter and, for the rest, ids of
   its parent, who is on the list.                                              *)
Made ==
  ~unsound => \A t \in InFlight :
    /\ id[child[t]].pid <= last_pid
    /\ ~NoSearch => id[child[t]].pid < last_pid
    /\ id[child[t]].pgrp = id[t].pgrp
    /\ id[child[t]].session = id[t].session

Base == TypeOK /\ Shape
IInv == Base /\ Round /\ Made /\ CacheSound /\ UniquePids
----------------------------------------------------------------------------
LEMMA UsedIsInUse == \A pid : pid \in Used <=> InUse(pid)
BY DEF Used, InUse, Ids

LEMMA BumpBounds ==
  ASSUME NEW pid \in Pids
  PROVE  /\ Bump(pid) \in Pids
         /\ pid + 1 < PID_MAX => Bump(pid) = pid + 1
         /\ pid + 1 >= PID_MAX => Bump(pid) = Reserved /\ pid = PID_MAX - 1
BY PidAssumption DEF Bump, Pids

(* The ids that tasks are given have the type of ids. *)
LEMMA IdTypes ==
  /\ NoIds \in IdRecord
  /\ [pid |-> 1, pgrp |-> 1, tgid |-> 1, session |-> 1] \in IdRecord
  /\ \A r \in IdRecord, pid \in Pids : [r EXCEPT !.pid = pid] \in IdRecord
  /\ \A r \in IdRecord, pid \in Pids :
        [r EXCEPT !.session = pid, !.pgrp = pid] \in IdRecord
  /\ 1 \in Pids /\ 0 \in Pids
<1>1. 1 \in Pids /\ 0 \in Pids
  BY PidAssumption DEF Pids
<1>2. NoIds \in IdRecord
  BY <1>1 DEF IdRecord, NoIds
<1>3. [pid |-> 1, pgrp |-> 1, tgid |-> 1, session |-> 1] \in IdRecord
  BY <1>1 DEF IdRecord
<1>4. \A r \in IdRecord, pid \in Pids :
        /\ [r EXCEPT !.pid = pid] \in IdRecord
        /\ [r EXCEPT !.session = pid, !.pgrp = pid] \in IdRecord
  BY DEF IdRecord
<1> QED
  BY <1>1, <1>2, <1>3, <1>4

(* What the steps that begin a fork have in common. *)
LEMMA CopyTypes ==
  ASSUME Base, NEW t \in Task, NEW c \in Task, Copy(t, c)
  PROVE  /\ child' \in [Task -> Task \cup {NoTask}] /\ child'[t] = c
         /\ c # t /\ c \notin listed /\ t \in listed /\ pc[t] = "user" /\ pc[c] = "none"
         /\ \A s \in Task \ {t} : child'[s] = child[s] /\ child[s] # c
         /\ child[t] = NoTask
BY TaskAssumption DEF Base, TypeOK, Shape, Copy, Enter, Calling

LEMMA InitBase == Init => Base
<1> SUFFICES ASSUME Init PROVE Base
  OBVIOUS
<1>1. TypeOK
  <2>1. last_pid \in Pids /\ beginpid \in Pids /\ next_safe \in 1..PID_MAX
    BY PidAssumption DEF Init, Pids
  <2>2. id \in [Task -> IdRecord]
    BY IdTypes DEF Init
  <2> QED
    BY <2>1, <2>2, TaskAssumption DEF Init, TypeOK
<1>2. Shape
  BY TaskAssumption DEF Init, Shape, Calling
<1> QED
  BY <1>1, <1>2 DEF Base

(* A pid goes to the child: the ids keep their type. *)
LEMMA TakeTypes ==
  ASSUME Base, NEW t \in Task, NEW pid \in Pids, Take(t, pid), child'[t] \in Task
  PROVE  /\ id' \in [Task -> IdRecord]
         /\ id'[child'[t]] = [id[t] EXCEPT !.pid = pid]
         /\ \A s \in Task \ {child'[t]} : id'[s] = id[s]
         /\ pc' = [pc EXCEPT ![t] = "fork"]
BY IdTypes DEF Base, TypeOK, Take, Goto

LEMMA TypeStep == Base /\ [Next]_vars => TypeOK'
<1> SUFFICES ASSUME Base, [Next]_vars PROVE TypeOK'
  OBVIOUS
<1> USE PidAssumption, TaskAssumption
<1>1. ASSUME NEW t \in Task, NEW c \in Task, TakeNext(t, c) PROVE TypeOK'
  <2>1. last_pid + 1 \in Pids
    BY <1>1 DEF TakeNext, Base, TypeOK, Pids
  <2>2. Take(t, last_pid + 1) /\ Copy(t, c)
    BY <1>1 DEF TakeNext
  <2>3. child' \in [Task -> Task \cup {NoTask}] /\ child'[t] = c
    BY <2>2, CopyTypes
  <2>4. /\ id' \in [Task -> IdRecord]
        /\ pc' = [pc EXCEPT ![t] = "fork"]
    BY <2>1, <2>2, <2>3, TakeTypes
  <2> QED
    BY <1>1, <2>1, <2>3, <2>4 DEF TakeNext, Copy, Base, TypeOK
<1>2. ASSUME NEW t \in Task, NEW c \in Task, Search(t, c) PROVE TypeOK'
  <2>1. child' \in [Task -> Task \cup {NoTask}]
    BY <1>2, CopyTypes DEF Search
  <2>2. last_pid' \in Pids
    BY <1>2, BumpBounds DEF Search, Base, TypeOK
  <2>3. id' \in [Task -> IdRecord]
    BY <1>2 DEF Search, Base, TypeOK, Pids, IdRecord
  <2> QED
    BY <1>2, <2>1, <2>2, <2>3 DEF Search, Copy, Goto, Base, TypeOK
<1>3. ASSUME NEW t \in Task, SearchFound(t) PROVE TypeOK'
  <2>1. child'[t] \in Task /\ last_pid \in Pids
    BY <1>3 DEF SearchFound, Base, TypeOK, Shape, Calling
  <2>2. /\ id' \in [Task -> IdRecord]
        /\ pc' = [pc EXCEPT ![t] = "fork"]
    BY <1>3, <2>1, TakeTypes DEF SearchFound
  <2> QED
    BY <1>3, <2>2 DEF SearchFound, Base, TypeOK, Pids
<1>4. ASSUME NEW t \in Task, Hit(t) PROVE last_pid' \in Pids /\ next_safe' \in 1..PID_MAX
  BY <1>4, BumpBounds DEF Hit, Advance, Base, TypeOK
<1>5. ASSUME NEW t \in Task, SearchOn(t) PROVE TypeOK'
  BY <1>4, <1>5 DEF SearchOn, Hit, Base, TypeOK
<1>6. ASSUME NEW t \in Task, NoMorePids(t) PROVE TypeOK'
  BY <1>4, <1>6, IdTypes DEF NoMorePids, Hit, Goto, Base, TypeOK, Pids
<1>7. ASSUME NEW t \in Task, NEW thread \in BOOLEAN, ForkEnd(t, thread) PROVE TypeOK'
  <2>1. child[t] \in Task
    BY <1>7 DEF ForkEnd, Base, TypeOK, Shape, Calling
  <2> QED
    BY <1>7, <2>1 DEF ForkEnd, counter, Base, TypeOK, IdRecord
<1>8. ASSUME NEW t \in Task, ForkFail(t) PROVE TypeOK'
  BY <1>8, IdTypes DEF ForkFail, Goto, counter, Base, TypeOK, Pids
<1>9. ASSUME NEW t \in Task, Exit(t) PROVE TypeOK'
  BY <1>9 DEF Exit, Goto, counter, Base, TypeOK
<1>10. ASSUME NEW t \in Task, release_task(t) PROVE TypeOK'
  BY <1>10, IdTypes DEF release_task, Goto, counter, Base, TypeOK, Pids
<1>11. ASSUME NEW t \in Task, daemonize(t) PROVE TypeOK'
  BY <1>11, IdTypes DEF daemonize, counter, Base, TypeOK, IdRecord
<1>12. ASSUME NEW t \in Task, setsid(t) PROVE TypeOK'
  BY <1>12 DEF setsid, counter, Base, TypeOK, IdRecord
<1>13. ASSUME NEW t \in Task, NEW pgid \in Pids, setpgid(t, pgid) PROVE TypeOK'
  BY <1>13 DEF setpgid, counter, Base, TypeOK, IdRecord
<1>14. CASE UNCHANGED vars
  BY <1>14 DEF vars, counter, Base, TypeOK
<1> QED
  BY <1>1, <1>2, <1>3, <1>5, <1>6, <1>7, <1>8, <1>9, <1>10, <1>11, <1>12, <1>13, <1>14
  DEF Next, Step

LEMMA CopyShape ==
  ASSUME Base, NEW t \in Task, NEW c \in Task, Copy(t, c),
         NEW where \in Calling, pc' = [pc EXCEPT ![t] = where]
  PROVE  Shape'
<1>1. /\ child' \in [Task -> Task \cup {NoTask}] /\ child'[t] = c
      /\ c # t /\ c \notin listed /\ t \in listed /\ pc[t] = "user" /\ pc[c] = "none"
      /\ \A s \in Task \ {t} : child'[s] = child[s] /\ child[s] # c
      /\ child[t] = NoTask
  BY CopyTypes
<1>2. pc'[t] = where /\ \A s \in Task \ {t} : pc'[s] = pc[s]
  BY DEF Base, TypeOK
<1>3. listed' = listed
  BY DEF Copy
<1>4. \A s \in Task : pc[s] # "search"
  BY DEF Copy, Enter, NoSearch
<1>5. \A s \in Task : s \in listed' <=> pc'[s] # "none"
  BY <1>1, <1>2, <1>3 DEF Base, Shape, Calling
<1>6. \A s \in Task : child'[s] # NoTask <=> pc'[s] \in Calling
  BY <1>1, <1>2, TaskAssumption DEF Base, Shape
<1>7. \A s \in Task : child'[s] \notin listed'
  BY <1>1, <1>3 DEF Base, Shape
<1>8. \A r, s \in Task : child'[r] = child'[s] /\ child'[r] # NoTask => r = s
  BY <1>1 DEF Base, Shape
<1>9. \A r, s \in Task : pc'[r] = "search" /\ pc'[s] = "search" => r = s
  BY <1>2, <1>4
<1> QED
  BY <1>5, <1>6, <1>7, <1>8, <1>9 DEF Shape

LEMMA ShapeStep == Base /\ [Next]_vars => Shape'
<1> SUFFICES ASSUME Base, [Next]_vars PROVE Shape'
  OBVIOUS
<1> USE TaskAssumption DEF Shape, Calling
<1>1. ASSUME NEW t \in Task, NEW c \in Task, TakeNext(t, c) PROVE Shape'
  <2>1. Copy(t, c) /\ pc' = [pc EXCEPT ![t] = "fork"]
    BY <1>1 DEF TakeNext, Take, Goto
  <2> QED
    BY <2>1, CopyShape
<1>2. ASSUME NEW t \in Task, NEW c \in Task, Search(t, c) PROVE Shape'
  <2>1. Copy(t, c) /\ pc' = [pc EXCEPT ![t] = "search"]
    BY <1>2 DEF Search, Goto
  <2> QED
    BY <2>1, CopyShape
<1>3. ASSUME NEW t \in Task, SearchFound(t) PROVE Shape'
  BY <1>3 DEF SearchFound, Take, Goto, Base, TypeOK
<1>4. ASSUME NEW t \in Task, SearchOn(t) PROVE Shape'
  BY <1>4 DEF SearchOn, Hit, Base, TypeOK
<1>5. ASSUME NEW t \in Task, NoMorePids(t) PROVE Shape'
  BY <1>5 DEF NoMorePids, Hit, Goto, Base, TypeOK
<1>6. ASSUME NEW t \in Task, NEW thread \in BOOLEAN, ForkEnd(t, thread) PROVE Shape'
  BY <1>6 DEF ForkEnd, Base, TypeOK
<1>7. ASSUME NEW t \in Task, ForkFail(t) PROVE Shape'
  BY <1>7 DEF ForkFail, Goto, Base, TypeOK
<1>8. ASSUME NEW t \in Task, Exit(t) PROVE Shape'
  BY <1>8 DEF Exit, Enter, Goto, Base, TypeOK
<1>9. ASSUME NEW t \in Task, release_task(t) PROVE Shape'
  BY <1>9 DEF release_task, Goto, Base, TypeOK
<1>10. ASSUME NEW t \in Task, daemonize(t) PROVE Shape'
  BY <1>10 DEF daemonize, Base
<1>11. ASSUME NEW t \in Task, setsid(t) PROVE Shape'
  BY <1>11 DEF setsid, Base
<1>12. ASSUME NEW t \in Task, NEW pgid \in Pids, setpgid(t, pgid) PROVE Shape'
  BY <1>12 DEF setpgid, Base
<1>13. CASE UNCHANGED vars
  BY <1>13 DEF vars, Base
<1> QED
  BY <1>1, <1>2, <1>3, <1>4, <1>5, <1>6, <1>7, <1>8, <1>9, <1>10, <1>11, <1>12, <1>13
  DEF Next, Step

(* Type correctness, with the shape of the list and of the forks. *)
THEOREM TypeCorrect == Spec => []TypeOK
<1>1. Init => Base
  BY InitBase
<1>2. Base /\ [Next]_vars => Base'
  BY TypeStep, ShapeStep DEF Base
<1>3. Base => TypeOK
  BY DEF Base
<1> QED
  BY <1>1, <1>2, <1>3, PTL DEF Spec

----------------------------------------------------------------------------
(* The round of the counter. *)

LEMMA InitRound == Init => Round
BY PidAssumption DEF Init, Round, NoSearch

(* A pass that fails puts one more pid behind it. *)
LEMMA PassedOne ==
  ASSUME Base, Round, NEW t \in Task, Hit(t)
  PROVE  /\ last_pid' = Bump(last_pid)
         /\ \A pid \in Reserved..(PID_MAX - 1) :
              Passed(pid) \/ pid = last_pid => InUse(pid)
         /\ Reserved <= beginpid /\ Reserved <= last_pid
         /\ last_pid # beginpid \/ Reserved + 1 = PID_MAX
BY UsedIsInUse DEF Hit, Advance, Round, NoSearch

LEMMA RoundStep == Base /\ Round /\ [Next]_vars => Round'
<1> SUFFICES ASSUME Base, Round, [Next]_vars PROVE Round'
  OBVIOUS
<1>0. last_pid \in Int /\ beginpid \in Int /\ PID_MAX \in Int /\ Reserved \in Int
  BY PidAssumption DEF Base, TypeOK, Pids
<1>1. ASSUME NEW t \in Task, NEW c \in Task, TakeNext(t, c) PROVE Round'
  <2>1. NoSearch /\ NoSearch'
    BY <1>1 DEF TakeNext, Copy, Enter, Take, Goto, NoSearch, Base, TypeOK
  <2>2. last_pid' = last_pid + 1 /\ next_safe' = next_safe
    BY <1>1 DEF TakeNext
  <2> QED
    BY <1>0, <2>1, <2>2 DEF Round
<1>2. ASSUME NEW t \in Task, NEW c \in Task, Search(t, c) PROVE Round'
  <2>1. NoSearch
    BY <1>2 DEF Search, Copy, Enter
  <2>2. ~NoSearch'
    BY <1>2 DEF Search, Goto, NoSearch, Base, TypeOK
  <2>3. beginpid' = last_pid /\ last_pid' = Bump(last_pid)
    BY <1>2 DEF Search
  <2>4. Reserved <= last_pid /\ last_pid \in Pids
    BY <1>0, <1>2, <2>1, PidAssumption DEF Search, Round, Base, TypeOK
  <2>5. \/ last_pid' = last_pid + 1
        \/ last_pid' = Reserved /\ last_pid = PID_MAX - 1
    BY <2>3, <2>4, BumpBounds, PidAssumption DEF Pids
  <2>6. \A pid \in Reserved..(PID_MAX - 1) : ~Passed(pid)'
    BY <1>0, <2>3, <2>4, <2>5 DEF Passed
  <2>7. /\ Reserved <= beginpid' /\ Reserved <= last_pid' /\ 1 <= last_pid'
        /\ last_pid' # beginpid' \/ Reserved + 1 = PID_MAX
    BY <1>0, <2>3, <2>4, <2>5, PidAssumption
  <2> QED
    BY <2>2, <2>6, <2>7 DEF Round
<1>3. ASSUME NEW t \in Task, SearchFound(t) PROVE Round'
  <2>1. Reserved <= last_pid /\ last_pid' = last_pid
    BY <1>3 DEF SearchFound, Round, NoSearch
  <2>2. NoSearch'
    BY <1>3 DEF SearchFound, Take, Goto, NoSearch, Base, TypeOK, Shape
  <2> QED
    BY <1>0, <2>1, <2>2, PidAssumption DEF Round
<1>4. ASSUME NEW t \in Task, SearchOn(t) PROVE Round'
  <2>1. Hit(t) /\ last_pid' # beginpid /\ beginpid' = beginpid
    BY <1>4 DEF SearchOn, CameRound
  <2>2. /\ last_pid' = Bump(last_pid) /\ last_pid \in Pids
        /\ \A pid \in Reserved..(PID_MAX - 1) :
              Passed(pid) \/ pid = last_pid => InUse(pid)
        /\ Reserved <= beginpid /\ Reserved <= last_pid
        /\ last_pid # beginpid \/ Reserved + 1 = PID_MAX
    BY <2>1, PassedOne DEF Base, TypeOK
  <2>3. \/ last_pid' = last_pid + 1 /\ last_pid + 1 < PID_MAX
        \/ last_pid' = Reserved /\ last_pid = PID_MAX - 1
    BY <2>2, BumpBounds, PidAssumption DEF Pids
  <2>4. \A pid \in Reserved..(PID_MAX - 1) : Passed(pid)' => Passed(pid) \/ pid = last_pid
    BY <1>0, <2>1, <2>2, <2>3 DEF Passed
  <2>5. \A pid : InUse(pid)' = InUse(pid)
    BY <1>4 DEF SearchOn, Hit, InUse
  <2>6. Reserved <= last_pid' /\ 1 <= last_pid' /\ (NoSearch' <=> NoSearch)
    BY <1>0, <1>4, <2>2, <2>3, PidAssumption DEF SearchOn, NoSearch
  <2>7. ~NoSearch
    BY <2>1 DEF Hit, NoSearch
  <2> QED
    BY <2>1, <2>2, <2>4, <2>5, <2>6, <2>7 DEF Round
<1>5. ASSUME NEW t \in Task, NoMorePids(t) PROVE Round'
  <2>1. Hit(t) /\ last_pid' = beginpid
    BY <1>5 DEF NoMorePids, CameRound
  <2>2. NoSearch'
    BY <1>5 DEF NoMorePids, Hit, Goto, NoSearch, Base, TypeOK, Shape
  <2>3. Reserved <= last_pid'
    BY <2>1, PassedOne
  <2> QED
    BY <1>0, <2>1, <2>2, <2>3, PidAssumption DEF Round
<1>6. ASSUME UNCHANGED counter, NoSearch, NoSearch' PROVE Round'
  BY <1>6 DEF counter, Round
<1>7. ASSUME NEW t \in Task, NEW thread \in BOOLEAN, ForkEnd(t, thread) PROVE Round'
  <2>1. UNCHANGED counter /\ NoSearch /\ NoSearch'
    BY <1>7 DEF ForkEnd, NoSearch, Base, TypeOK
  <2> QED
    BY <1>6, <2>1
<1>8. ASSUME NEW t \in Task, ForkFail(t) \/ Exit(t) \/ release_task(t) PROVE Round'
  <2>1. UNCHANGED counter /\ NoSearch /\ NoSearch'
    BY <1>8 DEF ForkFail, Exit, release_task, Enter, Goto, NoSearch, Base, TypeOK
  <2> QED
    BY <1>6, <2>1
<1>9. ASSUME NEW t \in Task, \/ daemonize(t) \/ setsid(t)
                             \/ \E pgid \in Pids : setpgid(t, pgid)
      PROVE  Round'
  <2>1. UNCHANGED counter /\ NoSearch /\ NoSearch'
    BY <1>9 DEF daemonize, setsid, setpgid, Enter, NoSearch
  <2> QED
    BY <1>6, <2>1
<1>10. CASE UNCHANGED vars
  <2>1. Round' <=> Round
    BY <1>10 DEF vars, counter, Round, NoSearch, Passed, InUse
  <2> QED
    BY <2>1
<1> QED
  BY <1>1, <1>2, <1>3, <1>4, <1>5, <1>7, <1>8, <1>9, <1>10 DEF Next, Step

LEMMA BaseRound == Spec => [](Base /\ Round)
<1>1. Init => Base /\ Round
  BY InitBase, InitRound
<1>2. Base /\ Round /\ [Next]_vars => (Base /\ Round)'
  BY TypeStep, ShapeStep, RoundStep DEF Base
<1> QED
  BY <1>1, <1>2, PTL DEF Spec

(* While a task searches only its search takes steps. *)
LEMMA SearchSteps ==
  ASSUME Base, [Next]_vars, NEW t \in Task, pc[t] = "search", pc'[t] # "search" \/ ~UNCHANGED vars
  PROVE  SearchFound(t) \/ SearchOn(t) \/ NoMorePids(t)
<1>1. ~NoSearch
  BY DEF NoSearch
<1>2. ~UNCHANGED vars
  BY DEF vars
<1>3. PICK s \in Task : Step(s)
  BY <1>2 DEF Next
<1>4. SearchFound(s) \/ SearchOn(s) \/ NoMorePids(s)
  BY <1>1, <1>3
  DEF Step, TakeNext, Search, Copy, Enter, ForkEnd, ForkFail, Exit, release_task,
      daemonize, setsid, setpgid
<1>5. pc[s] = "search"
  BY <1>4 DEF SearchFound, SearchOn, NoMorePids, Hit
<1>6. s = t
  BY <1>5 DEF Base, Shape
<1> QED
  BY <1>4, <1>6

(* get_pid returns 0 only if every pid of the later rounds is taken, whatever
   the other tasks have forked, reaped or changed before.                     *)
THEOREM FailsOnlyWhenFull == Spec => GivesUpWhenFull
<1> DEFINE GaveUp ==
      \A t \in Task : pc[t] = "search" /\ pc'[t] = "user" =>
        \A pid \in Reserved..(PID_MAX - 1) : InUse(pid) \/ pid = beginpid
<1>1. ASSUME Base, Round, [Next]_vars, NEW t \in Task, pc[t] = "search", pc'[t] = "user"
      PROVE  \A pid \in Reserved..(PID_MAX - 1) : InUse(pid) \/ pid = beginpid
  <2>1. NoMorePids(t)
    BY <1>1, SearchSteps DEF SearchFound, SearchOn, Take, Goto, Base, TypeOK
  <2>2. Hit(t) /\ last_pid' = beginpid
    BY <2>1 DEF NoMorePids, CameRound
  <2>3. /\ last_pid' = Bump(last_pid) /\ last_pid \in Pids /\ beginpid \in Pids
        /\ \A pid \in Reserved..(PID_MAX - 1) :
              Passed(pid) \/ pid = last_pid => InUse(pid)
        /\ Reserved <= beginpid /\ Reserved <= last_pid
        /\ last_pid # beginpid \/ Reserved + 1 = PID_MAX
    BY <1>1, <2>2, PassedOne DEF Base, TypeOK
  <2>4. \/ beginpid = last_pid + 1
        \/ beginpid = Reserved /\ last_pid = PID_MAX - 1
    BY <2>2, <2>3, BumpBounds, PidAssumption DEF Pids
  <2>5. \A pid \in Reserved..(PID_MAX - 1) :
          Passed(pid) \/ pid = last_pid \/ pid = beginpid
    BY <2>3, <2>4, PidAssumption DEF Passed, Pids
  <2> QED
    BY <2>3, <2>5
<1>2. Base /\ Round /\ [Next]_vars => [GaveUp]_vars
  BY <1>1
<1> QED
  BY <1>2, BaseRound, PTL DEF Spec, GivesUpWhenFull

(* A search ends: every pass that fails leaves fewer steps to beginpid. *)
THEOREM SearchEnds == Spec => SearchProgresses
<1> DEFINE Nearer ==
      \A t \in Task : pc[t] = "search" /\ pc'[t] = "search" =>
        StepsLeft' < StepsLeft /\ 0 <= StepsLeft'
<1>1. ASSUME Base, Round, [Next]_vars, ~UNCHANGED vars,
             NEW t \in Task, pc[t] = "search", pc'[t] = "search"
      PROVE  StepsLeft' < StepsLeft /\ 0 <= StepsLeft'
  <2>1. SearchOn(t)
    BY <1>1, SearchSteps DEF SearchFound, NoMorePids, Take, Goto, Base, TypeOK
  <2>2. Hit(t) /\ last_pid' # beginpid /\ beginpid' = beginpid
    BY <2>1 DEF SearchOn, CameRound
  <2>3. /\ last_pid' = Bump(last_pid) /\ last_pid \in Pids /\ beginpid \in Pids
        /\ Reserved <= beginpid /\ Reserved <= last_pid
        /\ last_pid # beginpid \/ Reserved + 1 = PID_MAX
    BY <1>1, <2>2, PassedOne DEF Base, TypeOK
  <2>4. \/ last_pid' = last_pid + 1 /\ last_pid + 1 < PID_MAX
        \/ last_pid' = Reserved /\ last_pid = PID_MAX - 1
    BY <2>3, BumpBounds, PidAssumption DEF Pids
  <2>5. last_pid \in Int /\ beginpid \in Int /\ PID_MAX \in Int /\ Reserved \in Int
    BY <2>3, PidAssumption DEF Pids
  <2> QED
    BY <2>2, <2>3, <2>4, <2>5 DEF StepsLeft, Pids
<1>2. Base /\ Round /\ [Next]_vars => [Nearer]_vars
  BY <1>1
<1> QED
  BY <1>2, BaseRound, PTL DEF Spec, SearchProgresses

----------------------------------------------------------------------------
(* Unique pids.  Sound is what holds of the ids while nothing has gone wrong. *)
Sound == Made /\ CacheSound /\ UniquePids

(* The children in the making are not on the list, and no two forks share one. *)
LEMMA InFlightShape ==
  ASSUME Base, NEW t \in InFlight
  PROVE  /\ t \in Task /\ pc[t] = "fork" /\ t \in listed
         /\ child[t] \in Task \ listed
         /\ \A s \in InFlight : child[s] = child[t] => s = t
         /\ id[child[t]] \in IdRecord /\ id[t] \in IdRecord
BY DEF InFlight, Base, TypeOK, Shape, Calling

(* A pid that nobody on the list uses and that no child in the making has may be
   given to a new child: TakeNext and SearchFound.                              *)
LEMMA TakeSound ==
  ASSUME Base, Sound, NEW t \in Task, NEW pid \in Pids, ~unsound,
         Take(t, pid), listed' = listed, pc[t] # "fork", t \in listed,
         child'[t] \in Task \ listed,
         \A s \in InFlight : child'[s] = child[s] /\ child[s] # child'[t],
         ~InUse(pid), \A s \in InFlight : id[child[s]].pid < pid,
         last_pid' = pid, NoSearch'
  PROVE  Made' /\ UniquePids'
<1>1. /\ id' \in [Task -> IdRecord]
      /\ id'[child'[t]] = [id[t] EXCEPT !.pid = pid]
      /\ \A s \in Task \ {child'[t]} : id'[s] = id[s]
      /\ pc' = [pc EXCEPT ![t] = "fork"]
  BY TakeTypes
<1>2. InFlight' = InFlight \cup {t}
  BY <1>1 DEF InFlight, Base, TypeOK
<1>3. id[t] \in IdRecord /\ t # child'[t]
  BY DEF Base, TypeOK
<1>4. /\ id'[child'[t]].pid = pid /\ id'[child'[t]].pgrp = id[t].pgrp
      /\ id'[child'[t]].session = id[t].session
  BY <1>1, <1>3 DEF IdRecord
<1>5. \A s \in InFlight : /\ id'[s] = id[s] /\ id'[child'[s]] = id[child[s]]
                          /\ id[child[s]].pid \in Int /\ s # t
  BY <1>1, InFlightShape DEF IdRecord, Pids, InFlight
<1>6. Made'
  <2>1. ASSUME NEW s \in InFlight'
        PROVE  /\ id'[child'[s]].pid <= last_pid'
               /\ ~NoSearch' => id'[child'[s]].pid < last_pid'
               /\ id'[child'[s]].pgrp = id'[s].pgrp
               /\ id'[child'[s]].session = id'[s].session
    <3>1. CASE s = t
      <4>1. id'[t] = id[t]
        BY <1>1, <1>3
      <4>2. pid <= last_pid'
        BY DEF Pids
      <4> QED
        BY <1>4, <3>1, <4>1, <4>2
    <3>2. CASE s \in InFlight
      <4>1. id[child[s]].pgrp = id[s].pgrp /\ id[child[s]].session = id[s].session
        BY <3>2 DEF Sound, Made
      <4>2. id'[child'[s]] = id[child[s]] /\ id'[s] = id[s]
        BY <1>5, <3>2
      <4>3. id[child[s]].pid <= last_pid'
        BY <1>5, <3>2 DEF Pids
      <4> QED
        BY <4>1, <4>2, <4>3
    <3> QED
      BY <1>2, <2>1, <3>1, <3>2
  <2> QED
    BY <2>1 DEF Made
<1>7. UniquePids'
  <2>1. Holders' = Holders \cup {child'[t]}
    BY <1>2 DEF Holders
  <2>2. \A s \in Holders : id'[s] = id[s] /\ id[s].pid # pid
    BY <1>1, <1>5, InFlightShape DEF Holders, InUse, Base, TypeOK, Pids
  <2> QED
    BY <1>4, <2>1, <2>2 DEF Sound, UniquePids
<1> QED
  BY <1>6, <1>7

(* Outside get_pid: no child in the making changes, and whatever ids a task on the
   list has afterwards were in use before or are behind the counter.             *)
LEMMA QuietSound ==
  ASSUME Base, Sound, UNCHANGED <<counter, unsound>>, NoSearch, NoSearch',
         InFlight' \subseteq InFlight,
         \A s \in InFlight' : /\ child'[s] = child[s] /\ id'[s] = id[s]
                              /\ id'[child[s]] = id[child[s]],
         Holders' \subseteq Holders,
         \A s \in Holders' : id'[s].pid = id[s].pid,
         \A p \in listed' : \A x \in {id'[p].pid, id'[p].pgrp, id'[p].tgid, id'[p].session} :
           x <= last_pid \/ InUse(x)
  PROVE  Sound'
<1>1. Made'
  BY DEF Sound, Made, counter
<1>2. UniquePids'
  BY DEF Sound, UniquePids
<1>3. ASSUME ~unsound, NEW x \in (last_pid + 1)..(next_safe - 1), InUse(x)' PROVE FALSE
  <2>1. ~InUse(x)
    BY <1>3 DEF Sound, CacheSound
  <2>2. x <= last_pid
    BY <1>3, <2>1 DEF InUse
  <2>3. last_pid \in Int /\ next_safe \in Int
    BY DEF Base, TypeOK, Pids
  <2> QED
    BY <2>2, <2>3
<1>4. CacheSound'
  BY <1>3 DEF CacheSound, counter
<1> QED
  BY <1>1, <1>2, <1>4 DEF Sound

(* The counter goes on by one, or comes round with no child in the making. *)
LEMMA AdvanceSound ==
  ASSUME Base, Sound, ~NoSearch',
         last_pid' = Bump(last_pid),
         ~unsound' => ~unsound /\ ~(last_pid' <= last_pid /\ InFlight # {}),
         InFlight' = InFlight, Holders' = Holders,
         \A s \in InFlight : /\ child'[s] = child[s] /\ id'[s] = id[s]
                             /\ id'[child[s]] = id[child[s]],
         \A s \in Holders : id'[s] = id[s]
  PROVE  Sound'
<1>1. last_pid \in Pids
  BY DEF Base, TypeOK
<1>2. CacheSound'
  BY DEF CacheSound
<1>3. UniquePids'
  BY DEF Sound, UniquePids
<1>4. ASSUME ~unsound', NEW s \in InFlight
      PROVE  /\ id[child[s]].pid < last_pid'
             /\ id[child[s]].pgrp = id[s].pgrp /\ id[child[s]].session = id[s].session
  <2>1. last_pid' > last_pid /\ ~unsound
    BY <1>4, <1>1, BumpBounds, PidAssumption DEF Pids
  <2>2. /\ id[child[s]].pid <= last_pid
        /\ id[child[s]].pgrp = id[s].pgrp /\ id[child[s]].session = id[s].session
    BY <2>1 DEF Sound, Made
  <2>3. id[child[s]].pid \in Int /\ last_pid \in Int /\ last_pid' \in Int
    <3>1. id[child[s]] \in IdRecord
      BY InFlightShape
    <3>2. last_pid' \in Pids
      BY <1>1, BumpBounds
    <3> QED
      BY <1>1, <3>1, <3>2 DEF IdRecord, Pids
  <2> QED
    BY <2>1, <2>2, <2>3
<1>5. Made'
  <2>1. ASSUME ~unsound', NEW s \in InFlight'
        PROVE  /\ id'[child'[s]].pid < last_pid'
               /\ id'[child'[s]].pgrp = id'[s].pgrp
               /\ id'[child'[s]].session = id'[s].session
               /\ id'[child'[s]].pid \in Int /\ last_pid' \in Int
    <3>1. /\ s \in InFlight /\ child'[s] = child[s] /\ id'[s] = id[s]
          /\ id'[child[s]] = id[child[s]] /\ id[child[s]] \in IdRecord
      BY <2>1, InFlightShape
    <3>2. last_pid' \in Pids
      BY <1>1, BumpBounds
    <3> QED
      BY <1>4, <2>1, <3>1, <3>2 DEF IdRecord, Pids
  <2> QED
    BY <2>1 DEF Made
<1> QED
  BY <1>2, <1>3, <1>5 DEF Sound

LEMMA InitSound == Init => Sound
<1> SUFFICES ASSUME Init PROVE Sound
  OBVIOUS
<1>1. InFlight = {} /\ Holders = {InitTask}
  BY TaskAssumption DEF Init, InFlight, Holders
<1>2. last_pid = 1 /\ \A x : InUse(x) => x = 1
  BY TaskAssumption DEF Init, InUse
<1>3. CacheSound
  BY <1>2, PidAssumption DEF CacheSound, Init
<1> QED
  BY <1>1, <1>3 DEF Sound, Made, UniquePids

LEMMA Between ==
  ASSUME NEW m \in Int, NEW n \in Int, NEW x \in (m + 1)..(n - 1)
  PROVE  x > m /\ ~(n <= x)
OBVIOUS

LEMMA SoundStep == Base /\ Round /\ Sound /\ [Next]_vars => Sound'
<1> SUFFICES ASSUME Base, Round, Sound, [Next]_vars PROVE Sound'
  OBVIOUS
<1>1. ASSUME NEW t \in Task, NEW c \in Task, TakeNext(t, c) PROVE Sound'
  <2>1. /\ Copy(t, c) /\ Take(t, last_pid + 1) /\ last_pid' = last_pid + 1
        /\ last_pid + 1 \in Pids /\ last_pid + 1 < next_safe /\ next_safe' = next_safe
        /\ last_pid \in Int /\ next_safe \in Int /\ unsound' = unsound /\ ~unsound
    BY <1>1, PidAssumption DEF TakeNext, Copy, Base, TypeOK, Pids
  <2>2. /\ child'[t] = c /\ c \in Task \ listed /\ t \in listed /\ pc[t] = "user"
        /\ \A s \in InFlight : child'[s] = child[s] /\ child[s] # c
        /\ listed' = listed /\ NoSearch
    BY <2>1, CopyTypes DEF InFlight, Copy, Enter
  <2>3. NoSearch'
    BY <2>1, <2>2 DEF Take, Goto, NoSearch, Base, TypeOK
  <2>4. ~InUse(last_pid + 1)
    BY <2>1, <2>2 DEF Sound, CacheSound
  <2>5. \A s \in InFlight : id[child[s]].pid < last_pid + 1
    <3>1. ASSUME NEW s \in InFlight PROVE id[child[s]].pid < last_pid + 1
      <4>1. id[child[s]].pid <= last_pid
        BY <2>1 DEF Sound, Made
      <4>2. id[child[s]] \in IdRecord
        BY InFlightShape
      <4> QED
        BY <2>1, <4>1, <4>2 DEF IdRecord, Pids
    <3> QED
      BY <3>1
  <2>6. Made' /\ UniquePids'
    BY <2>1, <2>2, <2>3, <2>4, <2>5, TakeSound
  <2>7. \A x \in (last_pid' + 1)..(next_safe' - 1) : ~InUse(x)'
    <3>1. ASSUME NEW x \in (last_pid' + 1)..(next_safe' - 1) PROVE ~InUse(x)'
      <4>1. ~InUse(x)
        BY <2>1, <2>2, <3>1 DEF Sound, CacheSound
      <4>2. \A p \in listed : id'[p] = id[p]
        BY <2>1, <2>2 DEF Take, Base, TypeOK
      <4> QED
        BY <2>2, <4>1, <4>2 DEF InUse
    <3> QED
      BY <3>1
  <2> QED
    BY <2>6, <2>7 DEF Sound, CacheSound
<1>2. ASSUME NEW t \in Task, NEW c \in Task, Search(t, c) PROVE Sound'
  <2>1. /\ Copy(t, c) /\ last_pid' = Bump(last_pid) /\ pc' = [pc EXCEPT ![t] = "search"]
        /\ id' = [id EXCEPT ![c] = [id[t] EXCEPT !.pid = 0]]
        /\ unsound' = (unsound \/ (last_pid' <= last_pid /\ InFlight # {}))
    BY <1>2 DEF Search, Goto
  <2>2. /\ child'[t] = c /\ c \in Task \ listed /\ t \in listed /\ pc[t] = "user"
        /\ \A s \in InFlight : child'[s] = child[s] /\ child[s] # c /\ s # c
        /\ listed' = listed /\ NoSearch
    BY <2>1, CopyTypes, InFlightShape DEF InFlight, Copy, Enter
  <2>3. InFlight' = InFlight /\ ~NoSearch'
    BY <2>1, <2>2 DEF InFlight, NoSearch, Base, TypeOK
  <2>4. Holders' = Holders
    BY <2>2, <2>3 DEF Holders
  <2>5. /\ \A s \in InFlight : id'[s] = id[s] /\ id'[child[s]] = id[child[s]]
        /\ \A s \in Holders : id'[s] = id[s]
    BY <2>1, <2>2, InFlightShape DEF Holders, Base, TypeOK
  <2>6. ~unsound' => ~unsound /\ ~(last_pid' <= last_pid /\ InFlight # {})
    BY <2>1, Zenon
  <2> QED
    BY <2>1, <2>2, <2>3, <2>4, <2>5, <2>6, AdvanceSound
<1>3. ASSUME NEW t \in Task, SearchFound(t) PROVE Sound'
  <2>1. /\ Take(t, last_pid) /\ last_pid' = last_pid /\ last_pid \in Pids /\ last_pid \notin Used
        /\ listed' = listed /\ child' = child /\ unsound' = unsound /\ pc[t] = "search"
        /\ NextUsed(next_safe', last_pid, Used, next_safe)
    BY <1>3 DEF SearchFound, Base, TypeOK
  <2>2. child[t] \in Task \ listed /\ t \in listed /\ \A s \in InFlight : child[s] # child[t]
    BY <2>1 DEF Base, TypeOK, Shape, Calling, InFlight
  <2>3. NoSearch' /\ ~NoSearch
    BY <2>1 DEF Take, Goto, NoSearch, Base, TypeOK, Shape
  <2>4. ~InUse(last_pid)
    BY <2>1, UsedIsInUse
  <2>5. CASE ~unsound
    <3>1. \A s \in InFlight : id[child[s]].pid < last_pid
      BY <2>3, <2>5 DEF Sound, Made
    <3>2. Made' /\ UniquePids'
      BY <2>1, <2>2, <2>3, <2>4, <2>5, <3>1, TakeSound
    <3>3. ASSUME NEW x \in (last_pid + 1)..(next_safe' - 1) PROVE ~InUse(x)'
      <4>1. \A y \in Used : y > last_pid => next_safe' <= y
        BY <2>1 DEF NextUsed
      <4>2. last_pid \in Int /\ next_safe' \in Int
        BY <1>3, <2>1, PidAssumption DEF SearchFound, Pids
      <4>3. ~InUse(x)
        <5>1. x > last_pid /\ ~(next_safe' <= x)
          BY <4>2, Between
        <5>2. x \notin Used
          BY <4>1, <5>1
        <5> QED
          BY <5>2, UsedIsInUse
      <4>4. \A p \in listed : id'[p] = id[p]
        BY <2>1, <2>2 DEF Take, Base, TypeOK
      <4> QED
        BY <2>1, <4>3, <4>4 DEF InUse
    <3> QED
      BY <2>1, <3>2, <3>3 DEF Sound, CacheSound
  <2>6. CASE unsound
    BY <2>1, <2>6 DEF Sound, Made, CacheSound, UniquePids
  <2> QED
    BY <2>5, <2>6
<1>4. ASSUME NEW t \in Task, SearchOn(t) PROVE Sound'
  <2>1. /\ last_pid' = Bump(last_pid) /\ UNCHANGED <<listed, id, pc, child>> /\ ~NoSearch
        /\ unsound' = (unsound \/ (last_pid' <= last_pid /\ InFlight # {}))
    BY <1>4 DEF SearchOn, Hit, Advance, NoSearch
  <2>2. InFlight' = InFlight /\ Holders' = Holders /\ ~NoSearch'
    BY <2>1 DEF InFlight, Holders, NoSearch
  <2>3. ~unsound' => ~unsound /\ ~(last_pid' <= last_pid /\ InFlight # {})
    BY <2>1, Zenon
  <2> QED
    BY <2>1, <2>2, <2>3, AdvanceSound
<1>5. ASSUME NEW t \in Task, NoMorePids(t) PROVE Sound'
  BY <1>5 DEF NoMorePids, Sound, Made, CacheSound, UniquePids
<1>6. ASSUME NEW t \in Task, NEW thread \in BOOLEAN, ForkEnd(t, thread) PROVE Sound'
  <2> DEFINE c == child[t]
  <2>1. /\ NoSearch /\ t \in InFlight /\ listed' = listed \cup {c}
        /\ id' = [id EXCEPT ![c].tgid = IF thread THEN id[t].tgid ELSE id[c].pid]
        /\ pc' = [pc EXCEPT ![t] = "user", ![c] = "user"]
        /\ child' = [child EXCEPT ![t] = NoTask]
        /\ UNCHANGED <<counter, unsound>>
    BY <1>6 DEF ForkEnd, InFlight
  <2>2. /\ c \in Task \ listed /\ t \in listed /\ id[c] \in IdRecord /\ id[t] \in IdRecord
        /\ \A s \in InFlight : s # t => child[s] # c /\ s # c
    BY <2>1, InFlightShape
  <2>3. /\ id'[c].pid = id[c].pid /\ id'[c].pgrp = id[c].pgrp
        /\ id'[c].session = id[c].session /\ id'[c].tgid \in {id[t].tgid, id[c].pid}
        /\ \A s \in Task \ {c} : id'[s] = id[s]
    BY <2>1, <2>2 DEF Base, TypeOK, IdRecord
  <2>4. InFlight' = InFlight \ {t} /\ NoSearch'
    BY <2>1, <2>2 DEF InFlight, NoSearch, Base, TypeOK
  <2>5. \A s \in InFlight' : /\ child'[s] = child[s] /\ id'[s] = id[s]
                             /\ id'[child[s]] = id[child[s]]
    BY <2>1, <2>2, <2>3, <2>4, InFlightShape DEF Base, TypeOK
  <2>6. Holders' \subseteq Holders /\ \A s \in Holders' : id'[s].pid = id[s].pid
    BY <2>1, <2>2, <2>3, <2>4, <2>5, InFlightShape DEF Holders, Base, TypeOK
  <2>7. CASE unsound
    BY <2>1, <2>7 DEF Sound, Made, CacheSound, UniquePids
  <2>8. CASE ~unsound
    <3>1. /\ id[c].pid <= last_pid
          /\ id[c].pgrp = id[t].pgrp /\ id[c].session = id[t].session
      BY <2>1, <2>8 DEF Sound, Made
    <3>2. ASSUME NEW p \in listed',
                 NEW x \in {id'[p].pid, id'[p].pgrp, id'[p].tgid, id'[p].session}
          PROVE  x <= last_pid \/ InUse(x)
      <4>1. CASE p = c
        BY <2>2, <2>3, <3>1, <3>2, <4>1 DEF InUse
      <4>2. CASE p \in listed
        BY <2>2, <2>3, <3>2, <4>2 DEF InUse, Base, TypeOK
      <4> QED
        BY <2>1, <3>2, <4>1, <4>2
    <3> QED
      BY <2>1, <2>4, <2>5, <2>6, <3>2, QuietSound
  <2> QED
    BY <2>7, <2>8
<1>7. ASSUME NEW t \in Task, ForkFail(t) PROVE Sound'
  <2>1. /\ NoSearch /\ t \in InFlight /\ UNCHANGED <<counter, unsound, listed>>
        /\ id' = [id EXCEPT ![child[t]] = NoIds]
        /\ pc' = [pc EXCEPT ![t] = "user"] /\ child' = [child EXCEPT ![t] = NoTask]
    BY <1>7 DEF ForkFail, Goto, InFlight
  <2>2. /\ child[t] \in Task \ listed
        /\ \A s \in InFlight : s # t => child[s] # child[t] /\ s # child[t]
    BY <2>1, InFlightShape
  <2>3. InFlight' = InFlight \ {t} /\ NoSearch'
    BY <2>1 DEF InFlight, NoSearch, Base, TypeOK
  <2>4. /\ \A s \in InFlight' : child'[s] = child[s] /\ id'[s] = id[s] /\ id'[child[s]] = id[child[s]]
        /\ \A s \in listed : id'[s] = id[s]
    BY <2>1, <2>2, <2>3, InFlightShape DEF Base, TypeOK
  <2>5. Holders' \subseteq Holders /\ \A s \in Holders' : id'[s].pid = id[s].pid
    BY <2>1, <2>3, <2>4 DEF Holders
  <2>6. \A p \in listed' : \A x \in {id'[p].pid, id'[p].pgrp, id'[p].tgid, id'[p].session} :
           x <= last_pid \/ InUse(x)
    BY <2>1, <2>4 DEF InUse
  <2> QED
    BY <2>1, <2>3, <2>4, <2>5, <2>6, QuietSound
<1>8. ASSUME NEW t \in Task, Exit(t) \/ release_task(t) PROVE Sound'
  <2>1. /\ NoSearch /\ t \notin InFlight /\ t \in listed /\ listed' \subseteq listed
        /\ UNCHANGED <<counter, unsound, child>>
    BY <1>8 DEF Exit, release_task, Enter, InFlight, Base, Shape
  <2>2. InFlight' = InFlight /\ NoSearch'
    BY <1>8, <2>1 DEF Exit, release_task, Goto, InFlight, NoSearch, Base, TypeOK
  <2>3. \A s \in Task : s \in listed' \/ s # t => id'[s] = id[s]
    BY <1>8, <2>1 DEF Exit, release_task, Base, TypeOK
  <2>4. \A s \in InFlight' : child'[s] = child[s] /\ id'[s] = id[s] /\ id'[child[s]] = id[child[s]]
    BY <2>1, <2>2, <2>3, InFlightShape
  <2>5. Holders' \subseteq Holders /\ \A s \in Holders' : id'[s].pid = id[s].pid
    BY <2>1, <2>2, <2>3, <2>4 DEF Holders, Base, TypeOK
  <2>6. \A p \in listed' : \A x \in {id'[p].pid, id'[p].pgrp, id'[p].tgid, id'[p].session} :
           x <= last_pid \/ InUse(x)
    BY <2>1, <2>3 DEF InUse, Base, TypeOK
  <2> QED
    BY <2>1, <2>2, <2>4, <2>5, <2>6, QuietSound
<1>9. ASSUME NEW t \in Task, Enter(t), UNCHANGED <<counter, listed, pc, child, unsound>>,
             \A s \in Task \ {t} : id'[s] = id[s],
             id'[t].pid = id[t].pid, id'[t].tgid = id[t].tgid,
             \A x \in {id'[t].pgrp, id'[t].session} : x <= last_pid \/ InUse(x)
      PROVE  Sound'
  <2>1. InFlight' = InFlight /\ Holders' = Holders /\ (NoSearch' <=> NoSearch)
    BY <1>9 DEF InFlight, Holders, NoSearch
  <2>2. NoSearch /\ t \notin InFlight /\ t \in listed
    BY <1>9 DEF Enter, InFlight
  <2>3. \A s \in InFlight' : child'[s] = child[s] /\ id'[s] = id[s] /\ id'[child[s]] = id[child[s]]
    BY <1>9, <2>1, <2>2, InFlightShape
  <2>4. \A s \in Holders' : id'[s].pid = id[s].pid
    BY <1>9, <2>1, InFlightShape DEF Holders, Base, TypeOK
  <2>5. ASSUME NEW p \in listed',
               NEW x \in {id'[p].pid, id'[p].pgrp, id'[p].tgid, id'[p].session}
        PROVE  x <= last_pid \/ InUse(x)
    <3>1. CASE p = t
      BY <1>9, <2>2, <2>5, <3>1 DEF InUse
    <3>2. CASE p # t
      BY <1>9, <2>5, <3>2 DEF InUse, Base, TypeOK
    <3> QED
      BY <3>1, <3>2
  <2> QED
    BY <1>9, <2>1, <2>2, <2>3, <2>4, <2>5, QuietSound
<1>10. ASSUME NEW t \in Task, daemonize(t) PROVE Sound'
  <2>1. id[t] \in IdRecord /\ 1 <= last_pid /\ id' = [id EXCEPT ![t].session = 1, ![t].pgrp = 1]
    BY <1>10 DEF daemonize, Base, TypeOK, Round
  <2>2. /\ \A s \in Task \ {t} : id'[s] = id[s]
        /\ id'[t].pid = id[t].pid /\ id'[t].tgid = id[t].tgid
        /\ id'[t].pgrp = 1 /\ id'[t].session = 1
    BY <2>1 DEF Base, TypeOK, IdRecord
  <2> QED
    BY <1>9, <1>10, <2>1, <2>2 DEF daemonize
<1>11. ASSUME NEW t \in Task, setsid(t) PROVE Sound'
  <2>1. /\ id[t] \in IdRecord /\ t \in listed
        /\ id' = [id EXCEPT ![t].session = id[t].pid, ![t].pgrp = id[t].pid]
    BY <1>11 DEF setsid, Enter, Base, TypeOK
  <2>2. /\ \A s \in Task \ {t} : id'[s] = id[s]
        /\ id'[t].pid = id[t].pid /\ id'[t].tgid = id[t].tgid
        /\ id'[t].pgrp = id[t].pid /\ id'[t].session = id[t].pid
    BY <2>1 DEF Base, TypeOK, IdRecord
  <2>3. InUse(id[t].pid)
    BY <2>1 DEF InUse
  <2> QED
    BY <1>9, <1>11, <2>2, <2>3 DEF setsid
<1>12. ASSUME NEW t \in Task, NEW pgid \in Pids, setpgid(t, pgid) PROVE Sound'
  <2>1. /\ id[t] \in IdRecord /\ t \in listed /\ id' = [id EXCEPT ![t].pgrp = pgid]
        /\ pgid = id[t].pid \/ \E p \in listed : id[p].pgrp = pgid
    BY <1>12 DEF setpgid, Enter, Base, TypeOK
  <2>2. /\ \A s \in Task \ {t} : id'[s] = id[s]
        /\ id'[t].pid = id[t].pid /\ id'[t].tgid = id[t].tgid
        /\ id'[t].pgrp = pgid /\ id'[t].session = id[t].session
    BY <2>1 DEF Base, TypeOK, IdRecord
  <2>3. InUse(pgid) /\ InUse(id[t].session)
    BY <2>1 DEF InUse
  <2> QED
    BY <1>9, <1>12, <2>2, <2>3 DEF setpgid
<1>13. CASE UNCHANGED vars
  BY <1>13 DEF vars, counter, Sound, Made, CacheSound, UniquePids, InFlight, Holders, InUse, NoSearch
<1> QED
  BY <1>1, <1>2, <1>3, <1>4, <1>5, <1>6, <1>7, <1>8, <1>10, <1>11, <1>12, <1>13
  DEF Next, Step

(* IInv is inductive; each conjunct needs the ones before it, and UniquePids, Made
   and CacheSound need each other: a pid is free because the cache says so, and the
   cache stays true because a child in the making has a pid behind the counter.    *)
LEMMA Inductive == Spec => []IInv
<1>1. Init => IInv
  BY InitBase, InitRound, InitSound DEF IInv, Sound
<1>2. IInv /\ [Next]_vars => IInv'
  BY TypeStep, ShapeStep, RoundStep, SoundStep DEF IInv, Base, Sound
<1> QED
  BY <1>1, <1>2, PTL DEF Spec

(* No two processes have one pid, for any number of tasks forking at once. *)
THEOREM PidsUnique == Spec => []UniquePids
<1>1. IInv => UniquePids
  BY DEF IInv
<1> QED
  BY <1>1, Inductive, PTL

(* The cache next_safe never hides an id that is in use. *)
THEOREM CacheIsSound == Spec => []CacheSound
<1>1. IInv => CacheSound
  BY DEF IInv
<1> QED
  BY <1>1, Inductive, PTL

(* The pid of a new child is nobody's pid, group, thread group or session. *)
THEOREM NewPidFresh == Spec => FreshPid
<1> DEFINE Fresh ==
      ~unsound' => \A t \in Task : pc[t] # "fork" /\ pc'[t] = "fork" =>
        LET pid == id'[child'[t]].pid IN pid # 0 /\ ~InUse(pid)
<1>1. ASSUME IInv, [Next]_vars, ~unsound', NEW t \in Task, pc[t] # "fork", pc'[t] = "fork"
      PROVE  LET pid == id'[child'[t]].pid IN pid # 0 /\ ~InUse(pid)
  <2>1. PICK s \in Task : Step(s)
    BY <1>1 DEF Next, vars
  <2>2. s = t /\ (SearchFound(t) \/ \E c \in Task : TakeNext(t, c))
    BY <1>1, <2>1
    DEF Step, TakeNext, Take, Search, SearchFound, SearchOn, NoMorePids, Goto, ForkEnd,
        ForkFail, Exit, release_task, daemonize, setsid, setpgid, IInv, Base, TypeOK
  <2>3. id'[child'[t]].pid = last_pid' /\ 1 <= last_pid'
    <3>1. last_pid' \in Pids /\ child'[t] \in Task /\ Take(t, last_pid') /\ 1 <= last_pid'
      BY <1>1, <2>2, TypeStep, ShapeStep, RoundStep
      DEF TakeNext, SearchFound, IInv, Base, TypeOK, Shape, Calling, Round
    <3>2. id[t] \in IdRecord /\ id'[child'[t]] = [id[t] EXCEPT !.pid = last_pid']
      BY <1>1, <3>1, TakeTypes DEF IInv, Base, TypeOK
    <3> QED
      BY <3>1, <3>2 DEF IdRecord
  <2>4. ~InUse(last_pid')
    <3>1. CASE SearchFound(t)
      BY <3>1, UsedIsInUse DEF SearchFound
    <3>2. ASSUME NEW c \in Task, TakeNext(t, c) PROVE ~InUse(last_pid')
      <4>1. /\ ~unsound /\ NoSearch /\ last_pid' = last_pid + 1 /\ last_pid + 1 < next_safe
            /\ last_pid \in Int /\ next_safe \in Int
        BY <1>1, <3>2, PidAssumption DEF TakeNext, Copy, Enter, IInv, Base, TypeOK, Pids
      <4> QED
        BY <1>1, <4>1 DEF IInv, CacheSound
    <3> QED
      BY <2>2, <3>1, <3>2
  <2> QED
    BY <2>2, <2>3, <2>4
<1>2. IInv /\ [Next]_vars => [Fresh]_vars
  BY <1>1
<1> QED
  BY <1>2, Inductive, PTL DEF Spec, FreshPid
============================================================================
