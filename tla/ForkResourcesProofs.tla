------------------------ MODULE ForkResourcesProofs ------------------------
(***************************************************************************)
(* Every structure that processes share is counted right, for any number   *)
(* of tasks and any interleaving of forks, failed forks, exits and         *)
(* daemonize.                                                              *)
(***************************************************************************)
EXTENDS ForkResources, FiniteSetTheorems, TLAPS

Exiting == {"exit_files", "exit_fs", "exit_sig", "exit"}
Daemonizing == {"daemonize_fs", "daemonize_files"}
Pcs == Steps \cup Exiting \cup Daemonizing \cup {"none", "embryo", "user", "vfork", "zombie"}
Dead == {"none", "zombie"}

Types ==
  /\ pc \in [Task -> Pcs]
  /\ child \in [Task -> Task \cup {NoTask}]
  /\ vfork_done \in [Task -> Task \cup {NoTask}]
  /\ clone_flags \in [Task -> SUBSET CloneFlags]
  /\ res \in [Task -> [All -> Object \cup {Null}]]
  /\ active_mm \in [Task -> Object \cup {Null}]
  /\ count \in [All -> [Object -> Int]] /\ mm_count \in [Object -> Int]

(* A task in do_fork has a child of its own in the making, and no other task has. *)
Making ==
  /\ \A t \in Task : IF pc[t] \in Steps THEN child[t] \in Task /\ pc[child[t]] = "embryo"
                     ELSE child[t] = NoTask
  /\ \A t \in Task : pc[t] = "embryo" => \E p \in Task : child[p] = t
  /\ \A s, t \in Task : child[s] = child[t] /\ child[s] # NoTask => s = t

(* What a task has given up by the time it is where it is. *)
GivenUp ==
  \A t \in Task :
    /\ pc[t] \in Exiting \cup Daemonizing \cup Dead => res[t]["mm"] = Null
    /\ pc[t] \in {"exit_fs", "exit_sig", "exit"} \cup Dead => res[t]["files"] = Null
    /\ pc[t] \in {"exit_sig", "exit"} \cup Dead => res[t]["fs"] = Null
    /\ pc[t] \in {"exit"} \cup Dead => res[t]["sig"] = Null
    /\ pc[t] \in Dead => active_mm[t] = Null

(* Until its turn comes, each field of a child is a copy of its parent's. *)
Inherits ==
  \A t \in Task : pc[t] \in All =>
    \A k \in All : k \notin Given(pc[t]) => res[child[t]][k] = res[t][k]

(* Who has an mm runs in it, a child from the moment it has one. *)
Active ==
  /\ \A t \in Task : pc[t] # "embryo" /\ res[t]["mm"] # Null => active_mm[t] = res[t]["mm"]
  /\ \A t \in Task : pc[t] \in {"namespace", "thread"} =>
       /\ active_mm[child[t]] = res[child[t]]["mm"]
       /\ res[t]["mm"] = Null => res[child[t]]["mm"] = Null
  /\ \A t \in Task : pc[t] = "undo_mm" /\ "namespace" \notin Fails =>
       res[t]["mm"] = Null /\ res[child[t]]["mm"] = Null

(* The completion of a parent in vfork is held by one task, the child it made, from
   the moment it runs until it lets the memory go.                               *)
Completion ==
  /\ \A t \in Task : pc[t] \in Steps =>
       vfork_done[child[t]] = IF "CLONE_VFORK" \in clone_flags[t] THEN t ELSE NoTask
  /\ \A c \in Task : vfork_done[c] # NoTask /\ pc[c] # "embryo" =>
       pc[vfork_done[c]] = "vfork" /\ pc[c] \in Steps \cup {"user", "vfork"}
  /\ \A c, d \in Task : vfork_done[c] = vfork_done[d] /\ vfork_done[c] # NoTask => c = d
  /\ VforkEnds

Shape == Types /\ Making /\ GivenUp /\ Inherits /\ Active /\ Completion

----------------------------------------------------------------------------
(* The labels of do_fork that give back one of the three kinds. *)
UndoKind(t) == \/ pc[t] = "undo_sig" /\ Undo(t, "sig", "undo_fs")
               \/ pc[t] = "undo_fs" /\ Undo(t, "fs", "undo_files")
               \/ pc[t] = "undo_files" /\ Undo(t, "files", "undo")

LEMMA Givens ==
  ASSUME NEW step
  PROVE  /\ "files" \in Given(step) <=> step \notin {"files", "undo"}
         /\ "fs" \in Given(step) <=> step \notin {"files", "undo", "fs", "undo_files"}
         /\ "sig" \in Given(step) <=>
              step \notin {"files", "undo", "fs", "undo_files", "sig", "undo_fs"}
         /\ "mm" \in Given(step) <=>
              step \notin {"files", "undo", "fs", "undo_files", "sig", "undo_fs", "mm", "undo_sig"}
<1>1. CASE step \in {"files", "undo"}
  <2> Given(step) = {}
    BY <1>1 DEF Given
  <2> QED BY <1>1
<1>2. CASE step \in {"fs", "undo_files"}
  <2> Given(step) = {"files"}
    BY <1>2 DEF Given
  <2> QED BY <1>2
<1>3. CASE step \in {"sig", "undo_fs"}
  <2> Given(step) = {"files", "fs"}
    BY <1>3 DEF Given
  <2> QED BY <1>3
<1>4. CASE step \in {"mm", "undo_sig"}
  <2> Given(step) = Kinds
    BY <1>4 DEF Given
  <2> QED BY <1>4 DEF Kinds
<1>5. CASE step \notin {"files", "undo", "fs", "undo_files", "sig", "undo_fs", "mm", "undo_sig"}
  <2> Given(step) = All
    BY <1>5 DEF Given
  <2> QED BY <1>5 DEF All, Kinds
<1> QED BY <1>1, <1>2, <1>3, <1>4, <1>5

----------------------------------------------------------------------------
(* What the assignments of the actions do, field by field. *)
Gets(c, k, o) ==
  /\ res' \in [Task -> [All -> Object \cup {Null}]]
  /\ \A s \in Task, j \in All : res'[s][j] = IF s = c /\ j = k THEN o ELSE res[s][j]

Counted(k, o, n) ==
  /\ count' \in [All -> [Object -> Int]]
  /\ \A j \in All, b \in Object :
       count'[j][b] = IF j = k /\ b = o THEN count[j][b] + n ELSE count[j][b]

LEMMA Tables ==
  /\ Kinds = {"files", "fs", "sig"} /\ All = {"files", "fs", "sig", "mm"}
  /\ \A k \in Kinds : After[k] = IF k = "files" THEN "fs" ELSE IF k = "fs" THEN "sig" ELSE "mm"
  /\ \A k \in Kinds : Label[k] = IF k = "files" THEN "undo"
                                 ELSE IF k = "fs" THEN "undo_files" ELSE "undo_fs"
  /\ Label["mm"] = "undo_sig" /\ Label["namespace"] = "undo_mm"
BY DEF Kinds, All, After, Label

LEMMA ResSet ==
  ASSUME Types, NEW c \in Task, NEW k \in All, NEW o \in Object \cup {Null},
         res' = [res EXCEPT ![c][k] = o]
  PROVE  Gets(c, k, o)
<1>1. res \in [Task -> [All -> Object \cup {Null}]]
  BY DEF Types
<1> QED BY <1>1 DEF Gets

LEMMA MmSet ==
  ASSUME Types, NEW c \in Task, NEW o \in Object \cup {Null},
         res' = [res EXCEPT ![c].mm = o]
  PROVE  Gets(c, "mm", o)
<1>1. res \in [Task -> [All -> Object \cup {Null}]]
  BY DEF Types
<1> QED BY <1>1, ResSet DEF All

LEMMA CountAdd ==
  ASSUME Types, NEW k \in All, NEW o \in Object \cup {Null}, NEW n \in Int, Added(k, o, n)
  PROVE  Counted(k, o, n)
<1>1. count \in [All -> [Object -> Int]]
  BY DEF Types
<1>2. count' = [count EXCEPT ![k] = [count[k] EXCEPT ![o] = @ + n]]
  BY <1>1 DEF Added
<1>3. count[k] \in [Object -> Int]
  BY <1>1
<1>4. [count[k] EXCEPT ![o] = @ + n] \in [Object -> Int]
  <2>1. CASE o \in Object
    <3>1. count[k][o] + n \in Int
      BY <1>3, <2>1
    <3> QED BY <1>3, <3>1
  <2>2. CASE o = Null
    BY <1>3, <2>2, TaskAssumption
  <2> QED BY <2>1, <2>2
<1> QED BY <1>1, <1>2, <1>3, <1>4 DEF Counted

LEMMA Dropped ==
  ASSUME Types, NEW c \in Task, NEW k \in All, Drop(c, k)
  PROVE  Gets(c, k, Null) /\ Counted(k, res[c][k], -1)
<1>1. Gets(c, k, Null)
  BY ResSet DEF Drop
<1>2. res[c][k] \in Object \cup {Null}
  BY DEF Types
<1>3. CASE res[c][k] = Null
  <2> count' = count
    BY <1>3 DEF Drop
  <2> QED BY <1>1, <1>3, TaskAssumption DEF Counted, Types
<1>4. CASE res[c][k] # Null
  <2> Added(k, res[c][k], -1)
    BY <1>4 DEF Drop
  <2> QED BY <1>1, <1>2, CountAdd
<1> QED BY <1>1, <1>3, <1>4

LEMMA Adopted ==
  ASSUME Types, NEW t \in Task, NEW k \in All, Adopt(t, k)
  PROVE  /\ Gets(t, k, res[InitTask][k])
         /\ count' \in [All -> [Object -> Int]]
         /\ \A j \in All, b \in Object :
              count'[j][b] = IF j # k THEN count[j][b]
                             ELSE count[k][b] - (IF b = res[t][k] THEN 1 ELSE 0)
                                              + (IF b = res[InitTask][k] THEN 1 ELSE 0)
<1>1. res[InitTask][k] \in Object \cup {Null}
  BY TaskAssumption DEF Types
<1>2. Gets(t, k, res[InitTask][k])
  BY <1>1, ResSet DEF Adopt
<1>3. count \in [All -> [Object -> Int]]
  BY DEF Types
<1> DEFINE f == [o \in Object |-> count[k][o] - (IF o = res[t][k] THEN 1 ELSE 0)
                                    + (IF o = res[InitTask][k] THEN 1 ELSE 0)]
<1>4. f \in [Object -> Int]
  BY <1>3
<1>5. count' = [count EXCEPT ![k] = f]
  BY <1>3 DEF Adopt
<1>6. count' \in [All -> [Object -> Int]]
  BY <1>3, <1>4, <1>5
<1> QED BY <1>2, <1>3, <1>5, <1>6

(* mm_release moves the task itself and at most one other, out of its vfork. *)
LEMMA Released ==
  ASSUME Types, Completion, NEW t \in Task, NEW where \in Pcs,
         pc[t] \in Steps \cup {"user"}, mm_release(t, where)
  PROVE  /\ pc' \in [Task -> Pcs] /\ pc'[t] = where
         /\ \A s \in Task \ {t} :
              pc'[s] = IF s = vfork_done[t] THEN "user" ELSE pc[s]
         /\ vfork_done[t] # NoTask => pc[vfork_done[t]] = "vfork" /\ vfork_done[t] # t
         /\ vfork_done' = [vfork_done EXCEPT ![t] = NoTask]
<1>1. pc[t] # "embryo" /\ pc[t] # "vfork"
  BY DEF Steps, Kinds
<1> QED BY <1>1 DEF Types, Completion, mm_release, Pcs

LEMMA MmGivenUp ==
  ASSUME Types, NEW t \in Task, NEW c \in Task, NEW where, exit_mm(t, c, where)
  PROVE  /\ Gets(c, "mm", Null) /\ Counted("mm", res[c]["mm"], -1)
         /\ mm_count' \in [Object -> Int]
         /\ \A o \in Object :
              mm_count'[o] = IF o = res[c]["mm"] /\ count["mm"][o] # 1 THEN mm_count[o] + 1
                             ELSE mm_count[o]
<1>1. "mm" \in All
  BY DEF All
<1>2. Gets(c, "mm", Null) /\ Counted("mm", res[c]["mm"], -1)
  BY <1>1, Dropped DEF exit_mm
<1>3. res[c]["mm"] \in Object \cup {Null}
  BY <1>1 DEF Types
<1>4. CASE res[c]["mm"] = Null
  BY <1>2, <1>4, TaskAssumption DEF exit_mm, Types
<1>5. CASE res[c]["mm"] # Null
  <2>1. mm_count \in [Object -> Int] /\ count["mm"][res[c]["mm"]] \in Int
    BY <1>1, <1>3, <1>5 DEF Types
  <2>2. mm_count' = [mm_count EXCEPT ![res[c]["mm"]] =
                       @ + (IF count["mm"][res[c]["mm"]] = 1 THEN 0 ELSE 1)]
    BY <1>5 DEF exit_mm
  <2> QED BY <1>2, <1>3, <1>5, <2>1, <2>2
<1> QED BY <1>4, <1>5

(* __exit_mm of a running task, for itself or for a child. *)
LEMMA MmExited ==
  ASSUME Types, Completion, NEW t \in Task, NEW c \in Task, NEW where \in Pcs,
         pc[t] \in Steps \cup {"user"}, exit_mm(t, c, where)
  PROVE  /\ Gets(c, "mm", Null) /\ Counted("mm", res[c]["mm"], -1)
         /\ mm_count' \in [Object -> Int]
         /\ \A o \in Object :
              mm_count'[o] = IF o = res[c]["mm"] /\ count["mm"][o] # 1 THEN mm_count[o] + 1
                             ELSE mm_count[o]
         /\ pc' \in [Task -> Pcs] /\ pc'[t] = where
         /\ \A s \in Task \ {t} :
              pc'[s] = IF s = vfork_done[t] THEN "user" ELSE pc[s]
         /\ vfork_done[t] # NoTask => pc[vfork_done[t]] = "vfork" /\ vfork_done[t] # t
         /\ vfork_done' = [vfork_done EXCEPT ![t] = NoTask]
         /\ active_mm' = active_mm
<1>1. mm_release(t, where) /\ active_mm' = active_mm
  BY DEF exit_mm
<1> QED BY <1>1, Released, MmGivenUp

LEMMA SomeFree ==
  ASSUME NEW k, Free(k) # {}
  PROVE  /\ Some(k) \in Object /\ count[k][Some(k)] = 0
         /\ k = "mm" => mm_count[Some(k)] = 0
<1> Some(k) \in Free(k)
  BY DEF Some
<1> QED BY DEF Free

(* copy_files, copy_fs, copy_sighand *)
LEMMA KindCopied ==
  ASSUME Types, NEW t \in Task, child[t] \in Task, NEW k \in Kinds, Copy(t, k)
  PROVE  \E o \in Object : /\ count[k][o] = 0
                           /\ Gets(child[t], k, o) /\ Counted(k, o, 1)
<1>1. k \in All
  BY DEF All
<1>2. Some(k) \in Object /\ count[k][Some(k)] = 0
  BY SomeFree DEF Copy
<1>3. Gets(child[t], k, Some(k))
  BY <1>1, <1>2, ResSet DEF Copy
<1>4. count \in [All -> [Object -> Int]] /\ count' = [count EXCEPT ![k][Some(k)] = 1]
  BY DEF Types, Copy
<1>5. Counted(k, Some(k), 1)
  BY <1>1, <1>2, <1>4 DEF Counted
<1> QED BY <1>2, <1>3, <1>5

(* copy_mm: no mm, a shared one, a new one, or none left. *)
MmCopied(t, o) ==
  /\ pc[t] = "mm" /\ Gets(child[t], "mm", o)
  /\ active_mm' = [active_mm EXCEPT ![child[t]] = o]
  /\ mm_count' \in [Object -> Int] /\ count' \in [All -> [Object -> Int]]
  /\ UNCHANGED <<child, clone_flags, vfork_done, charges>>
  /\ \/ /\ o = Null /\ UNCHANGED <<count, mm_count>>
        /\ \/ Goto(t, "namespace") /\ res[t]["mm"] = Null
           \/ Goto(t, "undo_sig")
     \/ /\ o = res[t]["mm"] /\ o # Null /\ Goto(t, "namespace")
        /\ Counted("mm", o, 1) /\ UNCHANGED mm_count
     \/ /\ o \in Object /\ count["mm"][o] = 0 /\ mm_count[o] = 0 /\ Goto(t, "namespace")
        /\ res[t]["mm"] # Null
        /\ Counted("mm", o, 1) /\ mm_count' = [mm_count EXCEPT ![o] = 1]

LEMMA CopyMm ==
  ASSUME Types, Making, NEW t \in Task, copy_mm(t)
  PROVE  \E o \in Object \cup {Null} : MmCopied(t, o)
<1>1. child[t] \in Task /\ "mm" \in All /\ res[t]["mm"] \in Object \cup {Null}
  BY DEF Making, Steps, All, copy_mm, Types
<1>2. count \in [All -> [Object -> Int]] /\ mm_count \in [Object -> Int]
  BY DEF Types
<1>3. CASE res[t]["mm"] = Null
  BY <1>1, <1>2, <1>3, MmSet DEF copy_mm, Mm, MmCopied
<1>4. CASE res[t]["mm"] # Null /\ "CLONE_VM" \in clone_flags[t]
  <2>1. Mm(child[t], res[t]["mm"]) /\ Added("mm", res[t]["mm"], 1) /\ UNCHANGED mm_count
    BY <1>4 DEF copy_mm
  <2>2. Counted("mm", res[t]["mm"], 1)
    BY <1>1, <2>1, CountAdd
  <2> QED BY <1>1, <1>2, <1>4, <2>1, <2>2, MmSet DEF copy_mm, Mm, MmCopied, Counted
<1>5. CASE res[t]["mm"] # Null /\ Goto(t, "namespace") /\ "CLONE_VM" \notin clone_flags[t]
           /\ Free("mm") # {} /\ Mm(child[t], Some("mm")) /\ Added("mm", Some("mm"), 1)
           /\ mm_count' = [mm_count EXCEPT ![Some("mm")] = 1]
  <2>1. Some("mm") \in Object /\ count["mm"][Some("mm")] = 0 /\ mm_count[Some("mm")] = 0
    BY <1>5, SomeFree
  <2>2. Counted("mm", Some("mm"), 1)
    BY <1>1, <1>5, <2>1, CountAdd
  <2>3. Gets(child[t], "mm", Some("mm"))
    BY <1>1, <1>5, <2>1, MmSet DEF Mm
  <2>4. MmCopied(t, Some("mm"))
    BY <1>2, <1>5, <2>1, <2>2, <2>3 DEF copy_mm, Mm, MmCopied, Counted
  <2> QED BY <2>1, <2>4
<1>6. CASE res[t]["mm"] # Null /\ Goto(t, "undo_sig")
           /\ Mm(child[t], Null) /\ UNCHANGED <<count, mm_count>>
  BY <1>1, <1>2, <1>6, MmSet DEF copy_mm, Mm, MmCopied
<1> QED BY <1>3, <1>4, <1>5, <1>6, Tables DEF copy_mm

LEMMA TypesStep ==
  ASSUME Types, Making, Completion, [Next]_vars
  PROVE  Types'
<1>1. ASSUME NEW t \in Task, NEW c \in Task, NEW flags \in Flags, ForkBegin(t, c, flags)
      PROVE  Types'
  BY TaskAssumption, UseAssumption, <1>1 DEF Types, Pcs, Steps, Exiting, Daemonizing, Kinds, All,
     ForkBegin, Begin, mms, charges
<1>2. ASSUME NEW t \in Task, NEW k \in Kinds, copy_kind(t, k), Share(t, k)
      PROVE  Types'
  <2>1. k \in All /\ res[t][k] \in Object \cup {Null}
    BY <1>2 DEF All, Types
  <2>2. Counted(k, res[t][k], 1)
    BY <2>1, <1>2, CountAdd DEF Share
  <2> QED BY <2>2, <1>2, Tables DEF Types, Pcs, Steps, Exiting, Daemonizing, Kinds, All,
         Counted, copy_kind, Share, Goto, mms, charges
<1>3. ASSUME NEW t \in Task, NEW k \in Kinds, copy_kind(t, k), Copy(t, k)
      PROVE  Types'
  <2>1. child[t] \in Task
    BY <1>3, Tables DEF Making, copy_kind, Steps
  <2>2. PICK o \in Object : Gets(child[t], k, o) /\ Counted(k, o, 1)
    BY <2>1, <1>3, KindCopied
  <2> QED BY <2>2, <1>3, Tables DEF Types, Pcs, Steps, Exiting, Daemonizing, Kinds, All,
         Gets, Counted, copy_kind, Copy, Goto, mms, charges
<1>4. ASSUME NEW t \in Task, NEW k \in Kinds, copy_kind(t, k), CopyFails(t, k)
      PROVE  Types'
  <2>1. child[t] \in Task /\ k \in All
    BY <1>4, Tables DEF Making, copy_kind, Steps
  <2>2. Gets(child[t], k, Null)
    BY <2>1, <1>4, ResSet DEF CopyFails
  <2> QED BY <2>2, <1>4, Tables DEF Types, Pcs, Steps, Exiting, Daemonizing, Kinds, All,
         Gets, copy_kind, CopyFails, Goto, mms, charges
<1>5. ASSUME NEW t \in Task, copy_mm(t)
      PROVE  Types'
  <2>1. PICK o \in Object \cup {Null} : MmCopied(t, o)
    BY <1>5, CopyMm
  <2> QED BY <2>1 DEF Types, Pcs, Steps, Exiting, Daemonizing, Kinds, All,
         MmCopied, Gets, Goto, charges
<1>6. ASSUME NEW t \in Task, copy_namespace(t)
      PROVE  Types'
  BY TaskAssumption, UseAssumption, <1>6 DEF Types, Pcs, Steps, Exiting, Daemonizing,
     Kinds, All, copy_namespace, Goto, Label, call, mms, charges
<1>7. ASSUME NEW t \in Task, ForkEnd(t)
      PROVE  Types'
  BY TaskAssumption, UseAssumption, <1>7 DEF Types, Pcs, Steps, Exiting, Daemonizing,
     Kinds, All, ForkEnd, call, mms, charges
<1>8. ASSUME NEW t \in Task, UndoMm(t)
      PROVE  Types'
  <2>1. child[t] \in Task /\ pc[t] \in Steps /\ "undo_sig" \in Pcs
    BY <1>8 DEF Making, UndoMm, Steps, Pcs
  <2>2. exit_mm(t, child[t], "undo_sig")
    BY <1>8 DEF UndoMm
  <2>3. /\ Gets(child[t], "mm", Null) /\ Counted("mm", res[child[t]]["mm"], -1)
        /\ mm_count' \in [Object -> Int] /\ pc' \in [Task -> Pcs]
        /\ vfork_done' = [vfork_done EXCEPT ![t] = NoTask] /\ active_mm' = active_mm
    BY <2>1, <2>2, MmExited
  <2> QED BY <2>3, <1>8 DEF Types, Gets, Counted, UndoMm
<1>9. ASSUME NEW t \in Task, UndoKind(t)
      PROVE  Types'
  <2>1. PICK k \in All, next \in Steps : Undo(t, k, next) /\ pc[t] \in Steps
    BY <1>9, Tables DEF UndoKind, Steps
  <2>2. child[t] \in Task
    BY <2>1 DEF Making
  <2>3. Gets(child[t], k, Null) /\ Counted(k, res[child[t]][k], -1)
    BY <2>1, <2>2, Dropped DEF Undo
  <2> QED BY <2>1, <2>3 DEF Types, Pcs, Gets, Counted, Undo, Goto, mms
<1>10. ASSUME NEW t \in Task, ForkFail(t)
      PROVE  Types'
  <2>1. [k \in All |-> Null] \in [All -> Object \cup {Null}]
    OBVIOUS
  <2>2. "user" \in Pcs /\ "none" \in Pcs
    BY DEF Pcs
  <2> QED BY <2>1, <2>2, <1>10 DEF Types, ForkFail
<1>11. ASSUME NEW t \in Task, ExitMm(t)
      PROVE  Types'
  <2>1. "exit_files" \in Pcs
    BY DEF Pcs, Exiting, Daemonizing
  <2>2. exit_mm(t, t, "exit_files") /\ pc[t] = "user"
    BY <1>11 DEF ExitMm
  <2>3. /\ Gets(t, "mm", Null) /\ Counted("mm", res[t]["mm"], -1)
        /\ mm_count' \in [Object -> Int] /\ pc' \in [Task -> Pcs]
        /\ vfork_done' = [vfork_done EXCEPT ![t] = NoTask] /\ active_mm' = active_mm
    BY <2>1, <2>2, MmExited
  <2> QED BY <2>3, <1>11 DEF Types, Gets, Counted, ExitMm
<1>12. ASSUME NEW t \in Task, ExitKind(t)
      PROVE  Types'
  <2>1. PICK k \in All, next \in Exiting : Drop(t, k) /\ Goto(t, next)
    BY <1>12, Tables DEF ExitKind, Exiting
  <2>2. Gets(t, k, Null) /\ Counted(k, res[t][k], -1)
    BY <2>1, Dropped
  <2> QED BY <2>1, <2>2, <1>12 DEF Types, Pcs, Gets, Counted, ExitKind, Goto, mms
<1>13. ASSUME NEW t \in Task, ExitEnd(t)
      PROVE  Types'
  BY TaskAssumption, UseAssumption, <1>13 DEF Types, Pcs, Steps, Exiting, Daemonizing,
     Kinds, All, ExitEnd, DropActive, Goto, call, mms, charges
<1>14. ASSUME NEW t \in Task, release_task(t)
      PROVE  Types'
  BY TaskAssumption, UseAssumption, <1>14 DEF Types, Pcs, Steps, Exiting, Daemonizing,
     Kinds, All, release_task, Goto, call, mms, charges
<1>15. ASSUME NEW t \in Task, DaemonizeMm(t)
      PROVE  Types'
  <2>1. "daemonize_fs" \in Pcs
    BY DEF Pcs, Exiting, Daemonizing
  <2>2. exit_mm(t, t, "daemonize_fs") /\ pc[t] = "user"
    BY <1>15 DEF DaemonizeMm
  <2>3. /\ Gets(t, "mm", Null) /\ Counted("mm", res[t]["mm"], -1)
        /\ mm_count' \in [Object -> Int] /\ pc' \in [Task -> Pcs]
        /\ vfork_done' = [vfork_done EXCEPT ![t] = NoTask] /\ active_mm' = active_mm
    BY <2>1, <2>2, MmExited
  <2> QED BY <2>3, <1>15 DEF Types, Gets, Counted, DaemonizeMm
<1>16. ASSUME NEW t \in Task, DaemonizeKind(t)
      PROVE  Types'
  <2>1. PICK k \in All, next \in Pcs : Adopt(t, k) /\ Goto(t, next)
    BY <1>16, Tables DEF DaemonizeKind, Daemonizing, Pcs
  <2> QED BY <2>1, <1>16, Adopted DEF Types, Gets, DaemonizeKind, Goto, mms
<1>17. ASSUME NEW t \in Task, SwitchFrom(t)
      PROVE  Types'
  BY TaskAssumption, UseAssumption, <1>17 DEF Types, Pcs, Steps, Exiting, Daemonizing,
     Kinds, All, SwitchFrom, DropActive, call, mms, charges
<1>18. ASSUME NEW t \in Task, NEW o \in Object, SwitchTo(t, o)
      PROVE  Types'
  BY TaskAssumption, UseAssumption, <1>18 DEF Types, Pcs, Steps, Exiting, Daemonizing,
     Kinds, All, SwitchTo, call, mms, charges
<1>19. CASE UNCHANGED vars
  BY <1>19 DEF vars, call, mms, charges, Types, Pcs, Steps, Exiting, Daemonizing, Kinds, All
<1> QED BY <1>1, <1>2, <1>3, <1>4, <1>5, <1>6, <1>7, <1>8, <1>9, <1>10, <1>11, <1>12,
           <1>13, <1>14, <1>15, <1>16, <1>17, <1>18, <1>19 DEF Next, Step, Unwind,
           copy_kind, UndoKind

(* Only the beginning and the end of do_fork make and unmake embryos. *)
LEMMA MakingKept ==
  ASSUME Making, child' = child,
         \A s \in Task : \/ pc'[s] = pc[s]
                         \/ /\ pc[s] # "embryo" /\ pc'[s] # "embryo"
                            /\ pc[s] \in Steps <=> pc'[s] \in Steps
  PROVE  Making'
BY DEF Making

LEMMA MakingStep ==
  ASSUME Types, Completion, Making, [Next]_vars
  PROVE  Making'
<1>1. ASSUME NEW t \in Task, NEW c \in Task, NEW flags \in Flags, ForkBegin(t, c, flags)
      PROVE  Making'
  <2>1. /\ pc \in [Task -> Pcs] /\ child \in [Task -> Task \cup {NoTask}]
        /\ pc[t] = "user" /\ pc[c] = "none" /\ t # c
        /\ pc' = [pc EXCEPT ![t] = "files", ![c] = "embryo"]
        /\ child' = [child EXCEPT ![t] = c]
    BY <1>1 DEF Types, ForkBegin, Begin
  <2>2. "files" \in Steps /\ "embryo" \notin Steps /\ "none" \notin Steps /\ "user" \notin Steps
    BY DEF Steps, Kinds
  <2> QED BY <2>1, <2>2, TaskAssumption DEF Making
<1>2. ASSUME NEW t \in Task, NEW k \in Kinds, copy_kind(t, k), Share(t, k)
      PROVE  Making'
  <2>1. child' = child /\ pc[t] = k /\ \E next \in Steps : Goto(t, next)
    BY <1>2, Tables DEF copy_kind, Share, Steps
  <2> QED BY <2>1, <1>2, MakingKept, Tables DEF Goto, Types, Steps
<1>3. ASSUME NEW t \in Task, NEW k \in Kinds, copy_kind(t, k), Copy(t, k)
      PROVE  Making'
  <2>1. child' = child /\ pc[t] = k /\ \E next \in Steps : Goto(t, next)
    BY <1>3, Tables DEF copy_kind, Copy, Steps
  <2> QED BY <2>1, <1>3, MakingKept, Tables DEF Goto, Types, Steps
<1>4. ASSUME NEW t \in Task, NEW k \in Kinds, copy_kind(t, k), CopyFails(t, k)
      PROVE  Making'
  <2>1. child' = child /\ pc[t] = k /\ \E next \in Steps : Goto(t, next)
    BY <1>4, Tables DEF copy_kind, CopyFails, Steps
  <2> QED BY <2>1, <1>4, MakingKept, Tables DEF Goto, Types, Steps
<1>5. ASSUME NEW t \in Task, copy_mm(t)
      PROVE  Making'
  <2>1. child' = child /\ pc[t] = "mm" /\ \E next \in Steps : Goto(t, next)
    BY <1>5, Tables DEF copy_mm, Steps
  <2> QED BY <2>1, <1>5, MakingKept, Tables DEF Goto, Types, Steps
<1>6. ASSUME NEW t \in Task, copy_namespace(t)
      PROVE  Making'
  <2>1. child' = child /\ pc[t] = "namespace" /\ \E next \in Steps : Goto(t, next)
    BY <1>6, Tables DEF copy_namespace, Steps
  <2> QED BY <2>1, <1>6, MakingKept, Tables DEF Goto, Types, Steps
<1>7. ASSUME NEW t \in Task, ForkEnd(t)
      PROVE  Making'
  <2>1. /\ pc \in [Task -> Pcs] /\ child \in [Task -> Task \cup {NoTask}]
        /\ pc[t] \in Steps /\ child' = [child EXCEPT ![t] = NoTask]
    BY <1>7 DEF Types, ForkEnd, Steps
  <2>2. child[t] \in Task /\ pc[child[t]] = "embryo"
    BY <2>1 DEF Making
  <2>3. PICK next \in {"user", "vfork"} : pc' = [pc EXCEPT ![child[t]] = "user", ![t] = next]
    BY <1>7 DEF ForkEnd
  <2>4. Steps \cap {"user", "vfork", "embryo"} = {}
    BY DEF Steps, Kinds
  <2> QED BY <2>1, <2>2, <2>3, <2>4, TaskAssumption DEF Making
<1>8. ASSUME NEW t \in Task, UndoMm(t)
      PROVE  Making'
  <2>1. child[t] \in Task /\ pc[t] \in Steps /\ "undo_sig" \in Pcs \cap Steps
    BY <1>8 DEF Making, UndoMm, Steps, Pcs
  <2>2. exit_mm(t, child[t], "undo_sig") /\ child' = child
    BY <1>8 DEF UndoMm
  <2>3. \A s \in Task \ {t} :
          pc'[s] = pc[s] \/ (pc'[s] = "user" /\ pc[s] = "vfork")
    BY <2>1, <2>2, MmExited, TaskAssumption
  <2>4. pc'[t] = "undo_sig"
    BY <2>1, <2>2, MmExited
  <2> QED BY <2>1, <2>2, <2>3, <2>4, MakingKept DEF Steps, Kinds
<1>9. ASSUME NEW t \in Task, UndoKind(t)
      PROVE  Making'
  <2>1. child' = child /\ pc[t] \in Steps \ {"embryo"} /\ \E next \in Steps : Goto(t, next)
    BY <1>9 DEF UndoKind, Undo, Steps
  <2> QED BY <2>1, MakingKept DEF Goto, Types, Steps, Kinds
<1>10. ASSUME NEW t \in Task, ForkFail(t)
      PROVE  Making'
  <2>1. /\ pc \in [Task -> Pcs] /\ child \in [Task -> Task \cup {NoTask}]
        /\ pc[t] \in Steps /\ child' = [child EXCEPT ![t] = NoTask]
        /\ pc' = [pc EXCEPT ![t] = "user", ![child[t]] = "none"]
    BY <1>10 DEF Types, ForkFail, Steps
  <2>2. child[t] \in Task /\ pc[child[t]] = "embryo"
    BY <2>1 DEF Making
  <2>3. Steps \cap {"user", "none", "embryo"} = {}
    BY DEF Steps, Kinds
  <2> QED BY <2>1, <2>2, <2>3, TaskAssumption DEF Making
<1>11. ASSUME NEW t \in Task, ExitMm(t)
      PROVE  Making'
  <2>1. "exit_files" \in Pcs
    BY DEF Pcs, Exiting, Daemonizing
  <2>2. exit_mm(t, t, "exit_files") /\ pc[t] = "user" /\ child' = child
    BY <1>11 DEF ExitMm
  <2>3. \A s \in Task \ {t} :
          pc'[s] = pc[s] \/ (pc'[s] = "user" /\ pc[s] = "vfork")
    BY <2>1, <2>2, MmExited, TaskAssumption
  <2>4. pc'[t] = "exit_files"
    BY <2>1, <2>2, MmExited
  <2> QED BY <2>1, <2>2, <2>3, <2>4, MakingKept DEF Steps, Kinds
<1>12. ASSUME NEW t \in Task, ExitKind(t)
      PROVE  Making'
  <2>1. child' = child /\ pc[t] \in Exiting /\ \E next \in Exiting : Goto(t, next)
    BY <1>12 DEF ExitKind, Exiting
  <2> QED BY <2>1, MakingKept DEF Goto, Types, Exiting, Steps, Kinds
<1>13. ASSUME NEW t \in Task, ExitEnd(t)
      PROVE  Making'
  <2>1. child' = child /\ pc[t] = "exit" /\ Goto(t, "zombie")
    BY <1>13 DEF ExitEnd
  <2> QED BY <2>1, MakingKept DEF Goto, Types, Steps, Kinds
<1>14. ASSUME NEW t \in Task, release_task(t)
      PROVE  Making'
  <2>1. child' = child /\ pc[t] = "zombie" /\ Goto(t, "none")
    BY <1>14 DEF release_task
  <2> QED BY <2>1, MakingKept DEF Goto, Types, Steps, Kinds
<1>15. ASSUME NEW t \in Task, DaemonizeMm(t)
      PROVE  Making'
  <2>1. "daemonize_fs" \in Pcs
    BY DEF Pcs, Exiting, Daemonizing
  <2>2. exit_mm(t, t, "daemonize_fs") /\ pc[t] = "user" /\ child' = child
    BY <1>15 DEF DaemonizeMm
  <2>3. \A s \in Task \ {t} :
          pc'[s] = pc[s] \/ (pc'[s] = "user" /\ pc[s] = "vfork")
    BY <2>1, <2>2, MmExited, TaskAssumption
  <2>4. pc'[t] = "daemonize_fs"
    BY <2>1, <2>2, MmExited
  <2> QED BY <2>1, <2>2, <2>3, <2>4, MakingKept DEF Steps, Kinds
<1>16. ASSUME NEW t \in Task, DaemonizeKind(t)
      PROVE  Making'
  <2>1. /\ child' = child /\ pc[t] \in Daemonizing
        /\ \E next \in Daemonizing \cup {"user"} : Goto(t, next)
    BY <1>16 DEF DaemonizeKind, Daemonizing
  <2> QED BY <2>1, MakingKept DEF Goto, Types, Daemonizing, Steps, Kinds
<1>17. ASSUME NEW t \in Task, SwitchFrom(t)
      PROVE  Making'
  BY <1>17 DEF SwitchFrom, call, Making
<1>18. ASSUME NEW t \in Task, NEW o \in Object, SwitchTo(t, o)
      PROVE  Making'
  BY <1>18 DEF SwitchTo, call, Making
<1>19. CASE UNCHANGED vars
  BY <1>19 DEF vars, call, mms, charges, Making
<1> QED BY <1>1, <1>2, <1>3, <1>4, <1>5, <1>6, <1>7, <1>8, <1>9, <1>10, <1>11, <1>12,
           <1>13, <1>14, <1>15, <1>16, <1>17, <1>18, <1>19 DEF Next, Step, Unwind,
           copy_kind, UndoKind

(* Memory that holds no task, and a task that has left, stay as they are. *)
Left == Exiting \cup Daemonizing \cup Dead

LEMMA GivenUpKept ==
  ASSUME GivenUp,
         \A s \in Task : \/ pc'[s] \notin Left
                         \/ /\ pc'[s] = pc[s] /\ active_mm'[s] = active_mm[s]
                            /\ \A k \in All : res'[s][k] = res[s][k]
  PROVE  GivenUp'
BY Tables DEF GivenUp, Left, Exiting, Dead

LEMMA GivenUpStep ==
  ASSUME Types, Completion, Making, GivenUp, [Next]_vars
  PROVE  GivenUp'
<1>1. ASSUME NEW t \in Task, NEW c \in Task, NEW flags \in Flags, ForkBegin(t, c, flags)
      PROVE  GivenUp'
  <2>1. /\ pc' = [pc EXCEPT ![t] = "files", ![c] = "embryo"] /\ active_mm' = active_mm
        /\ res' = [res EXCEPT ![c] = res[t]]
    BY <1>1 DEF ForkBegin, Begin, mms
  <2>2. \A s \in Task \ {t, c} :
          pc'[s] = pc[s] /\ active_mm'[s] = active_mm[s] /\ res'[s] = res[s]
    BY <2>1 DEF Types
  <2>3. pc'[t] \in {"files", "embryo"} /\ pc'[c] = "embryo"
    BY <2>1 DEF Types
  <2> QED BY <2>2, <2>3, GivenUpKept, Tables DEF Left, Exiting, Daemonizing, Dead
<1>2. ASSUME NEW t \in Task, NEW k \in Kinds, copy_kind(t, k), Share(t, k)
      PROVE  GivenUp'
  <2>1. pc[t] = k /\ k \in All /\ active_mm' = active_mm /\ \E next \in Steps : Goto(t, next)
    BY <1>2, Tables DEF copy_kind, Share, Steps, mms
  <2>2. child[t] \in Task /\ pc[child[t]] = "embryo"
    BY <2>1, Tables DEF Making, Steps
  <2> QED BY <2>1, <2>2, <1>2, GivenUpKept, Tables
         DEF Gets, Share, Goto, Types, Steps, Left, Exiting, Daemonizing, Dead
<1>3. ASSUME NEW t \in Task, NEW k \in Kinds, copy_kind(t, k), Copy(t, k)
      PROVE  GivenUp'
  <2>1. pc[t] = k /\ k \in All /\ active_mm' = active_mm /\ \E next \in Steps : Goto(t, next)
    BY <1>3, Tables DEF copy_kind, Copy, Steps, mms
  <2>2. child[t] \in Task /\ pc[child[t]] = "embryo"
    BY <2>1, Tables DEF Making, Steps
  <2>3. PICK o \in Object : Gets(child[t], k, o)
    BY <2>2, <1>3, KindCopied
  <2> QED BY <2>1, <2>2, <2>3, <1>3, GivenUpKept, Tables
         DEF Gets, Goto, Types, Steps, Left, Exiting, Daemonizing, Dead
<1>4. ASSUME NEW t \in Task, NEW k \in Kinds, copy_kind(t, k), CopyFails(t, k)
      PROVE  GivenUp'
  <2>1. pc[t] = k /\ k \in All /\ active_mm' = active_mm /\ \E next \in Steps : Goto(t, next)
    BY <1>4, Tables DEF copy_kind, CopyFails, Steps, mms
  <2>2. child[t] \in Task /\ pc[child[t]] = "embryo"
    BY <2>1, Tables DEF Making, Steps
  <2>3. Gets(child[t], k, Null)
    BY <2>1, <2>2, <1>4, ResSet DEF CopyFails
  <2> QED BY <2>1, <2>2, <2>3, <1>4, GivenUpKept, Tables
         DEF Gets, Goto, Types, Steps, Left, Exiting, Daemonizing, Dead
<1>5. ASSUME NEW t \in Task, copy_mm(t)
      PROVE  GivenUp'
  <2>1. PICK o \in Object \cup {Null} : MmCopied(t, o)
    BY <1>5, CopyMm
  <2>2. /\ pc[t] = "mm" /\ Gets(child[t], "mm", o) /\ \E next \in Steps : Goto(t, next)
        /\ active_mm' = [active_mm EXCEPT ![child[t]] = o]
    BY <2>1 DEF MmCopied, Steps
  <2>3. child[t] \in Task /\ pc[child[t]] = "embryo"
    BY <2>2, Tables DEF Making, Steps
  <2> QED BY <2>2, <2>3, GivenUpKept, Tables
         DEF Gets, Goto, Types, Steps, Left, Exiting, Daemonizing, Dead
<1>6. ASSUME NEW t \in Task, copy_namespace(t)
      PROVE  GivenUp'
  <2>1. /\ pc[t] = "namespace" /\ active_mm' = active_mm /\ res' = res
        /\ \E next \in Steps : Goto(t, next)
    BY <1>6, Tables DEF copy_namespace, Steps, mms
  <2> QED BY <2>1, GivenUpKept, Tables DEF Goto, Types, Steps, Left, Exiting, Daemonizing, Dead
<1>7. ASSUME NEW t \in Task, ForkEnd(t)
      PROVE  GivenUp'
  <2>1. /\ pc[t] \in Steps /\ active_mm' = active_mm /\ res' = res
        /\ \E next \in {"user", "vfork"} : pc' = [pc EXCEPT ![child[t]] = "user", ![t] = next]
    BY <1>7 DEF ForkEnd, Steps, mms
  <2> QED BY <2>1, GivenUpKept DEF Types, Left, Exiting, Daemonizing, Dead
<1>8. ASSUME NEW t \in Task, UndoMm(t)
      PROVE  GivenUp'
  <2>1. child[t] \in Task /\ pc[t] \in Steps /\ "undo_sig" \in Pcs /\ pc[child[t]] = "embryo"
    BY <1>8 DEF Making, UndoMm, Steps, Pcs
  <2>2. exit_mm(t, child[t], "undo_sig")
    BY <1>8 DEF UndoMm
  <2>3. \A s \in Task \ {t} : pc'[s] = pc[s] \/ pc'[s] = "user"
    BY <2>1, <2>2, MmExited, TaskAssumption
  <2>4. pc'[t] = "undo_sig" /\ Gets(child[t], "mm", Null) /\ active_mm' = active_mm
    BY <2>1, <2>2, MmExited
  <2> QED BY <2>1, <2>3, <2>4, GivenUpKept, Tables DEF Gets, Left, Exiting, Daemonizing, Dead
<1>9. ASSUME NEW t \in Task, UndoKind(t)
      PROVE  GivenUp'
  <2>1. PICK k \in All, next \in Steps : Undo(t, k, next) /\ pc[t] \in Steps
    BY <1>9, Tables DEF UndoKind, Steps
  <2>2. child[t] \in Task /\ pc[child[t]] = "embryo"
    BY <2>1 DEF Making
  <2>3. Gets(child[t], k, Null) /\ active_mm' = active_mm
    BY <2>1, <2>2, Dropped DEF Undo, mms
  <2> QED BY <2>1, <2>2, <2>3, GivenUpKept, Tables
         DEF Gets, Undo, Goto, Types, Steps, Left, Exiting, Daemonizing, Dead
<1>10. ASSUME NEW t \in Task, ForkFail(t)
      PROVE  GivenUp'
  <2>1. /\ pc[t] \in Steps
        /\ pc' = [pc EXCEPT ![t] = "user", ![child[t]] = "none"]
        /\ res' = [res EXCEPT ![child[t]] = [k \in All |-> Null]]
        /\ active_mm' = [active_mm EXCEPT ![child[t]] = Null]
    BY <1>10 DEF ForkFail, Steps
  <2>2. child[t] \in Task /\ t # child[t]
    BY <2>1 DEF Making, Steps, Kinds
  <2>3. \A k \in All : res'[child[t]][k] = Null
    BY <2>1, <2>2 DEF Types
  <2> QED BY <2>1, <2>2, <2>3, Tables DEF Types, GivenUp, Left, Exiting, Daemonizing, Dead
<1>11. ASSUME NEW t \in Task, ExitMm(t)
      PROVE  GivenUp'
  <2>1. "exit_files" \in Pcs
    BY DEF Pcs, Exiting, Daemonizing
  <2>2. exit_mm(t, t, "exit_files") /\ pc[t] = "user"
    BY <1>11 DEF ExitMm
  <2>3. \A s \in Task \ {t} : pc'[s] = pc[s] \/ pc'[s] = "user"
    BY <2>1, <2>2, MmExited, TaskAssumption
  <2>4. pc'[t] = "exit_files" /\ Gets(t, "mm", Null) /\ active_mm' = active_mm
    BY <2>1, <2>2, MmExited
  <2> QED BY <2>3, <2>4, Tables DEF GivenUp, Gets, Left, Exiting, Daemonizing, Dead
<1>12. ASSUME NEW t \in Task, ExitKind(t)
      PROVE  GivenUp'
  <2>1. PICK k \in Kinds, next \in Exiting :
            /\ Drop(t, k) /\ Goto(t, next)
            /\ \/ pc[t] = "exit_files" /\ k = "files" /\ next = "exit_fs"
               \/ pc[t] = "exit_fs" /\ k = "fs" /\ next = "exit_sig"
               \/ pc[t] = "exit_sig" /\ k = "sig" /\ next = "exit"
    BY <1>12, Tables DEF ExitKind, Exiting
  <2>2. k \in All /\ Gets(t, k, Null) /\ active_mm' = active_mm
    BY <2>1, Dropped, <1>12, Tables DEF ExitKind, mms
  <2> QED BY <2>1, <2>2, Tables DEF Gets, Goto, Types, GivenUp, Exiting, Daemonizing, Dead
<1>13. ASSUME NEW t \in Task, ExitEnd(t)
      PROVE  GivenUp'
  <2>1. /\ pc[t] = "exit" /\ Goto(t, "zombie") /\ res' = res
        /\ active_mm' = [active_mm EXCEPT ![t] = Null]
    BY <1>13 DEF ExitEnd, DropActive
  <2> QED BY <2>1 DEF Goto, Types, GivenUp, Exiting, Daemonizing, Dead
<1>14. ASSUME NEW t \in Task, release_task(t)
      PROVE  GivenUp'
  <2>1. pc[t] = "zombie" /\ Goto(t, "none") /\ res' = res /\ active_mm' = active_mm
    BY <1>14 DEF release_task, mms
  <2> QED BY <2>1 DEF Goto, Types, GivenUp, Exiting, Daemonizing, Dead
<1>15. ASSUME NEW t \in Task, DaemonizeMm(t)
      PROVE  GivenUp'
  <2>1. "daemonize_fs" \in Pcs
    BY DEF Pcs, Exiting, Daemonizing
  <2>2. exit_mm(t, t, "daemonize_fs") /\ pc[t] = "user"
    BY <1>15 DEF DaemonizeMm
  <2>3. \A s \in Task \ {t} : pc'[s] = pc[s] \/ pc'[s] = "user"
    BY <2>1, <2>2, MmExited, TaskAssumption
  <2>4. pc'[t] = "daemonize_fs" /\ Gets(t, "mm", Null) /\ active_mm' = active_mm
    BY <2>1, <2>2, MmExited
  <2> QED BY <2>3, <2>4, Tables DEF GivenUp, Gets, Left, Exiting, Daemonizing, Dead
<1>16. ASSUME NEW t \in Task, DaemonizeKind(t)
      PROVE  GivenUp'
  <2>1. PICK k \in Kinds, next \in {"daemonize_files", "user"} :
            Adopt(t, k) /\ Goto(t, next) /\ pc[t] \in Daemonizing
    BY <1>16, Tables DEF DaemonizeKind, Daemonizing
  <2>2. k \in All /\ Gets(t, k, res[InitTask][k]) /\ active_mm' = active_mm
    BY <2>1, Adopted, <1>16, Tables DEF DaemonizeKind, mms
  <2> QED BY <2>1, <2>2, Tables DEF Gets, Goto, Types, GivenUp, Exiting, Daemonizing, Dead
<1>17. ASSUME NEW t \in Task, SwitchFrom(t)
      PROVE  GivenUp'
  <2>1. pc' = pc /\ res' = res /\ active_mm' = [active_mm EXCEPT ![t] = Null] /\ pc[t] \notin Dead
    BY <1>17 DEF SwitchFrom, DropActive, call, Lazy, Dead
  <2> QED BY <2>1 DEF GivenUp, Types
<1>18. ASSUME NEW t \in Task, NEW o \in Object, SwitchTo(t, o)
      PROVE  GivenUp'
  <2>1. pc' = pc /\ res' = res /\ active_mm' = [active_mm EXCEPT ![t] = o] /\ pc[t] \notin Dead
    BY <1>18 DEF SwitchTo, DropActive, call, Lazy, Dead
  <2> QED BY <2>1 DEF GivenUp, Types
<1>19. CASE UNCHANGED vars
  BY <1>19 DEF vars, call, mms, charges, GivenUp
<1> QED BY <1>1, <1>2, <1>3, <1>4, <1>5, <1>6, <1>7, <1>8, <1>9, <1>10, <1>11, <1>12,
           <1>13, <1>14, <1>15, <1>16, <1>17, <1>18, <1>19 DEF Next, Step, Unwind,
           copy_kind, UndoKind

(* A step of t changes the structures of one task x, and moves no other task to a
   step of do_fork.                                                              *)
Changes(t, x) ==
  /\ \A s \in Task \ {x} :
       /\ \A k \in All : res'[s][k] = res[s][k]
       /\ active_mm'[s] = active_mm[s]
       /\ pc[s] = "embryo" => pc'[s] = "embryo"
  /\ \A s \in Task \ {t} : child'[s] = child[s] /\ (pc'[s] = pc[s] \/ pc'[s] \notin Steps)

(* Neither another task in do_fork nor its child is the one that changes. *)
LEMMA OthersKept ==
  ASSUME Making, NEW t \in Task, NEW x \in Task, Changes(t, x),
         pc[t] # "embryo", x \in {t, child[t]} \/ pc[x] = "none",
         NEW s \in Task, s # t, pc'[s] \in Steps
  PROVE  /\ pc'[s] = pc[s] /\ child'[s] = child[s] /\ child[s] \in Task
         /\ \A k \in All : res'[s][k] = res[s][k] /\ res'[child[s]][k] = res[child[s]][k]
         /\ active_mm'[child[s]] = active_mm[child[s]]
<1>1. pc'[s] = pc[s] /\ child'[s] = child[s]
  BY DEF Changes
<1>2. pc[s] \in Steps /\ pc[s] # "embryo" /\ pc[s] # "none"
  BY <1>1 DEF Steps, Kinds
<1>3. child[s] \in Task /\ pc[child[s]] = "embryo"
  BY <1>2 DEF Making
<1>4. s # x /\ child[s] # x
  <2>1. CASE x = child[t]
    <3>1. pc[x] = "embryo"
      BY <2>1, TaskAssumption DEF Making
    <3> QED BY <1>2, <1>3, <2>1, <3>1, TaskAssumption DEF Making
  <2>2. CASE x = t \/ pc[x] = "none"
    BY <1>2, <1>3, <2>2
  <2> QED BY <2>1, <2>2
<1> QED BY <1>1, <1>3, <1>4 DEF Changes

LEMMA InheritsKept ==
  ASSUME Making, Inherits, NEW t \in Task, NEW x \in Task, Changes(t, x),
         pc[t] # "embryo", x \in {t, child[t]} \/ pc[x] = "none",
         pc'[t] \in All =>
           \A k \in All : k \notin Given(pc'[t]) => res'[child'[t]][k] = res'[t][k]
  PROVE  Inherits'
<1> SUFFICES ASSUME NEW s \in Task, s # t, pc'[s] \in All,
                    NEW k \in All, k \notin Given(pc'[s])
             PROVE  res'[child'[s]][k] = res'[s][k]
  BY DEF Inherits
<1>1. pc'[s] \in Steps
  BY Tables DEF Steps
<1> QED BY <1>1, OthersKept DEF Inherits

LEMMA ActiveKept ==
  ASSUME Making, Active, NEW t \in Task, NEW x \in Task, Changes(t, x),
         pc[t] # "embryo", x \in {t, child[t]} \/ pc[x] = "none",
         pc'[x] # "embryo" /\ res'[x]["mm"] # Null => active_mm'[x] = res'[x]["mm"],
         pc'[t] \in {"namespace", "thread"} =>
           /\ active_mm'[child'[t]] = res'[child'[t]]["mm"]
           /\ res'[t]["mm"] = Null => res'[child'[t]]["mm"] = Null,
         pc'[t] = "undo_mm" /\ "namespace" \notin Fails =>
           res'[t]["mm"] = Null /\ res'[child'[t]]["mm"] = Null
  PROVE  Active'
<1>1. \A s \in Task \ {x} :
        pc'[s] # "embryo" /\ res'[s]["mm"] # Null => active_mm'[s] = res'[s]["mm"]
  BY Tables DEF Active, Changes
<1>2. ASSUME NEW s \in Task, s # t, pc'[s] \in {"namespace", "thread", "undo_mm"}
      PROVE  /\ pc'[s] = pc[s] /\ child'[s] = child[s] /\ res'[s]["mm"] = res[s]["mm"]
             /\ res'[child[s]]["mm"] = res[child[s]]["mm"]
             /\ active_mm'[child[s]] = active_mm[child[s]]
  BY <1>2, OthersKept, Tables DEF Steps
<1> QED BY <1>1, <1>2 DEF Active

LEMMA InheritsStep ==
  ASSUME Types, Completion, Making, GivenUp, Inherits, Active, [Next]_vars
  PROVE  Inherits' /\ Active'
<1>1. ASSUME NEW t \in Task, NEW c \in Task, NEW flags \in Flags, ForkBegin(t, c, flags)
      PROVE  Inherits' /\ Active'
  <2>1. /\ pc[t] = "user" /\ pc[c] = "none" /\ c # t /\ child' = [child EXCEPT ![t] = c]
        /\ pc' = [pc EXCEPT ![t] = "files", ![c] = "embryo"]
        /\ res' = [res EXCEPT ![c] = res[t]] /\ active_mm' = active_mm
    BY <1>1 DEF ForkBegin, Begin, mms
  <2>2. Changes(t, c)
    BY <2>1, Tables DEF Types, Changes, Steps
  <2>3. res'[c] = res[t] /\ res'[t] = res[t] /\ child'[t] = c
    BY <2>1 DEF Types
  <2>4. pc'[c] = "embryo" /\ pc'[t] = "files"
    BY <2>1 DEF Types
  <2> QED BY <2>1, <2>2, <2>3, <2>4, InheritsKept, ActiveKept
<1>2. ASSUME NEW t \in Task, NEW k \in Kinds, copy_kind(t, k), Share(t, k)
      PROVE  Inherits' /\ Active'
  <2>1. /\ pc[t] = k /\ k \in All /\ Goto(t, After[k]) /\ child' = child
        /\ active_mm' = active_mm
    BY <1>2, Tables DEF copy_kind, Share, mms
  <2>2. child[t] \in Task /\ t # child[t] /\ pc[child[t]] = "embryo"
    BY <2>1, Tables DEF Making, Steps
  <2>3. res' = res /\ pc'[t] = After[k]
    BY <2>1, <1>2 DEF Share, Goto, Types
  <2>4. Changes(t, child[t]) /\ pc'[child[t]] = "embryo"
    BY <2>1, <2>2, <2>3, Tables DEF Types, Changes, Goto, Steps
  <2>5. \A j \in All : j \notin Given(After[k]) => j \notin Given(k)
    BY Tables, Givens
  <2>6. \A j \in All : j \notin Given(pc'[t]) => res'[child'[t]][j] = res'[t][j]
    BY <2>1, <2>3, <2>5 DEF Inherits
  <2> QED BY <2>1, <2>2, <2>3, <2>4, <2>6, InheritsKept, ActiveKept, Tables
<1>3. ASSUME NEW t \in Task, NEW k \in Kinds, copy_kind(t, k), Copy(t, k)
      PROVE  Inherits' /\ Active'
  <2>1. /\ pc[t] = k /\ k \in All /\ Goto(t, After[k]) /\ child' = child
        /\ active_mm' = active_mm
    BY <1>3, Tables DEF copy_kind, Copy, mms
  <2>2. child[t] \in Task /\ t # child[t] /\ pc[child[t]] = "embryo"
    BY <2>1, Tables DEF Making, Steps
  <2>3. PICK o \in Object : Gets(child[t], k, o)
    BY <2>2, <1>3, KindCopied
  <2>4. Changes(t, child[t]) /\ pc'[t] = After[k] /\ pc'[child[t]] = "embryo"
    BY <2>1, <2>2, <2>3, Tables DEF Types, Changes, Goto, Gets, Steps
  <2>5. \A j \in All : j \notin Given(After[k]) => j \notin Given(k) /\ j # k
    BY Tables, Givens, <1>3
  <2>6. \A j \in All : j \notin Given(pc'[t]) => res'[child'[t]][j] = res'[t][j]
    BY <2>1, <2>2, <2>3, <2>4, <2>5 DEF Inherits, Gets
  <2> QED BY <2>1, <2>2, <2>4, <2>6, InheritsKept, ActiveKept, Tables
<1>4. ASSUME NEW t \in Task, NEW k \in Kinds, copy_kind(t, k), CopyFails(t, k)
      PROVE  Inherits' /\ Active'
  <2>1. /\ pc[t] = k /\ k \in All /\ Goto(t, Label[k]) /\ child' = child
        /\ active_mm' = active_mm
    BY <1>4, Tables DEF copy_kind, CopyFails, mms
  <2>2. child[t] \in Task /\ t # child[t] /\ pc[child[t]] = "embryo"
    BY <2>1, Tables DEF Making, Steps
  <2>3. Gets(child[t], k, Null)
    BY <2>1, <2>2, <1>4, ResSet DEF CopyFails
  <2>4. Changes(t, child[t]) /\ pc'[t] = Label[k] /\ pc'[child[t]] = "embryo"
    BY <2>1, <2>2, <2>3, <1>4, Tables DEF Types, Changes, Goto, Gets, Steps
  <2>5. pc'[t] \notin All \cup {"namespace", "thread", "undo_mm"}
    BY <2>4, Tables, <1>4
  <2> QED BY <2>1, <2>2, <2>4, <2>5, InheritsKept, ActiveKept, Tables
<1>5. ASSUME NEW t \in Task, copy_mm(t)
      PROVE  Inherits' /\ Active'
  <2>1. PICK o \in Object \cup {Null} : MmCopied(t, o)
    BY <1>5, CopyMm
  <2>2. /\ pc[t] = "mm" /\ Gets(child[t], "mm", o) /\ child' = child
        /\ active_mm' = [active_mm EXCEPT ![child[t]] = o]
        /\ Goto(t, "namespace") \/ Goto(t, "undo_sig")
    BY <2>1 DEF MmCopied
  <2>3. child[t] \in Task /\ t # child[t] /\ pc[child[t]] = "embryo"
    BY <2>2, Tables DEF Making, Steps
  <2>4. Changes(t, child[t]) /\ pc'[child[t]] = "embryo"
    BY <2>2, <2>3, Tables DEF Types, Changes, Goto, Gets, Steps
  <2>5. pc'[t] = "namespace" \/ pc'[t] = "undo_sig"
    BY <2>2 DEF Types, Goto
  <2>6. /\ active_mm'[child[t]] = res'[child[t]]["mm"]
        /\ pc'[t] = "namespace" /\ res'[t]["mm"] = Null => o = Null
        /\ res'[child[t]]["mm"] = o
    BY <2>1, <2>2, <2>3, Tables DEF MmCopied, Gets, Goto, Types
  <2> QED BY <2>2, <2>3, <2>4, <2>5, <2>6, InheritsKept, ActiveKept, Tables
<1>6. ASSUME NEW t \in Task, copy_namespace(t)
      PROVE  Inherits' /\ Active'
  <2>1. /\ pc[t] = "namespace" /\ res' = res /\ child' = child /\ active_mm' = active_mm
        /\ Goto(t, "thread") \/ Goto(t, "undo_mm")
    BY <1>6, Tables DEF copy_namespace, mms
  <2>2. Changes(t, t) /\ pc'[t] \in {"thread", "undo_mm"}
    BY <2>1, Tables DEF Types, Changes, Goto
  <2>3. pc'[t] = "undo_mm" /\ "namespace" \notin Fails => res[t]["mm"] = Null
    BY <1>6, Tables DEF copy_namespace, Goto, Types
  <2> QED BY <2>1, <2>2, <2>3, InheritsKept, ActiveKept, Tables DEF Active
<1>7. ASSUME NEW t \in Task, ForkEnd(t)
      PROVE  Inherits' /\ Active'
  <2>1. /\ pc[t] = "thread" /\ res' = res /\ child' = [child EXCEPT ![t] = NoTask]
        /\ active_mm' = active_mm
        /\ \E next \in {"user", "vfork"} : pc' = [pc EXCEPT ![child[t]] = "user", ![t] = next]
    BY <1>7 DEF ForkEnd, mms
  <2>2. child[t] \in Task /\ child[t] # t
    BY <2>1 DEF Making, Steps, Kinds
  <2>3. Changes(t, child[t]) /\ pc'[t] \in {"user", "vfork"}
    BY <2>1, <2>2, Tables DEF Types, Changes, Steps
  <2> QED BY <2>1, <2>2, <2>3, InheritsKept, ActiveKept, Tables DEF Active
<1>8. ASSUME NEW t \in Task, UndoMm(t)
      PROVE  Inherits' /\ Active'
  <2>1. /\ child[t] \in Task /\ pc[t] = "undo_mm" /\ pc[t] \in Steps /\ "undo_sig" \in Pcs
        /\ t # child[t]
    BY <1>8 DEF Making, UndoMm, Steps, Pcs
  <2>2. exit_mm(t, child[t], "undo_sig") /\ child' = child
    BY <1>8 DEF UndoMm
  <2>3. \A s \in Task \ {t} : pc'[s] = pc[s] \/ (pc'[s] = "user" /\ pc[s] = "vfork")
    BY <2>1, <2>2, MmExited, TaskAssumption
  <2>4. pc'[t] = "undo_sig" /\ Gets(child[t], "mm", Null) /\ active_mm' = active_mm
    BY <2>1, <2>2, MmExited
  <2>5. Changes(t, child[t]) /\ res'[child[t]]["mm"] = Null
    BY <2>1, <2>2, <2>3, <2>4, Tables DEF Changes, Gets, Steps
  <2> QED BY <2>1, <2>2, <2>4, <2>5, InheritsKept, ActiveKept, Tables
<1>9. ASSUME NEW t \in Task, UndoKind(t)
      PROVE  Inherits' /\ Active'
  <2>1. PICK k \in Kinds, next \in {"undo_fs", "undo_files", "undo"} :
            Undo(t, k, next) /\ pc[t] \in {"undo_sig", "undo_fs", "undo_files"}
    BY <1>9, Tables DEF UndoKind
  <2>2. child[t] \in Task /\ pc[child[t]] = "embryo" /\ pc[t] # "embryo"
    BY <2>1 DEF Making, Steps
  <2>3. k \in All /\ Gets(child[t], k, Null)
    BY <2>1, <2>2, Dropped, Tables DEF Undo
  <2>4. child' = child /\ active_mm' = active_mm /\ Goto(t, next)
    BY <2>1 DEF Undo, mms
  <2>5. Changes(t, child[t]) /\ pc'[t] = next /\ pc'[child[t]] = "embryo"
    BY <2>1, <2>2, <2>3, <2>4 DEF Types, Changes, Goto, Gets
  <2> QED BY <2>1, <2>2, <2>4, <2>5, InheritsKept, ActiveKept, Tables
<1>10. ASSUME NEW t \in Task, ForkFail(t)
      PROVE  Inherits' /\ Active'
  <2>1. /\ pc[t] = "undo" /\ child' = [child EXCEPT ![t] = NoTask]
        /\ pc' = [pc EXCEPT ![t] = "user", ![child[t]] = "none"]
        /\ res' = [res EXCEPT ![child[t]] = [k \in All |-> Null]]
        /\ active_mm' = [active_mm EXCEPT ![child[t]] = Null]
    BY <1>10 DEF ForkFail
  <2>2. child[t] \in Task /\ child[t] # t
    BY <2>1 DEF Making, Steps, Kinds
  <2>3. Changes(t, child[t]) /\ pc'[t] = "user"
    BY <2>1, <2>2, Tables DEF Types, Changes, Steps
  <2>4. res'[child[t]]["mm"] = Null
    BY <2>1, <2>2, Tables DEF Types
  <2>5. pc[t] # "embryo"
    BY <2>1
  <2> QED BY <2>2, <2>3, <2>4, <2>5, InheritsKept, ActiveKept, Tables
<1>11. ASSUME NEW t \in Task, ExitMm(t)
      PROVE  Inherits' /\ Active'
  <2>1. "exit_files" \in Pcs
    BY DEF Pcs, Exiting, Daemonizing
  <2>2. exit_mm(t, t, "exit_files") /\ pc[t] = "user" /\ child' = child
    BY <1>11 DEF ExitMm
  <2>3. \A s \in Task \ {t} : pc'[s] = pc[s] \/ (pc'[s] = "user" /\ pc[s] = "vfork")
    BY <2>1, <2>2, MmExited, TaskAssumption
  <2>4. pc'[t] = "exit_files" /\ Gets(t, "mm", Null) /\ active_mm' = active_mm
    BY <2>1, <2>2, MmExited
  <2>5. Changes(t, t) /\ res'[t]["mm"] = Null
    BY <2>1, <2>2, <2>3, <2>4, Tables DEF Changes, Gets, Steps
  <2> QED BY <2>2, <2>4, <2>5, InheritsKept, ActiveKept, Tables
<1>12. ASSUME NEW t \in Task, ExitKind(t)
      PROVE  Inherits' /\ Active'
  <2>1. PICK k \in Kinds, next \in Exiting : Drop(t, k) /\ Goto(t, next) /\ pc[t] \in Exiting
    BY <1>12, Tables DEF ExitKind, Exiting
  <2>2. k \in All /\ Gets(t, k, Null) /\ child' = child /\ active_mm' = active_mm
    BY <2>1, Dropped, <1>12, Tables DEF ExitKind, mms
  <2>3. Changes(t, t) /\ pc'[t] = next /\ res'[t]["mm"] = res[t]["mm"]
    BY <2>1, <2>2, Tables DEF Types, Changes, Goto, Gets
  <2> QED BY <2>1, <2>2, <2>3, InheritsKept, ActiveKept, Tables DEF Exiting, Active
<1>13. ASSUME NEW t \in Task, ExitEnd(t)
      PROVE  Inherits' /\ Active'
  <2>1. /\ pc[t] = "exit" /\ Goto(t, "zombie") /\ res' = res /\ child' = child
        /\ active_mm' = [active_mm EXCEPT ![t] = Null]
    BY <1>13 DEF ExitEnd, DropActive
  <2>2. Changes(t, t) /\ pc'[t] = "zombie" /\ res'[t]["mm"] = Null
    BY <2>1 DEF Types, Changes, Goto, GivenUp, Exiting
  <2> QED BY <2>1, <2>2, InheritsKept, ActiveKept, Tables
<1>14. ASSUME NEW t \in Task, release_task(t)
      PROVE  Inherits' /\ Active'
  <2>1. /\ pc[t] = "zombie" /\ Goto(t, "none") /\ res' = res /\ child' = child
        /\ active_mm' = active_mm
    BY <1>14 DEF release_task, mms
  <2>2. Changes(t, t) /\ pc'[t] = "none"
    BY <2>1 DEF Types, Changes, Goto
  <2> QED BY <2>1, <2>2, InheritsKept, ActiveKept, Tables DEF Active
<1>15. ASSUME NEW t \in Task, DaemonizeMm(t)
      PROVE  Inherits' /\ Active'
  <2>1. "daemonize_fs" \in Pcs
    BY DEF Pcs, Exiting, Daemonizing
  <2>2. exit_mm(t, t, "daemonize_fs") /\ pc[t] = "user" /\ child' = child
    BY <1>15 DEF DaemonizeMm
  <2>3. \A s \in Task \ {t} : pc'[s] = pc[s] \/ (pc'[s] = "user" /\ pc[s] = "vfork")
    BY <2>1, <2>2, MmExited, TaskAssumption
  <2>4. pc'[t] = "daemonize_fs" /\ Gets(t, "mm", Null) /\ active_mm' = active_mm
    BY <2>1, <2>2, MmExited
  <2>5. Changes(t, t) /\ res'[t]["mm"] = Null
    BY <2>1, <2>2, <2>3, <2>4, Tables DEF Changes, Gets, Steps
  <2> QED BY <2>2, <2>4, <2>5, InheritsKept, ActiveKept, Tables
<1>16. ASSUME NEW t \in Task, DaemonizeKind(t)
      PROVE  Inherits' /\ Active'
  <2>1. PICK k \in Kinds, next \in {"daemonize_files", "user"} :
            Adopt(t, k) /\ Goto(t, next) /\ pc[t] \in Daemonizing
    BY <1>16, Tables DEF DaemonizeKind, Daemonizing
  <2>2. /\ k \in All /\ Gets(t, k, res[InitTask][k])
        /\ child' = child /\ active_mm' = active_mm
    BY <2>1, Adopted, <1>16, Tables DEF DaemonizeKind, mms
  <2>3. Changes(t, t) /\ pc'[t] = next /\ res'[t]["mm"] = res[t]["mm"]
    BY <2>1, <2>2, Tables DEF Types, Changes, Goto, Gets
  <2> QED BY <2>1, <2>2, <2>3, InheritsKept, ActiveKept, Tables DEF Daemonizing, Active
<1>17. ASSUME NEW t \in Task, SwitchFrom(t)
      PROVE  Inherits' /\ Active'
  <2>1. /\ pc' = pc /\ res' = res /\ child' = child
        /\ active_mm' = [active_mm EXCEPT ![t] = Null]
        /\ pc[t] # "embryo" /\ res[t]["mm"] = Null
    BY <1>17 DEF SwitchFrom, DropActive, call, Lazy
  <2>2. \A s \in Task : pc[s] \in {"namespace", "thread"} => child[s] # t
    BY <2>1 DEF Making, Steps
  <2>3. Active'
    BY <2>1, <2>2 DEF Active, Types
  <2> QED BY <2>1, <2>3 DEF Inherits
<1>18. ASSUME NEW t \in Task, NEW o \in Object, SwitchTo(t, o)
      PROVE  Inherits' /\ Active'
  <2>1. /\ pc' = pc /\ res' = res /\ child' = child
        /\ active_mm' = [active_mm EXCEPT ![t] = o]
        /\ pc[t] # "embryo" /\ res[t]["mm"] = Null
    BY <1>18 DEF SwitchTo, DropActive, call, Lazy
  <2>2. \A s \in Task : pc[s] \in {"namespace", "thread"} => child[s] # t
    BY <2>1 DEF Making, Steps
  <2>3. Active'
    BY <2>1, <2>2 DEF Active, Types
  <2> QED BY <2>1, <2>3 DEF Inherits
<1>19. CASE UNCHANGED vars
  BY <1>19 DEF vars, call, mms, charges, Inherits, Active
<1> QED BY <1>1, <1>2, <1>3, <1>4, <1>5, <1>6, <1>7, <1>8, <1>9, <1>10, <1>11, <1>12,
           <1>13, <1>14, <1>15, <1>16, <1>17, <1>18, <1>19 DEF Next, Step, Unwind,
           copy_kind, UndoKind

(* A task that goes on in do_fork, or outside it once it holds no completion. *)
LEMMA CompletionKept ==
  ASSUME Types, Making, Completion, UNCHANGED <<child, clone_flags, vfork_done>>,
         \A s \in Task :
           \/ pc'[s] = pc[s]
           \/ pc[s] \in Steps /\ pc'[s] \in Steps
           \/ /\ pc[s] \notin Steps \cup {"user", "vfork", "embryo"}
              /\ pc'[s] \notin Steps \cup {"vfork", "embryo"}
  PROVE  Completion'
<1>1. \A s \in Task : pc'[s] \in Steps <=> pc[s] \in Steps
  OBVIOUS
<1>2. \A s \in Task : pc[s] = "vfork" => pc'[s] = "vfork"
  BY DEF Steps, Kinds
<1>3. ASSUME NEW c \in Task, vfork_done[c] # NoTask, pc'[c] # "embryo"
      PROVE  pc'[vfork_done[c]] = "vfork" /\ pc'[c] \in Steps \cup {"user", "vfork"}
  <2>1. pc[c] # "embryo"
    BY <1>3 DEF Steps, Kinds
  <2>2. vfork_done[c] \in Task
    BY <1>3 DEF Types
  <2> QED BY <1>2, <1>3, <2>1, <2>2 DEF Completion
<1>4. VforkEnds'
  <2> SUFFICES ASSUME NEW t \in Task, pc'[t] = "vfork"
               PROVE  \E c \in Task : /\ vfork_done[c] = t
                                      /\ pc'[c] \in Steps \cup {"user", "vfork"}
    BY DEF VforkEnds
  <2>1. pc[t] = "vfork"
    BY DEF Steps, Kinds
  <2> QED BY <2>1 DEF Completion, VforkEnds, Steps, Kinds
<1> QED BY <1>1, <1>3, <1>4 DEF Completion

(* exit_mm lets go the completion of the task that runs, and wakes who waits for it. *)
LEMMA CompletionGivenUp ==
  ASSUME Types, Making, Completion, NEW t \in Task, NEW x \in Task, NEW where \in Pcs,
         exit_mm(t, x, where), child' = child, clone_flags' = clone_flags,
         pc[t] \in Steps \cup {"user"}, where \notin {"embryo", "vfork"},
         where \in Steps <=> pc[t] \in Steps
  PROVE  Completion'
<1>1. /\ pc'[t] = where
      /\ \A s \in Task \ {t} :
           pc'[s] = IF s = vfork_done[t] THEN "user" ELSE pc[s]
      /\ vfork_done[t] # NoTask => pc[vfork_done[t]] = "vfork" /\ vfork_done[t] # t
      /\ vfork_done' = [vfork_done EXCEPT ![t] = NoTask]
  BY MmExited
<1>2. pc[t] # "embryo" /\ pc[t] # "vfork"
  BY DEF Steps, Kinds
<1>3. vfork_done'[t] = NoTask /\ \A s \in Task \ {t} : vfork_done'[s] = vfork_done[s]
  BY <1>1 DEF Types
<1>4. ASSUME NEW s \in Task, pc'[s] \in Steps
      PROVE  vfork_done'[child[s]] =
               IF "CLONE_VFORK" \in clone_flags[s] THEN s ELSE NoTask
  <2>1. pc[s] \in Steps
    BY <1>1, <1>4 DEF Steps, Kinds
  <2>2. child[s] \in Task /\ child[s] # t
    BY <1>2, <2>1 DEF Making
  <2> QED BY <1>3, <2>1, <2>2 DEF Completion
<1>5. ASSUME NEW c \in Task, vfork_done'[c] # NoTask, pc'[c] # "embryo"
      PROVE  pc'[vfork_done'[c]] = "vfork" /\ pc'[c] \in Steps \cup {"user", "vfork"}
  <2>1. c # t /\ vfork_done'[c] = vfork_done[c]
    BY <1>3, <1>5
  <2>2. pc[c] # "embryo"
    BY <1>1, <1>5, <2>1, TaskAssumption
  <2>3. pc[vfork_done[c]] = "vfork" /\ pc[c] \in Steps \cup {"user", "vfork"}
    BY <1>5, <2>1, <2>2 DEF Completion
  <2>4. vfork_done[c] \in Task \ {t} /\ vfork_done[c] # vfork_done[t]
    BY <1>2, <1>5, <2>1, <2>3 DEF Types, Completion
  <2> QED BY <1>1, <2>1, <2>3, <2>4
<1>6. \A c, d \in Task :
        vfork_done'[c] = vfork_done'[d] /\ vfork_done'[c] # NoTask => c = d
  BY <1>3 DEF Completion
<1>7. VforkEnds'
  <2> SUFFICES ASSUME NEW s \in Task, pc'[s] = "vfork"
               PROVE  \E c \in Task : /\ vfork_done'[c] = s
                                      /\ pc'[c] \in Steps \cup {"user", "vfork"}
    BY DEF VforkEnds
  <2>1. pc[s] = "vfork" /\ s # vfork_done[t]
    BY <1>1, TaskAssumption
  <2>2. PICK c \in Task : vfork_done[c] = s /\ pc[c] \in Steps \cup {"user", "vfork"}
    BY <2>1 DEF Completion, VforkEnds
  <2>3. c # t
    BY <2>1, <2>2
  <2> QED BY <1>1, <1>3, <2>2, <2>3
<1> QED BY <1>4, <1>5, <1>6, <1>7 DEF Completion

LEMMA CompletionStep ==
  ASSUME Types, Making, Completion, [Next]_vars
  PROVE  Completion'
<1>1. ASSUME NEW t \in Task, NEW c \in Task, NEW flags \in Flags, ForkBegin(t, c, flags)
      PROVE  Completion'
  <2>1. /\ pc[t] = "user" /\ pc[c] = "none" /\ c # t /\ child' = [child EXCEPT ![t] = c]
        /\ pc' = [pc EXCEPT ![t] = "files", ![c] = "embryo"]
        /\ clone_flags' = [clone_flags EXCEPT ![t] = flags]
        /\ vfork_done' = [vfork_done EXCEPT ![c] =
                            IF "CLONE_VFORK" \in flags THEN t ELSE NoTask]
    BY <1>1 DEF ForkBegin, Begin
  <2>2. vfork_done[c] = NoTask
    BY <2>1 DEF Completion, Steps, Kinds
  <2>3. \A s \in Task : pc[s] \in Steps => child[s] # c /\ child[s] # t /\ s # c /\ s # t
    BY <2>1 DEF Making, Steps, Kinds
  <2>4. \A d \in Task : vfork_done[d] # t /\ vfork_done[d] # c
    <3> SUFFICES ASSUME NEW d \in Task, vfork_done[d] \in {c, t} PROVE FALSE
      OBVIOUS
    <3>1. pc[d] = "embryo"
      BY <2>1, TaskAssumption DEF Completion
    <3>2. PICK p \in Task : child[p] = d
      BY <3>1 DEF Making
    <3>3. pc[p] \in Steps
      BY <3>2, TaskAssumption DEF Making
    <3> QED BY <2>3, <3>2, <3>3, TaskAssumption DEF Completion
  <2>5. /\ pc'[t] = "files" /\ pc'[c] = "embryo" /\ child'[t] = c /\ clone_flags'[t] = flags
        /\ vfork_done'[c] = IF "CLONE_VFORK" \in flags THEN t ELSE NoTask
        /\ \A s \in Task \ {c, t} : pc'[s] = pc[s]
        /\ \A s \in Task \ {t} : child'[s] = child[s] /\ clone_flags'[s] = clone_flags[s]
        /\ \A s \in Task \ {c} : vfork_done'[s] = vfork_done[s]
    BY <2>1 DEF Types
  <2>6. ASSUME NEW s \in Task, pc'[s] \in Steps
        PROVE  vfork_done'[child'[s]] =
                 IF "CLONE_VFORK" \in clone_flags'[s] THEN s ELSE NoTask
    <3>1. CASE s = t
      BY <2>5, <3>1
    <3>2. CASE s # t
      <4>1. s # c /\ pc[s] \in Steps
        BY <2>5, <2>6, <3>2 DEF Steps, Kinds
      <4>2. child[s] \in Task /\ child[s] # c
        BY <4>1, <2>3 DEF Making
      <4> QED BY <2>5, <3>2, <4>1, <4>2 DEF Completion
    <3> QED BY <3>1, <3>2
  <2>7. ASSUME NEW d \in Task, vfork_done'[d] # NoTask, pc'[d] # "embryo"
        PROVE  pc'[vfork_done'[d]] = "vfork" /\ pc'[d] \in Steps \cup {"user", "vfork"}
    <3>1. d # c /\ vfork_done'[d] = vfork_done[d] /\ pc[d] # "embryo"
      BY <2>1, <2>5, <2>7
    <3>2. vfork_done[d] \in Task \ {c, t}
      BY <2>4, <2>7, <3>1 DEF Types
    <3> QED BY <2>1, <2>5, <2>7, <3>1, <3>2 DEF Completion, Steps, Kinds
  <2>8. \A d, e \in Task :
          vfork_done'[d] = vfork_done'[e] /\ vfork_done'[d] # NoTask => d = e
    BY <2>4, <2>5 DEF Completion
  <2>9. VforkEnds'
    <3> SUFFICES ASSUME NEW s \in Task, pc'[s] = "vfork"
                 PROVE  \E d \in Task : /\ vfork_done'[d] = s
                                        /\ pc'[d] \in Steps \cup {"user", "vfork"}
      BY DEF VforkEnds
    <3>1. pc[s] = "vfork"
      BY <2>5
    <3>2. PICK d \in Task : vfork_done[d] = s /\ pc[d] \in Steps \cup {"user", "vfork"}
      BY <3>1 DEF Completion, VforkEnds
    <3>3. d # c
      BY <2>1, <3>2 DEF Steps, Kinds
    <3> QED BY <2>5, <3>2, <3>3 DEF Steps, Kinds
  <2> QED BY <2>6, <2>7, <2>8, <2>9 DEF Completion
<1>2. ASSUME NEW t \in Task, NEW k \in Kinds, copy_kind(t, k), Share(t, k)
      PROVE  Completion'
  <2>1. /\ pc[t] = k /\ k \in Steps /\ \E next \in Steps : Goto(t, next)
        /\ UNCHANGED <<child, clone_flags, vfork_done>>
    BY <1>2, Tables DEF copy_kind, Share, Steps
  <2> QED BY <2>1, CompletionKept DEF Goto, Types
<1>3. ASSUME NEW t \in Task, NEW k \in Kinds, copy_kind(t, k), Copy(t, k)
      PROVE  Completion'
  <2>1. /\ pc[t] = k /\ k \in Steps /\ \E next \in Steps : Goto(t, next)
        /\ UNCHANGED <<child, clone_flags, vfork_done>>
    BY <1>3, Tables DEF copy_kind, Copy, Steps
  <2> QED BY <2>1, CompletionKept DEF Goto, Types
<1>4. ASSUME NEW t \in Task, NEW k \in Kinds, copy_kind(t, k), CopyFails(t, k)
      PROVE  Completion'
  <2>1. /\ pc[t] = k /\ k \in Steps /\ \E next \in Steps : Goto(t, next)
        /\ UNCHANGED <<child, clone_flags, vfork_done>>
    BY <1>4, Tables DEF copy_kind, CopyFails, Steps
  <2> QED BY <2>1, CompletionKept DEF Goto, Types
<1>5. ASSUME NEW t \in Task, copy_mm(t)
      PROVE  Completion'
  <2>1. /\ pc[t] \in Steps /\ \E next \in Steps : Goto(t, next)
        /\ UNCHANGED <<child, clone_flags, vfork_done>>
    BY <1>5, Tables DEF copy_mm, Steps
  <2> QED BY <2>1, CompletionKept DEF Goto, Types
<1>6. ASSUME NEW t \in Task, copy_namespace(t)
      PROVE  Completion'
  <2>1. /\ pc[t] \in Steps /\ \E next \in Steps : Goto(t, next)
        /\ UNCHANGED <<child, clone_flags, vfork_done>>
    BY <1>6, Tables DEF copy_namespace, Steps
  <2> QED BY <2>1, CompletionKept DEF Goto, Types
<1>7. ASSUME NEW t \in Task, ForkEnd(t)
      PROVE  Completion'
  <2>1. /\ pc[t] = "thread" /\ pc[t] \in Steps /\ vfork_done' = vfork_done
        /\ child' = [child EXCEPT ![t] = NoTask]
        /\ clone_flags' = [clone_flags EXCEPT ![t] = {}]
        /\ pc' = [pc EXCEPT ![child[t]] = "user",
                            ![t] = IF "CLONE_VFORK" \in clone_flags[t] THEN "vfork" ELSE "user"]
    BY <1>7 DEF ForkEnd, Steps
  <2>2. child[t] \in Task /\ child[t] # t /\ pc[child[t]] = "embryo"
    BY <2>1 DEF Making
  <2>3. /\ pc'[child[t]] = "user" /\ vfork_done' = vfork_done
        /\ pc'[t] = IF "CLONE_VFORK" \in clone_flags[t] THEN "vfork" ELSE "user"
        /\ \A s \in Task \ {t, child[t]} : pc'[s] = pc[s]
        /\ \A s \in Task \ {t} : child'[s] = child[s] /\ clone_flags'[s] = clone_flags[s]
    BY <2>1, <2>2 DEF Types
  <2>4. vfork_done[child[t]] = IF "CLONE_VFORK" \in clone_flags[t] THEN t ELSE NoTask
    BY <2>1 DEF Completion
  <2>5. ASSUME NEW s \in Task, pc'[s] \in Steps
        PROVE  s # t /\ pc[s] \in Steps
    BY <2>3, <2>5 DEF Steps, Kinds
  <2>6. ASSUME NEW d \in Task, vfork_done[d] # NoTask, pc'[d] # "embryo"
        PROVE  pc'[vfork_done[d]] = "vfork" /\ pc'[d] \in Steps \cup {"user", "vfork"}
    <3>1. CASE d = child[t]
      BY <2>3, <2>4, <2>6, <3>1
    <3>2. CASE d # child[t]
      <4>1. pc[d] # "embryo"
        BY <2>1, <2>3, <2>6, <3>2
      <4>2. vfork_done[d] \in Task \ {t, child[t]}
        BY <2>1, <2>2, <2>6, <4>1 DEF Types, Completion
      <4> QED BY <2>3, <2>6, <3>2, <4>1, <4>2 DEF Completion
    <3> QED BY <3>1, <3>2
  <2>7. VforkEnds'
    <3> SUFFICES ASSUME NEW s \in Task, pc'[s] = "vfork"
                 PROVE  \E d \in Task : /\ vfork_done[d] = s
                                        /\ pc'[d] \in Steps \cup {"user", "vfork"}
      BY <2>3 DEF VforkEnds
    <3>1. CASE s = t
      BY <2>2, <2>3, <2>4, <3>1
    <3>2. CASE s # t
      <4>1. pc[s] = "vfork"
        BY <2>3, <3>2
      <4>2. PICK d \in Task : vfork_done[d] = s /\ pc[d] \in Steps \cup {"user", "vfork"}
        BY <4>1 DEF Completion, VforkEnds
      <4>3. d # child[t]
        BY <2>2, <4>2 DEF Steps, Kinds
      <4> QED BY <2>3, <4>2, <4>3
    <3> QED BY <3>1, <3>2
  <2> QED BY <2>3, <2>5, <2>6, <2>7 DEF Completion
<1>8. ASSUME NEW t \in Task, UndoMm(t)
      PROVE  Completion'
  <2>1. child[t] \in Task /\ pc[t] \in Steps /\ "undo_sig" \in Steps \cap Pcs
    BY <1>8 DEF Making, UndoMm, Steps, Pcs
  <2>2. exit_mm(t, child[t], "undo_sig") /\ child' = child /\ clone_flags' = clone_flags
    BY <1>8 DEF UndoMm
  <2> QED BY <2>1, <2>2, CompletionGivenUp DEF Steps, Kinds
<1>9. ASSUME NEW t \in Task, UndoKind(t)
      PROVE  Completion'
  <2>1. /\ pc[t] \in Steps /\ \E next \in Steps : Goto(t, next)
        /\ UNCHANGED <<child, clone_flags, vfork_done>>
    BY <1>9 DEF UndoKind, Undo, Steps
  <2> QED BY <2>1, CompletionKept DEF Goto, Types
<1>10. ASSUME NEW t \in Task, ForkFail(t)
      PROVE  Completion'
  <2>1. /\ pc[t] = "undo" /\ pc[t] \in Steps
        /\ child' = [child EXCEPT ![t] = NoTask]
        /\ clone_flags' = [clone_flags EXCEPT ![t] = {}]
        /\ pc' = [pc EXCEPT ![t] = "user", ![child[t]] = "none"]
        /\ vfork_done' = [vfork_done EXCEPT ![child[t]] = NoTask]
    BY <1>10 DEF ForkFail, Steps
  <2>2. child[t] \in Task /\ child[t] # t /\ pc[child[t]] = "embryo"
    BY <2>1 DEF Making
  <2>3. /\ pc'[child[t]] = "none" /\ pc'[t] = "user" /\ vfork_done'[child[t]] = NoTask
        /\ \A s \in Task \ {t, child[t]} : pc'[s] = pc[s]
        /\ \A s \in Task \ {t} : child'[s] = child[s] /\ clone_flags'[s] = clone_flags[s]
        /\ \A s \in Task \ {child[t]} : vfork_done'[s] = vfork_done[s]
    BY <2>1, <2>2 DEF Types
  <2>4. ASSUME NEW s \in Task, pc'[s] \in Steps
        PROVE  vfork_done'[child'[s]] =
                 IF "CLONE_VFORK" \in clone_flags'[s] THEN s ELSE NoTask
    <3>1. s # t /\ s # child[t] /\ pc[s] \in Steps
      BY <2>3, <2>4 DEF Steps, Kinds
    <3>2. child[s] \in Task /\ child[s] # child[t]
      BY <2>2, <3>1, TaskAssumption DEF Making
    <3> QED BY <2>3, <3>1, <3>2 DEF Completion
  <2>5. ASSUME NEW d \in Task, vfork_done'[d] # NoTask, pc'[d] # "embryo"
        PROVE  pc'[vfork_done'[d]] = "vfork" /\ pc'[d] \in Steps \cup {"user", "vfork"}
    <3>1. d # child[t] /\ vfork_done'[d] = vfork_done[d] /\ pc[d] # "embryo"
      BY <2>1, <2>3, <2>5
    <3>2. vfork_done[d] \in Task \ {t, child[t]}
      BY <2>1, <2>2, <2>5, <3>1 DEF Types, Completion
    <3> QED BY <2>3, <2>5, <3>1, <3>2 DEF Completion
  <2>6. \A d, e \in Task :
          vfork_done'[d] = vfork_done'[e] /\ vfork_done'[d] # NoTask => d = e
    BY <2>3 DEF Completion
  <2>7. VforkEnds'
    <3> SUFFICES ASSUME NEW s \in Task, pc'[s] = "vfork"
                 PROVE  \E d \in Task : /\ vfork_done'[d] = s
                                        /\ pc'[d] \in Steps \cup {"user", "vfork"}
      BY DEF VforkEnds
    <3>1. pc[s] = "vfork"
      BY <2>3
    <3>2. PICK d \in Task : vfork_done[d] = s /\ pc[d] \in Steps \cup {"user", "vfork"}
      BY <3>1 DEF Completion, VforkEnds
    <3>3. d # child[t]
      BY <2>2, <3>2 DEF Steps, Kinds
    <3> QED BY <2>3, <3>2, <3>3
  <2> QED BY <2>4, <2>5, <2>6, <2>7 DEF Completion
<1>11. ASSUME NEW t \in Task, ExitMm(t)
      PROVE  Completion'
  <2>1. /\ "exit_files" \in Pcs \ Steps /\ "exit_files" \notin {"embryo", "vfork"}
        /\ "user" \notin Steps
    BY DEF Pcs, Exiting, Daemonizing, Steps, Kinds
  <2>2. /\ exit_mm(t, t, "exit_files") /\ pc[t] = "user"
        /\ child' = child /\ clone_flags' = clone_flags
    BY <1>11 DEF ExitMm
  <2> QED BY <2>1, <2>2, CompletionGivenUp
<1>12. ASSUME NEW t \in Task, ExitKind(t)
      PROVE  Completion'
  <2>1. /\ pc[t] \in Exiting /\ \E next \in Exiting : Goto(t, next)
        /\ UNCHANGED <<child, clone_flags, vfork_done>>
    BY <1>12 DEF ExitKind, Exiting
  <2> QED BY <2>1, CompletionKept DEF Goto, Types, Exiting, Steps, Kinds
<1>13. ASSUME NEW t \in Task, ExitEnd(t)
      PROVE  Completion'
  <2>1. pc[t] = "exit" /\ Goto(t, "zombie") /\ UNCHANGED <<child, clone_flags, vfork_done>>
    BY <1>13 DEF ExitEnd
  <2> QED BY <2>1, CompletionKept DEF Goto, Types, Steps, Kinds
<1>14. ASSUME NEW t \in Task, release_task(t)
      PROVE  Completion'
  <2>1. pc[t] = "zombie" /\ Goto(t, "none") /\ UNCHANGED <<child, clone_flags, vfork_done>>
    BY <1>14 DEF release_task
  <2> QED BY <2>1, CompletionKept DEF Goto, Types, Steps, Kinds
<1>15. ASSUME NEW t \in Task, DaemonizeMm(t)
      PROVE  Completion'
  <2>1. /\ "daemonize_fs" \in Pcs \ Steps /\ "daemonize_fs" \notin {"embryo", "vfork"}
        /\ "user" \notin Steps
    BY DEF Pcs, Exiting, Daemonizing, Steps, Kinds
  <2>2. /\ exit_mm(t, t, "daemonize_fs") /\ pc[t] = "user"
        /\ child' = child /\ clone_flags' = clone_flags
    BY <1>15 DEF DaemonizeMm
  <2> QED BY <2>1, <2>2, CompletionGivenUp
<1>16. ASSUME NEW t \in Task, DaemonizeKind(t)
      PROVE  Completion'
  <2>1. /\ pc[t] \in Daemonizing /\ \E next \in Daemonizing \cup {"user"} : Goto(t, next)
        /\ UNCHANGED <<child, clone_flags, vfork_done>>
    BY <1>16 DEF DaemonizeKind, Daemonizing
  <2> QED BY <2>1, CompletionKept DEF Goto, Types, Daemonizing, Steps, Kinds
<1>17. ASSUME NEW t \in Task, SwitchFrom(t)
      PROVE  Completion'
  BY <1>17 DEF SwitchFrom, call, Completion, VforkEnds
<1>18. ASSUME NEW t \in Task, NEW o \in Object, SwitchTo(t, o)
      PROVE  Completion'
  BY <1>18 DEF SwitchTo, call, Completion, VforkEnds
<1>19. CASE UNCHANGED vars
  BY <1>19 DEF vars, call, mms, charges, Completion, VforkEnds
<1> QED BY <1>1, <1>2, <1>3, <1>4, <1>5, <1>6, <1>7, <1>8, <1>9, <1>10, <1>11, <1>12,
           <1>13, <1>14, <1>15, <1>16, <1>17, <1>18, <1>19 DEF Next, Step, Unwind,
           copy_kind, UndoKind

(* What every task and every child in the making has, holds and waits for. *)
THEOREM ShapeInvariant == Spec => []Shape
<1>1. Init => Shape
  <2> SUFFICES ASSUME Init PROVE Shape
    OBVIOUS
  <2>1. First \in Object
    BY TaskAssumption DEF First
  <2>2. Types
    BY <2>1, TaskAssumption DEF Init, Types, Pcs
  <2>3. Making
    BY TaskAssumption DEF Init, Making, Steps, Kinds
  <2>4. \A t \in Task : pc[t] = IF t = InitTask THEN "user" ELSE "none"
    BY DEF Init
  <2>5. /\ \A t \in Task, k \in All : res[t][k] = IF t = InitTask THEN First ELSE Null
        /\ \A t \in Task : active_mm[t] = IF t = InitTask THEN First ELSE Null
    BY DEF Init
  <2>6. GivenUp
    BY <2>4, <2>5, Tables DEF GivenUp, Exiting, Daemonizing, Dead
  <2>7. Inherits /\ Active
    BY <2>4, <2>5, Tables DEF Inherits, Active
  <2>8. Completion
    BY <2>4 DEF Init, Completion, VforkEnds, Steps, Kinds
  <2> QED BY <2>2, <2>3, <2>6, <2>7, <2>8 DEF Shape
<1>2. Shape /\ [Next]_vars => Shape'
  BY TypesStep, MakingStep, GivenUpStep, InheritsStep, CompletionStep DEF Shape
<1> QED BY <1>1, <1>2, PTL DEF Spec

(* A parent in vfork is always waited for: the child it made is there and still
   holds its completion (vfork_done and mm_release).                           *)
THEOREM VforkIsEnded == Spec => []VforkEnds
<1>1. Shape => VforkEnds
  BY DEF Shape, Completion
<1> QED BY ShapeInvariant, <1>1, PTL

----------------------------------------------------------------------------
(* Counting *)
Counts == \A k \in All, o \in Object : count[k][o] = Cardinality(Holders(k, o))

(* An mm with users has one reference for them all. *)
InUse(o) == IF count["mm"][o] = 0 THEN 0 ELSE 1

Mentions ==
  \A o \in Object :
    /\ mm_count[o] >= Cardinality(Borrowers(o)) + InUse(o)
    /\ "namespace" \notin Fails => mm_count[o] = Cardinality(Borrowers(o)) + InUse(o)

(* Sets of tasks that differ in one task at most. *)
LEMMA OneMoreOrLess ==
  ASSUME NEW S \in SUBSET Task, NEW T \in SUBSET Task, NEW x \in Task,
         \A s \in Task \ {x} : s \in T <=> s \in S
  PROVE  /\ Cardinality(S) \in Nat /\ Cardinality(T) \in Nat
         /\ Cardinality(T) = Cardinality(S) + (IF x \in T THEN 1 ELSE 0)
                                            - (IF x \in S THEN 1 ELSE 0)
<1>1. IsFiniteSet(S) /\ IsFiniteSet(T)
  BY TaskAssumption, FS_Subset
<1>2. Cardinality(S) \in Nat /\ Cardinality(T) \in Nat
  BY <1>1, FS_CardinalityType
<1>3. CASE x \in T /\ x \notin S
  <2>1. T = S \cup {x}
    BY <1>3
  <2>2. Cardinality(S \cup {x}) = Cardinality(S) + 1
    BY <1>1, <1>3, FS_AddElement
  <2> QED BY <1>2, <1>3, <2>1, <2>2
<1>4. CASE x \notin T /\ x \in S
  <2>1. T = S \ {x}
    BY <1>4
  <2>2. Cardinality(S \ {x}) = Cardinality(S) - 1
    BY <1>1, <1>4, FS_RemoveElement
  <2> QED BY <1>2, <1>4, <2>1, <2>2
<1>5. CASE x \in T <=> x \in S
  <2>1. T = S
    BY <1>5
  <2> QED BY <1>2, <1>5, <2>1
<1> QED BY <1>3, <1>4, <1>5

LEMMA CountInt ==
  ASSUME Types
  PROVE  /\ \A k \in All, o \in Object : count[k][o] \in Int
         /\ \A o \in Object : mm_count[o] \in Int /\ count["mm"][o] \in Int
BY Tables DEF Types

(* A child in the making holds what its parent has come to give it. *)
LEMMA Members ==
  ASSUME Making, NEW t \in Task, NEW x \in Task, NEW k \in All, NEW o \in Object
  PROVE  /\ child[t] = x => (x \in Holders(k, o) <=> res[x][k] = o /\ k \in Given(pc[t]))
         /\ pc[x] # "embryo" => (x \in Holders(k, o) <=> res[x][k] = o)
BY TaskAssumption DEF Making, Holders

LEMMA MembersNext ==
  ASSUME Making', NEW t \in Task, NEW x \in Task, NEW k \in All, NEW o \in Object
  PROVE  /\ child'[t] = x => (x \in Holders(k, o)' <=> res'[x][k] = o /\ k \in Given(pc'[t]))
         /\ pc'[x] # "embryo" => (x \in Holders(k, o)' <=> res'[x][k] = o)
BY TaskAssumption DEF Making, Holders

(* What somebody holds is counted. *)
LEMMA MemberCounted ==
  ASSUME Counts, NEW k \in All, NEW o \in Object, NEW x \in Holders(k, o)
  PROVE  count[k][o] >= 1
<1>1. Holders(k, o) \subseteq Task
  BY DEF Holders
<1>2. IsFiniteSet(Holders(k, o)) /\ Holders(k, o) # {}
  BY <1>1, TaskAssumption, FS_Subset
<1>3. Cardinality(Holders(k, o)) \in Nat /\ Cardinality(Holders(k, o)) # 0
  BY <1>2, FS_CardinalityType, FS_EmptySet
<1> QED BY <1>3 DEF Counts

LEMMA UsedBy ==
  ASSUME Making, Counts, NEW t \in Task, pc[t] # "embryo", NEW o \in Object,
         res[t]["mm"] = o
  PROVE  count["mm"][o] >= 1
<1>1. "mm" \in All
  BY Tables
<1>2. t \in Holders("mm", o)
  BY <1>1, Members
<1> QED BY <1>1, <1>2, MemberCounted

(* The count follows what the one task that changes takes and gives back. *)
Recount(x, k, o) ==
  count'[k][o] = count[k][o] + (IF x \in Holders(k, o)' THEN 1 ELSE 0)
                             - (IF x \in Holders(k, o) THEN 1 ELSE 0)

Recounted(x) == \A k \in All, o \in Object : Recount(x, k, o)

LEMMA Recount0 ==
  ASSUME Types, NEW x, count' = count,
         \A k \in All, o \in Object : x \in Holders(k, o)' <=> x \in Holders(k, o)
  PROVE  Recounted(x)
BY CountInt DEF Recounted, Recount

LEMMA CountsKept ==
  ASSUME Types, Making, Making', Counts, NEW t \in Task, NEW x \in Task, Changes(t, x),
         {child[t], child'[t]} \subseteq {x, NoTask}, Recounted(x)
  PROVE  Counts'
<1> SUFFICES ASSUME NEW k \in All, NEW o \in Object
             PROVE  count'[k][o] = Cardinality(Holders(k, o)')
  BY DEF Counts
<1>1. ASSUME NEW s \in Task \ {x}
      PROVE  s \in Holders(k, o)' <=> s \in Holders(k, o)
  <2>1. res'[s][k] = res[s][k]
    BY DEF Changes
  <2>2. ASSUME NEW p \in Task
        PROVE  /\ child'[p] = s <=> child[p] = s
               /\ child[p] = s => pc'[p] = pc[p]
    <3>1. CASE p = t
      BY <3>1, TaskAssumption
    <3>2. CASE p # t
      <4>1. child'[p] = child[p] /\ (pc'[p] = pc[p] \/ pc'[p] \notin Steps)
        BY <3>2 DEF Changes
      <4>2. child'[p] = s => pc'[p] \in Steps
        BY TaskAssumption DEF Making
      <4> QED BY <4>1, <4>2
    <3> QED BY <3>1, <3>2
  <2> QED BY <2>1, <2>2 DEF Holders
<1> DEFINE S == Holders(k, o)
           T == Holders(k, o)'
<1>2. S \in SUBSET Task /\ T \in SUBSET Task
  BY DEF Holders
<1>3. \A s \in Task \ {x} : s \in T <=> s \in S
  BY <1>1
<1>4. /\ Cardinality(S) \in Nat
      /\ Cardinality(T) = Cardinality(S) + (IF x \in T THEN 1 ELSE 0)
                                         - (IF x \in S THEN 1 ELSE 0)
  <2> HIDE DEF S, T
  <2> QED BY <1>2, <1>3, OneMoreOrLess
<1>5. count[k][o] = Cardinality(S)
  BY DEF Counts
<1>6. Recount(x, k, o)
  BY DEF Recounted
<1> QED BY <1>4, <1>5, <1>6 DEF Recount

(* No other task begins or ends, as far as the scheduler is concerned. *)
Unscheduled == {"none", "embryo", "zombie"}
Alike(x) == \A s \in Task \ {x} : pc'[s] \in Unscheduled <=> pc[s] \in Unscheduled

Remention(x, o) ==
  LET change == (IF x \in Borrowers(o)' THEN 1 ELSE 0) - (IF x \in Borrowers(o) THEN 1 ELSE 0)
                + InUse(o)' - InUse(o)
  IN /\ mm_count'[o] >= mm_count[o] + change
     /\ "namespace" \notin Fails => mm_count'[o] = mm_count[o] + change

Rementioned(x) == \A o \in Object : Remention(x, o)

LEMMA Rementioned0 ==
  ASSUME Types, NEW x \in Task,
         \A o \in Object : count'["mm"][o] = count["mm"][o] /\ mm_count'[o] = mm_count[o],
         \A o \in Object : (Lazy(x)' /\ active_mm'[x] = o) <=> (Lazy(x) /\ active_mm[x] = o)
  PROVE  Rementioned(x)
BY CountInt DEF Rementioned, Remention, InUse, Borrowers

LEMMA MmCountKept ==
  ASSUME Types, Types', Mentions, NEW t \in Task, NEW x \in Task, Changes(t, x), Alike(x),
         Rementioned(x)
  PROVE  Mentions'
<1> SUFFICES ASSUME NEW o \in Object
             PROVE  /\ mm_count'[o] >= Cardinality(Borrowers(o)') + InUse(o)'
                    /\ "namespace" \notin Fails =>
                         mm_count'[o] = Cardinality(Borrowers(o)') + InUse(o)'
  BY DEF Mentions
<1>1. \A s \in Task \ {x} : s \in Borrowers(o)' <=> s \in Borrowers(o)
  BY Tables DEF Borrowers, Lazy, Changes, Alike, Unscheduled
<1> DEFINE S == Borrowers(o)
           T == Borrowers(o)'
<1>2. S \in SUBSET Task /\ T \in SUBSET Task
  BY DEF Borrowers
<1>3. \A s \in Task \ {x} : s \in T <=> s \in S
  BY <1>1
<1>4. /\ Cardinality(S) \in Nat /\ Cardinality(T) \in Nat
      /\ Cardinality(T) = Cardinality(S) + (IF x \in T THEN 1 ELSE 0)
                                         - (IF x \in S THEN 1 ELSE 0)
  <2> HIDE DEF S, T
  <2> QED BY <1>2, <1>3, OneMoreOrLess
<1>5. /\ mm_count[o] >= Cardinality(S) + InUse(o)
      /\ "namespace" \notin Fails => mm_count[o] = Cardinality(S) + InUse(o)
  BY DEF Mentions
<1>6. Remention(x, o)
  BY DEF Rementioned
<1>7. InUse(o) \in Int /\ InUse(o)' \in Int /\ mm_count[o] \in Int /\ mm_count'[o] \in Int
  BY DEF InUse, Types
<1> QED BY <1>4, <1>5, <1>6, <1>7 DEF Remention

LEMMA CountsStep ==
  ASSUME Shape, Shape', Counts, Mentions, [Next]_vars
  PROVE  Counts' /\ Mentions'
<1> USE DEF Shape
<1>1. ASSUME NEW t \in Task, NEW c \in Task, NEW flags \in Flags, ForkBegin(t, c, flags)
      PROVE  Counts' /\ Mentions'
  <2>1. /\ pc[t] = "user" /\ pc[c] = "none" /\ c # t /\ child' = [child EXCEPT ![t] = c]
        /\ pc' = [pc EXCEPT ![t] = "files", ![c] = "embryo"]
        /\ res' = [res EXCEPT ![c] = res[t]] /\ active_mm' = active_mm
    BY <1>1 DEF ForkBegin, Begin, mms
  <2>2. Changes(t, c)
    BY <2>1, Tables DEF Types, Changes, Steps
  <2>3. res'[c] = res[t] /\ res'[t] = res[t] /\ child'[t] = c
    BY <2>1 DEF Types
  <2>4. pc'[c] = "embryo" /\ pc'[t] = "files"
    BY <2>1 DEF Types
  <2>5. \A k \in All : res[c][k] = Null
    BY <2>1, Tables DEF GivenUp, Dead
  <2>6. count' = count /\ mm_count' = mm_count
    BY <1>1 DEF ForkBegin, Begin, mms
  <2>7. Alike(c)
    BY <2>1, <2>2 DEF Alike, Unscheduled, Types
  <2>8. Recounted(c)
    <3> SUFFICES ASSUME NEW k \in All, NEW o \in Object
                 PROVE  c \notin Holders(k, o)' /\ c \notin Holders(k, o)
      BY <2>6, Recount0
    <3>1. k \notin Given("files")
      BY Givens, Tables
    <3>2. c \notin Holders(k, o)
      BY <2>1, <2>5, Members, TaskAssumption
    <3>3. c \notin Holders(k, o)'
      BY <2>3, <2>4, <3>1, MembersNext
    <3> QED BY <3>2, <3>3
  <2>9. Rementioned(c)
    BY <2>1, <2>4, <2>6, Rementioned0 DEF Lazy
  <2>10. child[t] = NoTask
    BY <2>1 DEF Making, Steps, Kinds
  <2> QED BY <2>1, <2>2, <2>3, <2>7, <2>8, <2>9, <2>10, CountsKept, MmCountKept
<1>2. ASSUME NEW t \in Task, NEW k \in Kinds, copy_kind(t, k), Share(t, k)
      PROVE  Counts' /\ Mentions'
  <2>1. /\ pc[t] = k /\ k \in All /\ Goto(t, After[k]) /\ child' = child
        /\ active_mm' = active_mm
    BY <1>2, Tables DEF copy_kind, Share, mms
  <2>2. child[t] \in Task /\ t # child[t] /\ pc[child[t]] = "embryo"
    BY <2>1, Tables DEF Making, Steps
  <2>3. res' = res /\ pc'[t] = After[k]
    BY <2>1, <1>2 DEF Share, Goto, Types
  <2>4. Changes(t, child[t]) /\ pc'[child[t]] = "embryo"
    BY <2>1, <2>2, <2>3, Tables DEF Types, Changes, Goto, Steps
  <2>5. \A j \in All : j \notin Given(After[k]) => j \notin Given(k)
    BY Tables, Givens
  <2>6. \A j \in All : j \notin Given(pc'[t]) => res'[child'[t]][j] = res'[t][j]
    BY <2>1, <2>3, <2>5 DEF Inherits
  <2>7. pc'[t] = After[k] /\ child'[t] = child[t]
    BY <2>1 DEF Goto, Types
  <2>8. res[child[t]][k] = res[t][k] /\ res[t][k] \in Object \cup {Null}
    BY <2>1, <2>2, Tables, Givens DEF Inherits, Types
  <2>9. Counted(k, res[t][k], 1) /\ mm_count' = mm_count
    BY <2>1, <2>8, CountAdd, <1>2 DEF Share, copy_kind, mms
  <2>10. \A o \in Object : count'["mm"][o] = count["mm"][o] /\ mm_count'[o] = mm_count[o]
    BY <2>9, <1>2, Tables DEF Counted
  <2>11. Recounted(child[t])
    <3> SUFFICES ASSUME NEW j \in All, NEW o \in Object
                 PROVE  Recount(child[t], j, o)
      BY DEF Recounted
    <3>1. j \in Given(After[k]) <=> j \in Given(k) \/ j = k
      BY Givens, Tables
    <3>2. k \notin Given(k)
      BY Givens, Tables
    <3>3. child[t] \in Holders(j, o) <=> res[child[t]][j] = o /\ j \in Given(k)
      BY <2>1, <2>2, Members
    <3>4. child[t] \in Holders(j, o)' <=> res[child[t]][j] = o /\ j \in Given(After[k])
      BY <2>2, <2>3, <2>7, MembersNext
    <3>5. count'[j][o] = IF j = k /\ o = res[t][k] THEN count[j][o] + 1 ELSE count[j][o]
      BY <2>9 DEF Counted
    <3> QED BY <2>8, <3>1, <3>2, <3>3, <3>4, <3>5, CountInt DEF Recount
  <2>12. Alike(child[t])
    BY <2>1, <2>7, <1>2, Tables DEF Alike, Unscheduled, Goto, Types
  <2>13. Rementioned(child[t])
    BY <2>2, <2>4, <2>10, Rementioned0, Tables DEF Lazy
  <2> QED BY <2>1, <2>2, <2>4, <2>7, <2>12, <2>11, <2>13,
         CountsKept, MmCountKept, Tables
<1>3. ASSUME NEW t \in Task, NEW k \in Kinds, copy_kind(t, k), Copy(t, k)
      PROVE  Counts' /\ Mentions'
  <2>1. /\ pc[t] = k /\ k \in All /\ Goto(t, After[k]) /\ child' = child
        /\ active_mm' = active_mm
    BY <1>3, Tables DEF copy_kind, Copy, mms
  <2>2. child[t] \in Task /\ t # child[t] /\ pc[child[t]] = "embryo"
    BY <2>1, Tables DEF Making, Steps
  <2>3. PICK o \in Object : /\ count[k][o] = 0 /\ Gets(child[t], k, o)
                            /\ Counted(k, o, 1)
    BY <2>2, <1>3, KindCopied
  <2>4. Changes(t, child[t]) /\ pc'[t] = After[k] /\ pc'[child[t]] = "embryo"
    BY <2>1, <2>2, <2>3, Tables DEF Types, Changes, Goto, Gets, Steps
  <2>5. \A j \in All : j \notin Given(After[k]) => j \notin Given(k) /\ j # k
    BY Tables, Givens, <1>3
  <2>6. \A j \in All : j \notin Given(pc'[t]) => res'[child'[t]][j] = res'[t][j]
    BY <2>1, <2>2, <2>3, <2>4, <2>5 DEF Inherits, Gets
  <2>7. pc'[t] = After[k] /\ child'[t] = child[t]
    BY <2>1 DEF Goto, Types
  <2>8. mm_count' = mm_count
    BY <1>3 DEF copy_kind, mms
  <2>9. \A b \in Object : count'["mm"][b] = count["mm"][b] /\ mm_count'[b] = mm_count[b]
    BY <2>3, <2>8, <1>3, Tables DEF Counted
  <2>10. Recounted(child[t])
    <3> SUFFICES ASSUME NEW j \in All, NEW b \in Object
                 PROVE  Recount(child[t], j, b)
      BY DEF Recounted
    <3>1. j \in Given(After[k]) <=> j \in Given(k) \/ j = k
      BY Givens, Tables
    <3>2. k \notin Given(k)
      BY Givens, Tables
    <3>3. child[t] \in Holders(j, b) <=> res[child[t]][j] = b /\ j \in Given(k)
      BY <2>1, <2>2, Members
    <3>4. child[t] \in Holders(j, b)' <=> res'[child[t]][j] = b /\ j \in Given(After[k])
      BY <2>2, <2>7, MembersNext
    <3>5. count'[j][b] = IF j = k /\ b = o THEN count[j][b] + 1 ELSE count[j][b]
      BY <2>3 DEF Counted
    <3>6. res'[child[t]][j] = IF j = k THEN o ELSE res[child[t]][j]
      BY <2>2, <2>3 DEF Gets
    <3> QED BY <3>1, <3>2, <3>3, <3>4, <3>5, <3>6, CountInt DEF Recount
  <2>11. Alike(child[t])
    BY <2>1, <2>7, <1>3, Tables DEF Alike, Unscheduled, Goto, Types
  <2>12. Rementioned(child[t])
    BY <2>2, <2>4, <2>9, Rementioned0, Tables DEF Lazy
  <2> QED BY <2>1, <2>2, <2>4, <2>7, <2>11, <2>10, <2>12,
         CountsKept, MmCountKept, Tables
<1>4. ASSUME NEW t \in Task, NEW k \in Kinds, copy_kind(t, k), CopyFails(t, k)
      PROVE  Counts' /\ Mentions'
  <2>1. /\ pc[t] = k /\ k \in All /\ Goto(t, Label[k]) /\ child' = child
        /\ active_mm' = active_mm
    BY <1>4, Tables DEF copy_kind, CopyFails, mms
  <2>2. child[t] \in Task /\ t # child[t] /\ pc[child[t]] = "embryo"
    BY <2>1, Tables DEF Making, Steps
  <2>3. Gets(child[t], k, Null)
    BY <2>1, <2>2, <1>4, ResSet DEF CopyFails
  <2>4. Changes(t, child[t]) /\ pc'[t] = Label[k] /\ pc'[child[t]] = "embryo"
    BY <2>1, <2>2, <2>3, <1>4, Tables DEF Types, Changes, Goto, Gets, Steps
  <2>5. pc'[t] \notin All \cup {"namespace", "thread", "undo_mm"}
    BY <2>4, Tables, <1>4
  <2>6. pc'[t] = Label[k] /\ child'[t] = child[t]
    BY <2>1 DEF Goto, Types
  <2>7. mm_count' = mm_count /\ count' = count
    BY <1>4 DEF copy_kind, CopyFails, mms
  <2>8. \A o \in Object : count'["mm"][o] = count["mm"][o] /\ mm_count'[o] = mm_count[o]
    BY <2>7
  <2>9. Recounted(child[t])
    <3> SUFFICES ASSUME NEW j \in All, NEW o \in Object
                 PROVE  child[t] \in Holders(j, o)' <=> child[t] \in Holders(j, o)
      BY <2>7, Recount0
    <3>1. j \in Given(Label[k]) <=> j \in Given(k)
      BY Givens, Tables
    <3>2. k \notin Given(k)
      BY Givens, Tables
    <3>3. child[t] \in Holders(j, o) <=> res[child[t]][j] = o /\ j \in Given(k)
      BY <2>1, <2>2, Members
    <3>4. child[t] \in Holders(j, o)' <=> res'[child[t]][j] = o /\ j \in Given(Label[k])
      BY <2>2, <2>6, MembersNext
    <3>5. j # k => res'[child[t]][j] = res[child[t]][j]
      BY <2>2, <2>3 DEF Gets
    <3> QED BY <3>1, <3>2, <3>3, <3>4, <3>5
  <2>10. Alike(child[t])
    BY <2>1, <2>6, <1>4, Tables DEF Alike, Unscheduled, Goto, Types
  <2>11. Rementioned(child[t])
    BY <2>2, <2>4, <2>8, Rementioned0, Tables DEF Lazy
  <2> QED BY <2>1, <2>2, <2>4, <2>6, <2>10, <2>9, <2>11,
         CountsKept, MmCountKept, Tables
<1>5. ASSUME NEW t \in Task, copy_mm(t)
      PROVE  Counts' /\ Mentions'
  <2>1. PICK o \in Object \cup {Null} : MmCopied(t, o)
    BY <1>5, CopyMm
  <2>2. /\ pc[t] = "mm" /\ Gets(child[t], "mm", o) /\ child' = child
        /\ active_mm' = [active_mm EXCEPT ![child[t]] = o]
        /\ Goto(t, "namespace") \/ Goto(t, "undo_sig")
    BY <2>1 DEF MmCopied
  <2>3. child[t] \in Task /\ t # child[t] /\ pc[child[t]] = "embryo"
    BY <2>2, Tables DEF Making, Steps
  <2>4. Changes(t, child[t]) /\ pc'[child[t]] = "embryo"
    BY <2>2, <2>3, Tables DEF Types, Changes, Goto, Gets, Steps
  <2>5. pc'[t] = "namespace" \/ pc'[t] = "undo_sig"
    BY <2>2 DEF Types, Goto
  <2>6. /\ active_mm'[child[t]] = res'[child[t]]["mm"]
        /\ pc'[t] = "namespace" /\ res'[t]["mm"] = Null => o = Null
        /\ res'[child[t]]["mm"] = o
    BY <2>1, <2>2, <2>3, Tables DEF MmCopied, Gets, Goto, Types
  <2>7. ASSUME NEW b \in Object
        PROVE  /\ child[t] \notin Holders("mm", b)
               /\ child[t] \in Holders("mm", b)' <=> pc'[t] = "namespace" /\ o = b
               /\ \A k \in Kinds : child[t] \in Holders(k, b)' <=> child[t] \in Holders(k, b)
    <3>1. /\ "mm" \notin Given("mm") /\ "mm" \in Given("namespace")
          /\ "mm" \notin Given("undo_sig")
          /\ \A k \in Kinds :
               k \in Given("mm") /\ k \in Given("namespace") /\ k \in Given("undo_sig")
      BY Givens, Tables
    <3>2. \A k \in All :
            /\ child[t] \in Holders(k, b) <=> res[child[t]][k] = b /\ k \in Given("mm")
            /\ child[t] \in Holders(k, b)' <=>
                 res'[child[t]][k] = b /\ k \in Given(pc'[t])
      BY <2>2, <2>3, Members, MembersNext
    <3>3. \A k \in Kinds : k \in All /\ res'[child[t]][k] = res[child[t]][k]
      BY <2>2, <2>3, Tables DEF Gets
    <3>4. "mm" \in All
      BY Tables
    <3>5. \A k \in Kinds : k \in Given(pc'[t])
      BY <2>5, <3>1
    <3>6. "mm" \in Given(pc'[t]) <=> pc'[t] = "namespace"
      BY <2>5, <3>1
    <3>7. child[t] \notin Holders("mm", b)
      BY <3>1, <3>2, <3>4
    <3>8. child[t] \in Holders("mm", b)' <=> pc'[t] = "namespace" /\ o = b
      BY <2>6, <3>2, <3>4, <3>6
    <3>9. \A k \in Kinds : child[t] \in Holders(k, b)' <=> child[t] \in Holders(k, b)
      BY <3>1, <3>2, <3>3, <3>5
    <3> QED BY <3>7, <3>8, <3>9
  <2>8. ASSUME NEW b \in Object
        PROVE  \/ /\ \A k \in All : count'[k][b] = count[k][b]
                  /\ mm_count'[b] = mm_count[b] /\ ~(pc'[t] = "namespace" /\ o = b)
               \/ /\ pc'[t] = "namespace" /\ o = b
                  /\ \A k \in All : count'[k][b] = IF k = "mm" THEN count["mm"][b] + 1
                                                  ELSE count[k][b]
                  /\ \/ mm_count'[b] = mm_count[b] /\ res[t]["mm"] = b
                     \/ mm_count'[b] = 1 /\ mm_count[b] = 0 /\ count["mm"][b] = 0
    <3>1. mm_count \in [Object -> Int] /\ (pc'[t] = "namespace" <=> Goto(t, "namespace"))
      BY <2>2 DEF Types, Goto
    <3> QED BY <2>1, <3>1, TaskAssumption DEF MmCopied, Counted
  <2>9. Alike(child[t])
    BY <2>2, <2>5 DEF Alike, Unscheduled, Goto, Types
  <2>10. Recounted(child[t])
    <3> SUFFICES ASSUME NEW k \in All, NEW b \in Object PROVE Recount(child[t], k, b)
      BY DEF Recounted
    <3>1. k = "mm" \/ (k \in Kinds /\ k # "mm")
      BY Tables
    <3> QED BY <2>7, <2>8, <3>1, CountInt DEF Recount
  <2>11. \A b \in Object : res[t]["mm"] = b => count["mm"][b] >= 1
    BY <2>2, UsedBy, Tables
  <2>12. Rementioned(child[t])
    <3> SUFFICES ASSUME NEW b \in Object PROVE Remention(child[t], b)
      BY DEF Rementioned
    <3>1. child[t] \notin Borrowers(b) /\ child[t] \notin Borrowers(b)'
      BY <2>3, <2>4 DEF Borrowers, Lazy
    <3>2. "mm" \in All /\ count["mm"][b] \in Int /\ mm_count[b] \in Int
      BY Tables, CountInt
    <3> QED BY <2>8, <2>11, <3>1, <3>2 DEF Remention, InUse
  <2> QED BY <2>2, <2>3, <2>4, <2>9, <2>10, <2>12, CountsKept, MmCountKept
<1>6. ASSUME NEW t \in Task, copy_namespace(t)
      PROVE  Counts' /\ Mentions'
  <2>1. /\ pc[t] = "namespace" /\ res' = res /\ child' = child /\ active_mm' = active_mm
        /\ count' = count /\ mm_count' = mm_count
        /\ Goto(t, "thread") \/ Goto(t, "undo_mm")
    BY <1>6, Tables DEF copy_namespace, mms
  <2>2. child[t] \in Task /\ t # child[t] /\ pc[child[t]] = "embryo"
    BY <2>1 DEF Making, Steps
  <2>3. Changes(t, child[t]) /\ pc'[t] \in {"thread", "undo_mm"} /\ pc'[child[t]] = "embryo"
    BY <2>1, <2>2 DEF Types, Changes, Goto
  <2>4. Alike(child[t])
    BY <2>1 DEF Alike, Unscheduled, Goto, Types
  <2>5. Recounted(child[t])
    <3> SUFFICES ASSUME NEW k \in All, NEW o \in Object
                 PROVE  child[t] \in Holders(k, o)' <=> child[t] \in Holders(k, o)
      BY <2>1, Recount0
    <3>1. k \in Given("namespace") /\ k \in Given("thread") /\ k \in Given("undo_mm")
      BY Givens, Tables
    <3> QED BY <2>1, <2>2, <2>3, <3>1, Members, MembersNext
  <2>6. Rementioned(child[t])
    BY <2>1, <2>2, <2>3, Rementioned0 DEF Lazy
  <2> QED BY <2>1, <2>2, <2>3, <2>4, <2>5, <2>6, CountsKept, MmCountKept
<1>7. ASSUME NEW t \in Task, ForkEnd(t)
      PROVE  Counts' /\ Mentions'
  <2>1. /\ pc[t] = "thread" /\ res' = res /\ child' = [child EXCEPT ![t] = NoTask]
        /\ active_mm' = active_mm
        /\ \E next \in {"user", "vfork"} : pc' = [pc EXCEPT ![child[t]] = "user", ![t] = next]
    BY <1>7 DEF ForkEnd, mms
  <2>2. child[t] \in Task /\ child[t] # t /\ pc[child[t]] = "embryo"
    BY <2>1 DEF Making, Steps, Kinds
  <2>3. Changes(t, child[t]) /\ pc'[t] \in {"user", "vfork"}
    BY <2>1, <2>2, Tables DEF Types, Changes, Steps
  <2>4. count' = count /\ mm_count' = mm_count /\ pc'[child[t]] = "user" /\ child'[t] = NoTask
    BY <2>1, <2>2, <1>7 DEF ForkEnd, mms, Types
  <2>5. Alike(child[t])
    BY <2>1 DEF Alike, Unscheduled, Types
  <2>6. Recounted(child[t])
    <3> SUFFICES ASSUME NEW k \in All, NEW o \in Object
                 PROVE  child[t] \in Holders(k, o)' <=> child[t] \in Holders(k, o)
      BY <2>4, Recount0
    <3>1. k \in Given("thread")
      BY Givens, Tables
    <3>2. child[t] \in Holders(k, o) <=> res[child[t]][k] = o
      BY <2>1, <2>2, <3>1, Members
    <3>3. child[t] \in Holders(k, o)' <=> res'[child[t]][k] = o
      BY <2>2, <2>4, MembersNext
    <3> QED BY <2>1, <3>2, <3>3
  <2>7. Rementioned(child[t])
    <3>1. active_mm[child[t]] = res[child[t]]["mm"]
      BY <2>1, <2>2 DEF Active
    <3>2. \A o \in Object : ~(res[child[t]]["mm"] = Null /\ active_mm[child[t]] = o)
      BY <3>1, TaskAssumption
    <3> QED BY <2>1, <2>2, <2>4, <3>2, Rementioned0 DEF Lazy
  <2> QED BY <2>1, <2>2, <2>3, <2>4, <2>5, <2>6, <2>7, CountsKept, MmCountKept
<1>8. ASSUME NEW t \in Task, UndoMm(t)
      PROVE  Counts' /\ Mentions'
  <2>1. /\ child[t] \in Task /\ pc[t] = "undo_mm" /\ pc[t] \in Steps /\ "undo_sig" \in Pcs
        /\ t # child[t] /\ pc[child[t]] = "embryo"
    BY <1>8 DEF Making, UndoMm, Steps, Pcs
  <2>2. exit_mm(t, child[t], "undo_sig") /\ child' = child
    BY <1>8 DEF UndoMm
  <2>3. \A s \in Task \ {t} : pc'[s] = pc[s] \/ (pc'[s] = "user" /\ pc[s] = "vfork")
    BY <2>1, <2>2, MmExited, TaskAssumption
  <2>4. pc'[t] = "undo_sig" /\ Gets(child[t], "mm", Null) /\ active_mm' = active_mm
    BY <2>1, <2>2, MmExited
  <2>5. Changes(t, child[t]) /\ res'[child[t]]["mm"] = Null
    BY <2>1, <2>2, <2>3, <2>4, Tables DEF Changes, Gets, Steps
  <2>6. /\ Counted("mm", res[child[t]]["mm"], -1)
        /\ \A o \in Object :
             mm_count'[o] = IF o = res[child[t]]["mm"] /\ count["mm"][o] # 1 THEN mm_count[o] + 1
                            ELSE mm_count[o]
    BY <2>1, <2>2, MmExited
  <2>7. pc'[t] = "undo_sig" /\ child'[t] = child[t] /\ pc'[child[t]] = "embryo"
    BY <2>1, <2>2, <2>3, <2>4
  <2>8. \A j \in All : j \in Given("undo_mm") /\ (j \in Given("undo_sig") <=> j # "mm")
    BY Givens, Tables
  <2>9. Alike(child[t])
    BY <2>1, <2>3, <2>7 DEF Alike, Unscheduled
  <2>10. Recounted(child[t])
    <3> SUFFICES ASSUME NEW j \in All, NEW o \in Object PROVE Recount(child[t], j, o)
      BY DEF Recounted
    <3>1. child[t] \in Holders(j, o) <=> res[child[t]][j] = o 
      BY <2>1, <2>8, Members
    <3>2. child[t] \in Holders(j, o)' <=> res'[child[t]][j] = o /\ j # "mm"
      BY <2>1, <2>7, <2>8, MembersNext
    <3>3. res'[child[t]][j] = IF j = "mm" THEN Null ELSE res[child[t]][j]
      BY <2>1, <2>4 DEF Gets
    <3>4. count'[j][o] = IF j = "mm" /\ o = res[child[t]]["mm"] THEN count[j][o] + -1
                     ELSE count[j][o]
      BY <2>6 DEF Counted
    <3> QED BY <3>1, <3>2, <3>3, <3>4, CountInt, TaskAssumption DEF Recount
  <2>11. \A o \in Object : res[child[t]]["mm"] = o => count["mm"][o] >= 1
    BY <2>1, <2>8, MemberCounted, Members, Tables
  <2>12. "namespace" \notin Fails => res[child[t]]["mm"] = Null
    BY <2>1 DEF Active
  <2>13. Rementioned(child[t])
    <3> SUFFICES ASSUME NEW o \in Object PROVE Remention(child[t], o)
      BY DEF Rementioned
    <3>1. child[t] \notin Borrowers(o) /\ child[t] \notin Borrowers(o)'
      BY <2>1, <2>7 DEF Borrowers, Lazy
    <3>2. "mm" \in All /\ count["mm"][o] \in Int /\ mm_count[o] \in Int
      BY Tables, CountInt
    <3>3. count'["mm"][o] = IF o = res[child[t]]["mm"] THEN count["mm"][o] + -1 ELSE count["mm"][o]
      BY <2>6, <3>2 DEF Counted
    <3> QED BY <2>6, <2>11, <2>12, <3>1, <3>2, <3>3, TaskAssumption DEF Remention, InUse
  <2> QED BY <2>1, <2>5, <2>7, <2>9, <2>10, <2>13, CountsKept, MmCountKept
<1>9. ASSUME NEW t \in Task, UndoKind(t)
      PROVE  Counts' /\ Mentions'
  <2>1. PICK k \in Kinds, next \in {"undo_fs", "undo_files", "undo"} :
            /\ Undo(t, k, next) /\ pc[t] \in {"undo_sig", "undo_fs", "undo_files"}
            /\ \A j \in All : j \in Given(pc[t]) <=> j \in Given(next) \/ j = k
            /\ k \notin Given(next)
    BY <1>9, Tables, Givens DEF UndoKind
  <2>2. child[t] \in Task /\ pc[child[t]] = "embryo" /\ pc[t] # "embryo"
    BY <2>1 DEF Making, Steps
  <2>3. k \in All /\ Gets(child[t], k, Null)
    BY <2>1, <2>2, Dropped, Tables DEF Undo
  <2>4. child' = child /\ active_mm' = active_mm /\ Goto(t, next)
    BY <2>1 DEF Undo, mms
  <2>5. Changes(t, child[t]) /\ pc'[t] = next /\ pc'[child[t]] = "embryo"
    BY <2>1, <2>2, <2>3, <2>4 DEF Types, Changes, Goto, Gets
  <2>6. Counted(k, res[child[t]][k], -1) /\ mm_count' = mm_count
    BY <2>1, <2>2, <2>3, Dropped DEF Undo, mms
  <2>7. k # "mm" /\ \A o \in Object : count'["mm"][o] = count["mm"][o] /\ mm_count'[o] = mm_count[o]
    BY <2>6, Tables DEF Counted
  <2>8. Alike(child[t])
    BY <2>1, <2>4 DEF Alike, Unscheduled, Goto, Types
  <2>9. Recounted(child[t])
    <3> SUFFICES ASSUME NEW j \in All, NEW o \in Object PROVE Recount(child[t], j, o)
      BY DEF Recounted
    <3>1. child[t] \in Holders(j, o) <=> res[child[t]][j] = o /\ j \in Given(pc[t])
      BY <2>2, Members
    <3>2. child[t] \in Holders(j, o)' <=> res'[child[t]][j] = o /\ j \in Given(next)
      BY <2>2, <2>4, <2>5, MembersNext
    <3>3. res'[child[t]][j] = IF j = k THEN Null ELSE res[child[t]][j]
      BY <2>2, <2>3 DEF Gets
    <3>4. count'[j][o] = IF j = k /\ o = res[child[t]][k] THEN count[j][o] + -1 ELSE count[j][o]
      BY <2>6 DEF Counted
    <3> QED BY <2>1, <3>1, <3>2, <3>3, <3>4, CountInt DEF Recount
  <2>10. Rementioned(child[t])
    BY <2>2, <2>5, <2>7, Rementioned0 DEF Lazy
  <2> QED BY <2>1, <2>2, <2>4, <2>5, <2>8, <2>9, <2>10, CountsKept, MmCountKept
<1>10. ASSUME NEW t \in Task, ForkFail(t)
      PROVE  Counts' /\ Mentions'
  <2>1. /\ pc[t] = "undo" /\ child' = [child EXCEPT ![t] = NoTask]
        /\ pc' = [pc EXCEPT ![t] = "user", ![child[t]] = "none"]
        /\ res' = [res EXCEPT ![child[t]] = [k \in All |-> Null]]
        /\ active_mm' = [active_mm EXCEPT ![child[t]] = Null]
    BY <1>10 DEF ForkFail
  <2>2. child[t] \in Task /\ child[t] # t /\ pc[child[t]] = "embryo"
    BY <2>1 DEF Making, Steps, Kinds
  <2>3. Changes(t, child[t]) /\ pc'[t] = "user"
    BY <2>1, <2>2, Tables DEF Types, Changes, Steps
  <2>4. res'[child[t]]["mm"] = Null
    BY <2>1, <2>2, Tables DEF Types
  <2>5. pc[t] # "embryo"
    BY <2>1
  <2>6. count' = count /\ mm_count' = mm_count /\ pc'[child[t]] = "none" /\ child'[t] = NoTask
    BY <2>1, <2>2, <1>10 DEF ForkFail, mms, Types
  <2>7. \A k \in All : res'[child[t]][k] = Null
    BY <2>1, <2>2 DEF Types
  <2>8. Alike(child[t])
    BY <2>1 DEF Alike, Unscheduled, Types
  <2>9. Recounted(child[t])
    <3> SUFFICES ASSUME NEW k \in All, NEW o \in Object
                 PROVE  child[t] \notin Holders(k, o)' /\ child[t] \notin Holders(k, o)
      BY <2>6, Recount0
    <3>1. k \notin Given("undo")
      BY Givens, Tables
    <3>2. child[t] \notin Holders(k, o)
      BY <2>1, <2>2, <3>1, Members
    <3>3. child[t] \notin Holders(k, o)'
      BY <2>2, <2>6, <2>7, MembersNext, TaskAssumption
    <3> QED BY <3>2, <3>3
  <2>10. Rementioned(child[t])
    BY <2>2, <2>6, Rementioned0 DEF Lazy
  <2>11. pc[t] # "embryo"
    BY <2>1
  <2> QED BY <2>2, <2>3, <2>6, <2>8, <2>9, <2>10, <2>11, CountsKept, MmCountKept
<1>11. ASSUME NEW t \in Task, ExitMm(t)
      PROVE  Counts' /\ Mentions'
  <2>1. "exit_files" \in Pcs
    BY DEF Pcs, Exiting, Daemonizing
  <2>2. exit_mm(t, t, "exit_files") /\ pc[t] = "user" /\ child' = child
    BY <1>11 DEF ExitMm
  <2>3. \A s \in Task \ {t} : pc'[s] = pc[s] \/ (pc'[s] = "user" /\ pc[s] = "vfork")
    BY <2>1, <2>2, MmExited, TaskAssumption
  <2>4. pc'[t] = "exit_files" /\ Gets(t, "mm", Null) /\ active_mm' = active_mm
    BY <2>1, <2>2, MmExited
  <2>5. Changes(t, t) /\ res'[t]["mm"] = Null
    BY <2>1, <2>2, <2>3, <2>4, Tables DEF Changes, Gets, Steps
  <2>6. /\ Counted("mm", res[t]["mm"], -1)
        /\ \A o \in Object :
             mm_count'[o] = IF o = res[t]["mm"] /\ count["mm"][o] # 1 THEN mm_count[o] + 1
                            ELSE mm_count[o]
    BY <2>1, <2>2, MmExited
  <2>7. /\ pc[t] # "embryo" /\ pc'[t] = "exit_files" /\ pc'[t] # "embryo"
        /\ child[t] = NoTask /\ child'[t] = NoTask
    BY <2>2, <2>4 DEF Making, Steps, Kinds
  <2>8. Alike(t)
    BY <2>2, <2>3, <2>7 DEF Alike, Unscheduled
  <2>9. Recounted(t)
    <3> SUFFICES ASSUME NEW j \in All, NEW o \in Object PROVE Recount(t, j, o)
      BY DEF Recounted
    <3>1. t \in Holders(j, o) <=> res[t][j] = o
      BY <2>7, Members
    <3>2. t \in Holders(j, o)' <=> res'[t][j] = o
      BY <2>7, MembersNext
    <3>3. res'[t][j] = IF j = "mm" THEN Null ELSE res[t][j]
      BY <2>4 DEF Gets
    <3>4. count'[j][o] = IF j = "mm" /\ o = res[t]["mm"] THEN count[j][o] + -1 ELSE count[j][o]
      BY <2>6 DEF Counted
    <3> QED BY <3>1, <3>2, <3>3, <3>4, CountInt, TaskAssumption DEF Recount
  <2>10. \A o \in Object : res[t]["mm"] = o => count["mm"][o] >= 1 /\ active_mm[t] = o
    BY <2>7, UsedBy, TaskAssumption DEF Active
  <2>11. Rementioned(t)
    <3> SUFFICES ASSUME NEW o \in Object PROVE Remention(t, o)
      BY DEF Rementioned
    <3>1. t \in Borrowers(o) <=> res[t]["mm"] = Null /\ active_mm[t] = o
      BY <2>2 DEF Borrowers, Lazy
    <3>2. t \in Borrowers(o)' <=> active_mm[t] = o
      BY <2>4, <2>5, <2>7 DEF Borrowers, Lazy
    <3>3. "mm" \in All /\ count["mm"][o] \in Int /\ mm_count[o] \in Int
      BY Tables, CountInt
    <3>4. count'["mm"][o] = IF o = res[t]["mm"] THEN count["mm"][o] + -1 ELSE count["mm"][o]
      BY <2>6, <3>3 DEF Counted
    <3>5. res[t]["mm"] = Null \/ active_mm[t] = res[t]["mm"]
      BY <2>7 DEF Active
    <3> QED BY <2>6, <2>10, <3>1, <3>2, <3>3, <3>4, <3>5, TaskAssumption DEF Remention, InUse
  <2> QED BY <2>5, <2>7, <2>8, <2>9, <2>11, CountsKept, MmCountKept
<1>12. ASSUME NEW t \in Task, ExitKind(t)
      PROVE  Counts' /\ Mentions'
  <2>1. PICK k \in Kinds, next \in Exiting : Drop(t, k) /\ Goto(t, next) /\ pc[t] \in Exiting
    BY <1>12, Tables DEF ExitKind, Exiting
  <2>2. k \in All /\ Gets(t, k, Null) /\ child' = child /\ active_mm' = active_mm
    BY <2>1, Dropped, <1>12, Tables DEF ExitKind, mms
  <2>3. Changes(t, t) /\ pc'[t] = next /\ res'[t]["mm"] = res[t]["mm"]
    BY <2>1, <2>2, Tables DEF Types, Changes, Goto, Gets
  <2>4. Counted(k, res[t][k], -1) /\ mm_count' = mm_count
    BY <2>1, <2>2, Dropped, <1>12 DEF ExitKind, mms
  <2>5. k # "mm" /\ \A o \in Object : count'["mm"][o] = count["mm"][o] /\ mm_count'[o] = mm_count[o]
    BY <2>4, Tables DEF Counted
  <2>6. pc[t] # "embryo" /\ pc'[t] # "embryo" /\ child'[t] = NoTask /\ child[t] = NoTask
    BY <2>1, <2>2, <2>3 DEF Making, Exiting, Steps, Kinds
  <2>7. Alike(t)
    BY <2>1 DEF Alike, Unscheduled, Goto, Types
  <2>8. Recounted(t)
    <3> SUFFICES ASSUME NEW j \in All, NEW o \in Object PROVE Recount(t, j, o)
      BY DEF Recounted
    <3>1. t \in Holders(j, o) <=> res[t][j] = o
      BY <2>6, Members
    <3>2. t \in Holders(j, o)' <=> res'[t][j] = o
      BY <2>6, MembersNext
    <3>3. res'[t][j] = IF j = k THEN Null ELSE res[t][j]
      BY <2>2 DEF Gets
    <3>4. count'[j][o] = IF j = k /\ o = res[t][k] THEN count[j][o] + -1 ELSE count[j][o]
      BY <2>4 DEF Counted
    <3> QED BY <3>1, <3>2, <3>3, <3>4, CountInt, TaskAssumption DEF Recount
  <2>9. Rementioned(t)
    <3>1. Lazy(t)' <=> Lazy(t)
      BY <2>1, <2>3 DEF Lazy, Exiting
    <3> QED BY <2>2, <2>5, <3>1, Rementioned0
  <2> QED BY <2>3, <2>6, <2>7, <2>8, <2>9, CountsKept, MmCountKept
<1>13. ASSUME NEW t \in Task, ExitEnd(t)
      PROVE  Counts' /\ Mentions'
  <2>1. /\ pc[t] = "exit" /\ Goto(t, "zombie") /\ res' = res /\ child' = child
        /\ active_mm' = [active_mm EXCEPT ![t] = Null]
    BY <1>13 DEF ExitEnd, DropActive
  <2>2. Changes(t, t) /\ pc'[t] = "zombie" /\ res'[t]["mm"] = Null
    BY <2>1 DEF Types, Changes, Goto, GivenUp, Exiting
  <2>3. /\ count' = count /\ child[t] = NoTask /\ child'[t] = NoTask
        /\ pc[t] # "embryo" /\ pc'[t] # "embryo"
    BY <2>1, <2>2, <1>13 DEF ExitEnd, Making, Steps, Kinds
  <2>4. \A o \in Object : mm_count'[o] = IF o = active_mm[t] THEN mm_count[o] - 1
                                        ELSE mm_count[o]
    BY <1>13 DEF ExitEnd, DropActive
  <2>5. res[t]["mm"] = Null
    BY <2>1 DEF GivenUp, Exiting
  <2>6. Alike(t)
    BY <2>1 DEF Alike, Unscheduled, Goto, Types
  <2>7. Recounted(t)
    <3> SUFFICES ASSUME NEW j \in All, NEW o \in Object
                 PROVE  t \in Holders(j, o)' <=> t \in Holders(j, o)
      BY <2>3, Recount0
    <3> QED BY <2>1, <2>3, Members, MembersNext
  <2>8. Rementioned(t)
    <3> SUFFICES ASSUME NEW o \in Object PROVE Remention(t, o)
      BY DEF Rementioned
    <3>1. t \in Borrowers(o) <=> active_mm[t] = o
      BY <2>1, <2>5 DEF Borrowers, Lazy
    <3>2. t \notin Borrowers(o)'
      BY <2>2 DEF Borrowers, Lazy
    <3> QED BY <2>3, <2>4, <3>1, <3>2, CountInt DEF Remention, InUse
  <2> QED BY <2>2, <2>3, <2>6, <2>7, <2>8, CountsKept, MmCountKept
<1>14. ASSUME NEW t \in Task, release_task(t)
      PROVE  Counts' /\ Mentions'
  <2>1. /\ pc[t] = "zombie" /\ Goto(t, "none") /\ res' = res /\ child' = child
        /\ active_mm' = active_mm
    BY <1>14 DEF release_task, mms
  <2>2. Changes(t, t) /\ pc'[t] = "none"
    BY <2>1 DEF Types, Changes, Goto
  <2>3. /\ count' = count /\ mm_count' = mm_count /\ child[t] = NoTask /\ child'[t] = NoTask
        /\ pc[t] # "embryo" /\ pc'[t] # "embryo"
    BY <2>1, <2>2, <1>14 DEF release_task, Making, Steps, Kinds, mms
  <2>4. Alike(t)
    BY <2>1 DEF Alike, Unscheduled, Goto, Types
  <2>5. Recounted(t)
    <3> SUFFICES ASSUME NEW j \in All, NEW o \in Object
                 PROVE  t \in Holders(j, o)' <=> t \in Holders(j, o)
      BY <2>3, Recount0
    <3> QED BY <2>1, <2>3, Members, MembersNext
  <2>6. Rementioned(t)
    BY <2>1, <2>2, <2>3, Rementioned0 DEF Lazy
  <2> QED BY <2>2, <2>3, <2>4, <2>5, <2>6, CountsKept, MmCountKept
<1>15. ASSUME NEW t \in Task, DaemonizeMm(t)
      PROVE  Counts' /\ Mentions'
  <2>1. "daemonize_fs" \in Pcs
    BY DEF Pcs, Exiting, Daemonizing
  <2>2. exit_mm(t, t, "daemonize_fs") /\ pc[t] = "user" /\ child' = child
    BY <1>15 DEF DaemonizeMm
  <2>3. \A s \in Task \ {t} : pc'[s] = pc[s] \/ (pc'[s] = "user" /\ pc[s] = "vfork")
    BY <2>1, <2>2, MmExited, TaskAssumption
  <2>4. pc'[t] = "daemonize_fs" /\ Gets(t, "mm", Null) /\ active_mm' = active_mm
    BY <2>1, <2>2, MmExited
  <2>5. Changes(t, t) /\ res'[t]["mm"] = Null
    BY <2>1, <2>2, <2>3, <2>4, Tables DEF Changes, Gets, Steps
  <2>6. /\ Counted("mm", res[t]["mm"], -1)
        /\ \A o \in Object :
             mm_count'[o] = IF o = res[t]["mm"] /\ count["mm"][o] # 1 THEN mm_count[o] + 1
                            ELSE mm_count[o]
    BY <2>1, <2>2, MmExited
  <2>7. /\ pc[t] # "embryo" /\ pc'[t] = "daemonize_fs" /\ pc'[t] # "embryo"
        /\ child[t] = NoTask /\ child'[t] = NoTask
    BY <2>2, <2>4 DEF Making, Steps, Kinds
  <2>8. Alike(t)
    BY <2>2, <2>3, <2>7 DEF Alike, Unscheduled
  <2>9. Recounted(t)
    <3> SUFFICES ASSUME NEW j \in All, NEW o \in Object PROVE Recount(t, j, o)
      BY DEF Recounted
    <3>1. t \in Holders(j, o) <=> res[t][j] = o
      BY <2>7, Members
    <3>2. t \in Holders(j, o)' <=> res'[t][j] = o
      BY <2>7, MembersNext
    <3>3. res'[t][j] = IF j = "mm" THEN Null ELSE res[t][j]
      BY <2>4 DEF Gets
    <3>4. count'[j][o] = IF j = "mm" /\ o = res[t]["mm"] THEN count[j][o] + -1 ELSE count[j][o]
      BY <2>6 DEF Counted
    <3> QED BY <3>1, <3>2, <3>3, <3>4, CountInt, TaskAssumption DEF Recount
  <2>10. \A o \in Object : res[t]["mm"] = o => count["mm"][o] >= 1 /\ active_mm[t] = o
    BY <2>7, UsedBy, TaskAssumption DEF Active
  <2>11. Rementioned(t)
    <3> SUFFICES ASSUME NEW o \in Object PROVE Remention(t, o)
      BY DEF Rementioned
    <3>1. t \in Borrowers(o) <=> res[t]["mm"] = Null /\ active_mm[t] = o
      BY <2>2 DEF Borrowers, Lazy
    <3>2. t \in Borrowers(o)' <=> active_mm[t] = o
      BY <2>4, <2>5, <2>7 DEF Borrowers, Lazy
    <3>3. "mm" \in All /\ count["mm"][o] \in Int /\ mm_count[o] \in Int
      BY Tables, CountInt
    <3>4. count'["mm"][o] = IF o = res[t]["mm"] THEN count["mm"][o] + -1 ELSE count["mm"][o]
      BY <2>6, <3>3 DEF Counted
    <3>5. res[t]["mm"] = Null \/ active_mm[t] = res[t]["mm"]
      BY <2>7 DEF Active
    <3> QED BY <2>6, <2>10, <3>1, <3>2, <3>3, <3>4, <3>5, TaskAssumption DEF Remention, InUse
  <2> QED BY <2>5, <2>7, <2>8, <2>9, <2>11, CountsKept, MmCountKept
<1>16. ASSUME NEW t \in Task, DaemonizeKind(t)
      PROVE  Counts' /\ Mentions'
  <2>1. PICK k \in Kinds, next \in {"daemonize_files", "user"} :
            Adopt(t, k) /\ Goto(t, next) /\ pc[t] \in Daemonizing
    BY <1>16, Tables DEF DaemonizeKind, Daemonizing
  <2>2. /\ k \in All /\ Gets(t, k, res[InitTask][k])
        /\ child' = child /\ active_mm' = active_mm
    BY <2>1, Adopted, <1>16, Tables DEF DaemonizeKind, mms
  <2>3. Changes(t, t) /\ pc'[t] = next /\ res'[t]["mm"] = res[t]["mm"]
    BY <2>1, <2>2, Tables DEF Types, Changes, Goto, Gets
  <2>4. /\ mm_count' = mm_count
        /\ \A j \in All, o \in Object :
             count'[j][o] = IF j # k THEN count[j][o]
                            ELSE count[k][o] - (IF o = res[t][k] THEN 1 ELSE 0)
                                             + (IF o = res[InitTask][k] THEN 1 ELSE 0)
    BY <2>1, <2>2, Adopted, <1>16 DEF DaemonizeKind, mms
  <2>5. k # "mm" /\ \A o \in Object : count'["mm"][o] = count["mm"][o] /\ mm_count'[o] = mm_count[o]
    BY <2>4, Tables
  <2>6. pc[t] # "embryo" /\ pc'[t] # "embryo" /\ child'[t] = NoTask /\ child[t] = NoTask
    BY <2>1, <2>2, <2>3 DEF Making, Daemonizing, Steps, Kinds
  <2>7. Alike(t)
    BY <2>1 DEF Alike, Unscheduled, Goto, Types
  <2>8. Recounted(t)
    <3> SUFFICES ASSUME NEW j \in All, NEW o \in Object PROVE Recount(t, j, o)
      BY DEF Recounted
    <3>1. t \in Holders(j, o) <=> res[t][j] = o
      BY <2>6, Members
    <3>2. t \in Holders(j, o)' <=> res'[t][j] = o
      BY <2>6, MembersNext
    <3>3. res'[t][j] = IF j = k THEN res[InitTask][k] ELSE res[t][j]
      BY <2>2 DEF Gets
    <3> QED BY <2>4, <3>1, <3>2, <3>3, CountInt DEF Recount
  <2>9. Rementioned(t)
    <3>1. Lazy(t)' <=> Lazy(t)
      BY <2>1, <2>3 DEF Lazy, Daemonizing
    <3> QED BY <2>2, <2>5, <3>1, Rementioned0
  <2> QED BY <2>3, <2>6, <2>7, <2>8, <2>9, CountsKept, MmCountKept
<1>17. ASSUME NEW t \in Task, SwitchFrom(t)
      PROVE  Counts' /\ Mentions'
  <2>1. /\ pc' = pc /\ res' = res /\ child' = child
        /\ active_mm' = [active_mm EXCEPT ![t] = Null]
        /\ pc[t] # "embryo" /\ res[t]["mm"] = Null
    BY <1>17 DEF SwitchFrom, DropActive, call, Lazy
  <2>2. \A b \in Object : mm_count'[b] = IF b = active_mm[t] THEN mm_count[b] - 1
                                        ELSE mm_count[b]
    BY <1>17 DEF SwitchFrom, DropActive
  <2>3. \A b \in Object : active_mm'[t] # b /\ count' = count
    BY <2>1, <1>17, TaskAssumption DEF SwitchFrom, Types
  <2>4. Lazy(t) /\ Lazy(t)'
    BY <2>1, <1>17 DEF SwitchFrom, Lazy
  <2>5. Counts'
    <3>1. \A k, b : Holders(k, b)' = Holders(k, b)
      BY <2>1 DEF Holders
    <3> QED BY <2>3, <3>1 DEF Counts
  <2>6. Changes(t, t) /\ Alike(t)
    BY <2>1 DEF Changes, Alike, Unscheduled, Types
  <2>7. Rementioned(t)
    <3> SUFFICES ASSUME NEW b \in Object PROVE Remention(t, b)
      BY DEF Rementioned
    <3>1. t \in Borrowers(b) <=> active_mm[t] = b
      BY <2>4 DEF Borrowers
    <3>2. t \in Borrowers(b)' <=> active_mm'[t] = b
      BY <2>4 DEF Borrowers
    <3> QED BY <2>2, <2>3, <3>1, <3>2, CountInt, TaskAssumption DEF Remention, InUse
  <2> QED BY <2>5, <2>6, <2>7, MmCountKept
<1>18. ASSUME NEW t \in Task, NEW o \in Object, SwitchTo(t, o)
      PROVE  Counts' /\ Mentions'
  <2>1. /\ pc' = pc /\ res' = res /\ child' = child
        /\ active_mm' = [active_mm EXCEPT ![t] = o]
        /\ pc[t] # "embryo" /\ res[t]["mm"] = Null
    BY <1>18 DEF SwitchTo, DropActive, call, Lazy
  <2>2. \A b \in Object : mm_count'[b] = IF b = o THEN mm_count[b] + 1 ELSE mm_count[b]
    BY <1>18 DEF SwitchTo, Types
  <2>3. active_mm'[t] = o /\ active_mm[t] = Null /\ count' = count
    BY <2>1, <1>18 DEF SwitchTo, Types
  <2>4. Lazy(t) /\ Lazy(t)'
    BY <2>1, <1>18 DEF SwitchTo, Lazy
  <2>5. Counts'
    <3>1. \A k, b : Holders(k, b)' = Holders(k, b)
      BY <2>1 DEF Holders
    <3> QED BY <2>3, <3>1 DEF Counts
  <2>6. Changes(t, t) /\ Alike(t)
    BY <2>1 DEF Changes, Alike, Unscheduled, Types
  <2>7. Rementioned(t)
    <3> SUFFICES ASSUME NEW b \in Object PROVE Remention(t, b)
      BY DEF Rementioned
    <3>1. t \in Borrowers(b) <=> active_mm[t] = b
      BY <2>4 DEF Borrowers
    <3>2. t \in Borrowers(b)' <=> active_mm'[t] = b
      BY <2>4 DEF Borrowers
    <3> QED BY <2>2, <2>3, <3>1, <3>2, CountInt, TaskAssumption DEF Remention, InUse
  <2> QED BY <2>5, <2>6, <2>7, MmCountKept
<1>19. CASE UNCHANGED vars
  BY <1>19 DEF vars, call, mms, charges, Counts, Mentions, Holders, Borrowers, Lazy, InUse
<1> QED BY <1>1, <1>2, <1>3, <1>4, <1>5, <1>6, <1>7, <1>8, <1>9, <1>10, <1>11, <1>12,
           <1>13, <1>14, <1>15, <1>16, <1>17, <1>18, <1>19 DEF Next, Step, Unwind,
           copy_kind, UndoKind

(* The three tallies, and whom they count. *)
Made == {t \in Task : pc[t] # "none"}
Runs == {t \in Task : pc[t] \notin {"none", "zombie"}}
Threads == {t \in Task : pc[t] \notin {"none", "embryo"}}

Charged ==
  /\ processes = Cardinality(Made)
  /\ domain_users = Cardinality(Runs)
  /\ nr_threads = Cardinality(Threads)

LEMMA Tallies ==
  ASSUME Charged
  PROVE  processes \in Nat /\ domain_users \in Nat /\ nr_threads \in Nat
<1>1. Made \in SUBSET Task /\ Runs \in SUBSET Task /\ Threads \in SUBSET Task
  BY DEF Made, Runs, Threads
<1>2. \A S \in SUBSET Task : Cardinality(S) \in Nat
  BY TaskAssumption, FS_Subset, FS_CardinalityType
<1> QED BY <1>1, <1>2 DEF Charged

LEMMA ChargesMoved ==
  ASSUME Charged, NEW x \in Task,
         \A s \in Task \ {x} :
           pc'[s] = pc[s] \/ (pc[s] \notin Unscheduled /\ pc'[s] \notin Unscheduled),
         processes' = processes + (IF x \in Made' THEN 1 ELSE 0) - (IF x \in Made THEN 1 ELSE 0),
         domain_users' = domain_users + (IF x \in Runs' THEN 1 ELSE 0)
                                      - (IF x \in Runs THEN 1 ELSE 0),
         nr_threads' = nr_threads + (IF x \in Threads' THEN 1 ELSE 0)
                                  - (IF x \in Threads THEN 1 ELSE 0)
  PROVE  Charged'
<1>1. \A s \in Task \ {x} :
        /\ s \in Made' <=> s \in Made
        /\ s \in Runs' <=> s \in Runs
        /\ s \in Threads' <=> s \in Threads
  BY DEF Made, Runs, Threads, Unscheduled
<1>2. /\ Made \in SUBSET Task /\ Made' \in SUBSET Task
      /\ Runs \in SUBSET Task /\ Runs' \in SUBSET Task
      /\ Threads \in SUBSET Task /\ Threads' \in SUBSET Task
  BY DEF Made, Runs, Threads
<1>3. processes' = Cardinality(Made')
  BY <1>1, <1>2, OneMoreOrLess DEF Charged
<1>4. domain_users' = Cardinality(Runs')
  BY <1>1, <1>2, OneMoreOrLess DEF Charged
<1>5. nr_threads' = Cardinality(Threads')
  BY <1>1, <1>2, OneMoreOrLess DEF Charged
<1> QED BY <1>3, <1>4, <1>5 DEF Charged

LEMMA ChargesKept ==
  ASSUME Charged, UNCHANGED charges,
         \A s \in Task :
           pc'[s] = pc[s] \/ (pc[s] \notin Unscheduled /\ pc'[s] \notin Unscheduled)
  PROVE  Charged'
<1>1. Made' = Made /\ Runs' = Runs /\ Threads' = Threads
  BY DEF Made, Runs, Threads, Unscheduled
<1> QED BY <1>1 DEF Charged, charges

LEMMA ChargesStep ==
  ASSUME Types, Making, Completion, Charged, [Next]_vars
  PROVE  Charged'
<1>1. ASSUME NEW t \in Task, NEW c \in Task, NEW flags \in Flags, ForkBegin(t, c, flags)
      PROVE  Charged'
  <2>1. /\ pc[t] = "user" /\ pc[c] = "none"
        /\ pc' = [pc EXCEPT ![t] = "files", ![c] = "embryo"]
        /\ processes' = processes + 1 /\ domain_users' = domain_users + 1
        /\ nr_threads' = nr_threads
    BY <1>1 DEF ForkBegin, Begin
  <2>2. /\ c \notin Made /\ c \notin Runs /\ c \notin Threads
        /\ c \in Made' /\ c \in Runs' /\ c \notin Threads'
    BY <2>1 DEF Made, Runs, Threads, Types
  <2>3. \A s \in Task \ {c} :
             pc'[s] = pc[s] \/ (pc[s] \notin Unscheduled /\ pc'[s] \notin Unscheduled)
    BY <2>1 DEF Types, Unscheduled
  <2>4. /\ processes' = processes + (IF c \in Made' THEN 1 ELSE 0) - (IF c \in Made THEN 1 ELSE 0)
        /\ domain_users' = domain_users + (IF c \in Runs' THEN 1 ELSE 0)
                                        - (IF c \in Runs THEN 1 ELSE 0)
        /\ nr_threads' = nr_threads + (IF c \in Threads' THEN 1 ELSE 0)
                                    - (IF c \in Threads THEN 1 ELSE 0)
    BY <2>1, <2>2, Tallies
  <2> QED BY <2>3, <2>4, ChargesMoved
<1>2. ASSUME NEW t \in Task, NEW k \in Kinds, copy_kind(t, k), Share(t, k)
      PROVE  Charged'
  <2>1. pc[t] \in Steps /\ \E next \in Steps : Goto(t, next) /\ UNCHANGED charges
    BY <1>2, Tables DEF copy_kind, Share, Steps
  <2> QED BY <2>1, ChargesKept DEF Goto, Types, Unscheduled, Steps, Kinds
<1>3. ASSUME NEW t \in Task, NEW k \in Kinds, copy_kind(t, k), Copy(t, k)
      PROVE  Charged'
  <2>1. pc[t] \in Steps /\ \E next \in Steps : Goto(t, next) /\ UNCHANGED charges
    BY <1>3, Tables DEF copy_kind, Copy, Steps
  <2> QED BY <2>1, ChargesKept DEF Goto, Types, Unscheduled, Steps, Kinds
<1>4. ASSUME NEW t \in Task, NEW k \in Kinds, copy_kind(t, k), CopyFails(t, k)
      PROVE  Charged'
  <2>1. pc[t] \in Steps /\ \E next \in Steps : Goto(t, next) /\ UNCHANGED charges
    BY <1>4, Tables DEF copy_kind, CopyFails, Steps
  <2> QED BY <2>1, ChargesKept DEF Goto, Types, Unscheduled, Steps, Kinds
<1>5. ASSUME NEW t \in Task, copy_mm(t)
      PROVE  Charged'
  <2>1. pc[t] \in Steps /\ \E next \in Steps : Goto(t, next) /\ UNCHANGED charges
    BY <1>5, Tables DEF copy_mm, Steps
  <2> QED BY <2>1, ChargesKept DEF Goto, Types, Unscheduled, Steps, Kinds
<1>6. ASSUME NEW t \in Task, copy_namespace(t)
      PROVE  Charged'
  <2>1. pc[t] \in Steps /\ \E next \in Steps : Goto(t, next) /\ UNCHANGED charges
    BY <1>6, Tables DEF copy_namespace, Steps
  <2> QED BY <2>1, ChargesKept DEF Goto, Types, Unscheduled, Steps, Kinds
<1>7. ASSUME NEW t \in Task, ForkEnd(t)
      PROVE  Charged'
  <2>1. /\ pc[t] = "thread" /\ nr_threads' = nr_threads + 1
        /\ processes' = processes /\ domain_users' = domain_users
        /\ \E next \in {"user", "vfork"} : pc' = [pc EXCEPT ![child[t]] = "user", ![t] = next]
    BY <1>7 DEF ForkEnd
  <2>2. child[t] \in Task /\ child[t] # t /\ pc[child[t]] = "embryo"
    BY <2>1 DEF Making, Steps, Kinds
  <2>3. /\ child[t] \in Made /\ child[t] \in Runs /\ child[t] \notin Threads
        /\ child[t] \in Made' /\ child[t] \in Runs' /\ child[t] \in Threads'
    BY <2>1, <2>2 DEF Made, Runs, Threads, Types
  <2>4. \A s \in Task \ {child[t]} :
             pc'[s] = pc[s] \/ (pc[s] \notin Unscheduled /\ pc'[s] \notin Unscheduled)
    BY <2>1, <2>2 DEF Types, Unscheduled
  <2>5. /\ processes' = processes + (IF child[t] \in Made' THEN 1 ELSE 0)
                                  - (IF child[t] \in Made THEN 1 ELSE 0)
        /\ domain_users' = domain_users + (IF child[t] \in Runs' THEN 1 ELSE 0)
                                        - (IF child[t] \in Runs THEN 1 ELSE 0)
        /\ nr_threads' = nr_threads + (IF child[t] \in Threads' THEN 1 ELSE 0)
                                    - (IF child[t] \in Threads THEN 1 ELSE 0)
    BY <2>1, <2>3, Tallies
  <2> QED BY <2>4, <2>5, <2>2, ChargesMoved
<1>8. ASSUME NEW t \in Task, UndoMm(t)
      PROVE  Charged'
  <2>1. child[t] \in Task /\ pc[t] \in Steps /\ "undo_sig" \in Pcs
    BY <1>8 DEF Making, UndoMm, Steps, Pcs
  <2>2. exit_mm(t, child[t], "undo_sig") /\ UNCHANGED charges
    BY <1>8 DEF UndoMm
  <2>3. /\ pc'[t] = "undo_sig"
        /\ \A s \in Task \ {t} : pc'[s] = pc[s] \/ (pc[s] = "vfork" /\ pc'[s] = "user")
    BY <2>1, <2>2, MmExited, TaskAssumption
  <2> QED BY <2>1, <2>2, <2>3, ChargesKept DEF Unscheduled, Steps, Kinds
<1>9. ASSUME NEW t \in Task, UndoKind(t)
      PROVE  Charged'
  <2>1. pc[t] \in Steps /\ \E next \in Steps : Goto(t, next) /\ UNCHANGED charges
    BY <1>9, Tables DEF UndoKind, Undo, Steps
  <2> QED BY <2>1, ChargesKept DEF Goto, Types, Unscheduled, Steps, Kinds
<1>10. ASSUME NEW t \in Task, ForkFail(t)
      PROVE  Charged'
  <2>1. /\ pc[t] = "undo" /\ nr_threads' = nr_threads
        /\ processes' = processes - 1 /\ domain_users' = domain_users - 1
        /\ pc' = [pc EXCEPT ![t] = "user", ![child[t]] = "none"]
    BY <1>10 DEF ForkFail
  <2>2. child[t] \in Task /\ child[t] # t /\ pc[child[t]] = "embryo"
    BY <2>1 DEF Making, Steps, Kinds
  <2>3. /\ child[t] \in Made /\ child[t] \in Runs /\ child[t] \notin Threads
        /\ child[t] \notin Made' /\ child[t] \notin Runs' /\ child[t] \notin Threads'
    BY <2>1, <2>2 DEF Made, Runs, Threads, Types
  <2>4. \A s \in Task \ {child[t]} :
             pc'[s] = pc[s] \/ (pc[s] \notin Unscheduled /\ pc'[s] \notin Unscheduled)
    BY <2>1, <2>2 DEF Types, Unscheduled
  <2>5. /\ processes' = processes + (IF child[t] \in Made' THEN 1 ELSE 0)
                                  - (IF child[t] \in Made THEN 1 ELSE 0)
        /\ domain_users' = domain_users + (IF child[t] \in Runs' THEN 1 ELSE 0)
                                        - (IF child[t] \in Runs THEN 1 ELSE 0)
        /\ nr_threads' = nr_threads + (IF child[t] \in Threads' THEN 1 ELSE 0)
                                    - (IF child[t] \in Threads THEN 1 ELSE 0)
    BY <2>1, <2>3, Tallies
  <2> QED BY <2>4, <2>5, <2>2, ChargesMoved
<1>11. ASSUME NEW t \in Task, ExitMm(t)
      PROVE  Charged'
  <2>1. "exit_files" \in Pcs
    BY DEF Pcs, Exiting, Daemonizing
  <2>2. exit_mm(t, t, "exit_files") /\ pc[t] = "user" /\ UNCHANGED charges
    BY <1>11 DEF ExitMm
  <2>3. /\ pc'[t] = "exit_files"
        /\ \A s \in Task \ {t} : pc'[s] = pc[s] \/ (pc[s] = "vfork" /\ pc'[s] = "user")
    BY <2>1, <2>2, MmExited, TaskAssumption
  <2> QED BY <2>2, <2>3, ChargesKept DEF Unscheduled
<1>12. ASSUME NEW t \in Task, ExitKind(t)
      PROVE  Charged'
  <2>1. pc[t] \in Exiting /\ \E next \in Exiting : Goto(t, next) /\ UNCHANGED charges
    BY <1>12 DEF ExitKind, Exiting
  <2> QED BY <2>1, ChargesKept DEF Goto, Types, Unscheduled, Exiting
<1>13. ASSUME NEW t \in Task, ExitEnd(t)
      PROVE  Charged'
  <2>1. /\ pc[t] = "exit" /\ pc' = [pc EXCEPT ![t] = "zombie"] /\ domain_users' = domain_users - 1
        /\ processes' = processes /\ nr_threads' = nr_threads
    BY <1>13 DEF ExitEnd, Goto
  <2>2. /\ t \in Made /\ t \in Runs /\ t \in Threads
        /\ t \in Made' /\ t \notin Runs' /\ t \in Threads'
    BY <2>1 DEF Made, Runs, Threads, Types
  <2>3. \A s \in Task \ {t} :
             pc'[s] = pc[s] \/ (pc[s] \notin Unscheduled /\ pc'[s] \notin Unscheduled)
    BY <2>1 DEF Types, Unscheduled
  <2>4. /\ processes' = processes + (IF t \in Made' THEN 1 ELSE 0) - (IF t \in Made THEN 1 ELSE 0)
        /\ domain_users' = domain_users + (IF t \in Runs' THEN 1 ELSE 0)
                                        - (IF t \in Runs THEN 1 ELSE 0)
        /\ nr_threads' = nr_threads + (IF t \in Threads' THEN 1 ELSE 0)
                                    - (IF t \in Threads THEN 1 ELSE 0)
    BY <2>1, <2>2, Tallies
  <2> QED BY <2>3, <2>4, ChargesMoved
<1>14. ASSUME NEW t \in Task, release_task(t)
      PROVE  Charged'
  <2>1. /\ pc[t] = "zombie" /\ pc' = [pc EXCEPT ![t] = "none"] /\ domain_users' = domain_users
        /\ processes' = processes - 1 /\ nr_threads' = nr_threads - 1
    BY <1>14 DEF release_task, Goto
  <2>2. /\ t \in Made /\ t \notin Runs /\ t \in Threads
        /\ t \notin Made' /\ t \notin Runs' /\ t \notin Threads'
    BY <2>1 DEF Made, Runs, Threads, Types
  <2>3. \A s \in Task \ {t} :
             pc'[s] = pc[s] \/ (pc[s] \notin Unscheduled /\ pc'[s] \notin Unscheduled)
    BY <2>1 DEF Types, Unscheduled
  <2>4. /\ processes' = processes + (IF t \in Made' THEN 1 ELSE 0) - (IF t \in Made THEN 1 ELSE 0)
        /\ domain_users' = domain_users + (IF t \in Runs' THEN 1 ELSE 0)
                                        - (IF t \in Runs THEN 1 ELSE 0)
        /\ nr_threads' = nr_threads + (IF t \in Threads' THEN 1 ELSE 0)
                                    - (IF t \in Threads THEN 1 ELSE 0)
    BY <2>1, <2>2, Tallies
  <2> QED BY <2>3, <2>4, ChargesMoved
<1>15. ASSUME NEW t \in Task, DaemonizeMm(t)
      PROVE  Charged'
  <2>1. "daemonize_fs" \in Pcs
    BY DEF Pcs, Exiting, Daemonizing
  <2>2. exit_mm(t, t, "daemonize_fs") /\ pc[t] = "user" /\ UNCHANGED charges
    BY <1>15 DEF DaemonizeMm
  <2>3. /\ pc'[t] = "daemonize_fs"
        /\ \A s \in Task \ {t} : pc'[s] = pc[s] \/ (pc[s] = "vfork" /\ pc'[s] = "user")
    BY <2>1, <2>2, MmExited, TaskAssumption
  <2> QED BY <2>2, <2>3, ChargesKept DEF Unscheduled
<1>16. ASSUME NEW t \in Task, DaemonizeKind(t)
      PROVE  Charged'
  <2>1. /\ pc[t] \in Daemonizing /\ UNCHANGED charges
        /\ \E next \in {"daemonize_files", "user"} : Goto(t, next)
    BY <1>16 DEF DaemonizeKind, Daemonizing
  <2> QED BY <2>1, ChargesKept DEF Goto, Types, Unscheduled, Daemonizing
<1>17. ASSUME NEW t \in Task, SwitchFrom(t)
      PROVE  Charged'
  <2>1. pc' = pc /\ UNCHANGED charges
    BY <1>17 DEF SwitchFrom, call
  <2> QED BY <2>1, ChargesKept
<1>18. ASSUME NEW t \in Task, NEW o \in Object, SwitchTo(t, o)
      PROVE  Charged'
  <2>1. pc' = pc /\ UNCHANGED charges
    BY <1>18 DEF SwitchTo, call
  <2> QED BY <2>1, ChargesKept
<1>19. CASE UNCHANGED vars
  BY <1>19 DEF vars, call, mms, charges, Charged, Made, Runs, Threads
<1> QED BY <1>1, <1>2, <1>3, <1>4, <1>5, <1>6, <1>7, <1>8, <1>9, <1>10, <1>11, <1>12,
           <1>13, <1>14, <1>15, <1>16, <1>17, <1>18, <1>19 DEF Next, Step, Unwind,
           copy_kind, UndoKind

LEMMA ChargedInvariant == Spec => []Charged
<1>1. Init => Charged
  <2> SUFFICES ASSUME Init PROVE Charged
    OBVIOUS
  <2>1. Made = {InitTask} /\ Runs = {InitTask} /\ Threads = {InitTask}
    BY TaskAssumption DEF Init, Made, Runs, Threads
  <2> QED BY <2>1, FS_Singleton DEF Charged, Init
<1>2. Shape /\ Charged /\ [Next]_vars => Charged'
  BY ChargesStep DEF Shape
<1> QED BY ShapeInvariant, <1>1, <1>2, PTL DEF Spec

(* A user is charged, and a binary format and the kernel's tally of threads kept, for
   every process there is and for none that is gone, a failed fork included.       *)
THEOREM ChargesAreRight == Spec => []ChargesAgree
<1>1. Charged => ChargesAgree
  <2>1. /\ Made = {t \in Task : pc[t] # "none"}
        /\ Runs = {t \in Task : pc[t] # "none"} \ {t \in Task : pc[t] = "zombie"}
        /\ Threads = {t \in Task : pc[t] # "none"} \ {t \in Task : pc[t] = "embryo"}
    BY DEF Made, Runs, Threads
  <2> QED BY <2>1 DEF Charged, ChargesAgree
<1> QED BY ChargedInvariant, <1>1, PTL

(* Every count is the number of its holders, mm_users with the rest, and mm_count is
   never below what users and borrowers need: the two facts the steps of do_fork,
   do_exit, daemonize and schedule() keep together.                               *)
THEOREM CountsInvariant == Spec => [](Counts /\ Mentions)
<1>1. Init => Counts /\ Mentions
  <2> SUFFICES ASSUME Init PROVE Counts /\ Mentions
    OBVIOUS
  <2>1. First \in Object
    BY TaskAssumption DEF First
  <2>2. /\ \A t \in Task : child[t] = NoTask /\ pc[t] = IF t = InitTask THEN "user" ELSE "none"
        /\ \A t \in Task, k \in All : res[t][k] = IF t = InitTask THEN First ELSE Null
        /\ \A k \in All, o \in Object : count[k][o] = IF o = First THEN 1 ELSE 0
        /\ \A o \in Object : mm_count[o] = IF o = First THEN 1 ELSE 0
    BY DEF Init
  <2>3. \A k \in All, o \in Object : Holders(k, o) = IF o = First THEN {InitTask} ELSE {}
    BY <2>2, TaskAssumption DEF Holders
  <2>4. \A o \in Object : Borrowers(o) = {}
    BY <2>1, <2>2, TaskAssumption, Tables DEF Borrowers, Lazy
  <2>5. Cardinality({}) = 0 /\ Cardinality({InitTask}) = 1
    BY FS_EmptySet, FS_Singleton
  <2>6. Counts
    BY <2>2, <2>3, <2>5 DEF Counts
  <2>7. \A o \in Object : InUse(o) = IF o = First THEN 1 ELSE 0
    BY <2>2, Tables DEF InUse
  <2>8. Mentions
    BY <2>2, <2>4, <2>5, <2>7 DEF Mentions
  <2> QED BY <2>6, <2>8
<1>2. Shape /\ Shape' /\ Counts /\ Mentions /\ [Next]_vars => Counts' /\ Mentions'
  BY CountsStep
<1> QED BY ShapeInvariant, <1>1, <1>2, PTL DEF Spec

(* The count of files, fs and signal handlers is at every moment the number of tasks
   that hold them: copy_files, copy_fs and copy_sighand, exit_files, exit_fs and
   exit_sighand, the labels of do_fork and daemonize in any order of any tasks.   *)
THEOREM CountsAreRight == Spec => []CountsAgree
<1>1. Counts => CountsAgree
  BY Tables DEF Counts, CountsAgree
<1> QED BY CountsInvariant, <1>1, PTL

(* mm_users is the number of users and mm_count the number of references, where
   copy_namespace does not fail under a process with memory: bad_fork_cleanup_mm
   would call exit_mm for the child.                                           *)
THEOREM MmCountsAreRight ==
  ASSUME "namespace" \notin Fails
  PROVE  Spec => []MmCounted
<1>1. Counts /\ Mentions => MmCounted
  <2> SUFFICES ASSUME Counts, Mentions, NEW o \in Object
               PROVE  /\ count["mm"][o] = Cardinality(Holders("mm", o))
                      /\ mm_count[o] = Cardinality(Borrowers(o))
                                       + (IF Holders("mm", o) = {} THEN 0 ELSE 1)
    BY DEF MmCounted
  <2>1. count["mm"][o] = Cardinality(Holders("mm", o))
    BY Tables DEF Counts
  <2>2. Cardinality(Holders("mm", o)) = 0 <=> Holders("mm", o) = {}
    <3>1. Holders("mm", o) \in SUBSET Task
      BY DEF Holders
    <3>2. IsFiniteSet(Holders("mm", o))
      BY <3>1, TaskAssumption, FS_Subset
    <3> QED BY <3>2, FS_EmptySet
  <2>3. mm_count[o] = Cardinality(Borrowers(o)) + InUse(o)
    BY DEF Mentions
  <2> QED BY <2>1, <2>2, <2>3 DEF InUse
<1> QED BY CountsInvariant, <1>1, PTL

(* Types, and no count ever falls below zero, a fork that fails in copy_namespace
   included.                                                                    *)
THEOREM TypeCorrect == Spec => []TypeOK
<1>1. Shape /\ Counts /\ Mentions /\ Charged => TypeOK
  <2> SUFFICES ASSUME Shape, Counts, Mentions, Charged PROVE TypeOK
    OBVIOUS
  <2>1. \A S \in SUBSET Task : Cardinality(S) \in Nat
    BY TaskAssumption, FS_Subset, FS_CardinalityType
  <2>2. count \in [All -> [Object -> Nat]]
    <3>1. count \in [All -> [Object -> Int]]
      BY DEF Shape, Types
    <3>2. \A k \in All, o \in Object : count[k][o] \in Nat
      BY <2>1 DEF Counts, Holders
    <3> QED BY <3>1, <3>2
  <2>3. mm_count \in [Object -> Nat]
    <3>1. mm_count \in [Object -> Int]
      BY DEF Shape, Types
    <3>2. \A o \in Object : Cardinality(Borrowers(o)) \in Nat /\ InUse(o) \in Nat
      BY <2>1 DEF Borrowers, InUse
    <3>3. \A o \in Object : mm_count[o] \in Nat
      BY <3>1, <3>2 DEF Mentions
    <3> QED BY <3>1, <3>3
  <2>4. {processes, domain_users, nr_threads} \subseteq Nat
    BY <2>1 DEF Charged, Made, Runs, Threads
  <2> QED BY <2>2, <2>3, <2>4 DEF TypeOK, Shape, Types, Active, Pcs, Exiting, Daemonizing
<1> QED BY ShapeInvariant, CountsInvariant, ChargedInvariant, <1>1, PTL

LEMMA VforkStep ==
  ASSUME Shape, [Next]_vars, "namespace" \notin Fails,
         NEW s \in Task, pc[s] = "vfork", pc'[s] # "vfork"
  PROVE  \E d \in Task : vfork_done[d] = s /\ res'[d]["mm"] = Null
<1> USE DEF Shape
<1>1. ASSUME NEW t \in Task, NEW c \in Task, NEW flags \in Flags, ForkBegin(t, c, flags)
      PROVE  \E d \in Task : vfork_done[d] = s /\ res'[d]["mm"] = Null
  BY <1>1, Tables DEF Types, ForkBegin, Begin
<1>2. ASSUME NEW t \in Task, NEW k \in Kinds, copy_kind(t, k), Share(t, k)
      PROVE  \E d \in Task : vfork_done[d] = s /\ res'[d]["mm"] = Null
  BY <1>2, Tables DEF Types, copy_kind, Share, Goto
<1>3. ASSUME NEW t \in Task, NEW k \in Kinds, copy_kind(t, k), Copy(t, k)
      PROVE  \E d \in Task : vfork_done[d] = s /\ res'[d]["mm"] = Null
  BY <1>3, Tables DEF Types, copy_kind, Copy, Goto
<1>4. ASSUME NEW t \in Task, NEW k \in Kinds, copy_kind(t, k), CopyFails(t, k)
      PROVE  \E d \in Task : vfork_done[d] = s /\ res'[d]["mm"] = Null
  BY <1>4, Tables DEF Types, copy_kind, CopyFails, Goto
<1>5. ASSUME NEW t \in Task, copy_mm(t)
      PROVE  \E d \in Task : vfork_done[d] = s /\ res'[d]["mm"] = Null
  BY <1>5, Tables DEF Types, copy_mm, Goto
<1>6. ASSUME NEW t \in Task, copy_namespace(t)
      PROVE  \E d \in Task : vfork_done[d] = s /\ res'[d]["mm"] = Null
  BY <1>6, Tables DEF Types, copy_namespace, Goto
<1>7. ASSUME NEW t \in Task, ForkEnd(t)
      PROVE  \E d \in Task : vfork_done[d] = s /\ res'[d]["mm"] = Null
  <2>1. pc[child[t]] = "embryo" /\ pc[t] = "thread"
    BY <1>7 DEF Making, ForkEnd, Steps
  <2> QED BY <2>1, <1>7 DEF Types, ForkEnd
<1>8. ASSUME NEW t \in Task, UndoMm(t)
      PROVE  \E d \in Task : vfork_done[d] = s /\ res'[d]["mm"] = Null
  <2>1. /\ child[t] \in Task /\ pc[t] = "undo_mm" /\ pc[t] \in Steps /\ "undo_sig" \in Pcs
        /\ t # child[t]
    BY <1>8 DEF Making, UndoMm, Steps, Pcs
  <2>2. exit_mm(t, child[t], "undo_sig")
    BY <1>8 DEF UndoMm
  <2>3. Gets(child[t], "mm", Null) /\ (pc'[s] = pc[s] \/ s = vfork_done[t] \/ s = t)
    BY <2>1, <2>2, MmExited
  <2>4. res[t]["mm"] = Null
    BY <2>1 DEF Active
  <2> QED BY <2>1, <2>3, <2>4, Tables DEF Gets
<1>9. ASSUME NEW t \in Task, UndoKind(t)
      PROVE  \E d \in Task : vfork_done[d] = s /\ res'[d]["mm"] = Null
  BY <1>9, Tables DEF Types, UndoKind, Undo, Goto
<1>10. ASSUME NEW t \in Task, ForkFail(t)
      PROVE  \E d \in Task : vfork_done[d] = s /\ res'[d]["mm"] = Null
  <2>1. pc[child[t]] = "embryo" /\ pc[t] = "undo"
    BY <1>10 DEF Making, ForkFail, Steps
  <2> QED BY <2>1, <1>10 DEF Types, ForkFail
<1>11. ASSUME NEW t \in Task, ExitMm(t)
      PROVE  \E d \in Task : vfork_done[d] = s /\ res'[d]["mm"] = Null
  <2>1. "exit_files" \in Pcs
    BY DEF Pcs, Exiting, Daemonizing
  <2>2. exit_mm(t, t, "exit_files") /\ pc[t] = "user"
    BY <1>11 DEF ExitMm
  <2>3. Gets(t, "mm", Null) /\ (pc'[s] = pc[s] \/ s = vfork_done[t] \/ s = t)
    BY <2>1, <2>2, MmExited
  <2> QED BY <2>2, <2>3, Tables DEF Gets
<1>12. ASSUME NEW t \in Task, ExitKind(t)
      PROVE  \E d \in Task : vfork_done[d] = s /\ res'[d]["mm"] = Null
  BY <1>12, Tables DEF Types, ExitKind, Goto
<1>13. ASSUME NEW t \in Task, ExitEnd(t)
      PROVE  \E d \in Task : vfork_done[d] = s /\ res'[d]["mm"] = Null
  BY <1>13, Tables DEF Types, ExitEnd, Goto
<1>14. ASSUME NEW t \in Task, release_task(t)
      PROVE  \E d \in Task : vfork_done[d] = s /\ res'[d]["mm"] = Null
  BY <1>14, Tables DEF Types, release_task, Goto
<1>15. ASSUME NEW t \in Task, DaemonizeMm(t)
      PROVE  \E d \in Task : vfork_done[d] = s /\ res'[d]["mm"] = Null
  <2>1. "daemonize_fs" \in Pcs
    BY DEF Pcs, Exiting, Daemonizing
  <2>2. exit_mm(t, t, "daemonize_fs") /\ pc[t] = "user"
    BY <1>15 DEF DaemonizeMm
  <2>3. Gets(t, "mm", Null) /\ (pc'[s] = pc[s] \/ s = vfork_done[t] \/ s = t)
    BY <2>1, <2>2, MmExited
  <2> QED BY <2>2, <2>3, Tables DEF Gets
<1>16. ASSUME NEW t \in Task, DaemonizeKind(t)
      PROVE  \E d \in Task : vfork_done[d] = s /\ res'[d]["mm"] = Null
  BY <1>16, Tables DEF Types, DaemonizeKind, Goto
<1>17. ASSUME NEW t \in Task, SwitchFrom(t)
      PROVE  \E d \in Task : vfork_done[d] = s /\ res'[d]["mm"] = Null
  BY <1>17, Tables DEF Types, SwitchFrom, call
<1>18. ASSUME NEW t \in Task, NEW o \in Object, SwitchTo(t, o)
      PROVE  \E d \in Task : vfork_done[d] = s /\ res'[d]["mm"] = Null
  BY <1>18, Tables DEF Types, SwitchTo, call
<1>19. CASE UNCHANGED vars
  BY <1>19 DEF vars, call, mms, charges
<1> QED BY <1>1, <1>2, <1>3, <1>4, <1>5, <1>6, <1>7, <1>8, <1>9, <1>10, <1>11, <1>12,
           <1>13, <1>14, <1>15, <1>16, <1>17, <1>18, <1>19 DEF Next, Step, Unwind,
           copy_kind, UndoKind

(* A parent leaves its vfork only when the child it made has let its memory go. *)
THEOREM VforkIsHonoured ==
  ASSUME "namespace" \notin Fails
  PROVE  Spec => VforkWaits
<1>1. ASSUME Shape, [Next]_vars, NEW t \in Task, pc[t] = "vfork", pc'[t] # "vfork",
             NEW c \in Task, vfork_done[c] = t
      PROVE  res'[c]["mm"] = Null
  <2>1. PICK d \in Task : vfork_done[d] = t /\ res'[d]["mm"] = Null
    BY <1>1, VforkStep
  <2>2. c = d
    BY <1>1, <2>1, TaskAssumption DEF Shape, Completion
  <2> QED BY <2>1, <2>2
<1>2. Shape /\ [Next]_vars =>
        \A t \in Task : pc[t] = "vfork" /\ pc'[t] # "vfork" =>
          \A c \in Task : vfork_done[c] = t => res'[c].mm = Null
  BY <1>1
<1> QED BY ShapeInvariant, <1>2, PTL DEF Spec, VforkWaits
============================================================================
