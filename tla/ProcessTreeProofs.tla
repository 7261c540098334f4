-------------------------- MODULE ProcessTreeProofs --------------------------
(***************************************************************************)
(* The family of a process, for any number of tasks: the task list and the *)
(* sibling lists stay whole, the parents live, a zombie is reaped once and *)
(* no exit is missed by a sleeping wait4.                                  *)
(*                                                                         *)
(* First what the walks meet, then what the link macros, the loop of       *)
(* exit_notify and the rings of the thread groups do to the pointers, then *)
(* the invariant, step by step, and the theorems.                          *)
(***************************************************************************)
EXTENDS ProcessTree, FiniteSetTheorems, TLAPS

Ptr == Task \cup {NoTask}
Links == [Task -> [Fields -> Ptr]]
TaskStates == {"FREE", "TASK_UNINTERRUPTIBLE", "TASK_RUNNING", "TASK_INTERRUPTIBLE",
               "TASK_ZOMBIE"}

----------------------------------------------------------------------------
(* Induction over the natural numbers, by sets of them. *)
LEMMA Least ==
  ASSUME NEW T \in SUBSET Nat, T # {}
  PROVE  \E m \in T : \A k \in T : m <= k
<1>1. IsWellFoundedOn(OpToRel(<, Nat), Nat)
  BY NatLessThanWellFounded
<1>2. PICK m \in T : \A k \in T : ~ (<<k, m>> \in OpToRel(<, Nat))
  BY <1>1, WFMin
<1>3. \A k \in T : ~ (k < m)
  BY <1>2 DEF OpToRel
<1> QED BY <1>3

LEMMA Induction ==
  ASSUME NEW P \in SUBSET Nat, 0 \in P, \A n \in P : n + 1 \in P
  PROVE  P = Nat
<1> SUFFICES ASSUME Nat \ P # {} PROVE FALSE
  OBVIOUS
<1>1. PICK m \in Nat \ P : \A k \in Nat \ P : m <= k
  BY Least
<1>2. m # 0 /\ m - 1 \in Nat /\ m - 1 \notin P
  BY <1>1
<1> QED BY <1>1, <1>2

(* f repeats g, from a.  Such an f exists for every number of turns. *)
Repeats(f, S, g, a, N) ==
  f \in [0..N -> S] /\ f[0] = a /\ \A n \in 1..N : f[n] = g[f[n - 1]]

LEMMA Recursion ==
  ASSUME NEW S, NEW g \in [S -> S], NEW a \in S, NEW N \in Nat
  PROVE  \E f : Repeats(f, S, g, a, N)
<1> DEFINE P == {m \in Nat : \E f \in [0..m -> S] :
                   f = [n \in 0..m |-> IF n = 0 THEN a ELSE g[f[n - 1]]]}
<1>1. 0 \in P
  <2> DEFINE f == [n \in 0..0 |-> a]
  <2>1. f \in [0..0 -> S] /\ f = [n \in 0..0 |-> IF n = 0 THEN a ELSE g[f[n - 1]]]
    OBVIOUS
  <2> QED BY <2>1
<1>2. ASSUME NEW m \in P PROVE m + 1 \in P
  <2>1. PICK f \in [0..m -> S] : f = [n \in 0..m |-> IF n = 0 THEN a ELSE g[f[n - 1]]]
    OBVIOUS
  <2> DEFINE h == [n \in 0..(m + 1) |-> IF n = m + 1 THEN g[f[m]] ELSE f[n]]
  <2>2. m \in Nat
    OBVIOUS
  <2>3. h \in [0..(m + 1) -> S]
    BY <2>1, <2>2
  <2>4. ASSUME NEW n \in 0..(m + 1)
        PROVE  h[n] = IF n = 0 THEN a ELSE g[h[n - 1]]
    <3>1. CASE n = m + 1
      BY <2>2, <3>1
    <3>2. CASE n # m + 1
      <4>1. n \in 0..m
        BY <2>2, <3>2
      <4>2. f[n] = IF n = 0 THEN a ELSE g[f[n - 1]]
        BY <2>1, <4>1
      <4>3. n # 0 => n - 1 \in 0..m /\ n - 1 # m + 1 /\ n - 1 \in 0..(m + 1)
        BY <2>2, <4>1
      <4> QED BY <3>2, <4>2, <4>3
    <3> QED BY <3>1, <3>2
  <2>5. h = [n \in 0..(m + 1) |-> IF n = 0 THEN a ELSE g[h[n - 1]]]
    BY <2>3, <2>4
  <2>6. \E k \in [0..(m + 1) -> S] :
          k = [n \in 0..(m + 1) |-> IF n = 0 THEN a ELSE g[k[n - 1]]]
    <3> HIDE DEF h
    <3> QED BY <2>3, <2>5
  <2> QED BY <2>2, <2>6
<1>3. P = Nat
  <2> HIDE DEF P
  <2> P \in SUBSET Nat
    BY DEF P
  <2> QED BY <1>1, <1>2, Induction
<1>4. PICK f \in [0..N -> S] : f = [n \in 0..N |-> IF n = 0 THEN a ELSE g[f[n - 1]]]
  BY <1>3
<1>5. f[0] = a
  BY <1>4
<1>6. \A n \in 1..N : f[n] = g[f[n - 1]]
  BY <1>4
<1> QED BY <1>5, <1>6 DEF Repeats

LEMMA TaskCount == Cardinality(Task) \in Nat
BY TaskAssumption, FS_CardinalityType

----------------------------------------------------------------------------
(* What a walk meets is the least set that holds its start and is closed under
   the pointers.                                                              *)
Meets(m, x, next, N) ==
  /\ m \in [0..N -> SUBSET Task]
  /\ Met(x, next) = m[N]
  /\ m[0] = {x} \ {NoTask}
  /\ \A n \in 1..N : m[n] = ({x} \cup {next[p] : p \in m[n - 1]}) \ {NoTask}

LEMMA MetUnfold ==
  ASSUME NEW x \in Ptr, NEW next \in [Task -> Ptr], NEW N \in Nat, N = Cardinality(Task)
  PROVE  \E m : Meets(m, x, next, N)
<1> DEFINE g == [X \in SUBSET Task |-> ({x} \cup {next[p] : p \in X}) \ {NoTask}]
           a == {x} \ {NoTask}
           B(f) == [n \in 0..N |-> ({x} \cup (IF n = 0 THEN {} ELSE {next[p] : p \in f[n - 1]}))
                                    \ {NoTask}]
           w == CHOOSE f : f = B(f)
<1>1. g \in [SUBSET Task -> SUBSET Task] /\ a \in SUBSET Task
  BY DEF Ptr
<1>2. PICK f \in [0..N -> SUBSET Task] : f[0] = a /\ \A n \in 1..N : f[n] = g[f[n - 1]]
  <2>1. PICK h : Repeats(h, SUBSET Task, g, a, N)
    <3> HIDE DEF g, a
    <3> QED BY <1>1, Recursion
  <2> HIDE DEF g, a
  <2> QED BY <2>1 DEF Repeats
<1>3. \A n \in 0..N : f[n] = ({x} \cup (IF n = 0 THEN {} ELSE {next[p] : p \in f[n - 1]}))
                               \ {NoTask}
  <2> SUFFICES ASSUME NEW n \in 0..N
               PROVE  f[n] = ({x} \cup (IF n = 0 THEN {} ELSE {next[p] : p \in f[n - 1]}))
                             \ {NoTask}
    OBVIOUS
  <2>1. CASE n = 0
    BY <1>2, <2>1
  <2>2. CASE n # 0
    <3>1. n \in 1..N /\ n - 1 \in 0..N
      BY <2>2
    <3>2. f[n] = g[f[n - 1]] /\ f[n - 1] \in SUBSET Task
      BY <1>2, <3>1
    <3> QED BY <2>2, <3>2
  <2> QED BY <2>1, <2>2
<1>4. f = B(f)
  BY <1>2, <1>3
<1>5. w = B(w)
  <2> HIDE DEF B
  <2> QED BY <1>4
<1>6. Met(x, next) = w[N]
  BY DEF Met
<1>7. \A n \in 0..N : w[n] = ({x} \cup (IF n = 0 THEN {} ELSE {next[p] : p \in w[n - 1]}))
                               \ {NoTask}
  <2> HIDE DEF w
  <2> QED BY <1>5
<1> HIDE DEF w
<1>8. w[0] = {x} \ {NoTask}
  BY <1>7
<1>9. \A n \in 1..N : w[n] = ({x} \cup {next[p] : p \in w[n - 1]}) \ {NoTask}
  BY <1>7
<1>10. w \in [0..N -> SUBSET Task]
  <2> DEFINE Q == {n \in Nat : n \in 0..N => w[n] \in SUBSET Task}
  <2>1. 0 \in Q
    BY <1>8 DEF Ptr
  <2>2. ASSUME NEW n \in Q PROVE n + 1 \in Q
    <3> SUFFICES ASSUME n + 1 \in 0..N PROVE w[n + 1] \in SUBSET Task
      OBVIOUS
    <3>1. n \in 0..N /\ n + 1 \in 1..N /\ (n + 1) - 1 = n
      OBVIOUS
    <3>2. w[n + 1] = ({x} \cup {next[p] : p \in w[n]}) \ {NoTask}
      BY <3>1, <1>9
    <3>3. w[n] \in SUBSET Task
      BY <3>1
    <3> QED BY <3>2, <3>3 DEF Ptr
  <2>3. Q = Nat
    <3> HIDE DEF Q
    <3> Q \in SUBSET Nat
      BY DEF Q
    <3> QED BY <2>1, <2>2, Induction
  <2>4. \A n \in 0..N : w[n] \in SUBSET Task
    BY <2>3
  <2>5. w = [n \in 0..N |-> w[n]]
    BY <1>5
  <2> QED BY <2>4, <2>5
<1> QED BY <1>6, <1>8, <1>9, <1>10 DEF Meets

Closed(X, x, next) ==
  /\ x \in X \cup {NoTask}
  /\ \A p \in X : next[p] \in X \cup {NoTask}

LEMMA MetLeast ==
  ASSUME NEW x \in Ptr, NEW next \in [Task -> Ptr]
  PROVE  /\ Met(x, next) \in SUBSET Task
         /\ Closed(Met(x, next), x, next)
         /\ \A X \in SUBSET Task : Closed(X, x, next) => Met(x, next) \subseteq X
<1> DEFINE N == Cardinality(Task)
<1>1. N \in Nat /\ IsFiniteSet(Task)
  BY TaskCount, TaskAssumption
<1>2. PICK m : Meets(m, x, next, N)
  BY <1>1, MetUnfold
<1>3. /\ m \in [0..N -> SUBSET Task]
      /\ Met(x, next) = m[N]
      /\ m[0] = {x} \ {NoTask}
      /\ \A n \in 1..N : m[n] = ({x} \cup {next[p] : p \in m[n - 1]}) \ {NoTask}
  BY <1>2 DEF Meets
<1> HIDE DEF N
<1>4. \A n \in 0..N : n + 1 \in 0..N =>
        m[n + 1] = ({x} \cup {next[p] : p \in m[n]}) \ {NoTask}
  <2> SUFFICES ASSUME NEW n \in 0..N, n + 1 \in 0..N
               PROVE  m[n + 1] = ({x} \cup {next[p] : p \in m[n]}) \ {NoTask}
    OBVIOUS
  <2>1. n + 1 \in 1..N /\ (n + 1) - 1 = n
    BY <1>1
  <2> QED BY <2>1, <1>3
<1>5. \A n \in 0..N : m[n] \in SUBSET Task
  BY <1>3
<1>6. ASSUME NEW X \in SUBSET Task, Closed(X, x, next)
      PROVE  m[N] \subseteq X
  <2> DEFINE Q == {n \in Nat : n \in 0..N => m[n] \subseteq X}
  <2>1. 0 \in Q
    BY <1>3, <1>6 DEF Closed
  <2>2. ASSUME NEW n \in Q PROVE n + 1 \in Q
    <3> SUFFICES ASSUME n + 1 \in 0..N PROVE m[n + 1] \subseteq X
      OBVIOUS
    <3>1. n \in 0..N
      BY <1>1
    <3>2. m[n] \subseteq X
      BY <3>1
    <3> QED BY <3>1, <3>2, <1>4, <1>6 DEF Closed
  <2>3. Q = Nat
    <3> HIDE DEF Q
    <3> Q \in SUBSET Nat
      BY DEF Q
    <3> QED BY <2>1, <2>2, Induction
  <2>4. N \in Q
    BY <2>3, <1>1
  <2> QED BY <2>4, <1>1
<1>7. \A n \in 0..N : n + 1 \in 0..N => m[n] \subseteq m[n + 1]
  <2> DEFINE Q == {n \in Nat : n + 1 \in 0..N => m[n] \subseteq m[n + 1]}
  <2>1. 0 \in Q
    <3>1. 0 + 1 \in 0..N => m[0 + 1] = ({x} \cup {next[p] : p \in m[0]}) \ {NoTask}
      BY <1>1, <1>4
    <3> QED BY <3>1, <1>3
  <2>2. ASSUME NEW n \in Q PROVE n + 1 \in Q
    <3> SUFFICES ASSUME (n + 1) + 1 \in 0..N PROVE m[n + 1] \subseteq m[(n + 1) + 1]
      OBVIOUS
    <3>1. n \in 0..N /\ n + 1 \in 0..N
      BY <1>1
    <3>2. m[n] \subseteq m[n + 1]
      BY <3>1
    <3>3. m[n + 1] = ({x} \cup {next[p] : p \in m[n]}) \ {NoTask}
      BY <3>1, <1>4
    <3>4. m[(n + 1) + 1] = ({x} \cup {next[p] : p \in m[n + 1]}) \ {NoTask}
      BY <3>1, <1>4
    <3> QED BY <3>2, <3>3, <3>4
  <2>3. Q = Nat
    <3> HIDE DEF Q
    <3> Q \in SUBSET Nat
      BY DEF Q
    <3> QED BY <2>1, <2>2, Induction
  <2>4. \A n \in 0..N : n \in Q
    <3> HIDE DEF Q
    <3> QED BY <2>3, <1>1
  <2> QED BY <2>4
<1>8. Closed(m[N], x, next)
  <2> DEFINE Q == {n \in Nat : n \in 0..N =>
                     Closed(m[n], x, next) \/ Cardinality(m[n]) > n}
  <2>1. \A n \in 0..N : IsFiniteSet(m[n]) /\ Cardinality(m[n]) \in Nat /\ Cardinality(m[n]) <= N
    BY <1>1, <1>5, FS_Subset, FS_CardinalityType DEF N
  <2>2. 0 \in Q
    <3>1. CASE x = NoTask
      <4>1. m[0] = {}
        BY <3>1, <1>3
      <4> QED BY <3>1, <4>1 DEF Closed
    <3>2. CASE x # NoTask
      <4>1. m[0] = {x}
        BY <3>2, <1>3
      <4>2. Cardinality({x}) = 1
        BY FS_Singleton
      <4> QED BY <4>1, <4>2
    <3> QED BY <3>1, <3>2
  <2>3. ASSUME NEW n \in Q PROVE n + 1 \in Q
    <3> SUFFICES ASSUME n + 1 \in 0..N
                 PROVE  Closed(m[n + 1], x, next) \/ Cardinality(m[n + 1]) > n + 1
      OBVIOUS
    <3>1. n \in 0..N /\ n \in Nat
      BY <1>1
    <3>2. m[n + 1] = ({x} \cup {next[p] : p \in m[n]}) \ {NoTask}
      BY <3>1, <1>4
    <3>3. m[n] \subseteq m[n + 1]
      BY <3>1, <1>7
    <3>4. Closed(m[n], x, next) => m[n + 1] \subseteq m[n]
      BY <3>2 DEF Closed
    <3>5. CASE m[n + 1] = m[n]
      <4>1. Closed(m[n], x, next)
        BY <3>2, <3>5 DEF Closed
      <4> QED BY <3>5, <4>1
    <3>6. CASE m[n + 1] # m[n]
      <4>1. ~ Closed(m[n], x, next)
        BY <3>3, <3>4, <3>6
      <4>2. Cardinality(m[n]) > n
        BY <3>1, <4>1
      <4>3. Cardinality(m[n]) <= Cardinality(m[n + 1]) /\ Cardinality(m[n]) # Cardinality(m[n + 1])
        BY <2>1, <3>3, <3>6, FS_Subset
      <4> QED BY <4>2, <4>3, <2>1, <3>1
    <3> QED BY <3>5, <3>6
  <2>4. Q = Nat
    <3> HIDE DEF Q
    <3> Q \in SUBSET Nat
      BY DEF Q
    <3> QED BY <2>2, <2>3, Induction
  <2>5. N \in 0..N
    BY <1>1
  <2>6. Closed(m[N], x, next) \/ Cardinality(m[N]) > N
    BY <2>4, <2>5, <1>1
  <2> QED BY <2>6, <2>1, <2>5, <1>1
<1> QED
  BY <1>1, <1>3, <1>5, <1>6, <1>8 DEF N

----------------------------------------------------------------------------
(* What the link macros write, pointer by pointer. *)
SamePaths(L, M) ==
  \A b \in Task : M[b].next_task = L[b].next_task /\ M[b].prev_task = L[b].prev_task

SameParents(L, M) == \A b \in Task : M[b].p_pptr = L[b].p_pptr

SameSiblings(L, M) ==
  \A b \in Task : /\ M[b].p_cptr = L[b].p_cptr
                  /\ M[b].p_ysptr = L[b].p_ysptr
                  /\ M[b].p_osptr = L[b].p_osptr

LEMMA LinkTypes ==
  ASSUME NEW L \in Links, NEW b \in Task
  PROVE  /\ L[b].next_task \in Ptr /\ L[b].prev_task \in Ptr /\ L[b].p_pptr \in Ptr
         /\ L[b].p_cptr \in Ptr /\ L[b].p_ysptr \in Ptr /\ L[b].p_osptr \in Ptr
BY DEF Links, Fields

LEMMA TakeWrites ==
  ASSUME NEW L \in Links, NEW p \in Task, L[p].p_pptr \in Task,
         NEW M, M = TakeFromSiblings(L, p)
  PROVE  /\ M \in Links /\ SamePaths(L, M) /\ SameParents(L, M)
         /\ \A b \in Task :
              /\ M[b].p_ysptr = IF b = L[p].p_osptr THEN L[p].p_ysptr ELSE L[b].p_ysptr
              /\ M[b].p_osptr = IF b = L[p].p_ysptr THEN L[p].p_osptr ELSE L[b].p_osptr
              /\ M[b].p_cptr = IF L[p].p_ysptr = NoTask /\ b = L[p].p_pptr
                               THEN L[p].p_osptr ELSE L[b].p_cptr
<1> DEFINE old == L[p].p_osptr
           young == L[p].p_ysptr
           q == L[p].p_pptr
           L1 == IF old = NoTask THEN L ELSE [L EXCEPT ![old].p_ysptr = young]
<1>1. old \in Ptr /\ young \in Ptr /\ q \in Task /\ NoTask \notin Task
  BY LinkTypes, TaskAssumption
<1>2. M = IF young # NoTask THEN [L1 EXCEPT ![young].p_osptr = old]
          ELSE [L1 EXCEPT ![q].p_cptr = old]
  BY DEF TakeFromSiblings
<1> HIDE DEF old, young, q
<1>3. /\ L1 \in Links
      /\ \A b \in Task : /\ L1[b].next_task = L[b].next_task
                         /\ L1[b].prev_task = L[b].prev_task
                         /\ L1[b].p_pptr = L[b].p_pptr
                         /\ L1[b].p_cptr = L[b].p_cptr
                         /\ L1[b].p_osptr = L[b].p_osptr
                         /\ L1[b].p_ysptr = IF b = old THEN young ELSE L[b].p_ysptr
  BY <1>1 DEF Links, Fields, Ptr
<1> HIDE DEF L1
<1>4. CASE young # NoTask
  <2>1. young \in Task /\ M = [L1 EXCEPT ![young].p_osptr = old]
    BY <1>1, <1>2, <1>4 DEF Ptr
  <2>2. /\ M \in Links
        /\ \A b \in Task : /\ M[b].next_task = L1[b].next_task
                           /\ M[b].prev_task = L1[b].prev_task
                           /\ M[b].p_pptr = L1[b].p_pptr
                           /\ M[b].p_cptr = L1[b].p_cptr
                           /\ M[b].p_ysptr = L1[b].p_ysptr
                           /\ M[b].p_osptr = IF b = young THEN old ELSE L1[b].p_osptr
    BY <1>1, <1>3, <2>1 DEF Links, Fields
  <2> QED BY <1>3, <1>4, <2>2 DEF SamePaths, SameParents, old, young, q
<1>5. CASE young = NoTask
  <2>1. M = [L1 EXCEPT ![q].p_cptr = old]
    BY <1>2, <1>5
  <2>2. /\ M \in Links
        /\ \A b \in Task : /\ M[b].next_task = L1[b].next_task
                           /\ M[b].prev_task = L1[b].prev_task
                           /\ M[b].p_pptr = L1[b].p_pptr
                           /\ M[b].p_ysptr = L1[b].p_ysptr
                           /\ M[b].p_osptr = L1[b].p_osptr
                           /\ M[b].p_cptr = IF b = q THEN old ELSE L1[b].p_cptr
    BY <1>1, <1>3, <2>1 DEF Links, Fields
  <2> QED BY <1>1, <1>3, <1>5, <2>2 DEF SamePaths, SameParents, old, young, q
<1> QED BY <1>4, <1>5

LEMMA AddWrites ==
  ASSUME NEW L \in Links, NEW p \in Task, L[p].p_pptr \in Task,
         NEW M, M = AddToSiblings(L, p)
  PROVE  /\ M \in Links /\ SamePaths(L, M) /\ SameParents(L, M)
         /\ \A b \in Task :
              /\ M[b].p_ysptr = IF b = p THEN NoTask
                                ELSE IF b = L[L[p].p_pptr].p_cptr THEN p ELSE L[b].p_ysptr
              /\ M[b].p_osptr = IF b = p THEN L[L[p].p_pptr].p_cptr ELSE L[b].p_osptr
              /\ M[b].p_cptr = IF b = L[p].p_pptr THEN p ELSE L[b].p_cptr
<1> DEFINE q == L[p].p_pptr
           old == L[q].p_cptr
           L1 == IF old = NoTask THEN L ELSE [L EXCEPT ![old].p_ysptr = p]
<1>1. old \in Ptr /\ NoTask \notin Task /\ NoTask \in Ptr /\ p \in Ptr
  BY LinkTypes, TaskAssumption DEF Ptr
<1>2. M = [L1 EXCEPT ![p].p_ysptr = NoTask, ![p].p_osptr = old, ![q].p_cptr = p]
  BY Zenon DEF AddToSiblings
<1>3. q \in Task
  OBVIOUS
<1> HIDE DEF old, q
<1>4. /\ L1 \in Links
      /\ \A b \in Task : /\ L1[b].next_task = L[b].next_task
                         /\ L1[b].prev_task = L[b].prev_task
                         /\ L1[b].p_pptr = L[b].p_pptr
                         /\ L1[b].p_cptr = L[b].p_cptr
                         /\ L1[b].p_osptr = L[b].p_osptr
                         /\ L1[b].p_ysptr = IF b = old THEN p ELSE L[b].p_ysptr
  BY <1>1 DEF Links, Fields, Ptr
<1> HIDE DEF L1
<1> DEFINE L2 == [L1 EXCEPT ![p].p_ysptr = NoTask]
           L3 == [L2 EXCEPT ![p].p_osptr = old]
           L4 == [L3 EXCEPT ![q].p_cptr = p]
<1>5. M = L4
  BY <1>2
<1>6. /\ L2 \in Links
      /\ \A b \in Task : /\ L2[b].next_task = L1[b].next_task
                         /\ L2[b].prev_task = L1[b].prev_task
                         /\ L2[b].p_pptr = L1[b].p_pptr
                         /\ L2[b].p_cptr = L1[b].p_cptr
                         /\ L2[b].p_osptr = L1[b].p_osptr
                         /\ L2[b].p_ysptr = IF b = p THEN NoTask ELSE L1[b].p_ysptr
  BY <1>1, <1>4 DEF Links, Fields
<1> HIDE DEF L2
<1>7. /\ L3 \in Links
      /\ \A b \in Task : /\ L3[b].next_task = L2[b].next_task
                         /\ L3[b].prev_task = L2[b].prev_task
                         /\ L3[b].p_pptr = L2[b].p_pptr
                         /\ L3[b].p_cptr = L2[b].p_cptr
                         /\ L3[b].p_ysptr = L2[b].p_ysptr
                         /\ L3[b].p_osptr = IF b = p THEN old ELSE L2[b].p_osptr
  BY <1>1, <1>6 DEF Links, Fields
<1> HIDE DEF L3
<1>8. /\ L4 \in Links
      /\ \A b \in Task : /\ L4[b].next_task = L3[b].next_task
                         /\ L4[b].prev_task = L3[b].prev_task
                         /\ L4[b].p_pptr = L3[b].p_pptr
                         /\ L4[b].p_ysptr = L3[b].p_ysptr
                         /\ L4[b].p_osptr = L3[b].p_osptr
                         /\ L4[b].p_cptr = IF b = q THEN p ELSE L3[b].p_cptr
  BY <1>1, <1>3, <1>7 DEF Links, Fields
<1> HIDE DEF L4
<1> QED
  BY <1>4, <1>5, <1>6, <1>7, <1>8 DEF SamePaths, SameParents, old, q

LEMMA RemoveWrites ==
  ASSUME NEW L \in Links, NEW p \in Task, L[p].p_pptr \in Task,
         NEW M, M = REMOVE_LINKS(L, p)
  PROVE  /\ M \in Links /\ SameParents(L, M)
         /\ \A b \in Task :
              /\ M[b].prev_task = IF b = L[p].next_task THEN L[p].prev_task ELSE L[b].prev_task
              /\ M[b].next_task = IF b = L[p].prev_task THEN L[p].next_task ELSE L[b].next_task
              /\ M[b].p_ysptr = IF b = L[p].p_osptr THEN L[p].p_ysptr ELSE L[b].p_ysptr
              /\ M[b].p_osptr = IF b = L[p].p_ysptr THEN L[p].p_osptr ELSE L[b].p_osptr
              /\ M[b].p_cptr = IF L[p].p_ysptr = NoTask /\ b = L[p].p_pptr
                               THEN L[p].p_osptr ELSE L[b].p_cptr
<1> DEFINE n == L[p].next_task
           v == L[p].prev_task
           L1 == [L EXCEPT ![n].prev_task = v]
           L2 == [L1 EXCEPT ![v].next_task = n]
<1>1. n \in Ptr /\ v \in Ptr
  BY LinkTypes
<1>2. M = TakeFromSiblings(L2, p)
  BY Zenon DEF REMOVE_LINKS
<1> HIDE DEF n, v
<1>3. L1 \in Links
  BY <1>1 DEF Links, Fields
<1>4. SameSiblings(L, L1) /\ SameParents(L, L1)
  BY DEF Links, Fields, SameSiblings, SameParents
<1>5. \A b \in Task : /\ L1[b].next_task = L[b].next_task
                      /\ L1[b].prev_task = IF b = n THEN v ELSE L[b].prev_task
  BY DEF Links, Fields
<1> HIDE DEF L1
<1>6. L2 \in Links
  BY <1>1, <1>3 DEF Links, Fields
<1>7. SameSiblings(L1, L2) /\ SameParents(L1, L2)
  BY <1>3 DEF Links, Fields, SameSiblings, SameParents
<1>8. \A b \in Task : /\ L2[b].next_task = IF b = v THEN n ELSE L1[b].next_task
                      /\ L2[b].prev_task = L1[b].prev_task
  BY <1>3 DEF Links, Fields
<1> HIDE DEF L2
<1>9. L2[p].p_pptr = L[p].p_pptr /\ L2[p].p_osptr = L[p].p_osptr /\ L2[p].p_ysptr = L[p].p_ysptr
  BY <1>4, <1>7 DEF SameSiblings, SameParents
<1>10. /\ M \in Links /\ SamePaths(L2, M) /\ SameParents(L2, M)
       /\ \A b \in Task :
            /\ M[b].p_ysptr = IF b = L2[p].p_osptr THEN L2[p].p_ysptr ELSE L2[b].p_ysptr
            /\ M[b].p_osptr = IF b = L2[p].p_ysptr THEN L2[p].p_osptr ELSE L2[b].p_osptr
            /\ M[b].p_cptr = IF L2[p].p_ysptr = NoTask /\ b = L2[p].p_pptr
                             THEN L2[p].p_osptr ELSE L2[b].p_cptr
  BY <1>2, <1>6, <1>9, TakeWrites
<1> QED
  BY <1>4, <1>5, <1>7, <1>8, <1>9, <1>10 DEF SamePaths, SameParents, SameSiblings, n, v

LEMMA SetWrites ==
  ASSUME NEW L \in Links, NEW p \in Task, L[p].p_pptr \in Task,
         NEW M, M = SET_LINKS(L, p)
  PROVE  /\ M \in Links /\ SameParents(L, M)
         /\ \A b \in Task :
              /\ M[b].next_task = IF b = L[Swapper].prev_task THEN p
                                  ELSE IF b = p THEN Swapper ELSE L[b].next_task
              /\ M[b].prev_task = IF b = Swapper THEN p
                                  ELSE IF b = p THEN L[Swapper].prev_task ELSE L[b].prev_task
              /\ M[b].p_ysptr = IF b = p THEN NoTask
                                ELSE IF b = L[L[p].p_pptr].p_cptr THEN p ELSE L[b].p_ysptr
              /\ M[b].p_osptr = IF b = p THEN L[L[p].p_pptr].p_cptr ELSE L[b].p_osptr
              /\ M[b].p_cptr = IF b = L[p].p_pptr THEN p ELSE L[b].p_cptr
<1> DEFINE last == L[Swapper].prev_task
           L1 == [L EXCEPT ![p].next_task = Swapper]
           L2 == [L1 EXCEPT ![p].prev_task = last]
           L3 == [L2 EXCEPT ![last].next_task = p]
           L4 == [L3 EXCEPT ![Swapper].prev_task = p]
<1>1. Swapper \in Task /\ last \in Ptr /\ p \in Ptr /\ Swapper \in Ptr
  BY LinkTypes, TaskAssumption DEF Ptr
<1>2. M = AddToSiblings(L4, p)
  BY Zenon DEF SET_LINKS
<1> HIDE DEF last
<1>3. L1 \in Links /\ SameSiblings(L, L1) /\ SameParents(L, L1)
  BY <1>1 DEF Links, Fields, SameSiblings, SameParents
<1>4. \A b \in Task : /\ L1[b].next_task = IF b = p THEN Swapper ELSE L[b].next_task
                      /\ L1[b].prev_task = L[b].prev_task
  BY DEF Links, Fields
<1> HIDE DEF L1
<1>5. L2 \in Links /\ SameSiblings(L1, L2) /\ SameParents(L1, L2)
  BY <1>1, <1>3 DEF Links, Fields, SameSiblings, SameParents
<1>6. \A b \in Task : /\ L2[b].next_task = L1[b].next_task
                      /\ L2[b].prev_task = IF b = p THEN last ELSE L1[b].prev_task
  BY <1>3 DEF Links, Fields
<1> HIDE DEF L2
<1>7. L3 \in Links /\ SameSiblings(L2, L3) /\ SameParents(L2, L3)
  <2>1. L3 \in Links
    BY <1>1, <1>5 DEF Links, Fields
  <2>2. SameSiblings(L2, L3) /\ SameParents(L2, L3)
    BY <1>5 DEF Links, Fields, SameSiblings, SameParents
  <2> QED BY <2>1, <2>2
<1>8. \A b \in Task : /\ L3[b].next_task = IF b = last THEN p ELSE L2[b].next_task
                      /\ L3[b].prev_task = L2[b].prev_task
  BY <1>5 DEF Links, Fields
<1> HIDE DEF L3
<1>9. L4 \in Links /\ SameSiblings(L3, L4) /\ SameParents(L3, L4)
  BY <1>1, <1>7 DEF Links, Fields, SameSiblings, SameParents
<1>10. \A b \in Task : /\ L4[b].next_task = L3[b].next_task
                       /\ L4[b].prev_task = IF b = Swapper THEN p ELSE L3[b].prev_task
  BY <1>7 DEF Links, Fields
<1> HIDE DEF L4
<1>11. SameSiblings(L, L4) /\ SameParents(L, L4)
  BY <1>3, <1>5, <1>7, <1>9 DEF SameSiblings, SameParents
<1>12. L4[p].p_pptr = L[p].p_pptr /\ L4[L4[p].p_pptr].p_cptr = L[L[p].p_pptr].p_cptr
  BY <1>11 DEF SameSiblings, SameParents
<1>13. /\ M \in Links /\ SamePaths(L4, M) /\ SameParents(L4, M)
       /\ \A b \in Task :
            /\ M[b].p_ysptr = IF b = p THEN NoTask
                              ELSE IF b = L4[L4[p].p_pptr].p_cptr THEN p ELSE L4[b].p_ysptr
            /\ M[b].p_osptr = IF b = p THEN L4[L4[p].p_pptr].p_cptr ELSE L4[b].p_osptr
            /\ M[b].p_cptr = IF b = L4[p].p_pptr THEN p ELSE L4[b].p_cptr
  BY <1>2, <1>9, <1>12, AddWrites
<1>14. \A b \in Task :
         /\ M[b].next_task = IF b = last THEN p ELSE IF b = p THEN Swapper ELSE L[b].next_task
         /\ M[b].prev_task = IF b = Swapper THEN p ELSE IF b = p THEN last ELSE L[b].prev_task
  BY <1>4, <1>6, <1>8, <1>10, <1>13 DEF SamePaths
<1>15. \A b \in Task :
         /\ M[b].p_ysptr = IF b = p THEN NoTask
                           ELSE IF b = L[L[p].p_pptr].p_cptr THEN p ELSE L[b].p_ysptr
         /\ M[b].p_osptr = IF b = p THEN L[L[p].p_pptr].p_cptr ELSE L[b].p_osptr
         /\ M[b].p_cptr = IF b = L[p].p_pptr THEN p ELSE L[b].p_cptr
  BY <1>11, <1>12, <1>13 DEF SameSiblings
<1>16. SameParents(L, M)
  BY <1>11, <1>13 DEF SameParents
<1> QED BY <1>13, <1>14, <1>15, <1>16 DEF last

----------------------------------------------------------------------------
(* The tasks S, and no other, are on the task list of L. *)
Ring(L, S) ==
  /\ Swapper \in S
  /\ \A p \in S : /\ L[p].next_task \in S /\ L[p].prev_task \in S
                  /\ L[L[p].next_task].prev_task = p
                  /\ L[L[p].prev_task].next_task = p
  /\ \A X \in SUBSET Task :
       Swapper \in X /\ (\A p \in X \cap S : L[p].next_task \in X) => S \subseteq X

LEMMA RingMet ==
  ASSUME NEW L \in Links, NEW S \in SUBSET Task, Ring(L, S)
  PROVE  Met(Swapper, [p \in Task |-> L[p].next_task]) = S
<1> DEFINE next == [p \in Task |-> L[p].next_task]
           met == Met(Swapper, next)
<1>1. next \in [Task -> Ptr] /\ Swapper \in Ptr /\ Swapper # NoTask
  BY LinkTypes, TaskAssumption DEF Ptr
<1>2. /\ met \in SUBSET Task
      /\ Closed(met, Swapper, next)
      /\ \A X \in SUBSET Task : Closed(X, Swapper, next) => met \subseteq X
  <2> HIDE DEF next
  <2> QED BY <1>1, MetLeast
<1>3. Closed(S, Swapper, next)
  BY DEF Ring, Closed
<1>4. Swapper \in met /\ \A p \in met \cap S : L[p].next_task \in met
  <2>1. Swapper \in met
    BY <1>1, <1>2 DEF Closed
  <2>2. \A p \in met \cap S : next[p] = L[p].next_task /\ next[p] \in S
    BY DEF Ring
  <2>3. NoTask \notin S
    BY TaskAssumption
  <2> HIDE DEF next, met
  <2> QED BY <1>2, <2>1, <2>2, <2>3 DEF Closed
<1> HIDE DEF met
<1>5. S \subseteq met
  BY <1>2, <1>4 DEF Ring
<1>6. met \subseteq S
  BY <1>2, <1>3
<1> QED BY <1>5, <1>6 DEF met

LEMMA RingAdd ==
  ASSUME NEW L, NEW M, NEW S \in SUBSET Task, NEW p \in Task, p \notin S, Ring(L, S),
         \A b \in Task :
           /\ M[b].next_task = IF b = L[Swapper].prev_task THEN p
                               ELSE IF b = p THEN Swapper ELSE L[b].next_task
           /\ M[b].prev_task = IF b = Swapper THEN p
                               ELSE IF b = p THEN L[Swapper].prev_task ELSE L[b].prev_task
  PROVE  Ring(M, S \cup {p})
<1> DEFINE last == L[Swapper].prev_task
<1>1. last \in S /\ Swapper \in S /\ last # p /\ Swapper # p
  BY DEF Ring
<1>2. L[last].next_task = Swapper
  BY DEF Ring
<1>3. ASSUME NEW b \in S \cup {p}
      PROVE  /\ M[b].next_task \in S \cup {p} /\ M[b].prev_task \in S \cup {p}
             /\ M[M[b].next_task].prev_task = b
             /\ M[M[b].prev_task].next_task = b
  <2>1. CASE b = p
    <3>1. M[b].next_task = Swapper /\ M[b].prev_task = last
      BY <1>1, <2>1
    <3> QED BY <1>1, <2>1, <3>1
  <2>2. CASE b # p
    <3>1. /\ L[b].next_task \in S /\ L[b].prev_task \in S
          /\ L[L[b].next_task].prev_task = b /\ L[L[b].prev_task].next_task = b
      BY <2>2 DEF Ring
    <3>2. CASE b = last
      <4>1. M[b].next_task = p /\ M[p].prev_task = b
        BY <1>1, <3>2
      <4>2. b = Swapper => M[b].prev_task = p /\ M[p].next_task = b
        BY <1>1, <3>2
      <4>3. ASSUME b # Swapper PROVE M[b].prev_task = L[b].prev_task /\ L[b].prev_task # last
        <5>1. M[b].prev_task = L[b].prev_task
          BY <1>1, <2>2, <4>3
        <5> QED BY <5>1, <1>2, <3>1, <3>2, <4>3
      <4>4. b # Swapper => M[L[b].prev_task].next_task = b
        BY <1>1, <3>1, <4>3
      <4> QED BY <4>1, <4>2, <4>3, <4>4, <3>1
    <3>3. CASE b # last
      <4>1. M[b].next_task = L[b].next_task
        BY <2>2, <3>3
      <4>2. L[b].next_task # Swapper
        BY <3>1, <3>3
      <4>3. M[L[b].next_task].prev_task = b
        BY <3>1, <4>2
      <4>4. b = Swapper => M[b].prev_task = p /\ M[p].next_task = b
        BY <1>1, <3>3
      <4>5. b # Swapper => M[b].prev_task = L[b].prev_task /\ L[b].prev_task # last
        BY <2>2, <1>2, <3>1
      <4>6. b # Swapper => M[L[b].prev_task].next_task = b
        BY <3>1, <4>5
      <4> QED BY <3>1, <4>1, <4>3, <4>4, <4>5, <4>6
    <3> QED BY <3>2, <3>3
  <2> QED BY <2>1, <2>2
<1>4. ASSUME NEW X \in SUBSET Task, Swapper \in X,
             \A b \in X \cap (S \cup {p}) : M[b].next_task \in X
      PROVE  S \cup {p} \subseteq X
  <2>1. ASSUME NEW b \in X \cap S PROVE L[b].next_task \in X
    <3>1. CASE b = last
      BY <1>2, <1>4, <3>1
    <3>2. CASE b # last
      BY <1>4, <3>2
    <3> QED BY <3>1, <3>2
  <2>2. S \subseteq X
    BY <1>4, <2>1 DEF Ring
  <2>3. M[last].next_task = p
    BY <1>1
  <2> QED BY <1>1, <1>4, <2>2, <2>3
<1> QED BY <1>1, <1>3, <1>4 DEF Ring

LEMMA RingRemove ==
  ASSUME NEW L, NEW M, NEW S \in SUBSET Task, NEW p \in S, p # Swapper, Ring(L, S),
         \A b \in Task :
           /\ M[b].prev_task = IF b = L[p].next_task THEN L[p].prev_task ELSE L[b].prev_task
           /\ M[b].next_task = IF b = L[p].prev_task THEN L[p].next_task ELSE L[b].next_task
  PROVE  Ring(M, S \ {p})
<1> DEFINE n == L[p].next_task
           v == L[p].prev_task
<1>1. n \in S /\ v \in S /\ L[n].prev_task = p /\ L[v].next_task = p /\ Swapper \in S
  BY DEF Ring
<1>2. n # p /\ v # p
  <2> SUFFICES ASSUME n = p \/ v = p PROVE FALSE
    OBVIOUS
  <2>1. n = p
    BY <1>1
  <2>2. ASSUME NEW b \in (S \ {p}) \cap S PROVE L[b].next_task \in S \ {p}
    BY <1>1, <2>1 DEF Ring
  <2>3. S \ {p} \in SUBSET Task /\ Swapper \in S \ {p}
    BY <1>1
  <2>4. S \subseteq S \ {p}
    BY <2>2, <2>3 DEF Ring
  <2> QED BY <2>4
<1>3. ASSUME NEW b \in S \ {p}
      PROVE  /\ M[b].next_task \in S \ {p} /\ M[b].prev_task \in S \ {p}
             /\ M[M[b].next_task].prev_task = b
             /\ M[M[b].prev_task].next_task = b
  <2>1. /\ L[b].next_task \in S /\ L[b].prev_task \in S
        /\ L[L[b].next_task].prev_task = b /\ L[L[b].prev_task].next_task = b
    BY DEF Ring
  <2>2. M[b].next_task \in S \ {p} /\ M[M[b].next_task].prev_task = b
    <3>1. CASE b = v
      <4>1. M[b].next_task = n /\ M[n].prev_task = b
        BY <1>1, <3>1
      <4> QED BY <4>1, <1>1, <1>2
    <3>2. CASE b # v
      <4>1. M[b].next_task = L[b].next_task
        BY <3>2
      <4>2. L[b].next_task # p /\ L[b].next_task # n
        BY <1>1, <2>1, <3>2
      <4> QED BY <2>1, <4>1, <4>2
    <3> QED BY <3>1, <3>2
  <2>3. CASE b = n
    <3>1. M[b].prev_task = v /\ M[v].next_task = b
      BY <1>1, <2>3
    <3> QED BY <3>1, <1>1, <1>2, <2>2
  <2>4. CASE b # n
    <3>1. M[b].prev_task = L[b].prev_task
      BY <2>4
    <3>2. L[b].prev_task # p /\ L[b].prev_task # v
      BY <1>1, <2>1, <2>4
    <3> QED BY <2>1, <2>2, <3>1, <3>2
  <2> QED BY <2>3, <2>4
<1>4. ASSUME NEW X \in SUBSET Task, Swapper \in X,
             \A b \in X \cap (S \ {p}) : M[b].next_task \in X
      PROVE  S \ {p} \subseteq X
  <2>1. CASE v \in X
    <3> DEFINE Y == X \cup {p}
    <3>1. n \in X
      BY <1>1, <1>2, <1>4, <2>1
    <3>2. ASSUME NEW b \in Y \cap S PROVE L[b].next_task \in Y
      <4>1. b = p \/ b = v \/ L[b].next_task = M[b].next_task
        OBVIOUS
      <4> QED BY <4>1, <3>1, <1>1, <1>4
    <3>3. Y \in SUBSET Task /\ Swapper \in Y
      BY <1>4
    <3>4. S \subseteq Y
      <4> HIDE DEF Y
      <4> QED BY <3>2, <3>3 DEF Ring
    <3> QED BY <3>4
  <2>2. CASE v \notin X
    <3> DEFINE Y == X \ {p}
    <3>1. ASSUME NEW b \in Y \cap S PROVE L[b].next_task \in Y
      <4>1. b # v /\ b # p
        BY <2>2
      <4>2. L[b].next_task = M[b].next_task /\ M[b].next_task \in X
        BY <4>1, <1>4
      <4>3. M[b].next_task # p
        BY <1>3, <4>1
      <4> QED BY <4>2, <4>3
    <3>2. Y \in SUBSET Task /\ Swapper \in Y
      BY <1>4
    <3>3. S \subseteq Y
      <4> HIDE DEF Y
      <4> QED BY <3>1, <3>2 DEF Ring
    <3> QED BY <3>3
  <2> QED BY <2>1, <2>2
<1>5. Swapper \in S \ {p}
  BY <1>1
<1> QED BY <1>3, <1>4, <1>5 DEF Ring

LEMMA RingKeep ==
  ASSUME NEW L, NEW M, NEW S \in SUBSET Task, Ring(L, S),
         \A b \in S : M[b].next_task = L[b].next_task /\ M[b].prev_task = L[b].prev_task
  PROVE  Ring(M, S)
BY DEF Ring

----------------------------------------------------------------------------
(* The sibling lists.  The tasks K are on the lists of the tasks Q, each on that of
   its parent; the parents in E are in the loop of exit_notify, which leaves a
   p_ysptr behind in the child it comes to next.                                   *)
Kids(L, K, q) == {p \in K : L[p].p_pptr = q}

InList(L, K, E, p) ==
  LET q == L[p].p_pptr
      o == L[p].p_osptr
      y == L[p].p_ysptr
  IN /\ o # NoTask => o \in K /\ L[o].p_pptr = q /\ L[o].p_ysptr = p /\ L[q].p_cptr # o
     /\ IF L[q].p_cptr = p THEN q \in E \/ y = NoTask
        ELSE y \in K /\ L[y].p_pptr = q /\ L[y].p_osptr = p

Whole(L, K, q) ==
  \A X \in SUBSET Task :
    (/\ L[q].p_cptr \in X \cup {NoTask}
     /\ \A p \in X \cap Kids(L, K, q) : L[p].p_osptr \in X \cup {NoTask})
    => Kids(L, K, q) \subseteq X

Sib(L, Q, K, E) ==
  /\ \A p \in K : L[p].p_pptr \in Q /\ InList(L, K, E, p)
  /\ \A q \in Q : /\ L[q].p_cptr # NoTask => L[q].p_cptr \in K /\ L[L[q].p_cptr].p_pptr = q
                  /\ Whole(L, K, q)

LEMMA SibMet ==
  ASSUME NEW L \in Links, NEW Q \in SUBSET Task, NEW K \in SUBSET Task, NEW E,
         Sib(L, Q, K, E), NEW q \in Q
  PROVE  Met(L[q].p_cptr, [p \in Task |-> L[p].p_osptr]) = Kids(L, K, q)
<1> DEFINE next == [p \in Task |-> L[p].p_osptr]
           met == Met(L[q].p_cptr, next)
           kids == Kids(L, K, q)
<1>1. next \in [Task -> Ptr] /\ L[q].p_cptr \in Ptr
  BY LinkTypes
<1>2. /\ met \in SUBSET Task
      /\ Closed(met, L[q].p_cptr, next)
      /\ \A X \in SUBSET Task : Closed(X, L[q].p_cptr, next) => met \subseteq X
  <2> HIDE DEF next
  <2> QED BY <1>1, MetLeast
<1>3. kids \in SUBSET Task
  BY DEF Kids
<1>4. Closed(kids, L[q].p_cptr, next)
  <2>1. L[q].p_cptr \in kids \cup {NoTask}
    BY DEF Sib, Kids
  <2>2. ASSUME NEW p \in kids PROVE next[p] \in kids \cup {NoTask}
    BY DEF Sib, Kids, InList
  <2> QED BY <2>1, <2>2 DEF Closed
<1>5. \A p \in met \cap kids : L[p].p_osptr \in met \cup {NoTask}
  <2>1. \A p \in met : next[p] \in met \cup {NoTask}
    BY <1>2 DEF Closed
  <2>2. \A p \in met : next[p] = L[p].p_osptr
    BY <1>2
  <2> QED BY <2>1, <2>2
<1>6. L[q].p_cptr \in met \cup {NoTask}
  BY <1>2 DEF Closed
<1>7. Whole(L, K, q)
  BY DEF Sib
<1> HIDE DEF met, next
<1>8. kids \subseteq met
  BY <1>2, <1>5, <1>6, <1>7 DEF Whole
<1>9. met \subseteq kids
  BY <1>2, <1>3, <1>4
<1> QED BY <1>8, <1>9 DEF met, next

LEMMA SibRemove ==
  ASSUME NEW L, NEW M, NEW Q \in SUBSET Task, NEW K \in SUBSET Task, NEW p \in K,
         Sib(L, Q, K, {}), SameParents(L, M),
         \A b \in Task :
              /\ M[b].p_ysptr = IF b = L[p].p_osptr THEN L[p].p_ysptr ELSE L[b].p_ysptr
              /\ M[b].p_osptr = IF b = L[p].p_ysptr THEN L[p].p_osptr ELSE L[b].p_osptr
              /\ M[b].p_cptr = IF L[p].p_ysptr = NoTask /\ b = L[p].p_pptr
                               THEN L[p].p_osptr ELSE L[b].p_cptr
  PROVE  Sib(M, Q, K \ {p}, {})
<1> DEFINE q == L[p].p_pptr
           o == L[p].p_osptr
           y == L[p].p_ysptr
<1>1. /\ q \in Q /\ q \in Task /\ NoTask \notin Task
      /\ o # NoTask => /\ o \in K /\ o \in Task /\ L[o].p_pptr = q /\ L[o].p_ysptr = p
                       /\ L[q].p_cptr # o
      /\ L[q].p_cptr = p <=> y = NoTask
      /\ y # NoTask => y \in K /\ y \in Task /\ L[y].p_pptr = q /\ L[y].p_osptr = p
      /\ o # p /\ y # p
  <2>1. q \in Q /\ InList(L, K, {}, p) /\ p \in Task /\ NoTask \notin Task
    BY TaskAssumption DEF Sib
  <2>2. /\ o # NoTask => o \in K /\ L[o].p_pptr = q /\ L[o].p_ysptr = p /\ L[q].p_cptr # o
        /\ L[q].p_cptr = p => y = NoTask
        /\ L[q].p_cptr # p => y \in K /\ L[y].p_pptr = q /\ L[y].p_osptr = p
    BY <2>1 DEF InList
  <2>3. L[q].p_cptr # p => y # NoTask
    BY <2>1, <2>2
  <2>4. o # p
    <3> SUFFICES ASSUME o = p PROVE FALSE
      OBVIOUS
    <3> DEFINE X == Kids(L, K, q) \ {p}
    <3>1. y = p /\ L[q].p_cptr # p
      BY <2>1, <2>2
    <3>2. L[q].p_cptr \in X \cup {NoTask}
      BY <2>1, <3>1 DEF Sib, Kids
    <3>3. ASSUME NEW b \in X \cap Kids(L, K, q) PROVE L[b].p_osptr \in X \cup {NoTask}
      <4>1. b \in K /\ b # p /\ L[b].p_pptr = q /\ InList(L, K, {}, b)
        BY DEF Kids, Sib
      <4>2. L[b].p_osptr # NoTask =>
              /\ L[b].p_osptr \in K /\ L[L[b].p_osptr].p_pptr = q
              /\ L[L[b].p_osptr].p_ysptr = b
        BY <4>1 DEF InList
      <4>3. L[b].p_osptr # p
        BY <2>1, <3>1, <4>1, <4>2
      <4> QED BY <4>2, <4>3 DEF Kids
    <3>4. X \in SUBSET Task /\ Whole(L, K, q)
      BY <2>1 DEF Sib, Kids
    <3>5. Kids(L, K, q) \subseteq X
      <4> HIDE DEF X
      <4> QED BY <3>2, <3>3, <3>4 DEF Whole
    <3>6. p \in Kids(L, K, q)
      BY DEF Kids
    <3> QED BY <3>5, <3>6
  <2>5. y # p
    BY <2>2, <2>1, <2>4
  <2> HIDE DEF q, o, y
  <2> QED BY <2>1, <2>2, <2>3, <2>4, <2>5
<1>2. Whole(L, K, q)
  BY <1>1 DEF Sib
<1>3. \A b \in Task : M[b].p_pptr = L[b].p_pptr
  BY DEF SameParents
<1>4. /\ \A b \in K \ {p} : L[b].p_osptr = p => b = y
      /\ \A b \in K \ {p} : o # NoTask => L[b].p_osptr # o
  BY <1>1 DEF Sib, InList
<1>5. \A b \in Task : /\ M[b].p_ysptr = IF b = o THEN y ELSE L[b].p_ysptr
                      /\ M[b].p_osptr = IF b = y THEN o ELSE L[b].p_osptr
                      /\ M[b].p_cptr = IF y = NoTask /\ b = q THEN o ELSE L[b].p_cptr
  OBVIOUS
<1> HIDE DEF q, o, y
<1>6. ASSUME NEW b \in K \ {p} PROVE M[b].p_pptr \in Q /\ InList(M, K \ {p}, {}, b)
  <2> DEFINE qb == L[b].p_pptr
  <2>1. /\ qb \in Q /\ b \in Task /\ qb \in Task
        /\ L[b].p_osptr # NoTask =>
             /\ L[b].p_osptr \in K /\ L[L[b].p_osptr].p_pptr = qb
             /\ L[L[b].p_osptr].p_ysptr = b /\ L[qb].p_cptr # L[b].p_osptr
        /\ L[qb].p_cptr = b => L[b].p_ysptr = NoTask
        /\ L[qb].p_cptr # b =>
             /\ L[b].p_ysptr \in K /\ L[L[b].p_ysptr].p_pptr = qb
             /\ L[L[b].p_ysptr].p_osptr = b
    BY DEF Sib, InList
  <2>2. M[b].p_pptr = qb
    BY <1>3, <2>1
  <2>3. ASSUME M[b].p_osptr # NoTask
        PROVE  LET x == M[b].p_osptr
               IN /\ x \in K \ {p} /\ M[x].p_pptr = qb
                  /\ M[x].p_ysptr = b /\ M[qb].p_cptr # x
    <3>1. CASE b = y
      <4>1. M[b].p_osptr = o /\ o # NoTask /\ qb = q
        BY <1>1, <1>5, <2>1, <2>3, <3>1
      <4>2. M[o].p_ysptr = b
        BY <1>1, <1>5, <3>1, <4>1
      <4>3. M[qb].p_cptr = L[q].p_cptr
        BY <1>1, <1>5, <2>1, <3>1, <4>1
      <4> QED BY <1>1, <1>3, <4>1, <4>2, <4>3
    <3>2. CASE b # y
      <4> DEFINE x == L[b].p_osptr
      <4>1. M[b].p_osptr = x /\ x # NoTask
        BY <1>5, <2>1, <2>3, <3>2
      <4>2. x \in K /\ x \in Task /\ L[x].p_pptr = qb /\ L[x].p_ysptr = b /\ L[qb].p_cptr # x
        BY <2>1, <4>1
      <4>3. x # p /\ x # o
        BY <1>4, <3>2, <4>1
      <4>4. M[x].p_ysptr = b
        BY <1>5, <4>2, <4>3
      <4>5. M[qb].p_cptr # x
        BY <1>5, <2>1, <4>2, <4>3
      <4> QED BY <1>3, <4>1, <4>2, <4>3, <4>4, <4>5
    <3> QED BY <3>1, <3>2
  <2>4. ASSUME M[qb].p_cptr = b PROVE M[b].p_ysptr = NoTask
    <3>1. CASE y = NoTask /\ qb = q
      <4>1. b = o
        BY <1>5, <2>1, <2>4, <3>1
      <4> QED BY <1>5, <2>1, <3>1, <4>1
    <3>2. CASE ~ (y = NoTask /\ qb = q)
      <4>1. L[qb].p_cptr = b
        BY <1>5, <2>1, <2>4, <3>2
      <4>2. b # o
        BY <1>1, <2>1, <4>1
      <4> QED BY <1>5, <2>1, <4>1, <4>2
    <3> QED BY <3>1, <3>2
  <2>5. ASSUME M[qb].p_cptr # b
        PROVE  LET x == M[b].p_ysptr
               IN x \in K \ {p} /\ M[x].p_pptr = qb /\ M[x].p_osptr = b
    <3>1. L[qb].p_cptr # b
      <4>1. CASE y = NoTask /\ qb = q
        BY <1>1, <4>1
      <4>2. CASE ~ (y = NoTask /\ qb = q)
        BY <1>5, <2>1, <2>5, <4>2
      <4> QED BY <4>1, <4>2
    <3>2. CASE b = o
      <4>1. M[b].p_ysptr = y /\ qb = q
        BY <1>1, <1>5, <2>1, <3>2
      <4>2. y # NoTask
        BY <1>5, <2>1, <2>5, <3>2, <4>1
      <4>3. M[y].p_osptr = b
        BY <1>1, <1>5, <3>2, <4>2
      <4> QED BY <1>1, <1>3, <4>1, <4>2, <4>3
    <3>3. CASE b # o
      <4> DEFINE x == L[b].p_ysptr
      <4>1. x \in K /\ x \in Task /\ L[x].p_pptr = qb /\ L[x].p_osptr = b /\ M[b].p_ysptr = x
        BY <1>5, <2>1, <3>1, <3>3
      <4>2. x # p
        BY <4>1, <3>3 DEF o
      <4>3. x # y
        BY <1>1, <4>1, <2>1
      <4>4. M[x].p_osptr = b
        BY <1>5, <4>1, <4>3
      <4> QED BY <1>3, <4>1, <4>2, <4>4
    <3> QED BY <3>2, <3>3
  <2> QED BY <2>1, <2>2, <2>3, <2>4, <2>5 DEF InList
<1>7. ASSUME NEW r \in Q, M[r].p_cptr # NoTask
      PROVE  M[r].p_cptr \in K \ {p} /\ M[M[r].p_cptr].p_pptr = r
  <2>1. r \in Task
    OBVIOUS
  <2>2. CASE y = NoTask /\ r = q
    BY <1>1, <1>3, <1>5, <1>7, <2>1, <2>2
  <2>3. CASE ~ (y = NoTask /\ r = q)
    <3>1. M[r].p_cptr = L[r].p_cptr
      BY <1>5, <2>1, <2>3
    <3>2. L[r].p_cptr \in K /\ L[L[r].p_cptr].p_pptr = r
      BY <1>7, <3>1 DEF Sib
    <3>3. L[r].p_cptr # p
      BY <1>1, <2>3, <3>2 DEF q
    <3> QED BY <1>3, <3>1, <3>2, <3>3
  <2> QED BY <2>2, <2>3
<1>8. ASSUME NEW r \in Q, NEW X \in SUBSET Task,
             M[r].p_cptr \in X \cup {NoTask},
             \A b \in X \cap Kids(M, K \ {p}, r) : M[b].p_osptr \in X \cup {NoTask}
      PROVE  Kids(M, K \ {p}, r) \subseteq X
  <2>1. r \in Task /\ Kids(M, K \ {p}, r) = Kids(L, K, r) \ {p}
    BY <1>3 DEF Kids
  <2>2. \A b \in X \cap (Kids(L, K, r) \ {p}) : M[b].p_osptr \in X \cup {NoTask}
    BY <1>8, <2>1
  <2>3. CASE r # q
    <3>1. L[r].p_cptr \in X \cup {NoTask}
      BY <1>5, <1>8, <2>1, <2>3
    <3>2. ASSUME NEW b \in X \cap Kids(L, K, r) PROVE L[b].p_osptr \in X \cup {NoTask}
      <4>1. b # p /\ b # y
        BY <1>1, <2>3 DEF Kids, q
      <4> QED BY <1>5, <2>2, <4>1
    <3>3. Whole(L, K, r)
      BY DEF Sib
    <3> QED BY <2>1, <3>1, <3>2, <3>3 DEF Whole
  <2>4. CASE r = q /\ (y = NoTask \/ y \in X)
    <3> DEFINE Y == X \cup {p}
    <3>1. L[r].p_cptr \in Y \cup {NoTask}
      BY <1>1, <1>5, <1>8, <2>1, <2>4
    <3>2. o \in Y \cup {NoTask}
      <4>1. CASE y = NoTask
        BY <1>5, <1>8, <2>1, <2>4, <4>1
      <4>2. CASE y # NoTask
        <5>1. y \in X \cap (Kids(L, K, r) \ {p}) /\ y \in Task
          BY <1>1, <2>4, <4>2 DEF Kids
        <5> QED BY <1>5, <2>2, <5>1
      <4> QED BY <4>1, <4>2
    <3>3. ASSUME NEW b \in Y \cap Kids(L, K, r) PROVE L[b].p_osptr \in Y \cup {NoTask}
      <4>1. CASE b = p
        BY <3>2, <4>1 DEF o
      <4>2. CASE b = y /\ b # p
        BY <1>1, <4>2
      <4>3. CASE b # y /\ b # p
        BY <1>5, <2>2, <4>3
      <4> QED BY <4>1, <4>2, <4>3
    <3>4. Y \in SUBSET Task
      OBVIOUS
    <3>5. Kids(L, K, r) \subseteq Y
      <4> HIDE DEF Y
      <4> QED BY <1>2, <2>4, <3>1, <3>3, <3>4 DEF Whole
    <3> QED BY <2>1, <3>5
  <2>5. CASE r = q /\ y # NoTask /\ y \notin X
    <3> DEFINE Y == X \ {p}
    <3>1. L[r].p_cptr \in Y \cup {NoTask}
      BY <1>1, <1>5, <1>8, <2>1, <2>5
    <3>2. ASSUME NEW b \in Y \cap Kids(L, K, r) PROVE L[b].p_osptr \in Y \cup {NoTask}
      <4>1. b # p /\ b # y /\ b \in K
        BY <2>5 DEF Kids
      <4>2. L[b].p_osptr # p
        BY <1>4, <4>1
      <4> QED BY <1>5, <2>2, <4>1, <4>2
    <3>3. Y \in SUBSET Task
      OBVIOUS
    <3>4. Kids(L, K, r) \subseteq Y
      <4> HIDE DEF Y
      <4> QED BY <1>2, <2>5, <3>1, <3>2, <3>3 DEF Whole
    <3> QED BY <2>1, <3>4
  <2> QED BY <2>3, <2>4, <2>5
<1>9. \A r \in Q : Whole(M, K \ {p}, r)
  BY <1>8 DEF Whole
<1> QED BY <1>6, <1>7, <1>9 DEF Sib

(* The loop of exit_notify takes the head of the list of t. *)
Dropped(L, M, t, p, n) ==
  \A b \in Task : /\ M[b].p_ysptr = L[b].p_ysptr
                  /\ M[b].p_osptr = L[b].p_osptr
                  /\ M[b].p_cptr = IF b = t THEN L[p].p_osptr ELSE L[b].p_cptr
                  /\ M[b].p_pptr = IF b = p THEN n ELSE L[b].p_pptr

LEMMA SibDrop ==
  ASSUME NEW L, NEW M, NEW Q \in SUBSET Task, NEW K \in SUBSET Task, NEW t \in Q, NEW p \in K,
         NEW n, Sib(L, Q, K, {t}), p = L[t].p_cptr, Dropped(L, M, t, p, n)
  PROVE  Sib(M, Q, K \ {p}, {t})
<1> DEFINE o == L[p].p_osptr
<1>1. \A b \in Task : /\ M[b].p_ysptr = L[b].p_ysptr
                      /\ M[b].p_osptr = L[b].p_osptr
                      /\ M[b].p_cptr = IF b = t THEN L[p].p_osptr ELSE L[b].p_cptr
                      /\ M[b].p_pptr = IF b = p THEN n ELSE L[b].p_pptr
  BY DEF Dropped
<1> USE <1>1
<1>2. /\ t \in Task /\ p \in Task /\ NoTask \notin Task /\ L[p].p_pptr = t
      /\ o # NoTask => o \in K /\ o \in Task /\ L[o].p_pptr = t /\ L[o].p_ysptr = p
      /\ o # p
  <2>1. t \in Task /\ p \in Task /\ NoTask \notin Task
    BY TaskAssumption
  <2>2. L[p].p_pptr = t
    BY <2>1 DEF Sib
  <2>3. InList(L, K, {t}, p)
    BY DEF Sib
  <2> QED BY <2>1, <2>2, <2>3 DEF InList
<1>3. \A b \in K \ {p} : M[b].p_pptr = L[b].p_pptr /\ b \in Task
  OBVIOUS
<1>4. ASSUME NEW b \in K \ {p} PROVE M[b].p_pptr \in Q /\ InList(M, K \ {p}, {t}, b)
  <2> DEFINE qb == L[b].p_pptr
  <2>1. qb \in Q /\ b \in Task /\ qb \in Task /\ InList(L, K, {t}, b)
    BY DEF Sib
  <2>2. /\ L[b].p_osptr # NoTask =>
             /\ L[b].p_osptr \in K /\ L[L[b].p_osptr].p_pptr = qb
             /\ L[L[b].p_osptr].p_ysptr = b /\ L[qb].p_cptr # L[b].p_osptr
        /\ L[qb].p_cptr = b => qb = t \/ L[b].p_ysptr = NoTask
        /\ L[qb].p_cptr # b =>
             /\ L[b].p_ysptr \in K /\ L[L[b].p_ysptr].p_pptr = qb
             /\ L[L[b].p_ysptr].p_osptr = b
    BY <2>1 DEF InList
  <2>3. M[b].p_pptr = qb /\ M[b].p_osptr = L[b].p_osptr /\ M[b].p_ysptr = L[b].p_ysptr
    BY <1>3
  <2>4. ASSUME M[b].p_osptr # NoTask
        PROVE  LET x == M[b].p_osptr
               IN /\ x \in K \ {p} /\ M[x].p_pptr = qb
                  /\ M[x].p_ysptr = b /\ M[qb].p_cptr # x
    <3> DEFINE x == L[b].p_osptr
    <3>1. x \in K /\ x \in Task /\ L[x].p_pptr = qb /\ L[x].p_ysptr = b /\ L[qb].p_cptr # x
      BY <2>2, <2>3, <2>4
    <3>2. x # p
      BY <1>2, <3>1
    <3>3. M[qb].p_cptr # x
      BY <1>2, <2>1, <3>1
    <3> QED BY <1>3, <2>3, <3>1, <3>2, <3>3
  <2>5. ASSUME M[qb].p_cptr = b PROVE qb = t \/ M[b].p_ysptr = NoTask
    BY <2>1, <2>2, <2>3, <2>5
  <2>6. ASSUME M[qb].p_cptr # b
        PROVE  LET x == M[b].p_ysptr
               IN x \in K \ {p} /\ M[x].p_pptr = qb /\ M[x].p_osptr = b
    <3> DEFINE x == L[b].p_ysptr
    <3>1. L[qb].p_cptr # b
      BY <1>2, <2>1, <2>6
    <3>2. x \in K /\ x \in Task /\ L[x].p_pptr = qb /\ L[x].p_osptr = b
      BY <2>2, <3>1
    <3>3. x # p
      BY <1>2, <2>1, <2>6, <3>2
    <3> QED BY <1>3, <2>3, <3>2, <3>3
  <2> QED BY <2>1, <2>3, <2>4, <2>5, <2>6 DEF InList
<1>5. ASSUME NEW r \in Q, M[r].p_cptr # NoTask
      PROVE  M[r].p_cptr \in K \ {p} /\ M[M[r].p_cptr].p_pptr = r
  <2>1. r \in Task
    OBVIOUS
  <2>2. CASE r = t
    BY <1>2, <1>3, <1>5, <2>2
  <2>3. CASE r # t
    <3>1. M[r].p_cptr = L[r].p_cptr
      BY <2>1, <2>3
    <3>2. L[r].p_cptr \in K /\ L[L[r].p_cptr].p_pptr = r
      BY <1>5, <3>1 DEF Sib
    <3> QED BY <1>2, <1>3, <2>3, <3>1, <3>2
  <2> QED BY <2>2, <2>3
<1>6. ASSUME NEW r \in Q, NEW X \in SUBSET Task,
             M[r].p_cptr \in X \cup {NoTask},
             \A b \in X \cap Kids(M, K \ {p}, r) : M[b].p_osptr \in X \cup {NoTask}
      PROVE  Kids(M, K \ {p}, r) \subseteq X
  <2>1. r \in Task /\ Kids(M, K \ {p}, r) = Kids(L, K, r) \ {p}
    BY <1>3 DEF Kids
  <2>2. \A b \in X \cap (Kids(L, K, r) \ {p}) : L[b].p_osptr \in X \cup {NoTask}
    BY <1>6, <2>1
  <2>3. Whole(L, K, r)
    BY DEF Sib
  <2>4. CASE r # t
    <3>1. L[r].p_cptr \in X \cup {NoTask}
      BY <1>6, <2>1, <2>4
    <3>2. \A b \in X \cap Kids(L, K, r) : L[b].p_osptr \in X \cup {NoTask}
      BY <1>2, <2>2, <2>4 DEF Kids
    <3> QED BY <2>1, <2>3, <3>1, <3>2 DEF Whole
  <2>5. CASE r = t
    <3> DEFINE Y == X \cup {p}
    <3>1. L[r].p_cptr \in Y \cup {NoTask}
      BY <2>5
    <3>2. o \in Y \cup {NoTask}
      BY <1>6, <2>1, <2>5
    <3>3. \A b \in Y \cap Kids(L, K, r) : L[b].p_osptr \in Y \cup {NoTask}
      BY <2>2, <3>2
    <3>4. Y \in SUBSET Task
      BY <1>2
    <3>5. Kids(L, K, r) \subseteq Y
      <4> HIDE DEF Y
      <4> QED BY <2>3, <3>1, <3>3, <3>4 DEF Whole
    <3> QED BY <2>1, <3>5
  <2> QED BY <2>4, <2>5
<1>7. \A r \in Q : Whole(M, K \ {p}, r)
  BY <1>6 DEF Whole
<1> QED BY <1>4, <1>5, <1>7 DEF Sib

Added(L, M, p) ==
  \A b \in Task :
    /\ M[b].p_ysptr = IF b = p THEN NoTask
                      ELSE IF b = L[L[p].p_pptr].p_cptr THEN p ELSE L[b].p_ysptr
    /\ M[b].p_osptr = IF b = p THEN L[L[p].p_pptr].p_cptr ELSE L[b].p_osptr
    /\ M[b].p_cptr = IF b = L[p].p_pptr THEN p ELSE L[b].p_cptr

LEMMA SibAdd ==
  ASSUME NEW L, NEW M, NEW Q \in SUBSET Task, NEW K \in SUBSET Task, NEW E,
         NEW p \in Task, p \notin K, L[p].p_pptr \in Q,
         Sib(L, Q, K, E), SameParents(L, M), Added(L, M, p)
  PROVE  Sib(M, Q, K \cup {p}, E)
<1> DEFINE q == L[p].p_pptr
           h == L[q].p_cptr
<1>1. /\ q \in Q /\ q \in Task /\ NoTask \notin Task
      /\ h # NoTask => h \in K /\ h \in Task /\ L[h].p_pptr = q
      /\ h # p
  BY TaskAssumption DEF Sib
<1>2. Whole(L, K, q)
  BY <1>1 DEF Sib
<1>3. \A b \in Task : M[b].p_pptr = L[b].p_pptr
  BY DEF SameParents
<1>4. L[p].p_pptr = q
  OBVIOUS
<1>5. \A b \in Task : /\ M[b].p_ysptr = IF b = p THEN NoTask ELSE IF b = h THEN p ELSE L[b].p_ysptr
                      /\ M[b].p_osptr = IF b = p THEN h ELSE L[b].p_osptr
                      /\ M[b].p_cptr = IF b = q THEN p ELSE L[b].p_cptr
  BY DEF Added
<1> HIDE DEF q, h
<1>6. L[q].p_cptr = h
  BY DEF h
<1>7. M[p].p_pptr \in Q /\ InList(M, K \cup {p}, E, p)
  <2>1. M[p].p_pptr = q /\ M[p].p_osptr = h /\ M[p].p_ysptr = NoTask /\ M[q].p_cptr = p
    BY <1>1, <1>3, <1>4, <1>5
  <2>2. h # NoTask => M[h].p_pptr = q /\ M[h].p_ysptr = p
    BY <1>1, <1>3, <1>5
  <2> QED BY <1>1, <2>1, <2>2 DEF InList
<1>8. ASSUME NEW b \in K PROVE M[b].p_pptr \in Q /\ InList(M, K \cup {p}, E, b)
  <2> DEFINE qb == L[b].p_pptr
  <2>1. qb \in Q /\ b \in Task /\ qb \in Task /\ InList(L, K, E, b) /\ b # p
    BY DEF Sib
  <2>2. /\ L[b].p_osptr # NoTask =>
             /\ L[b].p_osptr \in K /\ L[L[b].p_osptr].p_pptr = qb
             /\ L[L[b].p_osptr].p_ysptr = b /\ L[qb].p_cptr # L[b].p_osptr
        /\ L[qb].p_cptr = b => qb \in E \/ L[b].p_ysptr = NoTask
        /\ L[qb].p_cptr # b =>
             /\ L[b].p_ysptr \in K /\ L[L[b].p_ysptr].p_pptr = qb
             /\ L[L[b].p_ysptr].p_osptr = b
    BY <2>1 DEF InList
  <2>3. M[b].p_pptr = qb /\ M[b].p_osptr = L[b].p_osptr
    BY <1>3, <1>5, <2>1
  <2>4. ASSUME M[b].p_osptr # NoTask
        PROVE  LET x == M[b].p_osptr
               IN /\ x \in K \cup {p} /\ M[x].p_pptr = qb
                  /\ M[x].p_ysptr = b /\ M[qb].p_cptr # x
    <3> DEFINE x == L[b].p_osptr
    <3>1. x \in K /\ x \in Task /\ L[x].p_pptr = qb /\ L[x].p_ysptr = b /\ L[qb].p_cptr # x
      BY <2>2, <2>3, <2>4
    <3>2. x # p
      BY <3>1
    <3>3. M[qb].p_cptr # x
      BY <1>5, <2>1, <3>1, <3>2
    <3>4. x # h
      BY <1>1, <1>6, <3>1
    <3> QED BY <1>3, <1>5, <2>3, <3>1, <3>2, <3>3, <3>4
  <2>5. ASSUME M[qb].p_cptr = b PROVE qb \in E \/ M[b].p_ysptr = NoTask
    <3>1. qb # q /\ L[qb].p_cptr = b
      BY <1>5, <2>1, <2>5
    <3>2. b # h
      BY <1>1, <3>1, <2>1
    <3> QED BY <1>5, <2>1, <2>2, <3>1, <3>2
  <2>6. ASSUME M[qb].p_cptr # b
        PROVE  LET x == M[b].p_ysptr
               IN x \in K \cup {p} /\ M[x].p_pptr = qb /\ M[x].p_osptr = b
    <3>1. CASE b = h
      <4>1. M[b].p_ysptr = p /\ qb = q
        BY <1>1, <1>5, <2>1, <3>1
      <4>2. M[p].p_osptr = b /\ M[p].p_pptr = q
        BY <1>3, <1>4, <1>5, <3>1
      <4> QED BY <4>1, <4>2
    <3>2. CASE b # h
      <4> DEFINE x == L[b].p_ysptr
      <4>1. L[qb].p_cptr # b
        BY <1>5, <1>6, <2>1, <2>6, <3>2
      <4>2. x \in K /\ x \in Task /\ L[x].p_pptr = qb /\ L[x].p_osptr = b
        BY <2>2, <4>1
      <4>3. M[b].p_ysptr = x /\ x # p
        BY <1>5, <2>1, <3>2, <4>2
      <4> QED BY <1>3, <1>5, <4>2, <4>3
    <3> QED BY <3>1, <3>2
  <2> QED BY <2>1, <2>3, <2>4, <2>5, <2>6 DEF InList
<1>9. ASSUME NEW r \in Q, M[r].p_cptr # NoTask
      PROVE  M[r].p_cptr \in K \cup {p} /\ M[M[r].p_cptr].p_pptr = r
  <2>1. r \in Task
    OBVIOUS
  <2>2. CASE r = q
    BY <1>3, <1>4, <1>5, <2>1, <2>2
  <2>3. CASE r # q
    <3>1. M[r].p_cptr = L[r].p_cptr
      BY <1>5, <2>1, <2>3
    <3>2. L[r].p_cptr \in K /\ L[L[r].p_cptr].p_pptr = r
      BY <1>9, <3>1 DEF Sib
    <3> QED BY <1>3, <3>1, <3>2
  <2> QED BY <2>2, <2>3
<1>10. ASSUME NEW r \in Q, NEW X \in SUBSET Task,
             M[r].p_cptr \in X \cup {NoTask},
             \A b \in X \cap Kids(M, K \cup {p}, r) : M[b].p_osptr \in X \cup {NoTask}
      PROVE  Kids(M, K \cup {p}, r) \subseteq X
  <2>1. r \in Task /\ Kids(L, K, r) \subseteq Kids(M, K \cup {p}, r)
    BY <1>3 DEF Kids
  <2>2. \A b \in X \cap Kids(L, K, r) : L[b].p_osptr \in X \cup {NoTask}
    <3> SUFFICES ASSUME NEW b \in X \cap Kids(L, K, r) PROVE L[b].p_osptr \in X \cup {NoTask}
      OBVIOUS
    <3>1. b \in X \cap Kids(M, K \cup {p}, r) /\ b # p /\ b \in Task
      BY <2>1 DEF Kids
    <3> QED BY <1>5, <1>10, <3>1
  <2>3. Whole(L, K, r)
    BY DEF Sib
  <2>4. CASE r # q
    <3>1. L[r].p_cptr \in X \cup {NoTask}
      BY <1>5, <1>10, <2>1, <2>4
    <3>2. Kids(M, K \cup {p}, r) = Kids(L, K, r)
      BY <1>3, <1>4, <2>4 DEF Kids
    <3> QED BY <2>2, <2>3, <3>1, <3>2 DEF Whole
  <2>5. CASE r = q
    <3>1. p \in X
      BY <1>1, <1>5, <1>10, <2>1, <2>5, TaskAssumption
    <3>2. p \in Kids(M, K \cup {p}, r)
      BY <1>3, <1>4, <2>5 DEF Kids
    <3>3. h \in X \cup {NoTask}
      BY <1>5, <1>10, <3>1, <3>2
    <3>4. Kids(L, K, r) \subseteq X
      BY <1>6, <2>5, <2>2, <2>3, <3>3 DEF Whole
    <3>5. Kids(M, K \cup {p}, r) \subseteq Kids(L, K, r) \cup {p}
      BY <1>3 DEF Kids
    <3> QED BY <3>1, <3>4, <3>5
  <2> QED BY <2>4, <2>5
<1>11. \A r \in Q : Whole(M, K \cup {p}, r)
  BY <1>10 DEF Whole
<1> QED BY <1>7, <1>8, <1>9, <1>11 DEF Sib

LEMMA SibKeep ==
  ASSUME NEW L, NEW M, NEW Q \in SUBSET Task, NEW K \in SUBSET Q, NEW E, Sib(L, Q, K, E),
         \A b \in Q : /\ M[b].p_cptr = L[b].p_cptr
                      /\ M[b].p_ysptr = L[b].p_ysptr
                      /\ M[b].p_osptr = L[b].p_osptr,
         \A b \in K : M[b].p_pptr = L[b].p_pptr
  PROVE  Sib(M, Q, K, E)
<1>1. ASSUME NEW p \in K PROVE M[p].p_pptr \in Q /\ InList(M, K, E, p)
  <2>1. L[p].p_pptr \in Q /\ InList(L, K, E, p)
    BY DEF Sib
  <2> QED BY <2>1 DEF InList
<1>2. \A q \in Q : M[q].p_cptr # NoTask => M[q].p_cptr \in K /\ M[M[q].p_cptr].p_pptr = q
  BY DEF Sib
<1>3. ASSUME NEW q \in Q PROVE Whole(M, K, q)
  <2>1. Whole(L, K, q) /\ Kids(M, K, q) = Kids(L, K, q)
    BY DEF Sib, Kids
  <2>2. \A p \in Kids(L, K, q) : M[p].p_osptr = L[p].p_osptr
    BY DEF Kids
  <2> QED BY <2>1, <2>2 DEF Whole
<1> QED BY <1>1, <1>2, <1>3 DEF Sib

(* A new task has no children. *)
LEMMA SibNew ==
  ASSUME NEW L, NEW Q \in SUBSET Task, NEW K \in SUBSET Task, NEW E, Sib(L, Q, K, E),
         NEW x \in Task, x \notin Q, L[x].p_cptr = NoTask
  PROVE  Sib(L, Q \cup {x}, K, E)
<1>1. Kids(L, K, x) = {}
  BY DEF Sib, Kids
<1>2. Whole(L, K, x)
  BY <1>1 DEF Whole
<1> QED BY <1>2 DEF Sib

(* A task that leaves has none. *)
LEMMA SibLeave ==
  ASSUME NEW L, NEW Q \in SUBSET Task, NEW K \in SUBSET Task, NEW E, Sib(L, Q, K, E),
         NEW x, \A b \in K : L[b].p_pptr # x
  PROVE  Sib(L, Q \ {x}, K, E)
BY DEF Sib

(* A parent whose list is empty has no children and leaves nothing behind. *)
LEMMA SibEmpty ==
  ASSUME NEW L, NEW Q \in SUBSET Task, NEW K \in SUBSET Task, NEW t \in Q,
         Sib(L, Q, K, {t}), L[t].p_cptr = NoTask
  PROVE  Sib(L, Q, K, {}) /\ Kids(L, K, t) = {}
<1>1. Whole(L, K, t)
  BY DEF Sib
<1>2. Kids(L, K, t) \subseteq {}
  <2>1. {} \in SUBSET Task /\ L[t].p_cptr \in {} \cup {NoTask}
    OBVIOUS
  <2>2. \A p \in {} \cap Kids(L, K, t) : L[p].p_osptr \in {} \cup {NoTask}
    OBVIOUS
  <2> QED BY <1>1, <2>1, <2>2 DEF Whole
<1>3. \A p \in K : L[p].p_pptr # t
  BY <1>2 DEF Kids
<1>4. ASSUME NEW p \in K PROVE L[p].p_pptr \in Q /\ InList(L, K, {}, p)
  <2>1. L[p].p_pptr \in Q /\ InList(L, K, {t}, p) /\ L[p].p_pptr # t
    BY <1>3 DEF Sib
  <2> QED BY <2>1 DEF InList
<1> QED BY <1>2, <1>4 DEF Sib

LEMMA SibBegin ==
  ASSUME NEW L, NEW Q \in SUBSET Task, NEW K \in SUBSET Task, NEW t, Sib(L, Q, K, {})
  PROVE  Sib(L, Q, K, {t})
<1>1. ASSUME NEW p \in K PROVE L[p].p_pptr \in Q /\ InList(L, K, {t}, p)
  <2>1. L[p].p_pptr \in Q /\ InList(L, K, {}, p)
    BY DEF Sib
  <2> QED BY <2>1 DEF InList
<1> QED BY <1>1 DEF Sib

----------------------------------------------------------------------------
(* Both kinds of lists, of the tasks S. *)
Tree(L, S) == Ring(L, S) /\ Sib(L, S, S \ {Swapper}, {})

LEMMA TreeAdd ==
  ASSUME NEW L \in Links, NEW S \in SUBSET Task, NEW p \in Task, NEW q \in S,
         p \notin S, Ring(L, S), Sib(L, S \cup {p}, S \ {Swapper}, {}), L[p].p_pptr = q,
         NEW M, M = SET_LINKS(L, p)
  PROVE  M \in Links /\ Tree(M, S \cup {p}) /\ SameParents(L, M)
<1>1. q \in Task /\ p # Swapper
  BY DEF Ring
<1>2. /\ M \in Links /\ SameParents(L, M)
      /\ \A b \in Task :
           /\ M[b].next_task = IF b = L[Swapper].prev_task THEN p
                               ELSE IF b = p THEN Swapper ELSE L[b].next_task
           /\ M[b].prev_task = IF b = Swapper THEN p
                               ELSE IF b = p THEN L[Swapper].prev_task ELSE L[b].prev_task
           /\ M[b].p_ysptr = IF b = p THEN NoTask
                             ELSE IF b = L[L[p].p_pptr].p_cptr THEN p ELSE L[b].p_ysptr
           /\ M[b].p_osptr = IF b = p THEN L[L[p].p_pptr].p_cptr ELSE L[b].p_osptr
           /\ M[b].p_cptr = IF b = L[p].p_pptr THEN p ELSE L[b].p_cptr
  BY <1>1, SetWrites
<1>3. Ring(M, S \cup {p})
  BY <1>2, RingAdd
<1>4. Sib(M, S \cup {p}, (S \ {Swapper}) \cup {p}, {})
  <2>1. S \cup {p} \in SUBSET Task /\ S \ {Swapper} \in SUBSET Task /\ p \notin S \ {Swapper}
    OBVIOUS
  <2>2. Added(L, M, p)
    BY <1>2 DEF Added
  <2> QED BY <1>2, <2>1, <2>2, SibAdd
<1>5. (S \ {Swapper}) \cup {p} = (S \cup {p}) \ {Swapper}
  BY <1>1
<1> QED BY <1>2, <1>3, <1>4, <1>5 DEF Tree

LEMMA TreeRemove ==
  ASSUME NEW L \in Links, NEW S \in SUBSET Task, Tree(L, S), NEW p \in S, p # Swapper,
         NEW M, M = REMOVE_LINKS(L, p)
  PROVE  /\ M \in Links /\ SameParents(L, M)
         /\ Ring(M, S \ {p}) /\ Sib(M, S, (S \ {p}) \ {Swapper}, {})
<1>1. p \in Task /\ L[p].p_pptr \in Task /\ p \in S \ {Swapper}
  BY DEF Tree, Sib
<1>2. /\ M \in Links /\ SameParents(L, M)
      /\ \A b \in Task :
           /\ M[b].prev_task = IF b = L[p].next_task THEN L[p].prev_task ELSE L[b].prev_task
           /\ M[b].next_task = IF b = L[p].prev_task THEN L[p].next_task ELSE L[b].next_task
           /\ M[b].p_ysptr = IF b = L[p].p_osptr THEN L[p].p_ysptr ELSE L[b].p_ysptr
           /\ M[b].p_osptr = IF b = L[p].p_ysptr THEN L[p].p_osptr ELSE L[b].p_osptr
           /\ M[b].p_cptr = IF L[p].p_ysptr = NoTask /\ b = L[p].p_pptr
                            THEN L[p].p_osptr ELSE L[b].p_cptr
  BY <1>1, RemoveWrites
<1>3. Ring(M, S \ {p})
  BY <1>2, RingRemove DEF Tree
<1>4. Sib(M, S, (S \ {Swapper}) \ {p}, {})
  <2>1. S \ {Swapper} \in SUBSET Task /\ Sib(L, S, S \ {Swapper}, {})
    BY DEF Tree
  <2> QED BY <1>1, <1>2, <2>1, SibRemove
<1>5. (S \ {Swapper}) \ {p} = (S \ {p}) \ {Swapper}
  OBVIOUS
<1> QED BY <1>2, <1>3, <1>4, <1>5

LEMMA TreeMoved ==
  ASSUME NEW L \in Links, NEW S \in SUBSET Task, Tree(L, S), NEW p \in S, p # Swapper,
         NEW q \in S, q # p, NEW M, M = Moved(L, p, q)
  PROVE  /\ M \in Links /\ Tree(M, S)
         /\ \A b \in Task : M[b].p_pptr = IF b = p THEN q ELSE L[b].p_pptr
<1> DEFINE L1 == REMOVE_LINKS(L, p)
           L2 == [L1 EXCEPT ![p].p_pptr = q]
<1>1. /\ L1 \in Links /\ SameParents(L, L1)
      /\ Ring(L1, S \ {p}) /\ Sib(L1, S, (S \ {p}) \ {Swapper}, {})
  BY TreeRemove
<1>2. M = SET_LINKS(L2, p)
  BY Zenon DEF Moved
<1> HIDE DEF L1
<1>3. /\ L2 \in Links /\ SamePaths(L1, L2) /\ SameSiblings(L1, L2)
      /\ \A b \in Task : L2[b].p_pptr = IF b = p THEN q ELSE L1[b].p_pptr
  <2>1. q \in Ptr
    BY DEF Ptr
  <2>2. L2 \in Links
    BY <1>1, <2>1 DEF Links, Fields
  <2>3. SamePaths(L1, L2) /\ SameSiblings(L1, L2)
    BY <1>1 DEF Links, Fields, SamePaths, SameSiblings
  <2>4. \A b \in Task : L2[b].p_pptr = IF b = p THEN q ELSE L1[b].p_pptr
    BY <1>1 DEF Links, Fields
  <2> QED BY <2>2, <2>3, <2>4
<1> HIDE DEF L2
<1>4. Ring(L2, S \ {p})
  <2>1. \A b \in S \ {p} : L2[b].next_task = L1[b].next_task /\ L2[b].prev_task = L1[b].prev_task
    BY <1>3 DEF SamePaths
  <2> QED BY <1>1, <2>1, RingKeep
<1>5. Sib(L2, S, (S \ {p}) \ {Swapper}, {})
  <2>1. \A b \in S : /\ L2[b].p_cptr = L1[b].p_cptr
                     /\ L2[b].p_ysptr = L1[b].p_ysptr
                     /\ L2[b].p_osptr = L1[b].p_osptr
    BY <1>3 DEF SameSiblings
  <2>2. \A b \in (S \ {p}) \ {Swapper} : L2[b].p_pptr = L1[b].p_pptr
    BY <1>3
  <2>3. (S \ {p}) \ {Swapper} \in SUBSET S
    OBVIOUS
  <2> QED BY <1>1, <2>1, <2>2, <2>3, SibKeep
<1>6. M \in Links /\ Tree(M, (S \ {p}) \cup {p}) /\ SameParents(L2, M)
  <2>1. /\ S \ {p} \in SUBSET Task /\ p \in Task /\ q \in S \ {p} /\ p \notin S \ {p}
        /\ (S \ {p}) \cup {p} = S /\ L2[p].p_pptr = q
    BY <1>3
  <2>2. Sib(L2, (S \ {p}) \cup {p}, (S \ {p}) \ {Swapper}, {})
    BY <1>5, <2>1
  <2> QED BY <1>2, <1>3, <1>4, <2>1, <2>2, TreeAdd
<1>7. (S \ {p}) \cup {p} = S
  OBVIOUS
<1> QED BY <1>1, <1>3, <1>6, <1>7 DEF SameParents

(* The links once fork has made p a child of q, and once release_task has freed p. *)
Forked(L, p, q) == SET_LINKS([L EXCEPT ![p] = [NoLinks EXCEPT !.p_pptr = q]], p)

Released(L, p) == [REMOVE_LINKS(L, p) EXCEPT ![p] = NoLinks]

LEMMA TreeForked ==
  ASSUME NEW L \in Links, NEW S \in SUBSET Task, Tree(L, S), NEW p \in Task, p \notin S,
         NEW q \in S,
         NEW M, M = Forked(L, p, q)
  PROVE  /\ M \in Links /\ Tree(M, S \cup {p})
         /\ \A b \in Task : M[b].p_pptr = IF b = p THEN q ELSE L[b].p_pptr
<1> DEFINE new == [NoLinks EXCEPT !.p_pptr = q]
           L1 == [L EXCEPT ![p] = new]
<1>1. /\ new \in [Fields -> Ptr] /\ new.p_pptr = q /\ new.p_cptr = NoTask
  BY DEF NoLinks, Fields, Ptr
<1>2. M = SET_LINKS(L1, p)
  BY Zenon DEF Forked
<1> HIDE DEF new
<1>3. /\ L1 \in Links
      /\ L1[p] = new
      /\ \A b \in S : L1[b] = L[b]
      /\ \A b \in Task : b # p => L1[b] = L[b]
  BY <1>1 DEF Links
<1> HIDE DEF L1
<1>4. Ring(L1, S)
  BY <1>3, RingKeep DEF Tree
<1>5. Sib(L1, S, S \ {Swapper}, {})
  <2>1. S \ {Swapper} \in SUBSET S /\ Sib(L, S, S \ {Swapper}, {})
    BY DEF Tree
  <2> QED BY <1>3, <2>1, SibKeep
<1>6. Sib(L1, S \cup {p}, S \ {Swapper}, {})
  <2>1. S \ {Swapper} \in SUBSET Task
    OBVIOUS
  <2> QED BY <1>1, <1>3, <1>5, <2>1, SibNew
<1>7. M \in Links /\ Tree(M, S \cup {p}) /\ SameParents(L1, M)
  BY <1>1, <1>2, <1>3, <1>4, <1>6, TreeAdd
<1> QED BY <1>1, <1>3, <1>7 DEF SameParents

LEMMA TreeReleased ==
  ASSUME NEW L \in Links, NEW S \in SUBSET Task, Tree(L, S), NEW p \in S, p # Swapper,
         \A b \in S \ {Swapper} : L[b].p_pptr # p,
         NEW M, M = Released(L, p)
  PROVE  /\ M \in Links /\ Tree(M, S \ {p})
         /\ \A b \in Task : b # p => M[b].p_pptr = L[b].p_pptr
<1> DEFINE L1 == REMOVE_LINKS(L, p)
<1>1. /\ L1 \in Links /\ SameParents(L, L1)
      /\ Ring(L1, S \ {p}) /\ Sib(L1, S, (S \ {p}) \ {Swapper}, {})
  BY TreeRemove
<1>2. M = [L1 EXCEPT ![p] = NoLinks]
  BY Zenon DEF Released
<1> HIDE DEF L1
<1>3. /\ M \in Links /\ \A b \in Task : b # p => M[b] = L1[b]
  <2>1. NoLinks \in [Fields -> Ptr] /\ p \in Task
    BY DEF NoLinks, Ptr
  <2>2. M \in Links
    BY <1>1, <1>2, <2>1 DEF Links
  <2>3. \A b \in Task : b # p => M[b] = L1[b]
    BY <1>1, <1>2, <2>1 DEF Links
  <2> QED BY <2>2, <2>3
<1>4. Ring(M, S \ {p})
  <2>1. \A b \in S \ {p} : M[b].next_task = L1[b].next_task /\ M[b].prev_task = L1[b].prev_task
    BY <1>3
  <2>2. S \ {p} \in SUBSET Task
    OBVIOUS
  <2>3. Ring(L1, S \ {p})
    BY <1>1
  <2> QED BY ONLY <2>1, <2>2, <2>3, RingKeep
<1>5. Sib(L1, S \ {p}, (S \ {p}) \ {Swapper}, {})
  <2>1. \A b \in (S \ {p}) \ {Swapper} : L1[b].p_pptr # p
    BY <1>1 DEF SameParents
  <2>2. (S \ {p}) \ {Swapper} \in SUBSET Task
    OBVIOUS
  <2> QED BY <1>1, <2>1, <2>2, SibLeave
<1>6. Sib(M, S \ {p}, (S \ {p}) \ {Swapper}, {})
  <2>1. S \ {p} \in SUBSET Task /\ (S \ {p}) \ {Swapper} \in SUBSET (S \ {p})
    OBVIOUS
  <2>2. \A b \in S \ {p} : M[b] = L1[b]
    BY <1>3
  <2> QED BY <1>5, <2>1, <2>2, SibKeep
<1> QED BY <1>1, <1>3, <1>4, <1>6 DEF Tree, SameParents

----------------------------------------------------------------------------
(* The loop of exit_notify.  L and s are the links and the states it begins with, f
   those after some of its turns; S are the tasks on the lists.                     *)
Waits(u, s) == pc[u] = "wait" /\ s[u] = "TASK_INTERRUPTIBLE"

(* s1 is s with some sleepers of wait4 awake. *)
Woke(s, s1) ==
  \A u \in Task : s1[u] = s[u] \/ (Waits(u, s) /\ s1[u] = "TASK_RUNNING")

Handing(f, t, parent, L, s, S) ==
  /\ f \in [link : Links, state : [Task -> TaskStates]]
  /\ \A b \in S : /\ f.link[b].next_task = L[b].next_task
                  /\ f.link[b].prev_task = L[b].prev_task
  /\ Sib(f.link, S, S \ {Swapper}, {t})
  /\ \A b \in S \ {Swapper} :
       \/ f.link[b].p_pptr = L[b].p_pptr
       \/ L[b].p_pptr = t /\ f.link[b].p_pptr = parent[b]
  /\ Woke(s, f.state)
  /\ \A b \in S \ {Swapper} :
       L[b].p_pptr = t /\ f.link[b].p_pptr # t /\ s[b] = "TASK_ZOMBIE" =>
         \A u \in Threads(parent[b]) \cap Task : ~ Waits(u, f.state)

LEMMA WokenWakes ==
  ASSUME NEW s \in [Task -> TaskStates], NEW group
  PROVE  /\ Woken(s, group) \in [Task -> TaskStates]
         /\ Woke(s, Woken(s, group))
         /\ \A u \in group \cap Task : ~ Waits(u, Woken(s, group))
BY DEF Woken, Woke, Waits, TaskStates

LEMMA WokeAgain ==
  ASSUME NEW s1, NEW s2, NEW s3, Woke(s1, s2), Woke(s2, s3)
  PROVE  /\ Woke(s1, s3)
         /\ \A u \in Task : ~ Waits(u, s2) => ~ Waits(u, s3)
         /\ \A u \in Task : (s1[u] = "TASK_ZOMBIE") = (s3[u] = "TASK_ZOMBIE")
BY DEF Woke, Waits

(* A turn takes the head of the list of t away, and leaves an empty list alone. *)
HeadGone(L, M, K, t) ==
  /\ Kids(M, K, t) = Kids(L, K, t) \ {L[t].p_cptr}
  /\ L[t].p_cptr # NoTask => L[t].p_cptr \in Kids(L, K, t)
  /\ L[t].p_cptr = NoTask => Kids(L, K, t) = {}

LEMMA Turn ==
  ASSUME NEW L \in Links, NEW s \in [Task -> TaskStates], NEW S \in SUBSET Task,
         NEW t \in S, NEW parent \in [Task -> Ptr],
         \A b \in S \ {Swapper} : L[b].p_pptr = t => parent[b] \in S \ {t},
         NEW f, Handing(f, t, parent, L, s, S),
         NEW g, g = HandOver(t, parent, f)
  PROVE  /\ Handing(g, t, parent, L, s, S)
         /\ HeadGone(f.link, g.link, S \ {Swapper}, t)
<1> DEFINE p == f.link[t].p_cptr
           K == S \ {Swapper}
<1>1. /\ f.link \in Links /\ f.state \in [Task -> TaskStates]
      /\ Sib(f.link, S, K, {t}) /\ t \in Task /\ K \in SUBSET Task
  BY DEF Handing
<1>2. CASE p = NoTask
  <2>1. g = f
    BY <1>2 DEF HandOver
  <2>2. Kids(f.link, K, t) = {}
    BY <1>1, <1>2, SibEmpty
  <2> QED BY <1>2, <2>1, <2>2 DEF HeadGone
<1>3. CASE p # NoTask
  <2> DEFINE n == parent[p]
             M1 == [f.link EXCEPT ![t].p_cptr = f.link[p].p_osptr]
             M2 == [M1 EXCEPT ![p].p_pptr = n]
             M3 == AddToSiblings(M2, p)
             s3 == IF f.state[p] = "TASK_ZOMBIE" THEN Notify(f.state, n) ELSE f.state
  <2>1. g = [link |-> M3, state |-> s3]
    BY <1>3, Zenon DEF HandOver
  <2>2. p \in K /\ f.link[p].p_pptr = t /\ p \in Task
    BY <1>1, <1>3 DEF Sib
  <2>3. L[p].p_pptr = t /\ n \in S \ {t} /\ n \in Task /\ n \in Ptr
    <3>1. \/ f.link[p].p_pptr = L[p].p_pptr
          \/ L[p].p_pptr = t /\ f.link[p].p_pptr = parent[p]
      BY <2>2 DEF Handing
    <3>2. L[p].p_pptr = t
      BY <2>2, <3>1
    <3>3. n \in S \ {t}
      BY <2>2, <3>2
    <3> QED BY <3>2, <3>3 DEF Ptr
  <2>4. g.link = M3 /\ g.state = s3
    BY <2>1
  <2> HIDE DEF p, n, K
  <2>5. /\ M2 \in Links /\ SamePaths(f.link, M2)
        /\ \A b \in Task : /\ M2[b].p_ysptr = f.link[b].p_ysptr
                           /\ M2[b].p_osptr = f.link[b].p_osptr
                           /\ M2[b].p_cptr = IF b = t THEN f.link[p].p_osptr ELSE f.link[b].p_cptr
                           /\ M2[b].p_pptr = IF b = p THEN n ELSE f.link[b].p_pptr
    <3>1. f.link[p].p_osptr \in Ptr
      BY <1>1, <2>2, LinkTypes
    <3>2. /\ M1 \in Links /\ SamePaths(f.link, M1) /\ SameParents(f.link, M1)
      BY <1>1, <3>1 DEF Links, Fields, SamePaths, SameParents
    <3>3. \A b \in Task : /\ M1[b].p_ysptr = f.link[b].p_ysptr
                          /\ M1[b].p_osptr = f.link[b].p_osptr
                          /\ M1[b].p_cptr = IF b = t THEN f.link[p].p_osptr ELSE f.link[b].p_cptr
      BY <1>1, <3>1 DEF Links, Fields
    <3> HIDE DEF M1
    <3>4. M2 \in Links /\ SamePaths(M1, M2) /\ SameSiblings(M1, M2)
      <4>1. M2 \in Links
        BY <3>2, <2>3 DEF Links, Fields
      <4>2. SamePaths(M1, M2)
        BY <3>2 DEF Links, Fields, SamePaths
      <4>3. SameSiblings(M1, M2)
        BY <3>2 DEF Links, Fields, SameSiblings
      <4> QED BY <4>1, <4>2, <4>3
    <3>5. \A b \in Task : M2[b].p_pptr = IF b = p THEN n ELSE M1[b].p_pptr
      BY <3>2, <2>3 DEF Links, Fields
    <3> HIDE DEF M2
    <3> QED BY <3>2, <3>3, <3>4, <3>5 DEF SamePaths, SameSiblings, SameParents
  <2> HIDE DEF M2
  <2>6. Sib(M2, S, K \ {p}, {t})
    <3>1. p = f.link[t].p_cptr
      BY DEF p
    <3>2. Sib(f.link, S, K, {t}) /\ K \in SUBSET Task /\ S \in SUBSET Task /\ t \in S /\ p \in K
      BY <1>1, <2>2 DEF K
    <3>3. Dropped(f.link, M2, t, p, n)
      BY <2>5 DEF Dropped
    <3> QED BY ONLY <3>1, <3>2, <3>3, SibDrop
  <2>7. M2[p].p_pptr = n
    BY <2>2, <2>5
  <2>8. /\ M3 \in Links /\ SamePaths(M2, M3) /\ SameParents(M2, M3)
        /\ \A b \in Task :
              /\ M3[b].p_ysptr = IF b = p THEN NoTask
                                ELSE IF b = M2[M2[p].p_pptr].p_cptr THEN p ELSE M2[b].p_ysptr
              /\ M3[b].p_osptr = IF b = p THEN M2[M2[p].p_pptr].p_cptr ELSE M2[b].p_osptr
              /\ M3[b].p_cptr = IF b = M2[p].p_pptr THEN p ELSE M2[b].p_cptr
    BY <2>2, <2>3, <2>5, <2>7, AddWrites
  <2> HIDE DEF M3
  <2>9. Sib(M3, S, K, {t})
    <3>1. K \ {p} \in SUBSET Task /\ p \notin K \ {p} /\ (K \ {p}) \cup {p} = K
      BY <1>1, <2>2
    <3>2. S \in SUBSET Task /\ p \in Task /\ M2[p].p_pptr \in S /\ Added(M2, M3, p)
      BY <2>2, <2>3, <2>7, <2>8 DEF Added
    <3>3. Sib(M3, S, (K \ {p}) \cup {p}, {t})
      BY ONLY <2>6, <2>8, <3>1, <3>2, SibAdd
    <3> QED BY <3>1, <3>3
  <2>10. \A b \in Task : M3[b].p_pptr = IF b = p THEN n ELSE f.link[b].p_pptr
    BY <2>5, <2>8 DEF SameParents
  <2>11. s3 \in [Task -> TaskStates] /\ Woke(f.state, s3)
    <3>1. Woke(f.state, f.state)
      BY DEF Woke
    <3> QED BY <1>1, <3>1, WokenWakes DEF Notify
  <2>12. f.state[p] = "TASK_ZOMBIE" => \A u \in Threads(n) \cap Task : ~ Waits(u, s3)
    BY <1>1, WokenWakes DEF Notify
  <2> HIDE DEF s3
  <2>13. Woke(s, f.state)
    BY DEF Handing
  <2>14. Woke(s, s3) /\ \A u \in Task : ~ Waits(u, f.state) => ~ Waits(u, s3)
    BY <2>11, <2>13, WokeAgain
  <2>15. ASSUME NEW b \in K, L[b].p_pptr = t, M3[b].p_pptr # t, s[b] = "TASK_ZOMBIE"
         PROVE  \A u \in Threads(parent[b]) \cap Task : ~ Waits(u, s3)
    <3>1. CASE b = p
      <4>1. f.state[p] = "TASK_ZOMBIE"
        BY <2>2, <2>13, <2>15, <3>1 DEF Woke, Waits
      <4> QED BY <2>12, <3>1, <4>1 DEF n
    <3>2. CASE b # p
      <4>1. b \in Task /\ f.link[b].p_pptr # t
        BY <1>1, <2>10, <2>15, <3>2
      <4>2. \A u \in Threads(parent[b]) \cap Task : ~ Waits(u, f.state)
        BY <2>15, <4>1 DEF Handing, K
      <4> QED BY <2>14, <4>2
    <3> QED BY <3>1, <3>2
  <2>16. \A b \in S : M3[b].next_task = L[b].next_task /\ M3[b].prev_task = L[b].prev_task
    BY <2>5, <2>8 DEF Handing, SamePaths
  <2>17. \A b \in K : \/ M3[b].p_pptr = L[b].p_pptr
                      \/ L[b].p_pptr = t /\ M3[b].p_pptr = parent[b]
    <3> SUFFICES ASSUME NEW b \in K
                 PROVE  \/ M3[b].p_pptr = L[b].p_pptr
                        \/ L[b].p_pptr = t /\ M3[b].p_pptr = parent[b]
      OBVIOUS
    <3>1. CASE b = p
      BY <2>2, <2>3, <2>10, <3>1 DEF n
    <3>2. CASE b # p
      BY <1>1, <2>10, <3>2 DEF Handing, K
    <3> QED BY <3>1, <3>2
  <2>18. Handing(g, t, parent, L, s, S)
    <3>1. g \in [link : Links, state : [Task -> TaskStates]]
      BY <2>1, <2>8, <2>11
    <3> QED BY <2>4, <2>9, <2>14, <2>15, <2>16, <2>17, <3>1 DEF Handing, K
  <2>19. Kids(M3, K, t) = Kids(f.link, K, t) \ {p}
    BY <1>1, <2>3, <2>10 DEF Kids
  <2>20. p \in Kids(f.link, K, t)
    BY <2>2 DEF Kids
  <2> QED BY <2>4, <2>18, <2>19, <2>20, <1>3 DEF p, K, HeadGone
<1> QED BY <1>2, <1>3

LEMMA HandedOverWhole ==
  ASSUME NEW L \in Links, NEW s \in [Task -> TaskStates], NEW S \in SUBSET Task, Tree(L, S),
         NEW t \in S, NEW parent \in [Task -> Ptr],
         \A b \in S \ {Swapper} : L[b].p_pptr = t => parent[b] \in S \ {t},
         NEW f, f = HandedOver(t, parent, [link |-> L, state |-> s])
  PROVE  /\ f.link \in Links /\ f.state \in [Task -> TaskStates] /\ Tree(f.link, S)
         /\ \A b \in S \ {Swapper} :
              f.link[b].p_pptr = IF L[b].p_pptr = t THEN parent[b] ELSE L[b].p_pptr
         /\ Woke(s, f.state)
         /\ \A b \in S \ {Swapper} :
              L[b].p_pptr = t /\ s[b] = "TASK_ZOMBIE" =>
                \A u \in Threads(parent[b]) \cap Task : ~ Waits(u, f.state)
<1> DEFINE N == Cardinality(Task)
           K == S \ {Swapper}
           begin == [link |-> L, state |-> s]
           H == {h \in [link : Links, state : [Task -> TaskStates]] :
                   Handing(h, t, parent, L, s, S)}
           g == [h \in H |-> HandOver(t, parent, h)]
           B(m) == [n \in 0..N |-> IF n = 0 THEN begin ELSE HandOver(t, parent, m[n - 1])]
           w == CHOOSE m : m = B(m)
<1>1. N \in Nat /\ IsFiniteSet(Task)
  BY TaskCount, TaskAssumption
<1>2. begin \in H
  <2>1. Sib(L, S, K, {t})
    <3>1. Sib(L, S, K, {}) /\ K \in SUBSET Task
      BY DEF Tree
    <3> QED BY <3>1, SibBegin
  <2>2. begin.link = L /\ begin.state = s /\ begin \in [link : Links, state : [Task -> TaskStates]]
    OBVIOUS
  <2>3. Woke(s, s)
    BY DEF Woke
  <2> HIDE DEF begin
  <2>4. Handing(begin, t, parent, L, s, S)
    BY <2>1, <2>2, <2>3 DEF Handing
  <2> QED BY <2>2, <2>4
<1>3. ASSUME NEW h \in H
      PROVE  /\ HandOver(t, parent, h) \in H
             /\ Kids(HandOver(t, parent, h).link, K, t) = Kids(h.link, K, t) \ {h.link[t].p_cptr}
             /\ h.link[t].p_cptr # NoTask => h.link[t].p_cptr \in Kids(h.link, K, t)
             /\ h.link[t].p_cptr = NoTask => Kids(h.link, K, t) = {}
  <2>1. Handing(h, t, parent, L, s, S)
    OBVIOUS
  <2>2. Handing(HandOver(t, parent, h), t, parent, L, s, S)
    BY <2>1, Turn
  <2>3. HandOver(t, parent, h) \in [link : Links, state : [Task -> TaskStates]]
    BY <2>2 DEF Handing
  <2>4. HandOver(t, parent, h) \in H
    BY <2>2, <2>3
  <2>5. HeadGone(h.link, HandOver(t, parent, h).link, S \ {Swapper}, t)
    BY <2>1, Turn
  <2> HIDE DEF H
  <2> QED BY <2>4, <2>5 DEF HeadGone
<1> HIDE DEF H, begin
<1>4. g \in [H -> H]
  BY <1>3
<1>5. PICK m : Repeats(m, H, g, begin, N)
  <2> HIDE DEF g, N
  <2> QED BY <1>1, <1>2, <1>4, Recursion
<1>6. m \in [0..N -> H] /\ m[0] = begin /\ \A n \in 1..N : m[n] = HandOver(t, parent, m[n - 1])
  <2>1. m \in [0..N -> H] /\ m[0] = begin /\ \A n \in 1..N : m[n] = g[m[n - 1]]
    BY <1>5 DEF Repeats
  <2>2. ASSUME NEW n \in 1..N PROVE m[n] = HandOver(t, parent, m[n - 1])
    <3>1. N \in Nat
      BY <1>1
    <3>2. n - 1 \in 0..N /\ m[n] = g[m[n - 1]]
      <4> HIDE DEF N, g
      <4> QED BY <3>1, <2>1
    <3>3. m[n - 1] \in H
      BY <2>1, <3>2
    <3> QED BY <3>2, <3>3
  <2> QED BY <2>1, <2>2
<1>7. m = B(m)
  <2>1. \A n \in 0..N : m[n] = IF n = 0 THEN begin ELSE HandOver(t, parent, m[n - 1])
    <3>1. N \in Nat
      BY <1>1
    <3> HIDE DEF N
    <3>2. \A n \in 0..N : n = 0 \/ n \in 1..N
      BY <3>1
    <3> QED BY <1>6, <3>2
  <2> QED BY <1>6, <2>1
<1>8. w = B(w)
  <2> HIDE DEF B
  <2> QED BY <1>7
<1>9. f = w[N]
  BY Zenon DEF HandedOver, begin
<1>10. /\ w[0] = begin
      /\ \A n \in 0..N : n + 1 \in 0..N => w[n + 1] = HandOver(t, parent, w[n])
  <2>1. \A n \in 0..N : w[n] = IF n = 0 THEN begin ELSE HandOver(t, parent, w[n - 1])
    <3> HIDE DEF w
    <3> QED BY <1>8
  <2> HIDE DEF w, N
  <2>2. w[0] = begin
    BY <1>1, <2>1
  <2>3. ASSUME NEW n \in 0..N, n + 1 \in 0..N PROVE w[n + 1] = HandOver(t, parent, w[n])
    <3>1. n + 1 # 0 /\ (n + 1) - 1 = n
      BY <1>1
    <3> QED BY <2>1, <2>3, <3>1
  <2> QED BY <2>2, <2>3
<1> HIDE DEF w, g, B, N
<1> DEFINE Q == {n \in Nat : n \in 0..N =>
                   /\ w[n] \in H
                   /\ Cardinality(Kids(w[n].link, K, t)) <= N - n}
<1>11. ASSUME NEW M
      PROVE  /\ IsFiniteSet(Kids(M, K, t))
             /\ Cardinality(Kids(M, K, t)) \in Nat /\ Cardinality(Kids(M, K, t)) <= N
  <2>1. Kids(M, K, t) \in SUBSET Task
    BY DEF Kids
  <2> QED BY <1>1, <2>1, FS_Subset, FS_CardinalityType DEF N
<1>12. 0 \in Q
  <2>1. w[0] \in H
    BY <1>2, <1>10
  <2>2. Cardinality(Kids(w[0].link, K, t)) <= N - 0
    <3>1. /\ Cardinality(Kids(w[0].link, K, t)) \in Nat
          /\ Cardinality(Kids(w[0].link, K, t)) <= N
      BY <1>11
    <3> QED BY <1>1, <3>1
  <2> QED BY <2>1, <2>2
<1>13. ASSUME NEW n \in Q PROVE n + 1 \in Q
  <2> SUFFICES ASSUME n + 1 \in 0..N
               PROVE  /\ w[n + 1] \in H
                      /\ Cardinality(Kids(w[n + 1].link, K, t)) <= N - (n + 1)
    OBVIOUS
  <2>1. n \in 0..N /\ n \in Nat
    BY <1>1
  <2>2. w[n] \in H /\ Cardinality(Kids(w[n].link, K, t)) <= N - n
    BY <2>1
  <2>3. w[n + 1] = HandOver(t, parent, w[n])
    BY <2>1, <1>10
  <2> DEFINE p == w[n].link[t].p_cptr
             old == Kids(w[n].link, K, t)
             new == Kids(w[n + 1].link, K, t)
  <2>4. /\ w[n + 1] \in H /\ new = old \ {p}
        /\ p # NoTask => p \in old
        /\ p = NoTask => old = {}
    BY <1>3, <2>2, <2>3
  <2>5. IsFiniteSet(old) /\ Cardinality(old) \in Nat /\ Cardinality(old) <= N - n
    BY <1>11, <2>2
  <2>6. Cardinality(new) <= N - (n + 1)
    <3> HIDE DEF old, new, p
    <3>1. CASE p = NoTask
      <4>1. new = {}
        BY <2>4, <3>1
      <4>2. Cardinality({}) = 0
        BY FS_EmptySet
      <4> QED BY <1>1, <2>1, <4>1, <4>2
    <3>2. CASE p # NoTask
      <4>1. Cardinality(old \ {p}) = Cardinality(old) - 1
        BY <2>4, <2>5, <3>2, FS_RemoveElement
      <4> QED BY <1>1, <2>1, <2>4, <2>5, <4>1
    <3> QED BY <3>1, <3>2
  <2> QED BY <2>4, <2>6
<1>14. Q = Nat
  <2> HIDE DEF Q
  <2> Q \in SUBSET Nat
    BY DEF Q
  <2> QED BY <1>12, <1>13, Induction
<1>15. w[N] \in H /\ Cardinality(Kids(w[N].link, K, t)) = 0
  <2>1. N \in Q /\ N \in 0..N
    <3> HIDE DEF Q
    <3> QED BY <1>1, <1>14
  <2>2. Cardinality(Kids(w[N].link, K, t)) \in Nat
    BY <1>11
  <2> QED BY <1>1, <2>1, <2>2
<1>16. Handing(f, t, parent, L, s, S)
  BY <1>9, <1>15 DEF H
<1>17. Kids(f.link, K, t) = {}
  BY <1>9, <1>15, <1>11, FS_EmptySet
<1>18. /\ f.link \in Links /\ f.state \in [Task -> TaskStates] /\ Woke(s, f.state)
       /\ Sib(f.link, S, K, {t})
       /\ \A b \in S : /\ f.link[b].next_task = L[b].next_task
                       /\ f.link[b].prev_task = L[b].prev_task
       /\ \A b \in K : \/ f.link[b].p_pptr = L[b].p_pptr
                       \/ L[b].p_pptr = t /\ f.link[b].p_pptr = parent[b]
       /\ \A b \in K : L[b].p_pptr = t /\ f.link[b].p_pptr # t /\ s[b] = "TASK_ZOMBIE" =>
                         \A u \in Threads(parent[b]) \cap Task : ~ Waits(u, f.state)
  BY <1>16 DEF Handing
<1>19. \A b \in K : f.link[b].p_pptr # t
  BY <1>17 DEF Kids
<1>20. \A b \in K : f.link[b].p_pptr = IF L[b].p_pptr = t THEN parent[b] ELSE L[b].p_pptr
  BY <1>18, <1>19
<1>21. Ring(f.link, S)
  <2>1. Ring(L, S)
    BY DEF Tree
  <2> QED BY <1>18, <2>1, RingKeep
<1>22. f.link[t].p_cptr = NoTask
  BY <1>18, <1>19 DEF Sib
<1>23. Sib(f.link, S, K, {})
  <2>1. K \in SUBSET Task
    OBVIOUS
  <2> QED BY <1>18, <1>22, <2>1, SibEmpty
<1>24. Tree(f.link, S)
  BY <1>21, <1>23 DEF Tree
<1> QED BY <1>18, <1>19, <1>20, <1>24

----------------------------------------------------------------------------
(* The rings of the thread groups among the tasks S: no set of tasks closed under
   next_thread is entered from outside.                                           *)
Rings(next, S) ==
  /\ \A t \in S : next[t] \in S
  /\ \A X \in SUBSET S :
       (\A t \in X : next[t] \in X) => \A t \in S : next[t] \in X => t \in X

(* The invariant. *)
Types ==
  /\ state \in [Task -> TaskStates]
  /\ link \in Links
  /\ p_opptr \in [Task -> Ptr] /\ next_thread \in [Task -> Ptr] /\ peer \in [Task -> Ptr]
  /\ exit_signal \in [Task -> ExitSignals]
  /\ ptrace \in [Task -> BOOLEAN] /\ exiting \in [Task -> BOOLEAN]
  /\ pc \in [Task -> {"none", "user", "fork", "exit", "wait", "reap"}]
  /\ option \in [Task -> WaitOptions]

(* What the state of a task, its flags and the call it is in say of each other. *)
Control(t) ==
  /\ state[t] \in {"FREE", "TASK_UNINTERRUPTIBLE"} => pc[t] = "none" /\ ~ exiting[t]
  /\ state[t] = "TASK_ZOMBIE" => pc[t] = "none" /\ exiting[t]
  /\ state[t] = "TASK_INTERRUPTIBLE" => pc[t] = "wait"
  /\ pc[t] = "exit" => t \in Slots /\ exiting[t]
  /\ exiting[t] => pc[t] = "exit" \/ state[t] = "TASK_ZOMBIE"
  /\ (p_opptr[t] = NoTask) = (t \notin Listed)

(* What a call holds: the child that it makes, the zombie that it reaps. *)
Holds(t) ==
  /\ (peer[t] = NoTask) = (pc[t] \notin {"fork", "reap"})
  /\ pc[t] = "fork" => state[peer[t]] = "TASK_UNINTERRUPTIBLE"
  /\ pc[t] = "reap" => /\ state[peer[t]] = "TASK_ZOMBIE"
                       /\ link[peer[t]].p_pptr = t
                       /\ next_thread[t] = t
  /\ \A s \in Task \ {t} : peer[t] # NoTask => peer[s] # peer[t]

(* The swapper and process 1 stay what they are. *)
Roots ==
  /\ state[Swapper] = "TASK_RUNNING" /\ pc[Swapper] = "none"
  /\ ~ ptrace[Swapper] /\ ~ exiting[Swapper]
  /\ Reaper \in Live
  /\ p_opptr[Swapper] = Swapper /\ p_opptr[Reaper] = Swapper

Family ==
  /\ Tree(link, Listed)
  /\ Rings(next_thread, Listed)
  /\ ParentsLive

IInv == Types /\ (\A t \in Task : Control(t) /\ Holds(t)) /\ Roots /\ Family

----------------------------------------------------------------------------
(* The rings. *)

(* What a walk round a ring meets, starting at t: t and what its pointers lead to, nothing
   outside S; and the walk from each of those meets t.                                   *)
LEMMA RingWalk ==
  ASSUME NEW next \in [Task -> Ptr], NEW S \in SUBSET Task, Rings(next, S), NEW t \in S
  PROVE  /\ Met(t, next) \in SUBSET S
         /\ t \in Met(t, next)
         /\ \A u \in Met(t, next) : next[u] \in Met(t, next)
         /\ \A X \in SUBSET Task :
              t \in X /\ (\A u \in X : next[u] \in X) => Met(t, next) \subseteq X
<1>1. \A u \in S : next[u] \in S /\ next[u] # NoTask /\ u # NoTask
  BY TaskAssumption DEF Rings
<1>2. /\ Met(t, next) \in SUBSET Task
      /\ Closed(Met(t, next), t, next)
      /\ \A X \in SUBSET Task : Closed(X, t, next) => Met(t, next) \subseteq X
  BY MetLeast DEF Ptr
<1>3. Met(t, next) \subseteq S
  <2>1. Closed(S, t, next)
    BY <1>1 DEF Closed
  <2> QED BY <2>1, <1>2
<1>4. t \in Met(t, next) /\ \A u \in Met(t, next) : next[u] \in Met(t, next)
  BY <1>1, <1>2, <1>3 DEF Closed
<1>5. \A X \in SUBSET Task : t \in X /\ (\A u \in X : next[u] \in X) => Closed(X, t, next)
  BY DEF Closed
<1> QED BY <1>2, <1>3, <1>4, <1>5

LEMMA RingBack ==
  ASSUME NEW next \in [Task -> Ptr], NEW S \in SUBSET Task, Rings(next, S), NEW t \in S,
         NEW u \in Met(t, next)
  PROVE  u \in S /\ t \in Met(u, next)
<1>1. u \in S
  BY RingWalk
<1>2. SUFFICES ASSUME t \notin Met(u, next) PROVE FALSE
  BY <1>1
<1> DEFINE U == Met(u, next)
           Y == Met(t, next) \ U
<1>3. U \in SUBSET S /\ u \in U /\ \A v \in U : next[v] \in U
  BY <1>1, RingWalk
<1>4. /\ Met(t, next) \in SUBSET S /\ t \in Met(t, next)
      /\ \A v \in Met(t, next) : next[v] \in Met(t, next)
      /\ \A X \in SUBSET Task : t \in X /\ (\A v \in X : next[v] \in X) => Met(t, next) \subseteq X
  BY RingWalk
<1>5. \A v \in S : next[v] \in U => v \in U
  <2> HIDE DEF U
  <2> QED BY <1>3 DEF Rings
<1>6. t \in Y /\ Y \in SUBSET Task /\ \A v \in Y : next[v] \in Y
  <2> HIDE DEF U
  <2>1. t \notin U
    BY <1>2 DEF U
  <2> QED BY <1>4, <1>5, <2>1
<1>7. Met(t, next) \subseteq Y
  <2> HIDE DEF Y
  <2> QED BY <1>4, <1>6
<1> QED BY <1>3, <1>7

(* A task alone in its ring. *)
LEMMA RingAlone ==
  ASSUME NEW next \in [Task -> Ptr], NEW S \in SUBSET Task, Rings(next, S), NEW t \in S,
         next[t] = t
  PROVE  Met(t, next) = {t}
<1>1. /\ t \in Met(t, next)
      /\ \A X \in SUBSET Task : t \in X /\ (\A u \in X : next[u] \in X) => Met(t, next) \subseteq X
  BY RingWalk
<1>2. Met(t, next) \subseteq {t}
  BY <1>1
<1> QED BY <1>1, <1>2

(* A thread joins the ring of t: do_fork with CLONE_THREAD. *)
LEMMA RingJoin ==
  ASSUME NEW next \in [Task -> Ptr], NEW S \in SUBSET Task, Rings(next, S), NEW t \in S,
         NEW p \in Task, p \notin S, NEW M, M = [next EXCEPT ![p] = next[t], ![t] = p]
  PROVE  Rings(M, S \cup {p})
<1>1. \A u \in S : next[u] \in S
  BY DEF Rings
<1>2. \A u \in S \cup {p} : M[u] = IF u = t THEN p ELSE IF u = p THEN next[t] ELSE next[u]
  OBVIOUS
<1>3. \A u \in S \cup {p} : M[u] \in S \cup {p}
  BY <1>1, <1>2
<1>4. ASSUME NEW X \in SUBSET (S \cup {p}), \A u \in X : M[u] \in X,
             NEW u \in S \cup {p}, M[u] \in X
      PROVE  u \in X
  <2>1. \A v \in X \ {p} : next[v] \in X \ {p}
    <3> SUFFICES ASSUME NEW v \in X \ {p} PROVE next[v] \in X \ {p}
      OBVIOUS
    <3>1. v \in S /\ next[v] \in S
      BY <1>1
    <3>2. CASE v = t
      BY <1>2, <1>4, <3>1, <3>2
    <3>3. CASE v # t
      BY <1>2, <1>4, <3>1, <3>3
    <3> QED BY <3>2, <3>3
  <2>2. X \ {p} \in SUBSET S /\ \A v \in S : next[v] \in X \ {p} => v \in X \ {p}
    <3>1. X \ {p} \in SUBSET S
      OBVIOUS
    <3> QED BY <2>1, <3>1 DEF Rings
  <2>3. CASE u = t
    <3>1. next[t] \in X \ {p}
      BY <1>1, <1>2, <1>4, <2>3
    <3> QED BY <2>2, <2>3, <3>1
  <2>4. CASE u = p
    <3>1. next[t] \in X \ {p}
      BY <1>1, <1>2, <1>4, <2>4
    <3>2. t \in X
      BY <2>2, <3>1
    <3> QED BY <1>2, <1>4, <2>4, <3>2
  <2>5. CASE u # t /\ u # p
    <3>1. next[u] \in X \ {p}
      BY <1>1, <1>2, <1>4, <2>5
    <3> QED BY <2>2, <2>5, <3>1
  <2> QED BY <2>3, <2>4, <2>5
<1> QED BY <1>3, <1>4 DEF Rings

(* A process begins a ring of its own. *)
LEMMA RingBegin ==
  ASSUME NEW next \in [Task -> Ptr], NEW S \in SUBSET Task, Rings(next, S),
         NEW p \in Task, p \notin S, NEW M, M = [next EXCEPT ![p] = p]
  PROVE  Rings(M, S \cup {p})
<1>1. \A u \in S : next[u] \in S
  BY DEF Rings
<1>2. \A u \in S \cup {p} : M[u] = IF u = p THEN p ELSE next[u]
  OBVIOUS
<1>3. ASSUME NEW X \in SUBSET (S \cup {p}), \A u \in X : M[u] \in X,
             NEW u \in S \cup {p}, M[u] \in X
      PROVE  u \in X
  <2>1. \A v \in X \ {p} : next[v] \in X \ {p}
    BY <1>1, <1>2, <1>3
  <2>2. X \ {p} \in SUBSET S
    OBVIOUS
  <2>3. \A v \in S : next[v] \in X \ {p} => v \in X \ {p}
    BY <2>1, <2>2 DEF Rings
  <2> QED BY <1>1, <1>2, <1>3, <2>3
<1> QED BY <1>1, <1>2, <1>3 DEF Rings

(* A task leaves its ring: release_task. *)
LEMMA RingLeave ==
  ASSUME NEW next \in [Task -> Ptr], NEW S \in SUBSET Task, Rings(next, S), NEW p \in S,
         NEW M, \A u \in S \ {p} : M[u] = IF next[u] = p THEN next[p] ELSE next[u]
  PROVE  Rings(M, S \ {p})
<1>1. \A u \in S : next[u] \in S
  BY DEF Rings
<1>2. \A u \in S \ {p} : next[u] = p => next[p] # p
  <2> SUFFICES ASSUME next[p] = p, NEW u \in S \ {p}, next[u] = p PROVE FALSE
    OBVIOUS
  <2>1. {p} \in SUBSET S /\ \A v \in {p} : next[v] \in {p}
    OBVIOUS
  <2> QED BY <2>1 DEF Rings
<1>3. \A u \in S \ {p} : M[u] \in S \ {p}
  BY <1>1, <1>2
<1>4. ASSUME NEW X \in SUBSET (S \ {p}), \A u \in X : M[u] \in X, NEW u \in S \ {p}, M[u] \in X
      PROVE  u \in X
  <2> DEFINE Y == IF next[p] \in X THEN X \cup {p} ELSE X
  <2>1. Y \in SUBSET S
    OBVIOUS
  <2>2. \A v \in Y : next[v] \in Y
    BY <1>4
  <2>3. next[u] \in Y
    BY <1>1, <1>4
  <2>4. u \in Y
    <3> HIDE DEF Y
    <3> QED BY <2>1, <2>2, <2>3 DEF Rings
  <2> QED BY <2>4
<1> QED BY <1>3, <1>4 DEF Rings

----------------------------------------------------------------------------
(* The threads of a group see each other, and the walk from t meets listed tasks only. *)
LEMMA ThreadGroup ==
  ASSUME IInv, NEW t \in Listed
  PROVE  /\ Threads(t) \in SUBSET Listed /\ t \in Threads(t)
         /\ \A u \in Threads(t) : u \in Listed /\ t \in Threads(u)
         /\ next_thread[t] = t => Threads(t) = {t}
<1>1. /\ next_thread \in [Task -> Ptr] /\ Rings(next_thread, Listed)
      /\ Listed \in SUBSET Task
  BY DEF IInv, Types, Family, Listed
<1>2. Threads(t) \in SUBSET Listed /\ t \in Threads(t)
  BY <1>1, RingWalk DEF Threads
<1>3. \A u \in Threads(t) : u \in Listed /\ t \in Threads(u)
  BY <1>1, RingBack DEF Threads
<1>4. next_thread[t] = t => Threads(t) = {t}
  BY <1>1, RingAlone DEF Threads
<1> QED BY <1>2, <1>3, <1>4

(* The children of a task are those whose p_pptr says so. *)
LEMMA ChildrenAre ==
  ASSUME IInv, NEW q \in Listed
  PROVE  Children(q) = {p \in Listed \ {Swapper} : link[p].p_pptr = q}
<1>1. /\ link \in Links /\ Sib(link, Listed, Listed \ {Swapper}, {})
      /\ Listed \in SUBSET Task
  BY DEF IInv, Types, Family, Tree, Listed
<1>2. Met(link[q].p_cptr, [p \in Task |-> link[p].p_osptr]) = Kids(link, Listed \ {Swapper}, q)
  BY <1>1, SibMet
<1> QED BY <1>2 DEF Kids, Children

(* What wait4 of t finds. *)
Found(t) == {p \in Listed \ {Swapper} : link[p].p_pptr \in Threads(t) /\ state[p] = "TASK_ZOMBIE"}

LEMMA ZombiesAre ==
  ASSUME IInv, NEW t \in Listed, NEW options
  PROVE  Zombies(t, options) = {p \in Found(t) : Asked(p, options)}
<1>1. \A s \in Threads(t) : Children(s) = {p \in Listed \ {Swapper} : link[p].p_pptr = s}
  BY ThreadGroup, ChildrenAre
<1>2. UNION {Children(s) : s \in Threads(t)}
        = {p \in Listed \ {Swapper} : link[p].p_pptr \in Threads(t)}
  BY <1>1
<1> QED BY <1>2 DEF Zombies, Scanned, Found

(* A zombie that t may reap. *)
Reapable(t, p) ==
  /\ p \in Listed \ {Swapper} /\ state[p] = "TASK_ZOMBIE" /\ CanRun(t) /\ t \in Live
  /\ pc[t] \in {"user", "wait", "reap"}
  /\ link[p].p_pptr \in Threads(t)
  /\ \A s \in Task \ {t} : peer[s] # p

(* Nobody else is about to reap what a running task finds. *)
LEMMA FoundIsFree ==
  ASSUME IInv, NEW t \in Task, CanRun(t), pc[t] \in {"user", "wait"}, NEW p \in Found(t)
  PROVE  t \in Live /\ Reapable(t, p)
<1>1. t \in Live /\ t \in Listed
  BY DEF CanRun, Live, Listed
<1>2. /\ p \in Task \ {Swapper} /\ p \in Listed /\ state[p] = "TASK_ZOMBIE" /\ p # NoTask
      /\ link[p].p_pptr \in Threads(t)
  BY TaskAssumption DEF Found, Listed
<1>3. ASSUME NEW s \in Task \ {t}, peer[s] = p PROVE FALSE
  <2>1. Holds(s)
    BY DEF IInv
  <2>2. pc[s] = "reap" /\ link[p].p_pptr = s /\ next_thread[s] = s
    BY <2>1, <1>2, <1>3 DEF Holds
  <2>3. s \in Listed /\ t \in Threads(s)
    BY <1>1, <1>2, <2>2, ThreadGroup
  <2>4. Threads(s) = {s}
    BY <2>2, <2>3, ThreadGroup
  <2> QED BY <2>3, <2>4, <1>3
<1> QED BY <1>1, <1>2, <1>3 DEF Reapable

LEMMA HeldIsFree ==
  ASSUME IInv, NEW t \in Task, CanRun(t), pc[t] = "reap"
  PROVE  peer[t] \in Task /\ Reapable(t, peer[t])
<1> DEFINE p == peer[t]
<1>1. t \in Live /\ t \in Listed
  BY DEF CanRun, Live, Listed
<1>2. /\ p \in Task /\ state[p] = "TASK_ZOMBIE" /\ link[p].p_pptr = t
      /\ \A s \in Task \ {t} : peer[s] # p
  BY DEF IInv, Holds, Types, Ptr
<1>3. p # Swapper
  BY <1>2 DEF IInv, Roots
<1>4. t \in Threads(t)
  BY <1>1, ThreadGroup
<1> QED BY <1>1, <1>2, <1>3, <1>4 DEF Reapable, Listed

----------------------------------------------------------------------------
(* The steps.  Those that leave the family alone, first. *)
LEMMA FamilyKept ==
  ASSUME Family, UNCHANGED family, Listed' = Listed, Live' = Live
  PROVE  Family'
<1>1. UNCHANGED <<link, p_opptr, next_thread>>
  BY DEF family
<1>2. Tree(link', Listed') /\ Rings(next_thread', Listed')
  BY <1>1 DEF Family
<1>3. ParentsLive'
  BY <1>1 DEF Family, ParentsLive
<1> QED BY <1>2, <1>3 DEF Family

(* Nobody's state is another's business: who is listed, and who lives, in terms of state. *)
LEMMA SameLists ==
  ASSUME \A u \in Task : /\ (state'[u] \in {"FREE", "TASK_UNINTERRUPTIBLE"})
                              = (state[u] \in {"FREE", "TASK_UNINTERRUPTIBLE"})
                         /\ (state'[u] = "TASK_ZOMBIE") = (state[u] = "TASK_ZOMBIE")
  PROVE  Listed' = Listed /\ Live' = Live
BY DEF Listed, Live

LEMMA ForkBeginKeeps ==
  ASSUME IInv, NEW t \in Task, NEW c \in Task, NEW clone_flags, ForkBegin(t, c, clone_flags)
  PROVE  IInv'
<1>1. /\ state[t] = "TASK_RUNNING" /\ pc[t] = "user" /\ state[c] = "FREE" /\ c # t
      /\ state' = [state EXCEPT ![c] = "TASK_UNINTERRUPTIBLE"]
      /\ ptrace' = [ptrace EXCEPT ![c] = ptrace[t] /\ "CLONE_PTRACE" \in clone_flags]
      /\ peer' = [peer EXCEPT ![t] = c]
      /\ pc' = [pc EXCEPT ![t] = "fork"]
      /\ UNCHANGED <<family, exit_signal, exiting, option>>
      /\ UNCHANGED <<link, p_opptr, next_thread>>
  BY DEF ForkBegin, Enter, CanRun, Goto, family
<1>2. Types /\ (\A u \in Task : Control(u) /\ Holds(u)) /\ Roots /\ Family
  BY DEF IInv
<1>3. Types'
  BY <1>1, <1>2 DEF Types, TaskStates, Ptr
<1>4. Listed' = Listed /\ Live' = Live
  <2>1. \A u \in Task : state'[u] = IF u = c THEN "TASK_UNINTERRUPTIBLE" ELSE state[u]
    BY <1>1, <1>2 DEF Types
  <2> QED BY <2>1, <1>1, SameLists
<1>5. \A u \in Task : Control(u)'
  BY <1>1, <1>2, <1>4 DEF Types, Control
<1>6. ASSUME NEW u \in Task PROVE Holds(u)'
  <2>1. \A v \in Task : peer[v] # c
    BY <1>1, <1>2, TaskAssumption DEF Holds
  <2>2. Holds(u)
    BY <1>2
  <2>3. CASE u = t
    BY <1>1, <1>2, <2>1, <2>3, TaskAssumption DEF Holds, Types
  <2>4. CASE u # t
    <3>1. pc'[u] = pc[u] /\ peer'[u] = peer[u] /\ peer[u] # c
      BY <1>1, <1>2, <2>1, <2>4 DEF Types
    <3>2. peer[u] # NoTask => peer[u] \in Task /\ state'[peer[u]] = state[peer[u]]
      BY <1>1, <1>2, <3>1 DEF Types, Ptr
    <3>3. \A s \in Task : peer'[s] = IF s = t THEN c ELSE peer[s]
      BY <1>1, <1>2 DEF Types
    <3> QED BY <1>1, <2>2, <3>1, <3>2, <3>3 DEF Holds
  <2> QED BY <2>3, <2>4
<1>7. Roots'
  BY <1>1, <1>2, <1>4 DEF Roots, Types
<1>8. Family'
  BY <1>1, <1>2, <1>4, FamilyKept
<1> QED BY <1>3, <1>5, <1>6, <1>7, <1>8 DEF IInv

LEMMA ForkFailKeeps ==
  ASSUME IInv, NEW t \in Task, ForkFail(t)
  PROVE  IInv'
<1> DEFINE c == peer[t]
<1>1. /\ state[t] = "TASK_RUNNING" /\ pc[t] = "fork"
      /\ state' = [state EXCEPT ![c] = "FREE"]
      /\ ptrace' = [ptrace EXCEPT ![c] = FALSE]
      /\ peer' = [peer EXCEPT ![t] = NoTask]
      /\ pc' = [pc EXCEPT ![t] = "user"]
      /\ UNCHANGED <<family, exit_signal, exiting, option>>
      /\ UNCHANGED <<link, p_opptr, next_thread>>
  BY DEF ForkFail, CanRun, Goto, family
<1>2. Types /\ (\A u \in Task : Control(u) /\ Holds(u)) /\ Roots /\ Family
  BY DEF IInv
<1>3. /\ c \in Task /\ state[c] = "TASK_UNINTERRUPTIBLE" /\ c # t
      /\ \A u \in Task \ {t} : peer[u] # c
  BY <1>1, <1>2 DEF Holds, Types, Ptr
<1> HIDE DEF c
<1>4. Types'
  BY <1>1, <1>2, <1>3 DEF Types, TaskStates, Ptr
<1>5. Listed' = Listed /\ Live' = Live
  <2>1. \A u \in Task : state'[u] = IF u = c THEN "FREE" ELSE state[u]
    BY <1>1, <1>2 DEF Types
  <2> QED BY <2>1, <1>3, SameLists
<1>6. \A u \in Task : Control(u)'
  BY <1>1, <1>2, <1>3, <1>5 DEF Types, Control
<1>7. ASSUME NEW u \in Task PROVE Holds(u)'
  <2>1. Holds(u)
    BY <1>2
  <2>2. CASE u = t
    BY <1>1, <1>2, <2>2 DEF Holds, Types
  <2>3. CASE u # t
    <3>1. pc'[u] = pc[u] /\ peer'[u] = peer[u] /\ peer[u] # c
      BY <1>1, <1>2, <1>3, <2>3 DEF Types
    <3>2. peer[u] # NoTask => peer[u] \in Task /\ state'[peer[u]] = state[peer[u]]
      BY <1>1, <1>2, <3>1 DEF Types, Ptr
    <3>3. \A s \in Task : peer'[s] = IF s = t THEN NoTask ELSE peer[s]
      BY <1>1, <1>2 DEF Types
    <3> QED BY <1>1, <2>1, <3>1, <3>2, <3>3 DEF Holds
  <2> QED BY <2>2, <2>3
<1>8. Roots'
  BY <1>1, <1>2, <1>3, <1>5 DEF Roots, Types
<1>9. Family'
  BY <1>1, <1>2, <1>5, FamilyKept
<1> QED BY <1>4, <1>6, <1>7, <1>8, <1>9 DEF IInv

(* A step of t that changes its own state, flags and locals only, and no family. *)
LEMMA OwnStepKeeps ==
  ASSUME IInv, NEW t \in Task, t # Swapper, UNCHANGED family, UNCHANGED <<exit_signal, ptrace>>,
         \A u \in Task \ {t} : /\ state'[u] = state[u] /\ pc'[u] = pc[u]
                               /\ peer'[u] = peer[u] /\ exiting'[u] = exiting[u],
         {state[t], state'[t]} \subseteq {"TASK_RUNNING", "TASK_INTERRUPTIBLE"},
         Types', Control(t)',
         (peer'[t] = NoTask) = (pc'[t] \notin {"fork", "reap"}),
         pc'[t] # "fork",
         pc'[t] = "reap" => /\ Reapable(t, peer'[t])
                            /\ link[peer'[t]].p_pptr = t /\ next_thread[t] = t
  PROVE  IInv'
<1>1. Types /\ (\A u \in Task : Control(u) /\ Holds(u)) /\ Roots /\ Family
  BY DEF IInv
<1>2. UNCHANGED <<link, p_opptr, next_thread>>
  BY DEF family
<1>3. Listed' = Listed /\ Live' = Live
  BY SameLists
<1>4. ASSUME NEW u \in Task PROVE Control(u)'
  <2>1. CASE u = t
    BY <2>1
  <2>2. CASE u # t
    BY <1>1, <1>2, <1>3, <2>2 DEF Control
  <2> QED BY <2>1, <2>2
<1>5. ASSUME NEW u \in Task PROVE Holds(u)'
  <2>1. Holds(u) /\ Holds(t)
    BY <1>1
  <2>2. pc'[t] = "reap" => /\ peer'[t] \in Task /\ state[peer'[t]] = "TASK_ZOMBIE"
                           /\ \A s \in Task \ {t} : peer[s] # peer'[t]
    BY DEF Reapable, Listed
  <2>3. CASE u = t
    <3>1. pc'[t] = "reap" => state'[peer'[t]] = "TASK_ZOMBIE" /\ link'[peer'[t]].p_pptr = t
      BY <1>2, <2>2
    <3>2. peer'[t] # NoTask => pc'[t] = "reap"
      OBVIOUS
    <3> QED BY <1>2, <2>2, <2>3, <3>1, <3>2 DEF Holds
  <2>4. CASE u # t
    <3>1. pc'[u] = pc[u] /\ peer'[u] = peer[u]
      BY <2>4
    <3>2. peer[u] # NoTask => peer[u] \in Task /\ state'[peer[u]] = state[peer[u]]
      <4> SUFFICES ASSUME peer[u] # NoTask
                   PROVE  peer[u] \in Task /\ state'[peer[u]] = state[peer[u]]
        OBVIOUS
      <4>1. peer[u] \in Task
        BY <1>1 DEF Types, Ptr
      <4>2. peer[u] # t
        BY <2>1 DEF Holds
      <4> QED BY <4>1, <4>2
    <3>3. \A s \in Task \ {u} : peer[u] # NoTask => peer'[s] # peer[u]
      <4> SUFFICES ASSUME NEW s \in Task \ {u}, peer[u] # NoTask, peer'[s] = peer[u] PROVE FALSE
        OBVIOUS
      <4>1. s = t
        BY <2>1 DEF Holds
      <4>2. pc'[t] = "reap"
        BY <4>1
      <4> QED BY <2>2, <2>4, <4>1, <4>2
    <3> QED BY <1>2, <2>1, <3>1, <3>2, <3>3 DEF Holds
  <2> QED BY <2>3, <2>4
<1>6. Roots'
  BY <1>1, <1>2, <1>3, TaskAssumption DEF Roots
<1>7. Family'
  BY <1>1, <1>3, FamilyKept
<1> QED BY <1>4, <1>5, <1>6, <1>7 DEF IInv

LEMMA ExitBeginKeeps ==
  ASSUME IInv, NEW t \in Task, ExitBegin(t)
  PROVE  IInv'
<1>1. /\ state[t] = "TASK_RUNNING" /\ pc[t] = "user" /\ t \in Slots /\ t # Swapper
      /\ exiting' = [exiting EXCEPT ![t] = TRUE]
      /\ pc' = [pc EXCEPT ![t] = "exit"]
      /\ UNCHANGED <<state, family, exit_signal, ptrace, option, peer>>
      /\ UNCHANGED <<link, p_opptr, next_thread>>
  BY DEF ExitBegin, Enter, CanRun, Goto, family, Slots
<1>2. Types /\ Control(t) /\ Holds(t)
  BY DEF IInv
<1>3. Types'
  BY <1>1, <1>2 DEF Types
<1>4. Control(t)'
  BY <1>1, <1>2 DEF Types, Control, Listed
<1>5. /\ pc'[t] = "exit" /\ peer'[t] = NoTask
      /\ \A u \in Task \ {t} : /\ state'[u] = state[u] /\ pc'[u] = pc[u]
                               /\ peer'[u] = peer[u] /\ exiting'[u] = exiting[u]
  BY <1>1, <1>2 DEF Types, Holds
<1> QED BY <1>1, <1>3, <1>4, <1>5, OwnStepKeeps

LEMMA WaitFaultKeeps ==
  ASSUME IInv, Faulting = {}, NEW t \in Task, NEW options, WaitFault(t, options)
  PROVE  IInv'
<1>1. /\ state[t] = "TASK_RUNNING" /\ pc[t] \in {"user", "wait"} /\ next_thread[t] = t
      /\ pc' = [pc EXCEPT ![t] = "reap"]
      /\ option' = [option EXCEPT ![t] = "normal"]
      /\ UNCHANGED <<state, family, flags>>
      /\ UNCHANGED <<link, p_opptr, next_thread, exit_signal, ptrace, exiting>>
      /\ CanRun(t) /\ t \in Listed
  BY DEF WaitFault, Scans, MayFault, CanRun, Goto, family, flags, Listed
<1>2. PICK p \in Zombies(t, options) : peer' = [peer EXCEPT ![t] = p]
  BY DEF WaitFault
<1>3. p \in Found(t) /\ p \in Task /\ p # NoTask
  BY <1>1, <1>2, ZombiesAre, TaskAssumption DEF Found, Listed
<1>4. Reapable(t, p) /\ link[p].p_pptr = t
  <2>1. Threads(t) = {t}
    BY <1>1, ThreadGroup
  <2> QED BY <1>1, <1>3, <2>1, FoundIsFree DEF Found
<1>5. Types /\ Control(t) /\ Holds(t) /\ Roots
  BY DEF IInv
<1>6. Types'
  BY <1>1, <1>2, <1>3, <1>5 DEF Types, Ptr, WaitOptions
<1>7. Control(t)'
  BY <1>1, <1>5 DEF Types, Control, Listed
<1>8. /\ pc'[t] = "reap" /\ peer'[t] = p /\ t # Swapper
      /\ \A u \in Task \ {t} : /\ state'[u] = state[u] /\ pc'[u] = pc[u]
                               /\ peer'[u] = peer[u] /\ exiting'[u] = exiting[u]
  BY <1>1, <1>2, <1>5 DEF Types, Roots
<1> QED BY <1>1, <1>3, <1>4, <1>6, <1>7, <1>8, OwnStepKeeps

LEMMA ReturnKeeps ==
  ASSUME IInv, NEW t \in Task, CanRun(t), pc[t] \in {"wait", "reap"}, Return(t),
         UNCHANGED <<state, family, flags>>
  PROVE  IInv'
<1>1. /\ state[t] = "TASK_RUNNING"
      /\ pc' = [pc EXCEPT ![t] = "user"] /\ peer' = [peer EXCEPT ![t] = NoTask]
      /\ option' = [option EXCEPT ![t] = "normal"]
      /\ UNCHANGED <<link, p_opptr, next_thread, exit_signal, ptrace, exiting>>
  BY DEF Return, CanRun, Goto, family, flags
<1>2. Types /\ Control(t) /\ Holds(t) /\ Roots
  BY DEF IInv
<1>3. Types'
  BY <1>1, <1>2 DEF Types, Ptr, WaitOptions
<1>4. Control(t)'
  BY <1>1, <1>2 DEF Types, Control, Listed
<1>5. /\ pc'[t] = "user" /\ peer'[t] = NoTask /\ t # Swapper
      /\ \A u \in Task \ {t} : /\ state'[u] = state[u] /\ pc'[u] = pc[u]
                               /\ peer'[u] = peer[u] /\ exiting'[u] = exiting[u]
  BY <1>1, <1>2 DEF Types, Roots
<1> QED BY <1>1, <1>3, <1>4, <1>5, OwnStepKeeps

LEMMA WaitSleepKeeps ==
  ASSUME IInv, NEW t \in Task, NEW options \in Options, WaitSleep(t, options)
  PROVE  IInv'
<1>1. /\ state[t] = "TASK_RUNNING" /\ pc[t] \in {"user", "wait"}
      /\ state' = [state EXCEPT ![t] = "TASK_INTERRUPTIBLE"]
      /\ pc' = [pc EXCEPT ![t] = "wait"]
      /\ option' = [option EXCEPT ![t] = options]
      /\ UNCHANGED <<family, flags, peer>>
      /\ UNCHANGED <<link, p_opptr, next_thread, exit_signal, ptrace, exiting>>
  BY DEF WaitSleep, Scans, CanRun, Goto, family, flags
<1>2. Types /\ Control(t) /\ Holds(t) /\ Roots
  BY DEF IInv
<1>3. Types'
  BY <1>1, <1>2, UseAssumption DEF Types, TaskStates, WaitOptions
<1>4. Control(t)'
  BY <1>1, <1>2 DEF Types, Control, Listed
<1>5. /\ pc'[t] = "wait" /\ peer'[t] = NoTask /\ t # Swapper /\ state'[t] = "TASK_INTERRUPTIBLE"
      /\ \A u \in Task \ {t} : /\ state'[u] = state[u] /\ pc'[u] = pc[u]
                               /\ peer'[u] = peer[u] /\ exiting'[u] = exiting[u]
  BY <1>1, <1>2 DEF Types, Roots, Holds
<1> QED BY <1>1, <1>3, <1>4, <1>5, OwnStepKeeps

LEMMA SignalKeeps ==
  ASSUME IInv, NEW t \in Task, Signal(t)
  PROVE  IInv'
<1>1. /\ state[t] = "TASK_INTERRUPTIBLE" /\ pc[t] = "wait"
      /\ state' = [state EXCEPT ![t] = "TASK_RUNNING"]
      /\ UNCHANGED <<family, flags, local>>
      /\ UNCHANGED <<link, p_opptr, next_thread, exit_signal, ptrace, exiting, pc, option, peer>>
  BY DEF Signal, Sleeping, family, flags, local
<1>2. Types /\ Control(t) /\ Holds(t) /\ Roots
  BY DEF IInv
<1>3. Types'
  BY <1>1, <1>2 DEF Types, TaskStates
<1>4. Control(t)'
  BY <1>1, <1>2 DEF Types, Control, Listed
<1>5. /\ pc'[t] = "wait" /\ peer'[t] = NoTask /\ t # Swapper /\ state'[t] = "TASK_RUNNING"
      /\ \A u \in Task \ {t} : /\ state'[u] = state[u] /\ pc'[u] = pc[u]
                               /\ peer'[u] = peer[u] /\ exiting'[u] = exiting[u]
  BY <1>1, <1>2 DEF Types, Roots, Holds
<1> QED BY <1>1, <1>3, <1>4, <1>5, OwnStepKeeps

LEMMA ParentsOf ==
  ASSUME IInv, NEW p \in Listed \ {Swapper}
  PROVE  p_opptr[p] \in Live \ {p} /\ link[p].p_pptr \in Live \ {p}
BY DEF IInv, Family, ParentsLive

(* The trees of fork and of release_task, in the model's own terms. *)
LEMMA ForkedTree ==
  ASSUME IInv, NEW p \in Task, p \notin Listed, NEW q \in Listed, link' = Forked(link, p, q)
  PROVE  /\ link' \in Links /\ Tree(link', Listed \cup {p})
         /\ \A b \in Task : link'[b].p_pptr = IF b = p THEN q ELSE link[b].p_pptr
<1>1. link \in Links /\ Tree(link, Listed) /\ Listed \in SUBSET Task
  BY DEF IInv, Types, Family, Listed
<1>2. p \in Task /\ p \notin Listed /\ q \in Listed /\ link' = Forked(link, p, q)
  OBVIOUS
<1> QED BY ONLY <1>1, <1>2, TreeForked

LEMMA ReleasedTree ==
  ASSUME IInv, NEW p \in Listed \ {Swapper}, state[p] = "TASK_ZOMBIE", link' = Released(link, p)
  PROVE  /\ link' \in Links /\ Tree(link', Listed \ {p})
         /\ \A b \in Task : b # p => link'[b].p_pptr = link[b].p_pptr
<1>1. \A b \in Listed \ {Swapper} : link[b].p_pptr # p
  BY ParentsOf DEF Live
<1>2. /\ link \in Links /\ Tree(link, Listed) /\ Listed \in SUBSET Task
      /\ p \in Listed /\ p # Swapper
  BY DEF IInv, Types, Family, Listed
<1>3. link' = Released(link, p)
  OBVIOUS
<1> QED BY ONLY <1>1, <1>2, <1>3, TreeReleased

(* A live task gets a living parent. *)
Adopted(p, q) ==
  /\ link' \in Links /\ Tree(link', Listed)
  /\ \A b \in Task : link'[b].p_pptr = IF b = p THEN q ELSE link[b].p_pptr

LEMMA MovedAdopts ==
  ASSUME IInv, NEW p \in Listed \ {Swapper}, NEW q \in Live \ {p}, link' = Moved(link, p, q)
  PROVE  Adopted(p, q)
<1>1. /\ link \in Links /\ Tree(link, Listed) /\ Listed \in SUBSET Task
      /\ p \in Listed /\ p # Swapper /\ q \in Listed /\ q # p
  BY DEF IInv, Types, Family, Listed, Live
<1> QED BY <1>1, TreeMoved DEF Adopted

LEMMA AdoptionKeeps ==
  ASSUME IInv, NEW p \in Live \ {Swapper}, NEW q \in Live \ {p}, Adopted(p, q),
         p_opptr' \in [Task -> Ptr], \A b \in Task \ {p} : p_opptr'[b] = p_opptr[b],
         p_opptr'[p] \in Live \ {p}, p = Reaper => p_opptr'[p] = Swapper,
         exit_signal' \in [Task -> ExitSignals],
         ptrace' \in [Task -> BOOLEAN], ~ ptrace'[Swapper],
         UNCHANGED <<state, next_thread, exiting, local>>
  PROVE  IInv'
<1>1. Types /\ (\A u \in Task : Control(u) /\ Holds(u)) /\ Roots /\ Family
  BY DEF IInv
<1>2. /\ UNCHANGED <<state, next_thread, exiting, pc, option, peer>>
      /\ Listed' = Listed /\ Live' = Live
      /\ p \in Listed /\ p \in Task /\ state[p] # "TASK_ZOMBIE"
  BY DEF local, Listed, Live
<1>3. Types'
  BY <1>1, <1>2 DEF Types, Adopted
<1>4. ASSUME NEW u \in Task PROVE Control(u)'
  <2>1. Control(u)
    BY <1>1
  <2>2. (p_opptr'[u] = NoTask) = (u \notin Listed)
    BY <1>2, <2>1, TaskAssumption DEF Control, Live, Listed
  <2> QED BY <1>2, <2>1, <2>2 DEF Control
<1>5. ASSUME NEW u \in Task PROVE Holds(u)'
  <2>1. Holds(u)
    BY <1>1
  <2>2. pc[u] = "reap" => link'[peer[u]].p_pptr = link[peer[u]].p_pptr
    BY <1>1, <1>2, <2>1 DEF Holds, Adopted, Types, Ptr
  <2> QED BY <1>2, <2>1, <2>2 DEF Holds
<1>6. Roots'
  BY <1>1, <1>2, TaskAssumption DEF Roots
<1>7. ParentsLive'
  <2> SUFFICES ASSUME NEW b \in Listed \ {Swapper}
               PROVE  {p_opptr'[b], link'[b].p_pptr} \subseteq Live \ {b}
    BY <1>2 DEF ParentsLive
  <2>1. b \in Task /\ {p_opptr[b], link[b].p_pptr} \subseteq Live \ {b}
    BY <1>1 DEF Family, ParentsLive, Listed
  <2> QED BY <2>1 DEF Adopted
<1>8. Family'
  <2>1. Tree(link', Listed') /\ Rings(next_thread', Listed')
    BY <1>1, <1>2 DEF Family, Adopted
  <2> QED BY <2>1, <1>7 DEF Family
<1> QED BY <1>3, <1>4, <1>5, <1>6, <1>8 DEF IInv

(* Who moves, and where to. *)
LEMMA Adopts ==
  ASSUME IInv, NEW t \in Task, NEW c \in Task, NEW q,
         \/ reparent_to_init(t) /\ c = t /\ q = Reaper
         \/ Attach(t, c) /\ q = t
         \/ Detach(t, c) /\ q = p_opptr[c]
  PROVE  c \in Live \ {Swapper} /\ q \in Live \ {c} /\ Adopted(c, q)
<1>1. Types /\ Roots /\ Family
  BY DEF IInv
<1>2. CASE reparent_to_init(t) /\ c = t /\ q = Reaper
  <2>1. state[t] = "TASK_RUNNING" /\ t \in Kernel /\ link' = Moved(link, t, Reaper)
    BY <1>2 DEF reparent_to_init, Enter, CanRun
  <2>2. t \in Live \ {Swapper} /\ t \in Listed \ {Swapper} /\ Reaper \in Live \ {t}
    BY <1>1, <2>1, UseAssumption DEF Live, Listed, Roots
  <2> QED BY <1>2, <2>1, <2>2, MovedAdopts
<1>3. CASE Attach(t, c) /\ q = t
  <2>1. /\ state[t] = "TASK_RUNNING" /\ c \in Traceable \cap Live /\ c # t
        /\ link' = IF link[c].p_pptr = t THEN link ELSE Moved(link, c, t)
    BY <1>3 DEF Attach, Enter, CanRun
  <2>2. c \in Live \ {Swapper} /\ c \in Listed \ {Swapper} /\ t \in Live \ {c}
    BY <1>1, <2>1, UseAssumption DEF Live, Listed, Roots
  <2>3. CASE link[c].p_pptr = t
    BY <1>1, <1>3, <2>1, <2>2, <2>3 DEF Adopted, Types, Family
  <2>4. CASE link[c].p_pptr # t
    BY <1>3, <2>1, <2>2, <2>4, MovedAdopts
  <2> QED BY <2>3, <2>4
<1>4. CASE Detach(t, c) /\ q = p_opptr[c]
  <2>1. c \in Live /\ ptrace[c] /\ link' = Moved(link, c, q)
    BY <1>4 DEF Detach
  <2>2. c \in Live \ {Swapper} /\ c \in Listed \ {Swapper}
    BY <1>1, <2>1 DEF Live, Roots
  <2>3. q \in Live \ {c}
    BY <1>4, <2>2, ParentsOf
  <2> QED BY <2>1, <2>2, <2>3, MovedAdopts
<1> QED BY <1>2, <1>3, <1>4

LEMMA ReparentKeeps ==
  ASSUME IInv, NEW t \in Task, reparent_to_init(t)
  PROVE  IInv'
<1>1. /\ state[t] = "TASK_RUNNING" /\ t \in Kernel
      /\ p_opptr' = [p_opptr EXCEPT ![t] = Reaper]
      /\ exit_signal' = [exit_signal EXCEPT ![t] = "SIGCHLD"]
      /\ ptrace' = [ptrace EXCEPT ![t] = FALSE]
      /\ UNCHANGED <<state, next_thread, exiting, local>>
  BY DEF reparent_to_init, Enter, CanRun
<1>2. Types /\ Roots
  BY DEF IInv
<1>3. t \in Live \ {Swapper} /\ Reaper \in Live \ {t} /\ Adopted(t, Reaper)
  BY Adopts
<1>4. /\ p_opptr' \in [Task -> Ptr] /\ \A b \in Task \ {t} : p_opptr'[b] = p_opptr[b]
      /\ p_opptr'[t] = Reaper
      /\ exit_signal' \in [Task -> ExitSignals]
      /\ ptrace' \in [Task -> BOOLEAN] /\ ~ ptrace'[Swapper]
  BY <1>1, <1>2, TaskAssumption DEF Types, Ptr, ExitSignals, Roots
<1> QED BY <1>1, <1>3, <1>4, AdoptionKeeps

LEMMA AttachKeeps ==
  ASSUME IInv, NEW t \in Task, NEW c \in Task, Attach(t, c)
  PROVE  IInv'
<1>1. /\ c \in Traceable
      /\ ptrace' = [ptrace EXCEPT ![c] = TRUE]
      /\ UNCHANGED <<state, p_opptr, next_thread, exit_signal, exiting, local>>
  BY DEF Attach
<1>2. Types /\ Roots /\ Family
  BY DEF IInv
<1>3. c \in Live \ {Swapper} /\ t \in Live \ {c} /\ Adopted(c, t)
  BY Adopts
<1>4. c # Reaper /\ c \in Listed \ {Swapper}
  BY <1>1, <1>3, UseAssumption DEF Live
<1>5. /\ p_opptr' \in [Task -> Ptr] /\ \A b \in Task \ {c} : p_opptr'[b] = p_opptr[b]
      /\ p_opptr'[c] \in Live \ {c}
      /\ exit_signal' \in [Task -> ExitSignals]
      /\ ptrace' \in [Task -> BOOLEAN] /\ ~ ptrace'[Swapper]
  BY <1>1, <1>2, <1>3, <1>4, ParentsOf, TaskAssumption DEF Types, Roots
<1> QED BY <1>1, <1>3, <1>4, <1>5, AdoptionKeeps

LEMMA DetachKeeps ==
  ASSUME IInv, NEW t \in Task, NEW c \in Task, Detach(t, c)
  PROVE  IInv'
<1>1. /\ ptrace' = [ptrace EXCEPT ![c] = FALSE]
      /\ UNCHANGED <<state, p_opptr, next_thread, exit_signal, exiting, local>>
  BY DEF Detach
<1>2. Types /\ Roots
  BY DEF IInv
<1>3. c \in Live \ {Swapper} /\ p_opptr[c] \in Live \ {c} /\ Adopted(c, p_opptr[c])
  BY Adopts
<1>4. /\ p_opptr' \in [Task -> Ptr] /\ \A b \in Task \ {c} : p_opptr'[b] = p_opptr[b]
      /\ p_opptr'[c] \in Live \ {c}
      /\ c = Reaper => p_opptr'[c] = Swapper
      /\ exit_signal' \in [Task -> ExitSignals]
      /\ ptrace' \in [Task -> BOOLEAN] /\ ~ ptrace'[Swapper]
  BY <1>1, <1>2, <1>3, TaskAssumption DEF Types, Roots
<1> QED BY <1>1, <1>3, <1>4, AdoptionKeeps

----------------------------------------------------------------------------
(* wait4 is done with a zombie. *)
LEMMA WokeLists ==
  ASSUME Woke(state, state')
  PROVE  Listed' = Listed /\ Live' = Live
<1>1. \A u \in Task : /\ (state'[u] \in {"FREE", "TASK_UNINTERRUPTIBLE"})
                           = (state[u] \in {"FREE", "TASK_UNINTERRUPTIBLE"})
                      /\ (state'[u] = "TASK_ZOMBIE") = (state[u] = "TASK_ZOMBIE")
  BY DEF Woke, Waits
<1> QED BY <1>1, SameLists

LEMMA GiveBackKeeps ==
  ASSUME IInv, NEW t \in Task, NEW p \in Task, Reapable(t, p), GiveBack(t, p), Return(t)
  PROVE  IInv'
<1> DEFINE q == p_opptr[p]
<1>1. /\ link' = Moved(link, p, q) /\ state' = Woken(state, Threads(q))
      /\ pc' = [pc EXCEPT ![t] = "user"] /\ peer' = [peer EXCEPT ![t] = NoTask]
      /\ option' = [option EXCEPT ![t] = "normal"]
      /\ UNCHANGED <<p_opptr, next_thread, exit_signal, ptrace, exiting>>
  BY DEF GiveBack, Return, Notify, Goto, flags
<1>2. Types /\ (\A u \in Task : Control(u) /\ Holds(u)) /\ Roots /\ Family
  BY DEF IInv
<1>3. /\ p \in Listed \ {Swapper} /\ state[p] = "TASK_ZOMBIE" /\ state[t] = "TASK_RUNNING"
      /\ \A s \in Task \ {t} : peer[s] # p
      /\ pc[t] \in {"user", "wait", "reap"}
  BY DEF Reapable, CanRun
<1>4. q \in Live \ {p}
  BY <1>3, ParentsOf
<1>5. Adopted(p, q)
  BY <1>1, <1>3, <1>4, MovedAdopts
<1> HIDE DEF q
<1>6. state' \in [Task -> TaskStates] /\ Woke(state, state')
  BY <1>1, <1>2, WokenWakes DEF Types
<1>7. Listed' = Listed /\ Live' = Live
  BY <1>6, WokeLists
<1>8. Types'
  BY <1>1, <1>2, <1>5, <1>6 DEF Types, Adopted, Ptr, WaitOptions
<1>9. ASSUME NEW u \in Task PROVE Control(u)'
  <2>1. Control(u)
    BY <1>2
  <2>2. pc'[u] = IF u = t THEN "user" ELSE pc[u]
    BY <1>1, <1>2 DEF Types
  <2>3. state'[u] = state[u] \/ (pc[u] = "wait" /\ state[u] = "TASK_INTERRUPTIBLE"
                                 /\ state'[u] = "TASK_RUNNING")
    BY <1>6 DEF Woke, Waits
  <2> QED BY <1>1, <1>3, <1>7, <2>1, <2>2, <2>3 DEF Control
<1>10. ASSUME NEW u \in Task PROVE Holds(u)'
  <2>1. Holds(u)
    BY <1>2
  <2>2. \A s \in Task : /\ peer'[s] = IF s = t THEN NoTask ELSE peer[s]
                        /\ pc'[s] = IF s = t THEN "user" ELSE pc[s]
    BY <1>1, <1>2 DEF Types
  <2>3. CASE u = t
    BY <2>2, <2>3 DEF Holds
  <2>4. CASE u # t
    <3>1. peer[u] # NoTask => peer[u] \in Task /\ peer[u] # p
      BY <1>2, <1>3, <2>4 DEF Types, Ptr
    <3>2. pc[u] = "fork" => state'[peer[u]] = "TASK_UNINTERRUPTIBLE"
      BY <1>6, <2>1, <3>1 DEF Holds, Woke, Waits
    <3>3. pc[u] = "reap" => /\ state'[peer[u]] = "TASK_ZOMBIE"
                            /\ link'[peer[u]].p_pptr = link[peer[u]].p_pptr
      BY <1>5, <1>6, <2>1, <3>1 DEF Holds, Woke, Waits, Adopted
    <3> QED BY <1>1, <2>1, <2>2, <2>4, <3>2, <3>3 DEF Holds
  <2> QED BY <2>3, <2>4
<1>11. Roots'
  <2>1. state'[Swapper] = "TASK_RUNNING"
    BY <1>2, <1>6, TaskAssumption DEF Roots, Woke, Waits
  <2>2. pc'[Swapper] = "none"
    BY <1>1, <1>2, <1>3, TaskAssumption DEF Roots, Types
  <2> QED BY <1>1, <1>2, <1>7, <2>1, <2>2 DEF Roots
<1>12. ParentsLive'
  <2> SUFFICES ASSUME NEW b \in Listed \ {Swapper}
               PROVE  {p_opptr[b], link'[b].p_pptr} \subseteq Live \ {b}
    BY <1>1, <1>7 DEF ParentsLive
  <2>1. b \in Task /\ {p_opptr[b], link[b].p_pptr} \subseteq Live \ {b}
    BY <1>2 DEF Family, ParentsLive, Listed
  <2> QED BY <1>4, <1>5, <2>1 DEF Adopted
<1>13. Family'
  <2>1. Tree(link', Listed') /\ Rings(next_thread', Listed')
    BY <1>1, <1>2, <1>5, <1>7 DEF Family, Adopted
  <2> QED BY <2>1, <1>12 DEF Family
<1> QED BY <1>8, <1>9, <1>10, <1>11, <1>13 DEF IInv

LEMMA ReleaseKeeps ==
  ASSUME IInv, NEW t \in Task, NEW p \in Task, Reapable(t, p), release_task(t, p), Return(t)
  PROVE  IInv'
<1>1. /\ link' = [REMOVE_LINKS(link, p) EXCEPT ![p] = NoLinks]
      /\ next_thread' = [q \in Task |-> IF q = p THEN NoTask
                                        ELSE IF next_thread[q] = p THEN next_thread[p]
                                        ELSE next_thread[q]]
      /\ p_opptr' = [p_opptr EXCEPT ![p] = NoTask]
      /\ state' = [state EXCEPT ![p] = "FREE", ![t] = "TASK_RUNNING"]
      /\ exit_signal' = [exit_signal EXCEPT ![p] = "SIGCHLD"]
      /\ exiting' = [exiting EXCEPT ![p] = FALSE]
      /\ ptrace' = [ptrace EXCEPT ![p] = FALSE]
      /\ pc' = [pc EXCEPT ![t] = "user"] /\ peer' = [peer EXCEPT ![t] = NoTask]
      /\ option' = [option EXCEPT ![t] = "normal"]
  BY DEF release_task, Return, Goto
<1>2. Types /\ (\A u \in Task : Control(u) /\ Holds(u)) /\ Roots /\ Family
  BY DEF IInv
<1>3. /\ p \in Listed \ {Swapper} /\ state[p] = "TASK_ZOMBIE" /\ state[t] = "TASK_RUNNING"
      /\ \A s \in Task \ {t} : peer[s] # p
      /\ pc[t] \in {"user", "wait", "reap"} /\ p # t /\ p \notin Live /\ p # Reaper
  BY <1>2 DEF Reapable, CanRun, Live, Roots
<1>4. \A u \in Task : /\ state'[u] = IF u = p THEN "FREE" ELSE state[u]
                      /\ pc'[u] = IF u = t THEN "user" ELSE pc[u]
                      /\ peer'[u] = IF u = t THEN NoTask ELSE peer[u]
                      /\ p_opptr'[u] = IF u = p THEN NoTask ELSE p_opptr[u]
                      /\ exiting'[u] = IF u = p THEN FALSE ELSE exiting[u]
                      /\ ptrace'[u] = IF u = p THEN FALSE ELSE ptrace[u]
  BY <1>1, <1>2, <1>3 DEF Types
<1>5. Listed' = Listed \ {p} /\ Live' = Live
  BY <1>3, <1>4 DEF Listed, Live
<1>6. /\ link' \in Links /\ Tree(link', Listed \ {p})
      /\ \A b \in Task : b # p => link'[b].p_pptr = link[b].p_pptr
  <2>1. link' = Released(link, p)
    BY <1>1 DEF Released
  <2> QED BY <1>3, <2>1, ReleasedTree
<1>7. Types'
  <2>1. next_thread' \in [Task -> Ptr]
    BY <1>1, <1>2 DEF Types, Ptr
  <2>2. state' \in [Task -> TaskStates] /\ p_opptr' \in [Task -> Ptr] /\ peer' \in [Task -> Ptr]
    BY <1>1, <1>2 DEF Types, Ptr, TaskStates
  <2>3. /\ exit_signal' \in [Task -> ExitSignals]
        /\ ptrace' \in [Task -> BOOLEAN] /\ exiting' \in [Task -> BOOLEAN]
        /\ pc' \in [Task -> {"none", "user", "fork", "exit", "wait", "reap"}]
        /\ option' \in [Task -> WaitOptions]
    BY <1>1, <1>2 DEF Types, ExitSignals, WaitOptions
  <2> QED BY <1>6, <2>1, <2>2, <2>3 DEF Types
<1>8. ASSUME NEW u \in Task PROVE Control(u)'
  <2>1. Control(u)
    BY <1>2
  <2> QED BY <1>3, <1>4, <1>5, <2>1 DEF Control
<1>9. ASSUME NEW u \in Task PROVE Holds(u)'
  <2>1. Holds(u)
    BY <1>2
  <2>2. CASE u = t
    BY <1>4, <2>2 DEF Holds
  <2>3. CASE u # t
    <3>1. peer[u] # NoTask => peer[u] \in Task /\ peer[u] # p
      BY <1>2, <1>3, <2>3 DEF Types, Ptr
    <3>2. pc[u] = "fork" => state'[peer[u]] = "TASK_UNINTERRUPTIBLE"
      BY <1>4, <2>1, <3>1 DEF Holds
    <3>3. pc[u] = "reap" => /\ state'[peer[u]] = "TASK_ZOMBIE"
                            /\ link'[peer[u]].p_pptr = link[peer[u]].p_pptr
      BY <1>4, <1>6, <2>1, <3>1 DEF Holds
    <3>4. pc[u] = "reap" => next_thread'[u] = u
      <4>1. u = p => pc[u] = "none"
        BY <1>2, <1>3 DEF Control
      <4> QED BY <1>1, <2>1, <4>1 DEF Holds
    <3> QED BY <1>4, <2>1, <2>3, <3>2, <3>3, <3>4 DEF Holds
  <2> QED BY <2>2, <2>3
<1>10. Roots'
  BY <1>2, <1>3, <1>4, <1>5, TaskAssumption DEF Roots
<1>11. ParentsLive'
  <2> SUFFICES ASSUME NEW b \in (Listed \ {p}) \ {Swapper}
               PROVE  {p_opptr'[b], link'[b].p_pptr} \subseteq Live \ {b}
    BY <1>5 DEF ParentsLive
  <2>1. b \in Task /\ {p_opptr[b], link[b].p_pptr} \subseteq Live \ {b}
    BY <1>2 DEF Family, ParentsLive, Listed
  <2> QED BY <1>4, <1>6, <2>1
<1>12. Rings(next_thread', Listed')
  <2>1. /\ next_thread \in [Task -> Ptr] /\ Rings(next_thread, Listed) /\ Listed \in SUBSET Task
        /\ p \in Listed
    BY <1>2, <1>3 DEF Types, Family, Listed
  <2>2. \A u \in Listed \ {p} : next_thread'[u] = IF next_thread[u] = p THEN next_thread[p]
                                                  ELSE next_thread[u]
    BY <1>1, <2>1
  <2> QED BY <1>5, <2>1, <2>2, RingLeave
<1>13. Family'
  BY <1>5, <1>6, <1>11, <1>12 DEF Family
<1> QED BY <1>7, <1>8, <1>9, <1>10, <1>13 DEF IInv

LEMMA ReapKeeps ==
  ASSUME IInv, NEW t \in Task, NEW p \in Task, Reapable(t, p), Reap(t, p)
  PROVE  IInv'
BY GiveBackKeeps, ReleaseKeeps DEF Reap

LEMMA WaitReapKeeps ==
  ASSUME IInv, NEW t \in Task, NEW options, WaitReap(t, options)
  PROVE  IInv'
<1>1. CanRun(t) /\ pc[t] \in {"user", "wait"} /\ t \in Listed
  BY DEF WaitReap, Scans, CanRun, Listed
<1>2. PICK p \in Zombies(t, options) : Reap(t, p)
  BY DEF WaitReap
<1>3. p \in Found(t) /\ p \in Task
  BY <1>1, <1>2, ZombiesAre DEF Found, Listed
<1> QED BY <1>1, <1>2, <1>3, FoundIsFree, ReapKeeps

LEMMA WaitEndKeeps ==
  ASSUME IInv, NEW t \in Task, WaitEnd(t)
  PROVE  IInv'
<1>1. CanRun(t) /\ pc[t] = "reap"
  BY DEF WaitEnd
<1>2. CASE Reap(t, peer[t])
  BY <1>1, <1>2, HeldIsFree, ReapKeeps
<1>3. CASE Return(t) /\ UNCHANGED <<state, family, flags>>
  BY <1>1, <1>3, ReturnKeeps
<1> QED BY <1>2, <1>3 DEF WaitEnd

LEMMA WaitReturnKeeps ==
  ASSUME IInv, NEW t \in Task, WaitReturn(t)
  PROVE  IInv'
BY ReturnKeeps DEF WaitReturn

----------------------------------------------------------------------------
(* do_fork makes the child visible. *)
LEMMA ForkEndKeeps ==
  ASSUME IInv, NEW t \in Task, NEW clone_flags, NEW signal \in Signals,
         ForkEnd(t, clone_flags, signal)
  PROVE  IInv'
<1> DEFINE p == peer[t]
           q == ChildParent(t, p, clone_flags)
           o == IF "CLONE_PARENT" \in clone_flags THEN p_opptr[t] ELSE t
<1>1. /\ state[t] = "TASK_RUNNING" /\ pc[t] = "fork"
      /\ link' = Forked(link, p, q)
      /\ p_opptr' = [p_opptr EXCEPT ![p] = o]
      /\ next_thread' = IF "CLONE_THREAD" \in clone_flags
                        THEN [next_thread EXCEPT ![p] = next_thread[t], ![t] = p]
                        ELSE [next_thread EXCEPT ![p] = p]
      /\ exit_signal' = [exit_signal EXCEPT ![p] = signal]
      /\ state' = [state EXCEPT ![p] = "TASK_RUNNING"]
      /\ pc' = [pc EXCEPT ![t] = "user", ![p] = "user"]
      /\ peer' = [peer EXCEPT ![t] = NoTask]
      /\ UNCHANGED <<ptrace, exiting, option>>
  BY DEF ForkEnd, Forked, CanRun
<1>2. Types /\ (\A u \in Task : Control(u) /\ Holds(u)) /\ Roots /\ Family
  BY DEF IInv
<1>3. /\ p \in Task /\ state[p] = "TASK_UNINTERRUPTIBLE" /\ p # t /\ p \notin Listed
      /\ \A u \in Task \ {t} : peer[u] # p
      /\ pc[p] = "none" /\ ~ exiting[p]
      /\ p # Swapper /\ p # Reaper
  BY <1>1, <1>2 DEF Holds, Types, Ptr, Control, Listed, Roots, Live
<1>4. t \in Listed \ {Swapper} /\ t \in Live
  BY <1>1, <1>2 DEF Listed, Live, Roots
<1>5. q \in Live /\ o \in Live
  BY <1>4, ParentsOf DEF ChildParent
<1> HIDE DEF p, q, o
<1>6. \A u \in Task : /\ state'[u] = IF u = p THEN "TASK_RUNNING" ELSE state[u]
                      /\ pc'[u] = IF u = t \/ u = p THEN "user" ELSE pc[u]
                      /\ peer'[u] = IF u = t THEN NoTask ELSE peer[u]
                      /\ p_opptr'[u] = IF u = p THEN o ELSE p_opptr[u]
                      /\ exiting'[u] = exiting[u]
  BY <1>1, <1>2, <1>3 DEF Types
<1>7. Listed' = Listed \cup {p} /\ Live' = Live \cup {p}
  BY <1>3, <1>6 DEF Listed, Live
<1>8. /\ link' \in Links /\ Tree(link', Listed \cup {p})
      /\ \A b \in Task : link'[b].p_pptr = IF b = p THEN q ELSE link[b].p_pptr
  <2>1. q \in Listed
    BY <1>5 DEF Live
  <2> QED BY <1>1, <1>3, <2>1, ForkedTree
<1>9. Types'
  <2>1. /\ next_thread' \in [Task -> Ptr] /\ p_opptr' \in [Task -> Ptr]
        /\ state' \in [Task -> TaskStates] /\ peer' \in [Task -> Ptr]
    BY <1>1, <1>2, <1>3, <1>5 DEF Types, Ptr, TaskStates, Live, Listed
  <2>2. /\ exit_signal' \in [Task -> ExitSignals]
        /\ ptrace' \in [Task -> BOOLEAN] /\ exiting' \in [Task -> BOOLEAN]
        /\ pc' \in [Task -> {"none", "user", "fork", "exit", "wait", "reap"}]
        /\ option' \in [Task -> WaitOptions]
    BY <1>1, <1>2, UseAssumption DEF Types
  <2> QED BY <1>8, <2>1, <2>2 DEF Types
<1>10. ASSUME NEW u \in Task PROVE Control(u)'
  <2>1. Control(u)
    BY <1>2
  <2>2. CASE u = p
    <3>1. o # NoTask
      BY <1>5, TaskAssumption DEF Live, Listed
    <3> QED BY <1>3, <1>6, <1>7, <2>2, <3>1 DEF Control
  <2>3. CASE u # p
    <3>1. u \notin Listed' <=> u \notin Listed
      BY <1>7, <2>3
    <3>2. /\ state'[u] = state[u] /\ exiting'[u] = exiting[u] /\ p_opptr'[u] = p_opptr[u]
          /\ pc'[u] = IF u = t THEN "user" ELSE pc[u]
      BY <1>6, <2>3
    <3> QED BY <1>1, <2>1, <3>1, <3>2 DEF Control
  <2> QED BY <2>2, <2>3
<1>11. ASSUME NEW u \in Task PROVE Holds(u)'
  <2>1. Holds(u) /\ Holds(p)
    BY <1>2, <1>3
  <2>2. CASE u = t
    BY <1>6, <2>2 DEF Holds
  <2>3. CASE u = p
    BY <1>3, <1>6, <2>1, <2>3 DEF Holds
  <2>4. CASE u # t /\ u # p
    <3>1. peer[u] # NoTask => peer[u] \in Task /\ peer[u] # p
      BY <1>2, <1>3, <2>4 DEF Types, Ptr
    <3>2. pc[u] = "fork" => state'[peer[u]] = "TASK_UNINTERRUPTIBLE"
      BY <1>6, <2>1, <3>1 DEF Holds
    <3>3. pc[u] = "reap" => /\ state'[peer[u]] = "TASK_ZOMBIE"
                            /\ link'[peer[u]].p_pptr = link[peer[u]].p_pptr
      BY <1>6, <1>8, <2>1, <3>1 DEF Holds
    <3>4. next_thread'[u] = next_thread[u]
      BY <1>1, <1>2, <2>4 DEF Types
    <3> QED BY <1>6, <2>1, <2>4, <3>2, <3>3, <3>4 DEF Holds
  <2> QED BY <2>2, <2>3, <2>4
<1>12. Roots'
  BY <1>1, <1>2, <1>3, <1>4, <1>6, <1>7, TaskAssumption DEF Roots
<1>13. ParentsLive'
  <2> SUFFICES ASSUME NEW b \in (Listed \cup {p}) \ {Swapper}
               PROVE  {p_opptr'[b], link'[b].p_pptr} \subseteq (Live \cup {p}) \ {b}
    BY <1>7 DEF ParentsLive
  <2>1. b \in Task
    BY <1>3 DEF Listed
  <2>2. CASE b = p
    <3>1. p \notin Live
      BY <1>3 DEF Live
    <3> QED BY <1>5, <1>6, <1>8, <2>1, <2>2, <3>1
  <2>3. CASE b # p
    <3>1. {p_opptr[b], link[b].p_pptr} \subseteq Live \ {b}
      BY <1>2, <2>3 DEF Family, ParentsLive
    <3> QED BY <1>6, <1>8, <2>1, <2>3, <3>1
  <2> QED BY <2>2, <2>3
<1>14. Rings(next_thread', Listed')
  <2>1. /\ next_thread \in [Task -> Ptr] /\ Rings(next_thread, Listed) /\ Listed \in SUBSET Task
        /\ p \in Task /\ p \notin Listed /\ t \in Listed
    BY <1>2, <1>3, <1>4 DEF Types, Family, Listed
  <2>2. CASE "CLONE_THREAD" \in clone_flags
    <3>1. next_thread' = [next_thread EXCEPT ![p] = next_thread[t], ![t] = p]
      BY <1>1, <2>2
    <3> QED BY <1>7, <2>1, <3>1, RingJoin
  <2>3. CASE "CLONE_THREAD" \notin clone_flags
    <3>1. next_thread' = [next_thread EXCEPT ![p] = p]
      BY <1>1, <2>3
    <3> QED BY <1>7, <2>1, <3>1, RingBegin
  <2> QED BY <2>2, <2>3
<1>15. Family'
  BY <1>7, <1>8, <1>13, <1>14 DEF Family
<1> QED BY <1>9, <1>10, <1>11, <1>12, <1>15 DEF IInv

----------------------------------------------------------------------------
(* exit_notify. *)

(* The original parents once t has gone: they live, and none is its own parent. *)
LEMMA NewParents ==
  ASSUME IInv, NEW t \in Task, CanRun(t), pc[t] = "exit",
         NEW parent, parent = forget_original_parent(t)
  PROVE  /\ parent \in [Task -> Ptr]
         /\ \A p \in Listed \ {Swapper} : parent[p] \in Live \ {t, p}
         /\ parent[Swapper] = Swapper /\ parent[Reaper] = Swapper
         /\ \A p \in Task \ Listed : parent[p] = NoTask
<1>1. Types /\ (\A u \in Task : Control(u)) /\ Roots /\ Rings(next_thread, Listed)
  BY DEF IInv, Family
<1>2. /\ t \in Listed /\ t # Swapper /\ t # Reaper /\ exiting[t] /\ Listed \in SUBSET Task
      /\ Reaper \in Listed /\ Swapper \in Listed
  BY <1>1, TaskAssumption DEF CanRun, Listed, Control, Slots, Roots, Live
<1> DEFINE on == [p \in Task |-> IF exiting[p] THEN next_thread[p] ELSE NoTask]
           able == {p \in Met(next_thread[t], on) : ~ exiting[p]}
<1>3. able \subseteq Live
  <2>1. next_thread[t] \in Listed /\ next_thread[t] \in Ptr /\ on \in [Task -> Ptr]
    BY <1>1, <1>2 DEF Types, Rings, Ptr
  <2>2. Closed(Listed, next_thread[t], on)
    BY <1>1, <1>2 DEF Closed, Rings
  <2>3. Met(next_thread[t], on) \subseteq Listed
    <3> HIDE DEF on
    <3> QED BY <1>2, <2>1, <2>2, MetLeast
  <2> HIDE DEF on
  <2> QED BY <1>1, <1>2, <2>3 DEF Live, Control
<1>4. NewParent(t) \in Live \ {t}
  <2>1. NewParent(t) = IF able = {} THEN Reaper ELSE CHOOSE p \in able : TRUE
    BY DEF NewParent
  <2>2. t \notin able
    BY <1>2
  <2> HIDE DEF able
  <2> QED BY <1>1, <1>2, <1>3, <2>1, <2>2 DEF Roots
<1> HIDE DEF able, on
<1>5. \A p \in Task : parent[p] = IF p \notin Orphans(t) THEN p_opptr[p]
                                  ELSE IF p = NewParent(t) THEN Reaper ELSE NewParent(t)
  BY DEF forget_original_parent
<1>6. DOMAIN parent = Task /\ parent = [p \in Task |-> parent[p]]
  BY DEF forget_original_parent
<1>7. \A p \in Task : p \in Orphans(t) <=> p \in Listed /\ p_opptr[p] = t
  BY DEF Orphans
<1>8. parent[Swapper] = Swapper /\ parent[Reaper] = Swapper
  BY <1>1, <1>2, <1>5, <1>7, TaskAssumption DEF Roots
<1>9. \A p \in Task \ Listed : parent[p] = NoTask
  BY <1>1, <1>5, <1>7 DEF Control
<1>10. ASSUME NEW p \in Listed \ {Swapper} PROVE parent[p] \in Live \ {t, p}
  <2>1. p_opptr[p] \in Live \ {p} /\ p \in Task
    BY <1>2, ParentsOf
  <2>2. CASE p \notin Orphans(t)
    BY <1>5, <1>7, <2>1, <2>2
  <2>3. CASE p \in Orphans(t)
    <3>1. p # Reaper
      BY <1>1, <1>2, <1>7, <2>3 DEF Roots
    <3> QED BY <1>1, <1>2, <1>4, <1>5, <2>1, <2>3, <3>1 DEF Roots
  <2> QED BY <2>2, <2>3
<1>11. parent \in [Task -> Ptr]
  <2>1. \A p \in Task : parent[p] \in Ptr
    BY <1>2, <1>8, <1>9, <1>10 DEF Ptr, Live
  <2> QED BY <1>6, <2>1
<1> QED BY <1>8, <1>9, <1>10, <1>11

(* What exit_notify of t does: the children of t get their original parents back, and
   whoever has a new zombie is awake.                                                *)
Notified(t) ==
  /\ link' \in Links /\ state' \in [Task -> TaskStates] /\ Tree(link', Listed)
  /\ \A b \in Listed \ {Swapper} :
       link'[b].p_pptr = IF link[b].p_pptr = t THEN p_opptr'[b] ELSE link[b].p_pptr
  /\ state'[t] = "TASK_ZOMBIE"
  /\ \A u \in Task \ {t} : \/ state'[u] = state[u]
                           \/ Waits(u, state) /\ state'[u] = "TASK_RUNNING"
  /\ \A u \in Threads(link[t].p_pptr) \cap Task : ~ Waits(u, state')
  /\ \A b \in Listed \ {Swapper} :
       link[b].p_pptr = t /\ state[b] = "TASK_ZOMBIE" =>
         \A u \in Threads(p_opptr'[b]) \cap Task : ~ Waits(u, state')

LEMMA ExitNotifies ==
  ASSUME IInv, NEW t \in Task, exit_notify(t)
  PROVE  Notified(t)
<1> DEFINE parent == forget_original_parent(t)
           dead == [state EXCEPT ![t] = "TASK_ZOMBIE"]
           told == Woken(dead, Threads(link[t].p_pptr))
           end == HandedOver(t, parent, [link |-> link, state |-> told])
<1>1. /\ CanRun(t) /\ pc[t] = "exit" /\ p_opptr' = parent
      /\ link' = end.link /\ state' = end.state
  BY DEF exit_notify, Notify
<1>2. /\ link \in Links /\ state \in [Task -> TaskStates] /\ Tree(link, Listed)
      /\ Listed \in SUBSET Task /\ t \in Listed /\ state[t] = "TASK_RUNNING"
  BY <1>1 DEF IInv, Types, Family, Listed, CanRun
<1>3. parent \in [Task -> Ptr] /\ \A b \in Listed \ {Swapper} : parent[b] \in Live \ {t, b}
  BY <1>1, NewParents
<1>4. \A b \in Listed \ {Swapper} : link[b].p_pptr = t => parent[b] \in Listed \ {t}
  BY <1>3 DEF Live
<1>5. /\ dead \in [Task -> TaskStates]
      /\ \A u \in Task : dead[u] = IF u = t THEN "TASK_ZOMBIE" ELSE state[u]
  BY <1>2 DEF TaskStates
<1> HIDE DEF dead, parent
<1>6. /\ told \in [Task -> TaskStates] /\ Woke(dead, told)
      /\ \A u \in Threads(link[t].p_pptr) \cap Task : ~ Waits(u, told)
  BY <1>5, WokenWakes
<1> HIDE DEF told
<1>7. /\ end.link \in Links /\ end.state \in [Task -> TaskStates] /\ Tree(end.link, Listed)
      /\ \A b \in Listed \ {Swapper} :
           end.link[b].p_pptr = IF link[b].p_pptr = t THEN parent[b] ELSE link[b].p_pptr
      /\ Woke(told, end.state)
      /\ \A b \in Listed \ {Swapper} :
           link[b].p_pptr = t /\ told[b] = "TASK_ZOMBIE" =>
             \A u \in Threads(parent[b]) \cap Task : ~ Waits(u, end.state)
  <2> HIDE DEF end
  <2>1. end = HandedOver(t, parent, [link |-> link, state |-> told])
    BY DEF end
  <2> QED BY ONLY <1>2, <1>3, <1>4, <1>6, <2>1, HandedOverWhole
<1> HIDE DEF end
<1>8. /\ Woke(dead, end.state)
      /\ \A u \in Task : ~ Waits(u, told) => ~ Waits(u, end.state)
      /\ \A u \in Task : (dead[u] = "TASK_ZOMBIE") = (told[u] = "TASK_ZOMBIE")
  <2>1. /\ Woke(dead, end.state)
        /\ \A u \in Task : ~ Waits(u, told) => ~ Waits(u, end.state)
    BY <1>6, <1>7, WokeAgain
  <2>2. \A u \in Task : (dead[u] = "TASK_ZOMBIE") = (told[u] = "TASK_ZOMBIE")
    BY <1>6 DEF Woke, Waits
  <2> QED BY <2>1, <2>2
<1>9. /\ state'[t] = "TASK_ZOMBIE"
      /\ \A u \in Task \ {t} : \/ state'[u] = state[u]
                               \/ Waits(u, state) /\ state'[u] = "TASK_RUNNING"
  BY <1>1, <1>5, <1>8 DEF Woke, Waits
<1>10. \A u \in Threads(link[t].p_pptr) \cap Task : ~ Waits(u, state')
  BY <1>1, <1>6, <1>8
<1>11. ASSUME NEW b \in Listed \ {Swapper}, link[b].p_pptr = t, state[b] = "TASK_ZOMBIE",
              NEW u \in Threads(p_opptr'[b]) \cap Task
       PROVE  ~ Waits(u, state')
  <2>1. told[b] = "TASK_ZOMBIE"
    BY <1>2, <1>5, <1>8, <1>11
  <2> QED BY <1>1, <1>7, <1>11, <2>1
<1> QED BY <1>1, <1>7, <1>9, <1>10, <1>11 DEF Notified

LEMMA ExitNotifyKeeps ==
  ASSUME IInv, NEW t \in Task, exit_notify(t)
  PROVE  IInv'
<1>1. /\ CanRun(t) /\ pc[t] = "exit" /\ p_opptr' = forget_original_parent(t)
      /\ pc' = [pc EXCEPT ![t] = "none"]
      /\ UNCHANGED <<next_thread, exiting, option, peer>>
  BY DEF exit_notify, Goto
<1>2. Types /\ (\A u \in Task : Control(u) /\ Holds(u)) /\ Roots /\ Family
  BY DEF IInv
<1>3. Notified(t)
  BY ExitNotifies
<1>4. /\ t \in Listed \ {Swapper} /\ t # Reaper /\ exiting[t] /\ state[t] = "TASK_RUNNING"
      /\ peer[t] = NoTask
  BY <1>1, <1>2 DEF CanRun, Listed, Control, Slots, Holds
<1>5. /\ p_opptr' \in [Task -> Ptr]
      /\ \A p \in Listed \ {Swapper} : p_opptr'[p] \in Live \ {t, p}
      /\ p_opptr'[Swapper] = Swapper /\ p_opptr'[Reaper] = Swapper
      /\ \A p \in Task \ Listed : p_opptr'[p] = NoTask
  BY <1>1, NewParents
<1>6. /\ pc'[t] = "none" /\ state'[t] = "TASK_ZOMBIE"
      /\ \A u \in Task \ {t} : /\ pc'[u] = pc[u]
                               /\ \/ state'[u] = state[u]
                                  \/ /\ pc[u] = "wait" /\ state[u] = "TASK_INTERRUPTIBLE"
                                     /\ state'[u] = "TASK_RUNNING"
  BY <1>1, <1>2, <1>3 DEF Types, Notified, Waits
<1>7. Listed' = Listed /\ Live' = Live \ {t}
  <2>1. Listed' = Listed
    BY <1>4, <1>6 DEF Listed
  <2>2. \A u \in Task \ {t} : (state'[u] = "TASK_ZOMBIE") = (state[u] = "TASK_ZOMBIE")
    BY <1>6
  <2> QED BY <1>6, <2>1, <2>2 DEF Live, Listed
<1>8. Types'
  <2>1. /\ exit_signal' \in [Task -> ExitSignals] /\ ptrace' \in [Task -> BOOLEAN]
    <3>1. ptrace' = [p \in Task |-> ptrace[p] /\ p \notin Children(t)]
      BY DEF exit_notify
    <3>2. PICK own \in {exit_signal[t], "SIGCHLD"} :
            exit_signal' = [p \in Task |-> IF p \in Orphans(t) THEN "SIGCHLD"
                                           ELSE IF p = t THEN own ELSE exit_signal[p]]
      BY DEF exit_notify
    <3>3. own \in ExitSignals
      BY <1>2 DEF Types, ExitSignals
    <3> QED BY <1>2, <3>1, <3>2, <3>3 DEF Types, ExitSignals
  <2>2. pc' \in [Task -> {"none", "user", "fork", "exit", "wait", "reap"}]
    BY <1>1, <1>2 DEF Types
  <2> QED BY <1>1, <1>2, <1>3, <1>5, <2>1, <2>2 DEF Types, Notified
<1>9. ASSUME NEW u \in Task PROVE Control(u)'
  <2>1. Control(u)
    BY <1>2
  <2>2. (p_opptr'[u] = NoTask) = (u \notin Listed)
    <3>1. CASE u \in Listed
      BY <1>5, <3>1, TaskAssumption DEF Live, Listed
    <3>2. CASE u \notin Listed
      BY <1>5, <3>2
    <3> QED BY <3>1, <3>2
  <2>3. CASE u = t
    BY <1>1, <1>4, <1>6, <1>7, <2>2, <2>3 DEF Control
  <2>4. CASE u # t
    BY <1>1, <1>6, <1>7, <2>1, <2>2, <2>4 DEF Control
  <2> QED BY <2>3, <2>4
<1>10. ASSUME NEW u \in Task PROVE Holds(u)'
  <2>1. Holds(u)
    BY <1>2
  <2>2. CASE u = t
    BY <1>1, <1>4, <1>6, <2>2 DEF Holds
  <2>3. CASE u # t
    <3>1. pc'[u] = pc[u] /\ peer'[u] = peer[u] /\ next_thread'[u] = next_thread[u]
      BY <1>1, <1>6, <2>3
    <3>2. peer[u] # NoTask => peer[u] \in Task
      BY <1>2 DEF Types, Ptr
    <3>3. pc[u] = "fork" => state'[peer[u]] = "TASK_UNINTERRUPTIBLE"
      BY <1>4, <1>6, <2>1, <3>2 DEF Holds
    <3>4. pc[u] = "reap" => state'[peer[u]] = "TASK_ZOMBIE"
      BY <1>4, <1>6, <2>1, <3>2 DEF Holds
    <3>5. pc[u] = "reap" => link'[peer[u]].p_pptr = u
      <4> SUFFICES ASSUME pc[u] = "reap" PROVE link'[peer[u]].p_pptr = u
        OBVIOUS
      <4>1. /\ peer[u] \in Task /\ state[peer[u]] = "TASK_ZOMBIE" /\ link[peer[u]].p_pptr = u
        BY <2>1, <3>2 DEF Holds
      <4>2. peer[u] \in Listed \ {Swapper}
        BY <1>2, <4>1 DEF Roots, Listed
      <4> QED BY <1>3, <2>3, <4>1, <4>2 DEF Notified
    <3> QED BY <1>1, <2>1, <3>1, <3>3, <3>4, <3>5 DEF Holds
  <2> QED BY <2>2, <2>3
<1>11. Roots'
  <2>1. ~ ptrace'[Swapper]
    BY <1>2, TaskAssumption DEF Roots, exit_notify
  <2> QED BY <1>1, <1>2, <1>4, <1>5, <1>6, <1>7, <2>1, TaskAssumption DEF Roots
<1>12. ParentsLive'
  <2> SUFFICES ASSUME NEW b \in Listed \ {Swapper}
               PROVE  {p_opptr'[b], link'[b].p_pptr} \subseteq (Live \ {t}) \ {b}
    BY <1>7 DEF ParentsLive
  <2>1. p_opptr'[b] \in Live \ {t, b} /\ link[b].p_pptr \in Live \ {b}
    BY <1>5, ParentsOf
  <2>2. link'[b].p_pptr = IF link[b].p_pptr = t THEN p_opptr'[b] ELSE link[b].p_pptr
    BY <1>3 DEF Notified
  <2> QED BY <2>1, <2>2
<1>13. Family'
  <2>1. Tree(link', Listed') /\ Rings(next_thread', Listed')
    BY <1>1, <1>2, <1>3, <1>7 DEF Family, Notified
  <2> QED BY <2>1, <1>12 DEF Family
<1> QED BY <1>8, <1>9, <1>10, <1>11, <1>13 DEF IInv

----------------------------------------------------------------------------
(* The beginning, and every step. *)
LEMMA InitHolds ==
  ASSUME Init
  PROVE  IInv
<1> DEFINE new == [NoLinks EXCEPT !.next_task = Swapper, !.prev_task = Swapper,
                                  !.p_pptr = Swapper]
           L == [[t \in Task |-> NoLinks] EXCEPT ![Swapper] = new]
<1>1. /\ \A t \in Task : state[t] = IF t \in Slots THEN "FREE" ELSE "TASK_RUNNING"
      /\ \A t \in Task : pc[t] = IF t = Reaper THEN "user" ELSE "none"
      /\ \A t \in Task : p_opptr[t] = IF t \in Slots THEN NoTask ELSE Swapper
      /\ \A t \in Task : next_thread[t] = IF t \in Slots THEN NoTask ELSE t
      /\ \A t \in Task : exiting[t] = FALSE /\ ptrace[t] = FALSE /\ peer[t] = NoTask
  BY DEF Init
<1>2. /\ Swapper \in Task /\ Reaper \in Task /\ Swapper # Reaper /\ NoTask \notin Task
      /\ Swapper # NoTask
  BY TaskAssumption
<1>3. Listed = {Swapper, Reaper} /\ Live = {Swapper, Reaper}
  BY <1>1, <1>2 DEF Listed, Live, Slots
<1>4. NoLinks \in [Fields -> Ptr] /\ \A field \in Fields : NoLinks[field] = NoTask
  BY DEF NoLinks, Ptr
<1>5. /\ new \in [Fields -> Ptr]
      /\ new.next_task = Swapper /\ new.prev_task = Swapper /\ new.p_pptr = Swapper
      /\ new.p_cptr = NoTask
  BY <1>2, <1>4 DEF Fields, Ptr
<1>6. link = Forked(L, Reaper, Swapper)
  <2>1. link = SET_LINKS([[t \in Task |-> NoLinks] EXCEPT ![Swapper] = new,
                                                          ![Reaper].p_pptr = Swapper], Reaper)
    BY Zenon DEF Init
  <2> HIDE DEF new
  <2>2. [[t \in Task |-> NoLinks] EXCEPT ![Swapper] = new, ![Reaper].p_pptr = Swapper]
          = [L EXCEPT ![Reaper] = [NoLinks EXCEPT !.p_pptr = Swapper]]
    <3>1. L \in [Task -> [Fields -> Ptr]] /\ L[Reaper] = NoLinks
      BY <1>2, <1>4, <1>5
    <3> HIDE DEF L
    <3>2. [L EXCEPT ![Reaper].p_pptr = Swapper]
            = [L EXCEPT ![Reaper] = [NoLinks EXCEPT !.p_pptr = Swapper]]
      BY <1>2, <3>1
    <3> QED BY <3>2 DEF L
  <2> QED BY <2>1, <2>2 DEF Forked
<1> HIDE DEF new
<1>7. L \in Links /\ L[Swapper] = new
  BY <1>2, <1>4, <1>5 DEF Links
<1> HIDE DEF L
<1>8. Tree(L, {Swapper})
  <2>1. Ring(L, {Swapper})
    BY <1>2, <1>5, <1>7 DEF Ring
  <2>2. Sib(L, {Swapper}, {}, {})
    BY <1>2, <1>5, <1>7 DEF Sib, Whole, Kids
  <2>3. {Swapper} \ {Swapper} = {}
    OBVIOUS
  <2> QED BY <2>1, <2>2, <2>3 DEF Tree
<1>9. /\ link \in Links /\ Tree(link, Listed)
      /\ \A b \in Task : link[b].p_pptr = IF b = Reaper THEN Swapper ELSE L[b].p_pptr
  <2>1. \A M : M = Forked(L, Reaper, Swapper) =>
          /\ M \in Links /\ Tree(M, {Swapper} \cup {Reaper})
          /\ \A b \in Task : M[b].p_pptr = IF b = Reaper THEN Swapper ELSE L[b].p_pptr
    <3>1. L \in Links /\ Tree(L, {Swapper})
      BY <1>7, <1>8
    <3>2. /\ {Swapper} \in SUBSET Task /\ Reaper \in Task /\ Reaper \notin {Swapper}
          /\ Swapper \in {Swapper}
      BY <1>2
    <3> QED BY ONLY <3>1, <3>2, TreeForked
  <2>2. {Swapper} \cup {Reaper} = Listed
    BY <1>3
  <2> QED BY <1>6, <2>1, <2>2
<1>10. Types
  BY <1>2, <1>9 DEF Init, Types, TaskStates, ExitSignals, WaitOptions, Ptr, Slots
<1>11. \A t \in Task : Control(t) /\ Holds(t)
  BY <1>1, <1>2, <1>3 DEF Control, Holds, Slots
<1>12. Roots
  BY <1>1, <1>2, <1>3 DEF Roots, Slots
<1>13. Rings(next_thread, Listed)
  <2>1. \A t \in Listed : next_thread[t] = t
    BY <1>1, <1>2, <1>3 DEF Slots
  <2> QED BY <2>1 DEF Rings
<1>14. ParentsLive
  BY <1>1, <1>2, <1>3, <1>9 DEF ParentsLive, Slots
<1> QED BY <1>9, <1>10, <1>11, <1>12, <1>13, <1>14 DEF IInv, Family

LEMMA StepKeeps ==
  ASSUME IInv, Faulting = {}, [Next]_vars
  PROVE  IInv'
<1>1. CASE UNCHANGED vars
  <2>1. UNCHANGED <<state, link, p_opptr, next_thread, exit_signal, ptrace, exiting, pc, option,
                    peer>>
    BY <1>1 DEF vars, family, flags, local
  <2>2. Listed' = Listed /\ Live' = Live
    BY <2>1 DEF Listed, Live
  <2>3. Types' /\ \A t \in Task : Control(t)' /\ Holds(t)'
    BY <2>1, <2>2 DEF IInv, Types, Control, Holds
  <2>4. Roots' /\ Family'
    BY <2>1, <2>2, FamilyKept DEF IInv, Roots, family
  <2> QED BY <2>3, <2>4 DEF IInv
<1>2. CASE Next
  <2>1. PICK t \in Task : Step(t)
    BY <1>2 DEF Next
  <2>2. ASSUME NEW clone_flags \in Flags, NEW c \in Task, ForkBegin(t, c, clone_flags) PROVE IInv'
    BY <2>2, ForkBeginKeeps
  <2>3. ASSUME NEW clone_flags \in Flags, NEW signal \in Signals, ForkEnd(t, clone_flags, signal)
        PROVE IInv'
    BY <2>3, ForkEndKeeps
  <2>4. CASE ForkFail(t)
    BY <2>4, ForkFailKeeps
  <2>5. CASE ExitBegin(t)
    BY <2>5, ExitBeginKeeps
  <2>6. CASE exit_notify(t)
    BY <2>6, ExitNotifyKeeps
  <2>7. CASE reparent_to_init(t)
    BY <2>7, ReparentKeeps
  <2>8. ASSUME NEW options \in Options, WaitReap(t, options) PROVE IInv'
    BY <2>8, WaitReapKeeps
  <2>9. ASSUME NEW options \in Options, WaitFault(t, options) PROVE IInv'
    BY <2>9, WaitFaultKeeps
  <2>10. ASSUME NEW options \in Options, WaitSleep(t, options) PROVE IInv'
    BY <2>10, WaitSleepKeeps
  <2>11. CASE WaitEnd(t)
    BY <2>11, WaitEndKeeps
  <2>12. CASE WaitReturn(t)
    BY <2>12, WaitReturnKeeps
  <2>13. CASE Signal(t)
    BY <2>13, SignalKeeps
  <2>14. ASSUME NEW c \in Task, Attach(t, c) PROVE IInv'
    BY <2>14, AttachKeeps
  <2>15. ASSUME NEW c \in Task, Detach(t, c) PROVE IInv'
    BY <2>15, DetachKeeps
  <2> QED BY <2>1, <2>2, <2>3, <2>4, <2>5, <2>6, <2>7, <2>8, <2>9, <2>10, <2>11, <2>12, <2>13,
             <2>14, <2>15 DEF Step
<1> QED BY <1>1, <1>2

(* Where put_user does not sleep in a task with threads, the invariant holds throughout. *)
THEOREM FamilyInvariant ==
  ASSUME Faulting = {}
  PROVE  Spec => []IInv
<1>1. Init => IInv
  BY InitHolds
<1>2. IInv /\ [Next]_vars => IInv'
  BY StepKeeps
<1> QED BY <1>1, <1>2, PTL DEF Spec

(* The values have their types, whatever the calls and in whatever order. *)
THEOREM TypeCorrect ==
  ASSUME Faulting = {}
  PROVE  Spec => []TypeOK
<1>1. IInv => TypeOK
  BY DEF IInv, Types, Control, Holds, TypeOK, TaskStates, Links, Ptr
<1> QED BY FamilyInvariant, <1>1, PTL

(* for_each_task meets every linked task, and prev_task leads back. *)
THEOREM TaskListIsWhole ==
  ASSUME Faulting = {}
  PROVE  Spec => []TaskListWhole
<1>1. IInv => TaskListWhole
  <2> SUFFICES ASSUME IInv PROVE TaskListWhole
    OBVIOUS
  <2>1. link \in Links /\ Ring(link, Listed) /\ Listed \in SUBSET Task
    BY DEF IInv, Types, Family, Tree, Listed
  <2>2. Met(Swapper, [p \in Task |-> link[p].next_task]) = Listed
    BY <2>1, RingMet
  <2> QED BY <2>1, <2>2 DEF TaskListWhole, Ring
<1> QED BY FamilyInvariant, <1>1, PTL

(* The list that wait4 and exit_notify walk from p_cptr is the set of the tasks whose
   p_pptr points back, and p_ysptr inverts p_osptr.                                  *)
THEOREM SiblingsAreRight ==
  ASSUME Faulting = {}
  PROVE  Spec => []SiblingsAgree
<1>1. IInv => SiblingsAgree
  <2> SUFFICES ASSUME IInv, NEW q \in Listed
               PROVE  /\ Children(q) = {p \in Listed \ {Swapper} : link[p].p_pptr = q}
                      /\ \A p \in Children(q) :
                           /\ (link[p].p_ysptr = NoTask) = (link[q].p_cptr = p)
                           /\ link[p].p_osptr # NoTask => link[link[p].p_osptr].p_ysptr = p
    BY DEF SiblingsAgree
  <2>1. Children(q) = {p \in Listed \ {Swapper} : link[p].p_pptr = q}
    BY ChildrenAre
  <2>2. ASSUME NEW p \in Children(q)
        PROVE  /\ (link[p].p_ysptr = NoTask) = (link[q].p_cptr = p)
               /\ link[p].p_osptr # NoTask => link[link[p].p_osptr].p_ysptr = p
    <3>1. InList(link, Listed \ {Swapper}, {}, p) /\ link[p].p_pptr = q
      BY <2>1 DEF IInv, Family, Tree, Sib
    <3>2. NoTask \notin Listed
      BY TaskAssumption DEF Listed
    <3> QED BY <3>1, <3>2 DEF InList
  <2> QED BY <2>1, <2>2
<1> QED BY FamilyInvariant, <1>1, PTL

(* Parents, original and current, are alive: exit_notify and forget_original_parent leave
   no child to a task that has announced its death, nor to itself.                     *)
THEOREM ParentsAreLive ==
  ASSUME Faulting = {}
  PROVE  Spec => []ParentsLive
<1>1. IInv => ParentsLive
  BY DEF IInv, Family
<1> QED BY FamilyInvariant, <1>1, PTL

(* The zombie that wait4 releases after its put_user has slept is still a zombie, still
   a child of the caller, and nobody else's to release.                                *)
THEOREM ReapedOnlyOnce ==
  ASSUME Faulting = {}
  PROVE  Spec => []ReapedOnce
<1>1. IInv => ReapedOnce
  <2> SUFFICES ASSUME IInv, NEW t \in Task, pc[t] = "reap"
               PROVE  /\ state[peer[t]] = "TASK_ZOMBIE"
                      /\ link[peer[t]].p_pptr \in Threads(t)
                      /\ \A s \in Task \ {t} : peer[s] # peer[t]
    BY DEF ReapedOnce
  <2>1. Holds(t) /\ Control(t)
    BY DEF IInv
  <2>2. t \in Listed
    BY <2>1 DEF Control, Listed
  <2> QED BY <2>1, <2>2, ThreadGroup DEF Holds
<1> QED BY FamilyInvariant, <1>1, PTL

----------------------------------------------------------------------------
(* No exit is missed.  What a sleeper could find after a step it could find before. *)
LEMMA NoNews ==
  ASSUME IInv, IInv', NEW t \in Task, Sleeping(t), Sleeping(t)',
         \A b \in Task : state'[b] = "TASK_ZOMBIE" =>
           state[b] = "TASK_ZOMBIE" /\ link'[b].p_pptr = link[b].p_pptr,
         Threads(t)' \cap Listed \subseteq Threads(t)
  PROVE  Found(t)' \subseteq Found(t)
<1> SUFFICES ASSUME NEW p \in Found(t)' PROVE p \in Found(t)
  OBVIOUS
<1>1. /\ p \in Listed' \ {Swapper} /\ p \in Task /\ state'[p] = "TASK_ZOMBIE"
      /\ link'[p].p_pptr \in Threads(t)'
  BY DEF Found, Listed
<1>2. p \in Listed \ {Swapper} /\ state[p] = "TASK_ZOMBIE" /\ link'[p].p_pptr = link[p].p_pptr
  BY <1>1 DEF Listed
<1>3. link[p].p_pptr \in Listed
  BY <1>2, ParentsOf DEF Live
<1> QED BY <1>1, <1>2, <1>3 DEF Found

(* The threads of a sleeper after fork and after release_task. *)
LEMMA ThreadsAfterFork ==
  ASSUME IInv, IInv', NEW x \in Task, NEW clone_flags, NEW signal \in Signals,
         ForkEnd(x, clone_flags, signal), NEW t \in Listed, t \in Listed'
  PROVE  Threads(t)' \cap Listed \subseteq Threads(t)
<1> DEFINE p == peer[x]
<1>1. /\ next_thread' = IF "CLONE_THREAD" \in clone_flags
                        THEN [next_thread EXCEPT ![p] = next_thread[x], ![x] = p]
                        ELSE [next_thread EXCEPT ![p] = p]
      /\ CanRun(x) /\ pc[x] = "fork"
  BY DEF ForkEnd
<1>2. p \in Task /\ p \notin Listed /\ x \in Listed
  BY <1>1 DEF IInv, Holds, Types, Ptr, CanRun, Listed
<1> HIDE DEF p
<1>3. /\ next_thread \in [Task -> Ptr] /\ Rings(next_thread, Listed) /\ Listed \in SUBSET Task
      /\ next_thread' \in [Task -> Ptr] /\ Rings(next_thread', Listed') /\ Listed' \in SUBSET Task
      /\ Threads(t) = Met(t, next_thread) /\ Threads(t)' = Met(t, next_thread')
  BY DEF IInv, Types, Family, Listed, Threads
<1>4. \A u \in Listed : next_thread'[u] = IF u = x /\ "CLONE_THREAD" \in clone_flags THEN p
                                          ELSE next_thread[u]
  BY <1>1, <1>2, <1>3
<1>5. /\ Threads(t) \in SUBSET Listed /\ t \in Threads(t)
      /\ \A u \in Threads(t) : next_thread[u] \in Threads(t)
  BY <1>3, RingWalk
<1>6. \A X \in SUBSET Task :
        t \in X /\ (\A u \in X : next_thread'[u] \in X) => Threads(t)' \subseteq X
  BY <1>3, RingWalk
<1>7. CASE x \in Threads(t) /\ "CLONE_THREAD" \in clone_flags
  <2>1. next_thread'[p] = next_thread[x]
    BY <1>1, <1>2, <1>3, <1>7
  <2>2. \A u \in Threads(t) \cup {p} : next_thread'[u] \in Threads(t) \cup {p}
    BY <1>4, <1>5, <1>7, <2>1
  <2>3. Threads(t)' \subseteq Threads(t) \cup {p}
    BY <1>2, <1>3, <1>5, <1>6, <2>2
  <2> QED BY <1>2, <2>3
<1>8. CASE ~ (x \in Threads(t) /\ "CLONE_THREAD" \in clone_flags)
  <2>1. \A u \in Threads(t) : next_thread'[u] \in Threads(t)
    BY <1>4, <1>5, <1>8
  <2> QED BY <1>3, <1>5, <1>6, <2>1
<1> QED BY <1>7, <1>8

LEMMA ThreadsAfterRelease ==
  ASSUME IInv, IInv', NEW x \in Task, NEW p \in Task, release_task(x, p), NEW t \in Listed,
         t \in Listed'
  PROVE  Threads(t)' \cap Listed \subseteq Threads(t)
<1>1. /\ next_thread' = [q \in Task |-> IF q = p THEN NoTask
                                        ELSE IF next_thread[q] = p THEN next_thread[p]
                                        ELSE next_thread[q]]
      /\ p_opptr' = [p_opptr EXCEPT ![p] = NoTask]
  BY DEF release_task
<1>2. p \notin Listed'
  <2>1. p_opptr'[p] = NoTask
    BY <1>1 DEF IInv, Types
  <2> QED BY <2>1 DEF IInv, Control
<1>3. /\ next_thread \in [Task -> Ptr] /\ Rings(next_thread, Listed) /\ Listed \in SUBSET Task
      /\ next_thread' \in [Task -> Ptr] /\ Rings(next_thread', Listed') /\ Listed' \in SUBSET Task
      /\ Threads(t) = Met(t, next_thread) /\ Threads(t)' = Met(t, next_thread')
  BY DEF IInv, Types, Family, Listed, Threads
<1>4. /\ Threads(t) \in SUBSET Listed /\ t \in Threads(t)
      /\ \A u \in Threads(t) : next_thread[u] \in Threads(t)
  BY <1>3, RingWalk
<1>5. /\ Threads(t)' \in SUBSET Listed' /\ t \in Threads(t)'
      /\ \A u \in Threads(t)' : next_thread'[u] \in Threads(t)'
      /\ \A X \in SUBSET Task :
           t \in X /\ (\A u \in X : next_thread'[u] \in X) => Threads(t)' \subseteq X
  BY <1>3, RingWalk
<1>6. \A u \in Threads(t) \cap Threads(t)' : next_thread'[u] \in Threads(t) \cap Threads(t)'
  <2> SUFFICES ASSUME NEW u \in Threads(t) \cap Threads(t)' PROVE next_thread'[u] \in Threads(t)
    BY <1>5
  <2>1. u # p /\ u \in Task
    BY <1>2, <1>3, <1>5
  <2>2. next_thread'[u] = IF next_thread[u] = p THEN next_thread[p] ELSE next_thread[u]
    BY <1>1, <2>1
  <2> QED BY <1>4, <2>2
<1>7. Threads(t)' \subseteq Threads(t) \cap Threads(t)'
  BY <1>3, <1>4, <1>5, <1>6
<1> QED BY <1>7

(* t sleeps through the step, and no zombie comes to it. *)
SleepsOn(t) == Sleeping(t) /\ option'[t] = option[t] /\ Found(t)' \subseteq Found(t)

LEMMA SameThreads ==
  ASSUME UNCHANGED next_thread, NEW t
  PROVE  Threads(t)' = Threads(t)
BY DEF Threads

(* Steps that leave the zombies, their parents and the rings alone. *)
LEMMA SleepsQuietly ==
  ASSUME IInv, IInv', NEW t \in Task, Sleeping(t)',
         state'[t] = "TASK_INTERRUPTIBLE" /\ pc'[t] = "wait" =>
           state[t] = "TASK_INTERRUPTIBLE" /\ pc[t] = "wait" /\ option'[t] = option[t],
         \A b \in Task : state'[b] = "TASK_ZOMBIE" =>
           state[b] = "TASK_ZOMBIE" /\ link'[b].p_pptr = link[b].p_pptr,
         UNCHANGED next_thread
  PROVE  SleepsOn(t)
<1>1. Sleeping(t) /\ option'[t] = option[t]
  BY DEF Sleeping
<1>2. Threads(t)' \cap Listed \subseteq Threads(t)
  BY SameThreads
<1> QED BY <1>1, <1>2, NoNews DEF SleepsOn

LEMMA ForkSleeps ==
  ASSUME IInv, IInv', NEW x \in Task, NEW clone_flags, NEW t \in Task, Sleeping(t)',
         \/ \E c \in Task : ForkBegin(x, c, clone_flags)
         \/ \E signal \in Signals : ForkEnd(x, clone_flags, signal)
         \/ ForkFail(x)
  PROVE  SleepsOn(t)
<1>1. Types /\ Holds(x)
  BY DEF IInv
<1>2. ASSUME NEW c \in Task, ForkBegin(x, c, clone_flags) PROVE SleepsOn(t)
  <2>1. /\ state' = [state EXCEPT ![c] = "TASK_UNINTERRUPTIBLE"] /\ pc' = [pc EXCEPT ![x] = "fork"]
        /\ UNCHANGED <<link, next_thread, option>>
    BY <1>2 DEF ForkBegin, Goto, family
  <2>2. \A u \in Task : /\ state'[u] = IF u = c THEN "TASK_UNINTERRUPTIBLE" ELSE state[u]
                        /\ pc'[u] = IF u = x THEN "fork" ELSE pc[u]
    BY <1>1, <2>1 DEF Types
  <2> QED BY <2>1, <2>2, SleepsQuietly
<1>3. CASE ForkFail(x)
  <2>1. /\ state' = [state EXCEPT ![peer[x]] = "FREE"] /\ pc' = [pc EXCEPT ![x] = "user"]
        /\ UNCHANGED <<link, next_thread, option>>
    BY <1>3 DEF ForkFail, Goto, family
  <2>2. \A u \in Task : /\ state'[u] = IF u = peer[x] THEN "FREE" ELSE state[u]
                        /\ pc'[u] = IF u = x THEN "user" ELSE pc[u]
    BY <1>1, <2>1 DEF Types
  <2> QED BY <2>1, <2>2, SleepsQuietly
<1>4. ASSUME NEW signal \in Signals, ForkEnd(x, clone_flags, signal) PROVE SleepsOn(t)
  <2> DEFINE p == peer[x]
             q == ChildParent(x, p, clone_flags)
  <2>1. /\ link' = Forked(link, p, q) /\ pc[x] = "fork" /\ state[x] = "TASK_RUNNING"
        /\ state' = [state EXCEPT ![p] = "TASK_RUNNING"]
        /\ pc' = [pc EXCEPT ![x] = "user", ![p] = "user"]
        /\ UNCHANGED option
    BY <1>4 DEF ForkEnd, Forked, CanRun
  <2>2. p \in Task /\ p \notin Listed /\ x \in Listed \ {Swapper} /\ x \in Live
    BY <1>1, <2>1 DEF IInv, Types, Ptr, Holds, Listed, Live, Roots
  <2>3. q \in Listed
    BY <2>2, ParentsOf DEF ChildParent, Live
  <2> HIDE DEF p, q
  <2>4. \A b \in Task : link'[b].p_pptr = IF b = p THEN q ELSE link[b].p_pptr
    BY <2>1, <2>2, <2>3, ForkedTree
  <2>5. \A u \in Task : /\ state'[u] = IF u = p THEN "TASK_RUNNING" ELSE state[u]
                        /\ pc'[u] = IF u = p \/ u = x THEN "user" ELSE pc[u]
    BY <1>1, <2>1 DEF Types
  <2>6. Sleeping(t) /\ option'[t] = option[t]
    BY <2>1, <2>5 DEF Sleeping
  <2>7. t \in Listed /\ t \in Listed'
    BY <2>6 DEF Sleeping, Listed
  <2>8. Threads(t)' \cap Listed \subseteq Threads(t)
    BY <1>4, <2>7, ThreadsAfterFork
  <2>9. \A b \in Task : state'[b] = "TASK_ZOMBIE" =>
          state[b] = "TASK_ZOMBIE" /\ link'[b].p_pptr = link[b].p_pptr
    BY <2>4, <2>5
  <2> QED BY <2>6, <2>8, <2>9, NoNews DEF SleepsOn
<1> QED BY <1>2, <1>3, <1>4

LEMMA MoveSleeps ==
  ASSUME IInv, IInv', NEW x \in Task, NEW t \in Task, Sleeping(t)',
         reparent_to_init(x) \/ \E c \in Task : Attach(x, c) \/ Detach(x, c)
  PROVE  SleepsOn(t)
<1>1. PICK c \in Task : \/ reparent_to_init(x) /\ c = x
                        \/ Attach(x, c)
                        \/ Detach(x, c)
  OBVIOUS
<1>2. \E q : c \in Live /\ Adopted(c, q)
  BY <1>1, Adopts
<1>3. UNCHANGED <<state, next_thread, pc, option>>
  BY <1>1 DEF reparent_to_init, Attach, Detach, local
<1>4. \A b \in Task : state'[b] = "TASK_ZOMBIE" =>
        state[b] = "TASK_ZOMBIE" /\ link'[b].p_pptr = link[b].p_pptr
  BY <1>2, <1>3 DEF Live, Adopted
<1> QED BY <1>3, <1>4, SleepsQuietly

(* A zombie that goes back to its parent wakes the parent's threads. *)
LEMMA ReapSleeps ==
  ASSUME IInv, IInv', NEW x \in Task, NEW p \in Task, Reapable(x, p), Reap(x, p),
         NEW t \in Task, Sleeping(t)'
  PROVE  SleepsOn(t)
<1>1. /\ Types /\ p \in Listed \ {Swapper} /\ state[p] = "TASK_ZOMBIE"
      /\ state[x] = "TASK_RUNNING" /\ Listed \in SUBSET Task
  BY DEF IInv, Reapable, CanRun, Listed
<1>2. /\ pc' = [pc EXCEPT ![x] = "user"] /\ option' = [option EXCEPT ![x] = "normal"]
  BY DEF Reap, Return, Goto
<1>3. t # x /\ pc'[t] = pc[t] /\ option'[t] = option[t]
  BY <1>1, <1>2 DEF Types, Sleeping
<1>4. CASE GiveBack(x, p)
  <2> DEFINE q == p_opptr[p]
  <2>1. /\ link' = Moved(link, p, q) /\ state' = Woken(state, Threads(q)) /\ UNCHANGED next_thread
    BY <1>4 DEF GiveBack, Notify
  <2>2. q \in Live \ {p} /\ q \in Listed
    BY <1>1, ParentsOf DEF Live
  <2>3. Adopted(p, q)
    BY <1>1, <2>1, <2>2, MovedAdopts
  <2> HIDE DEF q
  <2>4. Woke(state, state') /\ \A u \in Threads(q) \cap Task : ~ Waits(u, state')
    BY <1>1, <2>1, WokenWakes DEF Types
  <2>5. Sleeping(t)
    BY <1>3, <2>4 DEF Sleeping, Woke, Waits
  <2>6. t \notin Threads(q)
    BY <1>3, <2>4 DEF Sleeping, Waits
  <2>7. t \in Listed
    BY <2>5 DEF Sleeping, Listed
  <2>8. ASSUME NEW b \in Found(t)' PROVE b \in Found(t)
    <3>1. /\ b \in Task /\ b \in Listed' \ {Swapper} /\ state'[b] = "TASK_ZOMBIE"
          /\ link'[b].p_pptr \in Threads(t)
      BY <2>1, <2>8, SameThreads DEF Found, Listed
    <3>2. state[b] = "TASK_ZOMBIE" /\ b \in Listed \ {Swapper}
      BY <2>4, <3>1 DEF Woke, Waits, Listed
    <3>3. q \notin Threads(t)
      BY <2>6, <2>7, ThreadGroup
    <3> QED BY <2>3, <3>1, <3>2, <3>3 DEF Found, Adopted
  <2> QED BY <1>3, <2>5, <2>8 DEF SleepsOn
<1>5. CASE release_task(x, p)
  <2>1. /\ link' = Released(link, p) /\ state' = [state EXCEPT ![p] = "FREE", ![x] = "TASK_RUNNING"]
    BY <1>5 DEF release_task, Released
  <2>2. \A u \in Task : state'[u] = IF u = x THEN "TASK_RUNNING"
                                      ELSE IF u = p THEN "FREE" ELSE state[u]
    BY <1>1, <2>1 DEF Types
  <2>3. Sleeping(t)
    BY <1>3, <2>2 DEF Sleeping
  <2>4. t \in Listed /\ t \in Listed'
    BY <2>3 DEF Sleeping, Listed
  <2>5. \A b \in Task : b # p => link'[b].p_pptr = link[b].p_pptr
    BY <1>1, <2>1, ReleasedTree
  <2>6. \A b \in Task : state'[b] = "TASK_ZOMBIE" =>
          state[b] = "TASK_ZOMBIE" /\ link'[b].p_pptr = link[b].p_pptr
    BY <2>2, <2>5
  <2>7. Threads(t)' \cap Listed \subseteq Threads(t)
    BY <1>5, <2>4, ThreadsAfterRelease
  <2> QED BY <1>3, <2>3, <2>6, <2>7, NoNews DEF SleepsOn
<1> QED BY <1>4, <1>5 DEF Reap

(* An exit: the dead task's parent is told, and so are those who get its zombies. *)
LEMMA ExitSleeps ==
  ASSUME IInv, IInv', NEW x \in Task, exit_notify(x), NEW t \in Task, Sleeping(t)'
  PROVE  SleepsOn(t)
<1>1. /\ Types /\ Notified(x) /\ CanRun(x) /\ pc[x] = "exit"
      /\ pc' = [pc EXCEPT ![x] = "none"] /\ UNCHANGED <<next_thread, option>>
  BY ExitNotifies DEF exit_notify, Goto, IInv
<1>2. x \in Listed \ {Swapper}
  BY <1>1 DEF IInv, CanRun, Listed, Control, Slots
<1>3. t # x /\ pc'[t] = pc[t] /\ Sleeping(t) /\ Waits(t, state') /\ t \in Listed
  BY <1>1 DEF Types, Sleeping, Notified, Waits, Listed
<1>4. ASSUME NEW b \in Found(t)' PROVE b \in Found(t)
  <2>1. /\ b \in Task /\ b \in Listed' \ {Swapper} /\ state'[b] = "TASK_ZOMBIE"
        /\ link'[b].p_pptr \in Threads(t)
    BY <1>1, <1>4, SameThreads DEF Found, Listed
  <2>2. b \in Listed \ {Swapper} /\ (b # x => state[b] = "TASK_ZOMBIE")
    BY <1>1, <1>2, <2>1 DEF Notified, Listed
  <2>3. link'[b].p_pptr = IF link[b].p_pptr = x THEN p_opptr'[b] ELSE link[b].p_pptr
    BY <1>1, <2>2 DEF Notified
  <2>4. t \in Threads(link'[b].p_pptr)
    BY <1>3, <2>1, ThreadGroup
  <2>5. CASE b = x
    <3>1. link[x].p_pptr # x
      BY <1>2, ParentsOf
    <3>2. t \in Threads(link[x].p_pptr)
      BY <2>3, <2>4, <2>5, <3>1
    <3> QED BY <1>1, <1>3, <3>2 DEF Notified
  <2>6. CASE b # x
    <3>1. CASE link[b].p_pptr = x
      BY <1>1, <1>3, <2>2, <2>3, <2>4, <2>6, <3>1 DEF Notified
    <3>2. CASE link[b].p_pptr # x
      BY <2>1, <2>2, <2>3, <2>6, <3>2 DEF Found
    <3> QED BY <3>1, <3>2
  <2> QED BY <2>5, <2>6
<1> QED BY <1>1, <1>3, <1>4 DEF SleepsOn

(* The other steps change the state and locals of one task that is no zombie. *)
LEMMA OthersSleep ==
  ASSUME IInv, IInv', NEW x \in Task, NEW options, NEW t \in Task, Sleeping(t)',
         \/ ExitBegin(x) \/ WaitFault(x, options) \/ Signal(x)
         \/ Return(x) /\ UNCHANGED <<state, family, flags>>
         \/ WaitSleep(x, options) /\ t # x
  PROVE  SleepsOn(t)
<1>1. Types
  BY DEF IInv
<1>2. UNCHANGED <<link, next_thread>>
  BY DEF ExitBegin, WaitFault, Signal, WaitSleep, family
<1>3. \A b \in Task : state'[b] = "TASK_ZOMBIE" => state[b] = "TASK_ZOMBIE"
  BY <1>1 DEF ExitBegin, WaitFault, Signal, WaitSleep, Types
<1>4. pc'[t] = "wait" => pc[t] = "wait" /\ option'[t] = option[t]
  BY <1>1 DEF ExitBegin, WaitFault, Signal, WaitSleep, Return, Goto, Types, local
<1>5. state'[t] = "TASK_INTERRUPTIBLE" => state[t] = "TASK_INTERRUPTIBLE"
  BY <1>1 DEF ExitBegin, WaitFault, Signal, WaitSleep, Types
<1> QED BY <1>2, <1>3, <1>4, <1>5, SleepsQuietly

LEMMA Sleepers ==
  ASSUME IInv, IInv', Next, NEW t \in Task, Sleeping(t)'
  PROVE  SleepsOn(t) \/ \E options \in Options : WaitSleep(t, options)
<1>1. PICK x \in Task : Step(x)
  BY DEF Next
<1>2. CASE \E clone_flags \in Flags :
             \/ \E c \in Task : ForkBegin(x, c, clone_flags)
             \/ \E signal \in Signals : ForkEnd(x, clone_flags, signal)
  BY <1>2, ForkSleeps
<1>3. CASE ForkFail(x)
  BY <1>3, ForkSleeps
<1>4. CASE ExitBegin(x) \/ Signal(x)
  BY <1>4, OthersSleep
<1>5. CASE exit_notify(x)
  BY <1>5, ExitSleeps
<1>6. CASE reparent_to_init(x) \/ \E c \in Task : Attach(x, c) \/ Detach(x, c)
  BY <1>6, MoveSleeps
<1>7. ASSUME NEW options \in Options, WaitReap(x, options) PROVE SleepsOn(t)
  <2>1. CanRun(x) /\ pc[x] \in {"user", "wait"} /\ x \in Listed
    BY <1>7 DEF WaitReap, Scans, CanRun, Listed
  <2>2. PICK p \in Zombies(x, options) : Reap(x, p)
    BY <1>7 DEF WaitReap
  <2>3. p \in Found(x) /\ p \in Task
    BY <2>1, <2>2, ZombiesAre DEF Found, Listed
  <2> QED BY <2>1, <2>2, <2>3, FoundIsFree, ReapSleeps
<1>8. ASSUME NEW options \in Options, WaitFault(x, options) PROVE SleepsOn(t)
  BY <1>8, OthersSleep
<1>9. ASSUME NEW options \in Options, WaitSleep(x, options), t # x PROVE SleepsOn(t)
  BY <1>9, OthersSleep
<1>10. CASE WaitEnd(x)
  <2>1. CanRun(x) /\ pc[x] = "reap"
    BY <1>10 DEF WaitEnd
  <2>2. CASE Reap(x, peer[x])
    BY <2>1, <2>2, HeldIsFree, ReapSleeps
  <2>3. CASE Return(x) /\ UNCHANGED <<state, family, flags>>
    BY <2>3, OthersSleep
  <2> QED BY <1>10, <2>2, <2>3 DEF WaitEnd
<1>11. CASE WaitReturn(x)
  BY <1>11, OthersSleep DEF WaitReturn
<1> QED BY <1>1, <1>2, <1>3, <1>4, <1>5, <1>6, <1>7, <1>8, <1>9, <1>10, <1>11 DEF Step

(* The zombies that wait4 sees are those it has found, in this state and in the next. *)
Seen == \A t \in Listed : \A options \in WaitOptions :
          Zombies(t, options) = {p \in Found(t) : Asked(p, options)}

LEMMA SeenNext == (IInv => Seen) /\ (IInv' => Seen')
<1>1. IInv => Seen
  BY ZombiesAre DEF Seen
<1> QED BY <1>1, PTL

(* No exit is missed: a wait falls asleep with no zombie it asks for, and sleeps through
   no step that brings it one, whatever dies, is traced or is handed over meanwhile.    *)
THEOREM NoExitIsMissed ==
  ASSUME Faulting = {}
  PROVE  Spec => NoExitMissed
<1>1. IInv /\ IInv' /\ [Next]_vars =>
        [\A t \in Task : Sleeping(t)' =>
           \A p \in Zombies(t, option[t])' :
             /\ Sleeping(t)
             /\ \/ p \in Zombies(t, option[t])
                \/ p \in Zombies(t, "__WALL") /\ exit_signal'[p] # exit_signal[p]]_vars
  <2> SUFFICES ASSUME IInv, IInv', Next, NEW t \in Task, Sleeping(t)',
                      NEW p \in Zombies(t, option[t])'
               PROVE  /\ Sleeping(t)
                      /\ \/ p \in Zombies(t, option[t])
                         \/ p \in Zombies(t, "__WALL") /\ exit_signal'[p] # exit_signal[p]
    OBVIOUS
  <2>1. /\ t \in Listed' /\ option[t] \in WaitOptions /\ option'[t] \in WaitOptions
        /\ "__WALL" \in WaitOptions
    BY DEF IInv, Types, Sleeping, Listed, WaitOptions
  <2>2. Seen /\ Seen'
    BY SeenNext
  <2>3. p \in Found(t)' /\ Asked(p, option[t])'
    BY <2>1, <2>2 DEF Seen
  <2>4. CASE SleepsOn(t)
    <3>1. Sleeping(t) /\ option'[t] = option[t] /\ p \in Found(t) /\ t \in Listed
      BY <2>3, <2>4 DEF SleepsOn, Sleeping, Listed
    <3>2. exit_signal'[p] = exit_signal[p] => Asked(p, option[t])
      BY <2>3, <3>1 DEF Asked
    <3>3. Asked(p, "__WALL")
      BY DEF Asked
    <3> QED BY <2>1, <2>2, <3>1, <3>2, <3>3 DEF Seen
  <2>5. CASE \E options \in Options : WaitSleep(t, options)
    <3>1. PICK options \in Options : WaitSleep(t, options)
      BY <2>5
    <3>2. /\ Zombies(t, options) = {} /\ CanRun(t)
          /\ state' = [state EXCEPT ![t] = "TASK_INTERRUPTIBLE"]
          /\ option' = [option EXCEPT ![t] = options]
          /\ UNCHANGED <<link, next_thread, exit_signal>>
      BY <3>1 DEF WaitSleep, Scans, family, flags
    <3>3. t \in Listed /\ options \in WaitOptions /\ option'[t] = options
      BY <3>2, UseAssumption DEF CanRun, Listed, IInv, Types
    <3>4. p \in Found(t)
      <4>1. Threads(t)' = Threads(t)
        BY <3>2, SameThreads
      <4>2. \A u \in Task : state'[u] = IF u = t THEN "TASK_INTERRUPTIBLE" ELSE state[u]
        BY <3>2 DEF IInv, Types
      <4> QED BY <2>3, <3>2, <4>1, <4>2 DEF Found, Listed
    <3>5. Asked(p, options)
      BY <2>3, <3>2, <3>3 DEF Asked
    <3> QED BY <2>2, <3>2, <3>3, <3>4, <3>5 DEF Seen
  <2> QED BY <2>4, <2>5, Sleepers
<1> QED BY FamilyInvariant, <1>1, PTL DEF Spec, NoExitMissed
============================================================================
