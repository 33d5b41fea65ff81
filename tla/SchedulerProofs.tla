-------------------------- MODULE SchedulerProofs --------------------------
(***************************************************************************)
(* Proofs about the scheduler and the process manager, for every number of *)
(* tasks and processes and every size of the sleep queue.  The C functions *)
(* of the scheduler are operators on the record g_sched, so the parts of   *)
(* its inductive invariant are operators on a record too: a handler that   *)
(* composes several functions passes through states in which the current   *)
(* task is blocked or dead.                                                *)
(***************************************************************************)
EXTENDS Process, OrderLemmas, SequenceTheorems

Entry == [t: Task, wake: Int]

\* SchedTypeOK of a record.
SType(s) ==
  /\ s \in [list: {InitTask}, cur: Task \cup {Idle},
            next: [Task -> Task \cup {NoTask}],
            prev: [Task -> Task \cup {NoTask}],
            state: [Task \cup {Idle} -> {READY, RUNNING, BLOCKED, DEAD}],
            queue: Seq([t: Task, wake: Int]),
            ticks: 0 .. SchedulePeriod - 1, hung: BOOLEAN]
  /\ Len(s.queue) <= SLEEP_QUEUE_MAX

Lv(s) == {t \in Task : s.state[t] # DEAD}
Bk(s) == {t \in Task : s.state[t] = BLOCKED}

\* RingLinks and OneRing of a record, and init is alive.
Links(s) ==
  \A t \in Lv(s) : /\ s.next[t] \in Lv(s) /\ s.prev[t] \in Lv(s)
                   /\ s.prev[s.next[t]] = t
                   /\ s.next[s.prev[t]] = t

One(s) ==
  \A S \in SUBSET Lv(s) : S # {} /\ (\A t \in S : s.next[t] \in S) => S = Lv(s)

Ring(s) == Links(s) /\ One(s) /\ InitTask \in Lv(s)

-----------------------------------------------------------------------------
(* The ring.                                                               *)

(* A step that changes no link and neither creates nor ends a task keeps   *)
(* the ring.                                                               *)
LEMMA RingSame ==
  ASSUME NEW s, NEW r, Ring(s), r.next = s.next, r.prev = s.prev, Lv(r) = Lv(s)
  PROVE  Ring(r)
BY DEF Ring, Links, One

(* scheduler_add links a new task into the ring.                           *)
LEMMA AddRing ==
  ASSUME NEW s, SType(s), Ring(s), NEW t \in Task, t \notin Lv(s)
  PROVE  /\ Ring(scheduler_add(task_create(s, t), t))
         /\ SType(scheduler_add(task_create(s, t), t))
<1> DEFINE r == scheduler_add(task_create(s, t), t)
           tail == s.prev[InitTask]
<1>0. /\ InitTask \in Task /\ NoTask \notin Task
  BY SchedulerAssumption
<1>1. /\ InitTask \in Lv(s) /\ t # InitTask /\ tail \in Lv(s) /\ tail # t /\ tail \in Task
      /\ s.list = InitTask /\ s.next[tail] = InitTask
  BY <1>0 DEF Ring, Links, Lv, SType
<1>2. r = [s EXCEPT !.state = [s.state EXCEPT ![t] = READY],
                    !.next = [s.next EXCEPT ![t] = InitTask, ![tail] = t],
                    !.prev = [s.prev EXCEPT ![t] = tail, ![InitTask] = t]]
  <2>1. task_create(s, t) = [s EXCEPT !.state = [s.state EXCEPT ![t] = READY],
                               !.next = [s.next EXCEPT ![t] = NoTask],
                               !.prev = [s.prev EXCEPT ![t] = NoTask]]
    BY DEF task_create
  <2> DEFINE c == task_create(s, t)
  <2>2. c.list = InitTask /\ c.prev[InitTask] = tail /\ c.list # NoTask
    BY <1>0, <1>1, <2>1 DEF SType
  <2>3. r = [c EXCEPT !.next = [c.next EXCEPT ![t] = InitTask, ![tail] = t],
                      !.prev = [c.prev EXCEPT ![t] = tail, ![InitTask] = t]]
    <3>1. r = scheduler_add(c, t) OBVIOUS
    <3> HIDE DEF c, r, tail
    <3> QED BY <2>2, <3>1 DEF scheduler_add
  <2> HIDE DEF r, tail
  <2>4. c.next = [s.next EXCEPT ![t] = NoTask] /\ c.prev = [s.prev EXCEPT ![t] = NoTask]
    BY <2>1 DEF SType
  <2>5. [c.next EXCEPT ![t] = InitTask, ![tail] = t]
          = [s.next EXCEPT ![t] = InitTask, ![tail] = t]
    BY <1>1, <2>4 DEF SType
  <2>6. [c.prev EXCEPT ![t] = tail, ![InitTask] = t]
          = [s.prev EXCEPT ![t] = tail, ![InitTask] = t]
    BY <1>1, <2>4 DEF SType
  <2>7. r = [c EXCEPT !.next = [s.next EXCEPT ![t] = InitTask, ![tail] = t],
                      !.prev = [s.prev EXCEPT ![t] = tail, ![InitTask] = t]]
    BY <2>3, <2>5, <2>6
  <2> QED BY <2>1, <2>7 DEF SType
<1> HIDE DEF r, tail
<1>3. SType(r)
  BY <1>0, <1>1, <1>2 DEF SType, READY
<1>4. /\ \A u \in Task : r.next[u] = IF u = tail THEN t ELSE IF u = t THEN InitTask ELSE s.next[u]
      /\ \A u \in Task : r.prev[u] = IF u = InitTask THEN t ELSE IF u = t THEN tail ELSE s.prev[u]
      /\ Lv(r) = Lv(s) \cup {t}
  BY <1>0, <1>1, <1>2 DEF SType, Lv, READY, DEAD
<1>5. Lv(s) \subseteq Task /\ Lv(r) \subseteq Task BY DEF Lv
<1>6. Links(r)
  <2> SUFFICES ASSUME NEW u \in Lv(r)
               PROVE  /\ r.next[u] \in Lv(r) /\ r.prev[u] \in Lv(r)
                      /\ r.prev[r.next[u]] = u /\ r.next[r.prev[u]] = u
    BY DEF Links
  <2>1. CASE u = t
    BY <1>1, <1>4, <1>5, <2>1
  <2>2. CASE u # t
    BY <1>1, <1>4, <1>5, <2>2 DEF Ring, Links, tail
  <2> QED BY <2>1, <2>2
<1>7. One(r)
  <2> SUFFICES ASSUME NEW S \in SUBSET Lv(r), S # {}, \A u \in S : r.next[u] \in S
               PROVE  S = Lv(r)
    BY DEF One
  <2> DEFINE S0 == S \ {t}
  <2>1. S0 \subseteq Lv(s) BY <1>4
  <2>2. S0 # {} BY <1>1, <1>4
  <2>3. \A u \in S0 : s.next[u] \in S0
    <3> SUFFICES ASSUME NEW u \in S0 PROVE s.next[u] \in S0 OBVIOUS
    <3>1. u \in Lv(s) /\ u # t /\ u \in Task BY <1>5, <2>1
    <3>2. s.next[u] \in Lv(s) /\ s.next[u] # t BY <3>1 DEF Ring, Links
    <3>3. CASE u = tail BY <1>1, <1>4, <3>3
    <3>4. CASE u # tail BY <1>4, <3>1, <3>2, <3>4
    <3> QED BY <3>3, <3>4
  <2>4. S0 = Lv(s)
    <3> HIDE DEF S0
    <3> QED BY <2>1, <2>2, <2>3 DEF Ring, One
  <2>5. t \in S BY <1>1, <1>4, <2>4
  <2> QED BY <1>4, <2>4, <2>5
<1>8. InitTask \in Lv(r) BY <1>1, <1>4
<1> QED BY <1>3, <1>6, <1>7, <1>8 DEF Ring, r

(* scheduler_remove takes a task other than init's out of the ring.        *)
LEMMA RemoveRing ==
  ASSUME NEW s, SType(s), Ring(s), NEW t \in Lv(s), t # InitTask
  PROVE  /\ Ring(unlink_dead(s, t)) /\ SType(unlink_dead(s, t))
         /\ unlink_dead(s, t) =
              [s EXCEPT !.state = [s.state EXCEPT ![t] = DEAD],
                        !.next = unlink_dead(s, t).next,
                        !.prev = unlink_dead(s, t).prev]
<1> DEFINE r == unlink_dead(s, t)
<1>0. /\ InitTask \in Task /\ NoTask \notin Task BY SchedulerAssumption
<1>1. /\ t \in Task /\ s.next[t] \in Lv(s) /\ s.prev[t] \in Lv(s)
      /\ s.next[t] \in Task /\ s.prev[t] \in Task
      /\ s.next[s.prev[t]] = t /\ s.prev[s.next[t]] = t
  BY DEF Ring, Links, Lv
<1>2. s.next[t] # t
  <2> SUFFICES ASSUME s.next[t] = t PROVE FALSE OBVIOUS
  <2>1. {t} = Lv(s) BY DEF Ring, One
  <2> QED BY <2>1 DEF Ring
<1>3. s.prev[t] # t BY <1>1, <1>2
<1>4. r = [s EXCEPT !.state = [s.state EXCEPT ![t] = DEAD],
                    !.next = [s.next EXCEPT ![s.prev[t]] = s.next[t]],
                    !.prev = [s.prev EXCEPT ![s.next[t]] = s.prev[t]]]
  <2> DEFINE d == [s EXCEPT !.state[t] = DEAD]
  <2>1. d.next = s.next /\ d.prev = s.prev BY DEF SType
  <2>2. d = [s EXCEPT !.state = [s.state EXCEPT ![t] = DEAD]] OBVIOUS
  <2> HIDE DEF d
  <2> DEFINE n == [s.next EXCEPT ![s.prev[t]] = s.next[t]]
  <2>3. n[t] = s.next[t] BY <1>1, <1>3 DEF SType
  <2>4. scheduler_remove(d, t) =
          [d EXCEPT !.next = n, !.prev = [s.prev EXCEPT ![n[t]] = s.prev[t]]]
    BY <2>1 DEF scheduler_remove
  <2>5. r = scheduler_remove(d, t) BY DEF unlink_dead, d
  <2> HIDE DEF r
  <2> QED BY <2>2, <2>3, <2>4, <2>5 DEF SType
<1> HIDE DEF r
<1>5. SType(r) BY <1>0, <1>1, <1>4 DEF SType, DEAD
<1>6. /\ \A u \in Task : r.next[u] = IF u = s.prev[t] THEN s.next[t] ELSE s.next[u]
      /\ \A u \in Task : r.prev[u] = IF u = s.next[t] THEN s.prev[t] ELSE s.prev[u]
      /\ Lv(r) = Lv(s) \ {t}
  BY <1>1, <1>4 DEF SType, Lv
<1>7. Links(r)
  <2> SUFFICES ASSUME NEW u \in Lv(r)
               PROVE  /\ r.next[u] \in Lv(r) /\ r.prev[u] \in Lv(r)
                      /\ r.prev[r.next[u]] = u /\ r.next[r.prev[u]] = u
    BY DEF Links
  <2>1. u \in Lv(s) /\ u # t /\ u \in Task /\ Lv(s) \subseteq Task BY <1>6 DEF Lv
  <2>2. \A v \in Lv(s) : /\ s.next[v] \in Lv(s) /\ s.prev[v] \in Lv(s)
                         /\ s.prev[s.next[v]] = v /\ s.next[s.prev[v]] = v
    BY DEF Ring, Links
  <2>3. r.next[u] \in Lv(r) /\ r.prev[r.next[u]] = u
    BY <1>1, <1>2, <1>3, <1>6, <2>1, <2>2
  <2>4. r.prev[u] \in Lv(r) /\ r.next[r.prev[u]] = u
    BY <1>1, <1>2, <1>3, <1>6, <2>1, <2>2
  <2> QED BY <2>3, <2>4
<1>8. One(r)
  <2> SUFFICES ASSUME NEW S \in SUBSET Lv(r), S # {}, \A u \in S : r.next[u] \in S
               PROVE  S = Lv(r)
    BY DEF One
  <2> DEFINE S0 == IF s.prev[t] \in S THEN S \cup {t} ELSE S
  <2>1. S0 \subseteq Lv(s) /\ S0 # {} BY <1>6
  <2>2. \A u \in S0 : s.next[u] \in S0
    <3> SUFFICES ASSUME NEW u \in S0 PROVE s.next[u] \in S0 OBVIOUS
    <3>1. u \in Task /\ S \subseteq Task BY <1>1, <1>6 DEF Lv
    <3>2. CASE u = t
      <4>1. s.prev[t] \in S /\ r.next[s.prev[t]] = s.next[t]
        BY <1>1, <1>6, <3>2
      <4>2. s.next[t] \in S BY <4>1
      <4>3. s.next[t] \in S \cup {t} /\ S0 = S \cup {t} BY <4>1, <4>2
      <4> HIDE DEF S0
      <4> QED BY <3>2, <4>3
    <3>3. CASE u # t /\ u = s.prev[t] BY <1>1, <3>3
    <3>4. CASE u # t /\ u # s.prev[t]
      <4>1. u \in S /\ r.next[u] = s.next[u] BY <1>6, <3>1, <3>4
      <4>2. s.next[u] \in S BY <4>1
      <4>3. CASE s.prev[t] \in S BY <4>2, <4>3
      <4>4. CASE s.prev[t] \notin S BY <4>2, <4>4
      <4> QED BY <4>3, <4>4
    <3> QED BY <3>2, <3>3, <3>4
  <2>3. S0 = Lv(s)
    <3> HIDE DEF S0
    <3> QED BY <2>1, <2>2 DEF Ring, One
  <2> QED BY <1>6, <2>3
<1>9. InitTask \in Lv(r) BY <1>6 DEF Ring
<1>10. r = [s EXCEPT !.state = [s.state EXCEPT ![t] = DEAD],
                     !.next = r.next, !.prev = r.prev]
  BY <1>4 DEF SType
<1> QED BY <1>5, <1>7, <1>8, <1>9, <1>10 DEF Ring, r
-----------------------------------------------------------------------------
(* The walk of scheduler_pick_next.                                        *)

(* What taking a task out of the list leaves.                              *)
LEMMA RemoveFields ==
  ASSUME NEW s, SType(s), Ring(s), NEW t \in Lv(s), t # InitTask
  PROVE  LET d == unlink_dead(s, t)
         IN  /\ d.cur = s.cur /\ d.hung = s.hung /\ d.queue = s.queue
             /\ \A u \in Task \cup {Idle} : d.state[u] = IF u = t THEN DEAD ELSE s.state[u]
<1>1. PICK d : /\ d = unlink_dead(s, t)
               /\ d = [s EXCEPT !.state = [s.state EXCEPT ![t] = DEAD], !.next = d.next, !.prev = d.prev]
  BY RemoveRing
<1>2. s.state \in [Task \cup {Idle} -> {READY, RUNNING, BLOCKED, DEAD}] BY DEF SType
<1>3. d.state = [s.state EXCEPT ![t] = DEAD] /\ d.cur = s.cur /\ d.hung = s.hung /\ d.queue = s.queue
  BY <1>1 DEF SType
<1>4. \A u \in Task \cup {Idle} : d.state[u] = IF u = t THEN DEAD ELSE s.state[u] BY <1>2, <1>3
<1> QED BY <1>1, <1>3, <1>4

(* The recursive definition of Walk has a solution when the walk starts in *)
(* the ring, and the walk stays in the ring.                               *)
LEMMA WalkStays ==
  ASSUME NEW s, SType(s), Ring(s), NEW from \in Lv(s)
  PROVE  /\ Cardinality(Task) \in Nat
         /\ Walk(s, from) \in [0 .. Cardinality(Task) -> Lv(s)]
         /\ Walk(s, from)[0] = from
         /\ \A k \in 1 .. Cardinality(Task) :
              Walk(s, from)[k] = s.next[Walk(s, from)[k - 1]]
<1> DEFINE N == Cardinality(Task)
           Steps(f, n) == f[0] = from /\ \A k \in 1 .. n : f[k] = s.next[f[k - 1]]
           G == {n \in 0 .. N : \E f \in [0 .. N -> Lv(s)] : Steps(f, n)}
<1>0. N \in Nat BY SchedulerAssumption, FS_CardinalityType
<1>1. 0 \in G
  <2> DEFINE c == [k \in 0 .. N |-> from]
  <2>1. c \in [0 .. N -> Lv(s)] /\ c[0] = from BY <1>0
  <2> HIDE DEF c
  <2>2. Steps(c, 0) BY <2>1
  <2> HIDE DEF Steps
  <2> QED BY <1>0, <2>1, <2>2
<1>2. \A n \in 0 .. N - 1 : n \in G => n + 1 \in G
  <2> SUFFICES ASSUME NEW n \in 0 .. N - 1, n \in G PROVE n + 1 \in G
    OBVIOUS
  <2>1. PICK f \in [0 .. N -> Lv(s)] : Steps(f, n) OBVIOUS
  <2> DEFINE g == [f EXCEPT ![n + 1] = s.next[f[n]]]
  <2>2. n \in 0 .. N /\ n + 1 \in 0 .. N /\ f[n] \in Lv(s) BY <1>0, <2>1
  <2>3. s.next[f[n]] \in Lv(s) BY <2>2 DEF Ring, Links
  <2>4. g \in [0 .. N -> Lv(s)] BY <2>2, <2>3
  <2>5. \A k \in 0 .. N : g[k] = IF k = n + 1 THEN s.next[f[n]] ELSE f[k]
    BY <2>2
  <2> HIDE DEF g
  <2>6. g[0] = from BY <1>0, <2>1, <2>5
  <2>7. \A k \in 1 .. n + 1 : g[k] = s.next[g[k - 1]]
    <3> SUFFICES ASSUME NEW k \in 1 .. n + 1 PROVE g[k] = s.next[g[k - 1]] OBVIOUS
    <3>1. k \in 0 .. N /\ k - 1 \in 0 .. N /\ k - 1 # n + 1 BY <1>0
    <3>2. g[k - 1] = f[k - 1] BY <2>5, <3>1
    <3>3. CASE k = n + 1 BY <1>0, <2>5, <3>1, <3>2, <3>3
    <3>4. CASE k # n + 1
      <4>1. g[k] = f[k] BY <2>5, <3>1, <3>4
      <4>2. k \in 1 .. n BY <1>0, <3>4
      <4> QED BY <2>1, <3>2, <4>1, <4>2
    <3> QED BY <3>3, <3>4
  <2>8. Steps(g, n + 1) BY <2>6, <2>7
  <2> QED BY <2>2, <2>4, <2>8
<1>3. N \in G
  <2> HIDE DEF G, N
  <2>1. 0 .. N \subseteq G BY <1>0, <1>1, <1>2, IntervalInduction
  <2>2. N \in 0 .. N BY <1>0
  <2> QED BY <2>1, <2>2
<1>4. PICK f \in [0 .. N -> Lv(s)] : Steps(f, N) BY <1>3
<1> DEFINE Rec(h) == h = [k \in 0 .. N |-> IF k = 0 THEN from ELSE s.next[h[k - 1]]]
<1>5. Rec(f)
  <2>1. \A k \in 0 .. N : f[k] = IF k = 0 THEN from ELSE s.next[f[k - 1]]
    BY <1>0, <1>4
  <2> QED BY <1>4, <2>1
<1>6. Walk(s, from) = CHOOSE h : Rec(h) BY DEF Walk
<1>7. Rec(Walk(s, from))
  <2> HIDE DEF Rec
  <2> QED BY <1>5, <1>6
<1> DEFINE w == Walk(s, from)
<1>8. w = [k \in 0 .. N |-> IF k = 0 THEN from ELSE s.next[w[k - 1]]]
  BY <1>7
<1> HIDE DEF w, N
<1>9. w[0] = from BY <1>0, <1>8
<1>10. \A k \in 1 .. N : w[k] = s.next[w[k - 1]] BY <1>0, <1>8
<1>11. \A k \in 0 .. N : w[k] = f[k]
  <2> DEFINE E == {k \in 0 .. N : w[k] = f[k]}
  <2>1. 0 \in E BY <1>0, <1>4, <1>9
  <2>2. \A k \in 0 .. N - 1 : k \in E => k + 1 \in E
    <3> SUFFICES ASSUME NEW k \in 0 .. N - 1, w[k] = f[k] PROVE k + 1 \in E OBVIOUS
    <3>1. k + 1 \in 1 .. N /\ k + 1 \in 0 .. N /\ (k + 1) - 1 = k BY <1>0
    <3>2. w[k + 1] = s.next[w[k]] BY <1>10, <3>1
    <3>3. f[k + 1] = s.next[f[k]] BY <1>4, <3>1
    <3> QED BY <3>1, <3>2, <3>3
  <2> HIDE DEF E
  <2>3. 0 .. N \subseteq E BY <1>0, <2>1, <2>2, IntervalInduction
  <2> QED BY <2>3 DEF E
<1>12. w \in [0 .. N -> Lv(s)]
  <2>1. w = [k \in 0 .. N |-> f[k]] BY <1>8, <1>11
  <2> QED BY <1>4, <2>1
<1> QED BY <1>0, <1>9, <1>10, <1>12 DEF w, N

(* A walk from a task of the ring comes back to it and meets every other   *)
(* task of the ring: it repeats itself after at most Cardinality(Task)     *)
(* links, and what repeats first is its start because prev inverts next.   *)
LEMMA WalkCovers ==
  ASSUME NEW s, SType(s), Ring(s), NEW from \in Lv(s)
  PROVE  /\ \E j \in 1 .. Cardinality(Task) : Walk(s, from)[j] = from
         /\ \A u \in Lv(s) : \E j \in 0 .. Cardinality(Task) : Walk(s, from)[j] = u
<1> DEFINE N == Cardinality(Task)
           w == Walk(s, from)
<1>1. /\ N \in Nat /\ w \in [0 .. N -> Lv(s)] /\ w[0] = from
      /\ \A k \in 1 .. N : w[k] = s.next[w[k - 1]]
  BY WalkStays
<1> HIDE DEF w
<1>2. Lv(s) \subseteq Task BY DEF Lv
<1> DEFINE R == {j \in 1 .. N : \E i \in 0 .. j - 1 : w[i] = w[j]}
<1>3. R # {}
  <2>1. IsFiniteSet(0 .. N) /\ Cardinality(0 .. N) = N + 1
    BY <1>1, FS_Interval
  <2>2. w \in [0 .. N -> Task] BY <1>1, <1>2
  <2>3. N < Cardinality(0 .. N) BY <1>1, <2>1
  <2>4. \E x, y \in 0 .. N : x # y /\ w[x] = w[y]
    <3> DEFINE D == 0 .. N
    <3>1. IsFiniteSet(Task) BY SchedulerAssumption
    <3>2. IsFiniteSet(D) /\ w \in [D -> Task] /\ Cardinality(Task) < Cardinality(D)
      BY <2>1, <2>2, <2>3
    <3> HIDE DEF D, N
    <3>3. \E x, y \in D : x # y /\ w[x] = w[y]
      BY ONLY <3>1, <3>2, FS_PigeonHole
    <3> QED BY <3>3 DEF D
  <2>5. PICK x \in 0 .. N, y \in 0 .. N : x # y /\ w[x] = w[y] BY <2>4
  <2>6. CASE x < y
    <3>1. y \in 1 .. N /\ x \in 0 .. y - 1 BY <1>1, <2>6
    <3> QED BY <2>5, <3>1
  <2>7. CASE y < x
    <3>1. x \in 1 .. N /\ y \in 0 .. x - 1 BY <1>1, <2>7
    <3> QED BY <2>5, <3>1
  <2> QED BY <1>1, <2>5, <2>6, <2>7
<1>4. R \in SUBSET Nat BY <1>1
<1>5. Min(R) \in R /\ \A y \in R : Min(R) <= y BY <1>3, <1>4, MinLemma
<1>6. PICK j \in R : \A y \in R : j <= y BY <1>5
<1>7. PICK i \in 0 .. j - 1 : w[i] = w[j] BY <1>6
<1>8. i = 0
  <2> SUFFICES ASSUME i # 0 PROVE FALSE OBVIOUS
  <2>1. /\ i \in 1 .. N /\ j \in 1 .. N /\ i - 1 \in 0 .. N /\ j - 1 \in 0 .. N
        /\ j - 1 \in 1 .. N /\ i - 1 \in 0 .. (j - 1) - 1
    BY <1>1, <1>6, <1>7
  <2>2. w[i] = s.next[w[i - 1]] /\ w[j] = s.next[w[j - 1]] BY <1>1, <2>1
  <2>3. w[i - 1] \in Lv(s) /\ w[j - 1] \in Lv(s) BY <1>1, <2>1
  <2>4. s.prev[s.next[w[i - 1]]] = w[i - 1] /\ s.prev[s.next[w[j - 1]]] = w[j - 1]
    BY <2>3 DEF Ring, Links
  <2>5. w[i - 1] = w[j - 1] BY <1>7, <2>2, <2>4
  <2>6. j - 1 \in R BY <2>1, <2>5
  <2>7. j <= j - 1 BY <1>6, <2>6
  <2> QED BY <2>1, <2>7
<1>9. j \in 1 .. N /\ w[j] = from BY <1>1, <1>6, <1>7, <1>8
<1> DEFINE S == {w[k] : k \in 0 .. j - 1}
<1>10. S \in SUBSET Lv(s) /\ S # {}
  <2>1. \A k \in 0 .. j - 1 : k \in 0 .. N BY <1>1, <1>9
  <2>2. 0 \in 0 .. j - 1 BY <1>9
  <2> QED BY <1>1, <2>1, <2>2
<1>11. \A u \in S : s.next[u] \in S
  <2> SUFFICES ASSUME NEW k \in 0 .. j - 1 PROVE s.next[w[k]] \in S OBVIOUS
  <2>1. k + 1 \in 1 .. N /\ (k + 1) - 1 = k BY <1>1, <1>9
  <2>2. w[k + 1] = s.next[w[k]] BY <1>1, <2>1
  <2>3. CASE k + 1 = j
    <3>1. s.next[w[k]] = w[0] BY <1>1, <1>9, <2>2, <2>3
    <3>2. 0 \in 0 .. j - 1 BY <1>9
    <3> QED BY <3>1, <3>2
  <2>4. CASE k + 1 # j
    <3>1. k + 1 \in 0 .. j - 1 BY <1>9, <2>4
    <3> QED BY <2>2, <3>1
  <2> QED BY <2>3, <2>4
<1>12. S = Lv(s)
  <2> HIDE DEF S
  <2> QED BY <1>10, <1>11 DEF Ring, One
<1>13. \A u \in Lv(s) : \E k \in 0 .. N : w[k] = u
  <2> SUFFICES ASSUME NEW u \in Lv(s) PROVE \E k \in 0 .. N : w[k] = u OBVIOUS
  <2>1. u \in S BY <1>12
  <2>2. PICK k \in 0 .. j - 1 : u = w[k] BY <2>1
  <2>3. k \in 0 .. N BY <1>1, <1>9
  <2> QED BY <2>2, <2>3
<1> QED BY <1>9, <1>13 DEF w

(* Both loops of scheduler_pick_next end: FirstReady is a READY task or    *)
(* what the loop falls back on, never Hang.                                *)
LEMMA FirstReadyReturns ==
  ASSUME NEW s, SType(s), Ring(s), NEW from \in Lv(s), NEW stop \in Lv(s),
         NEW least \in {0, 1}, NEW otherwise, least = 1 => stop = from
  PROVE  LET n == FirstReady(s, from, stop, least, otherwise)
         IN  (n \in Task /\ s.state[n] = READY) \/ n = otherwise
<1> DEFINE N == Cardinality(Task)
           w == Walk(s, from)
           hits == {k \in DOMAIN w : /\ w[k] \in Task /\ s.state[w[k]] = READY
                                     /\ \A j \in 0 .. k : w[j] = stop => j < least}
           ends == {k \in DOMAIN w : k >= least /\ w[k] = stop}
           n == FirstReady(s, from, stop, least, otherwise)
<1>1. N \in Nat /\ DOMAIN w = 0 .. N BY WalkStays
<1>2. n = CASE hits # {}               -> w[Min(hits)]
            [] hits = {} /\ ends # {}  -> otherwise
            [] OTHER                   -> Hang
  BY DEF FirstReady
<1>3. ends # {}
  <2>1. CASE least = 0
    <3>1. PICK k \in 0 .. N : w[k] = stop BY WalkCovers
    <3> QED BY <1>1, <2>1, <3>1
  <2>2. CASE least = 1
    <3>1. PICK k \in 1 .. N : w[k] = stop BY <2>2, WalkCovers
    <3> QED BY <1>1, <2>2, <3>1
  <2> QED BY <2>1, <2>2
<1>4. CASE hits # {}
  <2>1. hits \in SUBSET Nat BY <1>1
  <2>2. Min(hits) \in hits BY <1>4, <2>1, MinLemma
  <2>3. n = w[Min(hits)] BY <1>2, <1>4
  <2>4. PICK k \in hits : n = w[k] BY <2>2, <2>3
  <2>5. w[k] \in Task /\ s.state[w[k]] = READY OBVIOUS
  <2> QED BY <2>4, <2>5
<1>5. CASE hits = {}
  <2> HIDE DEF hits, ends, n
  <2>1. n = otherwise BY <1>2, <1>3, <1>5
  <2> QED BY <2>1 DEF n
<1> QED BY <1>4, <1>5

-----------------------------------------------------------------------------
(* schedule().                                                             *)

\* What holds whenever schedule() is called: the current task has not been
\* made READY, and no other task is RUNNING.
Mid(s) ==
  /\ SType(s) /\ Ring(s) /\ ~s.hung
  /\ \A t \in Task \cup {Idle} : t # s.cur => s.state[t] # RUNNING
  /\ s.state[s.cur] # READY
  /\ s.cur = Idle => s.state[s.cur] = RUNNING

\* What holds between two steps.
Inv(s) ==
  /\ SType(s) /\ Ring(s) /\ ~s.hung
  /\ \A t \in Task \cup {Idle} : s.state[t] = RUNNING <=> t = s.cur

(* scheduler_pick_next returns a READY task, the idle task, or the current *)
(* one when it is still RUNNING.                                           *)
LEMMA PickNext ==
  ASSUME NEW s, Mid(s)
  PROVE  LET n == scheduler_pick_next(s)
         IN  \/ n \in Task /\ s.state[n] = READY
             \/ n = Idle
             \/ n = s.cur /\ s.state[n] = RUNNING
<1> DEFINE n == scheduler_pick_next(s)
<1>0. /\ s.cur \in Task \cup {Idle} /\ s.list = InitTask /\ InitTask \in Lv(s)
      /\ NoTask \notin Task \cup {Idle} /\ Idle \notin Task /\ InitTask \in Task
  BY SchedulerAssumption DEF Mid, SType, Ring
<1>1. SType(s) /\ Ring(s) BY DEF Mid
<1>2. CASE s.cur = Idle \/ s.state[s.cur] = DEAD
  <2>1. n = FirstReady(s, InitTask, InitTask, 1, Idle)
    BY <1>0, <1>2 DEF scheduler_pick_next
  <2> HIDE DEF n
  <2>2. (n \in Task /\ s.state[n] = READY) \/ n = Idle
    BY <1>0, <1>1, <2>1, FirstReadyReturns
  <2> QED BY <2>2 DEF n
<1>3. CASE s.cur # Idle /\ s.state[s.cur] # DEAD
  <2> DEFINE o == IF s.state[s.cur] \in {READY, RUNNING} THEN s.cur ELSE Idle
  <2>1. n = FirstReady(s, s.next[s.cur], s.cur, 0, o)
    BY <1>0, <1>3 DEF scheduler_pick_next
  <2>2. s.cur \in Lv(s) BY <1>0, <1>3 DEF Lv
  <2>3. s.next[s.cur] \in Lv(s) BY <1>1, <2>2 DEF Ring, Links
  <2> HIDE DEF n, o
  <2>4. (n \in Task /\ s.state[n] = READY) \/ n = o
    BY <1>1, <2>1, <2>2, <2>3, FirstReadyReturns
  <2>5. o = Idle \/ (o = s.cur /\ s.state[o] = RUNNING)
    BY DEF o, Mid
  <2> QED BY <2>4, <2>5 DEF n
<1> QED BY <1>2, <1>3

(* schedule() restores the invariant: exactly one task is RUNNING and it   *)
(* is the current one; it neither wakes nor blocks nor ends a task.        *)
LEMMA ScheduleInv ==
  ASSUME NEW s, Mid(s)
  PROVE  /\ Inv(schedule(s)) /\ schedule(s).queue = s.queue
         /\ Lv(schedule(s)) = Lv(s) /\ Bk(schedule(s)) = Bk(s)
<1> DEFINE n == scheduler_pick_next(s)
           r == schedule(s)
           st == [u \in Task \cup {Idle} |->
                   CASE u = n -> RUNNING
                     [] u = s.cur /\ u # n /\ s.state[u] = RUNNING -> READY
                     [] OTHER -> s.state[u]]
<1>0. /\ s.cur \in Task \cup {Idle} /\ NoTask \notin Task \cup {Idle}
      /\ Hang \notin Task \cup {Idle} /\ Idle \notin Task /\ DOMAIN s.state = Task \cup {Idle}
  BY SchedulerAssumption DEF Mid, SType
<1>1. \/ n \in Task /\ s.state[n] = READY
      \/ n = Idle
      \/ n = s.cur /\ s.state[n] = RUNNING
  BY PickNext
<1>2. n \in Task \cup {Idle} /\ n # Hang /\ n # NoTask
  <2> HIDE DEF n
  <2> QED BY <1>0, <1>1
<1>3. r = IF n = s.cur THEN s ELSE [s EXCEPT !.cur = n, !.state = st]
  <2> HIDE DEF n
  <2> QED BY <1>0, <1>2 DEF schedule, n
<1> HIDE DEF n, r
<1>4. CASE n = s.cur
  <2>1. r = s BY <1>3, <1>4
  <2>2. s.state[s.cur] = RUNNING BY <1>1, <1>4 DEF Mid
  <2>3. Inv(s) BY <2>2 DEF Mid, Inv
  <2> QED BY <2>1, <2>3 DEF r
<1>5. CASE n # s.cur
  <2>1. r = [s EXCEPT !.cur = n, !.state = st] BY <1>3, <1>5
  <2>2. \A u \in Task \cup {Idle} : st[u] = IF u = n THEN RUNNING
          ELSE IF u = s.cur /\ s.state[u] = RUNNING THEN READY ELSE s.state[u]
    OBVIOUS
  <2>3. st \in [Task \cup {Idle} -> {READY, RUNNING, BLOCKED, DEAD}]
    <3>1. \A u \in Task \cup {Idle} : st[u] \in {READY, RUNNING, BLOCKED, DEAD}
      BY <2>2 DEF Mid, SType
    <3> QED BY <3>1
  <2> HIDE DEF st
  <2>4. /\ SType(r) /\ r.next = s.next /\ r.prev = s.prev /\ r.queue = s.queue
        /\ r.cur = n /\ r.state = st /\ r.hung = s.hung
    BY <1>2, <2>1, <2>3 DEF Mid, SType
  <2>5. Lv(r) = Lv(s)
    <3>1. \A u \in Task : st[u] = DEAD <=> s.state[u] = DEAD
      BY <1>0, <1>1, <1>5, <2>2 DEF READY, RUNNING, DEAD, Mid
    <3> QED BY <2>4, <3>1 DEF Lv
  <2>6. Ring(r) BY <2>4, <2>5, RingSame DEF Mid
  <2>7. \A u \in Task \cup {Idle} : st[u] = RUNNING <=> u = n
    BY <1>5, <2>2 DEF Mid, READY, RUNNING
  <2>8. Bk(r) = Bk(s)
    <3>1. \A u \in Task : st[u] = BLOCKED <=> s.state[u] = BLOCKED
      BY <1>0, <1>1, <1>5, <2>2 DEF READY, RUNNING, BLOCKED, Mid
    <3> QED BY <2>4, <3>1 DEF Bk
  <2> QED BY <2>4, <2>5, <2>6, <2>7, <2>8 DEF Inv, Mid, r
<1> QED BY <1>4, <1>5

-----------------------------------------------------------------------------
(* The sleep queue.                                                        *)

\* SleepersOnTime of a queue.
OnTime(q) ==
  /\ \A i \in 1 .. Len(q) : q[i].wake >= 0
  /\ \A i, j \in 1 .. Len(q) : i < j => q[i].wake <= q[j].wake

\* The tasks that have an entry in a queue.
SleepersOf(q) == {q[i].t : i \in 1 .. Len(q)}

\* No task has two entries.
Single(q) == \A i, j \in 1 .. Len(q) : q[i].t = q[j].t => i = j

(* The elements of a sleep queue are entries.                              *)
LEMMA EntryType ==
  ASSUME NEW q \in Seq(Entry), NEW i \in 1 .. Len(q)
  PROVE  q[i] \in Entry /\ q[i].wake \in Int /\ q[i].t \in Task
<1>1. q[i] \in Entry
  <2> HIDE DEF Entry
  <2> QED OBVIOUS
<1> QED BY <1>1 DEF Entry

(* The elements of a sequence with one element inserted.                   *)
LEMMA Inserted ==
  ASSUME NEW S, NEW q \in Seq(S), NEW e \in S, NEW pos \in 1 .. Len(q) + 1
  PROVE  /\ InsertAt(q, pos, e) \in Seq(S)
         /\ Len(InsertAt(q, pos, e)) = Len(q) + 1
         /\ \A i \in 1 .. Len(q) + 1 : InsertAt(q, pos, e)[i] =
              IF i < pos THEN q[i] ELSE IF i = pos THEN e ELSE q[i - 1]
<1> DEFINE a == SubSeq(q, 1, pos - 1)
           b == SubSeq(q, pos, Len(q))
<1>0. Len(q) \in Nat /\ pos \in Nat /\ pos >= 1 /\ pos <= Len(q) + 1 OBVIOUS
<1>1. a \in Seq(S) /\ Len(a) = pos - 1 /\ \A i \in 1 .. pos - 1 : a[i] = q[i]
  BY <1>0
<1>2. b \in Seq(S) /\ Len(b) = Len(q) - pos + 1
      /\ \A i \in 1 .. Len(q) - pos + 1 : b[i] = q[pos + i - 1]
  BY <1>0
<1>3. InsertAt(q, pos, e) = (a \o <<e>>) \o b BY DEF InsertAt
<1> HIDE DEF a, b
<1> DEFINE c == a \o <<e>>
<1>4. c \in Seq(S) /\ Len(c) = pos
      /\ \A i \in 1 .. pos : c[i] = IF i < pos THEN q[i] ELSE e
  BY <1>0, <1>1
<1>5. InsertAt(q, pos, e) = c \o b BY <1>3
<1> HIDE DEF c
<1>6. c \o b \in Seq(S) /\ Len(c \o b) = Len(q) + 1
  <2>1. c \o b \in Seq(S) /\ Len(c \o b) = Len(c) + Len(b)
    BY <1>2, <1>4, ConcatProperties
  <2>2. Len(c) + Len(b) = Len(q) + 1 BY <1>0, <1>2, <1>4
  <2> QED BY <2>1, <2>2
<1>7. ASSUME NEW i \in 1 .. Len(q) + 1
      PROVE  (c \o b)[i] = IF i < pos THEN q[i] ELSE IF i = pos THEN e ELSE q[i - 1]
  <2>1. CASE i <= pos
    <3>1. (c \o b)[i] = c[i] BY <1>0, <1>2, <1>4, <1>6, <2>1
    <3> QED BY <1>0, <1>4, <2>1, <3>1
  <2>2. CASE i > pos
    <3>1. (c \o b)[i] = b[i - pos] BY <1>0, <1>2, <1>4, <1>6, <2>2
    <3>2. i - pos \in 1 .. Len(q) - pos + 1 BY <1>0, <2>2
    <3>3. b[i - pos] = q[pos + (i - pos) - 1] BY <1>2, <3>2
    <3>4. pos + (i - pos) - 1 = i - 1 BY <1>0
    <3> QED BY <1>0, <2>2, <3>1, <3>3, <3>4
  <2>3. i <= pos \/ i > pos BY <1>0
  <2> QED BY <2>1, <2>2, <2>3
<1> QED BY <1>5, <1>6, <1>7

(* sleep_queue_enqueue keeps the queue sorted and adds one entry.          *)
LEMMA EnqueueOnTime ==
  ASSUME NEW s, SType(s), OnTime(s.queue), ~sleep_queue_full(s),
         NEW t \in Task, NEW delay \in Nat
  PROVE  LET r == sleep_queue_enqueue(s, t, delay)
         IN  /\ SType(r) /\ OnTime(r.queue)
             /\ r = [s EXCEPT !.queue = r.queue]
             /\ SleepersOf(r.queue) = SleepersOf(s.queue) \cup {t}
             /\ Single(s.queue) /\ t \notin SleepersOf(s.queue) => Single(r.queue)
<1> DEFINE q == s.queue
           e == [t |-> t, wake |-> delay]
           later == {i \in 1 .. Len(q) : q[i].wake > delay}
           pos == IF later = {} THEN Len(q) + 1 ELSE Min(later)
           new == InsertAt(q, pos, e)
           r == sleep_queue_enqueue(s, t, delay)
<1>0. q \in Seq(Entry) /\ e \in Entry /\ Len(q) \in Nat /\ Len(q) < SLEEP_QUEUE_MAX
  BY SchedulerAssumption DEF SType, Entry, sleep_queue_full
<1>1. r = [s EXCEPT !.queue = new] BY DEF sleep_queue_enqueue
<1>2. /\ pos \in 1 .. Len(q) + 1
      /\ \A i \in 1 .. Len(q) : i < pos => q[i].wake <= delay
      /\ pos <= Len(q) => q[pos].wake > delay
  <2>1. \A i \in 1 .. Len(q) : q[i].wake \in Int BY <1>0, EntryType
  <2>2. CASE later = {}
    <3>1. \A i \in 1 .. Len(q) : q[i].wake <= delay BY <2>1, <2>2
    <3> QED BY <1>0, <2>2, <3>1
  <2>3. CASE later # {}
    <3>1. later \in SUBSET Nat OBVIOUS
    <3>2. Min(later) \in later /\ \A y \in later : Min(later) <= y
      BY <2>3, <3>1, MinLemma
    <3>3. pos \in later /\ \A y \in later : pos <= y BY <2>3, <3>2
    <3> HIDE DEF pos
    <3>4. pos \in 1 .. Len(q) /\ q[pos].wake > delay BY <3>3
    <3>5. ASSUME NEW i \in 1 .. Len(q), i < pos PROVE q[i].wake <= delay
      <4>1. i \notin later BY <3>3, <3>4, <3>5
      <4> QED BY <2>1, <4>1
    <3> QED BY <1>0, <3>4, <3>5
  <2> QED BY <2>2, <2>3
<1> HIDE DEF pos, later, e
<1>3. /\ new \in Seq(Entry) /\ Len(new) = Len(q) + 1
      /\ \A i \in 1 .. Len(q) + 1 : new[i] =
           IF i < pos THEN q[i] ELSE IF i = pos THEN e ELSE q[i - 1]
  <2> HIDE DEF q
  <2> QED BY <1>0, <1>2, Inserted
<1> HIDE DEF new, r
<1>4. e.wake = delay BY DEF e
<1>5. \A i \in 1 .. Len(q) : q[i].wake \in Int BY <1>0, EntryType
<1>6. OnTime(new)
  <2> USE DEF OnTime
  <2> DEFINE W(i) == new[i].wake
  <2>1. \A i \in 1 .. Len(q) + 1 : new[i].wake =
          IF i < pos THEN q[i].wake ELSE IF i = pos THEN delay ELSE q[i - 1].wake
    BY <1>3, <1>4
  <2>2. \A i \in 1 .. Len(new) : new[i].wake >= 0
    <3> SUFFICES ASSUME NEW i \in 1 .. Len(q) + 1 PROVE new[i].wake >= 0 BY <1>3
    <3>1. CASE i < pos BY <1>0, <1>2, <2>1, <3>1
    <3>2. CASE i = pos BY <2>1, <3>2
    <3>3. CASE i > pos
      <4>1. i - 1 \in 1 .. Len(q) BY <1>0, <1>2, <3>3
      <4>2. new[i].wake = q[i - 1].wake BY <1>2, <2>1, <3>3
      <4>3. q[i - 1].wake >= 0 BY <4>1
      <4> QED BY <4>2, <4>3
    <3> QED BY <1>2, <3>1, <3>2, <3>3
  <2>3. ASSUME NEW i \in 1 .. Len(q) + 1, NEW j \in 1 .. Len(q) + 1, i < j
        PROVE  new[i].wake <= new[j].wake
    <3>1. CASE j < pos
      <4>1. i \in 1 .. Len(q) /\ j \in 1 .. Len(q) BY <1>0, <1>2, <2>3, <3>1
      <4> QED BY <1>2, <2>1, <2>3, <3>1, <4>1
    <3>2. CASE j = pos
      <4>1. i \in 1 .. Len(q) BY <1>0, <2>3
      <4> QED BY <1>2, <2>1, <2>3, <3>2, <4>1
    <3>3. CASE j > pos
      <4>1. j - 1 \in 1 .. Len(q) /\ i \in 1 .. Len(q) /\ i <= j - 1 /\ pos <= j - 1
            /\ pos \in 1 .. Len(q)
        BY <1>0, <1>2, <2>3, <3>3
      <4>2. new[j].wake = q[j - 1].wake BY <1>2, <2>1, <3>3
      <4>3. q[pos].wake <= q[j - 1].wake BY <1>5, <4>1
      <4>4. CASE i < pos
        <5>1. q[i].wake <= q[j - 1].wake BY <1>5, <4>1
        <5> QED BY <2>1, <4>2, <4>4, <5>1
      <4>5. CASE i = pos
        <5>1. q[pos].wake > delay /\ q[pos].wake \in Int /\ q[j - 1].wake \in Int
          BY <1>2, <1>5, <4>1
        <5> QED BY <2>1, <4>2, <4>3, <4>5, <5>1
      <4>6. CASE i > pos
        <5>1. i - 1 \in 1 .. Len(q) /\ i - 1 < j - 1 BY <1>0, <1>2, <2>3, <4>6
        <5>2. q[i - 1].wake <= q[j - 1].wake BY <4>1, <5>1
        <5> QED BY <1>2, <2>1, <4>2, <4>6, <5>2
      <4> QED BY <1>2, <4>4, <4>5, <4>6
    <3> QED BY <1>2, <3>1, <3>2, <3>3
  <2> QED BY <1>3, <2>2, <2>3
<1>7. SType(r) /\ r.queue = new
  <2>1. Len(new) <= SLEEP_QUEUE_MAX BY <1>0, <1>3, SchedulerAssumption
  <2>2. new \in Seq([t: Task, wake: Int]) BY <1>3 DEF Entry
  <2> QED BY <1>1, <2>1, <2>2 DEF SType
<1>8. e.t = t BY DEF e
<1>9. /\ \A i \in 1 .. Len(q) : i < pos => new[i] = q[i]
      /\ \A i \in 1 .. Len(q) : i >= pos => new[i + 1] = q[i]
      /\ new[pos] = e
  <2>1. pos \in Nat BY <1>0, <1>2
  <2>2. ASSUME NEW i \in 1 .. Len(q), i < pos PROVE new[i] = q[i]
    <3>1. i \in 1 .. Len(q) + 1 BY <1>0
    <3> QED BY <1>3, <2>2, <3>1
  <2>3. ASSUME NEW i \in 1 .. Len(q), i >= pos PROVE new[i + 1] = q[i]
    <3>1. i + 1 \in 1 .. Len(q) + 1 /\ ~(i + 1 < pos) /\ i + 1 # pos /\ (i + 1) - 1 = i
      BY <1>0, <2>1, <2>3
    <3>2. new[i + 1] = q[(i + 1) - 1] BY <1>3, <3>1
    <3> QED BY <3>1, <3>2
  <2>4. new[pos] = e BY <1>2, <1>3, <2>1
  <2> QED BY <2>2, <2>3, <2>4
<1>10. ASSUME NEW i \in 1 .. Len(q) + 1
       PROVE  \/ i = pos /\ new[i] = e
              \/ \E k \in 1 .. Len(q) : new[i] = q[k] /\ k = IF i < pos THEN i ELSE i - 1
  <2>1. CASE i < pos
    <3>1. i \in 1 .. Len(q) BY <1>0, <1>2, <2>1
    <3> QED BY <1>9, <2>1, <3>1
  <2>2. CASE i = pos BY <1>9, <2>2
  <2>3. CASE i > pos
    <3>1. i - 1 \in 1 .. Len(q) /\ i - 1 >= pos /\ (i - 1) + 1 = i /\ ~(i < pos)
      BY <1>0, <1>2, <2>3
    <3>2. new[(i - 1) + 1] = q[i - 1] BY <1>9, <3>1
    <3> QED BY <3>1, <3>2
  <2> QED BY <1>2, <2>1, <2>2, <2>3
<1>11. SleepersOf(new) = SleepersOf(q) \cup {t}
  <2>1. ASSUME NEW u \in SleepersOf(new) PROVE u \in SleepersOf(q) \cup {t}
    <3>1. PICK i \in 1 .. Len(q) + 1 : u = new[i].t BY <1>3, <2>1 DEF SleepersOf
    <3>2. CASE new[i] = e BY <1>8, <3>1, <3>2
    <3>3. CASE \E k \in 1 .. Len(q) : new[i] = q[k] BY <3>1, <3>3 DEF SleepersOf
    <3> QED BY <1>10, <3>2, <3>3
  <2>2. ASSUME NEW u \in SleepersOf(q) PROVE u \in SleepersOf(new)
    <3>1. PICK i \in 1 .. Len(q) : u = q[i].t BY <2>2 DEF SleepersOf
    <3>2. i \in 1 .. Len(new) /\ i + 1 \in 1 .. Len(new) BY <1>0, <1>3
    <3>3. CASE i < pos BY <1>9, <3>1, <3>2, <3>3 DEF SleepersOf
    <3>4. CASE i >= pos BY <1>9, <3>1, <3>2, <3>4 DEF SleepersOf
    <3> QED BY <1>0, <1>2, <3>3, <3>4
  <2>3. t \in SleepersOf(new)
    <3>1. pos \in 1 .. Len(new) BY <1>2, <1>3
    <3> QED BY <1>8, <1>9, <3>1 DEF SleepersOf
  <2> QED BY <2>1, <2>2, <2>3
<1>12. ASSUME Single(q), t \notin SleepersOf(q) PROVE Single(new)
  <2>1. \A k \in 1 .. Len(q) : q[k].t # t BY <1>12 DEF SleepersOf
  <2> SUFFICES ASSUME NEW i \in 1 .. Len(q) + 1, NEW j \in 1 .. Len(q) + 1,
                      new[i].t = new[j].t
               PROVE  i = j
    BY <1>3 DEF Single
  <2>2. CASE i = pos /\ new[i] = e
    BY <1>8, <1>10, <2>1, <2>2
  <2>3. CASE j = pos /\ new[j] = e
    BY <1>8, <1>10, <2>1, <2>3
  <2>4. CASE i # pos /\ j # pos
    <3>1. PICK k \in 1 .. Len(q) : new[i] = q[k] /\ k = IF i < pos THEN i ELSE i - 1
      BY <1>10, <2>4
    <3>2. PICK l \in 1 .. Len(q) : new[j] = q[l] /\ l = IF j < pos THEN j ELSE j - 1
      BY <1>10, <2>4
    <3>3. k = l BY <1>12, <3>1, <3>2 DEF Single
    <3> QED BY <1>0, <1>2, <2>4, <3>1, <3>2, <3>3
  <2> QED BY <1>9, <2>2, <2>3, <2>4
<1> QED BY <1>1, <1>6, <1>7, <1>11, <1>12 DEF r

-----------------------------------------------------------------------------
(* Wake-ups and the timer interrupt.                                       *)

Woken(st, W) ==
  [u \in Task \cup {Idle} |-> IF u \in W /\ st[u] = BLOCKED THEN READY ELSE st[u]]

\* s after the tasks of W were woken and the sleep queue was set to q.
AfterWake(s, W, q) == [s EXCEPT !.state = Woken(s.state, W), !.queue = q]

\* r differs from s in the sleep queue and in tasks that were BLOCKED only.
OnlyWoken(r, s, q) ==
  /\ SType(r) /\ (Ring(s) => Ring(r))
  /\ r.cur = s.cur /\ r.hung = s.hung /\ r.queue = q /\ Lv(r) = Lv(s)
  /\ \A u \in Task \cup {Idle} :
       /\ r.state[u] = RUNNING <=> s.state[u] = RUNNING
       /\ s.state[u] # BLOCKED => r.state[u] = s.state[u]

(* Waking tasks, with or without a change of the sleep queue, touches      *)
(* neither the ring nor any task that is not BLOCKED.                      *)
LEMMA WokenKeeps ==
  ASSUME NEW s, SType(s), NEW W, NEW q \in Seq([t: Task, wake: Int]),
         Len(q) <= SLEEP_QUEUE_MAX,
         NEW r, r = AfterWake(s, W, q)
  PROVE  OnlyWoken(r, s, q) /\ Bk(r) = Bk(s) \ W
<1> DEFINE st == Woken(s.state, W)
<1>0. r = [s EXCEPT !.state = st, !.queue = q] BY DEF AfterWake
<1>1. \A u \in Task \cup {Idle} :
        st[u] = IF u \in W /\ s.state[u] = BLOCKED THEN READY ELSE s.state[u]
  BY DEF Woken
<1>2. st \in [Task \cup {Idle} -> {READY, RUNNING, BLOCKED, DEAD}]
  <2>1. \A u \in Task \cup {Idle} : st[u] \in {READY, RUNNING, BLOCKED, DEAD}
    BY <1>1 DEF SType
  <2> QED BY <2>1 DEF Woken
<1> HIDE DEF st
<1>3. /\ SType(r) /\ r.cur = s.cur /\ r.hung = s.hung /\ r.queue = q /\ r.ticks = s.ticks
      /\ r.next = s.next /\ r.prev = s.prev /\ r.state = st
  BY <1>0, <1>2 DEF SType
<1>4. Lv(r) = Lv(s) BY <1>1, <1>3 DEF Lv, READY, BLOCKED, DEAD
<1>5. Ring(s) => Ring(r) BY <1>3, <1>4, RingSame
<1>6. \A u \in Task \cup {Idle} :
        /\ r.state[u] = RUNNING <=> s.state[u] = RUNNING
        /\ s.state[u] # BLOCKED => r.state[u] = s.state[u]
  BY <1>1, <1>3 DEF READY, RUNNING, BLOCKED
<1>7. Bk(r) = Bk(s) \ W BY <1>1, <1>3 DEF Bk, READY, BLOCKED
<1> QED BY <1>3, <1>4, <1>5, <1>6, <1>7 DEF OnlyWoken

(* wake_all in these terms.                                                *)
LEMMA WakeAll ==
  ASSUME NEW s, SType(s), NEW W
  PROVE  /\ wake_all(s, W) = AfterWake(s, W, s.queue)
         /\ s.queue \in Seq([t: Task, wake: Int]) /\ Len(s.queue) <= SLEEP_QUEUE_MAX
<1>1. DOMAIN s.state = Task \cup {Idle} BY DEF SType
<1>2. wake_all(s, W) = [s EXCEPT !.state = Woken(s.state, W)]
  BY <1>1 DEF wake_all, Woken
<1> DEFINE st == Woken(s.state, W)
<1> HIDE DEF st
<1>3. [s EXCEPT !.state = st] = [s EXCEPT !.state = st, !.queue = s.queue]
  BY DEF SType
<1> QED BY <1>2, <1>3 DEF st, SType, AfterWake

(* sleep_queue_wake drops exactly the entries that are due and wakes their *)
(* tasks: the rest is sorted and in the future.                            *)
LEMMA SleepQueueWake ==
  ASSUME NEW s, SType(s),
         \A i, j \in 1 .. Len(s.queue) : i < j => s.queue[i].wake <= s.queue[j].wake
  PROVE  \E W : \E q \in Seq([t: Task, wake: Int]) :
           /\ sleep_queue_wake(s) = AfterWake(s, W, q)
           /\ Len(q) <= SLEEP_QUEUE_MAX /\ OnTime(q)
           /\ SleepersOf(s.queue) = W \cup SleepersOf(q)
           /\ Single(s.queue) => Single(q) /\ W \cap SleepersOf(q) = {}
<1> DEFINE old == s.queue
           n == Len(old)
           waiting == {i \in 1 .. n : old[i].wake > 0}
           due == IF waiting = {} THEN n ELSE Min(waiting) - 1
           W == {old[i].t : i \in 1 .. due}
           q == SubSeq(old, due + 1, n)
<1>0. old \in Seq(Entry) /\ n \in Nat /\ DOMAIN s.state = Task \cup {Idle}
  BY DEF SType, Entry
<1>1. sleep_queue_wake(s) = AfterWake(s, W, q)
  BY <1>0 DEF sleep_queue_wake, Woken, AfterWake
<1>2. \A i \in 1 .. n : old[i] \in Entry /\ old[i].wake \in Int BY <1>0, EntryType
<1>3. due \in 0 .. n /\ \A i \in due + 1 .. n : old[i].wake > 0
  <2>1. CASE waiting = {} BY <1>0, <2>1
  <2>2. CASE waiting # {}
    <3>1. waiting \in SUBSET Nat OBVIOUS
    <3>2. Min(waiting) \in waiting BY <2>2, <3>1, MinLemma
    <3>3. PICK m \in waiting : m = Min(waiting) BY <3>2
    <3>4. due = m - 1 /\ m \in 1 .. n /\ old[m].wake > 0 BY <2>2, <3>3
    <3> HIDE DEF due
    <3>5. ASSUME NEW i \in m .. n PROVE old[i].wake > 0
      <4>1. i \in 1 .. n BY <3>4
      <4>2. CASE i = m BY <3>4, <4>2
      <4>3. CASE i # m
        <5>1. m < i BY <3>4, <4>3
        <5>2. old[m].wake <= old[i].wake BY <3>4, <4>1, <5>1
        <5> QED BY <1>2, <3>4, <4>1, <5>2
      <4> QED BY <4>2, <4>3
    <3>6. due \in 0 .. n /\ due + 1 = m BY <1>0, <3>4
    <3> QED BY <3>5, <3>6
  <2> QED BY <2>1, <2>2
<1> HIDE DEF due, n
<1>4. /\ q \in Seq(Entry) /\ Len(q) = n - due
      /\ \A i \in 1 .. n - due : q[i] = old[i + due]
  <2>1. \A i \in due + 1 .. n : old[i] \in Entry BY <1>0, <1>2, <1>3
  <2>2. due + 1 \in Int /\ n \in Int BY <1>0, <1>3
  <2>3. /\ q \in Seq(Entry)
        /\ Len(q) = IF due + 1 <= n THEN n - (due + 1) + 1 ELSE 0
        /\ \A i \in 1 .. n - (due + 1) + 1 : q[i] = old[(due + 1) + i - 1]
    <3> HIDE DEF old
    <3> QED BY ONLY <2>1, <2>2, SubSeqProperties
  <2> HIDE DEF q
  <2>4. Len(q) = n - due BY <1>0, <1>3, <2>3
  <2>5. ASSUME NEW i \in 1 .. n - due PROVE q[i] = old[i + due]
    <3>1. i \in 1 .. n - (due + 1) + 1 /\ (due + 1) + i - 1 = i + due BY <1>0, <1>3
    <3> QED BY <2>3, <3>1
  <2> QED BY <2>3, <2>4, <2>5
<1> HIDE DEF q
<1>5. OnTime(q)
  <2>1. \A i \in 1 .. n - due : i + due \in due + 1 .. n /\ i + due \in 1 .. n
    BY <1>0, <1>3
  <2>2. \A i \in 1 .. Len(q) : q[i].wake >= 0
    <3> SUFFICES ASSUME NEW i \in 1 .. n - due PROVE q[i].wake >= 0 BY <1>4
    <3>1. q[i].wake = old[i + due].wake BY <1>4
    <3>2. old[i + due].wake > 0 /\ old[i + due].wake \in Int BY <1>2, <1>3, <2>1
    <3> QED BY <3>1, <3>2
  <2>3. ASSUME NEW i \in 1 .. n - due, NEW j \in 1 .. n - due, i < j
        PROVE  q[i].wake <= q[j].wake
    <3>1. i + due < j + due BY <1>0, <1>3, <2>3
    <3>2. old[i + due].wake <= old[j + due].wake BY <2>1, <3>1 DEF n
    <3> QED BY <1>4, <3>2
  <2> QED BY <1>4, <2>2, <2>3 DEF OnTime
<1>6. Len(q) <= SLEEP_QUEUE_MAX
  <2>1. n <= SLEEP_QUEUE_MAX BY DEF SType, n
  <2> QED BY <1>0, <1>3, <1>4, <2>1, SchedulerAssumption
<1>7. q \in Seq([t: Task, wake: Int]) BY <1>4 DEF Entry
<1>8. /\ \A i \in 1 .. n - due : i + due \in 1 .. n /\ i + due > due
      /\ \A k \in 1 .. n : k > due => k - due \in 1 .. n - due /\ (k - due) + due = k
      /\ \A i \in 1 .. due : i \in 1 .. n
      /\ \A k \in 1 .. n : k > due \/ k \in 1 .. due
  BY <1>0, <1>3
<1>9. SleepersOf(old) = W \cup SleepersOf(q)
  <2>1. ASSUME NEW u \in SleepersOf(old) PROVE u \in W \cup SleepersOf(q)
    <3>1. PICK k \in 1 .. n : u = old[k].t BY <2>1 DEF SleepersOf, n
    <3>2. CASE k \in 1 .. due BY <3>1, <3>2
    <3>3. CASE k > due
      <4>1. k - due \in 1 .. n - due /\ q[k - due] = old[(k - due) + due]
            /\ (k - due) + due = k
        BY <1>4, <1>8, <3>3
      <4>2. u = q[k - due].t /\ k - due \in 1 .. Len(q) BY <1>4, <3>1, <4>1
      <4> QED BY <4>2 DEF SleepersOf
    <3> QED BY <1>8, <3>2, <3>3
  <2>2. ASSUME NEW u \in SleepersOf(q) PROVE u \in SleepersOf(old)
    <3>1. PICK i \in 1 .. n - due : u = q[i].t BY <1>4, <2>2 DEF SleepersOf
    <3> QED BY <1>4, <1>8, <3>1 DEF SleepersOf, n
  <2>3. ASSUME NEW u \in W PROVE u \in SleepersOf(old)
    BY <1>8, <2>3 DEF SleepersOf, n
  <2> HIDE DEF W
  <2> QED BY <2>1, <2>2, <2>3
<1>10. ASSUME Single(old) PROVE Single(q) /\ W \cap SleepersOf(q) = {}
  <2>0. \A i, j \in 1 .. n : old[i].t = old[j].t => i = j BY <1>10 DEF Single, n
  <2>1. ASSUME NEW i \in 1 .. n - due, NEW j \in 1 .. n - due, q[i].t = q[j].t PROVE i = j
    <3>1. i + due = j + due BY <1>4, <1>8, <2>0, <2>1
    <3> QED BY <1>3, <3>1
  <2>2. Single(q) BY <1>4, <2>1 DEF Single
  <2>3. ASSUME NEW k \in 1 .. due, NEW i \in 1 .. n - due PROVE old[k].t # q[i].t
    <3>1. k # i + due BY <1>0, <1>3
    <3> QED BY <1>4, <1>8, <2>0, <3>1
  <2>4. W \cap SleepersOf(q) = {} BY <1>4, <2>3 DEF SleepersOf
  <2> QED BY <2>2, <2>4
<1> HIDE DEF W
<1> QED BY <1>1, <1>5, <1>6, <1>7, <1>9, <1>10

-----------------------------------------------------------------------------
(* The steps.                                                              *)

\* The inductive invariant.
SchedInv == Inv(g_sched) /\ OnTime(g_sched.queue)

\* The blocked tasks, and the tasks with an entry in the sleep queue.
Blocked == Bk(g_sched)
Asleep == SleepersOf(g_sched.queue)

\* The sleep queue has entries of the same tasks, each as often as before.
SameSleepers == Asleep' = Asleep /\ (Single(g_sched.queue) => Single(g_sched'.queue))

\* The tasks of W are woken and have no entry in the sleep queue any more.
SleepersWoken(W) ==
  /\ Blocked' = Blocked \ W /\ Asleep = W \cup Asleep'
  /\ Single(g_sched.queue) => Single(g_sched'.queue) /\ W \cap Asleep' = {}

(* Live in terms of the record.                                            *)
LEMMA LiveTasksOf == Live = Lv(g_sched) /\ Live' = Lv(g_sched')
BY DEF Live, Lv

(* Between two steps the current task may call schedule().                 *)
LEMMA InvMid ==
  ASSUME NEW s, Inv(s)
  PROVE  Mid(s) /\ (s.cur # Idle => s.cur \in Lv(s))
<1>1. s.cur \in Task \cup {Idle} /\ s.state[s.cur] = RUNNING BY DEF Inv, SType
<1>2. s.cur # Idle => s.cur \in Lv(s) BY <1>1 DEF Lv, RUNNING, DEAD
<1>3. s.state[s.cur] # READY BY <1>1 DEF RUNNING, READY
<1> QED BY <1>1, <1>2, <1>3 DEF Inv, Mid

(* The current task may block itself and then call schedule().             *)
LEMMA BlockMid ==
  ASSUME NEW s, Inv(s), s.cur # Idle
  PROVE  /\ Mid(task_set_blocked(s, s.cur))
         /\ task_set_blocked(s, s.cur).queue = s.queue
         /\ Lv(task_set_blocked(s, s.cur)) = Lv(s)
         /\ Bk(task_set_blocked(s, s.cur)) = Bk(s) \cup {s.cur}
<1> DEFINE r == task_set_blocked(s, s.cur)
           st == [s.state EXCEPT ![s.cur] = BLOCKED]
<1>1. s.cur \in Task /\ s.state[s.cur] = RUNNING /\ s.cur \in Lv(s)
  BY InvMid DEF Inv, SType
<1>2. r = [s EXCEPT !.state = st]
  BY <1>1 DEF task_set_blocked, RUNNING, DEAD
<1>3. /\ st \in [Task \cup {Idle} -> {READY, RUNNING, BLOCKED, DEAD}]
      /\ \A u \in Task \cup {Idle} : st[u] = IF u = s.cur THEN BLOCKED ELSE s.state[u]
  BY <1>1 DEF Inv, SType
<1> HIDE DEF st, r
<1>4. /\ SType(r) /\ r.cur = s.cur /\ r.hung = s.hung /\ r.queue = s.queue
      /\ r.next = s.next /\ r.prev = s.prev /\ r.state = st
  BY <1>2, <1>3 DEF Inv, SType
<1>5. Lv(r) = Lv(s)
  BY <1>1, <1>3, <1>4 DEF Lv, BLOCKED, DEAD, RUNNING
<1>6. Ring(r) BY <1>4, <1>5, RingSame DEF Inv
<1>7. \A u \in Task \cup {Idle} : u # r.cur => r.state[u] # RUNNING
  BY <1>3, <1>4 DEF Inv
<1>8. r.state[r.cur] # READY BY <1>1, <1>3, <1>4 DEF READY, BLOCKED
<1>9. Bk(r) = Bk(s) \cup {s.cur} BY <1>1, <1>3, <1>4 DEF Bk
<1> QED BY <1>4, <1>5, <1>6, <1>7, <1>8, <1>9 DEF Mid, Inv, r

(* scheduler_init and the first task establish the invariant.              *)
LEMMA SchedInitInv == SchedInit => SchedInv
<1> SUFFICES ASSUME SchedInit PROVE SchedInv OBVIOUS
<1>0. InitTask \in Task /\ Idle \notin Task /\ SchedulePeriod \in Nat \ {0}
      /\ SLEEP_QUEUE_MAX \in Nat
  BY SchedulerAssumption
<1>1. <<>> \in Seq([t: Task, wake: Int]) /\ Len(<<>>) = 0 OBVIOUS
<1>2. /\ g_sched.list = InitTask /\ g_sched.cur = InitTask /\ g_sched.queue = <<>>
      /\ ~g_sched.hung /\ g_sched.next[InitTask] = InitTask
      /\ g_sched.prev[InitTask] = InitTask
      /\ \A t \in Task \cup {Idle} : g_sched.state[t] =
           IF t = InitTask THEN RUNNING ELSE IF t = Idle THEN READY ELSE DEAD
  BY <1>0 DEF SchedInit
<1>3. SType(g_sched)
  <2> DEFINE n == [t \in Task |-> IF t = InitTask THEN t ELSE NoTask]
             st == [t \in Task \cup {Idle} |-> IF t = InitTask THEN RUNNING
                                               ELSE IF t = Idle THEN READY ELSE DEAD]
  <2>1. n \in [Task -> Task \cup {NoTask}] OBVIOUS
  <2>2. st \in [Task \cup {Idle} -> {READY, RUNNING, BLOCKED, DEAD}] OBVIOUS
  <2>3. g_sched = [list |-> InitTask, cur |-> InitTask, next |-> n, prev |-> n,
                   state |-> st, queue |-> <<>>, ticks |-> 0, hung |-> FALSE]
    BY DEF SchedInit
  <2>4. 0 \in 0 .. SchedulePeriod - 1 /\ 0 <= SLEEP_QUEUE_MAX BY <1>0
  <2> HIDE DEF n, st
  <2> QED BY <1>0, <1>1, <2>1, <2>2, <2>3, <2>4 DEF SType
<1>4. Lv(g_sched) = {InitTask}
  BY <1>0, <1>2 DEF Lv, RUNNING, READY, DEAD
<1>5. Ring(g_sched) BY <1>2, <1>4 DEF Ring, Links, One
<1>6. \A t \in Task \cup {Idle} : g_sched.state[t] = RUNNING <=> t = g_sched.cur
  BY <1>2 DEF RUNNING, READY, DEAD
<1>7. OnTime(g_sched.queue) BY <1>1, <1>2 DEF OnTime
<1> QED BY <1>2, <1>3, <1>5, <1>6, <1>7 DEF SchedInv, Inv

(* task_create and scheduler_add.                                          *)
LEMMA SchedCreateInv ==
  ASSUME SchedInv, NEW t \in Task, SchedCreate(t)
  PROVE  SchedInv' /\ Live' = Live \cup {t} /\ Blocked' = Blocked \ {t} /\ SameSleepers
<1> DEFINE s == g_sched
           r == scheduler_add(task_create(s, t), t)
<1>1. t \notin Lv(s) /\ g_sched' = r BY DEF SchedCreate, Live, Lv
<1>2. Inv(s) /\ OnTime(s.queue) BY DEF SchedInv
<1>3. Ring(r) /\ SType(r) BY <1>1, <1>2, AddRing DEF Inv
<1>4. InitTask # NoTask /\ s.list = InitTask
  BY <1>2, SchedulerAssumption DEF Inv, SType
<1>5. r.cur = s.cur /\ r.hung = s.hung /\ r.queue = s.queue
      /\ r.state = [s.state EXCEPT ![t] = READY]
  <2> DEFINE c == task_create(s, t)
  <2>1. c.cur = s.cur /\ c.hung = s.hung /\ c.queue = s.queue /\ c.list = s.list
        /\ c.state = [s.state EXCEPT ![t] = READY]
        /\ c \in [list: {InitTask}, cur: Task \cup {Idle},
                  next: [Task -> Task \cup {NoTask}],
                  prev: [Task -> Task \cup {NoTask}],
                  state: [Task \cup {Idle} -> {READY, RUNNING, BLOCKED, DEAD}],
                  queue: Seq([t: Task, wake: Int]),
                  ticks: 0 .. SchedulePeriod - 1, hung: BOOLEAN]
    BY <1>2 DEF task_create, Inv, SType
  <2>2. r = scheduler_add(c, t) OBVIOUS
  <2> HIDE DEF c, r, s
  <2> QED BY <1>4, <2>1, <2>2 DEF scheduler_add
<1> HIDE DEF r
<1>6. \A u \in Task \cup {Idle} :
        r.state[u] = IF u = t THEN READY ELSE s.state[u]
  BY <1>2, <1>5 DEF Inv, SType
<1>7. s.state[t] = DEAD BY <1>1 DEF Lv
<1>8. \A u \in Task \cup {Idle} : r.state[u] = RUNNING <=> u = r.cur
  BY <1>2, <1>5, <1>6, <1>7 DEF Inv, READY, RUNNING, DEAD
<1>9. Lv(r) = Lv(s) \cup {t} /\ Bk(r) = Bk(s) \ {t}
  BY <1>6 DEF Lv, Bk, READY, DEAD, BLOCKED
<1>10. SameSleepers BY <1>1, <1>5 DEF SameSleepers, Asleep
<1>11. SchedInv' BY <1>1, <1>2, <1>3, <1>5, <1>8 DEF SchedInv, Inv
<1>12. Blocked = Bk(s) /\ Blocked' = Bk(r) BY <1>1 DEF Blocked
<1> QED BY <1>1, <1>9, <1>10, <1>11, <1>12, LiveTasksOf

(* The system calls that block or yield.                                   *)
LEMMA SchedBlockInv ==
  ASSUME SchedInv, SchedBlock
  PROVE  SchedInv' /\ Live' = Live /\ Blocked' = Blocked \cup {cur} /\ SameSleepers
<1> DEFINE r == task_set_blocked(g_sched, cur)
<1>1. /\ Mid(r) /\ r.queue = g_sched.queue
      /\ Lv(r) = Lv(g_sched) /\ Bk(r) = Bk(g_sched) \cup {cur}
  BY BlockMid DEF SchedBlock, SchedInv, cur
<1>2. g_sched' = schedule(r) BY DEF SchedBlock
<1> HIDE DEF r
<1>3. /\ Inv(g_sched') /\ g_sched'.queue = r.queue
      /\ Lv(g_sched') = Lv(r) /\ Bk(g_sched') = Bk(r)
  BY <1>1, <1>2, ScheduleInv
<1>4. SchedInv' BY <1>1, <1>3 DEF SchedInv
<1> QED BY <1>1, <1>3, <1>4, LiveTasksOf DEF Blocked, SameSleepers, Asleep

(* SYS_YIELD preserves the inductive invariant.                            *)
LEMMA SchedYieldInv ==
  ASSUME SchedInv, SchedYield
  PROVE  SchedInv' /\ Live' = Live /\ Blocked' = Blocked /\ SameSleepers
<1>1. /\ Inv(schedule(g_sched)) /\ schedule(g_sched).queue = g_sched.queue
      /\ Lv(schedule(g_sched)) = Lv(g_sched) /\ Bk(schedule(g_sched)) = Bk(g_sched)
  BY InvMid, ScheduleInv DEF SchedInv
<1>2. g_sched' = schedule(g_sched) BY DEF SchedYield
<1> QED BY <1>1, <1>2, LiveTasksOf DEF SchedInv, Blocked, SameSleepers, Asleep

(* SYS_SLEEP, with a full and with a free sleep queue.                     *)
LEMMA SchedSleepInv ==
  ASSUME SchedInv, NEW delay \in 0 .. MaxDelay, SchedSleep(delay)
  PROVE  /\ SchedInv' /\ Live' = Live
         /\ \/ Blocked' = Blocked /\ SameSleepers
            \/ /\ Blocked' = Blocked \cup {cur} /\ Asleep' = Asleep \cup {cur}
               /\ Single(g_sched.queue) /\ cur \notin Asleep => Single(g_sched'.queue)
<1>0. Inv(g_sched) /\ OnTime(g_sched.queue) /\ g_sched.cur # Idle /\ delay \in Nat
      /\ g_sched.cur \in Task /\ SType(g_sched)
  BY SchedulerAssumption DEF SchedInv, SchedSleep, cur, Inv, SType
<1>1. CASE sleep_queue_full(g_sched)
  <2>1. g_sched' = schedule(g_sched)
    BY <1>1 DEF SchedSleep, enter_sleep, cur
  <2>2. /\ Inv(schedule(g_sched)) /\ schedule(g_sched).queue = g_sched.queue
        /\ Lv(schedule(g_sched)) = Lv(g_sched) /\ Bk(schedule(g_sched)) = Bk(g_sched)
    BY <1>0, InvMid, ScheduleInv
  <2> QED BY <1>0, <2>1, <2>2, LiveTasksOf DEF SchedInv, Blocked, SameSleepers, Asleep
<1>2. CASE ~sleep_queue_full(g_sched)
  <2> DEFINE e == sleep_queue_enqueue(g_sched, g_sched.cur, delay)
             b == task_set_blocked(e, g_sched.cur)
  <2>1. g_sched' = schedule(b)
    BY <1>2 DEF SchedSleep, enter_sleep, cur
  <2>2. /\ SType(e) /\ OnTime(e.queue) /\ e = [g_sched EXCEPT !.queue = e.queue]
        /\ SleepersOf(e.queue) = SleepersOf(g_sched.queue) \cup {g_sched.cur}
        /\ Single(g_sched.queue) /\ g_sched.cur \notin SleepersOf(g_sched.queue)
             => Single(e.queue)
    BY <1>0, <1>2, EnqueueOnTime
  <2> HIDE DEF e
  <2>3. /\ e.cur = g_sched.cur /\ e.state = g_sched.state /\ e.hung = g_sched.hung
        /\ e.next = g_sched.next /\ e.prev = g_sched.prev
    BY <1>0, <2>2 DEF SType
  <2>4. Ring(e)
    <3>1. Lv(e) = Lv(g_sched) BY <2>3 DEF Lv
    <3> QED BY <1>0, <2>3, <3>1, RingSame DEF Inv
  <2>5. Inv(e) BY <1>0, <2>2, <2>3, <2>4 DEF Inv
  <2>6. /\ Mid(b) /\ b.queue = e.queue
        /\ Lv(b) = Lv(e) /\ Bk(b) = Bk(e) \cup {g_sched.cur}
    BY <1>0, <2>3, <2>5, BlockMid
  <2> HIDE DEF b
  <2>7. /\ Inv(schedule(b)) /\ schedule(b).queue = b.queue
        /\ Lv(schedule(b)) = Lv(b) /\ Bk(schedule(b)) = Bk(b)
    BY <2>6, ScheduleInv
  <2>8. Lv(e) = Lv(g_sched) /\ Bk(e) = Bk(g_sched) BY <2>3 DEF Lv, Bk
  <2>9. SchedInv' BY <2>1, <2>2, <2>6, <2>7 DEF SchedInv
  <2>10. Live' = Live BY <2>1, <2>6, <2>7, <2>8, LiveTasksOf
  <2>11. Blocked' = Blocked \cup {cur} BY <2>1, <2>6, <2>7, <2>8 DEF Blocked, cur
  <2>12. g_sched'.queue = e.queue BY <2>1, <2>6, <2>7
  <2>13. Asleep' = Asleep \cup {cur} BY <2>2, <2>12 DEF Asleep, cur
  <2>14. Single(g_sched.queue) /\ cur \notin Asleep => Single(g_sched'.queue)
    BY <2>2, <2>12 DEF Asleep, cur
  <2> QED BY <2>9, <2>10, <2>11, <2>13, <2>14
<1> QED BY <1>1, <1>2

(* A task other than the current one is unlinked, and waiters are woken.   *)
LEMMA SchedKillInv ==
  ASSUME SchedInv, NEW t \in Task, NEW W \in SUBSET Task, SchedKill(t, W)
  PROVE  /\ SchedInv' /\ SameSleepers
         /\ Live' = Live \ {t} /\ Blocked' = Blocked \ (W \cup {t})
<1> DEFINE s == g_sched
           d == unlink_dead(s, t)
<1>0. Inv(s) /\ OnTime(s.queue) /\ SType(s) /\ Ring(s) BY DEF SchedInv, Inv
<1>1. t \in Lv(s) /\ t # s.cur /\ t # InitTask /\ g_sched' = wake_all(d, W)
  BY <1>0 DEF SchedKill, Live, Lv, cur, SType
<1>2. /\ Ring(d) /\ SType(d)
      /\ d = [s EXCEPT !.state = [s.state EXCEPT ![t] = DEAD],
                       !.next = d.next, !.prev = d.prev]
  BY <1>0, <1>1, RemoveRing
<1>3. /\ d.cur = s.cur /\ d.hung = s.hung /\ d.queue = s.queue
      /\ \A u \in Task \cup {Idle} : d.state[u] = IF u = t THEN DEAD ELSE s.state[u]
  BY <1>0, <1>1, RemoveFields
<1> HIDE DEF d
<1>4. \A u \in Task \cup {Idle} : d.state[u] = RUNNING <=> u = s.cur
  BY <1>0, <1>1, <1>3 DEF Inv, DEAD, RUNNING
<1> DEFINE r == AfterWake(d, W, d.queue)
<1>5. wake_all(d, W) = r /\ d.queue \in Seq([t: Task, wake: Int])
      /\ Len(d.queue) <= SLEEP_QUEUE_MAX
  BY <1>2, WakeAll
<1>5a. r = AfterWake(d, W, d.queue) OBVIOUS
<1> HIDE DEF r
<1>6. /\ SType(r) /\ Ring(r) /\ r.cur = d.cur /\ r.hung = d.hung /\ r.queue = d.queue
      /\ \A u \in Task \cup {Idle} : r.state[u] = RUNNING <=> d.state[u] = RUNNING
      /\ Lv(r) = Lv(d) /\ Bk(r) = Bk(d) \ W
  <2>1. OnlyWoken(r, d, d.queue) /\ Bk(r) = Bk(d) \ W BY <1>2, <1>5, <1>5a, WokenKeeps
  <2> QED BY <1>2, <1>5, <1>5a, <2>1 DEF OnlyWoken
<1>7. Inv(r) BY <1>0, <1>3, <1>4, <1>6 DEF Inv
<1>8. Lv(d) = Lv(s) \ {t} /\ Bk(d) = Bk(s) \ {t} BY <1>3 DEF Lv, Bk, DEAD, BLOCKED
<1>9. SchedInv' BY <1>0, <1>1, <1>3, <1>5, <1>6, <1>7 DEF SchedInv
<1>10. SameSleepers BY <1>1, <1>3, <1>5, <1>6 DEF SameSleepers, Asleep
<1>11. Live' = Live \ {t} BY <1>1, <1>5, <1>6, <1>8, LiveTasksOf
<1>12. Blocked' = Blocked \ (W \cup {t}) BY <1>1, <1>5, <1>6, <1>8 DEF Blocked
<1> QED BY <1>9, <1>10, <1>11, <1>12

(* A task, as a rule the current one, is unlinked, waiters are woken, and  *)
(* schedule() leaves a current task that is dead for good.                 *)
LEMMA SchedExitInv ==
  ASSUME SchedInv, NEW t \in Task, NEW W \in SUBSET Task, SchedExit(t, W)
  PROVE  /\ SchedInv' /\ SameSleepers
         /\ Live' = Live \ {t} /\ Blocked' = Blocked \ (W \cup {t})
<1> DEFINE s == g_sched
           d == unlink_dead(s, t)
<1>0. Inv(s) /\ OnTime(s.queue) /\ SType(s) /\ Ring(s) BY DEF SchedInv, Inv
<1>1. t \in Lv(s) /\ s.cur # Idle /\ t # InitTask /\ g_sched' = schedule(wake_all(d, W))
  BY <1>0, LiveTasksOf DEF SchedExit, cur, SType
<1>2. /\ Ring(d) /\ SType(d)
      /\ d = [s EXCEPT !.state = [s.state EXCEPT ![t] = DEAD],
                       !.next = d.next, !.prev = d.prev]
  BY <1>0, <1>1, RemoveRing
<1>3. /\ d.cur = s.cur /\ d.hung = s.hung /\ d.queue = s.queue
      /\ \A u \in Task \cup {Idle} : d.state[u] = IF u = t THEN DEAD ELSE s.state[u]
  BY <1>0, <1>1, RemoveFields
<1> HIDE DEF d
<1>4. /\ \A u \in Task \cup {Idle} : u # s.cur => d.state[u] # RUNNING
      /\ s.cur \in Task \cup {Idle} /\ d.state[s.cur] \in {RUNNING, DEAD}
  BY <1>0, <1>1, <1>3 DEF Inv, SType, DEAD, RUNNING
<1> DEFINE r == AfterWake(d, W, d.queue)
<1>6. wake_all(d, W) = r /\ d.queue \in Seq([t: Task, wake: Int])
      /\ Len(d.queue) <= SLEEP_QUEUE_MAX
  BY <1>2, WakeAll
<1>6a. r = AfterWake(d, W, d.queue) OBVIOUS
<1> HIDE DEF r
<1>7. /\ SType(r) /\ Ring(r) /\ r.cur = d.cur /\ r.hung = d.hung /\ r.queue = d.queue
      /\ \A u \in Task \cup {Idle} :
           /\ r.state[u] = RUNNING <=> d.state[u] = RUNNING
           /\ d.state[u] # BLOCKED => r.state[u] = d.state[u]
      /\ Lv(r) = Lv(d) /\ Bk(r) = Bk(d) \ W
  <2>1. OnlyWoken(r, d, d.queue) /\ Bk(r) = Bk(d) \ W BY <1>2, <1>6, <1>6a, WokenKeeps
  <2> QED BY <1>2, <1>6, <1>6a, <2>1 DEF OnlyWoken
<1>8. r.state[s.cur] = d.state[s.cur] BY <1>4, <1>7 DEF BLOCKED, RUNNING, DEAD
<1>9. Mid(r)
  <2>1. r.state[r.cur] # READY BY <1>3, <1>4, <1>7, <1>8 DEF RUNNING, DEAD, READY
  <2>2. r.cur # Idle /\ ~r.hung BY <1>0, <1>1, <1>3, <1>7 DEF Inv
  <2> QED BY <1>3, <1>4, <1>7, <2>1, <2>2 DEF Mid
<1>10. /\ Inv(schedule(r)) /\ schedule(r).queue = r.queue
       /\ Lv(schedule(r)) = Lv(r) /\ Bk(schedule(r)) = Bk(r)
  BY <1>9, ScheduleInv
<1>11. Lv(d) = Lv(s) \ {t} /\ Bk(d) = Bk(s) \ {t} BY <1>3 DEF Lv, Bk, DEAD, BLOCKED
<1>12. SchedInv' BY <1>0, <1>1, <1>3, <1>6, <1>7, <1>10 DEF SchedInv
<1>13. SameSleepers BY <1>1, <1>3, <1>6, <1>7, <1>10 DEF SameSleepers, Asleep
<1>14. Live' = Live \ {t} BY <1>1, <1>6, <1>7, <1>10, <1>11, LiveTasksOf
<1>15. Blocked' = Blocked \ (W \cup {t}) BY <1>1, <1>6, <1>7, <1>10, <1>11 DEF Blocked
<1> QED BY <1>12, <1>13, <1>14, <1>15

(* A wake-up changes no task that runs.                                    *)
LEMMA SchedWakeInv ==
  ASSUME SchedInv, NEW W \in SUBSET Task, SchedWake(W)
  PROVE  SchedInv' /\ SameSleepers /\ Live' = Live /\ Blocked' = Blocked \ W
<1> DEFINE s == g_sched
           r == AfterWake(s, W, s.queue)
<1>0. Inv(s) /\ OnTime(s.queue) /\ SType(s) /\ Ring(s) BY DEF SchedInv, Inv
<1>1. g_sched' = r /\ s.queue \in Seq([t: Task, wake: Int])
      /\ Len(s.queue) <= SLEEP_QUEUE_MAX
  BY <1>0, WakeAll DEF SchedWake
<1>1a. r = AfterWake(s, W, s.queue) OBVIOUS
<1> HIDE DEF r
<1>2. /\ SType(r) /\ Ring(r) /\ r.cur = s.cur /\ r.hung = s.hung /\ r.queue = s.queue
      /\ \A u \in Task \cup {Idle} : r.state[u] = RUNNING <=> s.state[u] = RUNNING
      /\ Lv(r) = Lv(s) /\ Bk(r) = Bk(s) \ W
  <2>1. OnlyWoken(r, s, s.queue) /\ Bk(r) = Bk(s) \ W BY <1>0, <1>1, <1>1a, WokenKeeps
  <2> QED BY <1>0, <1>1, <1>1a, <2>1 DEF OnlyWoken
<1>3. Inv(r) BY <1>0, <1>2 DEF Inv
<1>4. SchedInv' BY <1>0, <1>1, <1>2, <1>3 DEF SchedInv
<1>5. SameSleepers BY <1>1, <1>2 DEF SameSleepers, Asleep
<1>6. Live' = Live /\ Blocked' = Blocked \ W BY <1>1, <1>2, LiveTasksOf DEF Blocked
<1> QED BY <1>4, <1>5, <1>6

(* The timer interrupt: the tick, the sleepers that are due, schedule().   *)
LEMMA SchedTimerInv ==
  ASSUME SchedInv, SchedTimer
  PROVE  /\ SchedInv' /\ Live' = Live
         /\ \E W \in SUBSET Asleep : SleepersWoken(W)
<1> DEFINE s == g_sched
           q == one_tick(s.queue)
           k == [s EXCEPT !.ticks = (s.ticks + 1) % SchedulePeriod, !.queue = q]
           w == sleep_queue_wake(k)
<1>0. Inv(s) /\ OnTime(s.queue) /\ SType(s) /\ Ring(s) BY DEF SchedInv, Inv
<1>1. g_sched' = IF w.ticks = 0 THEN schedule(w) ELSE w
  BY DEF SchedTimer, timer_handler
<1>2. /\ q \in Seq([t: Task, wake: Int]) /\ Len(q) = Len(s.queue)
      /\ \A i, j \in 1 .. Len(q) : i < j => q[i].wake <= q[j].wake
      /\ SleepersOf(q) = SleepersOf(s.queue) /\ (Single(s.queue) => Single(q))
  <2>1. s.queue \in Seq(Entry) /\ Len(s.queue) \in Nat /\ DOMAIN s.queue = 1 .. Len(s.queue)
    BY <1>0 DEF SType, Entry
  <2>2. \A i \in 1 .. Len(s.queue) : s.queue[i] \in Entry /\ s.queue[i].wake \in Int
    BY <2>1, EntryType
  <2>3. /\ q = [i \in 1 .. Len(s.queue) |->
                   [t |-> s.queue[i].t, wake |-> s.queue[i].wake - 1]]
        /\ \A i \in 1 .. Len(s.queue) :
              [t |-> s.queue[i].t, wake |-> s.queue[i].wake - 1] \in Entry
    BY <2>1, <2>2 DEF Entry, one_tick
  <2>4. q \in [1 .. Len(s.queue) -> Entry] BY <2>3
  <2>5. q \in Seq(Entry) /\ Len(q) = Len(s.queue)
    <3> HIDE DEF q, s
    <3> QED BY <2>1, <2>4
  <2>6. \A i \in 1 .. Len(q) : q[i].wake = s.queue[i].wake - 1
    BY <2>1, <2>3, <2>5
  <2>7. \A i, j \in 1 .. Len(q) : i < j => q[i].wake <= q[j].wake
    <3> HIDE DEF q
    <3> SUFFICES ASSUME NEW i \in 1 .. Len(q), NEW j \in 1 .. Len(q), i < j
                 PROVE  q[i].wake <= q[j].wake
      OBVIOUS
    <3>1. s.queue[i].wake <= s.queue[j].wake BY <1>0, <2>5 DEF OnTime
    <3>2. s.queue[i].wake \in Int /\ s.queue[j].wake \in Int BY <2>2, <2>5
    <3> QED BY <2>6, <3>1, <3>2
  <2>8. \A i \in 1 .. Len(q) : q[i].t = s.queue[i].t BY <2>1, <2>3, <2>5
  <2>9. SleepersOf(q) = SleepersOf(s.queue) /\ (Single(s.queue) => Single(q))
    <3> HIDE DEF q
    <3> QED BY <2>5, <2>8 DEF SleepersOf, Single
  <2> QED BY <2>5, <2>7, <2>9 DEF Entry
<1> HIDE DEF q
<1>3. (s.ticks + 1) % SchedulePeriod \in 0 .. SchedulePeriod - 1
  <2>1. s.ticks \in Nat /\ SchedulePeriod \in Nat \ {0}
    BY <1>0, SchedulerAssumption DEF SType
  <2> QED BY <2>1
<1>4. /\ SType(k) /\ k.cur = s.cur /\ k.hung = s.hung /\ k.state = s.state
      /\ k.next = s.next /\ k.prev = s.prev /\ k.queue = q
  BY <1>0, <1>2, <1>3 DEF SType
<1> HIDE DEF k
<1>5. Ring(k)
  <2>1. Lv(k) = Lv(s) BY <1>4 DEF Lv
  <2> QED BY <1>0, <1>4, <2>1, RingSame
<1>6. PICK W : \E p \in Seq([t: Task, wake: Int]) :
        /\ w = AfterWake(k, W, p)
        /\ Len(p) <= SLEEP_QUEUE_MAX /\ OnTime(p)
        /\ SleepersOf(q) = W \cup SleepersOf(p)
        /\ Single(q) => Single(p) /\ W \cap SleepersOf(p) = {}
  BY <1>2, <1>4, SleepQueueWake
<1>7. PICK p \in Seq([t: Task, wake: Int]) :
        /\ w = AfterWake(k, W, p)
        /\ Len(p) <= SLEEP_QUEUE_MAX /\ OnTime(p)
        /\ SleepersOf(q) = W \cup SleepersOf(p)
        /\ Single(q) => Single(p) /\ W \cap SleepersOf(p) = {}
  BY <1>6
<1> HIDE DEF w
<1>8. /\ SType(w) /\ Ring(w) /\ w.cur = k.cur /\ w.hung = k.hung /\ w.queue = p
      /\ \A u \in Task \cup {Idle} : w.state[u] = RUNNING <=> k.state[u] = RUNNING
      /\ Lv(w) = Lv(k) /\ Bk(w) = Bk(k) \ W
  <2>1. OnlyWoken(w, k, p) /\ Bk(w) = Bk(k) \ W BY <1>4, <1>5, <1>7, WokenKeeps
  <2> QED BY <1>4, <1>5, <1>7, <2>1 DEF OnlyWoken
<1>9. Inv(w) /\ OnTime(w.queue) BY <1>0, <1>4, <1>7, <1>8 DEF Inv
<1>10. /\ Inv(schedule(w)) /\ schedule(w).queue = w.queue
       /\ Lv(schedule(w)) = Lv(w) /\ Bk(schedule(w)) = Bk(w)
  BY <1>9, InvMid, ScheduleInv
<1>11. SchedInv' BY <1>1, <1>9, <1>10 DEF SchedInv
<1>12. Lv(k) = Lv(s) /\ Bk(k) = Bk(s) BY <1>4 DEF Lv, Bk
<1>13. Lv(g_sched') = Lv(s) /\ Bk(g_sched') = Bk(s) \ W /\ g_sched'.queue = p
  BY <1>1, <1>8, <1>10, <1>12
<1>14. Blocked' = Blocked \ W BY <1>13 DEF Blocked
<1>15. Asleep = W \cup Asleep' BY <1>2, <1>7, <1>13 DEF Asleep
<1>16. Single(g_sched.queue) => Single(g_sched'.queue) /\ W \cap Asleep' = {}
  BY <1>2, <1>7, <1>13 DEF Asleep
<1>17. W \in SUBSET Asleep /\ SleepersWoken(W) BY <1>14, <1>15, <1>16 DEF SleepersWoken
<1> QED BY <1>11, <1>13, <1>17, LiveTasksOf

(* The invariant is inductive.                                             *)
LEMMA SchedNextInv == SchedInv /\ [SchedNext]_g_sched => SchedInv'
<1> SUFFICES ASSUME SchedInv, [SchedNext]_g_sched PROVE SchedInv' OBVIOUS
<1>1. CASE UNCHANGED g_sched BY <1>1 DEF SchedInv
<1>2. ASSUME NEW t \in Live \ Live', NEW W \in SUBSET Task, SchedKill(t, W) \/ SchedExit(t, W)
      PROVE  SchedInv'
  <2>1. t \in Task BY DEF Live
  <2> QED BY <1>2, <2>1, SchedKillInv, SchedExitInv
<1>3. CASE SchedNext
  BY <1>2, <1>3, SchedCreateInv, SchedBlockInv, SchedYieldInv, SchedTimerInv,
     SchedSleepInv, SchedWakeInv DEF SchedNext
<1> QED BY <1>1, <1>3

(* The invariant holds in every reachable state.                           *)
LEMMA SchedAlwaysInv == SchedSpec => []SchedInv
BY SchedInitInv, SchedNextInv, PTL DEF SchedSpec

-----------------------------------------------------------------------------
(* The results.                                                            *)

(* The state of the scheduler is well-formed, and the sleep queue never    *)
(* outgrows its array, for every number of tasks and every SLEEP_QUEUE_MAX.*)
THEOREM SchedTypeCorrect == SchedSpec => []SchedTypeOK
<1>1. SchedInv => SchedTypeOK BY DEF SchedInv, Inv, SType, SchedTypeOK
<1> QED BY <1>1, SchedAlwaysInv, PTL

(* schedule() hands the one processor over without losing or duplicating   *)
(* it: the current task, and no other, is RUNNING.                         *)
THEOREM SchedCurrentRuns == SchedSpec => []CurrentRuns
<1>1. SchedInv => CurrentRuns BY DEF SchedInv, Inv, CurrentRuns, cur
<1> QED BY <1>1, SchedAlwaysInv, PTL

(* scheduler_add and scheduler_remove, in any order, keep next and prev    *)
(* inverse to each other on the live tasks.                                *)
THEOREM SchedRingLinks == SchedSpec => []RingLinks
<1>1. SchedInv => RingLinks
  BY DEF SchedInv, Inv, Ring, Links, RingLinks, Live, Lv
<1> QED BY <1>1, SchedAlwaysInv, PTL

(* ... and keep the live tasks in one ring.                                *)
THEOREM SchedOneRing == SchedSpec => []OneRing
<1>1. SchedInv => OneRing
  BY DEF SchedInv, Inv, Ring, One, OneRing, Live, Lv
<1> QED BY <1>1, SchedAlwaysInv, PTL

(* scheduler_pick_next always returns, however many tasks there are and    *)
(* whichever of them are ready: its walk along next comes back.            *)
THEOREM SchedPickNextReturns == SchedSpec => []PickNextReturns
<1>1. SchedInv => PickNextReturns BY DEF SchedInv, Inv, PickNextReturns
<1> QED BY <1>1, SchedAlwaysInv, PTL

(* The sleep queue is sorted and none of its entries is overdue.           *)
THEOREM SchedSleepersOnTime == SchedSpec => []SleepersOnTime
<1>1. SchedInv => SleepersOnTime BY DEF SchedInv, OnTime, SleepersOnTime
<1> QED BY <1>1, SchedAlwaysInv, PTL

-----------------------------------------------------------------------------
(* Processes and threads.                                                  *)

\* The struct of a thread is never freed.
KeptThread(t) == t \in allocated /\ tasks[t].task_index = 1

TaskStruct == [owner: Proc \cup {NoProc}, task_index: {0, 1},
               joining_task: Task \cup {NoTask}]
ProcStruct == [pid: Pid, main_task: Task \cup {NoTask},
               waiting_task: Task \cup {NoTask}, next: Proc \cup {NoProc}]
Control == [at: {"user", "sleep", "join", "wait", "listen", "process_exit"},
            arg: Task \cup Proc \cup {NoTask}, pid: Pid, late: BOOLEAN]

ProcTypes ==
  /\ tasks \in [Task -> TaskStruct] /\ procs \in [Proc -> ProcStruct]
  /\ s_processes \in Proc /\ s_last_process \in Proc /\ s_next_pid \in Pid
  /\ allocated \subseteq Task \cup Proc
  /\ listening \subseteq Task /\ killed \subseteq Pid
  /\ halted \in {"no", "panic", "list_hang", "unreachable"}
  /\ pc \in [Task -> Control]

\* The structs of a task that is not dead and of its process are allocated.
Owners ==
  \A t \in Live : t \in allocated /\ tasks[t].owner \in Proc \cap allocated

\* A task with index 0 is the main task of its process, and vice versa.
Mains ==
  /\ tasks[InitTask].owner = InitProc /\ tasks[InitTask].task_index = 0
  /\ \A t \in Live : /\ procs[tasks[t].owner].main_task \in Live
                     /\ tasks[t].task_index = 0 => procs[tasks[t].owner].main_task = t
  /\ \A p \in Proc \cap allocated :
       /\ procs[p].main_task \in Task \cap allocated
       /\ tasks[procs[p].main_task].task_index = 0
       /\ tasks[procs[p].main_task].owner = p

\* Process ids are given out once, and a freed process that is still in the
\* list has been waited for.
Pids ==
  /\ \A p \in Proc : procs[p].pid < s_next_pid
  /\ \A p, q \in Proc \cap allocated : procs[p].pid = procs[q].pid => p = q
  /\ \A p \in Proc \ allocated : procs[p].pid = 0 \/ procs[p].waiting_task # NoTask

\* A task that waits for a process is its waiting_task; once it is woken, the
\* process has no task left.
Waits ==
  \A t \in Live : pc[t].at = "wait" =>
    /\ pc[t].arg \in Proc \cap allocated
    /\ procs[pc[t].arg].waiting_task = t /\ procs[pc[t].arg].pid = pc[t].pid
    /\ t \notin Blocked => \A u \in Live : tasks[u].owner # pc[t].arg
    /\ ~pc[t].late => (t \in Blocked <=> pc[t].pid \notin killed)

\* ... and vice versa, unless the task was killed: then its struct stays.
Waiters ==
  \A p \in Proc \cap allocated : procs[p].waiting_task \in Task =>
    \/ procs[p].waiting_task \notin Live /\ KeptThread(procs[p].waiting_task)
    \/ /\ procs[p].waiting_task \in Live
       /\ pc[procs[p].waiting_task].at = "wait" /\ pc[procs[p].waiting_task].arg = p

\* The same for a task that joins a thread.
Joins ==
  \A t \in Live : pc[t].at = "join" =>
    /\ pc[t].arg \in Task /\ KeptThread(pc[t].arg)
    /\ t \in Blocked <=> pc[t].arg \in Live
    /\ pc[t].arg \in Live => tasks[pc[t].arg].joining_task = t

Joiners ==
  \A h \in Live : tasks[h].joining_task \in Task =>
    \/ tasks[h].joining_task \notin Live /\ KeptThread(tasks[h].joining_task)
    \/ /\ tasks[h].joining_task \in Live
       /\ pc[tasks[h].joining_task].at = "join" /\ pc[tasks[h].joining_task].arg = h

\* Tasks that sleep and entries of the sleep queue.
Sleeps ==
  /\ Single(g_sched.queue)
  /\ \A t \in Live : t \in Asleep <=> t \in Blocked /\ pc[t].at = "sleep"
  /\ \A t \in Asleep \ Live : KeptThread(t)

\* The inductive invariant of module Process, beside SchedInv.
ProcInv ==
  /\ ProcTypes /\ Owners /\ Mains /\ Pids /\ Waits /\ Waiters /\ Joins /\ Joiners
  /\ Sleeps

(* What the scheduler's invariant says of the current task and of the sets *)
(* of live, blocked and sleeping tasks.                                    *)
LEMMA CurrentTask ==
  ASSUME SchedInv
  PROVE  /\ cur # Idle => cur \in Live /\ cur \in Task /\ cur \notin Blocked
         /\ Live \subseteq Task /\ Blocked \subseteq Live /\ Asleep \subseteq Task
         /\ InitTask \in Live /\ SType(g_sched) /\ NoTask \notin Task /\ NoProc \notin Proc
         /\ Task \cap Proc = {} /\ ListHang \notin Proc /\ g_sched.list = InitTask
<1>1. /\ Inv(g_sched) /\ SType(g_sched) /\ Ring(g_sched) BY DEF SchedInv, Inv
<1>2. cur # Idle => cur \in Live BY <1>1, InvMid, LiveTasksOf DEF cur
<1>3. cur # Idle => cur \notin Blocked
  BY <1>1 DEF Inv, SType, Blocked, Bk, cur, RUNNING, BLOCKED
<1>4. Live \subseteq Task /\ Blocked \subseteq Live
  BY DEF Live, Blocked, Bk, BLOCKED, DEAD
<1>5. Asleep \subseteq Task
  <2>1. g_sched.queue \in Seq(Entry) BY <1>1 DEF SType, Entry
  <2> QED BY <2>1, EntryType DEF Asleep, SleepersOf
<1>6. InitTask \in Live /\ g_sched.list = InitTask
  BY <1>1, LiveTasksOf DEF Ring, SType
<1> QED BY <1>1, <1>2, <1>3, <1>4, <1>5, <1>6, SchedulerAssumption, ProcessAssumption

(* The fields of the structs have their types.                             *)
LEMMA Fields ==
  ASSUME ProcTypes
  PROVE  /\ \A t \in Task : /\ tasks[t].owner \in Proc \cup {NoProc}
                            /\ tasks[t].task_index \in {0, 1}
                            /\ tasks[t].joining_task \in Task \cup {NoTask}
         /\ \A p \in Proc : /\ procs[p].pid \in Pid
                            /\ procs[p].main_task \in Task \cup {NoTask}
                            /\ procs[p].waiting_task \in Task \cup {NoTask}
BY DEF ProcTypes, TaskStruct, ProcStruct

(* The timer interrupt wakes sleepers only, and takes their entries out of *)
(* the queue.                                                              *)
LEMMA TimerProcInv ==
  ASSUME SchedInv, ProcInv, Timer
  PROVE  SchedTimer /\ ProcInv'
<1>0. /\ SchedTimer
      /\ UNCHANGED <<tasks, procs, s_processes, s_last_process, s_next_pid, allocated, pc,
                     listening, killed, halted>>
  BY DEF Timer, SchedTimer, procUnchanged
<1>1. /\ SchedInv' /\ Live' = Live
      /\ \E W \in SUBSET Asleep : SleepersWoken(W)
  BY <1>0, SchedTimerInv
<1>2a. PICK W \in SUBSET Asleep : SleepersWoken(W) BY <1>1
<1>2. /\ Blocked' = Blocked \ W /\ Asleep = W \cup Asleep'
      /\ Single(g_sched.queue) => Single(g_sched'.queue) /\ W \cap Asleep' = {}
  BY <1>2a DEF SleepersWoken
<1>3. \A t \in Live : t \in W => t \in Blocked /\ pc[t].at = "sleep"
  BY <1>2 DEF ProcInv, Sleeps
<1>4. ProcTypes' BY <1>0 DEF ProcInv, ProcTypes
<1>5. Owners' /\ Mains' /\ Pids' BY <1>0, <1>1 DEF ProcInv, Owners, Mains, Pids
<1>6. Waits' BY <1>0, <1>1, <1>2, <1>3 DEF ProcInv, Waits
<1>7. Waiters' BY <1>0, <1>1 DEF ProcInv, Waiters, KeptThread
<1>8. Joins' BY <1>0, <1>1, <1>2, <1>3 DEF ProcInv, Joins, KeptThread
<1>9. Joiners' BY <1>0, <1>1 DEF ProcInv, Joiners, KeptThread
<1>10. Sleeps' BY <1>0, <1>1, <1>2, <1>3 DEF ProcInv, Sleeps, KeptThread
<1> QED BY <1>0, <1>4, <1>5, <1>6, <1>7, <1>8, <1>9, <1>10 DEF ProcInv

(* SYS_YIELD.                                                              *)
LEMMA YieldProcInv ==
  ASSUME SchedInv, ProcInv, SYS_YIELD
  PROVE  SchedYield /\ ProcInv'
<1>0. /\ SchedYield
      /\ UNCHANGED <<tasks, procs, s_processes, s_last_process, s_next_pid, allocated, pc,
                     listening, killed, halted>>
  BY DEF SYS_YIELD, SchedYield, procUnchanged, InProgram, InUser
<1>1. Live' = Live /\ Blocked' = Blocked /\ SameSleepers BY <1>0, SchedYieldInv
<1>2. ProcTypes' BY <1>0 DEF ProcInv, ProcTypes
<1>3. Owners' /\ Mains' /\ Pids' BY <1>0, <1>1 DEF ProcInv, Owners, Mains, Pids
<1>4. Waits' /\ Waiters' BY <1>0, <1>1 DEF ProcInv, Waits, Waiters, KeptThread
<1>5. Joins' /\ Joiners' BY <1>0, <1>1 DEF ProcInv, Joins, Joiners, KeptThread
<1>6. Sleeps' BY <1>0, <1>1 DEF ProcInv, Sleeps, KeptThread, SameSleepers
<1> QED BY <1>0, <1>2, <1>3, <1>4, <1>5, <1>6 DEF ProcInv

(* The current task, in user mode, neither waits nor joins nor sleeps:     *)
(* no struct names it as the task to wake.                                 *)
LEMMA NobodyWakesUser ==
  ASSUME SchedInv, ProcInv, cur # Idle, pc[cur].at \notin {"wait", "join"}
  PROVE  /\ \A p \in Proc \cap allocated : procs[p].waiting_task # cur
         /\ \A h \in Live : tasks[h].joining_task # cur
         /\ cur \notin Asleep
<1>1. cur \in Live /\ cur \in Task /\ cur \notin Blocked BY CurrentTask
<1>2. \A p \in Proc \cap allocated : procs[p].waiting_task # cur
  BY <1>1 DEF ProcInv, Waiters
<1>3. \A h \in Live : tasks[h].joining_task # cur BY <1>1 DEF ProcInv, Joiners
<1>4. cur \notin Asleep BY <1>1 DEF ProcInv, Sleeps
<1> QED BY <1>2, <1>3, <1>4

(* pc changes at the current task only, and stays well-formed.             *)
LEMMA ControlStep ==
  ASSUME ProcTypes, cur \in Task, NEW c \in Control, pc' = [pc EXCEPT ![cur] = c]
  PROVE  /\ pc' \in [Task -> Control] /\ pc'[cur] = c
         /\ \A t \in Task : t # cur => pc'[t] = pc[t]
BY DEF ProcTypes

(* The values of pc are well-formed.                                       *)
LEMMA ControlTypes ==
  /\ User \in Control /\ User.at = "user"
  /\ Exiting \in Control /\ Exiting.at = "process_exit"
  /\ Sleeping \in Control /\ Sleeping.at = "sleep"
  /\ Listening \in Control /\ Listening.at = "listen"
  /\ \A h \in Task : /\ Joining(h) \in Control
                     /\ Joining(h).at = "join" /\ Joining(h).arg = h
  /\ \A p \in Proc, pid \in Pid :
       /\ Waiting(p, pid) \in Control /\ Waiting(p, pid).at = "wait"
       /\ Waiting(p, pid).arg = p /\ Waiting(p, pid).pid = pid
       /\ Waiting(p, pid).late <=> pid \in killed
<1>1. 0 \in Pid BY ProcessAssumption DEF Pid
<1>2. User \in Control /\ User.at = "user" BY <1>1 DEF User, Control
<1>3. Exiting \in Control /\ Exiting.at = "process_exit" BY <1>2 DEF Control, Exiting
<1>4. Sleeping \in Control /\ Sleeping.at = "sleep" BY <1>2 DEF Control, Sleeping
<1>4a. Listening \in Control /\ Listening.at = "listen" BY <1>2 DEF Control, Listening
<1>5. \A h \in Task : /\ Joining(h) \in Control
                      /\ Joining(h).at = "join" /\ Joining(h).arg = h
  BY <1>2 DEF Control, Joining
<1>6. ASSUME NEW p \in Proc, NEW pid \in Pid
      PROVE  /\ Waiting(p, pid) \in Control /\ Waiting(p, pid).at = "wait"
             /\ Waiting(p, pid).arg = p /\ Waiting(p, pid).pid = pid
             /\ Waiting(p, pid).late <=> pid \in killed
  <2>0. \E b \in BOOLEAN : b = (pid \in killed)
    <3>1. CASE pid \in killed
      <4>1. (pid \in killed) = TRUE BY <3>1
      <4> QED BY <4>1
    <3>2. CASE pid \notin killed
      <4>1. (pid \in killed) = FALSE BY <3>2
      <4> QED BY <4>1
    <3> QED BY <3>1, <3>2
  <2>1. PICK b \in BOOLEAN : b = (pid \in killed) BY <2>0
  <2>2. Waiting(p, pid) = [at |-> "wait", arg |-> p, pid |-> pid, late |-> b]
    BY <2>1, Zenon DEF Waiting
  <2>3. b <=> pid \in killed BY <2>1
  <2> QED BY <2>2, <2>3 DEF Control
<1> QED BY <1>2, <1>3, <1>4, <1>4a, <1>5, <1>6

(* SYS_SLEEP: the task gets an entry in the sleep queue and is blocked, or *)
(* neither, when the queue is full.                                        *)
LEMMA SleepProcInv ==
  ASSUME SchedInv, ProcInv, NEW delay \in 0 .. MaxDelay, SYS_SLEEP(delay)
  PROVE  SchedSleep(delay) /\ ProcInv'
<1>0. /\ SchedSleep(delay) /\ cur # Idle /\ pc[cur].at = "user"
      /\ pc' = [pc EXCEPT ![cur] = Sleeping]
      /\ UNCHANGED <<tasks, procs, s_processes, s_last_process, s_next_pid, allocated,
                     listening, killed, halted>>
  BY DEF SYS_SLEEP, SchedSleep, procUnchanged, InUser
<1>1. /\ Live' = Live
      /\ \/ Blocked' = Blocked /\ SameSleepers
         \/ /\ Blocked' = Blocked \cup {cur} /\ Asleep' = Asleep \cup {cur}
            /\ Single(g_sched.queue) /\ cur \notin Asleep => Single(g_sched'.queue)
  BY <1>0, SchedSleepInv
<1>2. /\ cur \in Live /\ cur \in Task /\ cur \notin Blocked /\ Live \subseteq Task
      /\ Asleep \subseteq Task
  BY <1>0, CurrentTask
<1>3. /\ pc' \in [Task -> Control] /\ pc'[cur].at = "sleep"
      /\ \A t \in Task : t # cur => pc'[t] = pc[t]
  <2>1. ProcTypes BY DEF ProcInv
  <2>2. PICK k \in Control : k = Sleeping /\ k.at = "sleep" BY ControlTypes
  <2> QED BY <1>0, <1>2, <2>1, <2>2, ControlStep
<1>4. /\ \A p \in Proc \cap allocated : procs[p].waiting_task # cur
      /\ \A h \in Live : tasks[h].joining_task # cur
      /\ cur \notin Asleep
  BY <1>0, NobodyWakesUser
<1>5. ProcTypes' BY <1>0, <1>3 DEF ProcInv, ProcTypes
<1>6. Owners' /\ Mains' /\ Pids' BY <1>0, <1>1 DEF ProcInv, Owners, Mains, Pids
<1>7. Waits' BY <1>0, <1>1, <1>2, <1>3 DEF ProcInv, Waits
<1>8. Waiters' BY <1>0, <1>1, <1>3, <1>4 DEF ProcInv, Waiters, KeptThread
<1>9. Joins' BY <1>0, <1>1, <1>2, <1>3 DEF ProcInv, Joins, KeptThread
<1>10. Joiners' BY <1>0, <1>1, <1>3, <1>4 DEF ProcInv, Joiners, KeptThread
<1>11. Sleeps'
  <2>1. CASE Blocked' = Blocked /\ SameSleepers
    BY <1>0, <1>1, <1>2, <1>3, <1>4, <2>1 DEF ProcInv, Sleeps, KeptThread, SameSleepers
  <2>2. CASE /\ Blocked' = Blocked \cup {cur} /\ Asleep' = Asleep \cup {cur}
             /\ Single(g_sched.queue) /\ cur \notin Asleep => Single(g_sched'.queue)
    BY <1>0, <1>1, <1>2, <1>3, <1>4, <2>2 DEF ProcInv, Sleeps, KeptThread
  <2> QED BY <1>1, <2>1, <2>2
<1> QED BY <1>0, <1>5, <1>6, <1>7, <1>8, <1>9, <1>10, <1>11 DEF ProcInv

(* A sleeper, a joiner or a listener goes on in user mode.                 *)
LEMMA ReturnProcInv ==
  ASSUME SchedInv, ProcInv, SYS_return
  PROVE  UNCHANGED g_sched /\ ProcInv'
<1>0. /\ UNCHANGED g_sched /\ cur # Idle /\ pc[cur].at \in {"sleep", "join", "listen"}
      /\ pc' = [pc EXCEPT ![cur] = User]
      /\ UNCHANGED <<tasks, procs, s_processes, s_last_process, s_next_pid, allocated,
                     listening, killed, halted>>
  BY DEF SYS_return, procUnchanged
<1>1. Live' = Live /\ Blocked' = Blocked /\ Asleep' = Asleep
  BY <1>0 DEF Live, Blocked, Asleep
<1>2. /\ cur \in Live /\ cur \in Task /\ cur \notin Blocked /\ Live \subseteq Task
      /\ Asleep \subseteq Task
  BY <1>0, CurrentTask
<1>3. /\ pc' \in [Task -> Control] /\ pc'[cur].at = "user"
      /\ \A t \in Task : t # cur => pc'[t] = pc[t]
  BY <1>0, <1>2, ControlStep, ControlTypes DEF ProcInv
<1>4. \A p \in Proc \cap allocated : procs[p].waiting_task # cur
  BY <1>0, <1>2 DEF ProcInv, Waiters
<1>5. \A h \in Live : tasks[h].joining_task # cur
  <2> SUFFICES ASSUME NEW h \in Live, tasks[h].joining_task = cur PROVE FALSE OBVIOUS
  <2>1. pc[cur].at = "join" /\ pc[cur].arg = h BY <1>2 DEF ProcInv, Joiners
  <2> QED BY <1>2, <2>1 DEF ProcInv, Joins
<1>6. ProcTypes' BY <1>0, <1>3 DEF ProcInv, ProcTypes
<1>7. Owners' /\ Mains' /\ Pids' BY <1>0, <1>1 DEF ProcInv, Owners, Mains, Pids
<1>8. Waits' BY <1>0, <1>1, <1>2, <1>3 DEF ProcInv, Waits
<1>9. Waiters' BY <1>0, <1>1, <1>3, <1>4 DEF ProcInv, Waiters, KeptThread
<1>10. Joins' BY <1>0, <1>1, <1>2, <1>3 DEF ProcInv, Joins, KeptThread
<1>11. Joiners' BY <1>0, <1>1, <1>3, <1>5 DEF ProcInv, Joiners, KeptThread
<1>12. Sleeps' BY <1>0, <1>1, <1>2, <1>3 DEF ProcInv, Sleeps, KeptThread
<1> QED BY <1>0, <1>6, <1>7, <1>8, <1>9, <1>10, <1>11, <1>12 DEF ProcInv

(* find_process finds a process with the pid it is asked for.              *)
LEMMA FoundProcess ==
  ASSUME NEW pid, find_process(pid) \in Proc
  PROVE  procs[find_process(pid)].pid = pid
<1> DEFINE hits == {k \in 0 .. Cardinality(Proc) : /\ ListWalk[k] # NoProc
                                                   /\ procs[ListWalk[k]].pid = pid}
           last == ListWalk[Cardinality(Proc)] = NoProc
<1>1. find_process(pid) = CASE hits # {} -> ListWalk[Min(hits)]
                            [] hits = {} /\ last -> NoProc
                            [] OTHER -> ListHang
  BY DEF find_process
<1>2. NoProc \notin Proc /\ ListHang \notin Proc BY ProcessAssumption
<1>3. hits # {}
  <2> HIDE DEF hits, last
  <2> QED BY <1>1, <1>2
<1>4. hits \in SUBSET Nat OBVIOUS
<1>5. Min(hits) \in hits BY <1>3, <1>4, MinLemma
<1>6. find_process(pid) = ListWalk[Min(hits)] BY <1>1, <1>3
<1>7. PICK k \in hits : k = Min(hits) BY <1>5
<1> QED BY <1>6, <1>7

(* Nothing but halted and the listener slots changes.                      *)
LEMMA SameProcInv ==
  ASSUME SchedInv, ProcInv, halted' \in {"no", "panic", "list_hang", "unreachable"},
         listening' \in SUBSET Task,
         UNCHANGED <<g_sched, tasks, procs, s_processes, s_last_process, s_next_pid,
                     allocated, pc, killed>>
  PROVE  ProcInv'
<1>1. Live' = Live /\ Blocked' = Blocked /\ Asleep' = Asleep
  BY DEF Live, Blocked, Asleep
<1>2. ProcTypes' BY DEF ProcInv, ProcTypes
<1>3. Owners' /\ Mains' /\ Pids' BY <1>1 DEF ProcInv, Owners, Mains, Pids
<1>4. Waits' /\ Waiters' BY <1>1 DEF ProcInv, Waits, Waiters, KeptThread
<1>5. Joins' /\ Joiners' BY <1>1 DEF ProcInv, Joins, Joiners, KeptThread
<1>6. Sleeps' BY <1>1 DEF ProcInv, Sleeps, KeptThread
<1> QED BY <1>2, <1>3, <1>4, <1>5, <1>6 DEF ProcInv

(* A task that enters a listener slot of another part of the kernel.       *)
LEMMA ListenProcInv ==
  ASSUME SchedInv, ProcInv, NEW blocks \in BOOLEAN, listen(blocks)
  PROVE  (SchedBlock \/ UNCHANGED g_sched) /\ ProcInv'
<1>0. /\ cur # Idle /\ pc[cur].at = "user" /\ listening' = listening \cup {cur}
      /\ UNCHANGED <<tasks, procs, s_processes, s_last_process, s_next_pid, allocated,
                     killed, halted>>
  BY DEF listen, InProgram, InUser, procUnchanged
<1>1. /\ cur \in Live /\ cur \in Task /\ cur \notin Blocked /\ Live \subseteq Task
      /\ Asleep \subseteq Task
  BY <1>0, CurrentTask
<1>2. listening' \in SUBSET Task BY <1>0, <1>1 DEF ProcInv, ProcTypes
<1>3. CASE UNCHANGED <<g_sched, pc>>
  <2>1. halted' \in {"no", "panic", "list_hang", "unreachable"}
    BY <1>0 DEF ProcInv, ProcTypes
  <2> QED BY <1>0, <1>2, <1>3, <2>1, SameProcInv
<1>4. CASE /\ g_sched' = schedule(task_set_blocked(g_sched, cur))
           /\ pc' = [pc EXCEPT ![cur] = Listening]
  <2>1. SchedBlock BY <1>0, <1>4 DEF SchedBlock
  <2>2. Live' = Live /\ Blocked' = Blocked \cup {cur} /\ SameSleepers
    BY <2>1, SchedBlockInv
  <2>3. /\ pc' \in [Task -> Control] /\ pc'[cur].at = "listen"
        /\ \A t \in Task : t # cur => pc'[t] = pc[t]
    <3>1. ProcTypes BY DEF ProcInv
    <3>2. PICK k \in Control : k = Listening /\ k.at = "listen" BY ControlTypes
    <3> QED BY <1>1, <1>4, <3>1, <3>2, ControlStep
  <2>4. /\ \A p \in Proc \cap allocated : procs[p].waiting_task # cur
        /\ \A h \in Live : tasks[h].joining_task # cur
        /\ cur \notin Asleep
    BY <1>0, NobodyWakesUser
  <2>5. ProcTypes' BY <1>0, <1>2, <2>3 DEF ProcInv, ProcTypes
  <2>6. Owners' /\ Mains' /\ Pids' BY <1>0, <2>2 DEF ProcInv, Owners, Mains, Pids
  <2>7. Waits' BY <1>0, <1>1, <2>2, <2>3 DEF ProcInv, Waits
  <2>8. Waiters' BY <1>0, <2>2, <2>3, <2>4 DEF ProcInv, Waiters, KeptThread
  <2>9. Joins' BY <1>0, <1>1, <2>2, <2>3 DEF ProcInv, Joins, KeptThread
  <2>10. Joiners' BY <1>0, <2>2, <2>3, <2>4 DEF ProcInv, Joiners, KeptThread
  <2>11. Sleeps'
    BY <1>0, <1>1, <2>2, <2>3, <2>4 DEF ProcInv, Sleeps, KeptThread, SameSleepers
  <2> QED BY <2>1, <2>5, <2>6, <2>7, <2>8, <2>9, <2>10, <2>11 DEF ProcInv
<1> QED BY <1>3, <1>4 DEF listen

(* process_wait up to schedule(): the process it found is allocated, for a *)
(* freed one in the list has been waited for.                              *)
LEMMA WaitProcInv ==
  ASSUME SchedInv, ProcInv, NEW pid \in 1 .. MaxPid, SYS_WAIT(pid)
  PROVE  (SchedBlock \/ UNCHANGED g_sched) /\ ProcInv'
<1>0. /\ cur # Idle /\ pc[cur].at = "user"
      /\ UNCHANGED <<tasks, s_processes, s_last_process, s_next_pid, allocated, listening, killed>>
  BY DEF SYS_WAIT, InProgram, InUser
<1> DEFINE p == find_process(pid)
<1>1. CASE p = ListHang
  <2>1. halted' = "list_hang" /\ UNCHANGED <<g_sched, procs, pc>>
    <3>1. ListHang \notin Proc BY ProcessAssumption
    <3> HIDE DEF p
    <3> QED BY <1>1, <3>1 DEF SYS_WAIT, p
  <2>2. listening' \in SUBSET Task BY <1>0 DEF ProcInv, ProcTypes
  <2> QED BY <1>0, <2>1, <2>2, SameProcInv
<1>2. CASE p # ListHang
  <2>1. /\ p \in Proc /\ procs[p].waiting_task = NoTask
        /\ procs' = [procs EXCEPT ![p].waiting_task = cur]
        /\ g_sched' = schedule(task_set_blocked(g_sched, cur))
        /\ pc' = [pc EXCEPT ![cur] = Waiting(p, pid)]
        /\ UNCHANGED halted
    BY <1>2 DEF SYS_WAIT
  <2>2. procs[p].pid = pid BY <2>1, FoundProcess
  <2> HIDE DEF p
  <2>3. SchedBlock BY <1>0, <2>1 DEF SchedBlock
  <2>4. Live' = Live /\ Blocked' = Blocked \cup {cur} /\ SameSleepers
    BY <2>3, SchedBlockInv
  <2>5. /\ cur \in Live /\ cur \in Task /\ cur \notin Blocked /\ Live \subseteq Task
        /\ Asleep \subseteq Task /\ NoTask \notin Task
    BY <1>0, CurrentTask
  <2>6. pid \in Pid /\ pid # 0 BY ProcessAssumption DEF Pid
  <2>7. /\ pc' \in [Task -> Control] /\ pc'[cur].at = "wait" /\ pc'[cur].arg = p
        /\ pc'[cur].pid = pid /\ (pc'[cur].late <=> pid \in killed)
        /\ \A t \in Task : t # cur => pc'[t] = pc[t]
    <3>1. PICK c \in Control : c = Waiting(p, pid) BY <2>1, <2>6, ControlTypes
    <3>2. c.at = "wait" /\ c.arg = p /\ c.pid = pid /\ (c.late <=> pid \in killed)
      BY <2>1, <2>6, <3>1, ControlTypes
    <3>3. pc' = [pc EXCEPT ![cur] = c] BY <2>1, <3>1
    <3> QED BY <2>5, <3>2, <3>3, ControlStep DEF ProcInv
  <2>8. p \in Proc \cap allocated BY <2>1, <2>2, <2>6 DEF ProcInv, Pids
  <2>9. /\ \A q \in Proc \cap allocated : procs[q].waiting_task # cur
        /\ \A h \in Live : tasks[h].joining_task # cur
        /\ cur \notin Asleep
    BY <1>0, NobodyWakesUser
  <2>10. /\ procs' \in [Proc -> ProcStruct]
         /\ \A q \in Proc : /\ procs'[q].pid = procs[q].pid
                            /\ procs'[q].main_task = procs[q].main_task
                            /\ procs'[q].waiting_task =
                                 IF q = p THEN cur ELSE procs[q].waiting_task
    BY <2>1, <2>5 DEF ProcInv, ProcTypes, ProcStruct
  <2>11. ProcTypes' BY <1>0, <2>1, <2>7, <2>10 DEF ProcInv, ProcTypes
  <2>12. Owners' BY <1>0, <2>4 DEF ProcInv, Owners
  <2>13. Mains' BY <1>0, <2>4, <2>10 DEF ProcInv, Owners, Mains
  <2>14. Pids' BY <1>0, <2>5, <2>10 DEF ProcInv, Pids
  <2>15. Waits'
    <3> SUFFICES ASSUME NEW t \in Live, pc'[t].at = "wait"
                 PROVE  /\ pc'[t].arg \in Proc \cap allocated
                        /\ procs'[pc'[t].arg].waiting_task = t
                        /\ procs'[pc'[t].arg].pid = pc'[t].pid
                        /\ t \notin Blocked' => \A u \in Live : tasks[u].owner # pc'[t].arg
                        /\ ~pc'[t].late => (t \in Blocked' <=> pc'[t].pid \notin killed)
      BY <1>0, <2>4 DEF Waits
    <3>1. CASE t = cur BY <2>2, <2>4, <2>7, <2>8, <2>10, <3>1
    <3>2. CASE t # cur
      <4>1. pc'[t] = pc[t] /\ (t \in Blocked' <=> t \in Blocked) BY <2>4, <2>5, <2>7, <3>2
      <4>2. /\ pc[t].arg \in Proc \cap allocated
            /\ procs[pc[t].arg].waiting_task = t /\ procs[pc[t].arg].pid = pc[t].pid
            /\ t \notin Blocked => \A u \in Live : tasks[u].owner # pc[t].arg
            /\ ~pc[t].late => (t \in Blocked <=> pc[t].pid \notin killed)
        BY <2>5, <2>7, <3>2 DEF ProcInv, Waits
      <4>3. pc[t].arg # p BY <2>1, <2>5, <4>2
      <4> QED BY <2>4, <2>5, <2>7, <2>10, <3>2, <4>2, <4>3
    <3> QED BY <3>1, <3>2
  <2>16. Waiters'
    BY <1>0, <2>4, <2>5, <2>7, <2>9, <2>10 DEF ProcInv, Waiters, KeptThread
  <2>17. Joins' BY <1>0, <2>4, <2>5, <2>7 DEF ProcInv, Joins, KeptThread
  <2>18. Joiners' BY <1>0, <2>4, <2>7, <2>9 DEF ProcInv, Joiners, KeptThread
  <2>19. Sleeps'
    BY <1>0, <2>4, <2>5, <2>7, <2>9 DEF ProcInv, Sleeps, KeptThread, SameSleepers
  <2> QED BY <2>3, <2>11, <2>12, <2>13, <2>14, <2>15, <2>16, <2>17, <2>18, <2>19 DEF ProcInv
<1> QED BY <1>1, <1>2

(* The rest of process_wait frees a process none of whose tasks is alive,  *)
(* and its main task, whose struct no wake-up and no sleep queue entry     *)
(* refers to.                                                              *)
LEMMA WaitResumeProcInv ==
  ASSUME SchedInv, ProcInv, cur # Idle, process_wait_resume
  PROVE  UNCHANGED g_sched /\ ProcInv'
<1> DEFINE p == pc[cur].arg
           m == procs[p].main_task
<1>0. /\ pc[cur].at = "wait" /\ pc' = [pc EXCEPT ![cur] = User]
      /\ allocated' = allocated \ {p, m}
      /\ UNCHANGED <<g_sched, tasks, procs, s_processes, s_last_process, s_next_pid,
                     listening, killed, halted>>
  BY DEF process_wait_resume, process_delete, procUnchanged
<1>1. Live' = Live /\ Blocked' = Blocked /\ Asleep' = Asleep
  BY <1>0 DEF Live, Blocked, Asleep
<1>2. /\ cur \in Live /\ cur \in Task /\ cur \notin Blocked /\ Live \subseteq Task
      /\ Asleep \subseteq Task /\ NoTask \notin Task /\ Task \cap Proc = {}
  BY CurrentTask
<1>3. /\ p \in Proc \cap allocated /\ procs[p].waiting_task = cur
      /\ \A u \in Live : tasks[u].owner # p
  BY <1>0, <1>2 DEF ProcInv, Waits
<1>4. /\ m \in Task \cap allocated /\ tasks[m].task_index = 0 /\ tasks[m].owner = p
      /\ m \notin Live
  BY <1>3 DEF ProcInv, Mains
<1> HIDE DEF p, m
<1>5. /\ pc' \in [Task -> Control] /\ pc'[cur].at = "user"
      /\ \A t \in Task : t # cur => pc'[t] = pc[t]
  BY <1>0, <1>2, ControlStep, ControlTypes DEF ProcInv
<1>6. /\ \A t \in Task : t \in allocated' <=> t \in allocated /\ t # m
      /\ \A q \in Proc : q \in allocated' <=> q \in allocated /\ q # p
  BY <1>0, <1>2, <1>3, <1>4
<1>7. \A t \in Task : KeptThread(t) => KeptThread(t)'
  BY <1>0, <1>4, <1>6 DEF KeptThread
<1>8. \A q \in Proc \cap allocated' : procs[q].waiting_task # cur
  BY <1>0, <1>2, <1>6 DEF ProcInv, Waiters, p
<1>9. \A h \in Live : tasks[h].joining_task # cur
  BY <1>0, <1>2 DEF ProcInv, Joiners
<1>10. ProcTypes' BY <1>0, <1>5 DEF ProcInv, ProcTypes
<1>11. Owners' BY <1>0, <1>1, <1>2, <1>3, <1>4, <1>6 DEF ProcInv, Owners
<1>12. Mains' BY <1>0, <1>1, <1>2, <1>4, <1>6 DEF ProcInv, Mains
<1>13. Pids' BY <1>0, <1>2, <1>3, <1>6 DEF ProcInv, Pids
<1>14. Waits' BY <1>0, <1>1, <1>2, <1>3, <1>5, <1>6 DEF ProcInv, Waits
<1>15. Waiters' BY <1>0, <1>1, <1>2, <1>5, <1>6, <1>7, <1>8 DEF ProcInv, Waiters
<1>16. Joins' BY <1>0, <1>1, <1>2, <1>5, <1>7 DEF ProcInv, Joins
<1>17. Joiners' BY <1>0, <1>1, <1>2, <1>5, <1>7, <1>9 DEF ProcInv, Joiners
<1>18. Sleeps' BY <1>0, <1>1, <1>2, <1>5, <1>7 DEF ProcInv, Sleeps
<1> QED BY <1>0, <1>10, <1>11, <1>12, <1>13, <1>14, <1>15, <1>16, <1>17, <1>18 DEF ProcInv

(* process_join_thread: the caller, which may be the thread itself, blocks *)
(* as the thread's joining_task.                                           *)
LEMMA JoinProcInv ==
  ASSUME SchedInv, ProcInv, NEW h \in Task, SYS_THREAD_JOIN(h)
  PROVE  SchedBlock /\ ProcInv'
<1>0. /\ cur # Idle /\ pc[cur].at = "user" /\ SchedBlock
      /\ tasks' = [tasks EXCEPT ![h].joining_task = cur]
      /\ pc' = [pc EXCEPT ![cur] = Joining(h)]
      /\ UNCHANGED <<procs, s_processes, s_last_process, s_next_pid, allocated,
                     listening, killed, halted>>
  BY DEF SYS_THREAD_JOIN, SchedBlock, InProgram, InUser, procUnchanged
<1>1. /\ cur \in Live /\ cur \in Task /\ cur \notin Blocked /\ Live \subseteq Task
      /\ Asleep \subseteq Task /\ NoTask \notin Task
  BY <1>0, CurrentTask
<1>2. h \in allocated /\ tasks[h].task_index = 1 /\ h \in Live /\ tasks[h].joining_task = NoTask
  BY Fields DEF SYS_THREAD_JOIN, Threads, join_returns, Live, ProcInv
<1>3. Live' = Live /\ Blocked' = Blocked \cup {cur} /\ SameSleepers
  BY <1>0, SchedBlockInv
<1>4. /\ pc' \in [Task -> Control] /\ pc'[cur].at = "join" /\ pc'[cur].arg = h
      /\ \A t \in Task : t # cur => pc'[t] = pc[t]
  <2>1. PICK c \in Control : c = Joining(h) BY ControlTypes
  <2>2. c.at = "join" /\ c.arg = h BY <2>1, ControlTypes
  <2>3. pc' = [pc EXCEPT ![cur] = c] BY <1>0, <2>1
  <2> QED BY <1>1, <2>2, <2>3, ControlStep DEF ProcInv
<1>5. /\ tasks' \in [Task -> TaskStruct]
      /\ \A t \in Task : /\ tasks'[t].owner = tasks[t].owner
                         /\ tasks'[t].task_index = tasks[t].task_index
                         /\ tasks'[t].joining_task =
                              IF t = h THEN cur ELSE tasks[t].joining_task
  BY <1>0, <1>1 DEF ProcInv, ProcTypes, TaskStruct
<1>6. \A t \in Task : KeptThread(t) => KeptThread(t)' BY <1>0, <1>5 DEF KeptThread
<1>7. /\ \A q \in Proc \cap allocated : procs[q].waiting_task # cur
      /\ \A g \in Live : tasks[g].joining_task # cur
      /\ cur \notin Asleep
  BY <1>0, NobodyWakesUser
<1>8. InitTask \in Task BY SchedulerAssumption
<1>9. ProcTypes' BY <1>0, <1>4, <1>5 DEF ProcInv, ProcTypes
<1>10. Owners' BY <1>0, <1>1, <1>3, <1>5 DEF ProcInv, Owners
<1>11. Mains' BY <1>0, <1>1, <1>3, <1>5, <1>8 DEF ProcInv, Mains
<1>12. Pids' BY <1>0 DEF ProcInv, Pids
<1>13. Waits' BY <1>0, <1>1, <1>3, <1>4, <1>5 DEF ProcInv, Waits
<1>14. Waiters' BY <1>0, <1>1, <1>3, <1>4, <1>6, <1>7 DEF ProcInv, Waiters
<1>15. Joins'
  <2> SUFFICES ASSUME NEW t \in Live, pc'[t].at = "join"
               PROVE  /\ pc'[t].arg \in Task /\ KeptThread(pc[t].arg)'
                      /\ t \in Blocked' <=> pc'[t].arg \in Live
                      /\ pc'[t].arg \in Live => tasks'[pc'[t].arg].joining_task = t
    BY <1>3 DEF Joins
  <2>1. CASE t = cur
    <3>1. KeptThread(h) BY <1>2 DEF KeptThread
    <3>2. KeptThread(h)' BY <1>6, <3>1
    <3>3. KeptThread(pc[t].arg)' BY <1>4, <2>1, <3>2 DEF KeptThread
    <3> QED BY <1>2, <1>3, <1>4, <1>5, <2>1, <3>3
  <2>2. CASE t # cur
    <3>1. pc'[t] = pc[t] /\ (t \in Blocked' <=> t \in Blocked) BY <1>1, <1>3, <1>4, <2>2
    <3>2. /\ pc[t].arg \in Task /\ KeptThread(pc[t].arg)
          /\ t \in Blocked <=> pc[t].arg \in Live
          /\ pc[t].arg \in Live => tasks[pc[t].arg].joining_task = t
      BY <3>1 DEF ProcInv, Joins
    <3>3. pc[t].arg # h BY <1>1, <1>2, <3>2
    <3>4. KeptThread(pc[t].arg)' BY <1>0, <1>5, <3>1, <3>2 DEF KeptThread
    <3> QED BY <1>5, <3>1, <3>2, <3>3, <3>4
  <2> QED BY <2>1, <2>2
<1>16. Joiners'
  BY <1>0, <1>1, <1>3, <1>4, <1>5, <1>6, <1>7 DEF ProcInv, Joiners
<1>17. Sleeps'
  BY <1>0, <1>1, <1>3, <1>4, <1>6, <1>7 DEF ProcInv, Sleeps, SameSleepers
<1> QED BY <1>0, <1>9, <1>10, <1>11, <1>12, <1>13, <1>14, <1>15, <1>16, <1>17 DEF ProcInv

(* A struct that is not allocated belongs to no task that is alive, and    *)
(* nobody who may still wake or sleep refers to it.                        *)
LEMMA FreeTask ==
  ASSUME SchedInv, ProcInv, NEW t \in Task \ allocated
  PROVE  /\ t \notin Live /\ t \notin Asleep /\ t # InitTask
         /\ \A p \in Proc \cap allocated : procs[p].waiting_task # t /\ procs[p].main_task # t
         /\ \A h \in Live : tasks[h].joining_task # t
<1>1. t \notin Live BY DEF ProcInv, Owners
<1>2. t # InitTask BY <1>1, CurrentTask
<1>3. t \notin Asleep BY <1>1 DEF ProcInv, Sleeps, KeptThread
<1>4. \A p \in Proc \cap allocated : procs[p].waiting_task # t
  BY <1>1 DEF ProcInv, Waiters, KeptThread
<1>5. \A p \in Proc \cap allocated : procs[p].main_task # t BY DEF ProcInv, Mains
<1>6. \A h \in Live : tasks[h].joining_task # t
  BY <1>1 DEF ProcInv, Joiners, KeptThread
<1> QED BY <1>1, <1>2, <1>3, <1>4, <1>5, <1>6

(* process_spawn_thread.                                                   *)
LEMMA ThreadProcInv ==
  ASSUME SchedInv, ProcInv, SYS_THREAD
  PROVE  (\E t \in Task : SchedCreate(t)) /\ ProcInv'
<1>0. PICK t \in Task \ allocated :
        /\ tasks' = [tasks EXCEPT ![t] = [FreshTask EXCEPT !.owner = me, !.task_index = 1]]
        /\ g_sched' = scheduler_add(task_create(g_sched, t), t)
        /\ allocated' = allocated \cup {t}
        /\ pc' = [pc EXCEPT ![t] = User]
  BY DEF SYS_THREAD
<1>1. /\ cur # Idle
      /\ UNCHANGED <<procs, s_processes, s_last_process, s_next_pid, listening, killed, halted>>
  BY DEF SYS_THREAD, InProgram, InUser, procUnchanged
<1>2. /\ cur \in Live /\ cur \in Task /\ Live \subseteq Task /\ Blocked \subseteq Live
      /\ Asleep \subseteq Task /\ Task \cap Proc = {} /\ NoTask \notin Task
  BY <1>1, CurrentTask
<1>3. /\ t \notin Live /\ t \notin Asleep /\ t # InitTask
      /\ \A p \in Proc \cap allocated : procs[p].waiting_task # t /\ procs[p].main_task # t
      /\ \A h \in Live : tasks[h].joining_task # t
  BY FreeTask
<1>4. SchedCreate(t) BY <1>0, <1>3 DEF SchedCreate
<1>5. Live' = Live \cup {t} /\ Blocked' = Blocked /\ SameSleepers
  BY <1>2, <1>3, <1>4, SchedCreateInv
<1>6. me \in Proc \cap allocated BY <1>2 DEF me, ProcInv, Owners
<1>7. /\ tasks' \in [Task -> TaskStruct]
      /\ tasks'[t].owner = me /\ tasks'[t].task_index = 1 /\ tasks'[t].joining_task = NoTask
      /\ \A u \in Task : u # t => tasks'[u] = tasks[u]
  <2>1. PICK new : new = [FreshTask EXCEPT !.owner = me, !.task_index = 1] OBVIOUS
  <2>2. FreshTask \in TaskStruct /\ FreshTask.joining_task = NoTask
    BY DEF FreshTask, TaskStruct
  <2>3. new \in TaskStruct /\ new.owner = me /\ new.task_index = 1
        /\ new.joining_task = NoTask
    BY <1>6, <2>1, <2>2 DEF TaskStruct
  <2>4. tasks' = [tasks EXCEPT ![t] = new] BY <1>0, <2>1
  <2> QED BY <2>3, <2>4 DEF ProcInv, ProcTypes
<1>8. /\ pc' \in [Task -> Control] /\ pc'[t].at = "user"
      /\ \A u \in Task : u # t => pc'[u] = pc[u]
  BY <1>0, ControlTypes DEF ProcInv, ProcTypes
<1>9. /\ \A u \in Task : u \in allocated' <=> u \in allocated \/ u = t
      /\ Proc \cap allocated' = Proc \cap allocated /\ Proc \ allocated' = Proc \ allocated
  BY <1>0, <1>2
<1>10. \A u \in Task : KeptThread(u) => KeptThread(u)' /\ u # t
  BY <1>7, <1>9 DEF KeptThread
<1>11. InitTask \in Task BY SchedulerAssumption
<1>12. ProcTypes' BY <1>0, <1>1, <1>7, <1>8 DEF ProcInv, ProcTypes
<1>13. Owners'
  BY <1>2, <1>3, <1>5, <1>6, <1>7, <1>9 DEF ProcInv, Owners
<1>14. Mains'
  <2>1. procs[me].main_task \in Live BY <1>2 DEF ProcInv, Mains, me
  <2>2. \A u \in Live' : procs[tasks'[u].owner].main_task \in Live'
    BY <1>2, <1>5, <1>7, <2>1 DEF ProcInv, Mains
  <2>3. \A u \in Live' : tasks'[u].task_index = 0 => procs[tasks'[u].owner].main_task = u
    BY <1>2, <1>5, <1>7 DEF ProcInv, Mains
  <2>4. \A p \in Proc \cap allocated' :
          /\ procs[p].main_task \in Task \cap allocated'
          /\ tasks'[procs[p].main_task].task_index = 0
          /\ tasks'[procs[p].main_task].owner = p
    BY <1>3, <1>7, <1>9 DEF ProcInv, Mains
  <2>5. tasks'[InitTask] = tasks[InitTask] BY <1>3, <1>7, <1>11
  <2> QED BY <1>1, <2>2, <2>3, <2>4, <2>5 DEF ProcInv, Mains
<1>15. Pids' BY <1>1, <1>9 DEF ProcInv, Pids
<1>16. Waits'
  <2> SUFFICES ASSUME NEW u \in Live, pc[u].at = "wait"
               PROVE  /\ pc[u].arg \in Proc \cap allocated
                      /\ procs[pc[u].arg].waiting_task = u /\ procs[pc[u].arg].pid = pc[u].pid
                      /\ u \notin Blocked => \A v \in Live' : tasks'[v].owner # pc[u].arg
                      /\ ~pc[u].late => (u \in Blocked <=> pc[u].pid \notin killed)
    BY <1>1, <1>2, <1>3, <1>5, <1>8, <1>9 DEF Waits
  <2>1. u \notin Blocked => \A v \in Live' : tasks'[v].owner # pc[u].arg
    <3> SUFFICES ASSUME u \notin Blocked, NEW v \in Live' PROVE tasks'[v].owner # pc[u].arg
      OBVIOUS
    <3>1. \A w \in Live : tasks[w].owner # pc[u].arg BY DEF ProcInv, Waits
    <3>2. me # pc[u].arg BY <1>2, <3>1 DEF me
    <3> QED BY <1>2, <1>3, <1>5, <1>7, <3>1, <3>2
  <2> QED BY <2>1 DEF ProcInv, Waits
<1>17. Waiters'
  BY <1>1, <1>2, <1>3, <1>5, <1>8, <1>9, <1>10 DEF ProcInv, Waiters
<1>18. Joins'
  <2> SUFFICES ASSUME NEW u \in Live, pc[u].at = "join"
               PROVE  /\ pc[u].arg \in Task /\ KeptThread(pc[u].arg)'
                      /\ u \in Blocked <=> pc[u].arg \in Live'
                      /\ pc[u].arg \in Live' => tasks'[pc[u].arg].joining_task = u
    <3>1. ASSUME NEW u \in Live', pc'[u].at = "join" PROVE u \in Live /\ pc'[u] = pc[u]
      BY <1>2, <1>3, <1>5, <1>8, <3>1
    <3> QED BY <1>1, <1>2, <1>3, <1>5, <1>8, <1>9, <3>1 DEF Joins, KeptThread
  <2>1. /\ pc[u].arg \in Task /\ KeptThread(pc[u].arg)
        /\ u \in Blocked <=> pc[u].arg \in Live
        /\ pc[u].arg \in Live => tasks[pc[u].arg].joining_task = u
    BY DEF ProcInv, Joins
  <2>2. pc[u].arg # t BY <1>10, <2>1
  <2>3. KeptThread(pc[u].arg)'
    BY <1>2, <1>3, <1>7, <1>8, <1>9, <2>1, <2>2 DEF KeptThread
  <2> QED BY <1>5, <1>7, <2>1, <2>2, <2>3
<1>19. Joiners'
  BY <1>2, <1>3, <1>5, <1>7, <1>8, <1>10 DEF ProcInv, Joiners
<1>20. Sleeps'
  BY <1>2, <1>3, <1>5, <1>8, <1>10 DEF ProcInv, Sleeps, SameSleepers
<1> QED BY <1>4, <1>12, <1>13, <1>14, <1>15, <1>16, <1>17, <1>18, <1>19, <1>20 DEF ProcInv

(* create_process changes only the new struct, and the next pointer of the *)
(* last one.                                                               *)
LEMMA CreateProcess ==
  ASSUME ProcTypes, NEW p \in Proc, NEW m \in Task, s_next_pid <= MaxPid, create_process(p, m)
  PROVE  /\ procs' \in [Proc -> ProcStruct]
         /\ procs'[p].pid = s_next_pid /\ procs'[p].main_task = m
         /\ procs'[p].waiting_task = NoTask
         /\ \A q \in Proc : q # p => /\ procs'[q].pid = procs[q].pid
                                     /\ procs'[q].main_task = procs[q].main_task
                                     /\ procs'[q].waiting_task = procs[q].waiting_task
         /\ s_processes' \in Proc /\ s_last_process' \in Proc
         /\ s_next_pid' = s_next_pid + 1 /\ s_next_pid' \in Pid
<1>1. /\ s_last_process \in Proc /\ s_processes \in Proc /\ s_next_pid \in Pid
      /\ procs \in [Proc -> ProcStruct] /\ NoProc \notin Proc
  BY ProcessAssumption DEF ProcTypes
<1>2. PICK new : new = [FreshProc EXCEPT !.pid = s_next_pid, !.main_task = m] OBVIOUS
<1>3. FreshProc \in ProcStruct /\ FreshProc.waiting_task = NoTask
  <2>1. 0 \in Pid BY ProcessAssumption DEF Pid
  <2> QED BY <2>1 DEF FreshProc, ProcStruct
<1>4. /\ new \in ProcStruct /\ new.pid = s_next_pid /\ new.main_task = m
      /\ new.waiting_task = NoTask
  BY <1>1, <1>2, <1>3 DEF ProcStruct
<1> DEFINE zeroed == [procs EXCEPT ![p] = new]
<1>5. procs' = [zeroed EXCEPT ![s_last_process].next = p] BY <1>1, <1>2 DEF create_process
<1>6. zeroed \in [Proc -> ProcStruct] /\ zeroed[p] = new
      /\ \A q \in Proc : q # p => zeroed[q] = procs[q]
  BY <1>1, <1>4
<1> HIDE DEF zeroed
<1>7. /\ procs' \in [Proc -> ProcStruct]
      /\ \A q \in Proc : /\ procs'[q].pid = zeroed[q].pid
                         /\ procs'[q].main_task = zeroed[q].main_task
                         /\ procs'[q].waiting_task = zeroed[q].waiting_task
  BY <1>1, <1>5, <1>6 DEF ProcStruct
<1>8. /\ s_processes' \in Proc /\ s_last_process' \in Proc
      /\ s_next_pid' = s_next_pid + 1
  BY <1>1 DEF create_process
<1>9. s_next_pid' \in Pid BY <1>1, <1>8, ProcessAssumption DEF Pid
<1> QED BY <1>4, <1>6, <1>7, <1>8, <1>9

(* process_exec: new structs, or freed ones that nobody refers to.         *)
LEMMA ExecProcInv ==
  ASSUME SchedInv, ProcInv, SYS_EXEC
  PROVE  (\E t \in Task : SchedCreate(t)) /\ ProcInv'
<1>0. PICK t \in Task \ allocated, p \in Proc \ allocated :
        /\ create_process(p, t)
        /\ tasks' = [tasks EXCEPT ![t] = [FreshTask EXCEPT !.owner = p]]
        /\ g_sched' = scheduler_add(task_create(g_sched, t), t)
        /\ allocated' = allocated \cup {t, p}
        /\ pc' = [pc EXCEPT ![t] = User]
  BY DEF SYS_EXEC
<1>1. cur # Idle /\ s_next_pid <= MaxPid /\ UNCHANGED <<listening, killed, halted>>
  BY DEF SYS_EXEC, InUser
<1>2. /\ Live \subseteq Task /\ Blocked \subseteq Live
      /\ Asleep \subseteq Task /\ Task \cap Proc = {} /\ NoTask \notin Task
  BY CurrentTask
<1>3. /\ t \notin Live /\ t \notin Asleep /\ t # InitTask
      /\ \A q \in Proc \cap allocated : procs[q].waiting_task # t /\ procs[q].main_task # t
      /\ \A h \in Live : tasks[h].joining_task # t
  BY FreeTask
<1>4. SchedCreate(t) BY <1>0, <1>3 DEF SchedCreate
<1>5. Live' = Live \cup {t} /\ Blocked' = Blocked /\ SameSleepers
  <2>1. Live' = Live \cup {t} /\ Blocked' = Blocked \ {t} /\ SameSleepers BY <1>4, SchedCreateInv
  <2>2. Blocked \ {t} = Blocked BY <1>2, <1>3
  <2> QED BY <2>1, <2>2
<1>6. /\ procs' \in [Proc -> ProcStruct]
      /\ procs'[p].pid = s_next_pid /\ procs'[p].main_task = t
      /\ procs'[p].waiting_task = NoTask
      /\ \A q \in Proc : q # p => /\ procs'[q].pid = procs[q].pid
                                  /\ procs'[q].main_task = procs[q].main_task
                                  /\ procs'[q].waiting_task = procs[q].waiting_task
      /\ s_processes' \in Proc /\ s_last_process' \in Proc
      /\ s_next_pid' = s_next_pid + 1 /\ s_next_pid' \in Pid
  BY <1>0, <1>1, CreateProcess DEF ProcInv
<1>7. /\ tasks' \in [Task -> TaskStruct]
      /\ tasks'[t].owner = p /\ tasks'[t].task_index = 0 /\ tasks'[t].joining_task = NoTask
      /\ \A u \in Task : u # t => tasks'[u] = tasks[u]
  <2>1. PICK new : new = [FreshTask EXCEPT !.owner = p] OBVIOUS
  <2>2. FreshTask \in TaskStruct /\ FreshTask.joining_task = NoTask
        /\ FreshTask.task_index = 0
    BY DEF FreshTask, TaskStruct
  <2>3. new \in TaskStruct /\ new.owner = p /\ new.task_index = 0
        /\ new.joining_task = NoTask
    BY <2>1, <2>2 DEF TaskStruct
  <2>4. tasks' = [tasks EXCEPT ![t] = new] BY <1>0, <2>1
  <2> QED BY <2>3, <2>4 DEF ProcInv, ProcTypes
<1>8. /\ pc' \in [Task -> Control] /\ pc'[t].at = "user"
      /\ \A u \in Task : u # t => pc'[u] = pc[u]
  BY <1>0, ControlTypes DEF ProcInv, ProcTypes
<1>9. /\ \A u \in Task : u \in allocated' <=> u \in allocated \/ u = t
      /\ \A q \in Proc : q \in allocated' <=> q \in allocated \/ q = p
  BY <1>0, <1>2
<1>10. \A u \in Task : KeptThread(u) => KeptThread(u)' /\ u # t
  BY <1>7, <1>9 DEF KeptThread
<1>11. InitTask \in Task BY SchedulerAssumption
<1>12. ProcTypes' BY <1>0, <1>1, <1>6, <1>7, <1>8 DEF ProcInv, ProcTypes
<1>13. Owners'
  BY <1>2, <1>3, <1>5, <1>7, <1>9 DEF ProcInv, Owners
<1>14. Mains'
  <2>1. tasks'[InitTask] = tasks[InitTask] BY <1>3, <1>7, <1>11
  <2>2. ASSUME NEW u \in Live', tasks'[u].task_index = 0
        PROVE  procs'[tasks'[u].owner].main_task = u
    <3>1. CASE u = t BY <1>6, <1>7, <3>1
    <3>2. CASE u # t
      <4>1. /\ u \in Live /\ tasks'[u] = tasks[u] /\ tasks[u].owner \in Proc \cap allocated
            /\ procs[tasks[u].owner].main_task = u
        BY <1>2, <1>5, <1>7, <2>2, <3>2 DEF ProcInv, Mains, Owners
      <4> QED BY <1>0, <1>6, <4>1
    <3> QED BY <3>1, <3>2
  <2>3. ASSUME NEW q \in Proc \cap allocated'
        PROVE  /\ procs'[q].main_task \in Task \cap allocated'
               /\ tasks'[procs'[q].main_task].task_index = 0
               /\ tasks'[procs'[q].main_task].owner = q
    <3>1. CASE q = p BY <1>6, <1>7, <1>9, <3>1
    <3>2. CASE q # p
      <4>1. q \in allocated BY <1>9, <3>2
      <4>2. /\ procs[q].main_task \in Task \cap allocated /\ procs[q].main_task # t
            /\ tasks[procs[q].main_task].task_index = 0
            /\ tasks[procs[q].main_task].owner = q
        BY <1>3, <4>1 DEF ProcInv, Mains
      <4> QED BY <1>6, <1>7, <1>9, <3>2, <4>2
    <3> QED BY <3>1, <3>2
  <2>4. ASSUME NEW u \in Live' PROVE procs'[tasks'[u].owner].main_task \in Live'
    <3>1. CASE u = t BY <1>5, <1>6, <1>7, <3>1
    <3>2. CASE u # t
      <4>1. /\ u \in Live /\ tasks'[u] = tasks[u] /\ tasks[u].owner \in Proc \cap allocated
            /\ procs[tasks[u].owner].main_task \in Live
        BY <1>2, <1>5, <1>7, <3>2 DEF ProcInv, Mains, Owners
      <4> QED BY <1>0, <1>5, <1>6, <4>1
    <3> QED BY <3>1, <3>2
  <2> QED BY <2>1, <2>2, <2>3, <2>4 DEF ProcInv, Mains
<1>15. Pids'
  <2>1. s_next_pid \in Int /\ \A q \in Proc : procs[q].pid \in Int
    BY Fields DEF ProcInv, ProcTypes, Pid
  <2>2. \A q \in Proc : procs[q].pid < s_next_pid BY DEF ProcInv, Pids
  <2>3. \A q \in Proc : procs'[q].pid < s_next_pid'
    BY <1>6, <2>1, <2>2
  <2>4. \A q, r \in Proc \cap allocated' : procs'[q].pid = procs'[r].pid => q = r
    <3> SUFFICES ASSUME NEW q \in Proc \cap allocated', NEW r \in Proc \cap allocated',
                        procs'[q].pid = procs'[r].pid
                 PROVE  q = r
      OBVIOUS
    <3>1. CASE q # p /\ r # p BY <1>6, <1>9, <3>1 DEF ProcInv, Pids
    <3>2. CASE q = p /\ r # p BY <1>6, <2>1, <2>2, <3>2
    <3>3. CASE q # p /\ r = p BY <1>6, <2>1, <2>2, <3>3
    <3> QED BY <3>1, <3>2, <3>3
  <2>5. \A q \in Proc \ allocated' : procs'[q].pid = 0 \/ procs'[q].waiting_task # NoTask
    BY <1>6, <1>9 DEF ProcInv, Pids
  <2> QED BY <2>3, <2>4, <2>5 DEF Pids
<1>16. Waits'
  <2> SUFFICES ASSUME NEW u \in Live', pc'[u].at = "wait"
               PROVE  /\ pc'[u].arg \in Proc \cap allocated'
                      /\ procs'[pc'[u].arg].waiting_task = u
                      /\ procs'[pc'[u].arg].pid = pc'[u].pid
                      /\ u \notin Blocked' => \A v \in Live' : tasks'[v].owner # pc'[u].arg
                      /\ ~pc'[u].late => (u \in Blocked' <=> pc'[u].pid \notin killed')
    BY DEF Waits
  <2>1. u \in Live /\ u # t /\ pc'[u] = pc[u] /\ pc[u].at = "wait"
    BY <1>2, <1>5, <1>8
  <2>2. /\ pc[u].arg \in Proc \cap allocated
        /\ procs[pc[u].arg].waiting_task = u /\ procs[pc[u].arg].pid = pc[u].pid
        /\ u \notin Blocked => \A v \in Live : tasks[v].owner # pc[u].arg
        /\ ~pc[u].late => (u \in Blocked <=> pc[u].pid \notin killed)
    BY <2>1 DEF ProcInv, Waits
  <2>3. pc[u].arg # p BY <1>0, <2>2
  <2>4. u \notin Blocked => \A v \in Live' : tasks'[v].owner # pc[u].arg
    BY <1>2, <1>5, <1>7, <2>2, <2>3
  <2> QED BY <1>1, <1>5, <1>6, <1>9, <2>1, <2>2, <2>3, <2>4
<1>17. Waiters'
  <2> SUFFICES ASSUME NEW q \in Proc \cap allocated', procs'[q].waiting_task \in Task
               PROVE  LET w == procs[q].waiting_task
                      IN  /\ procs'[q].waiting_task = w
                          /\ \/ w \notin Live' /\ KeptThread(w)'
                             \/ w \in Live' /\ pc'[w].at = "wait" /\ pc'[w].arg = q
    BY DEF Waiters, KeptThread
  <2>1. q # p /\ q \in allocated BY <1>2, <1>6, <1>9
  <2>2. PICK w \in Task : w = procs[q].waiting_task BY <1>6, <2>1
  <2>3. w # t /\ procs'[q].waiting_task = w BY <1>3, <1>6, <2>1, <2>2
  <2>4. \/ w \notin Live /\ KeptThread(w)
        \/ w \in Live /\ pc[w].at = "wait" /\ pc[w].arg = q
    BY <2>1, <2>2 DEF ProcInv, Waiters
  <2>5. \/ w \notin Live' /\ KeptThread(w)'
        \/ w \in Live' /\ pc'[w].at = "wait" /\ pc'[w].arg = q
    BY <1>5, <1>8, <1>10, <2>3, <2>4
  <2>6. KeptThread(w)' => w \in allocated' /\ tasks'[w].task_index = 1 BY DEF KeptThread
  <2> QED BY <2>2, <2>3, <2>5, <2>6 DEF KeptThread
<1>18. Joins'
  <2> SUFFICES ASSUME NEW u \in Live, pc[u].at = "join"
               PROVE  /\ pc[u].arg \in Task /\ KeptThread(pc[u].arg)'
                      /\ u \in Blocked <=> pc[u].arg \in Live'
                      /\ pc[u].arg \in Live' => tasks'[pc[u].arg].joining_task = u
    <3>1. ASSUME NEW u \in Live', pc'[u].at = "join" PROVE u \in Live /\ pc'[u] = pc[u]
      BY <1>2, <1>3, <1>5, <1>8, <3>1
    <3> QED BY <1>1, <1>2, <1>3, <1>5, <1>8, <1>9, <3>1 DEF Joins, KeptThread
  <2>1. /\ pc[u].arg \in Task /\ KeptThread(pc[u].arg)
        /\ u \in Blocked <=> pc[u].arg \in Live
        /\ pc[u].arg \in Live => tasks[pc[u].arg].joining_task = u
    BY DEF ProcInv, Joins
  <2>2. pc[u].arg # t BY <1>10, <2>1
  <2>3. KeptThread(pc[u].arg)'
    BY <1>2, <1>3, <1>7, <1>8, <1>9, <2>1, <2>2 DEF KeptThread
  <2> QED BY <1>5, <1>7, <2>1, <2>2, <2>3
<1>19. Joiners'
  BY <1>2, <1>3, <1>5, <1>7, <1>8, <1>10 DEF ProcInv, Joiners
<1>20. Sleeps'
  BY <1>2, <1>3, <1>5, <1>8, <1>10 DEF ProcInv, Sleeps, SameSleepers
<1> QED BY <1>4, <1>12, <1>13, <1>14, <1>15, <1>16, <1>17, <1>18, <1>19, <1>20 DEF ProcInv

(* What wakes a joiner or a waiter, in the scheduler's terms.              *)
LEMMA SetReady ==
  ASSUME NEW s, SType(s), NEW t \in Task \cup {NoTask}
  PROVE  set_ready_if(s, t) = wake_all(s, {t} \cap Task)
<1>0. /\ DOMAIN s.state = Task \cup {Idle} /\ NoTask \notin Task
      /\ s.state = [u \in DOMAIN s.state |-> s.state[u]]
  BY SchedulerAssumption DEF SType
<1>1. CASE t = NoTask
  <2>1. {t} \cap Task = {} BY <1>0, <1>1
  <2>2. wake_all(s, {}) = [s EXCEPT !.state = s.state] BY <1>0 DEF wake_all
  <2>3. [s EXCEPT !.state = s.state] = s BY DEF SType
  <2> QED BY <1>1, <2>1, <2>2, <2>3 DEF set_ready_if
<1>2. CASE t \in Task
  <2>1. {t} \cap Task = {t} BY <1>2
  <2> DEFINE a == [s.state EXCEPT ![t] = IF s.state[t] = BLOCKED THEN READY ELSE s.state[t]]
             b == [u \in DOMAIN s.state |-> IF u \in {t} /\ s.state[u] = BLOCKED
                                            THEN READY ELSE s.state[u]]
  <2>2. a = b BY <1>0, <1>2
  <2>3. wake_all(s, {t}) = [s EXCEPT !.state = b] BY DEF wake_all
  <2>4. set_ready_if(s, t) = [s EXCEPT !.state = a]
    BY <1>0, <1>2 DEF set_ready_if, task_set_ready
  <2> HIDE DEF a, b
  <2> QED BY <2>1, <2>2, <2>3, <2>4
<1> QED BY <1>1, <1>2

(* A wake-up out of a listener slot keeps joins, waits and sleeps exact    *)
(* when the task is blocked in what the slot is for, or not at all.        *)
LEMMA NotifyProcInv ==
  ASSUME SchedInv, ProcInv, NEW t \in Task, NEW again \in BOOLEAN, notify(t, again)
  PROVE  SchedWake({t}) /\ (broken' = "no" => ProcInv')
<1>0. /\ g_sched' = task_set_ready(g_sched, t)
      /\ broken' = IF g_sched.state[t] = BLOCKED /\ pc[t].at # "listen"
                   THEN "stale_wake" ELSE broken
      /\ listening' = IF again THEN listening ELSE listening \ {t}
      /\ UNCHANGED <<tasks, procs, s_processes, s_last_process, s_next_pid, allocated, pc,
                     killed, halted>>
  BY DEF notify, procUnchanged
<1>1. /\ Live \subseteq Task /\ Blocked \subseteq Live /\ SType(g_sched) /\ NoTask \notin Task
  BY CurrentTask
<1>2. SchedWake({t})
  <2>1. set_ready_if(g_sched, t) = task_set_ready(g_sched, t) BY <1>1 DEF set_ready_if
  <2>2. {t} \cap Task = {t} OBVIOUS
  <2> QED BY <1>0, <1>1, <2>1, <2>2, SetReady DEF SchedWake
<1>3. SameSleepers /\ Live' = Live /\ Blocked' = Blocked \ {t} BY <1>2, SchedWakeInv
<1>4. ASSUME broken' = "no" PROVE ProcInv'
  <2>1. t \notin Blocked \/ pc[t].at = "listen" BY <1>0, <1>4 DEF Blocked, Bk
  <2>2. \A u \in Live : pc[u].at \in {"wait", "join", "sleep"} =>
                          (u \in Blocked' <=> u \in Blocked)
    BY <1>3, <2>1
  <2>3. ProcTypes' BY <1>0 DEF ProcInv, ProcTypes
  <2>4. Owners' /\ Mains' /\ Pids' BY <1>0, <1>3 DEF ProcInv, Owners, Mains, Pids
  <2>5. Waits' BY <1>0, <1>3, <2>2 DEF ProcInv, Waits
  <2>6. Waiters' BY <1>0, <1>3 DEF ProcInv, Waiters, KeptThread
  <2>7. Joins' BY <1>0, <1>3, <2>2 DEF ProcInv, Joins, KeptThread
  <2>8. Joiners' BY <1>0, <1>3 DEF ProcInv, Joiners, KeptThread
  <2>9. Sleeps' BY <1>0, <1>3, <2>2 DEF ProcInv, Sleeps, KeptThread, SameSleepers
  <2> QED BY <2>3, <2>4, <2>5, <2>6, <2>7, <2>8, <2>9 DEF ProcInv
<1> QED BY <1>2, <1>4

(* Setting fields to what they are changes nothing.                        *)
LEMMA SameFields == ASSUME NEW r, SType(r) PROVE [r EXCEPT !.state = r.state, !.queue = r.queue] = r
BY DEF SType

(* Waking the same tasks twice is waking them once.                        *)
LEMMA WakeTwice ==
  ASSUME NEW s, SType(s), NEW W \in SUBSET Task
  PROVE  SType(wake_all(s, W)) /\ wake_all(wake_all(s, W), W) = wake_all(s, W)
<1> DEFINE st == Woken(s.state, W)
           r == wake_all(s, W)
<1>1. r = AfterWake(s, W, s.queue) /\ s.queue \in Seq([t: Task, wake: Int])
      /\ Len(s.queue) <= SLEEP_QUEUE_MAX
  BY WakeAll
<1>2. SType(r)
  <2> HIDE DEF r
  <2>1. OnlyWoken(r, s, s.queue) BY <1>1, WokenKeeps
  <2> QED BY <2>1 DEF OnlyWoken
<1>3. r.state = st /\ DOMAIN s.state = Task \cup {Idle} BY <1>1 DEF AfterWake, SType
<1>4. wake_all(r, W) = AfterWake(r, W, r.queue) BY <1>2, WakeAll
<1>5. Woken(st, W) = st BY DEF Woken, READY, BLOCKED
<1>6. AfterWake(r, W, r.queue) = r
  <2>1. AfterWake(r, W, r.queue) = [r EXCEPT !.state = Woken(r.state, W), !.queue = r.queue]
    BY DEF AfterWake
  <2>2. Woken(r.state, W) = r.state BY <1>3, <1>5
  <2> HIDE DEF r
  <2>3. [r EXCEPT !.state = r.state, !.queue = r.queue] = r BY <1>2, SameFields
  <2> QED BY <2>1, <2>2, <2>3
<1> QED BY <1>2, <1>4, <1>6

(* A thread ends, by itself or killed by another one: its joiner, and      *)
(* nobody else, is woken.                                                  *)
LEMMA ThreadEnds ==
  ASSUME SchedInv, ProcInv, NEW h \in Live, tasks[h].task_index = 1,
         Live' = Live \ {h},
         Blocked' = Blocked \ (({tasks[h].joining_task} \cap Task) \cup {h}), SameSleepers,
         UNCHANGED <<tasks, procs, s_processes, s_last_process, s_next_pid, allocated, pc,
                     listening, killed, halted>>
  PROVE  ProcInv'
<1>1. /\ Live \subseteq Task /\ Blocked \subseteq Live /\ NoTask \notin Task
      /\ h \in Task /\ InitTask \in Live /\ Asleep \subseteq Task
  BY CurrentTask
<1>2. KeptThread(h) BY DEF KeptThread, ProcInv, Owners
<1>3. \A t \in Task : KeptThread(t)' <=> KeptThread(t) BY DEF KeptThread
<1>4. \A t \in Live' : t \in Blocked' <=> t \in Blocked /\ t # tasks[h].joining_task
  BY <1>1
<1>5. \A t \in Live' : t = tasks[h].joining_task => pc[t].at = "join" /\ pc[t].arg = h
  BY <1>1 DEF ProcInv, Joiners
<1>6. ProcTypes' BY DEF ProcInv, ProcTypes
<1>7. Owners' /\ Mains' /\ Pids'
  BY DEF ProcInv, Owners, Mains, Pids
<1>8. Waits'
  <2> SUFFICES ASSUME NEW t \in Live', pc[t].at = "wait"
               PROVE  /\ pc[t].arg \in Proc \cap allocated
                      /\ procs[pc[t].arg].waiting_task = t /\ procs[pc[t].arg].pid = pc[t].pid
                      /\ t \notin Blocked' => \A u \in Live' : tasks[u].owner # pc[t].arg
                      /\ ~pc[t].late => (t \in Blocked' <=> pc[t].pid \notin killed)
    BY DEF Waits
  <2>1. t \in Live /\ (t \in Blocked' <=> t \in Blocked) BY <1>4, <1>5
  <2> QED BY <2>1 DEF ProcInv, Waits
<1>9. Waiters' BY <1>1, <1>2, <1>3 DEF ProcInv, Waiters
<1>10. Joins'
  <2> SUFFICES ASSUME NEW t \in Live', pc[t].at = "join"
               PROVE  /\ pc[t].arg \in Task /\ KeptThread(pc[t].arg)
                      /\ t \in Blocked' <=> pc[t].arg \in Live'
                      /\ pc[t].arg \in Live' => tasks[pc[t].arg].joining_task = t
    BY <1>3 DEF Joins, KeptThread
  <2>1. /\ pc[t].arg \in Task /\ KeptThread(pc[t].arg)
        /\ t \in Blocked <=> pc[t].arg \in Live
        /\ pc[t].arg \in Live => tasks[pc[t].arg].joining_task = t
    BY DEF ProcInv, Joins
  <2>2. CASE pc[t].arg = h BY <1>4, <2>1, <2>2
  <2>3. CASE pc[t].arg # h BY <1>4, <1>5, <2>1, <2>3
  <2> QED BY <2>1, <2>2, <2>3
<1>11. Joiners' BY <1>1, <1>2, <1>3 DEF ProcInv, Joiners
<1>12. Sleeps'
  <2>1. \A t \in Live' : t \in Asleep' <=> t \in Blocked' /\ pc[t].at = "sleep"
    BY <1>4, <1>5 DEF ProcInv, Sleeps, SameSleepers
  <2>2. \A t \in Asleep' \ Live' : KeptThread(t)
    BY <1>2 DEF ProcInv, Sleeps, SameSleepers
  <2> QED BY <1>1, <1>3, <2>1, <2>2 DEF ProcInv, Sleeps, SameSleepers
<1> QED BY <1>6, <1>7, <1>8, <1>9, <1>10, <1>11, <1>12 DEF ProcInv

(* The main task ends when its process has no other task left: whoever     *)
(* waits for the process, and nobody else, is woken.                       *)
LEMMA MainEnds ==
  ASSUME SchedInv, ProcInv, cur # Idle, tasks[cur].task_index = 0,
         pc[cur].at = "user", LiveThreads(me) = {},
         Live' = Live \ {cur},
         Blocked' = Blocked \ (({procs[me].waiting_task} \cap Task) \cup {cur}), SameSleepers,
         killed' = killed \cup kills(me),
         pc' \in [Task -> Control], \A t \in Task : t # cur => pc'[t] = pc[t],
         UNCHANGED <<tasks, procs, s_processes, s_last_process, s_next_pid, allocated,
                     listening, halted>>
  PROVE  ProcInv'
<1>1. /\ Live \subseteq Task /\ Blocked \subseteq Live /\ NoTask \notin Task
      /\ cur \in Task /\ cur \in Live /\ cur \notin Blocked /\ InitTask \in Live
      /\ Asleep \subseteq Task
  BY CurrentTask
<1>2. me \in Proc \cap allocated BY <1>1 DEF me, ProcInv, Owners
<1>3. killed' = killed \cup {procs[me].pid} /\ procs[me].pid \in Pid
  BY <1>2, Fields DEF kills, ProcInv
<1>4. \A u \in Live : tasks[u].owner = me => u = cur
  <2> SUFFICES ASSUME NEW u \in Live, tasks[u].owner = me PROVE u = cur OBVIOUS
  <2>1. u \in Task /\ u \in allocated BY <1>1 DEF ProcInv, Owners
  <2>2. g_sched.state[u] # DEAD BY DEF Live
  <2>3. tasks[u].task_index = 0 BY <2>1, <2>2 DEF LiveThreads, Threads
  <2> QED BY <1>1, <2>3 DEF ProcInv, Mains, me
<1>5. \A t \in Task : KeptThread(t)' <=> KeptThread(t) BY DEF KeptThread
<1>6. \A t \in Live' : /\ t \in Live /\ t \in Task /\ t # cur /\ pc'[t] = pc[t]
                       /\ t \in Blocked' <=> t \in Blocked /\ t # procs[me].waiting_task
  BY <1>1
<1>7. \A t \in Live' : t = procs[me].waiting_task => pc[t].at = "wait" /\ pc[t].arg = me
  BY <1>1, <1>2 DEF ProcInv, Waiters
<1>8. /\ \A p \in Proc \cap allocated : procs[p].waiting_task # cur
      /\ \A h \in Live : tasks[h].joining_task # cur
      /\ cur \notin Asleep
  BY NobodyWakesUser
<1>9. ProcTypes' BY <1>3 DEF ProcInv, ProcTypes
<1>10. Owners' /\ Mains' /\ Pids'
  <2>1. ASSUME NEW t \in Live' PROVE procs[tasks[t].owner].main_task \in Live'
    <3>1. tasks[t].owner # me /\ tasks[t].owner \in Proc \cap allocated
      BY <1>4, <1>6 DEF ProcInv, Owners
    <3>2. procs[tasks[t].owner].main_task # cur BY <3>1 DEF ProcInv, Mains, me
    <3> QED BY <1>6, <3>2 DEF ProcInv, Mains
  <2>2. Owners' /\ Pids' BY DEF ProcInv, Owners, Pids
  <2> QED BY <2>1, <2>2 DEF ProcInv, Mains
<1>11. Waits'
  <2> SUFFICES ASSUME NEW t \in Live', pc[t].at = "wait"
               PROVE  /\ pc[t].arg \in Proc \cap allocated
                      /\ procs[pc[t].arg].waiting_task = t /\ procs[pc[t].arg].pid = pc[t].pid
                      /\ t \notin Blocked' => \A u \in Live' : tasks[u].owner # pc[t].arg
                      /\ ~pc[t].late => (t \in Blocked' <=> pc[t].pid \notin killed')
    BY <1>6 DEF Waits
  <2>1. /\ pc[t].arg \in Proc \cap allocated
        /\ procs[pc[t].arg].waiting_task = t /\ procs[pc[t].arg].pid = pc[t].pid
        /\ t \notin Blocked => \A u \in Live : tasks[u].owner # pc[t].arg
        /\ ~pc[t].late => (t \in Blocked <=> pc[t].pid \notin killed)
    BY <1>6 DEF ProcInv, Waits
  <2>2. CASE pc[t].arg = me
    BY <1>3, <1>4, <1>6, <2>1, <2>2
  <2>3. CASE pc[t].arg # me
    <3>1. t \in Blocked' <=> t \in Blocked BY <1>6, <1>7, <2>3
    <3>2. pc[t].pid # procs[me].pid BY <1>2, <2>1, <2>3 DEF ProcInv, Pids
    <3>3. pc[t].pid \in killed' <=> pc[t].pid \in killed BY <1>3, <3>2
    <3> QED BY <1>6, <2>1, <3>1, <3>3
  <2> QED BY <2>2, <2>3
<1>12. Waiters' BY <1>1, <1>5, <1>6, <1>8 DEF ProcInv, Waiters
<1>13. Joins'
  <2> SUFFICES ASSUME NEW t \in Live', pc[t].at = "join"
               PROVE  /\ pc[t].arg \in Task /\ KeptThread(pc[t].arg)
                      /\ t \in Blocked' <=> pc[t].arg \in Live'
                      /\ pc[t].arg \in Live' => tasks[pc[t].arg].joining_task = t
    BY <1>6 DEF Joins, KeptThread
  <2>1. /\ pc[t].arg \in Task /\ KeptThread(pc[t].arg)
        /\ t \in Blocked <=> pc[t].arg \in Live
        /\ pc[t].arg \in Live => tasks[pc[t].arg].joining_task = t
    BY <1>6 DEF ProcInv, Joins
  <2>2. pc[t].arg # cur BY <2>1 DEF KeptThread
  <2>3. t \in Blocked' <=> t \in Blocked BY <1>6, <1>7
  <2> QED BY <2>1, <2>2, <2>3
<1>14. Joiners' BY <1>1, <1>5, <1>6, <1>8 DEF ProcInv, Joiners
<1>15. Sleeps'
  <2>1. \A t \in Live' : t \in Asleep' <=> t \in Blocked' /\ pc'[t].at = "sleep"
    BY <1>6, <1>7 DEF ProcInv, Sleeps, SameSleepers
  <2>2. \A t \in Asleep' \ Live' : KeptThread(t)
    BY <1>8 DEF ProcInv, Sleeps, SameSleepers
  <2> QED BY <1>1, <1>5, <2>1, <2>2 DEF ProcInv, Sleeps, SameSleepers
<1> QED BY <1>9, <1>10, <1>11, <1>12, <1>13, <1>14, <1>15 DEF ProcInv

(* process_kill_thread is the scheduler's kill of a task that is neither   *)
(* current nor init's, with a wake-up of the joiner.                       *)
LEMMA KillProcInv ==
  ASSUME SchedInv, ProcInv, NEW h \in Task, SYS_THREAD_KILL(h)
  PROVE  SchedKill(h, {tasks[h].joining_task} \cap Task) /\ ProcInv'
<1> DEFINE W == {tasks[h].joining_task} \cap Task
<1>0. /\ tasks[h].task_index # 0 /\ h # cur /\ g_sched.state[h] # DEAD
      /\ g_sched' = task_kill(g_sched, h)
      /\ UNCHANGED <<tasks, procs, s_processes, s_last_process, s_next_pid, allocated, pc,
                     listening, killed, halted>>
  BY DEF SYS_THREAD_KILL, Threads, procUnchanged
<1>1. /\ h \in Live /\ h # InitTask /\ tasks[h].task_index = 1
      /\ tasks[h].joining_task \in Task \cup {NoTask}
  BY <1>0, Fields DEF Live, ProcInv, Mains
<1>2. SType(g_sched) /\ Ring(g_sched) /\ g_sched.list = InitTask
  BY CurrentTask DEF SchedInv, Inv
<1>3. SType(unlink_dead(g_sched, h)) BY <1>1, <1>2, RemoveRing, LiveTasksOf
<1>4. g_sched' = set_ready_if(unlink_dead(g_sched, h), tasks[h].joining_task)
  BY <1>0 DEF task_kill, wake_joiner
<1>5. g_sched' = wake_all(unlink_dead(g_sched, h), W) BY <1>1, <1>3, <1>4, SetReady
<1>6. SchedKill(h, W) BY <1>0, <1>1, <1>2, <1>5 DEF SchedKill
<1>7. SameSleepers /\ Live' = Live \ {h} /\ Blocked' = Blocked \ (W \cup {h})
  <2>1. W \in SUBSET Task OBVIOUS
  <2> HIDE DEF W
  <2> QED BY <1>6, <2>1, SchedKillInv
<1>8. ProcInv' BY <1>0, <1>1, <1>7, ThreadEnds
<1> QED BY <1>6, <1>8

(* The current task, not init's, leaves the ring.                          *)
LEMMA UnlinkCurrent ==
  ASSUME SchedInv, ProcInv, cur # Idle, me # InitProc
  PROVE  /\ cur \in Live /\ cur \in Task /\ cur # g_sched.list /\ me \in Proc
         /\ SType(unlink_dead(g_sched, cur)) /\ unlink_dead(g_sched, cur).state[cur] = DEAD
<1>1. /\ cur \in Live /\ cur \in Task /\ SType(g_sched) /\ Ring(g_sched)
      /\ g_sched.list = InitTask
  BY CurrentTask DEF SchedInv, Inv
<1>2. cur # InitTask BY DEF ProcInv, Mains, me
<1>3. me \in Proc BY <1>1 DEF ProcInv, Owners, me
<1>4. PICK d : /\ d = unlink_dead(g_sched, cur) /\ SType(d)
               /\ d = [g_sched EXCEPT !.state = [g_sched.state EXCEPT ![cur] = DEAD],
                                      !.next = d.next, !.prev = d.prev]
  BY <1>1, <1>2, RemoveRing, LiveTasksOf
<1>5. d.state[cur] = DEAD
  <2>1. \A u \in Task \cup {Idle} : unlink_dead(g_sched, cur).state[u] = IF u = cur THEN DEAD ELSE g_sched.state[u]
    BY <1>1, <1>2, RemoveFields, LiveTasksOf
  <2> QED BY <1>1, <1>4, <2>1
<1> QED BY <1>1, <1>2, <1>3, <1>4, <1>5

(* process_exit_thread; the case of a main task beside live threads is the *)
(* one that ends the invariant.                                            *)
LEMMA ThreadExitProcInv ==
  ASSUME SchedInv, ProcInv, SYS_THREAD_EXIT
  PROVE  /\ \E W \in SUBSET Task : SchedExit(cur, W)
         /\ cur \in Live /\ cur \in Task
         /\ broken' = "no" => ProcInv'
<1> DEFINE d == unlink_dead(g_sched, cur)
<1>0. /\ cur # Idle /\ me # InitProc /\ pc[cur].at = "user"
      /\ g_sched' = schedule(task_kill(g_sched, cur))
      /\ killed' = IF tasks[cur].task_index = 0 THEN killed \cup kills(me) ELSE killed
      /\ broken' = IF tasks[cur].task_index = 0 /\ LiveThreads(me) # {} THEN "orphan" ELSE broken
      /\ UNCHANGED <<tasks, procs, s_processes, s_last_process, s_next_pid, allocated, pc,
                     listening, halted>>
  BY DEF SYS_THREAD_EXIT, InProgram, InUser, procUnchanged
<1>1. /\ cur \in Live /\ cur \in Task /\ cur # g_sched.list /\ me \in Proc
      /\ SType(d) /\ d.state[cur] = DEAD
  BY <1>0, UnlinkCurrent
<1> HIDE DEF d
<1>2. CASE tasks[cur].task_index = 0
  <2>1. PICK W \in SUBSET Task : W = {procs[me].waiting_task} \cap Task OBVIOUS
  <2>2. procs[me].main_task = cur BY <1>1, <1>2 DEF ProcInv, Mains, me
  <2>3. task_kill(g_sched, cur) = process_kill(d, me) BY <1>2 DEF task_kill, me, d
  <2>4. process_kill(d, me) = set_ready_if(d, procs[me].waiting_task)
    BY <1>1, <2>2 DEF process_kill, wake_waiter
  <2>5. procs[me].waiting_task \in Task \cup {NoTask} BY <1>1, Fields DEF ProcInv
  <2>6. task_kill(g_sched, cur) = wake_all(d, W)
    BY <1>1, <2>1, <2>3, <2>4, <2>5, SetReady
  <2>7. SchedExit(cur, W) BY <1>0, <1>1, <2>6 DEF SchedExit, d
  <2>8. SameSleepers /\ Live' = Live \ {cur} /\ Blocked' = Blocked \ (W \cup {cur})
    BY <1>1, <2>7, SchedExitInv
  <2>9. pc' \in [Task -> Control] BY <1>0 DEF ProcInv, ProcTypes
  <2>10. ASSUME broken' = "no" PROVE ProcInv'
    <3>1. LiveThreads(me) = {} BY <1>0, <1>2, <2>10
    <3>2. killed' = killed \cup kills(me) BY <1>0, <1>2
    <3> QED BY <1>0, <1>2, <2>1, <2>8, <2>9, <3>1, <3>2, MainEnds
  <2> QED BY <1>1, <2>7, <2>10
<1>3. CASE tasks[cur].task_index # 0
  <2>1. PICK W \in SUBSET Task : W = {tasks[cur].joining_task} \cap Task OBVIOUS
  <2>2. tasks[cur].task_index = 1 /\ tasks[cur].joining_task \in Task \cup {NoTask}
    BY <1>1, <1>3, Fields DEF ProcInv
  <2>3. task_kill(g_sched, cur) = set_ready_if(d, tasks[cur].joining_task)
    BY <1>3 DEF task_kill, wake_joiner, d
  <2>4. task_kill(g_sched, cur) = wake_all(d, W) BY <1>1, <2>1, <2>2, <2>3, SetReady
  <2>5. SchedExit(cur, W) BY <1>0, <1>1, <2>4 DEF SchedExit, d
  <2>6. SameSleepers /\ Live' = Live \ {cur} /\ Blocked' = Blocked \ (W \cup {cur})
    BY <1>1, <2>5, SchedExitInv
  <2>7. ProcInv' BY <1>0, <1>1, <1>3, <2>1, <2>2, <2>6, ThreadEnds
  <2> QED BY <1>1, <2>5, <2>7
<1> QED BY <1>2, <1>3

(* process_exit: whoever calls it, it is the main task that dies.          *)
LEMMA ExitProcInv ==
  ASSUME SchedInv, ProcInv, SYS_EXIT
  PROVE  LET m == procs[me].main_task
         IN  /\ \E W \in SUBSET Task : SchedExit(m, W)
             /\ m \in Live /\ m \in Task
             /\ broken' = "no" => ProcInv'
<1> DEFINE m == procs[me].main_task
           d == unlink_dead(g_sched, m)
<1>0. /\ cur # Idle /\ me # InitProc /\ pc[cur].at = "user"
      /\ g_sched' = schedule(process_kill(g_sched, me))
      /\ killed' = killed \cup kills(me) /\ pc' = [pc EXCEPT ![cur] = Exiting]
      /\ broken' = IF tasks[cur].task_index # 0 \/ LiveThreads(me) # {} THEN "orphan" ELSE broken
      /\ UNCHANGED <<tasks, procs, s_processes, s_last_process, s_next_pid, allocated,
                     listening, halted>>
  BY DEF SYS_EXIT, InProgram, InUser, procUnchanged
<1>1. /\ cur \in Live /\ cur \in Task /\ SType(g_sched) /\ Ring(g_sched)
      /\ g_sched.list = InitTask
  BY <1>0, CurrentTask DEF SchedInv, Inv
<1>2. /\ me \in Proc \cap allocated /\ m \in Live /\ m \in Task
      /\ tasks[m].task_index = 0 /\ tasks[m].owner = me
      /\ tasks[cur].task_index = 0 => m = cur
  <2>1. me \in Proc \cap allocated BY <1>1 DEF ProcInv, Owners, me
  <2> QED BY <1>1, <2>1 DEF ProcInv, Mains, me
<1> HIDE DEF m
<1>3. m # InitTask BY <1>0, <1>2 DEF ProcInv, Mains
<1>4. SType(d)
  <2>1. m \in Lv(g_sched) BY <1>2, LiveTasksOf
  <2> QED BY <1>1, <1>3, <2>1, RemoveRing
<1> HIDE DEF d
<1>5. PICK W \in SUBSET Task : W = {procs[me].waiting_task} \cap Task OBVIOUS
<1>6. g_sched.state[m] # DEAD BY <1>2 DEF Live
<1>7. procs[me].waiting_task \in Task \cup {NoTask} BY <1>2, Fields DEF ProcInv
<1>8. process_kill(g_sched, me) = wake_waiter(wake_waiter(d, me), me)
  BY <1>2, <1>6 DEF process_kill, d, m
<1>9. wake_waiter(d, me) = wake_all(d, W)
  BY <1>4, <1>5, <1>7, SetReady DEF wake_waiter
<1>10. SType(wake_all(d, W)) /\ wake_all(wake_all(d, W), W) = wake_all(d, W)
  BY <1>4, WakeTwice
<1>11. process_kill(g_sched, me) = wake_all(d, W)
  <2>1. PICK k : k = wake_all(d, W) OBVIOUS
  <2>2. SType(k) /\ wake_all(k, W) = k BY <1>10, <2>1
  <2>3. process_kill(g_sched, me) = set_ready_if(k, procs[me].waiting_task)
    BY <1>8, <1>9, <2>1 DEF wake_waiter
  <2> QED BY <1>5, <1>7, <2>1, <2>2, <2>3, SetReady
<1>12. SchedExit(m, W) BY <1>0, <1>1, <1>2, <1>3, <1>11 DEF SchedExit, d
<1>13. SameSleepers /\ Live' = Live \ {m} /\ Blocked' = Blocked \ (W \cup {m})
  BY <1>2, <1>12, SchedExitInv
<1>14. pc' \in [Task -> Control] /\ \A t \in Task : t # cur => pc'[t] = pc[t]
  BY <1>0, <1>1, ControlStep, ControlTypes DEF ProcInv
<1>15. ASSUME broken' = "no" PROVE ProcInv'
  <2>1. tasks[cur].task_index = 0 /\ LiveThreads(me) = {} /\ m = cur BY <1>0, <1>2, <1>15
  <2> QED BY <1>0, <1>5, <1>13, <1>14, <2>1, MainEnds
<1> QED BY <1>2, <1>12, <1>15 DEF m

(* The state in which system.elf has just been started.                    *)
LEMMA InitProcInv == Init => ProcInv
<1> SUFFICES ASSUME Init PROVE ProcInv OBVIOUS
<1>0. /\ InitTask \in Task /\ Idle \notin Task /\ InitProc \in Proc /\ NoTask \notin Task
      /\ NoProc \notin Proc /\ Task \cap Proc = {} /\ MaxPid \in Nat \ {0}
  BY SchedulerAssumption, ProcessAssumption
<1>1. SchedInv BY SchedInitInv DEF Init
<1>2. Live = {InitTask} /\ Asleep = {} /\ Blocked = {} /\ Single(g_sched.queue)
  <2>1. /\ g_sched.queue = <<>>
        /\ \A t \in Task : g_sched.state[t] = IF t = InitTask THEN RUNNING ELSE DEAD
    BY <1>0 DEF Init, SchedInit
  <2>2. Live = {InitTask} BY <1>0, <2>1 DEF Live, RUNNING, DEAD
  <2>3. Blocked = {} BY <2>1 DEF Blocked, Bk, RUNNING, DEAD, BLOCKED
  <2>4. Len(<<>>) = 0 OBVIOUS
  <2>5. Asleep = {} /\ Single(g_sched.queue) BY <2>1, <2>4 DEF Asleep, SleepersOf, Single
  <2> QED BY <2>2, <2>3, <2>5
<1>3. /\ tasks \in [Task -> TaskStruct]
      /\ \A t \in Task : /\ tasks[t].owner = IF t = InitTask THEN InitProc ELSE NoProc
                         /\ tasks[t].task_index = 0 /\ tasks[t].joining_task = NoTask
  BY <1>0 DEF Init, TaskStruct, FreshTask
<1>4. 0 \in Pid /\ 1 \in Pid /\ 2 \in Pid BY <1>0 DEF Pid
<1>5. /\ procs \in [Proc -> ProcStruct]
      /\ \A p \in Proc : /\ procs[p].pid = IF p = InitProc THEN 1 ELSE 0
                         /\ procs[p].main_task = IF p = InitProc THEN InitTask ELSE NoTask
                         /\ procs[p].waiting_task = NoTask
  <2>1. PICK i : i = [FreshProc EXCEPT !.pid = 1, !.main_task = InitTask] OBVIOUS
  <2>2. FreshProc \in ProcStruct /\ FreshProc.pid = 0 /\ FreshProc.main_task = NoTask
        /\ FreshProc.waiting_task = NoTask
    BY <1>4 DEF FreshProc, ProcStruct
  <2>3. i \in ProcStruct /\ i.pid = 1 /\ i.main_task = InitTask /\ i.waiting_task = NoTask
    BY <1>0, <1>4, <2>1, <2>2 DEF ProcStruct
  <2>4. procs = [p \in Proc |-> IF p = InitProc THEN i ELSE FreshProc] BY <2>1 DEF Init
  <2> QED BY <2>2, <2>3, <2>4
<1>6. pc \in [Task -> Control] /\ \A t \in Task : pc[t].at = "user"
  BY ControlTypes DEF Init
<1>7. /\ s_processes = InitProc /\ s_last_process = InitProc /\ s_next_pid = 2
      /\ allocated = {InitTask, InitProc} /\ listening = {} /\ killed = {}
      /\ halted = "no"
  BY DEF Init
<1>8. ProcTypes BY <1>0, <1>3, <1>4, <1>5, <1>6, <1>7 DEF ProcTypes
<1>9. Owners BY <1>0, <1>2, <1>3, <1>7 DEF Owners
<1>10. Mains BY <1>0, <1>2, <1>3, <1>5, <1>7 DEF Mains
<1>11. Pids BY <1>0, <1>5, <1>7 DEF Pids
<1>12. Waits /\ Joins BY <1>0, <1>2, <1>6 DEF Waits, Joins
<1>13. Waiters /\ Joiners BY <1>0, <1>2, <1>3, <1>5 DEF Waiters, Joiners
<1>14. Sleeps BY <1>0, <1>2, <1>6 DEF Sleeps
<1> QED BY <1>8, <1>9, <1>10, <1>11, <1>12, <1>13, <1>14 DEF ProcInv

(* Every step of the process manager is a step of the scheduler or leaves  *)
(* it alone, and keeps the invariants of both, the step that breaks them   *)
(* excepted.                                                               *)
LEMMA ProcStep ==
  ASSUME SchedInv, ProcInv, [Next]_procVars
  PROVE  [SchedNext]_g_sched /\ SchedInv' /\ (broken' = "no" => ProcInv')
<1>0. ASSUME [SchedNext]_g_sched PROVE SchedInv' BY <1>0, SchedNextInv
<1>1. ASSUME Next PROVE ~g_sched.hung
  BY <1>1 DEF Next, SYS_EXEC, SYS_EXEC_bad, SYS_EXIT, SYS_THREAD, SYS_THREAD_EXIT, SYS_YIELD,
     SYS_return, after_schedule, SYS_WAIT, SYS_THREAD_JOIN, SYS_THREAD_KILL, SYS_SLEEP, Timer,
     listen, notify,
     InProgram, InUser, Alive
<1>2. CASE UNCHANGED procVars
  <2>1. Live' = Live /\ Blocked' = Blocked /\ Asleep' = Asleep
    BY <1>2 DEF procVars, Live, Blocked, Asleep
  <2>2. ProcTypes' BY <1>2 DEF ProcInv, ProcTypes, procVars
  <2>3. Owners' /\ Mains' /\ Pids' BY <1>2, <2>1 DEF ProcInv, Owners, Mains, Pids, procVars
  <2>4. Waits' /\ Waiters' BY <1>2, <2>1 DEF ProcInv, Waits, Waiters, KeptThread, procVars
  <2>5. Joins' /\ Joiners' BY <1>2, <2>1 DEF ProcInv, Joins, Joiners, KeptThread, procVars
  <2>6. Sleeps' BY <1>2, <2>1 DEF ProcInv, Sleeps, KeptThread, procVars
  <2>7. UNCHANGED g_sched BY <1>2 DEF procVars
  <2> QED BY <1>0, <2>2, <2>3, <2>4, <2>5, <2>6, <2>7 DEF ProcInv
<1>3. CASE SYS_EXEC \/ SYS_THREAD
  <2>1. (\E t \in Task : SchedCreate(t)) /\ ProcInv' BY <1>3, ExecProcInv, ThreadProcInv
  <2>2. ~g_sched.hung BY <1>1, <1>3 DEF Next
  <2> QED BY <1>0, <2>1, <2>2 DEF SchedNext
<1>4. CASE SYS_EXEC_bad
  <2>1. /\ halted' = "panic"
        /\ UNCHANGED <<g_sched, tasks, procs, s_processes, s_last_process, s_next_pid,
                       allocated, pc, listening, killed>>
    BY <1>4 DEF SYS_EXEC_bad, procUnchanged
  <2>2. listening' \in SUBSET Task BY <2>1 DEF ProcInv, ProcTypes
  <2> QED BY <1>0, <2>1, <2>2, SameProcInv
<1>5. CASE SYS_EXIT \/ SYS_THREAD_EXIT
  <2>1. PICK t \in Live : /\ \E W \in SUBSET Task : SchedExit(t, W)
                          /\ t \in Task /\ (broken' = "no" => ProcInv')
    BY <1>5, ExitProcInv, ThreadExitProcInv
  <2>2. PICK W \in SUBSET Task : SchedExit(t, W) BY <2>1
  <2>3. t \in Live \ Live' BY <2>1, <2>2, SchedExitInv
  <2>4. ~g_sched.hung BY <1>1, <1>5 DEF Next
  <2> QED BY <1>0, <2>1, <2>2, <2>3, <2>4 DEF SchedNext
<1>6. CASE SYS_YIELD
  <2>1. SchedYield /\ ProcInv' BY <1>6, YieldProcInv
  <2>2. ~g_sched.hung BY <1>1, <1>6 DEF Next
  <2> QED BY <1>0, <2>1, <2>2 DEF SchedNext
<1>7. CASE SYS_return BY <1>0, <1>7, ReturnProcInv
<1>8. CASE after_schedule
  <2>1. CASE process_wait_resume
    BY <1>0, <1>8, <2>1, WaitResumeProcInv DEF after_schedule
  <2>2. CASE process_exit_resume
    <3>1. /\ halted' = "unreachable"
          /\ UNCHANGED <<g_sched, tasks, procs, s_processes, s_last_process, s_next_pid,
                         allocated, pc, listening, killed>>
      BY <2>2 DEF process_exit_resume, procUnchanged
    <3>2. listening' \in SUBSET Task BY <3>1 DEF ProcInv, ProcTypes
    <3> QED BY <1>0, <3>1, <3>2, SameProcInv
  <2> QED BY <1>8, <2>1, <2>2 DEF after_schedule
<1>9. ASSUME NEW pid \in 1 .. MaxPid, SYS_WAIT(pid)
      PROVE  [SchedNext]_g_sched /\ SchedInv' /\ (broken' = "no" => ProcInv')
  <2>1. (SchedBlock \/ UNCHANGED g_sched) /\ ProcInv' BY <1>9, WaitProcInv
  <2>2. ~g_sched.hung BY <1>1, <1>9 DEF Next
  <2> QED BY <1>0, <2>1, <2>2 DEF SchedNext
<1>10. ASSUME NEW h \in Task, SYS_THREAD_JOIN(h)
       PROVE  [SchedNext]_g_sched /\ SchedInv' /\ (broken' = "no" => ProcInv')
  <2>1. SchedBlock /\ ProcInv' BY <1>10, JoinProcInv
  <2>2. ~g_sched.hung BY <1>1, <1>10 DEF Next
  <2> QED BY <1>0, <2>1, <2>2 DEF SchedNext
<1>11. ASSUME NEW h \in Task, SYS_THREAD_KILL(h)
       PROVE  [SchedNext]_g_sched /\ SchedInv' /\ (broken' = "no" => ProcInv')
  <2>1. PICK W \in SUBSET Task : SchedKill(h, W) /\ ProcInv'
    <3>1. {tasks[h].joining_task} \cap Task \in SUBSET Task OBVIOUS
    <3> QED BY <1>11, <3>1, KillProcInv
  <2>2. h \in Live \ Live'
    <3>1. h \in Live BY <2>1 DEF SchedKill
    <3> QED BY <2>1, <3>1, SchedKillInv
  <2>3. ~g_sched.hung BY <1>1, <1>11 DEF Next
  <2> QED BY <1>0, <2>1, <2>2, <2>3 DEF SchedNext
<1>12. ASSUME NEW delay \in 0 .. MaxDelay, SYS_SLEEP(delay)
       PROVE  [SchedNext]_g_sched /\ SchedInv' /\ (broken' = "no" => ProcInv')
  <2>1. SchedSleep(delay) /\ ProcInv' BY <1>12, SleepProcInv
  <2>2. ~g_sched.hung BY <1>1, <1>12 DEF Next
  <2> QED BY <1>0, <2>1, <2>2 DEF SchedNext
<1>13. CASE Timer
  <2>1. SchedTimer /\ ProcInv' BY <1>13, TimerProcInv
  <2>2. ~g_sched.hung BY <1>1, <1>13 DEF Next
  <2> QED BY <1>0, <2>1, <2>2 DEF SchedNext
<1>14. ASSUME NEW blocks \in BOOLEAN, listen(blocks)
       PROVE  [SchedNext]_g_sched /\ SchedInv' /\ (broken' = "no" => ProcInv')
  <2>1. (SchedBlock \/ UNCHANGED g_sched) /\ ProcInv' BY <1>14, ListenProcInv
  <2>2. ~g_sched.hung BY <1>1, <1>14 DEF Next
  <2> QED BY <1>0, <2>1, <2>2 DEF SchedNext
<1>15. ASSUME NEW t \in Task, NEW again \in BOOLEAN, notify(t, again)
       PROVE  [SchedNext]_g_sched /\ SchedInv' /\ (broken' = "no" => ProcInv')
  <2>1. SchedWake({t}) /\ (broken' = "no" => ProcInv') BY <1>15, NotifyProcInv
  <2>2. ~g_sched.hung BY <1>1, <1>15 DEF Next
  <2>3. {t} \in SUBSET Task OBVIOUS
  <2> QED BY <1>0, <2>1, <2>2, <2>3 DEF SchedNext
<1> QED
  BY <1>2, <1>3, <1>4, <1>5, <1>6, <1>7, <1>8, <1>9, <1>10, <1>11, <1>12, <1>13, <1>14, <1>15
  DEF Next

(* What is broken stays broken.                                            *)
LEMMA BrokenStays ==
  ASSUME broken # "no", [Next]_procVars
  PROVE  broken' # "no"
<1>1. CASE UNCHANGED procVars BY <1>1 DEF procVars
<1>2. CASE \/ SYS_EXEC \/ SYS_EXEC_bad \/ SYS_THREAD \/ SYS_YIELD \/ SYS_return
           \/ after_schedule \/ Timer
  BY <1>2 DEF SYS_EXEC, SYS_EXEC_bad, SYS_THREAD, SYS_YIELD, SYS_return, after_schedule,
     process_wait_resume, process_exit_resume, Timer
<1>3. CASE SYS_EXIT \/ SYS_THREAD_EXIT BY <1>3 DEF SYS_EXIT, SYS_THREAD_EXIT
<1>4. ASSUME NEW pid \in 1 .. MaxPid, SYS_WAIT(pid) PROVE broken' # "no"
  BY <1>4 DEF SYS_WAIT
<1>5. ASSUME NEW h \in Task, SYS_THREAD_JOIN(h) \/ SYS_THREAD_KILL(h) PROVE broken' # "no"
  BY <1>5 DEF SYS_THREAD_JOIN, SYS_THREAD_KILL
<1>6. ASSUME NEW delay \in 0 .. MaxDelay, SYS_SLEEP(delay) PROVE broken' # "no"
  BY <1>6 DEF SYS_SLEEP
<1>7. ASSUME NEW blocks \in BOOLEAN, listen(blocks) PROVE broken' # "no"
  BY <1>7 DEF listen
<1>8. ASSUME NEW t \in Task, NEW again \in BOOLEAN, notify(t, again) PROVE broken' # "no"
  BY <1>8 DEF notify
<1> QED BY <1>1, <1>2, <1>3, <1>4, <1>5, <1>6, <1>7, <1>8 DEF Next

(* Until something is broken, the invariants hold.                         *)
LEMMA ProcAlwaysInv == Spec => [](broken = "no" => SchedInv /\ ProcInv)
<1> DEFINE J == broken = "no" => SchedInv /\ ProcInv
<1>1. Init => J BY InitProcInv, SchedInitInv DEF Init
<1>2. J /\ [Next]_procVars => J' BY ProcStep, BrokenStays
<1> HIDE DEF J
<1>3. Spec => []J BY <1>1, <1>2, PTL DEF Spec
<1> QED BY <1>3 DEF J

(* The system calls, and the wake-ups out of the listener slots of other   *)
(* parts, drive the scheduler only in the ways its specification allows,   *)
(* up to and with the first process that exits beside live threads or the  *)
(* first wake-up out of a stale slot: what is proved of SchedSpec, the     *)
(* ring of tasks and the end of every scan of scheduler_pick_next above    *)
(* all, holds of them.                                                     *)
THEOREM ProcessUsesScheduler == Spec => UsesScheduler
<1>1. Init => SchedInit BY DEF Init
<1>2. (broken = "no" => SchedInv /\ ProcInv) /\ [Next]_procVars
        => [broken = "no" => SchedNext]_g_sched
  BY ProcStep
<1> QED BY <1>1, <1>2, ProcAlwaysInv, PTL DEF Spec, UsesScheduler

(* No struct of a task that may still run, nor of its process, is freed by *)
(* process_wait or given out again by kmalloc, unless process_kill left    *)
(* threads behind, or a stale listener slot woke a task out of SYS_WAIT.   *)
THEOREM OwnersStayAllocated == Spec => []OwnersAllocated
<1>1. (broken = "no" => SchedInv /\ ProcInv) => OwnersAllocated
  <2> SUFFICES ASSUME broken = "no", SchedInv, ProcInv
               PROVE  TypeOK /\ \A t \in Task : g_sched.state[t] # DEAD =>
                                  t \in allocated /\ tasks[t].owner \in allocated
    BY DEF OwnersAllocated
  <2>1. SchedTypeOK BY DEF SchedInv, Inv, SType, SchedTypeOK
  <2>2. TypeOK BY <2>1 DEF TypeOK, ProcInv, ProcTypes, TaskStruct, ProcStruct
  <2> QED BY <2>2 DEF ProcInv, Owners, Live
<1> QED BY <1>1, ProcAlwaysInv, PTL

(* Joiners, waiters and sleepers are blocked exactly as long as what they  *)
(* wait for lasts: no wake-up is lost, and none comes early, in whichever  *)
(* order threads are joined, killed, exit and are waited for and listeners *)
(* are woken, until the first wake-up out of a stale slot.                 *)
THEOREM NoWakeupLost == Spec => []BlockedExact
<1>1. (broken = "no" => SchedInv /\ ProcInv) => BlockedExact
  <2> SUFFICES ASSUME SchedInv, ProcInv PROVE JoinExact /\ WaitExact /\ SleepExact
    BY DEF BlockedExact
  <2>1. \A t \in LiveTasks : t \in Live /\ (t \in Blocked <=> g_sched.state[t] = BLOCKED)
    BY DEF LiveTasks, Live, Blocked, Bk
  <2>2. \A t \in Task : t \in Live <=> g_sched.state[t] # DEAD BY DEF Live
  <2>3. JoinExact BY <2>1, <2>2 DEF JoinExact, ProcInv, Joins
  <2>4. WaitExact BY <2>1 DEF WaitExact, ProcInv, Waits
  <2>5. SleepExact BY <2>1 DEF SleepExact, ProcInv, Sleeps, Asleep, SleepersOf
  <2> QED BY <2>3, <2>4, <2>5
<1> QED BY <1>1, ProcAlwaysInv, PTL
=============================================================================
