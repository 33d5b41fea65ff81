----------------------------- MODULE Scheduler -----------------------------
(***************************************************************************)
(* The task scheduler, kernel/scheduler/scheduler.c, and the part of the   *)
(* timer interrupt (kernel/io/timer.c) that drives it.                     *)
(*                                                                         *)
(* The tasks form a circular doubly linked list reached from g_task_list;  *)
(* the idle task is outside it.  All the state is one record, g_sched, and *)
(* every C function is a pure operator from a record to a record, so that  *)
(* a handler that calls several of them is their composition:              *)
(*   list, cur    g_task_list and g_current_task                           *)
(*   next, prev   the links of every task struct                           *)
(*   state        task->state                                              *)
(*   queue        g_sleep_queue, with wake_tick counted from now           *)
(*   ticks        g_timer_ticks modulo the scheduling period               *)
(*   hung         scheduler_pick_next walks the list forever, with         *)
(*                interrupts disabled                                      *)
(***************************************************************************)
EXTENDS Integers, Sequences, FiniteSets, SequencesExt

CONSTANTS
  Task,             \* addresses of task structs
  Idle,             \* g_idle
  NoTask,           \* the null pointer
  SchedulePeriod,   \* timer interrupts between two calls of schedule(): 10
  SLEEP_QUEUE_MAX,  \* 256
  InitTask,         \* the main task of system.elf, the head of the list
  MaxDelay          \* bound: ticks of one sleep

\* What scheduler_pick_next returns when it never returns.
Hang == "hang"

ASSUME SchedulerAssumption ==
  /\ IsFiniteSet(Task) /\ Hang \notin Task
  /\ Idle \notin Task /\ NoTask \notin Task
  /\ Idle \notin {NoTask, Hang} /\ NoTask # Hang
  /\ SchedulePeriod \in Nat \ {0}
  /\ SLEEP_QUEUE_MAX \in Nat
  /\ InitTask \in Task /\ MaxDelay \in Nat

VARIABLE g_sched

READY   == "ready"
RUNNING == "running"
BLOCKED == "blocked"
DEAD    == "dead"

-----------------------------------------------------------------------------
(* task_set_ready and task_set_blocked, scheduler.h.                       *)

task_set_ready(s, t) ==
  [s EXCEPT !.state[t] = IF @ = BLOCKED THEN READY ELSE @]

task_set_blocked(s, t) ==
  [s EXCEPT !.state[t] = IF @ # DEAD THEN BLOCKED ELSE @]

-----------------------------------------------------------------------------
(* The ring.                                                               *)

\* Mutant: every new task starts a list of its own.
scheduler_add_single(s, t) == [s EXCEPT !.next[t] = t, !.prev[t] = t]

\* t is linked in before the head.
scheduler_add(s, t) ==
  IF s.list = NoTask
  THEN [s EXCEPT !.list = t, !.next[t] = t, !.prev[t] = t]
  ELSE LET tail == s.prev[s.list]
       IN  [s EXCEPT !.next = [@ EXCEPT ![t] = s.list, ![tail] = t],
                     !.prev = [@ EXCEPT ![t] = tail, ![s.list] = t]]

\* The links of t itself, and g_task_list, are left as they are.
scheduler_remove(s, t) ==
  LET n == [s.next EXCEPT ![s.prev[t]] = s.next[t]]
  IN  [s EXCEPT !.next = n, !.prev = [@ EXCEPT ![n[t]] = s.prev[t]]]

-----------------------------------------------------------------------------
(* scheduler_pick_next and schedule.                                       *)

\* The tasks a walk along next meets: after Cardinality(Task) links it only
\* repeats itself.
Walk(s, from) ==
  LET walk[k \in 0 .. Cardinality(Task)] ==
        IF k = 0 THEN from ELSE s.next[walk[k - 1]]
  IN  walk

\* The first READY task of a walk that ends at the k-th task, k >= least,
\* when that task is stop; otherwise when the walk ends and Hang when it
\* never does.
FirstReady(s, from, stop, least, otherwise) ==
  LET walk == Walk(s, from)
      hits == {k \in DOMAIN walk : /\ walk[k] \in Task
                                   /\ s.state[walk[k]] = READY
                                   /\ \A j \in 0 .. k : walk[j] = stop => j < least}
      ends == {k \in DOMAIN walk : k >= least /\ walk[k] = stop}
  IN  CASE hits # {}               -> walk[Min(hits)]
        [] hits = {} /\ ends # {}  -> otherwise
        [] OTHER                   -> Hang

\* Mutant: the walk starts at the head of the list every time.
pick_next_from_head(s) ==
  CASE s.cur = NoTask -> s.list
    [] s.cur # NoTask /\ s.list = NoTask -> Idle
    [] OTHER -> FirstReady(s, s.list, s.list, 1,
                           IF s.state[s.cur] = RUNNING THEN s.cur ELSE Idle)

\* Mutant: a task that died is used as the end of the walk.
pick_next_to_current(s) ==
  CASE s.cur = NoTask -> s.list
    [] s.cur # NoTask /\ s.cur = Idle -> FirstReady(s, s.list, s.list, 1, Idle)
    [] OTHER -> FirstReady(s, s.next[s.cur], s.cur, 0,
                           IF s.state[s.cur] = RUNNING THEN s.cur ELSE Idle)

scheduler_pick_next(s) ==
  CASE s.cur = NoTask -> s.list
    [] s.cur # NoTask /\ (s.cur = Idle \/ s.state[s.cur] = DEAD) ->
         IF s.list = NoTask THEN Idle
         ELSE FirstReady(s, s.list, s.list, 1, Idle)
    [] OTHER ->
         FirstReady(s, s.next[s.cur], s.cur, 0,
                    IF s.state[s.cur] \in {READY, RUNNING} THEN s.cur ELSE Idle)

\* A switch to another task; the address space and the kernel stacks follow
\* cur.  The caller continues when it is picked again.
schedule(s) ==
  LET n == scheduler_pick_next(s)
      p == s.cur
  IN  CASE n = Hang              -> [s EXCEPT !.hung = TRUE]
        [] n \in {NoTask, p}     -> s
        [] OTHER ->
             [s EXCEPT !.cur = n,
                !.state = [u \in DOMAIN @ |->
                             CASE u = n -> RUNNING
                               [] u = p /\ u # n /\ @[u] = RUNNING -> READY
                               [] OTHER -> @[u]]]

-----------------------------------------------------------------------------
(* The sleep queue and the timer interrupt.                                *)

\* Mutant: the new entry goes to the end.
sleep_queue_enqueue_last(s, t, delay) ==
  [s EXCEPT !.queue = Append(@, [t |-> t, wake |-> delay])]

\* The queue is sorted by wake_tick, older entries first among equals.  A
\* full queue refuses the entry.
sleep_queue_enqueue(s, t, delay) ==
  LET later == {i \in 1 .. Len(s.queue) : s.queue[i].wake > delay}
      pos   == IF later = {} THEN Len(s.queue) + 1 ELSE Min(later)
  IN  [s EXCEPT !.queue = InsertAt(@, pos, [t |-> t, wake |-> delay])]

sleep_queue_full(s) == Len(s.queue) >= SLEEP_QUEUE_MAX

\* The longest prefix of entries that are due is woken and dropped.
sleep_queue_wake(s) ==
  LET n == Len(s.queue)
      waiting == {i \in 1 .. n : s.queue[i].wake > 0}
      due == IF waiting = {} THEN n ELSE Min(waiting) - 1
      woken == {s.queue[i].t : i \in 1 .. due}
  IN  [s EXCEPT !.state = [u \in DOMAIN @ |-> IF u \in woken /\ @[u] = BLOCKED
                                              THEN READY ELSE @[u]],
                !.queue = SubSeq(@, due + 1, n)]

\* wake_tick is counted from now.
one_tick(queue) ==
  [i \in DOMAIN queue |-> [t |-> queue[i].t, wake |-> queue[i].wake - 1]]

\* The timer interrupt: one tick, the sleepers that are due, and schedule()
\* once in a period.  (The polls of the network cards and of the USB
\* controller that it also makes do not touch this state.)
timer_handler(s) ==
  LET ticked == [s EXCEPT !.ticks = (@ + 1) % SchedulePeriod,
                              !.queue = one_tick(@)]
      woken == sleep_queue_wake(ticked)
  IN  IF woken.ticks = 0 THEN schedule(woken) ELSE woken

-----------------------------------------------------------------------------
(* The scheduler and what the rest of the kernel may do with it: create a  *)
(* task, let the current one block, sleep, yield or exit, kill another one *)
(* that is alive, and make tasks ready.  Module Process is shown to do     *)
(* nothing else as long as nothing is broken there.                        *)

\* task_create: a zeroed struct in state READY.
task_create(s, t) == [s EXCEPT !.state[t] = READY, !.next[t] = NoTask,
                               !.prev[t] = NoTask]

\* The first two statements of task_kill.
unlink_dead(s, t) == scheduler_remove([s EXCEPT !.state[t] = DEAD], t)

\* Mutant: the task is blocked even when the queue was full.
enter_sleep_always(s, t, delay) ==
  task_set_blocked(IF sleep_queue_full(s) THEN s
                   ELSE sleep_queue_enqueue(s, t, delay), t)

\* SYS_SLEEP up to schedule().
enter_sleep(s, t, delay) ==
  IF sleep_queue_full(s) THEN s
  ELSE task_set_blocked(sleep_queue_enqueue(s, t, delay), t)

SchedInit ==
  g_sched = [list |-> InitTask, cur |-> InitTask,
             next |-> [t \in Task |-> IF t = InitTask THEN t ELSE NoTask],
             prev |-> [t \in Task |-> IF t = InitTask THEN t ELSE NoTask],
             state |-> [t \in Task \cup {Idle} |->
                          IF t = InitTask THEN RUNNING
                          ELSE IF t = Idle THEN READY ELSE DEAD],
             queue |-> <<>>, ticks |-> 0, hung |-> FALSE]

cur == g_sched.cur

\* The tasks that have been added and not removed.
Live == {t \in Task : g_sched.state[t] # DEAD}

SchedCreate(t) ==
  t \notin Live /\ g_sched' = scheduler_add(task_create(g_sched, t), t)

SchedBlock == cur # Idle /\ g_sched' = schedule(task_set_blocked(g_sched, cur))

SchedSleep(delay) ==
  cur # Idle /\ g_sched' = schedule(enter_sleep(g_sched, cur, delay))

SchedYield == cur # Idle /\ g_sched' = schedule(g_sched)

\* The tasks of woken are made ready.
wake_all(s, woken) ==
  [s EXCEPT !.state = [u \in DOMAIN s.state |->
                         IF u \in woken /\ s.state[u] = BLOCKED
                         THEN READY ELSE s.state[u]]]

\* The head of the list is init's, which is neither killed nor exits.
SchedKill(t, woken) ==
  /\ t \in Live \ {cur, g_sched.list}
  /\ g_sched' = wake_all(unlink_dead(g_sched, t), woken)

\* The current task ends t, as a rule itself, and gives up the processor.
SchedExit(t, woken) ==
  /\ cur # Idle /\ t \in Live \ {g_sched.list}
  /\ g_sched' = schedule(wake_all(unlink_dead(g_sched, t), woken))

\* A wake-up by an interrupt or by another task's system call.
SchedWake(woken) == g_sched' = wake_all(g_sched, woken)

SchedTimer == g_sched' = timer_handler(g_sched)

SchedNext ==
  /\ ~g_sched.hung
  /\ \/ \E t \in Task : SchedCreate(t)
     \/ SchedBlock \/ SchedYield \/ SchedTimer
     \/ \E delay \in 0 .. MaxDelay : SchedSleep(delay)
     \/ \E woken \in SUBSET Task : SchedWake(woken)
     \/ \E t \in Live \ Live', woken \in SUBSET Task :
          SchedKill(t, woken) \/ SchedExit(t, woken)

SchedSpec == SchedInit /\ [][SchedNext]_g_sched

-----------------------------------------------------------------------------
(* Properties.                                                             *)

(* Type invariant of the scheduler; in particular the sleep queue stays    *)
(* within its array.                                                       *)
SchedTypeOK ==
  /\ g_sched \in [list: {InitTask}, cur: Task \cup {Idle},
                  next: [Task -> Task \cup {NoTask}],
                  prev: [Task -> Task \cup {NoTask}],
                  state: [Task \cup {Idle} -> {READY, RUNNING, BLOCKED, DEAD}],
                  queue: Seq([t: Task, wake: Int]),
                  ticks: 0 .. SchedulePeriod - 1, hung: BOOLEAN]
  /\ Len(g_sched.queue) <= SLEEP_QUEUE_MAX

(* The current task, and no other, is RUNNING: schedule() hands the        *)
(* processor over without losing or duplicating it.                        *)
CurrentRuns ==
  \A t \in Task \cup {Idle} : g_sched.state[t] = RUNNING <=> t = cur

(* next and prev are inverse to each other on the live tasks, and never    *)
(* lead from a live task to a dead one.                                    *)
RingLinks ==
  \A t \in Live : /\ g_sched.next[t] \in Live /\ g_sched.prev[t] \in Live
                  /\ g_sched.prev[g_sched.next[t]] = t
                  /\ g_sched.next[g_sched.prev[t]] = t

(* The live tasks are one ring, not several: a set of tasks that the walk  *)
(* of scheduler_pick_next cannot leave contains them all, so that no task  *)
(* is cut off from the scheduler by any order of scheduler_add and         *)
(* scheduler_remove.                                                       *)
OneRing ==
  \A S \in SUBSET Live :
    S # {} /\ (\A t \in S : g_sched.next[t] \in S) => S = Live

(* scheduler.c: scheduler_pick_next loops "until a ready one is found or   *)
(* we are back where we started": it always returns.                       *)
PickNextReturns == ~g_sched.hung

(* The sleep queue is sorted and none of its entries is overdue:           *)
(* sleep_queue_wake stops at the first entry that is not due.              *)
SleepersOnTime ==
  /\ \A i \in 1 .. Len(g_sched.queue) : g_sched.queue[i].wake >= 0
  /\ \A i, j \in 1 .. Len(g_sched.queue) :
       i < j => g_sched.queue[i].wake <= g_sched.queue[j].wake
=============================================================================
