------------------------------ MODULE Process ------------------------------
(***************************************************************************)
(* Processes and threads, kernel/scheduler/process_manager.c, with the     *)
(* system calls of kernel/cpu/syscall.c that reach it and the scheduler.   *)
(*                                                                         *)
(* One processor.  A system call runs with interrupts disabled until it    *)
(* calls schedule(), which enables them when the caller is picked again:   *)
(* the part before schedule() and the switch itself are one step, the part *)
(* after it is a step of its own (the Resume actions), and the timer       *)
(* interrupt may come between any two steps.                               *)
(*                                                                         *)
(* kmalloc gives any struct that is not allocated, so a struct that was    *)
(* freed may be given out again for the same purpose; until then its       *)
(* contents stay, and what still points at it reads them.                  *)
(***************************************************************************)
EXTENDS Scheduler

CONSTANTS
  Proc,      \* addresses of process structs
  NoProc,    \* the null pointer
  InitProc,  \* the process of InitTask
  MaxPid,    \* bound: process ids given out
  Careless   \* uses of the interface beside the careful ones:
             \*  "orphan"  a process exits while it has other live threads
             \*  "wait"    a task waits for its own process or for init
             \*  "listen"  tasks wait in channels, pipes, sockets and for keys

\* What find_process returns when it never returns.
ListHang == "list_hang"

ASSUME ProcessAssumption ==
  /\ IsFiniteSet(Proc) /\ NoProc \notin Proc /\ Task \cap Proc = {}
  /\ ListHang \notin Proc
  /\ InitProc \in Proc /\ MaxPid \in Nat \ {0}
  /\ Careless \subseteq {"orphan", "wait", "listen"}

VARIABLES
  tasks,           \* task struct: [owner, task_index, joining_task]
  procs,           \* process struct: [pid, main_task, waiting_task, next]
  s_processes,     \* head of the process list
  s_last_process,  \* its tail
  s_next_pid,
  allocated,       \* structs kmalloc has handed out and kfree not taken back
  pc,              \* what a task does when it is picked: [at, arg, pid, late]
  listening,       \* tasks that a listener slot of channel.c, pipe.c, udp.c or keyboard.c names
  killed,          \* history: the pids process_kill was called for
  broken,          \* history: "no", or what has gone wrong: "orphan", "stale_wake"
  halted           \* "no", or why the machine does not go on

procVars == <<g_sched, tasks, procs, s_processes, s_last_process, s_next_pid,
              allocated, pc, listening, killed, broken, halted>>

User == [at |-> "user", arg |-> NoTask, pid |-> 0, late |-> FALSE]
Exiting == [User EXCEPT !.at = "process_exit"]
Sleeping == [User EXCEPT !.at = "sleep"]
Listening == [User EXCEPT !.at = "listen"]
Joining(h) == [User EXCEPT !.at = "join", !.arg = h]
Waiting(p, pid) == [at |-> "wait", arg |-> p, pid |-> pid, late |-> pid \in killed]

FreshTask == [owner |-> NoProc, task_index |-> 0, joining_task |-> NoTask]
FreshProc == [pid |-> 0, main_task |-> NoTask, waiting_task |-> NoTask,
              next |-> NoProc]

-----------------------------------------------------------------------------
(* The process list.                                                       *)

\* kmalloc zeroes p, which may still be s_last_process.
create_process(p, main) ==
  LET zeroed == [procs EXCEPT ![p] = [FreshProc EXCEPT !.pid = s_next_pid,
                                                       !.main_task = main]]
  IN  /\ procs' = IF s_last_process = NoProc THEN zeroed
                  ELSE [zeroed EXCEPT ![s_last_process].next = p]
      /\ s_processes' = IF s_last_process = NoProc THEN p ELSE s_processes
      /\ s_last_process' = p
      /\ s_next_pid' = s_next_pid + 1

\* The processes a walk along next meets, NoProc from its end on.
ListWalk ==
  LET walk[k \in 0 .. Cardinality(Proc)] ==
        IF k = 0 THEN s_processes
        ELSE IF walk[k - 1] = NoProc THEN NoProc ELSE procs[walk[k - 1]].next
  IN  walk

\* The first process with that pid; NoProc at the end of the list; ListHang
\* when the list is a loop without that pid.
find_process(pid) ==
  LET hits == {k \in 0 .. Cardinality(Proc) : /\ ListWalk[k] # NoProc
                                              /\ procs[ListWalk[k]].pid = pid}
  IN  CASE hits # {} -> ListWalk[Min(hits)]
        [] hits = {} /\ ListWalk[Cardinality(Proc)] = NoProc -> NoProc
        [] OTHER -> ListHang

-----------------------------------------------------------------------------
(* Ends of tasks and processes.                                            *)

set_ready_if(s, t) == IF t = NoTask THEN s ELSE task_set_ready(s, t)

wake_joiner(s, t) == set_ready_if(s, tasks[t].joining_task)

\* Mutant: whoever waits for the process is not woken.
wake_waiter_never(s, p) == s

\* The end of process_kill (handle_close_all is in module Ipc).
wake_waiter(s, p) == set_ready_if(s, procs[p].waiting_task)

\* Mutant: the process is reported dead and its main task goes on.
process_kill_none(s, p) == wake_waiter(s, p)

\* process_kill: next_in_process is never set, so the loop over the threads
\* sees the main task only.  Killing it calls process_kill once more for its
\* owner, which finds the main task dead.
process_kill(s, p) ==
  LET m == procs[p].main_task
      k == unlink_dead(s, m)
  IN  IF s.state[m] = DEAD THEN wake_waiter(s, p)
      ELSE wake_waiter(IF tasks[m].task_index = 0
                       THEN wake_waiter(k, tasks[m].owner)
                       ELSE wake_joiner(k, m), p)

\* The pids process_kill is called for by a process_kill(p).
kills(p) == {procs[p].pid}

\* Mutant: the dead task stays in the ring.
task_kill_linked(s, t) ==
  LET k == [s EXCEPT !.state[t] = DEAD]
  IN  IF tasks[t].task_index = 0 THEN process_kill(k, tasks[t].owner)
                                 ELSE wake_joiner(k, t)

task_kill(s, t) ==
  IF tasks[t].task_index = 0 THEN process_kill(unlink_dead(s, t), tasks[t].owner)
                             ELSE wake_joiner(unlink_dead(s, t), t)

-----------------------------------------------------------------------------
Init ==
  /\ SchedInit
  /\ tasks = [t \in Task |-> [FreshTask EXCEPT !.owner =
                                IF t = InitTask THEN InitProc ELSE NoProc]]
  /\ procs = [p \in Proc |-> IF p = InitProc
                THEN [FreshProc EXCEPT !.pid = 1, !.main_task = InitTask]
                ELSE FreshProc]
  /\ s_processes = InitProc /\ s_last_process = InitProc /\ s_next_pid = 2
  /\ allocated = {InitTask, InitProc}
  /\ pc = [t \in Task |-> User]
  /\ listening = {} /\ killed = {}
  /\ broken = "no" /\ halted = "no"

me == tasks[cur].owner
Alive == halted = "no" /\ ~g_sched.hung

\* The current task is a user task that is about to make a system call.
InUser == Alive /\ cur # Idle /\ pc[cur].at = "user"

\* The same for a program other than system.elf, which only starts programs
\* and sleeps.
InProgram == InUser /\ me # InitProc

\* The threads the current process holds a handle of.
Threads(p) == {t \in allocated \cap Task : tasks[t].owner = p
                                           /\ tasks[t].task_index # 0}
LiveThreads(p) == {t \in Threads(p) : g_sched.state[t] # DEAD}

procUnchanged == UNCHANGED <<procs, s_processes, s_last_process, s_next_pid>>

-----------------------------------------------------------------------------
(* System calls.                                                           *)

\* process_exec of an existing, well-formed executable.
SYS_EXEC ==
  /\ InUser /\ s_next_pid <= MaxPid
  /\ \E t \in Task \ allocated, p \in Proc \ allocated :
       /\ create_process(p, t)
       /\ tasks' = [tasks EXCEPT ![t] = [FreshTask EXCEPT !.owner = p]]
       /\ g_sched' = scheduler_add(task_create(g_sched, t), t)
       /\ allocated' = allocated \cup {t, p}
       /\ pc' = [pc EXCEPT ![t] = User]
  /\ UNCHANGED <<listening, killed, broken, halted>>

\* process_exec of a file elf_load refuses: vmm_destroy_address_space is a
\* panic.
SYS_EXEC_bad ==
  /\ InUser
  /\ halted' = "panic"
  /\ UNCHANGED <<g_sched, tasks, allocated, pc, listening, killed, broken>> /\ procUnchanged

SYS_WAIT(pid) ==
  /\ InProgram
  /\ "wait" \in Careless \/ pid \notin {1, procs[me].pid}
  /\ LET p == find_process(pid) IN
       \/ /\ p = ListHang
          /\ halted' = "list_hang"
          /\ UNCHANGED <<g_sched, procs, pc>>
       \/ /\ p \in Proc /\ procs[p].waiting_task = NoTask
          /\ procs' = [procs EXCEPT ![p].waiting_task = cur]
          /\ g_sched' = schedule(task_set_blocked(g_sched, cur))
          /\ pc' = [pc EXCEPT ![cur] = Waiting(p, pid)]
          /\ UNCHANGED halted
  /\ UNCHANGED <<tasks, s_processes, s_last_process, s_next_pid, allocated,
                 listening, killed, broken>>

process_delete(p) == allocated' = allocated \ {p, procs[p].main_task}

\* The rest of process_wait: the exit code is read and the process deleted.
\* It stays in the process list.
process_wait_resume ==
  /\ pc[cur].at = "wait"
  /\ process_delete(pc[cur].arg)
  /\ pc' = [pc EXCEPT ![cur] = User]
  /\ UNCHANGED <<g_sched, tasks, listening, killed, broken, halted>> /\ procUnchanged

\* process_exit.  When the caller is not the main task it is not killed.
SYS_EXIT ==
  /\ InProgram
  /\ \/ "orphan" \in Careless
     \/ tasks[cur].task_index = 0 /\ LiveThreads(me) = {}
  /\ g_sched' = schedule(process_kill(g_sched, me))
  /\ killed' = killed \cup kills(me)
  /\ pc' = [pc EXCEPT ![cur] = Exiting]
  /\ broken' = IF tasks[cur].task_index # 0 \/ LiveThreads(me) # {} THEN "orphan" ELSE broken
  /\ UNCHANGED <<tasks, allocated, listening, halted>> /\ procUnchanged

\* What follows schedule() in process_exit is __builtin_unreachable: the
\* compiler emits no code for it, and the model stops.
process_exit_resume ==
  /\ pc[cur].at = "process_exit"
  /\ halted' = "unreachable"
  /\ UNCHANGED <<g_sched, tasks, allocated, pc, listening, killed, broken>> /\ procUnchanged

\* A task that called schedule() in the middle of a system call goes on there.
after_schedule == Alive /\ cur # Idle /\ (process_wait_resume \/ process_exit_resume)

\* process_spawn_thread.
SYS_THREAD ==
  /\ InProgram
  /\ \E t \in Task \ allocated :
       /\ tasks' = [tasks EXCEPT ![t] = [FreshTask EXCEPT !.owner = me,
                                                          !.task_index = 1]]
       /\ g_sched' = scheduler_add(task_create(g_sched, t), t)
       /\ allocated' = allocated \cup {t}
       /\ pc' = [pc EXCEPT ![t] = User]
  /\ UNCHANGED <<listening, killed, broken, halted>> /\ procUnchanged

\* The early returns of process_join_thread.
join_returns(h) == g_sched.state[h] = DEAD \/ tasks[h].joining_task # NoTask

SYS_THREAD_JOIN(h) ==
  /\ InProgram /\ h \in Threads(me) /\ ~join_returns(h)
  /\ tasks' = [tasks EXCEPT ![h].joining_task = cur]
  /\ g_sched' = schedule(task_set_blocked(g_sched, cur))
  /\ pc' = [pc EXCEPT ![cur] = Joining(h)]
  /\ UNCHANGED <<allocated, listening, killed, broken, halted>> /\ procUnchanged

\* process_kill_thread.  Programs kill other threads, and each one once: a
\* handle is not checked, and a second scheduler_remove uses stale links.
SYS_THREAD_KILL(h) ==
  /\ InProgram /\ h \in Threads(me)
  /\ h # cur /\ g_sched.state[h] # DEAD
  /\ g_sched' = task_kill(g_sched, h)
  /\ UNCHANGED <<tasks, allocated, pc, listening, killed, broken, halted>> /\ procUnchanged

\* process_exit_thread and task_exit.
SYS_THREAD_EXIT ==
  /\ InProgram
  /\ \/ tasks[cur].task_index # 0
     \/ "orphan" \in Careless \/ LiveThreads(me) = {}
  /\ g_sched' = schedule(task_kill(g_sched, cur))
  /\ killed' = IF tasks[cur].task_index = 0 THEN killed \cup kills(me) ELSE killed
  /\ broken' = IF tasks[cur].task_index = 0 /\ LiveThreads(me) # {} THEN "orphan" ELSE broken
  /\ UNCHANGED <<tasks, allocated, pc, listening, halted>> /\ procUnchanged

SYS_YIELD ==
  /\ InProgram
  /\ g_sched' = schedule(g_sched)
  /\ UNCHANGED <<tasks, allocated, pc, listening, killed, broken, halted>> /\ procUnchanged

SYS_SLEEP(delay) ==
  /\ InUser
  /\ g_sched' = schedule(enter_sleep(g_sched, cur, delay))
  /\ pc' = [pc EXCEPT ![cur] = Sleeping]
  /\ UNCHANGED <<tasks, allocated, listening, killed, broken, halted>> /\ procUnchanged

\* A listener slot of another part of the kernel gets the current task, which
\* blocks (the reads of pipes, channels and keys, ipc_accept, a socket's receive)
\* or goes on (ipc_server).
listen(blocks) ==
  /\ InProgram /\ "listen" \in Careless
  /\ listening' = listening \cup {cur}
  /\ \/ /\ blocks
        /\ g_sched' = schedule(task_set_blocked(g_sched, cur))
        /\ pc' = [pc EXCEPT ![cur] = Listening]
     \/ ~blocks /\ UNCHANGED <<g_sched, pc>>
  /\ UNCHANGED <<tasks, allocated, killed, broken, halted>> /\ procUnchanged

\* An interrupt or another task finds t in a listener slot, wakes it and clears the
\* slot; t may be in another one too. No slot is cleared when a task is woken from
\* elsewhere, exits or is freed, so that t may be blocked in something else by now.
notify(t, again) ==
  /\ Alive /\ t \in listening
  /\ listening' = IF again THEN listening ELSE listening \ {t}
  /\ g_sched' = task_set_ready(g_sched, t)
  /\ broken' = IF g_sched.state[t] = BLOCKED /\ pc[t].at # "listen" THEN "stale_wake" ELSE broken
  /\ UNCHANGED <<tasks, allocated, pc, killed, halted>> /\ procUnchanged

\* A sleeper, a joiner or a listener that is picked again returns to user mode.
SYS_return ==
  /\ Alive /\ cur # Idle /\ pc[cur].at \in {"sleep", "join", "listen"}
  /\ pc' = [pc EXCEPT ![cur] = User]
  /\ UNCHANGED <<g_sched, tasks, allocated, listening, killed, broken, halted>> /\ procUnchanged

Timer ==
  /\ Alive
  /\ g_sched' = timer_handler(g_sched)
  /\ UNCHANGED <<tasks, allocated, pc, listening, killed, broken, halted>> /\ procUnchanged

Next ==
  \/ SYS_EXEC \/ SYS_EXEC_bad \/ SYS_EXIT \/ SYS_THREAD \/ SYS_THREAD_EXIT
  \/ SYS_YIELD \/ SYS_return \/ after_schedule
  \/ \E pid \in 1 .. MaxPid : SYS_WAIT(pid)
  \/ \E h \in Task : SYS_THREAD_JOIN(h) \/ SYS_THREAD_KILL(h)
  \/ \E delay \in 0 .. MaxDelay : SYS_SLEEP(delay)
  \/ \E blocks \in BOOLEAN : listen(blocks)
  \/ \E t \in Task, again \in BOOLEAN : notify(t, again)
  \/ Timer

Spec == Init /\ [][Next]_procVars

\* The programmable interval timer interrupts forever while the machine runs:
\* WF_procVars(Timer), with ENABLED written out.  Nothing is assumed of the
\* programs.
TimerFairness == []<>(~Alive) \/ []<><<Timer>>_procVars

-----------------------------------------------------------------------------
(* Properties.                                                             *)

Pid == 0 .. MaxPid + 1

(* Type invariant.                                                         *)
TypeOK ==
  /\ SchedTypeOK
  /\ tasks \in [Task -> [owner: Proc \cup {NoProc}, task_index: {0, 1},
                         joining_task: Task \cup {NoTask}]]
  /\ procs \in [Proc -> [pid: Pid, main_task: Task \cup {NoTask},
                         waiting_task: Task \cup {NoTask},
                         next: Proc \cup {NoProc}]]
  /\ s_processes \in Proc /\ s_last_process \in Proc /\ s_next_pid \in Pid
  /\ allocated \subseteq Task \cup Proc
  /\ listening \subseteq Task /\ killed \subseteq Pid
  /\ broken \in {"no", "orphan", "stale_wake"}
  /\ halted \in {"no", "panic", "list_hang", "unreachable"}

LiveTasks == {t \in Task \cap allocated : g_sched.state[t] # DEAD}

(* Neither a task that is not dead nor its process has been freed:         *)
(* schedule() follows next->owner->address_space of every task it picks.   *)
(* It holds until a process exits beside live threads, which process_kill  *)
(* does not reach, or a stale listener slot wakes a task out of SYS_WAIT,  *)
(* which then deletes a process that runs.                                 *)
OwnersAllocated ==
  broken = "no" =>
    /\ TypeOK
    /\ \A t \in Task : g_sched.state[t] # DEAD =>
                          t \in allocated /\ tasks[t].owner \in allocated

(* A joining thread is blocked exactly as long as the thread it joins is   *)
(* alive: no wake-up of process_join_thread is lost, none comes early.     *)
JoinExact ==
  \A t \in LiveTasks : pc[t].at = "join" =>
    (g_sched.state[t] = BLOCKED <=> g_sched.state[pc[t].arg] # DEAD)

(* A task that waits for a process is blocked exactly until the process is *)
(* killed, when it called process_wait before that.                        *)
WaitExact ==
  \A t \in LiveTasks : pc[t].at = "wait" /\ ~pc[t].late =>
    (g_sched.state[t] = BLOCKED <=> pc[t].pid \notin killed)

(* A sleeping task is blocked exactly as long as the sleep queue holds an  *)
(* entry for it, also when the queue was full or the task was killed.      *)
SleepExact ==
  \A t \in LiveTasks :
    g_sched.state[t] = BLOCKED /\ pc[t].at = "sleep"
      <=> \E i \in 1 .. Len(g_sched.queue) : g_sched.queue[i].t = t

(* No wake-up of a join, a wait or a sleep is lost and none comes early,   *)
(* also with tasks that channels, pipes, sockets and keys wake; until the  *)
(* first wake-up out of a stale listener slot, or the first process that   *)
(* exits beside live threads.                                              *)
BlockedExact == broken = "no" => JoinExact /\ WaitExact /\ SleepExact

(* The process manager, and the wake-ups of the other parts, drive the     *)
(* scheduler only in the ways that Scheduler allows; also in the step that *)
(* leaves threads behind or wakes a task out of a stale slot, not after.   *)
UsesScheduler == SchedInit /\ [][broken = "no" => SchedNext]_g_sched

(* Every READY task is eventually picked, although the scan starts over at *)
(* the head of the list whenever a task exits or the processor was idle.   *)
NoStarvation ==
  \A t \in Task : (t \in LiveTasks /\ g_sched.state[t] = READY)
                    ~> (g_sched.state[t] # READY \/ ~Alive)

(* Every sleeper is eventually woken, whatever the others do.              *)
SleepEnds ==
  \A t \in Task : (t \in LiveTasks /\ g_sched.state[t] = BLOCKED
                                   /\ pc[t].at = "sleep")
                    ~> (g_sched.state[t] # BLOCKED \/ ~Alive)

(* syscalls.h of SYS_WAIT: "blocks until that pid exits".                  *)
WaitEnds ==
  \A t \in LiveTasks :
    pc[t].at = "wait" /\ g_sched.state[t] = BLOCKED => pc[t].pid \notin killed
=============================================================================
