-------------------------------- MODULE Pipe --------------------------------
(***************************************************************************)
(* One pipe and the tasks that hold handles of it (a terminal, its shell   *)
(* and the programs the shell starts): SYS_READ_FD, SYS_WRITE_FD and       *)
(* SYS_PIPE_AVAIL of kernel/cpu/syscall.c on kernel/ipc/pipe.c.            *)
(*                                                                         *)
(* A system call runs with interrupts disabled until it calls schedule(),  *)
(* so a write, and a read that finds bytes, is one step.  A read that      *)
(* blocked goes on after schedule(), which has enabled interrupts: the     *)
(* timer may give the processor to another task in the middle of its       *)
(* pipe_read.  SpecPreempt has the loads and stores of that pipe_read as   *)
(* steps; PipeSpec has it as one undisturbed step.                         *)
(***************************************************************************)
EXTENDS PipeBuffer, FiniteSets

CONSTANTS
  Task,
  Data,      \* what is written at once: sequences of bytes
  Lengths,   \* what a read asks for
  UINT       \* 2^32, the range of a uint

ASSUME PipeAssumption ==
  /\ NoListener \notin Task
  /\ Data \subseteq Seq(Byte) /\ Lengths \subseteq Nat
  /\ UINT \in Nat /\ UINT > PIPE_BUF_SIZE

VARIABLES
  p,          \* the pipe
  state,      \* task->state: "ready" (or running), "blocked" or "dead"
  pc,         \* where a task is: [at, max, pos, count], the last two registers
  user_buf,   \* the bytes the task's last read has delivered so far
  last        \* history: what the last SYS_WRITE_FD was given

pipeVars == <<p, state, pc, user_buf, last>>

User == [at |-> "user", max |-> 0, pos |-> 0, count |-> 0]
InStep(t, step) == state[t] = "ready" /\ pc[t].at = step
GoTo(t, step) == pc' = [pc EXCEPT ![t].at = step]

PipeInit ==
  /\ p = pipe_create
  /\ state = [t \in Task |-> "ready"]
  /\ pc = [t \in Task |-> User]
  /\ user_buf = [t \in Task |-> <<>>]
  /\ last = <<>>

-----------------------------------------------------------------------------
\* Mutant: only a write that stores something wakes the reader.
wake_listener_none(t) == state

\* The end of pipe_write: task_set_ready of the listener.
wake_listener(t) ==
  IF t \in Task /\ state[t] = "blocked" THEN [state EXCEPT ![t] = "ready"] ELSE state

SYS_WRITE_FD(t, data) ==
  /\ InStep(t, "user")
  /\ p' = [pipe_store(p, data) EXCEPT !.listener = NoListener]
  /\ state' = wake_listener(p.listener)
  /\ last' = data
  /\ UNCHANGED <<pc, user_buf>>

\* There is one slot; a second reader is not registered.
pipe_add_listener(t) == p.listener = NoListener

\* A read that finds bytes, or finds another reader waiting and returns 0.
SYS_READ_FD(t, n) ==
  /\ InStep(t, "user")
  /\ Least(n, p.count) > 0 \/ ~pipe_add_listener(t)
  /\ user_buf' = [user_buf EXCEPT ![t] = pipe_data(p, n)]
  /\ p' = pipe_take(p, n)
  /\ UNCHANGED <<state, pc, last>>

\* A read that finds nothing and blocks, also when it asked for nothing.
SYS_READ_FD_block(t, n) ==
  /\ InStep(t, "user")
  /\ Least(n, p.count) = 0 /\ pipe_add_listener(t)
  /\ user_buf' = [user_buf EXCEPT ![t] = <<>>]
  /\ p' = [p EXCEPT !.listener = t]
  /\ state' = [state EXCEPT ![t] = "blocked"]
  /\ pc' = [pc EXCEPT ![t] = [at |-> "resume", max |-> n, pos |-> 0, count |-> 0]]
  /\ UNCHANGED last

\* The pipe_read after schedule(), undisturbed.
read_resume(t) ==
  /\ InStep(t, "resume")
  /\ user_buf' = [user_buf EXCEPT ![t] = pipe_data(p, pc[t].max)]
  /\ p' = pipe_take(p, pc[t].max)
  /\ pc' = [pc EXCEPT ![t] = User]
  /\ UNCHANGED <<state, last>>

-----------------------------------------------------------------------------
(* The same pipe_read, as the loads and stores of its loop.                *)

read_test(t) ==
  /\ InStep(t, "resume")
  /\ pc' = IF Len(user_buf[t]) < pc[t].max /\ p.count > 0
           THEN [pc EXCEPT ![t].at = "copy"] ELSE [pc EXCEPT ![t] = User]
  /\ UNCHANGED <<p, state, user_buf, last>>

read_copy(t) ==
  /\ InStep(t, "copy") /\ GoTo(t, "load_pos")
  /\ user_buf' = [user_buf EXCEPT ![t] = Append(@, p.buf[p.read_pos])]
  /\ UNCHANGED <<p, state, last>>

read_load_pos(t) ==
  /\ InStep(t, "load_pos")
  /\ pc' = [pc EXCEPT ![t].at = "load_count", ![t].pos = p.read_pos]
  /\ UNCHANGED <<p, state, user_buf, last>>

read_load_count(t) ==
  /\ InStep(t, "load_count")
  /\ pc' = [pc EXCEPT ![t].at = "store_pos", ![t].count = p.count]
  /\ UNCHANGED <<p, state, user_buf, last>>

read_store_pos(t) ==
  /\ InStep(t, "store_pos") /\ GoTo(t, "store_count")
  /\ p' = [p EXCEPT !.read_pos = (pc[t].pos + 1) % PIPE_BUF_SIZE]
  /\ UNCHANGED <<state, user_buf, last>>

read_store_count(t) ==
  /\ InStep(t, "store_count") /\ GoTo(t, "resume")
  /\ p' = [p EXCEPT !.count = (pc[t].count - 1) % UINT]
  /\ UNCHANGED <<state, user_buf, last>>

-----------------------------------------------------------------------------
\* Another thread kills t: the slot of the pipe keeps pointing at it.
SYS_THREAD_KILL(t) ==
  /\ state[t] # "dead" /\ \E u \in Task \ {t} : InStep(u, "user")
  /\ state' = [state EXCEPT ![t] = "dead"]
  /\ UNCHANGED <<p, pc, user_buf, last>>

Entry(t) ==
  \/ \E data \in Data : SYS_WRITE_FD(t, data)
  \/ \E n \in Lengths : SYS_READ_FD(t, n) \/ SYS_READ_FD_block(t, n)
  \/ SYS_THREAD_KILL(t)

PipeNext == \E t \in Task : Entry(t) \/ read_resume(t)

NextPreempt ==
  \E t \in Task :
    \/ Entry(t)
    \/ read_test(t) \/ read_copy(t) \/ read_load_pos(t)
    \/ read_load_count(t) \/ read_store_pos(t) \/ read_store_count(t)

PipeSpec == PipeInit /\ [][PipeNext]_pipeVars
SpecPreempt == PipeInit /\ [][NextPreempt]_pipeVars

-----------------------------------------------------------------------------
(* Properties.                                                             *)

Steps == {"user", "resume", "copy", "load_pos", "load_count", "store_pos",
          "store_count"}

(* Type invariant: the count and both positions stay in range.             *)
PipeTypeOK ==
  /\ p \in PipeType(Task)
  /\ state \in [Task -> {"ready", "blocked", "dead"}]
  /\ \A t \in Task : pc[t].at \in Steps /\ user_buf[t] \in Seq(Byte)

(* No wake-up is lost: a task blocked in SYS_READ_FD can be woken, and no  *)
(* byte it asked for waits in the pipe.                                    *)
ReaderNotForgotten ==
  PipeTypeOK /\ \A t \in Task : state[t] = "blocked" =>
    p.listener = t /\ (pc[t].max > 0 => p.count = 0)

(* The pipe is a bounded queue: the ring of pipe_write and pipe_read       *)
(* delivers what was stored, once and in order, whoever reads.             *)
Abstract == INSTANCE Fifo WITH
  Reader <- Task, Capacity <- PIPE_BUF_SIZE,
  queue <- Contents(p), input <- last, got <- user_buf
FifoSpec == Abstract!FifoSpec

(* syscall.c: "Clear IF on syscall entry so we don't get preempted         *)
(* mid-handler".  So count always is the distance between the positions.   *)
CountExact ==
  (\A t \in Task : pc[t].at \in {"user", "resume"})
    => (p.write_pos - p.read_pos) % PIPE_BUF_SIZE = p.count % PIPE_BUF_SIZE
=============================================================================
