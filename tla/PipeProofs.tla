----------------------------- MODULE PipeProofs -----------------------------
(***************************************************************************)
(* Proofs about pipes (module Pipe): no reader that blocked is forgotten,  *)
(* and the pipe implements the byte queue of module Fifo.                  *)
(***************************************************************************)
EXTENDS Pipe, PipeBufferProofs

\* The inductive invariant: types, positions in step with count; a task that
\* is blocked is the listener of the pipe, and the pipe is empty if it asked
\* for bytes.
PipeInv ==
  /\ p \in PipeType(Task) /\ RingOK(p)
  /\ state \in [Task -> {"ready", "blocked", "dead"}]
  /\ pc \in [Task -> [at: {"user", "resume"}, max: Nat, pos: Nat, count: Nat]]
  /\ user_buf \in [Task -> Seq(Byte)]
  /\ \A t \in Task : pc[t].at = "resume" => pc[t].max \in Lengths
  /\ \A t \in Task : state[t] = "blocked" => p.listener = t /\ (pc[t].max > 0 => p.count = 0)

(* Setting or clearing the listener changes nothing of the bytes that      *)
(* wait.                                                                   *)
LEMMA ListenerLemma ==
  ASSUME NEW L, NEW q \in PipeType(L), RingOK(q), NEW l \in L \cup {NoListener}
  PROVE  LET x == [q EXCEPT !.listener = l]
         IN  /\ x \in PipeType(L) /\ RingOK(x) /\ x.listener = l /\ x.count = q.count
             /\ Contents(x) = Contents(q)
<1> DEFINE x == [q EXCEPT !.listener = l]
<1>1. x = [buf |-> q.buf, read_pos |-> q.read_pos, write_pos |-> q.write_pos, count |-> q.count, listener |-> l]
  BY DEF PipeType
<1>2. x \in PipeType(L) BY <1>1 DEF PipeType
<1>3. RingOK(x) BY <1>1 DEF RingOK
<1>4. Contents(x) = Contents(q) BY <1>1 DEF Contents, pipe_data
<1> QED BY <1>1, <1>2, <1>3, <1>4

(* A new pipe satisfies the invariant.                                     *)
LEMMA PipeInitInv == PipeInit => PipeInv
<1> SUFFICES ASSUME PipeInit PROVE PipeInv OBVIOUS
<1>1. p \in PipeType(Task) /\ RingOK(p) BY CreateLemma DEF PipeInit, PipeType
<1>2. \A t \in Task : <<>> \in Seq(Byte) BY EmptySeq
<1> QED BY <1>1, <1>2 DEF PipeInit, PipeInv, User

(* The data of SYS_WRITE_FD as a sequence of bytes.                        *)
LEMMA DataSeq == ASSUME NEW data \in Data PROVE data \in Seq(Byte)
BY PipeAssumption

(* SYS_WRITE_FD keeps the invariant and is the Write of the abstract       *)
(* queue: what fits is appended. It wakes the listener, the only task that *)
(* may be blocked.                                                         *)
LEMMA WriteInv ==
  ASSUME PipeInv, NEW t \in Task, NEW data \in Data, SYS_WRITE_FD(t, data)
  PROVE  PipeInv' /\ Abstract!Write(data)
<1> DEFINE q == pipe_store(p, data)
           n == pipe_accepts(p, data)
<1>1. /\ n \in 0 .. Len(data) /\ n = Least(Len(data), PIPE_BUF_SIZE - p.count)
      /\ q \in PipeType(Task) /\ RingOK(q) /\ q.count = p.count + n
      /\ Contents(q) = Contents(p) \o SubSeq(data, 1, n)
  BY DataSeq, StoreLemma DEF PipeInv
<1>2. p' = [q EXCEPT !.listener = NoListener] BY DEF SYS_WRITE_FD
<1> HIDE DEF q, n
<1>3. /\ p' \in PipeType(Task) /\ RingOK(p') /\ p'.listener = NoListener
      /\ Contents(p') = Contents(p) \o SubSeq(data, 1, n)
  BY <1>1, <1>2, ListenerLemma
<1>4. /\ state' \in [Task -> {"ready", "blocked", "dead"}]
      /\ \A u \in Task : state'[u] # "blocked"
  BY DEF SYS_WRITE_FD, wake_listener, PipeInv
<1>5. PipeInv' BY <1>3, <1>4 DEF PipeInv, SYS_WRITE_FD, RingOK
<1>6. Len(Contents(p)) = p.count
  <2>1. p.count \in Nat /\ Least(p.count, p.count) = p.count BY DEF PipeInv, PipeType, Least
  <2> QED BY <2>1, ContentsType DEF Contents, PipeInv
<1>7. Abstract!Write(data)
  BY <1>1, <1>3, <1>6 DEF Abstract!Write, Abstract!Fits, SYS_WRITE_FD, Least, Contents, pipe_data
<1> QED BY <1>5, <1>7

(* What pipe_read does to a pipe of the invariant.                         *)
LEMMA TakeSteps ==
  ASSUME PipeInv, NEW m \in Lengths
  PROVE  LET q == pipe_take(p, m)
             k == Least(m, p.count)
         IN  /\ q \in PipeType(Task) /\ RingOK(q) /\ q.listener = p.listener
             /\ k \in Nat /\ q.count = p.count - k /\ q.count <= p.count
             /\ Contents(p) \in Seq(Byte) /\ Len(Contents(p)) = p.count
             /\ pipe_data(p, m) \in Seq(Byte)
             /\ pipe_data(p, m) = SubSeq(Contents(p), 1, k)
             /\ Contents(q) = SubSeq(Contents(p), k + 1, p.count)
<1>1. m \in Nat /\ p.count \in Nat BY PipeAssumption DEF PipeInv, PipeType
<1>2. pipe_data(p, m) \in Seq(Byte) BY <1>1, ContentsType DEF PipeInv
<1>3. Least(m, p.count) \in 0 .. p.count BY <1>1 DEF Least
<1>4. p.count - Least(m, p.count) <= p.count /\ Least(m, p.count) \in Nat BY <1>1, <1>3
<1>5. p \in PipeType(Task) /\ RingOK(p) BY DEF PipeInv
<1>6. LET q == pipe_take(p, m)
          k == Least(m, p.count)
      IN  /\ q \in PipeType(Task) /\ RingOK(q) /\ q.listener = p.listener /\ q.count = p.count - k
          /\ Contents(p) \in Seq(Byte) /\ Len(Contents(p)) = p.count
          /\ pipe_data(p, m) = SubSeq(Contents(p), 1, k)
          /\ Contents(q) = SubSeq(Contents(p), k + 1, p.count)
  BY <1>1, <1>5, TakeLemma
<1> QED BY <1>2, <1>4, <1>6

(* A read of the pipe is the Read of the abstract queue.                   *)
LEMMA TakeFifo ==
  ASSUME PipeInv, NEW t \in Task, NEW m \in Lengths,
         p' = pipe_take(p, m), last' = last,
         user_buf' = [user_buf EXCEPT ![t] = pipe_data(p, m)]
  PROVE  Abstract!Read(t, m)
<1>1. m \in Nat /\ p.count \in Nat BY PipeAssumption DEF PipeInv, PipeType
<1>2. (IF m < Len(Contents(p)) THEN m ELSE Len(Contents(p))) = Least(m, p.count)
  BY TakeSteps DEF Least
<1>3. Contents(p') = SubSeq(Contents(p), Least(m, p.count) + 1, Len(Contents(p)))
  BY TakeSteps
<1>4. user_buf' = [user_buf EXCEPT ![t] = SubSeq(Contents(p), 1, Least(m, p.count))]
  BY TakeSteps
<1> QED BY <1>2, <1>3, <1>4 DEF Abstract!Read, Contents, pipe_data, Least

(* SYS_READ_FD that does not block keeps the invariant.                    *)
LEMMA ReadInv ==
  ASSUME PipeInv, NEW t \in Task, NEW m \in Lengths, SYS_READ_FD(t, m)
  PROVE  PipeInv' /\ Abstract!Read(t, m)
<1>1. p' = pipe_take(p, m) /\ user_buf' = [user_buf EXCEPT ![t] = pipe_data(p, m)] /\ last' = last
  BY DEF SYS_READ_FD
<1>2. Abstract!Read(t, m) BY <1>1, TakeFifo
<1>3. p' \in PipeType(Task) /\ RingOK(p') /\ p'.listener = p.listener /\ (p.count = 0 => p'.count = 0)
  <2>1. p.count \in Nat /\ m \in Nat BY PipeAssumption DEF PipeInv, PipeType
  <2>2. p.count = 0 => Least(m, p.count) = 0 BY <2>1 DEF Least
  <2>3. p'.count = p.count - Least(m, p.count) BY <1>1, TakeSteps
  <2> QED BY <1>1, <2>1, <2>2, <2>3, TakeSteps
<1>4. user_buf' \in [Task -> Seq(Byte)] BY <1>1, TakeSteps DEF PipeInv
<1>5. PipeInv' BY <1>3, <1>4 DEF PipeInv, SYS_READ_FD, RingOK
<1> QED BY <1>2, <1>5

(* The second read of SYS_READ_FD, after the task was woken, keeps the     *)
(* invariant.                                                              *)
LEMMA ResumeInv ==
  ASSUME PipeInv, NEW t \in Task, read_resume(t)
  PROVE  PipeInv' /\ pc[t].max \in Lengths /\ Abstract!Read(t, pc[t].max)
<1> DEFINE m == pc[t].max
<1>0. m \in Lengths BY DEF read_resume, InStep, PipeInv
<1>1. p' = pipe_take(p, m) /\ user_buf' = [user_buf EXCEPT ![t] = pipe_data(p, m)] /\ last' = last
  BY DEF read_resume
<1>2. Abstract!Read(t, m) BY <1>0, <1>1, TakeFifo
<1>3. p' \in PipeType(Task) /\ RingOK(p') /\ p'.listener = p.listener /\ (p.count = 0 => p'.count = 0)
  <2>1. p.count \in Nat /\ m \in Nat BY <1>0, PipeAssumption DEF PipeInv, PipeType
  <2>2. p.count = 0 => Least(m, p.count) = 0 BY <2>1 DEF Least
  <2>3. p'.count = p.count - Least(m, p.count) BY <1>0, <1>1, TakeSteps
  <2> QED BY <1>0, <1>1, <2>1, <2>2, <2>3, TakeSteps
<1>4. user_buf' \in [Task -> Seq(Byte)] BY <1>0, <1>1, TakeSteps DEF PipeInv
<1>5. PipeInv' BY <1>3, <1>4 DEF PipeInv, read_resume, InStep, User, RingOK
<1> QED BY <1>0, <1>2, <1>5

(* A reader that finds nothing becomes the listener and blocks, which      *)
(* pipe_add_listener allows only when there is no other; for the abstract  *)
(* queue it is a Read of nothing.                                          *)
LEMMA BlockInv ==
  ASSUME PipeInv, NEW t \in Task, NEW m \in Lengths, SYS_READ_FD_block(t, m)
  PROVE  PipeInv' /\ Abstract!Read(t, m)
<1>1. m \in Nat /\ p.count \in Nat BY PipeAssumption DEF PipeInv, PipeType
<1>2. Least(m, p.count) = 0 /\ p.listener = NoListener BY DEF SYS_READ_FD_block, pipe_add_listener
<1>3. p' = [p EXCEPT !.listener = t] BY DEF SYS_READ_FD_block
<1>4. /\ p' \in PipeType(Task) /\ RingOK(p') /\ p'.listener = t /\ p'.count = p.count
      /\ Contents(p') = Contents(p)
  BY <1>3, ListenerLemma DEF PipeInv
<1>5. m > 0 => p.count = 0 BY <1>1, <1>2 DEF Least
<1>6. \A u \in Task : state[u] # "blocked" BY <1>2, PipeAssumption DEF PipeInv
<1>7. PipeInv'
  <2>1. state' = [state EXCEPT ![t] = "blocked"] /\ user_buf' = [user_buf EXCEPT ![t] = <<>>]
    BY DEF SYS_READ_FD_block
  <2>2. pc' = [pc EXCEPT ![t] = [at |-> "resume", max |-> m, pos |-> 0, count |-> 0]]
    BY DEF SYS_READ_FD_block
  <2>3. user_buf' \in [Task -> Seq(Byte)] BY <2>1, EmptySeq DEF PipeInv
  <2>4. \A u \in Task : state'[u] = "blocked" => u = t BY <1>6, <2>1 DEF PipeInv
  <2> QED BY <1>1, <1>4, <1>5, <2>1, <2>2, <2>3, <2>4 DEF PipeInv, RingOK
<1>8. Abstract!Read(t, m)
  <2>1. Contents(p) \in Seq(Byte) /\ Len(Contents(p)) = p.count BY TakeSteps
  <2>2. (IF m < Len(Contents(p)) THEN m ELSE Len(Contents(p))) = 0 BY <1>2, <2>1 DEF Least
  <2>3. SubSeq(Contents(p), 1, 0) = <<>> BY SubSeqEmpty
  <2>4. SubSeq(Contents(p), 0 + 1, Len(Contents(p))) = Contents(p) BY <2>1, SubSeqFull
  <2> QED BY <1>4, <2>2, <2>3, <2>4 DEF Abstract!Read, SYS_READ_FD_block, Contents, pipe_data, Least
<1> QED BY <1>7, <1>8

(* Every step keeps the invariant, and is a step of the abstract queue or  *)
(* leaves the queue as it is.                                              *)
LEMMA PipeStep ==
  PipeInv /\ [PipeNext]_pipeVars => PipeInv' /\ [Abstract!FifoNext]_(Abstract!fifoVars)
<1> SUFFICES ASSUME PipeInv, [PipeNext]_pipeVars
             PROVE  PipeInv' /\ [Abstract!FifoNext]_(Abstract!fifoVars)
  OBVIOUS
<1>1. ASSUME NEW t \in Task, NEW data \in Data, SYS_WRITE_FD(t, data)
      PROVE  PipeInv' /\ Abstract!FifoNext
  BY <1>1, WriteInv DEF Abstract!FifoNext
<1>2. ASSUME NEW t \in Task, NEW m \in Lengths, SYS_READ_FD(t, m) \/ SYS_READ_FD_block(t, m)
      PROVE  PipeInv' /\ Abstract!FifoNext
  BY <1>2, ReadInv, BlockInv DEF Abstract!FifoNext
<1>3. ASSUME NEW t \in Task, read_resume(t) PROVE PipeInv' /\ Abstract!FifoNext
  BY <1>3, ResumeInv DEF Abstract!FifoNext
<1>4. ASSUME NEW t \in Task, SYS_THREAD_KILL(t)
      PROVE  PipeInv' /\ UNCHANGED Abstract!fifoVars
  <2>1. PipeInv' BY <1>4 DEF PipeInv, SYS_THREAD_KILL, RingOK
  <2>2. UNCHANGED Abstract!fifoVars
    BY <1>4 DEF SYS_THREAD_KILL, Abstract!fifoVars, Contents, pipe_data, Least
  <2> QED BY <2>1, <2>2
<1>5. CASE UNCHANGED pipeVars
  <2>1. PipeInv' BY <1>5 DEF PipeInv, pipeVars, RingOK
  <2>2. UNCHANGED Abstract!fifoVars
    BY <1>5 DEF pipeVars, Abstract!fifoVars, Contents, pipe_data, Least
  <2> QED BY <2>1, <2>2
<1> QED BY <1>1, <1>2, <1>3, <1>4, <1>5 DEF PipeNext, Entry

(* The invariant holds in every state.                                     *)
LEMMA PipeAlwaysInv == PipeSpec => []PipeInv
<1>1. PipeInv /\ [PipeNext]_pipeVars => PipeInv' BY PipeStep
<1> QED BY <1>1, PipeInitInv, PTL DEF PipeSpec

(* No wake-up is lost: for every number of tasks and every size of the     *)
(* buffer, a task blocked in SYS_READ_FD is the listener of the pipe, and  *)
(* no byte it asked for waits there.                                       *)
THEOREM PipeReaders == PipeSpec => []ReaderNotForgotten
<1>1. PipeInv => ReaderNotForgotten BY DEF PipeInv, ReaderNotForgotten, PipeTypeOK, Steps
<1> QED BY <1>1, PipeAlwaysInv, PTL

(* The pipe implements the bounded queue: for every number of tasks and    *)
(* every size of the ring, with the bytes that wait as the queue,          *)
(* pipe_write and pipe_read are the writes and reads of module Fifo;       *)
(* nothing is lost, repeated or reordered where the ring wraps.            *)
THEOREM PipeImplementsFifo == PipeSpec => FifoSpec
<1>1. PipeInit => Abstract!FifoInit
  BY CreateLemma DEF PipeInit, Abstract!FifoInit
<1>2. PipeInv /\ [PipeNext]_pipeVars => [Abstract!FifoNext]_(Abstract!fifoVars) BY PipeStep
<1> QED BY <1>1, <1>2, PipeAlwaysInv, PTL DEF PipeSpec, FifoSpec, Abstract!FifoSpec
=============================================================================
