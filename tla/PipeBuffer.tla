----------------------------- MODULE PipeBuffer -----------------------------
(***************************************************************************)
(* The ring buffer of a pipe, kernel/ipc/pipe.c, as operators on a record  *)
(* with the fields of struct pipe (ref_count is written and never read:    *)
(* nothing calls pipe_release).                                            *)
(***************************************************************************)
EXTENDS Integers, Sequences

CONSTANTS
  PIPE_BUF_SIZE,  \* 4096
  Byte,           \* what is sent
  NoListener      \* the null pointer

ASSUME PipeBufferAssumption == PIPE_BUF_SIZE \in Nat \ {0} /\ Byte # {}

\* A fresh struct is not cleared: its bytes are what the heap held.
pipe_create ==
  [buf |-> [i \in 0 .. PIPE_BUF_SIZE - 1 |-> CHOOSE b \in Byte : TRUE],
   read_pos |-> 0, write_pos |-> 0, count |-> 0, listener |-> NoListener]

Least(m, n) == IF m < n THEN m ELSE n

\* The number of bytes of data the loop of pipe_write stores: the rest is
\* dropped when the buffer is full.
pipe_accepts(p, data) ==
  IF p.count >= PIPE_BUF_SIZE THEN 0 ELSE Least(Len(data), PIPE_BUF_SIZE - p.count)

\* Mutant: the write position skips what was dropped.
pipe_store_skips(p, data) ==
  LET n == pipe_accepts(p, data)
  IN  [p EXCEPT !.buf = [j \in DOMAIN @ |->
                           LET i == (j - p.write_pos) % PIPE_BUF_SIZE
                           IN  IF i < n THEN data[i + 1] ELSE @[j]],
                !.write_pos = (@ + Len(data)) % PIPE_BUF_SIZE,
                !.count = @ + n]

\* The loop of pipe_write.
pipe_store(p, data) ==
  LET n == pipe_accepts(p, data)
  IN  [p EXCEPT !.buf = [j \in DOMAIN @ |->
                           LET i == (j - p.write_pos) % PIPE_BUF_SIZE
                           IN  IF i < n THEN data[i + 1] ELSE @[j]],
                !.write_pos = (@ + n) % PIPE_BUF_SIZE,
                !.count = @ + n]

\* The bytes pipe_read delivers, and the pipe it leaves.
pipe_data(p, max_len) ==
  [i \in 1 .. Least(max_len, p.count) |->
     p.buf[(p.read_pos + i - 1) % PIPE_BUF_SIZE]]

pipe_take(p, max_len) ==
  LET n == Least(max_len, p.count)
  IN  [p EXCEPT !.read_pos = (@ + n) % PIPE_BUF_SIZE, !.count = @ - n]

\* Everything the pipe holds, oldest byte first.
Contents(p) == pipe_data(p, p.count)

PipeType(Listener) ==
  [buf: [0 .. PIPE_BUF_SIZE - 1 -> Byte],
   read_pos: 0 .. PIPE_BUF_SIZE - 1, write_pos: 0 .. PIPE_BUF_SIZE - 1,
   count: 0 .. PIPE_BUF_SIZE, listener: Listener \cup {NoListener}]

=============================================================================
