-------------------------------- MODULE Fifo --------------------------------
(***************************************************************************)
(* What a pipe promises: a bounded first-in first-out queue of bytes.  A   *)
(* write appends what fits and drops the rest, a read takes what is there, *)
(* at most what was asked for, and never invents, repeats or reorders.     *)
(***************************************************************************)
EXTENDS Integers, Sequences

CONSTANTS Reader, Byte, Capacity,
          Data,     \* what may be written at once: sequences of bytes
          Lengths   \* what may be asked for at once

VARIABLES queue,  \* the bytes written and not yet read
          input,  \* the bytes of the last write
          got     \* reader: the bytes its last read delivered

fifoVars == <<queue, input, got>>

FifoInit == queue = <<>> /\ input = <<>> /\ got = [r \in Reader |-> <<>>]

Fits(data) == IF Len(data) < Capacity - Len(queue) THEN Len(data)
              ELSE Capacity - Len(queue)

Write(data) ==
  /\ input' = data
  /\ queue' = queue \o SubSeq(data, 1, Fits(data))
  /\ UNCHANGED got

Read(r, n) ==
  LET k == IF n < Len(queue) THEN n ELSE Len(queue)
  IN  /\ got' = [got EXCEPT ![r] = SubSeq(queue, 1, k)]
      /\ queue' = SubSeq(queue, k + 1, Len(queue))
      /\ UNCHANGED input

FifoNext == \/ \E data \in Data : Write(data)
            \/ \E r \in Reader, n \in Lengths : Read(r, n)

FifoSpec == FifoInit /\ [][FifoNext]_fifoVars

=============================================================================
