------------------------------- MODULE MCPipe -------------------------------
(* Model checking of module Pipe: all data and lengths up to a bound.      *)
EXTENDS Pipe, SequencesExt

CONSTANTS MaxWrite,  \* bound: bytes of one write
          MaxRead    \* bound: bytes one read asks for

MCData == BoundedSeq(Byte, MaxWrite)
MCLengths == 0 .. MaxRead

=============================================================================
