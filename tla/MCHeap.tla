------------------------------- MODULE MCHeap -------------------------------
(* Model checking of module Heap: an alignment of 2, headers of 2 and pages *)
(* of 8 bytes instead of 16, 32 and 4096.                                  *)
EXTENDS Heap, TLC

=============================================================================
