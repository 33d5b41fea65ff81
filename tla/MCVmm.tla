------------------------------- MODULE MCVmm --------------------------------
(* Model checking of module Vmm: a program of two pages in two segments    *)
(* with a header between them that is not loaded, and 17 free frames, so   *)
(* that two processes, their tables and their heaps use up the memory.     *)
EXTENDS Vmm

MCSegments ==
  <<[type |-> 1, vaddr |-> 0, pages |-> 1],
    [type |-> 2, vaddr |-> 0, pages |-> 1],
    [type |-> 1, vaddr |-> 1, pages |-> 1]>>
MCFrames == 0 .. 19
=============================================================================
