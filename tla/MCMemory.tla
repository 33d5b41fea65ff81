------------------------------ MODULE MCMemory ------------------------------
(* Model checking of the two allocators of the kernel and of its pipes.    *)
(* A behaviour runs one of them and leaves the others as they begin: what  *)
(* they share, the pages of the heap and the states of tasks, is part of   *)
(* each module that uses it.                                               *)
EXTENDS MCPmm, MCHeap, MCPipe

VARIABLE part  \* the module that runs

MCInit == part \in {"pmm", "heap", "pipe"} /\ PmmInit /\ Init /\ PipeInit

MCNext ==
  /\ UNCHANGED part
  /\ \/ part = "pmm" /\ PmmNext /\ UNCHANGED <<heapVars, pipeVars>>
     \/ part = "heap" /\ Next /\ UNCHANGED <<pmmVars, pipeVars>>
     \/ part = "pipe" /\ PipeNext /\ UNCHANGED <<pmmVars, heapVars>>

MCSpec == MCInit /\ [][MCNext]_<<part, pmmVars, heapVars, pipeVars>>
=============================================================================
