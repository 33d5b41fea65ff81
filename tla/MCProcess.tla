----------------------------- MODULE MCProcess -----------------------------
(* Small instances of Process: besides init, two processes or one process  *)
(* and a thread at a time, with task and process structs that are freed    *)
(* and used again.                                                         *)
EXTENDS Process

CONSTANTS t0, t1, t2, t3, p0, p1, p2

MCTask == {t0, t1, t2, t3}
MCProc == {p0, p1, p2}

\* For the liveness properties.
MCTask3 == {t0, t1, t2}

\* Structs other than init's are interchangeable.
Symmetry == Permutations({t1, t2, t3}) \cup Permutations({p1, p2})

\* One task at a time is in a listener slot, and not while another one sleeps.
\* The behaviours end with the first process that exits beside live threads, or
\* the first wake-up out of a stale slot, as what the properties say does; what
\* follows such an exit is in the run for liveness.
UnbrokenNext ==
  /\ broken = "no" /\ Next
  /\ Cardinality(listening') <= 1
  /\ listening' = {} \/ g_sched'.queue = <<>>

UnbrokenSpec == Init /\ [][UnbrokenNext]_procVars
=============================================================================
