------------------------------- MODULE MCNet --------------------------------
(* Model checking of the network modules.  A behaviour runs one of them    *)
(* and leaves the others as they begin: what they share, the frames handed *)
(* from layer to layer and the states of tasks, comes in any order in each *)
(* of them.                                                                *)
EXTENDS Udp, Net, Tcp, E1000, TLC

VARIABLE layer  \* the module that runs

MCMaxBytes == [h \in Host |-> IF h = Client THEN 2 ELSE 1]

MCInit ==
  /\ layer \in {"udp", "net", "tcp", "e1000"}
  /\ UdpInit /\ NetInit /\ TcpInit /\ E1000Init

MCNext ==
  /\ UNCHANGED layer
  /\ \/ layer = "udp" /\ UdpNext /\ UNCHANGED <<netVars, tcpVars, e1000Vars>>
     \/ layer = "net" /\ NetNext /\ UNCHANGED <<udpVars, tcpVars, e1000Vars>>
     \/ layer = "tcp" /\ TcpNext /\ UNCHANGED <<udpVars, netVars, e1000Vars>>
     \/ layer = "e1000" /\ E1000Next /\ UNCHANGED <<udpVars, netVars, tcpVars>>

MCSpec == MCInit /\ [][MCNext]_<<layer, udpVars, netVars, tcpVars, e1000Vars>>

Symmetry == Permutations(Task)
=============================================================================
