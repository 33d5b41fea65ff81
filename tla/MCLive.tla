------------------------------- MODULE MCLive -------------------------------
(* Liveness: of the scheduler and the process manager, and of the DHCP     *)
(* client.  A behaviour runs one of them and leaves the other as it        *)
(* begins.                                                                 *)
EXTENDS MCProcess, Dhcp

VARIABLE part  \* the module that runs

MCInit == part \in {"process", "dhcp"} /\ Init /\ DhcpInit

MCNext ==
  /\ UNCHANGED part
  /\ \/ part = "process" /\ Next /\ UNCHANGED dhcpVars
     \/ part = "dhcp" /\ DhcpNext /\ UNCHANGED procVars

MCSpec ==
  /\ MCInit /\ [][MCNext]_<<part, procVars, dhcpVars>>
  /\ part = "process" => TimerFairness
  /\ part = "dhcp" => DhcpFairness

\* Each liveness property is about the behaviours of its own module.
MCNoStarvation == part = "process" => NoStarvation
MCSleepEnds == part = "process" => SleepEnds
MCServiceEnds == part = "dhcp" => ServiceEnds
=============================================================================
