----------------------------- MODULE MCChannel ------------------------------
(* Model checking of module Channel: a client with one thread and a server *)
(* with two.                                                               *)
EXTENDS Channel, TLC

CONSTANTS c1, s1, tc1, ts1, ts2

MCOwnerOf == tc1 :> c1 @@ ts1 :> s1 @@ ts2 :> s1
MCByte == 1 .. MaxBytes

VARIABLE part  \* what a behaviour is about

MCInit == part \in {"bytes", "servers", "ends"} /\ Init

NoEnds == \A t \in Task : state[t] # "dead"
OneServer == \A h \in Server \ {0} : s_servers[h].identifier = NoName /\ s_servers[h].listener = NoTask
OneByte == /\ \A c \in DOMAIN sent, s \in Side : sent[c][s] <= 1
           /\ \A t \in Task : pc[t].len <= 1
Connections ==
  /\ \A t \in Task : pc[t].len = 0
  /\ \A q \in Proc, h \in Handle : handles[q][h].type \in {"none", "channel"}
  /\ \A c \in DOMAIN channels, s \in Side : sent[c][s] = 0 /\ ~channels[c].is_closed[s]

\* The three cannot be large at once.  "bytes": one channel, the pipes of which
\* are filled, read in parts and wrap; "servers": two servers with up to two
\* connections each in their queues, and nothing but connections; "ends":
\* threads and processes that end beside two channels of one server.
MCNext ==
  /\ UNCHANGED part /\ Next
  /\ part = "bytes" => (Len(channels) <= 1 /\ NoEnds /\ OneServer)'
  /\ part = "servers" => (Connections /\ NoEnds)'
  /\ part = "ends" => (Len(channels) <= 2 /\ OneByte /\ OneServer)'

MCSpec == MCInit /\ [][MCNext]_<<part, chanVars>>

\* The threads of the server are interchangeable.
Symmetry == Permutations({ts1, ts2})
=============================================================================
