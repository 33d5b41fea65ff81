-------------------------------- MODULE Dhcp --------------------------------
(***************************************************************************)
(* The DHCP client, user/services/dhcp/main.cpp: main starts a thread for  *)
(* every interface, the loopback among them, and joins them all; a thread  *)
(* asks for an address over a UDP socket and configures its interface.     *)
(*                                                                         *)
(* The threads share the ports and the socket table of kernel/net/udp.c.   *)
(* They all bind port 68 and ignore the result: the socket that has the    *)
(* port gets every answer, whichever interface it came in by.  A slot of   *)
(* the table keeps its queue when the socket is closed.                    *)
(*                                                                         *)
(* The network loses, delays, reorders and duplicates what the servers     *)
(* send: a datagram stays in the set wire and may be delivered at any time *)
(* and more than once.  The servers are external; every wired interface    *)
(* has one, which acknowledges or refuses a request for an address.        *)
(***************************************************************************)
EXTENDS Integers, Sequences

CONSTANTS
  Count,       \* interfaces, 1 .. Count in the order of the kernel's table
  Wired,       \* the ones with a server: not the loopback
  Sockets,     \* UDP_MAX_SOCKETS
  QueueSize,   \* SOCKET_QUEUE_SIZE - 1
  Tries,       \* timeout / 100 in receive_with_timeout: 50
  Lease        \* addresses the servers give

ASSUME DhcpAssumption ==
  /\ {Count, Sockets, QueueSize, Tries} \subseteq Nat \ {0}
  /\ Wired \subseteq 1 .. Count /\ Lease \cap {0} = {}

Interface == 1 .. Count
Place == 1 .. Sockets

OFFER == 2
ACK == 5
NAK == 6

VARIABLES
  client,   \* interface -> [at, tries, slot, ip]: the thread's place in run()
  started,  \* threads main has spawned
  joined,   \* threads main has joined
  sockets,  \* slot -> [used, port]: s_sockets, port = local_port is 68
  inbox,    \* slot -> the queue of the slot
  wire,     \* datagrams the servers sent
  asked,    \* <<interface, address>>: requests the servers got, 0 a DISCOVER
  config    \* interface -> [addr, netmask]

dhcpVars == <<client, started, joined, sockets, inbox, wire, asked, config>>

\* What the stack holds when the answer has no option 1: the build leaves
\* netmask uninitialized.
Garbage == 99
Netmask == 24

DhcpInit ==
  /\ client = [i \in Interface |-> [at |-> "none", tries |-> 0, slot |-> 0, ip |-> 0]]
  /\ started = 0 /\ joined = 0
  /\ sockets = [s \in Place |-> [used |-> FALSE, port |-> FALSE]]
  /\ inbox = [s \in Place |-> <<>>]
  /\ wire = {} /\ asked = {}
  /\ config = [i \in Interface |-> [addr |-> 0, netmask |-> 0]]

-----------------------------------------------------------------------------
(* The threads.                                                            *)

At(i, at, s, ip) == client' = [client EXCEPT ![i] = [at |-> at, tries |-> 0, slot |-> s, ip |-> ip]]

\* What the servers have got after socket_send: over its own interface, which is
\* the only one bound to it.
socket_send(i, ip) == asked \cup ({<<i, ip>>} \cap (Wired \X (Lease \cup {0})))

\* udp_bind_socket refuses a port that is taken.
port_free == \A s \in Place : ~(sockets[s].used /\ sockets[s].port)

\* run up to the first wait.  udp_create_socket takes the first free slot.
run_discover(i) ==
  /\ client[i].at = "start"
  /\ \E s \in Place :
       /\ ~sockets[s].used /\ \A r \in 1 .. s - 1 : sockets[r].used
       /\ sockets' = [sockets EXCEPT ![s] = [used |-> TRUE, port |-> port_free]]
       /\ At(i, "offer", s, 0)
  /\ asked' = socket_send(i, 0)
  /\ UNCHANGED <<started, joined, inbox, wire, config>>

\* Every slot is taken.
run_no_socket(i) ==
  /\ client[i].at = "start" /\ \A s \in Place : sockets[s].used
  /\ At(i, "end", 0, 0)
  /\ UNCHANGED <<started, joined, sockets, inbox, wire, asked, config>>

closed(i) == [sockets EXCEPT ![client[i].slot].used = FALSE]

InRecv(i) == client[i].at \in {"offer", "ack"}

next_try_same(n) == n
next_try(n) == n + 1

tries_left(i) == client[i].tries < Tries

\* socket_recv_nb in receive_with_timeout.
Recv(i) == /\ InRecv(i) /\ tries_left(i) /\ inbox[client[i].slot] # <<>>
           /\ inbox' = [inbox EXCEPT ![client[i].slot] = Tail(@)]

\* Nothing there: sleep(100).
recv_sleep(i) ==
  /\ InRecv(i) /\ tries_left(i) /\ inbox[client[i].slot] = <<>>
  /\ client' = [client EXCEPT ![i].tries = next_try(@)]
  /\ UNCHANGED <<started, joined, sockets, inbox, wire, asked, config>>

\* It returns 0 after the last sleep, also when an answer has come.
run_timeout(i) ==
  /\ InRecv(i) /\ ~tries_left(i)
  /\ sockets' = closed(i) /\ At(i, "end", 0, 0)
  /\ UNCHANGED <<started, joined, inbox, wire, asked, config>>

\* parse_msg_type: the OFFER and the ACK are told apart by their type alone.
expected_any(i, p) == TRUE
expected(i, p) == p.type = IF client[i].at = "offer" THEN OFFER ELSE ACK

run_request(i) ==
  /\ client[i].at = "offer" /\ Recv(i)
  /\ LET p == Head(inbox[client[i].slot])
     IN expected(i, p) /\ asked' = socket_send(i, p.ip) /\ At(i, "ack", client[i].slot, p.ip)
  /\ UNCHANGED <<started, joined, sockets, wire, config>>

\* The address is the one in the ACK, not the one that was asked for.
run_configure(i) ==
  /\ client[i].at = "ack" /\ Recv(i)
  /\ LET p == Head(inbox[client[i].slot])
     IN /\ expected(i, p)
        /\ \E m \in IF p.mask # 0 THEN {p.mask} ELSE {0, Garbage} :
             config' = [config EXCEPT ![i] = [addr |-> p.ip, netmask |-> IF m = 0 THEN @.netmask ELSE m]]
  /\ sockets' = closed(i) /\ At(i, "end", 0, 0)
  /\ UNCHANGED <<started, joined, wire, asked>>

\* Another answer than the one it waits for: it gives up.
run_unexpected(i) ==
  /\ Recv(i) /\ ~expected(i, Head(inbox[client[i].slot]))
  /\ sockets' = closed(i) /\ At(i, "end", 0, 0)
  /\ UNCHANGED <<started, joined, wire, asked, config>>

Run(i) == \/ run_discover(i) \/ run_no_socket(i) \/ recv_sleep(i) \/ run_timeout(i)
          \/ run_request(i) \/ run_configure(i) \/ run_unexpected(i)

-----------------------------------------------------------------------------
(* main.                                                                   *)

main_spawn ==
  /\ started < Count /\ started' = started + 1
  /\ At(started + 1, "start", 0, 0)
  /\ UNCHANGED <<joined, sockets, inbox, wire, asked, config>>

main_join ==
  /\ started = Count /\ joined < Count /\ client[joined + 1].at = "end"
  /\ joined' = joined + 1
  /\ UNCHANGED <<client, started, sockets, inbox, wire, asked, config>>

Main == main_spawn \/ main_join

-----------------------------------------------------------------------------
(* The servers and the network.                                            *)

Serve ==
  /\ \E r \in asked :
       \/ r[2] = 0 /\ \E ip \in Lease : wire' = wire \cup {[type |-> OFFER, ip |-> ip, mask |-> Netmask]}
       \/ r[2] # 0 /\ \E m \in {0, Netmask} : wire' = wire \cup {[type |-> ACK, ip |-> r[2], mask |-> m]}
       \/ r[2] # 0 /\ wire' = wire \cup {[type |-> NAK, ip |-> 0, mask |-> 0]}
  /\ UNCHANGED <<client, started, joined, sockets, inbox, asked, config>>

\* udp_on_data for port 68; a full queue drops the datagram.
Deliver ==
  /\ \E p \in wire, s \in Place :
       /\ sockets[s].used /\ sockets[s].port /\ Len(inbox[s]) < QueueSize
       /\ inbox' = [inbox EXCEPT ![s] = Append(@, p)]
  /\ UNCHANGED <<client, started, joined, sockets, wire, asked, config>>

DhcpNext == (\E i \in Interface : Run(i)) \/ Main \/ Serve \/ Deliver

DhcpSpec == DhcpInit /\ [][DhcpNext]_dhcpVars

\* The threads of a program are scheduled again and again (NoStarvation of
\* module Process) and their sleeps end (SleepEnds).  Nothing is assumed of
\* the network and the servers.
DhcpFairness == WF_dhcpVars(Main) /\ \A i \in Interface : WF_dhcpVars(Run(i))

-----------------------------------------------------------------------------
(* Properties.                                                             *)

(* An interface only ever gets an address that a server acknowledged, and  *)
(* a thread that has ended holds no socket: run of main.cpp with answers   *)
(* that are late, repeated or meant for another thread.                    *)
LeaseGranted ==
  \A i \in Interface :
    /\ config[i].addr # 0 => \E p \in wire : p.type = ACK /\ p.ip = config[i].addr
    /\ client[i].at = "end" => client[i].slot = 0
    /\ InRecv(i) => sockets[client[i].slot].used

(* Whatever the network loses or repeats, the client ends: every thread    *)
(* gives up or is done, main joins them all and no socket stays open.      *)
ServiceEnds == <>[](joined = Count /\ \A s \in Place : ~sockets[s].used)
=============================================================================
