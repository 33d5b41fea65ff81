-------------------------------- MODULE Udp --------------------------------
(***************************************************************************)
(* UDP sockets: kernel/net/udp.c with the UDP half of kernel/net/socket.c  *)
(* and the socket system calls of kernel/cpu/syscall.c.                    *)
(*                                                                         *)
(* Datagrams arrive in the timer interrupt, which polls the network cards: *)
(* between any two steps of the tasks.  SYS_SOCKET_SEND changes nothing    *)
(* here; it is in module Net.  A socket's queue is a sequence; the ring    *)
(* that holds it keeps one of its SOCKET_QUEUE_SIZE places empty.          *)
(*                                                                         *)
(* A socket is used by the task that opened it, as in every program of     *)
(* user/.  System calls run with interrupts off, but what follows the      *)
(* schedule() of SYS_SOCKET_RECEIVE does not.  It is one step here: a      *)
(* datagram that arrives in the middle of socket_queue_read moves only the *)
(* head of the ring and the reader only its tail.  Socket ids are 16 bits; *)
(* fewer sockets than that are opened.                                     *)
(***************************************************************************)
EXTENDS Integers, Sequences, FiniteSets

CONSTANTS
  Task, NoTask,
  UDP_MAX_SOCKETS,    \* 16
  SOCKET_QUEUE_SIZE,  \* 8
  Port,               \* ports a program binds; 0 is no port
  Reserved,           \* s_reserved_ports
  MaxSockets,         \* bound: sockets opened
  MaxDatagrams        \* bound: datagrams that arrive

ASSUME UdpAssumption ==
  /\ NoTask \notin Task /\ 0 \notin Port /\ Reserved \subseteq Port
  /\ UDP_MAX_SOCKETS \in Nat \ {0} /\ SOCKET_QUEUE_SIZE \in Nat \ {0, 1}
  /\ {MaxSockets, MaxDatagrams} \subseteq Nat

VARIABLES
  s_sockets,         \* [id, local_port, is_listening, receiver, packets]
  g_next_socket_id,
  state,             \* task->state: "ready" (or running), "blocked", "dead"
  pc,                \* [at, id]: the call a task is blocked in, on which socket
  handles,           \* the ids a task got from SYS_SOCKET, closed ones included
  arrived,           \* history: number of datagrams so far
  taken              \* history: slot -> the last datagram read from it

udpVars == <<s_sockets, g_next_socket_id, state, pc, handles, arrived, taken>>

Slot == 0 .. UDP_MAX_SOCKETS - 1
User == [at |-> "user", id |-> 0]
InUser(t) == state[t] = "ready" /\ pc[t].at = "user"

UdpInit ==
  /\ s_sockets = [i \in Slot |-> [id |-> 0, local_port |-> 0,
                    is_listening |-> FALSE, receiver |-> NoTask, packets |-> <<>>]]
  /\ g_next_socket_id = 1
  /\ state = [t \in Task |-> "ready"]
  /\ pc = [t \in Task |-> User]
  /\ handles = [t \in Task |-> {}]
  /\ arrived = 0
  /\ taken = [i \in Slot |-> 0]

-----------------------------------------------------------------------------
FirstOf(S) == CHOOSE i \in S : \A j \in S : i <= j

\* The slots get_socket, find_free_socket (id 0) and get_socket_for_port
\* choose the first of.
get_socket(id) == {i \in Slot : s_sockets[i].id = id}
get_socket_for_port(port) ==
  {i \in Slot : s_sockets[i].id # 0 /\ s_sockets[i].local_port = port}

\* The queue of a slot that is used again keeps its packets.  The id is used
\* up also when the call fails.
SYS_SOCKET(t) ==
  /\ InUser(t) /\ g_next_socket_id <= MaxSockets
  /\ g_next_socket_id' = g_next_socket_id + 1
  /\ s_sockets' =
       IF get_socket(0) = {} THEN s_sockets
       ELSE [s_sockets EXCEPT ![FirstOf(get_socket(0))] =
               [id |-> g_next_socket_id, local_port |-> 0, is_listening |-> FALSE,
                receiver |-> NoTask, packets |-> @.packets]]
  /\ handles' = IF get_socket(0) = {} THEN handles
                ELSE [handles EXCEPT ![t] = @ \cup {g_next_socket_id}]
  /\ UNCHANGED <<state, pc, arrived, taken>>

\* Mutant: only other ports are looked at.
port_taken_never(port) == port \in Reserved

port_taken(port) == port \in Reserved \/ get_socket_for_port(port) # {}

SYS_SOCKET_BIND(t, id, port) ==
  /\ InUser(t) /\ get_socket(id) # {} /\ ~port_taken(port)
  /\ s_sockets' = [s_sockets EXCEPT ![FirstOf(get_socket(id))].local_port = port]
  /\ UNCHANGED <<g_next_socket_id, state, pc, handles, arrived, taken>>

\* SYS_SOCKET_LISTEN and SYS_SOCKET_CONNECT; the remote address is used by
\* sends only.
SYS_SOCKET_CONNECT(t, id) ==
  /\ InUser(t) /\ get_socket(id) # {}
  /\ s_sockets' = [s_sockets EXCEPT ![FirstOf(get_socket(id))].is_listening = TRUE]
  /\ UNCHANGED <<g_next_socket_id, state, pc, handles, arrived, taken>>

\* The queue keeps what is in it.
SYS_SOCKET_CLOSE(t, id) ==
  /\ InUser(t) /\ get_socket(id) # {}
  /\ s_sockets' = [s_sockets EXCEPT ![FirstOf(get_socket(id))].id = 0]
  /\ UNCHANGED <<g_next_socket_id, state, pc, handles, arrived, taken>>

\* Mutant: the packet stays in the queue.
socket_queue_read_keep(i) == s_sockets

\* The oldest packet leaves the queue.
socket_queue_read(i) == [s_sockets EXCEPT ![i].packets = Tail(@)]

\* udp_receive when there is a packet.
Receive(i) ==
  /\ s_sockets[i].packets # <<>>
  /\ s_sockets' = socket_queue_read(i)
  /\ taken' = [taken EXCEPT ![i] = Head(s_sockets[i].packets)]

\* SYS_SOCKET_RECEIVE and SYS_SOCKET_RECEIVE_NB when there is a packet.
SYS_SOCKET_RECEIVE(t, id) ==
  /\ InUser(t) /\ get_socket(id) # {}
  /\ Receive(FirstOf(get_socket(id)))
  /\ UNCHANGED <<g_next_socket_id, state, pc, handles, arrived>>

\* SYS_SOCKET_RECEIVE without a packet; with another receiver it returns 0.
SYS_SOCKET_RECEIVE_block(t, id) ==
  /\ InUser(t) /\ get_socket(id) # {}
  /\ LET i == FirstOf(get_socket(id))
     IN  /\ s_sockets[i].packets = <<>> /\ s_sockets[i].receiver = NoTask
         /\ s_sockets' = [s_sockets EXCEPT ![i].receiver = t]
  /\ state' = [state EXCEPT ![t] = "blocked"]
  /\ pc' = [pc EXCEPT ![t] = [at |-> "receive", id |-> id]]
  /\ UNCHANGED <<g_next_socket_id, handles, arrived, taken>>

\* The second socket_recv of SYS_SOCKET_RECEIVE; it may find nothing.
SYS_SOCKET_RECEIVE_resume(t) ==
  /\ state[t] = "ready" /\ pc[t].at = "receive"
  /\ LET S == get_socket(pc[t].id)
     IN  IF \E i \in S : i = FirstOf(S) /\ s_sockets[i].packets # <<>>
         THEN Receive(FirstOf(S)) ELSE UNCHANGED <<s_sockets, taken>>
  /\ pc' = [pc EXCEPT ![t] = User]
  /\ UNCHANGED <<g_next_socket_id, state, handles, arrived>>

\* Mutant: the receiver is forgotten without being woken.
udp_wakes_none(i) == {}

udp_wakes(i) == {s_sockets[i].receiver}

\* socket_queue_write gives up.
queue_full(i) == Len(s_sockets[i].packets) = SOCKET_QUEUE_SIZE - 1

\* udp_on_data: with a full queue the packet is dropped, the receiver woken
\* all the same.
udp_on_data(port) ==
  LET i == FirstOf(get_socket_for_port(port))
  IN  /\ arrived < MaxDatagrams /\ arrived' = arrived + 1
      /\ get_socket_for_port(port) # {} /\ s_sockets[i].is_listening
      /\ s_sockets' = [s_sockets EXCEPT
           ![i].packets = IF queue_full(i) THEN @ ELSE Append(@, arrived + 1),
           ![i].receiver = NoTask]
      /\ state' = [t \in Task |-> IF t \in udp_wakes(i) /\ state[t] = "blocked"
                                  THEN "ready" ELSE state[t]]
      /\ UNCHANGED <<g_next_socket_id, pc, handles, taken>>

\* A killed receiver stays registered.
Kill(t) ==
  /\ state[t] # "dead" /\ \E u \in Task \ {t} : InUser(u)
  /\ state' = [state EXCEPT ![t] = "dead"]
  /\ UNCHANGED <<s_sockets, g_next_socket_id, pc, handles, arrived, taken>>

UdpNext ==
  \/ \E t \in Task :
       \/ SYS_SOCKET(t) \/ SYS_SOCKET_RECEIVE_resume(t) \/ Kill(t)
       \/ \E id \in handles[t] :
            \/ SYS_SOCKET_CONNECT(t, id) \/ SYS_SOCKET_CLOSE(t, id)
            \/ SYS_SOCKET_RECEIVE(t, id) \/ SYS_SOCKET_RECEIVE_block(t, id)
            \/ \E port \in Port \cup {0} : SYS_SOCKET_BIND(t, id, port)
  \/ \E port \in Port \cup {0} : udp_on_data(port)

UdpSpec == UdpInit /\ [][UdpNext]_udpVars

-----------------------------------------------------------------------------
(* Properties.                                                             *)

(* The sockets have their types and no ring is filled to its last place,   *)
(* which udp_receive would take for an empty one.                          *)
UdpTypeOK ==
  /\ s_sockets \in [Slot -> [id: 0 .. MaxSockets, local_port: Port \cup {0},
                             is_listening: BOOLEAN, receiver: Task \cup {NoTask},
                             packets: Seq(1 .. MaxDatagrams)]]
  /\ \A i \in Slot : Len(s_sockets[i].packets) < SOCKET_QUEUE_SIZE
  /\ state \in [Task -> {"ready", "blocked", "dead"}]

(* No two open sockets are bound to the same port, whatever is bound,      *)
(* closed and bound again: udp_on_data gives a packet to the first socket  *)
(* with its port, and another one would never hear of it.                  *)
PortsExclusive ==
  \A i, j \in Slot : s_sockets[i].id # 0 /\ s_sockets[j].id # 0
    /\ s_sockets[i].local_port = s_sockets[j].local_port
    /\ s_sockets[i].local_port # 0 => i = j

(* A task blocked in SYS_SOCKET_RECEIVE is the one the next packet of its  *)
(* socket wakes, and no packet waits for it; when it goes on there is one. *)
SocketReceiverNotForgotten ==
  \A t \in Task : pc[t].at = "receive" =>
    \E i \in get_socket(pc[t].id) :
      /\ state[t] = "blocked" => s_sockets[i].receiver = t /\ s_sockets[i].packets = <<>>
      /\ state[t] = "ready" => s_sockets[i].packets # <<>>

(* Packets are read once and in the order of their arrival, also when the  *)
(* ring was full in between and when a slot is used again.                 *)
PacketsInOrder ==
  UdpTypeOK /\ \A i \in Slot : LET q == s_sockets[i].packets
    IN  /\ \A k \in 1 .. Len(q) : q[k] > taken[i]
        /\ \A k \in 1 .. Len(q) - 1 : q[k] < q[k + 1]
=============================================================================
