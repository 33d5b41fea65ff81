--------------------------- MODULE NetworkProofs ---------------------------
(***************************************************************************)
(* Proofs about the network: UDP sockets (module Udp), the routing table   *)
(* (module Net), the DHCP client (module Dhcp) and TCP (module Tcp).       *)
(***************************************************************************)
EXTENDS Udp, Net, Dhcp, Tcp, OrderLemmas

-----------------------------------------------------------------------------
(* UDP sockets.                                                            *)

\* A socket of udp.c.
Socket == [id: 0 .. MaxSockets, local_port: Port \cup {0}, is_listening: BOOLEAN,
           receiver: Task \cup {NoTask}, packets: Seq(1 .. MaxDatagrams)]

\* Types of the sockets, the tasks and their handles.
UdpTypes ==
  /\ s_sockets \in [Slot -> Socket]
  /\ g_next_socket_id \in Nat \ {0}
  /\ state \in [Task -> {"ready", "blocked", "dead"}]
  /\ pc \in [Task -> [at: {"user", "receive"}, id: Nat]]
  /\ handles \in [Task -> SUBSET (Nat \ {0})]
  /\ arrived \in 0 .. MaxDatagrams
  /\ taken \in [Slot -> 0 .. MaxDatagrams]

\* A queue of a slot: below its last place, newer than what was read, in order.
QueueOK(q, last, newest) ==
  /\ Len(q) < SOCKET_QUEUE_SIZE /\ last <= newest
  /\ \A k \in 1 .. Len(q) : q[k] > last /\ q[k] <= newest
  /\ \A j, k \in 1 .. Len(q) : j < k => q[j] < q[k]

\* The ring of every socket is in order.
QueuesInv == \A i \in Slot : QueueOK(s_sockets[i].packets, taken[i], arrived)

\* An id is the one of one socket, and a handle of one task.
IdInv ==
  /\ \A i, j \in Slot : s_sockets[i].id = s_sockets[j].id /\ s_sockets[i].id # 0 => i = j
  /\ \A i \in Slot : s_sockets[i].id < g_next_socket_id
  /\ \A t \in Task : \A id \in handles[t] : id < g_next_socket_id
  /\ \A t, u \in Task : \A id \in handles[t] : id \in handles[u] => t = u

\* The socket a task that is in SYS_SOCKET_RECEIVE waits at.
WaitsAt(t, i) ==
  /\ s_sockets[i].id = pc[t].id
  /\ state[t] = "blocked" => s_sockets[i].receiver = t /\ s_sockets[i].packets = <<>>
  /\ state[t] = "ready" => s_sockets[i].packets # <<>>

\* A task that waits for packets of a socket is its receiver and the queue is
\* empty; one that was woken finds a packet.
WaitInv ==
  \A t \in Task : pc[t].at = "receive" =>
    pc[t].id \in handles[t] /\ \E i \in Slot : WaitsAt(t, i)

\* A registered receiver is in SYS_SOCKET_RECEIVE for this socket.
ReceiverInv ==
  \A i \in Slot : s_sockets[i].receiver # NoTask =>
    LET t == s_sockets[i].receiver
    IN  pc[t].at = "receive" /\ pc[t].id = s_sockets[i].id /\ state[t] # "ready"

\* The inductive invariant of the sockets.
UdpInv == UdpTypes /\ QueuesInv /\ PortsExclusive /\ IdInv /\ WaitInv /\ ReceiverInv

-----------------------------------------------------------------------------
(* The loops over the sockets stop at the first hit.                       *)
LEMMA FirstSlot ==
  ASSUME NEW S \in SUBSET Slot, S # {} PROVE FirstOf(S) \in S
<1>1. S \in SUBSET Nat BY DEF Slot
<1> QED BY <1>1, LeastExists DEF FirstOf

(* Without a socket the invariant holds.                                   *)
LEMMA UdpInitInv == UdpInit => UdpInv
<1> SUFFICES ASSUME UdpInit PROVE UdpInv OBVIOUS
<1>1. UdpTypes
  <2>1. <<>> \in Seq(1 .. MaxDatagrams) BY EmptySeq
  <2>2. [id |-> 0, local_port |-> 0, is_listening |-> FALSE, receiver |-> NoTask, packets |-> <<>>] \in Socket
    BY <2>1, UdpAssumption DEF Socket
  <2> QED BY <2>2, UdpAssumption DEF UdpInit, UdpTypes, User
<1>2. \A i \in Slot : /\ s_sockets[i].id = 0 /\ s_sockets[i].receiver = NoTask /\ s_sockets[i].packets = <<>>
                      /\ taken[i] = 0
  BY DEF UdpInit
<1>3. QueuesInv BY <1>2, UdpAssumption DEF QueuesInv, QueueOK, UdpInit
<1>4. PortsExclusive BY <1>2 DEF PortsExclusive
<1>5. IdInv BY <1>2 DEF IdInv, UdpInit
<1>6. WaitInv /\ ReceiverInv BY <1>2 DEF WaitInv, ReceiverInv, UdpInit, User
<1> QED BY <1>1, <1>3, <1>4, <1>5, <1>6 DEF UdpInv

\* The socket of a task in user mode is nobody's waiting place.
LEMMA OwnSocket ==
  ASSUME UdpInv, NEW t \in Task, InUser(t), NEW id \in handles[t], get_socket(id) # {}
  PROVE  LET i == FirstOf(get_socket(id))
         IN  /\ i \in Slot /\ s_sockets[i].id = id /\ id # 0 /\ id \in Nat
             /\ s_sockets[i].receiver = NoTask
             /\ \A u \in Task : ~(pc[u].at = "receive" /\ WaitsAt(u, i))
<1> USE DEF UdpInv
<1> DEFINE i == FirstOf(get_socket(id))
<1>1. i \in get_socket(id) BY FirstSlot DEF get_socket
<1> HIDE DEF i
<1>2. i \in Slot /\ s_sockets[i].id = id /\ id # 0 /\ id \in Nat BY <1>1 DEF get_socket, UdpTypes
<1>3. ASSUME NEW u \in Task, pc[u].at = "receive", pc[u].id = id PROVE FALSE
  <2>1. id \in handles[u] BY <1>3 DEF WaitInv
  <2> QED BY <1>3, <2>1 DEF IdInv, InUser
<1>4. s_sockets[i].receiver = NoTask
  <2>1. s_sockets[i].receiver \in Task \cup {NoTask} BY <1>2 DEF UdpTypes, Socket
  <2> QED BY <1>2, <1>3, <2>1 DEF ReceiverInv
<1>5. \A u \in Task : ~(pc[u].at = "receive" /\ WaitsAt(u, i)) BY <1>2, <1>3 DEF WaitsAt
<1> QED BY <1>2, <1>4, <1>5 DEF i

\* No task waits at socket i after the step, and no waiting task is disturbed.
Undisturbed(i) ==
  \A u \in Task : /\ pc'[u].at = "receive" => pc'[u] = pc[u] /\ ~WaitsAt(u, i)
                  /\ state[u] # "ready" => pc'[u] = pc[u]

\* A step of a task in user mode on its own socket i.
LEMMA OwnStep ==
  ASSUME UdpInv, NEW i \in Slot, NEW new \in Socket, s_sockets' = [s_sockets EXCEPT ![i] = new],
         s_sockets[i].receiver = NoTask, new.receiver = NoTask,
         \A u \in Task : /\ pc'[u].at = "receive" => pc'[u] = pc[u] /\ ~WaitsAt(u, i)
                         /\ state[u] # "ready" => pc'[u] = pc[u],
         new.id = s_sockets[i].id \/ new.id = 0,
         UNCHANGED <<g_next_socket_id, state, handles>>
  PROVE  /\ s_sockets' \in [Slot -> Socket] /\ IdInv' /\ WaitInv' /\ ReceiverInv'
         /\ s_sockets'[i] = new /\ \A j \in Slot : j # i => s_sockets'[j] = s_sockets[j]
<1> USE DEF UdpInv
<1>1. /\ s_sockets' \in [Slot -> Socket] /\ s_sockets'[i] = new
      /\ \A j \in Slot : j # i => s_sockets'[j] = s_sockets[j]
  BY DEF UdpTypes
<1>2. \A j \in Slot : s_sockets'[j].id = s_sockets[j].id \/ s_sockets'[j].id = 0 BY <1>1
<1>3. IdInv'
  <2>1. \A j \in Slot : s_sockets'[j].id < g_next_socket_id BY <1>2 DEF IdInv, UdpTypes
  <2> QED BY <1>2, <2>1 DEF IdInv
<1>4. WaitInv'
  <2> SUFFICES ASSUME NEW u \in Task, pc'[u].at = "receive"
               PROVE  pc'[u].id \in handles[u] /\ \E j \in Slot : WaitsAt(u, j)'
    BY DEF WaitInv
  <2>1. PICK j \in Slot : WaitsAt(u, j) BY DEF WaitInv
  <2>2. j # i BY <2>1
  <2>3. WaitsAt(u, j)' BY <1>1, <2>1, <2>2 DEF WaitsAt
  <2> QED BY <2>3 DEF WaitInv
<1>5. ReceiverInv'
  <2> SUFFICES ASSUME NEW j \in Slot, s_sockets'[j].receiver # NoTask
               PROVE  /\ pc'[s_sockets'[j].receiver].at = "receive"
                      /\ pc'[s_sockets'[j].receiver].id = s_sockets'[j].id
                      /\ state[s_sockets'[j].receiver] # "ready"
    BY DEF ReceiverInv
  <2>1. j # i /\ s_sockets'[j] = s_sockets[j] BY <1>1
  <2>2. s_sockets[j].receiver \in Task BY <2>1 DEF UdpTypes, Socket
  <2> QED BY <2>1, <2>2 DEF ReceiverInv
<1> QED BY <1>1, <1>3, <1>4, <1>5

(* SYS_SOCKET gives a free slot an id that no socket has had: what other   *)
(* tasks wait at stays theirs.                                             *)
LEMMA UdpSocket == ASSUME UdpInv, NEW t \in Task, SYS_SOCKET(t) PROVE UdpInv'
<1> USE DEF UdpInv
<1>1. PICK n \in Nat \ {0} : n = g_next_socket_id BY DEF UdpTypes
<1>2. /\ InUser(t) /\ n <= MaxSockets /\ g_next_socket_id' = n + 1 /\ UNCHANGED <<state, pc, arrived, taken>>
      /\ n \in 0 .. MaxSockets
  BY <1>1, UdpAssumption DEF SYS_SOCKET
<1>3. CASE get_socket(0) = {}
  <2>1. UNCHANGED <<s_sockets, handles>> BY <1>3 DEF SYS_SOCKET
  <2>2. UdpTypes' BY <1>2, <2>1 DEF UdpTypes
  <2>3. QueuesInv' BY <1>2, <2>1 DEF QueuesInv, QueueOK
  <2>4. PortsExclusive' /\ WaitInv' /\ ReceiverInv'
    BY <1>2, <2>1 DEF PortsExclusive, WaitInv, WaitsAt, ReceiverInv
  <2>5. IdInv'
    <3>1. \A i \in Slot : s_sockets[i].id < n + 1 BY <1>1 DEF IdInv, UdpTypes, Socket
    <3>2. \A u \in Task : \A id \in handles[u] : id < n + 1 BY <1>1 DEF IdInv, UdpTypes
    <3> QED BY <1>2, <2>1, <3>1, <3>2 DEF IdInv
  <2> QED BY <2>2, <2>3, <2>4, <2>5
<1>4. CASE get_socket(0) # {}
  <2>1. PICK i \in Slot : i = FirstOf(get_socket(0)) /\ s_sockets[i].id = 0
    <3>1. FirstOf(get_socket(0)) \in get_socket(0) BY <1>4, FirstSlot DEF get_socket
    <3> QED BY <3>1 DEF get_socket
  <2>2. PICK q \in Seq(1 .. MaxDatagrams) : q = s_sockets[i].packets BY DEF UdpTypes, Socket
  <2> DEFINE new == [id |-> n, local_port |-> 0, is_listening |-> FALSE, receiver |-> NoTask, packets |-> q]
  <2>3. s_sockets' = [s_sockets EXCEPT ![i] = new] /\ handles' = [handles EXCEPT ![t] = @ \cup {n}]
    BY <1>1, <1>4, <2>1, <2>2 DEF SYS_SOCKET
  <2>4. /\ new \in Socket /\ new.id = n /\ new.local_port = 0 /\ new.receiver = NoTask /\ new.packets = q
    BY <1>2 DEF Socket
  <2> HIDE DEF new
  <2>5. /\ s_sockets' \in [Slot -> Socket] /\ s_sockets'[i] = new
        /\ \A j \in Slot : j # i => s_sockets'[j] = s_sockets[j]
        /\ handles' \in [Task -> SUBSET (Nat \ {0})]
        /\ \A u \in Task : handles'[u] = IF u = t THEN handles[u] \cup {n} ELSE handles[u]
    BY <2>3, <2>4 DEF UdpTypes
  <2>6. UdpTypes' BY <1>2, <2>5 DEF UdpTypes
  <2>7. \A j \in Slot : s_sockets'[j].packets = s_sockets[j].packets BY <2>2, <2>4, <2>5
  <2>8. QueuesInv' BY <1>2, <2>7 DEF QueuesInv, QueueOK
  <2>9. PortsExclusive' BY <2>4, <2>5 DEF PortsExclusive
  <2>10. \A j \in Slot : s_sockets[j].id < n /\ s_sockets[j].id \in Nat BY <1>1 DEF IdInv, UdpTypes, Socket
  <2>11. \A u \in Task : \A id \in handles[u] : id < n /\ id \in Nat BY <1>1 DEF IdInv, UdpTypes
  <2>12. IdInv'
    <3>1. \A j, k \in Slot : s_sockets'[j].id = s_sockets'[k].id /\ s_sockets'[j].id # 0 => j = k
      <4>1. \A j \in Slot : s_sockets'[j].id = IF j = i THEN n ELSE s_sockets[j].id BY <2>4, <2>5
      <4>2. \A j \in Slot : s_sockets[j].id # n BY <2>10
      <4>3. \A j, k \in Slot : s_sockets[j].id = s_sockets[k].id /\ s_sockets[j].id # 0 => j = k BY DEF IdInv
      <4> QED BY <4>1, <4>2, <4>3
    <3>2. \A j \in Slot : s_sockets'[j].id < n + 1 BY <2>4, <2>5, <2>10
    <3>3. \A u \in Task : \A id \in handles'[u] : id < n + 1 BY <2>5, <2>11
    <3>4. \A u, v \in Task : \A id \in handles'[u] : id \in handles'[v] => u = v
      <4>1. \A u \in Task : n \notin handles[u] BY <2>11
      <4>2. \A u, v \in Task : \A id \in handles[u] : id \in handles[v] => u = v BY DEF IdInv
      <4> QED BY <2>5, <4>1, <4>2
    <3> QED BY <1>2, <3>1, <3>2, <3>3, <3>4 DEF IdInv
  <2>13. WaitInv'
    <3> SUFFICES ASSUME NEW u \in Task, pc[u].at = "receive"
                 PROVE  pc[u].id \in handles'[u] /\ \E j \in Slot : WaitsAt(u, j)'
      BY <1>2 DEF WaitInv
    <3>1. PICK j \in Slot : WaitsAt(u, j) /\ pc[u].id \in handles[u] BY DEF WaitInv
    <3>2. j # i BY <2>1, <3>1 DEF WaitsAt, UdpTypes
    <3>3. WaitsAt(u, j)' BY <1>2, <2>5, <3>1, <3>2 DEF WaitsAt
    <3> QED BY <2>5, <3>1, <3>3
  <2>14. ReceiverInv'
    <3> SUFFICES ASSUME NEW j \in Slot, s_sockets'[j].receiver # NoTask
                 PROVE  /\ pc[s_sockets'[j].receiver].at = "receive"
                        /\ pc[s_sockets'[j].receiver].id = s_sockets'[j].id
                        /\ state[s_sockets'[j].receiver] # "ready"
      BY <1>2 DEF ReceiverInv
    <3>1. j # i BY <2>4, <2>5
    <3> QED BY <2>5, <3>1 DEF ReceiverInv
  <2> QED BY <2>6, <2>8, <2>9, <2>12, <2>13, <2>14
<1> QED BY <1>3, <1>4

(* SYS_SOCKET_BIND gives a socket a port that is not taken.                *)
LEMMA UdpBind ==
  ASSUME UdpInv, NEW t \in Task, NEW id \in handles[t], NEW pt \in Port \cup {0}, SYS_SOCKET_BIND(t, id, pt)
  PROVE  UdpInv'
<1> USE DEF UdpInv
<1>1. /\ InUser(t) /\ get_socket(id) # {} /\ ~port_taken(pt)
      /\ UNCHANGED <<g_next_socket_id, state, pc, handles, arrived, taken>>
  BY DEF SYS_SOCKET_BIND
<1>2. PICK i \in Slot : /\ i = FirstOf(get_socket(id)) /\ s_sockets[i].receiver = NoTask
                        /\ \A u \in Task : ~(pc[u].at = "receive" /\ WaitsAt(u, i))
  BY <1>1, OwnSocket
<1>3. PICK new \in Socket : new = [s_sockets[i] EXCEPT !.local_port = pt]
  <2>1. s_sockets[i] \in Socket BY DEF UdpTypes
  <2> QED BY <2>1 DEF Socket
<1>4. s_sockets' = [s_sockets EXCEPT ![i] = new] BY <1>2, <1>3 DEF SYS_SOCKET_BIND
<1>5. /\ new.id = s_sockets[i].id /\ new.local_port = pt /\ new.receiver = NoTask
      /\ new.packets = s_sockets[i].packets
  <2>1. s_sockets[i] \in Socket BY DEF UdpTypes
  <2> QED BY <1>2, <1>3, <2>1 DEF Socket
<1>6. /\ s_sockets' \in [Slot -> Socket] /\ IdInv' /\ WaitInv' /\ ReceiverInv'
      /\ s_sockets'[i] = new /\ \A j \in Slot : j # i => s_sockets'[j] = s_sockets[j]
  BY <1>1, <1>2, <1>4, <1>5, OwnStep
<1>7. UdpTypes' BY <1>1, <1>6 DEF UdpTypes
<1>8. QueuesInv'
  <2>1. \A j \in Slot : s_sockets'[j].packets = s_sockets[j].packets BY <1>5, <1>6
  <2> QED BY <1>1, <2>1 DEF QueuesInv, QueueOK
<1>9. PortsExclusive'
  <2>1. \A j \in Slot : s_sockets[j].id # 0 => s_sockets[j].local_port # pt
    BY <1>1 DEF port_taken, get_socket_for_port
  <2> QED BY <1>5, <1>6, <2>1 DEF PortsExclusive
<1> QED BY <1>6, <1>7, <1>8, <1>9

(* SYS_SOCKET_LISTEN and SYS_SOCKET_CONNECT touch no port, queue or        *)
(* receiver.                                                               *)
LEMMA UdpConnect ==
  ASSUME UdpInv, NEW t \in Task, NEW id \in handles[t], SYS_SOCKET_CONNECT(t, id) PROVE UdpInv'
<1> USE DEF UdpInv
<1>1. /\ InUser(t) /\ get_socket(id) # {}
      /\ UNCHANGED <<g_next_socket_id, state, pc, handles, arrived, taken>>
  BY DEF SYS_SOCKET_CONNECT
<1>2. PICK i \in Slot : /\ i = FirstOf(get_socket(id)) /\ s_sockets[i].receiver = NoTask
                        /\ \A u \in Task : ~(pc[u].at = "receive" /\ WaitsAt(u, i))
  BY <1>1, OwnSocket
<1>3. PICK new \in Socket : new = [s_sockets[i] EXCEPT !.is_listening = TRUE]
  <2>1. s_sockets[i] \in Socket BY DEF UdpTypes
  <2> QED BY <2>1 DEF Socket
<1>4. s_sockets' = [s_sockets EXCEPT ![i] = new] BY <1>2, <1>3 DEF SYS_SOCKET_CONNECT
<1>5. /\ new.id = s_sockets[i].id /\ new.local_port = s_sockets[i].local_port /\ new.receiver = NoTask
      /\ new.packets = s_sockets[i].packets
  <2>1. s_sockets[i] \in Socket BY DEF UdpTypes
  <2> QED BY <1>2, <1>3, <2>1 DEF Socket
<1>6. /\ s_sockets' \in [Slot -> Socket] /\ IdInv' /\ WaitInv' /\ ReceiverInv'
      /\ s_sockets'[i] = new /\ \A j \in Slot : j # i => s_sockets'[j] = s_sockets[j]
  BY <1>1, <1>2, <1>4, <1>5, OwnStep
<1>7. UdpTypes' BY <1>1, <1>6 DEF UdpTypes
<1>8. \A j \in Slot : /\ s_sockets'[j].packets = s_sockets[j].packets /\ s_sockets'[j].id = s_sockets[j].id
                      /\ s_sockets'[j].local_port = s_sockets[j].local_port
  BY <1>5, <1>6
<1>9. QueuesInv' BY <1>1, <1>8 DEF QueuesInv, QueueOK
<1>10. PortsExclusive' BY <1>8 DEF PortsExclusive
<1> QED BY <1>6, <1>7, <1>9, <1>10

(* SYS_SOCKET_CLOSE frees a slot of a socket of its task, which is in user *)
(* mode: nobody waits there.                                               *)
LEMMA UdpClose ==
  ASSUME UdpInv, NEW t \in Task, NEW id \in handles[t], SYS_SOCKET_CLOSE(t, id) PROVE UdpInv'
<1> USE DEF UdpInv
<1>1. /\ InUser(t) /\ get_socket(id) # {}
      /\ UNCHANGED <<g_next_socket_id, state, pc, handles, arrived, taken>>
  BY DEF SYS_SOCKET_CLOSE
<1>2. PICK i \in Slot : /\ i = FirstOf(get_socket(id)) /\ s_sockets[i].receiver = NoTask
                        /\ \A u \in Task : ~(pc[u].at = "receive" /\ WaitsAt(u, i))
  BY <1>1, OwnSocket
<1>3. PICK new \in Socket : new = [s_sockets[i] EXCEPT !.id = 0]
  <2>1. s_sockets[i] \in Socket BY DEF UdpTypes
  <2>2. 0 \in 0 .. MaxSockets BY UdpAssumption
  <2> QED BY <2>1, <2>2 DEF Socket
<1>4. s_sockets' = [s_sockets EXCEPT ![i] = new] BY <1>2, <1>3 DEF SYS_SOCKET_CLOSE
<1>5. new.id = 0 /\ new.receiver = NoTask /\ new.packets = s_sockets[i].packets
  <2>1. s_sockets[i] \in Socket BY DEF UdpTypes
  <2> QED BY <1>2, <1>3, <2>1 DEF Socket
<1>6. /\ s_sockets' \in [Slot -> Socket] /\ IdInv' /\ WaitInv' /\ ReceiverInv'
      /\ s_sockets'[i] = new /\ \A j \in Slot : j # i => s_sockets'[j] = s_sockets[j]
  BY <1>1, <1>2, <1>4, <1>5, OwnStep
<1>7. UdpTypes' BY <1>1, <1>6 DEF UdpTypes
<1>8. QueuesInv'
  <2>1. \A j \in Slot : s_sockets'[j].packets = s_sockets[j].packets BY <1>5, <1>6
  <2> QED BY <1>1, <2>1 DEF QueuesInv, QueueOK
<1>9. PortsExclusive' BY <1>5, <1>6 DEF PortsExclusive
<1> QED BY <1>6, <1>7, <1>8, <1>9

(* Taking the oldest packet of a ring leaves the newer ones in order.      *)
LEMMA QueueTake ==
  ASSUME NEW q \in Seq(1 .. MaxDatagrams), q # <<>>, NEW last, NEW newest, QueueOK(q, last, newest)
  PROVE  /\ Head(q) \in 1 .. MaxDatagrams /\ Tail(q) \in Seq(1 .. MaxDatagrams)
         /\ QueueOK(Tail(q), Head(q), newest)
<1>1. /\ Len(q) \in Nat /\ Len(q) >= 1 /\ Head(q) = q[1] /\ Tail(q) \in Seq(1 .. MaxDatagrams) /\ Len(Tail(q)) = Len(q) - 1
      /\ \A k \in 1 .. Len(q) - 1 : Tail(q)[k] = q[k + 1]
  OBVIOUS
<1>2. 1 \in 1 .. Len(q) /\ \A k \in 1 .. Len(q) - 1 : k + 1 \in 1 .. Len(q) /\ 1 < k + 1 BY <1>1
<1>3. q[1] \in 1 .. MaxDatagrams BY <1>2, ElementOfSeq
<1>4. \A k \in 1 .. Len(q) : q[k] \in Nat BY UdpAssumption
<1>5. QueueOK(Tail(q), Head(q), newest)
  <2>1. Len(Tail(q)) < SOCKET_QUEUE_SIZE BY <1>1, UdpAssumption DEF QueueOK
  <2>2. Head(q) <= newest BY <1>1, <1>2 DEF QueueOK
  <2>3. \A k \in 1 .. Len(q) - 1 : q[k + 1] > q[1] /\ q[k + 1] <= newest BY <1>2, <1>3, <1>4 DEF QueueOK
  <2>4. \A j, k \in 1 .. Len(q) - 1 : j < k => q[j + 1] < q[k + 1] BY <1>2 DEF QueueOK
  <2>5. \A k \in 1 .. Len(Tail(q)) : Tail(q)[k] > Head(q) /\ Tail(q)[k] <= newest BY <1>1, <2>3
  <2>6. \A j, k \in 1 .. Len(Tail(q)) : j < k => Tail(q)[j] < Tail(q)[k] BY <1>1, <2>4
  <2> QED BY <2>1, <2>2, <2>5, <2>6 DEF QueueOK
<1> QED BY <1>1, <1>3, <1>5

\* udp_receive of socket i, which no other task waits at.
LEMMA ReceiveStep ==
  ASSUME UdpInv, NEW i \in Slot, Receive(i), s_sockets[i].receiver = NoTask,
         pc' \in [Task -> [at: {"user", "receive"}, id: Nat]], Undisturbed(i),
         UNCHANGED <<g_next_socket_id, state, handles, arrived>>
  PROVE  UdpInv'
<1> USE DEF UdpInv
<1>1. PICK q \in Seq(1 .. MaxDatagrams) : q = s_sockets[i].packets /\ q # <<>> BY DEF UdpTypes, Socket, Receive
<1>2. PICK T \in Seq(1 .. MaxDatagrams), n \in 1 .. MaxDatagrams :
        T = Tail(q) /\ n = Head(q) /\ QueueOK(T, n, arrived)
  <2>1. QueueOK(q, taken[i], arrived) BY <1>1 DEF QueuesInv
  <2> QED BY <1>1, <2>1, QueueTake
<1>3. s_sockets[i] \in Socket BY DEF UdpTypes
<1>4. PICK new \in Socket : new = [s_sockets[i] EXCEPT !.packets = T] BY <1>3 DEF Socket
<1>5. s_sockets' = [s_sockets EXCEPT ![i] = new] /\ taken' = [taken EXCEPT ![i] = n]
  <2>1. s_sockets' = [s_sockets EXCEPT ![i].packets = Tail(s_sockets[i].packets)] /\ taken' = [taken EXCEPT ![i] = Head(s_sockets[i].packets)]
    BY DEF Receive, socket_queue_read
  <2> QED BY <1>1, <1>2, <1>4, <2>1
<1>6. /\ new.id = s_sockets[i].id /\ new.local_port = s_sockets[i].local_port /\ new.receiver = NoTask
      /\ new.packets = T
  BY <1>3, <1>4 DEF Socket
<1>7. /\ s_sockets' \in [Slot -> Socket] /\ IdInv' /\ WaitInv' /\ ReceiverInv'
      /\ s_sockets'[i] = new /\ \A j \in Slot : j # i => s_sockets'[j] = s_sockets[j]
  BY <1>5, <1>6, OwnStep DEF Undisturbed
<1>8. taken' \in [Slot -> 0 .. MaxDatagrams] /\ taken'[i] = n /\ \A j \in Slot : j # i => taken'[j] = taken[j]
  BY <1>5 DEF UdpTypes
<1>9. UdpTypes' BY <1>7, <1>8 DEF UdpTypes
<1>10. QueuesInv'
  <2> SUFFICES ASSUME NEW j \in Slot PROVE QueueOK(s_sockets'[j].packets, taken'[j], arrived)
    BY DEF QueuesInv, QueueOK
  <2>1. CASE j = i BY <1>2, <1>6, <1>7, <1>8, <2>1
  <2>2. CASE j # i BY <1>7, <1>8, <2>2 DEF QueuesInv
  <2> QED BY <2>1, <2>2
<1>11. PortsExclusive'
  <2>1. \A j \in Slot : s_sockets'[j].id = s_sockets[j].id /\ s_sockets'[j].local_port = s_sockets[j].local_port
    BY <1>6, <1>7
  <2> QED BY <2>1 DEF PortsExclusive
<1> QED BY <1>7, <1>9, <1>10, <1>11

(* SYS_SOCKET_RECEIVE that finds a packet takes the oldest.                *)
LEMMA UdpReceive ==
  ASSUME UdpInv, NEW t \in Task, NEW id \in handles[t], SYS_SOCKET_RECEIVE(t, id) PROVE UdpInv'
<1>1. /\ InUser(t) /\ get_socket(id) # {} /\ Receive(FirstOf(get_socket(id)))
      /\ UNCHANGED <<g_next_socket_id, state, pc, handles, arrived>>
  BY DEF SYS_SOCKET_RECEIVE
<1>2. PICK i \in Slot : /\ i = FirstOf(get_socket(id)) /\ s_sockets[i].receiver = NoTask
                        /\ \A u \in Task : ~(pc[u].at = "receive" /\ WaitsAt(u, i))
  BY <1>1, OwnSocket
<1>3. pc' \in [Task -> [at: {"user", "receive"}, id: Nat]] BY <1>1 DEF UdpInv, UdpTypes
<1>4. Undisturbed(i) BY <1>1, <1>2 DEF Undisturbed
<1> QED BY <1>1, <1>2, <1>3, <1>4, ReceiveStep

(* A receiver that was woken takes the oldest packet.                      *)
LEMMA UdpReceiveResume ==
  ASSUME UdpInv, NEW t \in Task, SYS_SOCKET_RECEIVE_resume(t) PROVE UdpInv'
<1> USE DEF UdpInv
<1>1. /\ state[t] = "ready" /\ pc[t].at = "receive" /\ pc' = [pc EXCEPT ![t] = User]
      /\ UNCHANGED <<g_next_socket_id, state, handles, arrived>>
  BY DEF SYS_SOCKET_RECEIVE_resume
<1>2. PICK id : id = pc[t].id /\ id \in handles[t] /\ id # 0 BY <1>1 DEF WaitInv, UdpTypes
<1>3. PICK i \in Slot : s_sockets[i].id = id /\ s_sockets[i].packets # <<>>
  BY <1>1, <1>2 DEF WaitInv, WaitsAt
<1>4. i = FirstOf(get_socket(id))
  <2>1. get_socket(id) # {} BY <1>3 DEF get_socket
  <2>2. FirstOf(get_socket(id)) \in get_socket(id) BY <2>1, FirstSlot DEF get_socket
  <2> QED BY <1>2, <1>3, <2>2 DEF get_socket, IdInv
<1>5. Receive(i)
  <2>1. i \in get_socket(id) BY <1>3 DEF get_socket
  <2> QED BY <1>2, <1>3, <1>4, <2>1 DEF SYS_SOCKET_RECEIVE_resume
<1>6. ASSUME NEW u \in Task, pc[u].at = "receive", pc[u].id = id PROVE u = t
  <2>1. id \in handles[u] BY <1>6 DEF WaitInv
  <2> QED BY <1>2, <2>1 DEF IdInv
<1>7. s_sockets[i].receiver = NoTask
  <2>1. s_sockets[i].receiver \in Task \cup {NoTask} BY DEF UdpTypes, Socket
  <2> QED BY <1>1, <1>3, <1>6, <2>1 DEF ReceiverInv
<1>8. User \in [at: {"user", "receive"}, id: Nat] /\ User.at = "user" BY DEF User
<1>9. pc' \in [Task -> [at: {"user", "receive"}, id: Nat]] /\ \A u \in Task : pc'[u] = IF u = t THEN User ELSE pc[u]
  BY <1>1, <1>8 DEF UdpTypes
<1>10. Undisturbed(i) BY <1>1, <1>3, <1>6, <1>8, <1>9 DEF WaitsAt, Undisturbed
<1>11. pc' \in [Task -> [at: {"user", "receive"}, id: Nat]] BY <1>9
<1>12. UNCHANGED <<g_next_socket_id, state, handles, arrived>> BY <1>1
<1> HIDE DEF UdpInv
<1> QED BY <1>5, <1>7, <1>10, <1>11, <1>12, ReceiveStep

(* SYS_SOCKET_RECEIVE without a packet and without another receiver        *)
(* registers the task and blocks it.                                       *)
LEMMA UdpReceiveBlock ==
  ASSUME UdpInv, NEW t \in Task, NEW id \in handles[t], SYS_SOCKET_RECEIVE_block(t, id) PROVE UdpInv'
<1> USE DEF UdpInv
<1>1. /\ InUser(t) /\ get_socket(id) # {} /\ state' = [state EXCEPT ![t] = "blocked"]
      /\ pc' = [pc EXCEPT ![t] = [at |-> "receive", id |-> id]]
      /\ UNCHANGED <<g_next_socket_id, handles, arrived, taken>>
  BY DEF SYS_SOCKET_RECEIVE_block
<1>2. PICK i \in Slot : /\ i = FirstOf(get_socket(id)) /\ s_sockets[i].receiver = NoTask
                        /\ s_sockets[i].id = id /\ id \in Nat
                        /\ \A u \in Task : ~(pc[u].at = "receive" /\ WaitsAt(u, i))
  BY <1>1, OwnSocket
<1>3. s_sockets[i] \in Socket BY DEF UdpTypes
<1>4. PICK new \in Socket : new = [s_sockets[i] EXCEPT !.receiver = t] BY <1>3 DEF Socket
<1>5. s_sockets' = [s_sockets EXCEPT ![i] = new] /\ s_sockets[i].packets = <<>>
  BY <1>2, <1>4 DEF SYS_SOCKET_RECEIVE_block
<1>6. /\ new.id = id /\ new.local_port = s_sockets[i].local_port /\ new.receiver = t
      /\ new.packets = <<>> /\ new.packets = s_sockets[i].packets
  BY <1>2, <1>3, <1>4, <1>5 DEF Socket
<1>7. /\ s_sockets' \in [Slot -> Socket] /\ s_sockets'[i] = new
      /\ \A j \in Slot : j # i => s_sockets'[j] = s_sockets[j]
  BY <1>5 DEF UdpTypes
<1>8. /\ state' \in [Task -> {"ready", "blocked", "dead"}] /\ state'[t] = "blocked"
      /\ \A u \in Task : u # t => state'[u] = state[u] /\ pc'[u] = pc[u]
      /\ pc' \in [Task -> [at: {"user", "receive"}, id: Nat]] /\ pc'[t].at = "receive" /\ pc'[t].id = id
  BY <1>1, <1>2 DEF UdpTypes
<1>9. UdpTypes' BY <1>1, <1>7, <1>8 DEF UdpTypes
<1>10. \A j \in Slot : /\ s_sockets'[j].packets = s_sockets[j].packets /\ s_sockets'[j].id = s_sockets[j].id
                       /\ s_sockets'[j].local_port = s_sockets[j].local_port
  BY <1>2, <1>6, <1>7
<1>11. QueuesInv' BY <1>1, <1>10 DEF QueuesInv, QueueOK
<1>12. PortsExclusive' BY <1>10 DEF PortsExclusive
<1>13. IdInv' BY <1>1, <1>10 DEF IdInv
<1>14. WaitInv'
  <2> SUFFICES ASSUME NEW u \in Task, pc'[u].at = "receive"
               PROVE  pc'[u].id \in handles[u] /\ \E j \in Slot : WaitsAt(u, j)'
    BY <1>1 DEF WaitInv
  <2>1. CASE u = t
    <3>1. WaitsAt(t, i)' BY <1>6, <1>7, <1>8 DEF WaitsAt
    <3> QED BY <1>8, <2>1, <3>1
  <2>2. CASE u # t
    <3>1. PICK j \in Slot : WaitsAt(u, j) /\ pc[u].id \in handles[u] BY <1>8, <2>2 DEF WaitInv
    <3>2. j # i BY <1>2, <1>8, <2>2, <3>1
    <3>3. WaitsAt(u, j)' BY <1>7, <1>8, <2>2, <3>1, <3>2 DEF WaitsAt
    <3> QED BY <1>8, <2>2, <3>1, <3>3
  <2> QED BY <2>1, <2>2
<1>15. ReceiverInv'
  <2> SUFFICES ASSUME NEW j \in Slot, s_sockets'[j].receiver # NoTask
               PROVE  /\ pc'[s_sockets'[j].receiver].at = "receive"
                      /\ pc'[s_sockets'[j].receiver].id = s_sockets'[j].id
                      /\ state'[s_sockets'[j].receiver] # "ready"
    BY DEF ReceiverInv
  <2>1. CASE j = i BY <1>6, <1>7, <1>8, <2>1
  <2>2. CASE j # i
    <3>1. s_sockets'[j] = s_sockets[j] BY <1>7, <2>2
    <3>2. s_sockets[j].receiver \in Task /\ state[s_sockets[j].receiver] # "ready"
      BY <3>1 DEF UdpTypes, Socket, ReceiverInv
    <3>3. s_sockets[j].receiver # t BY <1>1, <3>2 DEF InUser
    <3> QED BY <1>8, <3>1, <3>2, <3>3 DEF ReceiverInv
  <2> QED BY <2>1, <2>2
<1> QED BY <1>9, <1>11, <1>12, <1>13, <1>14, <1>15

(* A packet newer than all others goes to the end of a ring that has a     *)
(* place, and the ring stays in order.                                     *)
LEMMA QueueAppend ==
  ASSUME NEW q \in Seq(1 .. MaxDatagrams), NEW last \in Nat, NEW n \in Nat, n < MaxDatagrams, QueueOK(q, last, n)
  PROVE  /\ QueueOK(q, last, n + 1)
         /\ Len(q) # SOCKET_QUEUE_SIZE - 1 =>
              Append(q, n + 1) \in Seq(1 .. MaxDatagrams) /\ QueueOK(Append(q, n + 1), last, n + 1)
<1>1. Len(q) \in Nat /\ \A k \in 1 .. Len(q) : q[k] \in Nat BY UdpAssumption
<1>2. QueueOK(q, last, n + 1) BY <1>1 DEF QueueOK
<1>3. ASSUME Len(q) # SOCKET_QUEUE_SIZE - 1
      PROVE  Append(q, n + 1) \in Seq(1 .. MaxDatagrams) /\ QueueOK(Append(q, n + 1), last, n + 1)
  <2>1. PICK a : a = Append(q, n + 1) OBVIOUS
  <2>2. n + 1 \in 1 .. MaxDatagrams BY UdpAssumption
  <2>3. /\ a \in Seq(1 .. MaxDatagrams) /\ Len(a) = Len(q) + 1 /\ a[Len(q) + 1] = n + 1
        /\ \A k \in 1 .. Len(q) : a[k] = q[k]
    BY <2>1, <2>2, AppendProperties
  <2>4. Len(a) < SOCKET_QUEUE_SIZE BY <1>1, <1>3, <2>3, UdpAssumption DEF QueueOK
  <2>5. ASSUME NEW k \in 1 .. Len(a) PROVE a[k] > last /\ a[k] <= n + 1
    <3>1. CASE k = Len(q) + 1 BY <2>3, <3>1 DEF QueueOK
    <3>2. CASE k \in 1 .. Len(q) BY <1>2, <2>3, <3>2 DEF QueueOK
    <3> QED BY <1>1, <2>3, <3>1, <3>2
  <2>6. ASSUME NEW j \in 1 .. Len(a), NEW k \in 1 .. Len(a), j < k PROVE a[j] < a[k]
    <3>1. j \in 1 .. Len(q) BY <1>1, <2>3, <2>6
    <3>2. CASE k = Len(q) + 1 BY <1>1, <2>3, <3>1, <3>2 DEF QueueOK
    <3>3. CASE k \in 1 .. Len(q) BY <2>3, <2>6, <3>1, <3>3 DEF QueueOK
    <3> QED BY <1>1, <2>3, <3>2, <3>3
  <2> QED BY <2>1, <2>3, <2>4, <2>5, <2>6 DEF QueueOK
<1> QED BY <1>2, <1>3

(* udp_on_data gives a packet to the socket of its port and wakes the      *)
(* receiver there, for whom there is a packet then; no other socket        *)
(* notices.                                                                *)
LEMMA UdpOnData ==
  ASSUME UdpInv, NEW pt \in Port \cup {0}, udp_on_data(pt) PROVE UdpInv'
<1> USE DEF UdpInv
<1>1. /\ arrived < MaxDatagrams /\ arrived' = arrived + 1 /\ get_socket_for_port(pt) # {}
      /\ UNCHANGED <<g_next_socket_id, pc, handles, taken>>
  BY DEF udp_on_data
<1>2. PICK i \in Slot : i = FirstOf(get_socket_for_port(pt))
  <2>1. FirstOf(get_socket_for_port(pt)) \in get_socket_for_port(pt)
    BY <1>1, FirstSlot DEF get_socket_for_port
  <2> QED BY <2>1 DEF get_socket_for_port
<1>3. PICK q \in Seq(1 .. MaxDatagrams) : q = s_sockets[i].packets BY DEF UdpTypes, Socket
<1>4. PICK r : r = s_sockets[i].receiver OBVIOUS
<1>5. PICK n \in Nat : n = arrived /\ n < MaxDatagrams BY <1>1 DEF UdpTypes
<1>6. PICK Q \in Seq(1 .. MaxDatagrams) :
        Q = (IF queue_full(i) THEN q ELSE Append(q, n + 1)) /\ QueueOK(Q, taken[i], n + 1) /\ Q # <<>>
  <2>1. QueueOK(q, taken[i], n) /\ taken[i] \in Nat BY <1>3, <1>5 DEF QueuesInv, UdpTypes
  <2>2. /\ QueueOK(q, taken[i], n + 1)
        /\ Len(q) # SOCKET_QUEUE_SIZE - 1 =>
             Append(q, n + 1) \in Seq(1 .. MaxDatagrams) /\ QueueOK(Append(q, n + 1), taken[i], n + 1)
    BY <1>5, <2>1, QueueAppend
  <2>3. CASE queue_full(i)
    <3>1. Len(q) = SOCKET_QUEUE_SIZE - 1 BY <1>3, <2>3 DEF queue_full
    <3>2. q # <<>> BY <3>1, UdpAssumption
    <3> QED BY <2>2, <2>3, <3>2
  <2>4. CASE ~queue_full(i)
    <3>1. Len(q) # SOCKET_QUEUE_SIZE - 1 BY <1>3, <2>4 DEF queue_full
    <3>2. Append(q, n + 1) # <<>> OBVIOUS
    <3> QED BY <2>2, <2>4, <3>1, <3>2
  <2> QED BY <2>3, <2>4
<1>7. s_sockets[i] \in Socket BY DEF UdpTypes
<1>8. PICK new \in Socket : new = [s_sockets[i] EXCEPT !.packets = Q, !.receiver = NoTask] BY <1>7 DEF Socket
<1>9. /\ s_sockets' = [s_sockets EXCEPT ![i] = new]
      /\ state' = [t \in Task |-> IF t = r /\ state[t] = "blocked" THEN "ready" ELSE state[t]]
  <2>1. s_sockets' = [s_sockets EXCEPT ![i].packets = IF queue_full(i) THEN s_sockets[i].packets
                                                      ELSE Append(s_sockets[i].packets, arrived + 1),
                                       ![i].receiver = NoTask]
    BY <1>2 DEF udp_on_data
  <2>2. s_sockets' = [s_sockets EXCEPT ![i].packets = Q, ![i].receiver = NoTask] BY <1>3, <1>5, <1>6, <2>1
  <2>3. state' = [t \in Task |-> IF t = r /\ state[t] = "blocked" THEN "ready" ELSE state[t]]
    BY <1>2, <1>4 DEF udp_on_data, udp_wakes
  <2> QED BY <1>8, <2>2, <2>3
<1>10. /\ new.id = s_sockets[i].id /\ new.local_port = s_sockets[i].local_port /\ new.receiver = NoTask
       /\ new.packets = Q
  BY <1>7, <1>8 DEF Socket
<1>11. /\ s_sockets' \in [Slot -> Socket] /\ s_sockets'[i] = new
       /\ \A j \in Slot : j # i => s_sockets'[j] = s_sockets[j]
  BY <1>9 DEF UdpTypes
<1>12. /\ state' \in [Task -> {"ready", "blocked", "dead"}]
       /\ \A u \in Task : u # r => state'[u] = state[u]
       /\ \A u \in Task : /\ state'[u] = "blocked" => state[u] = "blocked" /\ u # r
                          /\ state'[u] = "ready" => state[u] = "ready" \/ (u = r /\ state[u] = "blocked")
  BY <1>9 DEF UdpTypes
<1>13. UdpTypes'
  <2>1. arrived' \in 0 .. MaxDatagrams BY <1>1, UdpAssumption DEF UdpTypes
  <2> QED BY <1>1, <1>11, <1>12, <2>1 DEF UdpTypes
<1>14. QueuesInv'
  <2> SUFFICES ASSUME NEW j \in Slot PROVE QueueOK(s_sockets'[j].packets, taken[j], n + 1)
    BY <1>1, <1>5 DEF QueuesInv, QueueOK
  <2>1. CASE j = i BY <1>6, <1>10, <1>11, <2>1
  <2>2. CASE j # i
    <3>1. PICK p \in Seq(1 .. MaxDatagrams) : p = s_sockets[j].packets BY DEF UdpTypes, Socket
    <3>2. QueueOK(p, taken[j], n) /\ taken[j] \in Nat BY <1>5, <3>1 DEF QueuesInv, UdpTypes
    <3>3. QueueOK(p, taken[j], n + 1) BY <1>5, <3>2, QueueAppend
    <3> QED BY <1>11, <2>2, <3>1, <3>3
  <2> QED BY <2>1, <2>2
<1>15. \A j \in Slot : s_sockets'[j].id = s_sockets[j].id /\ s_sockets'[j].local_port = s_sockets[j].local_port
  BY <1>10, <1>11
<1>16. PortsExclusive' BY <1>15 DEF PortsExclusive
<1>17. IdInv' BY <1>1, <1>15 DEF IdInv
<1>18. WaitInv'
  <2> SUFFICES ASSUME NEW u \in Task, pc[u].at = "receive"
               PROVE  pc[u].id \in handles[u] /\ \E j \in Slot : WaitsAt(u, j)'
    BY <1>1 DEF WaitInv
  <2>1. PICK j \in Slot : WaitsAt(u, j) /\ pc[u].id \in handles[u] BY DEF WaitInv
  <2>2. CASE j = i
    <3>1. state'[u] # "blocked" BY <1>4, <1>12, <2>1, <2>2 DEF WaitsAt
    <3>2. WaitsAt(u, i)' BY <1>1, <1>6, <1>10, <1>11, <2>1, <2>2, <3>1 DEF WaitsAt
    <3> QED BY <2>1, <3>2
  <2>3. CASE j # i
    <3>1. u = r /\ state[u] = "blocked" => FALSE
      <4> SUFFICES ASSUME u = r, state[u] = "blocked" PROVE FALSE OBVIOUS
      <4>1. pc[u].id = s_sockets[i].id /\ pc[u].id = s_sockets[j].id
        BY <1>4, <2>1, UdpAssumption DEF ReceiverInv, WaitsAt
      <4>2. pc[u].id # 0 BY <2>1 DEF UdpTypes
      <4> QED BY <2>3, <4>1, <4>2 DEF IdInv
    <3>2. WaitsAt(u, j)' BY <1>1, <1>11, <1>12, <2>1, <2>3, <3>1 DEF WaitsAt
    <3> QED BY <2>1, <3>2
  <2> QED BY <2>2, <2>3
<1>19. ReceiverInv'
  <2> SUFFICES ASSUME NEW j \in Slot, s_sockets'[j].receiver # NoTask
               PROVE  /\ pc[s_sockets'[j].receiver].at = "receive"
                      /\ pc[s_sockets'[j].receiver].id = s_sockets'[j].id
                      /\ state'[s_sockets'[j].receiver] # "ready"
    BY <1>1 DEF ReceiverInv
  <2>1. j # i /\ s_sockets'[j] = s_sockets[j] BY <1>10, <1>11
  <2>2. PICK u \in Task : u = s_sockets[j].receiver BY <2>1 DEF UdpTypes, Socket
  <2>3. pc[u].at = "receive" /\ pc[u].id = s_sockets[j].id /\ state[u] # "ready" BY <2>1, <2>2 DEF ReceiverInv
  <2>4. u # r
    <3> SUFFICES ASSUME u = r PROVE FALSE OBVIOUS
    <3>1. pc[u].id = s_sockets[i].id BY <1>4, <2>1, <2>2 DEF ReceiverInv
    <3>2. pc[u].id # 0 BY <2>3 DEF WaitInv, UdpTypes
    <3> QED BY <2>1, <2>3, <3>1, <3>2 DEF IdInv
  <2> QED BY <1>12, <2>1, <2>2, <2>3, <2>4
<1> QED BY <1>13, <1>14, <1>16, <1>17, <1>18, <1>19

(* A killed task waits nowhere.                                            *)
LEMMA UdpKill == ASSUME UdpInv, NEW t \in Task, Kill(t) PROVE UdpInv'
<1> USE DEF UdpInv
<1>1. /\ state' \in [Task -> {"ready", "blocked", "dead"}]
      /\ \A u \in Task : /\ state'[u] = "blocked" => state[u] = "blocked"
                         /\ state'[u] = "ready" => state[u] = "ready"
      /\ UNCHANGED <<s_sockets, g_next_socket_id, pc, handles, arrived, taken>>
  BY DEF Kill, UdpTypes
<1>2. UdpTypes' BY <1>1 DEF UdpTypes
<1>3. QueuesInv' /\ PortsExclusive' /\ IdInv' BY <1>1 DEF QueuesInv, QueueOK, PortsExclusive, IdInv
<1>4. WaitInv'
  <2>1. \A u \in Task, i \in Slot : WaitsAt(u, i) => WaitsAt(u, i)' BY <1>1 DEF WaitsAt
  <2> QED BY <1>1, <2>1 DEF WaitInv
<1>5. ReceiverInv'
  <2>1. \A i \in Slot : s_sockets[i].receiver # NoTask => s_sockets[i].receiver \in Task BY DEF UdpTypes, Socket
  <2> QED BY <1>1, <2>1 DEF ReceiverInv
<1> QED BY <1>2, <1>3, <1>4, <1>5

(* Every step of the sockets keeps the invariant.                          *)
LEMMA UdpNextInv == ASSUME UdpInv, [UdpNext]_udpVars PROVE UdpInv'
<1>1. CASE UNCHANGED udpVars
  BY <1>1 DEF udpVars, UdpInv, UdpTypes, QueuesInv, QueueOK, PortsExclusive, IdInv, WaitInv, WaitsAt, ReceiverInv
<1>2. ASSUME NEW t \in Task, SYS_SOCKET(t) \/ SYS_SOCKET_RECEIVE_resume(t) \/ Kill(t) PROVE UdpInv'
  BY <1>2, UdpSocket, UdpReceiveResume, UdpKill
<1>3. ASSUME NEW t \in Task, NEW id \in handles[t],
             \/ SYS_SOCKET_CONNECT(t, id) \/ SYS_SOCKET_CLOSE(t, id)
             \/ SYS_SOCKET_RECEIVE(t, id) \/ SYS_SOCKET_RECEIVE_block(t, id)
      PROVE  UdpInv'
  BY <1>3, UdpConnect, UdpClose, UdpReceive, UdpReceiveBlock
<1>4. ASSUME NEW t \in Task, NEW id \in handles[t], NEW pt \in Port \cup {0}, SYS_SOCKET_BIND(t, id, pt)
      PROVE  UdpInv'
  BY <1>4, UdpBind
<1>5. ASSUME NEW pt \in Port \cup {0}, udp_on_data(pt) PROVE UdpInv' BY <1>5, UdpOnData
<1> QED BY <1>1, <1>2, <1>3, <1>4, <1>5 DEF UdpNext

(* The invariant holds in every state.                                     *)
LEMMA UdpAlwaysInv == UdpSpec => []UdpInv
BY UdpInitInv, UdpNextInv, PTL DEF UdpSpec

(* For every number of sockets and tasks: no two open sockets are bound to *)
(* one port (port_taken in SYS_SOCKET_BIND), whatever is opened, bound and *)
(* closed.                                                                 *)
THEOREM SocketPortsExclusive == UdpSpec => []PortsExclusive
<1>1. UdpInv => PortsExclusive BY DEF UdpInv
<1> QED BY <1>1, UdpAlwaysInv, PTL

(* No receiver is forgotten: a task blocked in SYS_SOCKET_RECEIVE is the   *)
(* receiver of its socket and no packet waits there, and when udp_on_data  *)
(* has woken it there is one. It needs a ring of at least two places       *)
(* (SOCKET_QUEUE_SIZE is 8): a ring of one place holds nothing.            *)
THEOREM SocketReceiversWoken == UdpSpec => []SocketReceiverNotForgotten
<1>1. UdpInv => SocketReceiverNotForgotten
  BY DEF UdpInv, WaitInv, WaitsAt, SocketReceiverNotForgotten, get_socket
<1> QED BY <1>1, UdpAlwaysInv, PTL

(* The packets of a socket are read once and in the order they arrived in, *)
(* also when a slot is used again, and the ring never fills to its last    *)
(* place.                                                                  *)
THEOREM SocketPacketsInOrder == UdpSpec => []PacketsInOrder
<1>1. ASSUME UdpInv PROVE PacketsInOrder
  <2>1. UdpTypeOK BY <1>1 DEF UdpInv, UdpTypes, UdpTypeOK, QueuesInv, QueueOK, Socket
  <2>2. ASSUME NEW i \in Slot
        PROVE  /\ \A k \in 1 .. Len(s_sockets[i].packets) : s_sockets[i].packets[k] > taken[i]
               /\ \A k \in 1 .. Len(s_sockets[i].packets) - 1 :
                    s_sockets[i].packets[k] < s_sockets[i].packets[k + 1]
    <3>1. PICK q \in Seq(1 .. MaxDatagrams) : q = s_sockets[i].packets BY <1>1 DEF UdpInv, UdpTypes, Socket
    <3>2. QueueOK(q, taken[i], arrived) BY <1>1, <3>1 DEF UdpInv, QueuesInv
    <3>3. Len(q) \in Nat /\ \A k \in 1 .. Len(q) - 1 : k \in 1 .. Len(q) /\ k + 1 \in 1 .. Len(q) /\ k < k + 1
      OBVIOUS
    <3> QED BY <3>1, <3>2, <3>3 DEF QueueOK
  <2> QED BY <2>1, <2>2 DEF PacketsInOrder
<1> QED BY <1>1, UdpAlwaysInv, PTL

-----------------------------------------------------------------------------
(* Routes and packets.                                                     *)

\* The networks routes are made for.
RouteTarget == {0, Broadcast} \cup {Base(a, m) : a \in Addr, m \in 0 .. Width}
\* A route of the table.
RouteType == [destination: RouteTarget, netmask: Nat, gateway: Addr, nic: Nic, metric: Nat]

\* Types of the routing table and of the Ethernet card.
NetTypes ==
  /\ s_routing_table \in Seq(RouteType)
  /\ Len(s_routing_table) <= ROUTING_TABLE_MAX_ENTREIS
  /\ eth \in [addr: Addr, netmask: 0 .. Width]

\* The routes of the table up to the k-th that match.
Match(T, k, dst, only) ==
  {j \in 1 .. k : only \in {NoNic, T[j].nic} /\ Matches(T[j], dst)}

\* b is what the loop must have found after k routes.
BestOf(b, T, k, dst, only) ==
  /\ b = NoRoute <=> Match(T, k, dst, only) = {}
  /\ b \notin {NoRoute, Fault} =>
       \E j \in Match(T, k, dst, only) : b = T[j] /\ \A i \in Match(T, k, dst, only) :
         T[i].netmask < b.netmask \/ (T[i].netmask = b.netmask /\ T[i].metric >= b.metric)

(* The fault is not mistaken for the null route.                           *)
LEMMA FaultIsNoRoute == Fault # NoRoute
<1>1. Fault.nic = "fault" /\ NoRoute.nic = NoNic BY DEF Fault, NoRoute, Route
<1> QED BY <1>1, NetAssumption

(* One turn of the loop of find_best_route: when best is the best of the   *)
(* first k routes, it is the best of the first k + 1 afterwards.           *)
LEMMA BestStep ==
  ASSUME NEW T \in Seq(RouteType), NEW dst, NEW only, NEW k \in 0 .. Len(T) - 1, NEW b,
         BestOf(b, T, k, dst, only)
  PROVE  BestOf(next_best(b, T[k + 1], dst, only), T, k + 1, dst, only)
<1> DEFINE r == T[k + 1]
           M == Match(T, k, dst, only)
           N == Match(T, k + 1, dst, only)
           c == next_best(b, r, dst, only)
<1>1. k + 1 \in 1 .. Len(T) /\ 1 .. k + 1 = (1 .. k) \cup {k + 1} /\ k + 1 \notin 1 .. k
  BY LenProperties
<1>2. r \in RouteType BY <1>1, ElementOfSeq
<1>3. r # NoRoute
  <2>1. r.nic \in Nic /\ NoRoute.nic = NoNic BY <1>2 DEF RouteType, NoRoute, Route
  <2> QED BY <2>1, NetAssumption
<1>4. CASE only \notin {NoNic, r.nic} \/ ~Matches(r, dst)
  <2>1. N = M BY <1>1, <1>4 DEF Match
  <2>2. c = b BY <1>4 DEF next_best
  <2> QED BY <2>1, <2>2 DEF BestOf
<1>5. CASE only \in {NoNic, r.nic} /\ Matches(r, dst)
  <2>1. N = M \cup {k + 1} BY <1>1, <1>5 DEF Match
  <2>2. N # {} BY <2>1
  <2>3. CASE b = Fault
    <3>1. c = Fault BY <2>3 DEF next_best
    <3> QED BY <3>1, <2>2, FaultIsNoRoute DEF BestOf
  <2>4. CASE b = NoRoute
    <3>1. M = {} BY <2>4 DEF BestOf
    <3>2. c = Fault \/ c = r BY <2>4, <1>5, FaultIsNoRoute DEF next_best
    <3>3. CASE c = Fault BY <3>3, <2>2, FaultIsNoRoute DEF BestOf
    <3>4. CASE c = r
      <4>1. r.netmask \in Nat /\ r.metric \in Nat BY <1>2 DEF RouteType
      <4>2. N = {k + 1} BY <2>1, <3>1
      <4>3. \A i \in N : T[i] = r BY <4>2
      <4>4. k + 1 \in N /\ r = T[k + 1] BY <4>2
      <4> QED BY <1>3, <2>2, <3>4, <4>1, <4>3, <4>4 DEF BestOf
    <3> QED BY <3>2, <3>3, <3>4
  <2>5. CASE b \notin {NoRoute, Fault}
    <3>1. PICK j \in M : b = T[j] /\ \A i \in M :
            T[i].netmask < b.netmask \/ (T[i].netmask = b.netmask /\ T[i].metric >= b.metric)
      BY <2>5 DEF BestOf
    <3>2. j \in 1 .. Len(T) /\ \A i \in M : i \in 1 .. Len(T) BY <1>1, LenProperties DEF Match
    <3>3. b \in RouteType /\ \A i \in M : T[i] \in RouteType BY <3>1, <3>2, ElementOfSeq
    <3>4. /\ b.netmask \in Nat /\ b.metric \in Nat /\ r.netmask \in Nat /\ r.metric \in Nat
          /\ \A i \in M : T[i].netmask \in Nat /\ T[i].metric \in Nat
      BY <1>2, <3>3 DEF RouteType
    <3>5. CASE better(r, b)
      <4>1. c = r BY <1>5, <2>5, <3>5 DEF next_best
      <4>2. \A i \in M :
              T[i].netmask < r.netmask \/ (T[i].netmask = r.netmask /\ T[i].metric >= r.metric)
        BY <3>1, <3>4, <3>5 DEF better
      <4>3. \A i \in N :
              T[i].netmask < r.netmask \/ (T[i].netmask = r.netmask /\ T[i].metric >= r.metric)
        BY <2>1, <3>4, <4>2
      <4>4. k + 1 \in N /\ r = T[k + 1] BY <2>1
      <4> QED BY <1>3, <2>2, <4>1, <4>3, <4>4 DEF BestOf
    <3>6. CASE ~better(r, b)
      <4>1. c = b BY <1>5, <2>5, <3>6 DEF next_best
      <4>2. r.netmask < b.netmask \/ (r.netmask = b.netmask /\ r.metric >= b.metric)
        BY <3>4, <3>6 DEF better
      <4>3. \A i \in N :
              T[i].netmask < b.netmask \/ (T[i].netmask = b.netmask /\ T[i].metric >= b.metric)
        BY <2>1, <3>1, <4>2
      <4>4. j \in N BY <2>1
      <4> QED BY <2>2, <2>5, <3>1, <4>1, <4>3, <4>4 DEF BestOf
    <3> QED BY <3>5, <3>6
  <2> QED BY <2>3, <2>4, <2>5
<1> QED BY <1>4, <1>5

\* The loop's results after each route.
LoopOf(f, T, n, dst, only) ==
  /\ f = [k \in 0 .. n |-> IF k = 0 THEN NoRoute ELSE next_best(f[k - 1], T[k], dst, only)]

(* The loop has a result after every route.                                *)
LEMMA LoopExists ==
  ASSUME NEW T \in Seq(RouteType), NEW dst, NEW only
  PROVE  \E f : LoopOf(f, T, Len(T), dst, only)
<1> DEFINE G == {n \in 0 .. Len(T) : \E f : LoopOf(f, T, n, dst, only)}
<1>1. Len(T) \in Nat BY LenProperties
<1>2. 0 \in G
  <2>1. PICK f : f = [k \in 0 .. 0 |-> NoRoute] OBVIOUS
  <2>2. f = [k \in 0 .. 0 |-> IF k = 0 THEN NoRoute ELSE next_best(f[k - 1], T[k], dst, only)]
    BY <2>1
  <2> QED BY <1>1, <2>2 DEF LoopOf
<1>3. ASSUME NEW n \in 0 .. Len(T) - 1, n \in G PROVE n + 1 \in G
  <2>1. PICK f : LoopOf(f, T, n, dst, only) BY <1>3
  <2>2. PICK g : g = [k \in 0 .. n + 1 |-> IF k = n + 1 THEN next_best(f[n], T[n + 1], dst, only) ELSE f[k]]
    OBVIOUS
  <2>3. ASSUME NEW k \in 0 .. n + 1
        PROVE  g[k] = IF k = 0 THEN NoRoute ELSE next_best(g[k - 1], T[k], dst, only)
    <3>1. CASE k = n + 1
      <4>1. g[k] = next_best(f[n], T[n + 1], dst, only) BY <2>2, <3>1
      <4>2. n \in 0 .. n + 1 /\ n # n + 1 /\ k - 1 = n /\ k # 0 BY <3>1
      <4>3. g[n] = f[n] BY <2>2, <4>2
      <4> QED BY <3>1, <4>1, <4>2, <4>3
    <3>2. CASE k # n + 1
      <4>1. k \in 0 .. n BY <3>2
      <4>2. g[k] = f[k] BY <2>2, <3>2
      <4>3. f[k] = IF k = 0 THEN NoRoute ELSE next_best(f[k - 1], T[k], dst, only) BY <2>1, <4>1 DEF LoopOf
      <4>4. k # 0 => g[k - 1] = f[k - 1]
        <5>1. k # 0 => k - 1 \in 0 .. n + 1 /\ k - 1 # n + 1 BY <4>1
        <5> QED BY <5>1, <2>2
      <4> QED BY <4>2, <4>3, <4>4
    <3> QED BY <3>1, <3>2
  <2>4. LoopOf(g, T, n + 1, dst, only)
    <3>1. g = [k \in 0 .. n + 1 |-> g[k]] BY <2>2
    <3> QED BY <2>3, <3>1 DEF LoopOf
  <2>5. n + 1 \in 0 .. Len(T) BY <1>1
  <2> QED BY <2>4, <2>5
<1>4. 0 .. Len(T) \subseteq G
  <2> HIDE DEF G
  <2> QED BY <1>1, <1>2, <1>3, IntervalInduction
<1>5. Len(T) \in G BY <1>1, <1>4
<1> QED BY <1>5

(* find_best_route and find_best_route_for_nic return the best of the      *)
(* routes that match, by induction over the table.                         *)
LEMMA FindBest ==
  ASSUME NetTypes, NEW dst, NEW only
  PROVE  BestOf(find_best_route(dst, only), s_routing_table, Len(s_routing_table), dst, only)
<1>1. PICK T \in Seq(RouteType) : T = s_routing_table BY DEF NetTypes
<1>2. PICK n \in Nat : n = Len(T) BY <1>1, LenProperties
<1> DEFINE B == CHOOSE b : b = [k \in 0 .. n |->
                  IF k = 0 THEN NoRoute ELSE next_best(b[k - 1], T[k], dst, only)]
<1>3. \E b : b = [k \in 0 .. n |-> IF k = 0 THEN NoRoute ELSE next_best(b[k - 1], T[k], dst, only)]
  <2>1. PICK f : LoopOf(f, T, n, dst, only) BY <1>2, LoopExists
  <2>2. f = [k \in 0 .. n |-> IF k = 0 THEN NoRoute ELSE next_best(f[k - 1], T[k], dst, only)]
    BY <2>1 DEF LoopOf
  <2> QED BY <2>2
<1>4. B = [k \in 0 .. n |-> IF k = 0 THEN NoRoute ELSE next_best(B[k - 1], T[k], dst, only)]
  BY <1>3
<1>5. find_best_route(dst, only) = B[n] BY <1>1, <1>2, Zenon DEF find_best_route
<1> HIDE DEF B
<1> DEFINE G == {k \in 0 .. n : BestOf(B[k], T, k, dst, only)}
<1>6. 0 \in G
  <2>1. B[0] = NoRoute BY <1>4
  <2>2. Match(T, 0, dst, only) = {} BY DEF Match
  <2> QED BY <2>1, <2>2 DEF BestOf
<1>7. ASSUME NEW k \in 0 .. n - 1, k \in G PROVE k + 1 \in G
  <2>1. k + 1 \in 0 .. n /\ k + 1 # 0 /\ (k + 1) - 1 = k OBVIOUS
  <2>2. B[k + 1] = next_best(B[k], T[k + 1], dst, only) BY <1>4, <2>1
  <2>3. BestOf(B[k + 1], T, k + 1, dst, only) BY <1>2, <1>7, <2>2, BestStep
  <2> QED BY <2>1, <2>3
<1>8. 0 .. n \subseteq G
  <2> HIDE DEF G
  <2> QED BY <1>6, <1>7, IntervalInduction
<1>9. n \in G BY <1>8
<1> QED BY <1>1, <1>2, <1>5, <1>9

(* The best route is the one the property asks for.                        *)
LEMMA ImpliesRouteBest == ASSUME NetTypes PROVE RouteBest
<1> SUFFICES ASSUME NEW dst \in Destinations, NEW nic \in Nic \cup {NoNic}
    PROVE  LET T == s_routing_table
               M == {k \in 1 .. Len(T) : nic \in {NoNic, T[k].nic} /\ Matches(T[k], dst)}
               r == find_best_route(dst, nic)
           IN  /\ r = NoRoute <=> M = {}
               /\ r \notin {NoRoute, Fault} =>
                    \E k \in M : r = T[k] /\ \A j \in M :
                      T[j].netmask < r.netmask
                        \/ (T[j].netmask = r.netmask /\ T[j].metric >= r.metric)
  BY DEF RouteBest
<1>1. BestOf(find_best_route(dst, nic), s_routing_table, Len(s_routing_table), dst, nic)
  BY FindBest
<1> QED BY <1>1 DEF BestOf, Match

(* The routes of networking_init are routes of the cards.                  *)
LEMMA NetInitTypes == NetInit => NetTypes
<1> SUFFICES ASSUME NetInit PROVE NetTypes OBVIOUS
<1> DEFINE a == BroadcastRoute(Lo)
           b == Route(Base(LoAddr, LoPrefix), LoPrefix, 0, Lo, 10)
           c == BroadcastRoute(Eth)
<1>1. 0 \in Addr /\ LoAddr \in Addr /\ LoPrefix \in 0 .. Width /\ Width \in Nat BY NetAssumption
<1>2. Lo \in Nic /\ Eth \in Nic BY DEF Nic
<1>3. a \in RouteType /\ c \in RouteType
  BY <1>1, <1>2 DEF RouteType, RouteTarget, BroadcastRoute, Route
<1>4. b \in RouteType
  <2>1. Base(LoAddr, LoPrefix) \in RouteTarget BY <1>1 DEF RouteTarget
  <2>2. LoPrefix \in Nat BY <1>1
  <2> QED BY <1>1, <1>2, <2>1, <2>2 DEF RouteType, Route
<1>5. s_routing_table = <<a, b, c>> BY DEF NetInit
<1> HIDE DEF a, b, c
<1>6. s_routing_table \in Seq(RouteType) /\ Len(s_routing_table) = 3 BY <1>3, <1>4, <1>5
<1>7. 3 <= ROUTING_TABLE_MAX_ENTREIS BY NetAssumption
<1>8. eth \in [addr: Addr, netmask: 0 .. Width] BY <1>1 DEF NetInit
<1> QED BY <1>6, <1>7, <1>8 DEF NetTypes

(* route_upsert keeps the table a table of routes of the cards, within its *)
(* bound.                                                                  *)
LEMMA UpsertKeeps ==
  ASSUME s_routing_table \in Seq(RouteType), Len(s_routing_table) <= ROUTING_TABLE_MAX_ENTREIS,
         NEW r \in RouteType, route_upsert(r)
  PROVE  s_routing_table' \in Seq(RouteType) /\ Len(s_routing_table') <= ROUTING_TABLE_MAX_ENTREIS
<1>1. PICK T \in Seq(RouteType) : T = s_routing_table OBVIOUS
<1>2. ROUTING_TABLE_MAX_ENTREIS \in Nat BY NetAssumption
<1>3. CASE Same(r) # {}
  <2>1. PICK i : i = CHOOSE k \in Same(r) : \A j \in Same(r) : k <= j OBVIOUS
  <2>2. Same(r) \in SUBSET Nat /\ Same(r) \subseteq 1 .. Len(T) BY <1>1 DEF Same
  <2>3. i \in Same(r) BY <1>3, <2>1, <2>2, LeastExists
  <2>4. s_routing_table' = [T EXCEPT ![i] = r] BY <1>1, <1>3, <2>1 DEF route_upsert
  <2>5. i \in 1 .. Len(T) BY <2>2, <2>3
  <2>6. s_routing_table' \in Seq(RouteType) /\ Len(s_routing_table') = Len(T)
    BY <2>4, <2>5, SeqUpdate
  <2> QED BY <1>1, <2>6
<1>4. CASE Same(r) = {} /\ Len(T) < ROUTING_TABLE_MAX_ENTREIS
  <2>1. s_routing_table' = Append(T, r) BY <1>1, <1>4 DEF route_upsert
  <2>2. s_routing_table' \in Seq(RouteType) /\ Len(s_routing_table') = Len(T) + 1
    BY <2>1, AppendProperties
  <2>3. Len(T) \in Nat BY LenProperties
  <2>4. Len(T) + 1 <= ROUTING_TABLE_MAX_ENTREIS BY <1>2, <1>4, <2>3
  <2> QED BY <2>2, <2>4
<1>5. CASE Same(r) = {} /\ ~(Len(T) < ROUTING_TABLE_MAX_ENTREIS)
  BY <1>1, <1>5 DEF route_upsert
<1> QED BY <1>3, <1>4, <1>5

(* The route to the own network is a route of the Ethernet card.           *)
LEMMA OwnNetworkKeeps ==
  ASSUME NetTypes, NEW e \in [addr: Addr, netmask: 0 .. Width], OwnNetwork(e), eth' = e
  PROVE  NetTypes'
<1>1. CASE e.addr # 0 /\ e.netmask # 0
  <2>1. PICK a \in Addr : a = e.addr OBVIOUS
  <2>2. PICK m \in 0 .. Width : m = e.netmask OBVIOUS
  <2>3. PICK r : r = Route(Base(a, m), m, 0, Eth, 0) OBVIOUS
  <2>4. Base(a, m) \in RouteTarget BY DEF RouteTarget
  <2>5. m \in Nat /\ 0 \in Addr /\ Eth \in Nic BY NetAssumption DEF Nic
  <2>6. r \in RouteType BY <2>3, <2>4, <2>5 DEF Route, RouteType
  <2>7. route_upsert(r) BY <1>1, <2>1, <2>2, <2>3 DEF OwnNetwork
  <2> QED BY <2>6, <2>7, UpsertKeeps DEF NetTypes
<1>2. CASE ~(e.addr # 0 /\ e.netmask # 0)
  <2>1. UNCHANGED s_routing_table BY <1>2 DEF OwnNetwork
  <2> QED BY <2>1 DEF NetTypes
<1> QED BY <1>1, <1>2

(* Configuring the card changes the table and the card, and no packet.     *)
LEMMA ConfigureKeeps ==
  ASSUME NetTypes, NEW x,
         \/ x \in Addresses /\ (configure_address(x) \/ SYS_NET_SET_IP(x))
         \/ x \in Netmasks /\ configure_netmask(x)
         \/ x \in Gateways /\ configure_gateway(x)
  PROVE  NetTypes' /\ UNCHANGED <<arp_table, s_pending, s_buffer, packets, sent, done, halted>>
<1>1. Addresses \subseteq Addr /\ Gateways \subseteq Addr /\ Netmasks \subseteq 0 .. Width
  BY NetAssumption
<1>2. eth \in [addr: Addr, netmask: 0 .. Width] BY DEF NetTypes
<1>3. CASE x \in Addresses /\ configure_address(x)
  <2>1. PICK e \in [addr: Addr, netmask: 0 .. Width] : e = [eth EXCEPT !.addr = x]
    BY <1>1, <1>2, <1>3
  <2>2. eth' = e /\ OwnNetwork(e) BY <1>3, <2>1 DEF configure_address
  <2>3. NetTypes' BY <2>2, OwnNetworkKeeps
  <2> QED BY <1>3, <2>3 DEF configure_address
<1>4. CASE x \in Addresses /\ SYS_NET_SET_IP(x)
  <2>1. eth' \in [addr: Addr, netmask: 0 .. Width] BY <1>1, <1>2, <1>4 DEF SYS_NET_SET_IP
  <2> QED BY <1>4, <2>1 DEF NetTypes, SYS_NET_SET_IP
<1>5. CASE x \in Netmasks /\ configure_netmask(x)
  <2>1. PICK e \in [addr: Addr, netmask: 0 .. Width] : e = [eth EXCEPT !.netmask = x]
    BY <1>1, <1>2, <1>5
  <2>2. eth' = e /\ OwnNetwork(e) BY <1>5, <2>1 DEF configure_netmask
  <2>3. NetTypes' BY <2>2, OwnNetworkKeeps
  <2> QED BY <1>5, <2>3 DEF configure_netmask
<1>6. CASE x \in Gateways /\ configure_gateway(x)
  <2>1. PICK r : r = Route(0, 0, x, Eth, 100) OBVIOUS
  <2>2. Eth \in Nic /\ x \in Addr /\ 0 \in RouteTarget BY <1>1, <1>6 DEF Nic, RouteTarget
  <2>3. r \in RouteType BY <2>1, <2>2 DEF Route, RouteType
  <2>4. route_upsert(r) /\ UNCHANGED eth BY <1>6, <2>1 DEF configure_gateway
  <2>5. NetTypes' BY <2>3, <2>4, UpsertKeeps DEF NetTypes
  <2> QED BY <1>6, <2>5 DEF configure_gateway
<1> QED BY <1>3, <1>4, <1>5, <1>6

-----------------------------------------------------------------------------

\* Packet n was transmitted.
Sent(n) == sent[n] = 1
\* Packet n waits for an answer to an ARP request.
InSlot(n) == \E i \in Slots : s_pending[i].frame = n
\* Packet n is in the ring of the loopback.
InBuffer(n) == \E k \in 1 .. Len(s_buffer) : s_buffer[k] = n
\* Packet n was dropped, or delivered by the loopback.
DoneWith(n) == n \in done

\* Types and bounds of the places of packets.
PacketTypes ==
  /\ packets \in 0 .. MaxPackets
  /\ s_pending \in [Slots -> [waiting_for: Addr, frame: 0 .. MaxPackets]]
  /\ sent \in [1 .. MaxPackets -> {0, 1}] /\ done \subseteq 1 .. MaxPackets
  /\ s_buffer \in Seq(1 .. MaxPackets) /\ Len(s_buffer) < BUFFER_LEN
  /\ arp_table \in Seq(Addr) /\ Len(arp_table) <= ARP_TABLE_SIZE
  /\ halted \in {"no", "fault", "panic"}

\* No frame is in two slots, or twice in the loopback's ring.
NoCopies ==
  /\ \A i, j \in Slots :
       s_pending[i].frame = s_pending[j].frame /\ s_pending[i].frame # 0 => i = j
  /\ \A j, k \in 1 .. Len(s_buffer) : s_buffer[j] = s_buffer[k] => j = k

\* One of four, and one only.
OneOf(a, b, c, d) ==
  /\ a \/ b \/ c \/ d
  /\ ~(a /\ b) /\ ~(a /\ c) /\ ~(a /\ d) /\ ~(b /\ c) /\ ~(b /\ d) /\ ~(c /\ d)

\* A packet handed over is in one place, one that was not is in none.
PlacesInv ==
  \A n \in 1 .. MaxPackets :
    IF n <= packets THEN OneOf(Sent(n), InSlot(n), InBuffer(n), DoneWith(n))
    ELSE ~Sent(n) /\ ~InSlot(n) /\ ~InBuffer(n) /\ ~DoneWith(n)

\* While the machine runs, a packet waits only for an address without an
\* entry.
WaitsUnresolved ==
  Running => \A i \in Slots : s_pending[i].frame # 0 => ~Resolved(s_pending[i].waiting_for)

\* The inductive invariant of the packets.
NetInv == NetTypes /\ PacketTypes /\ NoCopies /\ PlacesInv /\ WaitsUnresolved

(* After networking_init the invariant holds.                              *)
LEMMA NetInitInv == NetInit => NetInv
<1> SUFFICES ASSUME NetInit PROVE NetInv OBVIOUS
<1>1. NetTypes BY NetInitTypes
<1>2. /\ MaxPackets \in Nat /\ 0 \in Addr /\ BUFFER_LEN \in Nat \ {0} /\ ARP_TABLE_SIZE \in Nat
      /\ MAX_PENDING_FRAMES \in Nat
  BY NetAssumption
<1>3. \A i \in Slots : s_pending[i].frame = 0 BY DEF NetInit, NeverUsed
<1>4. Len(<<>>) = 0 /\ s_buffer = <<>> /\ arp_table = <<>> BY DEF NetInit
<1>5. PacketTypes
  <2>1. 0 \in 0 .. MaxPackets BY <1>2
  <2>2. s_pending \in [Slots -> [waiting_for: Addr, frame: 0 .. MaxPackets]]
    BY <1>2, <2>1 DEF NetInit, NeverUsed
  <2>3. <<>> \in Seq(1 .. MaxPackets) /\ <<>> \in Seq(Addr) BY EmptySeq
  <2> QED BY <1>2, <1>4, <2>1, <2>2, <2>3 DEF PacketTypes, NetInit
<1>6. NoCopies BY <1>3, <1>4 DEF NoCopies
<1>7. ASSUME NEW n \in 1 .. MaxPackets
      PROVE  ~(n <= packets) /\ ~Sent(n) /\ ~InSlot(n) /\ ~InBuffer(n) /\ ~DoneWith(n)
  <2>1. ~(n <= packets) /\ sent[n] = 0 /\ done = {} BY DEF NetInit
  <2>2. ~InSlot(n) BY <1>3 DEF InSlot
  <2>3. ~InBuffer(n) BY <1>4 DEF InBuffer
  <2> QED BY <2>1, <2>2, <2>3 DEF Sent, DoneWith
<1>8. PlacesInv BY <1>7 DEF PlacesInv
<1>9. WaitsUnresolved BY <1>3 DEF WaitsUnresolved
<1> QED BY <1>1, <1>5, <1>6, <1>8, <1>9 DEF NetInv

(* One place each is the sum the property counts.                          *)
LEMMA ImpliesPacketsConserved == ASSUME NetInv PROVE PacketsConserved
<1>1. MaxPackets \in Nat /\ packets \in 0 .. MaxPackets /\ BUFFER_LEN \in Nat
  BY NetAssumption DEF NetInv, PacketTypes
<1>2. NetTypeOK
  <2>1. sent \in [1 .. MaxPackets -> Nat] BY DEF NetInv, PacketTypes
  <2> QED BY <2>1 DEF NetInv, NetTypes, PacketTypes, NetTypeOK
<1>3. ASSUME NEW n \in 1 .. packets
      PROVE  1 = sent[n] + Cardinality({i \in Slots : s_pending[i].frame = n})
                 + Cardinality({k \in 1 .. Len(s_buffer) : s_buffer[k] = n})
                 + (IF n \in done THEN 1 ELSE 0)
  <2> DEFINE A == {i \in Slots : s_pending[i].frame = n}
             B == {k \in 1 .. Len(s_buffer) : s_buffer[k] = n}
  <2>1. n \in 1 .. MaxPackets /\ n <= packets /\ n # 0 BY <1>1
  <2>2. OneOf(Sent(n), InSlot(n), InBuffer(n), DoneWith(n)) BY <2>1 DEF NetInv, PlacesInv
  <2>3. sent[n] \in {0, 1} BY <2>1 DEF NetInv, PacketTypes
  <2>4. Cardinality(A) = IF InSlot(n) THEN 1 ELSE 0
    <3>1. CASE InSlot(n)
      <4>1. PICK i \in Slots : s_pending[i].frame = n BY <3>1 DEF InSlot
      <4>2. \A j \in A : j = i BY <2>1, <4>1 DEF NetInv, NoCopies
      <4>3. A = {i} BY <4>1, <4>2
      <4> QED BY <3>1, <4>3, FS_Singleton
    <3>2. CASE ~InSlot(n)
      <4>1. A = {} BY <3>2 DEF InSlot
      <4> QED BY <3>2, <4>1, FS_EmptySet
    <3> QED BY <3>1, <3>2
  <2>5. Cardinality(B) = IF InBuffer(n) THEN 1 ELSE 0
    <3>1. CASE InBuffer(n)
      <4>1. PICK i \in 1 .. Len(s_buffer) : s_buffer[i] = n BY <3>1 DEF InBuffer
      <4>2. \A j \in B : j = i BY <2>1, <4>1 DEF NetInv, NoCopies
      <4>3. B = {i} BY <4>1, <4>2
      <4> QED BY <3>1, <4>3, FS_Singleton
    <3>2. CASE ~InBuffer(n)
      <4>1. B = {} BY <3>2 DEF InBuffer
      <4> QED BY <3>2, <4>1, FS_EmptySet
    <3> QED BY <3>1, <3>2
  <2> HIDE DEF A, B
  <2>6. 1 = sent[n] + Cardinality(A) + Cardinality(B) + (IF n \in done THEN 1 ELSE 0)
    <3>1. sent[n] = IF Sent(n) THEN 1 ELSE 0 BY <2>3 DEF Sent
    <3>2. n \in done <=> DoneWith(n) BY DEF DoneWith
    <3>3. CASE Sent(n) BY <2>2, <2>4, <2>5, <3>1, <3>2, <3>3 DEF OneOf
    <3>4. CASE InSlot(n) BY <2>2, <2>4, <2>5, <3>1, <3>2, <3>4 DEF OneOf
    <3>5. CASE InBuffer(n) BY <2>2, <2>4, <2>5, <3>1, <3>2, <3>5 DEF OneOf
    <3>6. CASE DoneWith(n) BY <2>2, <2>4, <2>5, <3>1, <3>2, <3>6 DEF OneOf
    <3> QED BY <2>2, <3>3, <3>4, <3>5, <3>6 DEF OneOf
  <2> QED BY <2>6 DEF A, B
<1> QED BY <1>2, <1>3 DEF PacketsConserved, NetInv, WaitsUnresolved

(* A step that moves no packet keeps the invariant.                        *)
LEMMA QuietKeeps ==
  ASSUME NetInv, NetTypes',
         UNCHANGED <<arp_table, s_pending, s_buffer, packets, sent, done, halted>>
  PROVE  NetInv'
<1>1. PacketTypes' BY DEF PacketTypes, NetInv
<1>2. NoCopies' BY DEF NoCopies, NetInv
<1>3. PlacesInv' BY DEF PlacesInv, NetInv, Sent, InSlot, InBuffer, DoneWith
<1>4. WaitsUnresolved' BY DEF WaitsUnresolved, NetInv, Running, Resolved
<1> QED BY <1>1, <1>2, <1>3, <1>4 DEF NetInv

\* The packet new is in one place now, the others are where they were.
Placed(new) ==
  /\ new = packets + 1 /\ packets' = new
  /\ OneOf(Sent(new), InSlot(new), InBuffer(new), DoneWith(new))'
  /\ \A m \in 1 .. MaxPackets : m # new =>
       /\ Sent(m)' <=> Sent(m)
       /\ InSlot(m)' <=> InSlot(m)
       /\ InBuffer(m)' <=> InBuffer(m)
       /\ DoneWith(m)' <=> DoneWith(m)

(* Putting one new packet into one place keeps every packet in one.        *)
LEMMA PlacedKeeps == ASSUME NetInv, NEW new \in 1 .. MaxPackets, Placed(new) PROVE PlacesInv'
<1>1. packets \in Nat /\ new = packets + 1 /\ packets' = new
  BY NetAssumption DEF Placed, NetInv, PacketTypes
<1>2. ASSUME NEW m \in 1 .. MaxPackets
      PROVE  IF m <= packets' THEN OneOf(Sent(m), InSlot(m), InBuffer(m), DoneWith(m))'
             ELSE ~Sent(m)' /\ ~InSlot(m)' /\ ~InBuffer(m)' /\ ~DoneWith(m)'
  <2>1. CASE m = new
    <3>1. m <= packets' BY <1>1, <2>1
    <3>2. OneOf(Sent(m), InSlot(m), InBuffer(m), DoneWith(m))' BY <2>1 DEF Placed
    <3> QED BY <3>1, <3>2
  <2>2. CASE m # new
    <3>1. m <= packets' <=> m <= packets BY <1>1, <2>2
    <3>2. IF m <= packets THEN OneOf(Sent(m), InSlot(m), InBuffer(m), DoneWith(m))
          ELSE ~Sent(m) /\ ~InSlot(m) /\ ~InBuffer(m) /\ ~DoneWith(m)
      BY DEF NetInv, PlacesInv
    <3>3. /\ Sent(m)' <=> Sent(m)
          /\ InSlot(m)' <=> InSlot(m)
          /\ InBuffer(m)' <=> InBuffer(m)
          /\ DoneWith(m)' <=> DoneWith(m)
      BY <2>2 DEF Placed
    <3> QED BY <3>1, <3>2, <3>3 DEF OneOf
  <2> QED BY <2>1, <2>2
<1> QED BY <1>2 DEF PlacesInv

(* The next packet of ip_send is nowhere yet.                              *)
LEMMA NewPacket ==
  ASSUME NetInv, packets < MaxPackets
  PROVE  /\ packets + 1 \in 1 .. MaxPackets /\ packets + 1 \in 0 .. MaxPackets
         /\ ~Sent(packets + 1) /\ ~InSlot(packets + 1) /\ ~InBuffer(packets + 1)
         /\ ~DoneWith(packets + 1)
<1>1. packets \in 0 .. MaxPackets /\ MaxPackets \in Nat BY NetAssumption DEF NetInv, PacketTypes
<1>2. packets + 1 \in 1 .. MaxPackets /\ ~(packets + 1 <= packets) BY <1>1
<1> QED BY <1>1, <1>2 DEF NetInv, PlacesInv

(* ip_send that drops the packet, or faults with it.                       *)
LEMMA DropKeeps ==
  ASSUME NetInv, packets < MaxPackets, packets' = packets + 1, done' = done \cup {packets + 1},
         UNCHANGED <<s_routing_table, eth, arp_table, s_pending, s_buffer, sent>>,
         halted' \in {halted, "fault"}
  PROVE  NetInv'
<1>1. PICK new \in 1 .. MaxPackets : new = packets + 1 BY NewPacket
<1>2. NetTypes' BY DEF NetInv, NetTypes
<1>3. PacketTypes' BY <1>1 DEF NetInv, PacketTypes
<1>4. NoCopies' BY DEF NoCopies, NetInv
<1>5. Placed(new)
  <2>1. ~Sent(new)' /\ ~InSlot(new)' /\ ~InBuffer(new)' /\ DoneWith(new)'
    BY <1>1, NewPacket DEF Sent, InSlot, InBuffer, DoneWith
  <2>2. OneOf(Sent(new), InSlot(new), InBuffer(new), DoneWith(new))' BY <2>1 DEF OneOf
  <2>3. ASSUME NEW m \in 1 .. MaxPackets, m # new
        PROVE  /\ Sent(m)' <=> Sent(m)
               /\ InSlot(m)' <=> InSlot(m)
               /\ InBuffer(m)' <=> InBuffer(m)
               /\ DoneWith(m)' <=> DoneWith(m)
    BY <1>1, <2>3 DEF Sent, InSlot, InBuffer, DoneWith
  <2> QED BY <1>1, <2>2, <2>3 DEF Placed
<1>6. PlacesInv' BY <1>5, PlacedKeeps
<1>7. WaitsUnresolved'
  <2>1. Running' => Running BY DEF Running
  <2> QED BY <2>1 DEF NetInv, WaitsUnresolved, Resolved
<1> QED BY <1>2, <1>3, <1>4, <1>6, <1>7 DEF NetInv

(* ip_send to an address that is resolved.                                 *)
LEMMA TransmitNowKeeps ==
  ASSUME NetInv, packets < MaxPackets, packets' = packets + 1,
         sent' = [sent EXCEPT ![packets + 1] = @ + 1],
         UNCHANGED <<s_routing_table, eth, arp_table, s_buffer, s_pending, done, halted>>
  PROVE  NetInv'
<1>1. PICK new \in 1 .. MaxPackets : new = packets + 1 BY NewPacket
<1>2. sent \in [1 .. MaxPackets -> {0, 1}] BY DEF NetInv, PacketTypes
<1>3. sent[new] = 0
  <2>1. ~Sent(new) BY <1>1, NewPacket
  <2> QED BY <1>2, <2>1 DEF Sent
<1>4. sent' = [sent EXCEPT ![new] = 1] BY <1>1, <1>2, <1>3
<1>5. sent' \in [1 .. MaxPackets -> {0, 1}] BY <1>2, <1>4
<1>6. NetTypes' BY DEF NetInv, NetTypes
<1>7. PacketTypes' BY <1>1, <1>5 DEF NetInv, PacketTypes
<1>8. NoCopies' BY DEF NoCopies, NetInv
<1>9. Placed(new)
  <2>1. Sent(new)' BY <1>2, <1>4 DEF Sent
  <2>2. ~InSlot(new)' /\ ~InBuffer(new)' /\ ~DoneWith(new)'
    BY <1>1, NewPacket DEF InSlot, InBuffer, DoneWith
  <2>3. OneOf(Sent(new), InSlot(new), InBuffer(new), DoneWith(new))' BY <2>1, <2>2 DEF OneOf
  <2>4. ASSUME NEW m \in 1 .. MaxPackets, m # new
        PROVE  /\ Sent(m)' <=> Sent(m)
               /\ InSlot(m)' <=> InSlot(m)
               /\ InBuffer(m)' <=> InBuffer(m)
               /\ DoneWith(m)' <=> DoneWith(m)
    BY <1>2, <1>4, <2>4 DEF Sent, InSlot, InBuffer, DoneWith
  <2> QED BY <1>1, <2>3, <2>4 DEF Placed
<1>10. PlacesInv' BY <1>9, PlacedKeeps
<1>11. WaitsUnresolved' BY DEF NetInv, WaitsUnresolved, Resolved, Running
<1> QED BY <1>6, <1>7, <1>8, <1>10, <1>11 DEF NetInv

(* ip_send to an address that is not resolved: the packet takes a slot     *)
(* without a frame, so that none is overwritten.                           *)
LEMMA QueueKeeps ==
  ASSUME NetInv, packets < MaxPackets, packets' = packets + 1, NEW hop \in Addr,
         ~Resolved(hop), FreeSlots # {},
         s_pending' = [s_pending EXCEPT ![get_pending_slot] =
                         [waiting_for |-> hop, frame |-> packets + 1]],
         UNCHANGED <<s_routing_table, eth, arp_table, s_buffer, sent, done, halted>>
  PROVE  NetInv'
<1>1. PICK new \in 1 .. MaxPackets : new = packets + 1 BY NewPacket
<1>2. s_pending \in [Slots -> [waiting_for: Addr, frame: 0 .. MaxPackets]]
  BY DEF NetInv, PacketTypes
<1>3. PICK s \in Slots : s = get_pending_slot /\ s_pending[s].frame = 0
  <2>1. FreeSlots \in SUBSET Nat BY NetAssumption DEF FreeSlots, Slots
  <2>2. get_pending_slot \in FreeSlots BY <2>1, LeastExists DEF get_pending_slot
  <2> QED BY <2>2 DEF FreeSlots
<1>4. PICK e \in [waiting_for: Addr, frame: 0 .. MaxPackets] :
        e.waiting_for = hop /\ e.frame = new /\ e = [waiting_for |-> hop, frame |-> new]
  <2>1. new \in 0 .. MaxPackets BY <1>1, NewPacket
  <2> QED BY <2>1
<1>5. s_pending' = [s_pending EXCEPT ![s] = e] BY <1>1, <1>3, <1>4
<1>6. s_pending' \in [Slots -> [waiting_for: Addr, frame: 0 .. MaxPackets]] BY <1>2, <1>5
<1>7. s_pending'[s] = e /\ \A i \in Slots : i # s => s_pending'[i] = s_pending[i]
  BY <1>2, <1>5
<1>8. new # 0 /\ \A i \in Slots : s_pending[i].frame # new
  <2>1. ~InSlot(new) BY <1>1, NewPacket
  <2> QED BY <2>1 DEF InSlot
<1>9. NetTypes' BY DEF NetInv, NetTypes
<1>10. PacketTypes' BY <1>1, <1>6 DEF NetInv, PacketTypes
<1>11. NoCopies'
  <2>1. ASSUME NEW i \in Slots, NEW j \in Slots,
               s_pending'[i].frame = s_pending'[j].frame, s_pending'[i].frame # 0
        PROVE  i = j
    <3>1. \A a, b \in Slots :
            s_pending[a].frame = s_pending[b].frame /\ s_pending[a].frame # 0 => a = b
      BY DEF NetInv, NoCopies
    <3>2. CASE i = s BY <1>4, <1>7, <1>8, <2>1, <3>2
    <3>3. CASE j = s BY <1>4, <1>7, <1>8, <2>1, <3>3
    <3>4. CASE i # s /\ j # s BY <1>7, <2>1, <3>1, <3>4
    <3> QED BY <3>2, <3>3, <3>4
  <2> QED BY <2>1 DEF NetInv, NoCopies
<1>12. Placed(new)
  <2>1. InSlot(new)' BY <1>4, <1>7 DEF InSlot
  <2>2. ~Sent(new)' /\ ~InBuffer(new)' /\ ~DoneWith(new)'
    BY <1>1, NewPacket DEF Sent, InBuffer, DoneWith
  <2>3. OneOf(Sent(new), InSlot(new), InBuffer(new), DoneWith(new))' BY <2>1, <2>2 DEF OneOf
  <2>4. ASSUME NEW m \in 1 .. MaxPackets, m # new
        PROVE  /\ Sent(m)' <=> Sent(m)
               /\ InSlot(m)' <=> InSlot(m)
               /\ InBuffer(m)' <=> InBuffer(m)
               /\ DoneWith(m)' <=> DoneWith(m)
    <3>1. m # 0 OBVIOUS
    <3>2. InSlot(m)' <=> InSlot(m) BY <1>3, <1>4, <1>7, <2>4, <3>1 DEF InSlot
    <3> QED BY <3>2 DEF Sent, InBuffer, DoneWith
  <2> QED BY <1>1, <2>3, <2>4 DEF Placed
<1>13. PlacesInv' BY <1>12, PlacedKeeps
<1>14. WaitsUnresolved'
  <2>1. SUFFICES ASSUME Running, NEW i \in Slots, s_pending'[i].frame # 0
                 PROVE  ~Resolved(s_pending'[i].waiting_for)
    BY DEF WaitsUnresolved, Running, Resolved
  <2>2. CASE i = s BY <1>4, <1>7, <2>2
  <2>3. CASE i # s BY <1>7, <2>1, <2>3 DEF NetInv, WaitsUnresolved
  <2> QED BY <2>2, <2>3
<1> QED BY <1>9, <1>10, <1>11, <1>13, <1>14 DEF NetInv

(* ip_send to the loopback with a place in its ring.                       *)
LEMMA LoopKeeps ==
  ASSUME NetInv, packets < MaxPackets, packets' = packets + 1, ~loopback_full,
         s_buffer' = Append(s_buffer, packets + 1),
         UNCHANGED <<s_routing_table, eth, arp_table, s_pending, sent, done, halted>>
  PROVE  NetInv'
<1>1. PICK new \in 1 .. MaxPackets : new = packets + 1 BY NewPacket
<1>2. PICK q \in Seq(1 .. MaxPackets) : q = s_buffer /\ Len(q) < BUFFER_LEN
  BY DEF NetInv, PacketTypes
<1>3. PICK l \in Nat : l = Len(q) BY LenProperties
<1>4. /\ s_buffer' \in Seq(1 .. MaxPackets) /\ Len(s_buffer') = l + 1 /\ s_buffer'[l + 1] = new
      /\ \A k \in 1 .. l : s_buffer'[k] = s_buffer[k]
  BY <1>1, <1>2, <1>3, AppendProperties
<1>5. l + 1 < BUFFER_LEN
  <2>1. BUFFER_LEN \in Nat /\ l # BUFFER_LEN - 1 BY <1>2, <1>3, NetAssumption DEF loopback_full
  <2> QED BY <1>2, <1>3, <2>1
<1>6. \A k \in 1 .. l : s_buffer[k] # new
  <2>1. ~InBuffer(new) BY <1>1, NewPacket
  <2> QED BY <1>2, <1>3, <2>1 DEF InBuffer
<1>7. \A k \in 1 .. l + 1 : k \in 1 .. l \/ k = l + 1 OBVIOUS
<1>7a. l + 1 \in 1 .. l + 1 /\ \A k \in 1 .. l : k \in 1 .. l + 1 OBVIOUS
<1>8. NetTypes' BY DEF NetInv, NetTypes
<1>9. PacketTypes' BY <1>1, <1>4, <1>5 DEF NetInv, PacketTypes
<1>10. NoCopies'
  <2>1. \A j, k \in 1 .. l : s_buffer[j] = s_buffer[k] => j = k BY <1>2, <1>3 DEF NetInv, NoCopies
  <2>2. ASSUME NEW j \in 1 .. l + 1, NEW k \in 1 .. l + 1, s_buffer'[j] = s_buffer'[k]
        PROVE  j = k
    <3>1. CASE j = l + 1 BY <1>4, <1>6, <1>7, <2>2, <3>1
    <3>2. CASE k = l + 1 BY <1>4, <1>6, <1>7, <2>2, <3>2
    <3>3. CASE j \in 1 .. l /\ k \in 1 .. l BY <1>4, <2>1, <2>2, <3>3
    <3> QED BY <1>7, <3>1, <3>2, <3>3
  <2>3. \A j, k \in 1 .. Len(s_buffer') : s_buffer'[j] = s_buffer'[k] => j = k BY <1>4, <2>2
  <2> QED BY <2>3 DEF NetInv, NoCopies
<1>11. Placed(new)
  <2>1. InBuffer(new)' BY <1>4, <1>7a DEF InBuffer
  <2>2. ~Sent(new)' /\ ~InSlot(new)' /\ ~DoneWith(new)'
    BY <1>1, NewPacket DEF Sent, InSlot, DoneWith
  <2>3. OneOf(Sent(new), InSlot(new), InBuffer(new), DoneWith(new))' BY <2>1, <2>2 DEF OneOf
  <2>4. ASSUME NEW m \in 1 .. MaxPackets, m # new
        PROVE  /\ Sent(m)' <=> Sent(m)
               /\ InSlot(m)' <=> InSlot(m)
               /\ InBuffer(m)' <=> InBuffer(m)
               /\ DoneWith(m)' <=> DoneWith(m)
    <3>1. InBuffer(m)' <=> InBuffer(m)
      BY <1>2, <1>3, <1>4, <1>7, <1>7a, <2>4 DEF InBuffer
    <3> QED BY <3>1 DEF Sent, InSlot, DoneWith
  <2> QED BY <1>1, <2>3, <2>4 DEF Placed
<1>12. PlacesInv' BY <1>11, PlacedKeeps
<1>13. WaitsUnresolved' BY DEF NetInv, WaitsUnresolved, Resolved, Running
<1> QED BY <1>8, <1>9, <1>10, <1>12, <1>13 DEF NetInv

(* ip_send keeps every packet in one place.                                *)
LEMMA IpSendKeeps ==
  ASSUME NetInv, NEW dst \in Destinations, NEW nic_id, NEW src, ip_send(dst, nic_id, src)
  PROVE  NetInv'
<1> DEFINE nic == CASE nic_id # NoNic -> nic_id
               [] nic_id = NoNic /\ src = 0 -> NoNic
               [] nic_id = NoNic /\ src # 0 /\ src = LoAddr -> Lo
               [] nic_id = NoNic /\ src # 0 /\ src # LoAddr /\ src = eth.addr -> Eth
               [] OTHER -> "none"
           r == find_best_route(dst, nic)
           hop == IF r.gateway # 0 THEN r.gateway ELSE dst
           n == packets + 1
<1>1. Running /\ packets < MaxPackets /\ packets' = n BY DEF ip_send
<1>2. r \notin {NoRoute, Fault} => hop \in Addr
  <2> SUFFICES ASSUME r \notin {NoRoute, Fault} PROVE hop \in Addr OBVIOUS
  <2> HIDE DEF nic
  <2>1. s_routing_table \in Seq(RouteType) BY DEF NetInv, NetTypes
  <2>2. BestOf(r, s_routing_table, Len(s_routing_table), dst, nic) BY FindBest DEF NetInv
  <2> HIDE DEF r
  <2>3. PICK k \in 1 .. Len(s_routing_table) : r = s_routing_table[k] BY <2>2 DEF BestOf, Match
  <2>4. r \in RouteType BY <2>1, <2>3, ElementOfSeq
  <2>5. r.gateway \in Addr /\ dst \in Addr BY <2>4, NetAssumption DEF RouteType
  <2> QED BY <2>5
<1>3. \/ /\ done' = done \cup {n}
         /\ UNCHANGED <<s_routing_table, eth, arp_table, s_pending, s_buffer, sent, halted>>
      \/ halt("fault") /\ done' = done \cup {n} /\ UNCHANGED sent
      \/ r \notin {NoRoute, Fault} /\ ethernet_driver_send(n, hop)
      \/ loopback_send(n)
  BY Zenon DEF ip_send
<1> HIDE DEF nic, r, hop
<1>4. CASE /\ done' = done \cup {n}
           /\ UNCHANGED <<s_routing_table, eth, arp_table, s_pending, s_buffer, sent, halted>>
  BY <1>1, <1>4, DropKeeps
<1>5. CASE halt("fault") /\ done' = done \cup {n} /\ UNCHANGED sent
  BY <1>1, <1>5, DropKeeps DEF halt
<1>6. CASE r \notin {NoRoute, Fault} /\ ethernet_driver_send(n, hop)
  <2>1. hop \in Addr BY <1>2, <1>6
  <2>2. UNCHANGED <<s_routing_table, eth, arp_table, s_buffer>> BY <1>6 DEF ethernet_driver_send
  <2>3. CASE Resolved(hop) /\ sent' = [sent EXCEPT ![n] = @ + 1] /\ UNCHANGED <<s_pending, done, halted>>
    BY <1>1, <2>2, <2>3, TransmitNowKeeps
  <2>4. CASE /\ ~Resolved(hop) /\ FreeSlots # {}
             /\ s_pending' = [s_pending EXCEPT ![get_pending_slot] = [waiting_for |-> hop, frame |-> n]]
             /\ UNCHANGED <<sent, done, halted>>
    BY <1>1, <2>1, <2>2, <2>4, QueueKeeps
  <2>5. CASE /\ halted' = "fault" /\ done' = done \cup {n}
             /\ UNCHANGED <<s_pending, sent>>
    BY <1>1, <2>2, <2>5, DropKeeps
  <2> QED BY <1>6, <2>3, <2>4, <2>5 DEF ethernet_driver_send
<1>7. CASE loopback_send(n)
  <2>1. CASE loopback_full
    BY <1>1, <1>7, <2>1, DropKeeps DEF loopback_send
  <2>2. CASE ~loopback_full
    BY <1>1, <1>7, <2>2, LoopKeeps DEF loopback_send
  <2> QED BY <2>1, <2>2
<1> QED BY <1>3, <1>4, <1>5, <1>6, <1>7

(* loopback_poll delivers the oldest packet of the ring.                   *)
LEMMA LoopPollKeeps == ASSUME NetInv, loopback_poll PROVE NetInv'
<1>1. PICK q \in Seq(1 .. MaxPackets) : q = s_buffer /\ q # <<>> /\ Len(q) < BUFFER_LEN
  BY DEF NetInv, PacketTypes, loopback_poll
<1>2. PICK l \in Nat : l = Len(q) - 1 /\ Len(q) = l + 1 BY <1>1, LenProperties, EmptySeq
<1>3. PICK h \in 1 .. MaxPackets : h = Head(q) /\ h = q[1]
  <2>1. 1 \in 1 .. Len(q) BY <1>2
  <2>2. q[1] \in 1 .. MaxPackets BY <2>1, ElementOfSeq
  <2>3. Head(q) = q[1] BY <1>1, HeadTailProperties
  <2> QED BY <2>2, <2>3
<1>4. /\ s_buffer' \in Seq(1 .. MaxPackets) /\ Len(s_buffer') = l
      /\ \A k \in 1 .. l : s_buffer'[k] = q[k + 1]
  <2>1. s_buffer' = Tail(q) BY <1>1 DEF loopback_poll
  <2> QED BY <1>1, <1>2, <2>1, HeadTailProperties
<1>5. done' = done \cup {h} BY <1>1, <1>3 DEF loopback_poll
<1>6. \A j, k \in 1 .. l + 1 : q[j] = q[k] => j = k BY <1>1, <1>2 DEF NetInv, NoCopies
<1>7. \A k \in 1 .. l : k + 1 \in 1 .. l + 1 /\ k + 1 # 1 OBVIOUS
<1>8. \A k \in 1 .. l + 1 : k # 1 => k - 1 \in 1 .. l /\ (k - 1) + 1 = k OBVIOUS
<1>9. NetTypes' BY DEF NetInv, NetTypes, loopback_poll
<1>10. PacketTypes'
  <2>1. l < BUFFER_LEN BY <1>1, <1>2, NetAssumption
  <2> QED BY <1>4, <1>5, <2>1 DEF NetInv, PacketTypes, loopback_poll
<1>11. NoCopies'
  <2>1. ASSUME NEW j \in 1 .. l, NEW k \in 1 .. l, s_buffer'[j] = s_buffer'[k] PROVE j = k
    <3>1. q[j + 1] = q[k + 1] BY <1>4, <2>1
    <3>2. j + 1 = k + 1 BY <1>6, <1>7, <3>1
    <3> QED BY <3>2
  <2>2. \A j, k \in 1 .. Len(s_buffer') : s_buffer'[j] = s_buffer'[k] => j = k BY <1>4, <2>1
  <2> QED BY <2>2 DEF NetInv, NoCopies, loopback_poll
<1>12. ASSUME NEW m \in 1 .. MaxPackets
       PROVE  /\ Sent(m)' <=> Sent(m)
              /\ InSlot(m)' <=> InSlot(m)
              /\ InBuffer(m)' <=> InBuffer(m) /\ m # h
              /\ DoneWith(m)' <=> DoneWith(m) \/ m = h
              /\ m = h => InBuffer(m)
  <2>1. InBuffer(m)' <=> \E k \in 1 .. l : q[k + 1] = m BY <1>4 DEF InBuffer
  <2>2. InBuffer(m) <=> \E k \in 1 .. l + 1 : q[k] = m BY <1>1, <1>2 DEF InBuffer
  <2>3. 1 \in 1 .. l + 1 OBVIOUS
  <2>4. InBuffer(m)' => InBuffer(m) /\ m # h
    <3> SUFFICES ASSUME NEW k \in 1 .. l, q[k + 1] = m PROVE InBuffer(m) /\ m # h BY <2>1
    <3>1. InBuffer(m) BY <1>7, <2>2
    <3>2. m # h BY <1>3, <1>6, <1>7, <2>3
    <3> QED BY <3>1, <3>2
  <2>5. InBuffer(m) /\ m # h => InBuffer(m)'
    <3> SUFFICES ASSUME NEW k \in 1 .. l + 1, q[k] = m, m # h PROVE InBuffer(m)' BY <2>2
    <3>1. k # 1 BY <1>3
    <3>2. k - 1 \in 1 .. l /\ q[(k - 1) + 1] = m BY <1>8, <3>1
    <3> QED BY <2>1, <3>2
  <2>6. m = h => InBuffer(m) BY <1>3, <2>2, <2>3
  <2>7. (Sent(m)' <=> Sent(m)) /\ (InSlot(m)' <=> InSlot(m)) BY DEF Sent, InSlot, loopback_poll
  <2>8. DoneWith(m)' <=> DoneWith(m) \/ m = h BY <1>5 DEF DoneWith
  <2> QED BY <2>4, <2>5, <2>6, <2>7, <2>8
<1>13. PlacesInv'
  <2>1. ASSUME NEW m \in 1 .. MaxPackets
        PROVE  IF m <= packets' THEN OneOf(Sent(m)', InSlot(m)', InBuffer(m)', DoneWith(m)')
               ELSE ~Sent(m)' /\ ~InSlot(m)' /\ ~InBuffer(m)' /\ ~DoneWith(m)'
    <3>1. IF m <= packets THEN OneOf(Sent(m), InSlot(m), InBuffer(m), DoneWith(m))
          ELSE ~Sent(m) /\ ~InSlot(m) /\ ~InBuffer(m) /\ ~DoneWith(m)
      BY DEF NetInv, PlacesInv
    <3>2. packets' = packets BY DEF loopback_poll
    <3> QED BY <1>12, <3>1, <3>2 DEF OneOf
  <2> QED BY <2>1 DEF PlacesInv, OneOf
<1>14. WaitsUnresolved' BY DEF NetInv, WaitsUnresolved, Resolved, Running, loopback_poll
<1> QED BY <1>9, <1>10, <1>11, <1>13, <1>14 DEF NetInv

(* arp_receive of a reply sends each packet that waits for the address     *)
(* once and frees its slot; when all went well none that waits for it is   *)
(* left.                                                                   *)
LEMMA ArpReplyKeeps == ASSUME NetInv, NEW ip \in Addr, arp_reply(ip) PROVE NetInv'
<1> DEFINE full == Len(arp_table) = ARP_TABLE_SIZE
           slots == flush_pending(ip)
           stale == {i \in slots : s_pending[i].frame = 0}
           good == {i \in slots \ stale : \A j \in stale : i < j}
           frames == {s_pending[i].frame : i \in good}
<1>1. Running /\ UNCHANGED <<s_routing_table, eth, s_buffer, packets, done>> BY DEF arp_reply
<1>2. NetTypes' BY <1>1 DEF NetInv, NetTypes
<1>3. CASE halted' = "panic" /\ UNCHANGED <<arp_table, s_pending, sent>>
  <2>1. PacketTypes' BY <1>1, <1>3 DEF NetInv, PacketTypes
  <2>2. NoCopies' BY <1>1, <1>3 DEF NetInv, NoCopies
  <2>3. PlacesInv' BY <1>1, <1>3 DEF NetInv, PlacesInv, Sent, InSlot, InBuffer, DoneWith
  <2>4. WaitsUnresolved' BY <1>3 DEF WaitsUnresolved, Running
  <2> QED BY <1>2, <2>1, <2>2, <2>3, <2>4 DEF NetInv
<1>4. CASE /\ ~full \/ Resolved(ip)
           /\ arp_table' = IF full THEN arp_table ELSE Append(arp_table, ip)
           /\ s_pending' = [i \in Slots |-> IF i \in good
                              THEN [s_pending[i] EXCEPT !.frame = 0] ELSE s_pending[i]]
           /\ sent' = [n \in DOMAIN sent |-> IF n \in frames THEN sent[n] + 1 ELSE sent[n]]
           /\ halted' = IF stale = {} THEN "no" ELSE "fault"
  <2>1. s_pending \in [Slots -> [waiting_for: Addr, frame: 0 .. MaxPackets]]
    BY DEF NetInv, PacketTypes
  <2>2. sent \in [1 .. MaxPackets -> {0, 1}] BY DEF NetInv, PacketTypes
  <2>3. arp_table \in Seq(Addr) /\ Len(arp_table) <= ARP_TABLE_SIZE /\ ARP_TABLE_SIZE \in Nat
    BY NetAssumption DEF NetInv, PacketTypes
  <2>4. good \subseteq Slots /\ \A i \in good : s_pending[i].frame # 0 /\ s_pending[i].waiting_for = ip
    BY DEF flush_pending
  <2>5. 0 \in 0 .. MaxPackets BY NetAssumption
  <2>6. ASSUME NEW i \in Slots
        PROVE  /\ i \in good => s_pending'[i].frame = 0
               /\ i \notin good => s_pending'[i] = s_pending[i]
               /\ s_pending'[i] \in [waiting_for: Addr, frame: 0 .. MaxPackets]
               /\ s_pending'[i].waiting_for = s_pending[i].waiting_for
    <3>1. s_pending'[i] = IF i \in good THEN [s_pending[i] EXCEPT !.frame = 0] ELSE s_pending[i]
      BY <1>4
    <3>2. s_pending[i] \in [waiting_for: Addr, frame: 0 .. MaxPackets] BY <2>1
    <3> HIDE DEF good
    <3> QED BY <2>5, <3>1, <3>2
  <2>7. s_pending' \in [Slots -> [waiting_for: Addr, frame: 0 .. MaxPackets]]
    <3> HIDE DEF good
    <3>1. s_pending' = [i \in Slots |-> s_pending'[i]] BY <1>4
    <3> QED BY <2>6, <3>1
  <2>8. arp_table' \in Seq(Addr) /\ Len(arp_table') <= ARP_TABLE_SIZE
    <3>1. CASE full BY <1>4, <2>3, <3>1
    <3>2. CASE ~full
      <4>1. arp_table' = Append(arp_table, ip) BY <1>4, <3>2
      <4>2. arp_table' \in Seq(Addr) /\ Len(arp_table') = Len(arp_table) + 1
        BY <2>3, <4>1, AppendProperties
      <4>3. Len(arp_table) \in Nat BY <2>3, LenProperties
      <4> QED BY <2>3, <3>2, <4>2, <4>3
    <3> QED BY <3>1, <3>2
  <2>9. ASSUME NEW m \in 1 .. MaxPackets
        PROVE  m \in frames <=> \E i \in good : s_pending[i].frame = m
    OBVIOUS
  <2>10. ASSUME NEW m \in 1 .. MaxPackets
         PROVE  m \in frames => InSlot(m) /\ ~Sent(m) /\ sent[m] = 0
    <3> SUFFICES ASSUME m \in frames PROVE InSlot(m) /\ ~Sent(m) /\ sent[m] = 0 OBVIOUS
    <3>1. InSlot(m) BY <2>4, <2>9 DEF InSlot
    <3>2. ~Sent(m) BY <3>1 DEF NetInv, PlacesInv, OneOf
    <3> QED BY <2>2, <3>1, <3>2 DEF Sent
  <2>11. ASSUME NEW m \in 1 .. MaxPackets
         PROVE  sent'[m] = IF m \in frames THEN 1 ELSE sent[m]
    <3>1. m \in DOMAIN sent BY <2>2
    <3>2. sent'[m] = IF m \in frames THEN sent[m] + 1 ELSE sent[m] BY <1>4, <3>1
    <3> HIDE DEF frames
    <3> QED BY <2>10, <3>2
  <2>12. sent' \in [1 .. MaxPackets -> {0, 1}]
    <3> HIDE DEF frames
    <3>1. sent' = [m \in 1 .. MaxPackets |-> sent'[m]] BY <1>4, <2>2
    <3> QED BY <2>2, <2>11, <3>1
  <2>13. ASSUME NEW m \in 1 .. MaxPackets
         PROVE  /\ Sent(m)' <=> Sent(m) \/ m \in frames
                /\ InSlot(m)' <=> InSlot(m) /\ m \notin frames
                /\ InBuffer(m)' <=> InBuffer(m)
                /\ DoneWith(m)' <=> DoneWith(m)
    <3>1. Sent(m)' <=> Sent(m) \/ m \in frames
      <4> HIDE DEF frames
      <4> QED BY <2>11 DEF Sent
    <3>2. m # 0 OBVIOUS
    <3>3. InSlot(m)' => InSlot(m) /\ m \notin frames
      <4>1. SUFFICES ASSUME NEW i \in Slots, s_pending'[i].frame = m PROVE InSlot(m) /\ m \notin frames
        BY DEF InSlot
      <4>2. i \notin good /\ s_pending[i].frame = m
        <5> HIDE DEF good
        <5> QED BY <2>6, <3>2, <4>1
      <4>3. InSlot(m) BY <4>2 DEF InSlot
      <4>4. \A j \in Slots : s_pending[j].frame = m => j = i
        BY <3>2, <4>2 DEF NetInv, NoCopies
      <4> HIDE DEF good
      <4> QED BY <2>4, <2>9, <4>2, <4>3, <4>4
    <3>4. InSlot(m) /\ m \notin frames => InSlot(m)'
      <4>1. SUFFICES ASSUME NEW i \in Slots, s_pending[i].frame = m, m \notin frames PROVE InSlot(m)'
        BY DEF InSlot
      <4>2. i \notin good BY <4>1
      <4> HIDE DEF good, frames
      <4>3. s_pending'[i].frame = m BY <2>6, <4>1, <4>2
      <4> QED BY <4>3 DEF InSlot
    <3>5. (InBuffer(m)' <=> InBuffer(m)) /\ (DoneWith(m)' <=> DoneWith(m))
      BY <1>1 DEF InBuffer, DoneWith
    <3> HIDE DEF frames
    <3> QED BY <3>1, <3>3, <3>4, <3>5
  <2>14. PacketTypes'
    <3>1. halted' \in {"no", "fault", "panic"} BY <1>4
    <3> QED BY <1>1, <2>7, <2>8, <2>12, <3>1 DEF NetInv, PacketTypes
  <2>15. NoCopies'
    <3>1. ASSUME NEW i \in Slots, NEW j \in Slots,
                 s_pending'[i].frame = s_pending'[j].frame, s_pending'[i].frame # 0
          PROVE  i = j
      <4> HIDE DEF good
      <4>1. s_pending'[i] = s_pending[i] /\ s_pending'[j] = s_pending[j] BY <2>6, <3>1
      <4> QED BY <3>1, <4>1 DEF NetInv, NoCopies
    <3> QED BY <1>1, <3>1 DEF NetInv, NoCopies
  <2>16. PlacesInv'
    <3>1. ASSUME NEW m \in 1 .. MaxPackets
          PROVE  IF m <= packets' THEN OneOf(Sent(m)', InSlot(m)', InBuffer(m)', DoneWith(m)')
                 ELSE ~Sent(m)' /\ ~InSlot(m)' /\ ~InBuffer(m)' /\ ~DoneWith(m)'
      <4>1. IF m <= packets THEN OneOf(Sent(m), InSlot(m), InBuffer(m), DoneWith(m))
            ELSE ~Sent(m) /\ ~InSlot(m) /\ ~InBuffer(m) /\ ~DoneWith(m)
        BY DEF NetInv, PlacesInv
      <4>2. packets' = packets BY <1>1
      <4> HIDE DEF frames
      <4> QED BY <2>10, <2>13, <4>1, <4>2 DEF OneOf
    <3> QED BY <3>1 DEF PlacesInv, OneOf
  <2>17. WaitsUnresolved'
    <3>1. SUFFICES ASSUME stale = {}, NEW i \in Slots, s_pending'[i].frame # 0
                   PROVE  /\ s_pending'[i].waiting_for # Broadcast
                          /\ \A k \in 1 .. Len(arp_table') : arp_table'[k] # s_pending'[i].waiting_for
      <4>1. Running' => stale = {} BY <1>4 DEF Running
      <4> HIDE DEF stale
      <4> QED BY <4>1 DEF WaitsUnresolved, Resolved
    <3>2. i \notin good
      <4> HIDE DEF good
      <4> QED BY <2>6, <3>1
    <3>3. s_pending'[i] = s_pending[i]
      <4> HIDE DEF good
      <4> QED BY <2>6, <3>2
    <3>4. PICK a \in Addr : a = s_pending[i].waiting_for BY <2>1
    <3>5. a # ip BY <3>1, <3>2, <3>3, <3>4 DEF flush_pending
    <3>6. ~Resolved(a) BY <1>1, <3>1, <3>3, <3>4 DEF NetInv, WaitsUnresolved
    <3>7. \A k \in 1 .. Len(arp_table') : arp_table'[k] # a
      <4>1. a # Broadcast /\ \A k \in 1 .. Len(arp_table) : arp_table[k] # a BY <3>6 DEF Resolved
      <4>2. CASE full BY <1>4, <4>1, <4>2
      <4>3. CASE ~full
        <5>1. PICK l \in Nat : l = Len(arp_table) BY <2>3, LenProperties
        <5>2. arp_table' = Append(arp_table, ip) BY <1>4, <4>3
        <5>3. /\ Len(arp_table') = l + 1 /\ arp_table'[l + 1] = ip
              /\ \A k \in 1 .. l : arp_table'[k] = arp_table[k]
          BY <2>3, <5>1, <5>2, AppendProperties
        <5>4. \A k \in 1 .. l + 1 : k \in 1 .. l \/ k = l + 1 OBVIOUS
        <5> QED BY <3>5, <4>1, <5>1, <5>3, <5>4
      <4> QED BY <4>2, <4>3
    <3>8. a # Broadcast BY <3>6 DEF Resolved
    <3> QED BY <3>3, <3>4, <3>7, <3>8
  <2> QED BY <1>2, <2>14, <2>15, <2>16, <2>17 DEF NetInv
<1> QED BY <1>3, <1>4, Zenon DEF arp_reply

(* Every step keeps the invariant.                                         *)
LEMMA NetNextInv == NetInv /\ [NetNext]_netVars => NetInv'
<1> SUFFICES ASSUME NetInv, [NetNext]_netVars PROVE NetInv' OBVIOUS
<1>1. CASE UNCHANGED netVars
  <2>1. NetTypes' BY <1>1 DEF NetInv, NetTypes, netVars
  <2> QED BY <1>1, <2>1, QuietKeeps DEF netVars
<1>2. ASSUME NEW x,
             \/ x \in Addresses /\ (configure_address(x) \/ SYS_NET_SET_IP(x))
             \/ x \in Netmasks /\ configure_netmask(x)
             \/ x \in Gateways /\ configure_gateway(x)
      PROVE  NetInv'
  <2>1. NetTypes' /\ UNCHANGED <<arp_table, s_pending, s_buffer, packets, sent, done, halted>>
    BY <1>2, ConfigureKeeps DEF NetInv
  <2> QED BY <2>1, QuietKeeps
<1>3. \A ip \in Destinations \cup Gateways : ip \in Addr BY NetAssumption
<1> QED BY <1>1, <1>2, <1>3, IpSendKeeps, ArpReplyKeeps, LoopPollKeeps DEF NetNext

(* For every table, address and netmask: the route found is one with the   *)
(* longest matching prefix and of these the least metric, and none is      *)
(* found only when none matches (find_best_route,                          *)
(* find_best_route_for_nic).                                               *)
THEOREM RoutesAreBest == NetSpec => []RouteBest
<1>1. NetInv => RouteBest BY ImpliesRouteBest DEF NetInv
<1> QED BY <1>1, NetInitInv, NetNextInv, PTL DEF NetSpec

(* For every number of packets, slots and table entries: each packet       *)
(* handed to ip_send is in exactly one place, and a packet waits only for  *)
(* an address that is not resolved (ethernet_driver.c, arp.c, loopback.c). *)
THEOREM PacketsAreConserved == NetSpec => []PacketsConserved
<1>1. NetInv => PacketsConserved BY ImpliesPacketsConserved
<1> QED BY <1>1, NetInitInv, NetNextInv, PTL DEF NetSpec

-----------------------------------------------------------------------------
(* The DHCP client.                                                        *)

\* What a server sends.
Answer == [type: {OFFER, ACK, NAK}, ip: Lease \cup {0}, mask: {0, Netmask}]

\* A thread of the client.
DhcpThread == [at: {"none", "start", "offer", "ack", "end"}, tries: Nat,
               slot: Place \cup {0}, ip: Lease \cup {0}]

\* Types of the threads, the sockets and the datagrams.
DhcpTypes ==
  /\ client \in [Interface -> DhcpThread]
  /\ started \in 0 .. Count
  /\ sockets \in [Place -> [used: BOOLEAN, port: BOOLEAN]]
  /\ inbox \in [Place -> Seq(Answer)]
  /\ wire \subseteq Answer
  /\ asked \subseteq Interface \X (Lease \cup {0})
  /\ config \in [Interface -> [addr: Lease \cup {0}, netmask: {0, Netmask, Garbage}]]

\* A thread that waits for an answer has a socket of its own; one that has ended has none.
OwnSockets ==
  /\ \A i \in Interface : InRecv(i) => client[i].slot \in Place /\ sockets[client[i].slot].used
  /\ \A i, j \in Interface : InRecv(i) /\ InRecv(j) /\ client[i].slot = client[j].slot => i = j
  /\ \A i \in Interface : client[i].at = "end" => client[i].slot = 0

\* Every answer that waits in a queue was sent by a server, and every address comes from one.
FromServers ==
  /\ \A s \in Place : \A k \in 1 .. Len(inbox[s]) : inbox[s][k] \in wire
  /\ \A i \in Interface : config[i].addr # 0 => \E p \in wire : p.type = ACK /\ p.ip = config[i].addr

\* The inductive invariant: an answer that a thread takes was sent by a
\* server, so the address it configures is; and a thread that ends closes its
\* own socket only, because no other thread has the slot.
DhcpInv == DhcpTypes /\ OwnSockets /\ FromServers

(* The invariant holds before main has started a thread.                   *)
LEMMA DhcpInitial == DhcpInit => DhcpInv
<1> SUFFICES ASSUME DhcpInit PROVE DhcpInv OBVIOUS
<1>1. DhcpTypes
  <2>1. 0 \in 0 .. Count BY DhcpAssumption
  <2>2. [s \in Place |-> <<>>] \in [Place -> Seq(Answer)] OBVIOUS
  <2> QED BY <2>1, <2>2 DEF DhcpInit, DhcpTypes, DhcpThread
<1>2. OwnSockets BY DEF DhcpInit, OwnSockets, InRecv
<1>3. FromServers BY DEF DhcpInit, FromServers
<1> QED BY <1>1, <1>2, <1>3 DEF DhcpInv

(* receive_with_timeout: the answer that is taken out of the queue of the  *)
(* socket was sent by a server, and so were those that stay.               *)
LEMMA TakenAnswer ==
  ASSUME DhcpInv, NEW i \in Interface, Recv(i)
  PROVE  /\ client[i].slot \in Place
         /\ Head(inbox[client[i].slot]) \in wire
         /\ inbox' \in [Place -> Seq(Answer)]
         /\ \A s \in Place : \A k \in 1 .. Len(inbox'[s]) : inbox'[s][k] \in wire
<1>1. PICK s \in Place : s = client[i].slot /\ inbox[s] # <<>> /\ inbox' = [inbox EXCEPT ![s] = Tail(@)]
  BY DEF DhcpInv, OwnSockets, Recv
<1>2. PICK q \in Seq(Answer) : q = inbox[s] /\ q # <<>> BY <1>1 DEF DhcpInv, DhcpTypes
<1>3. /\ Head(q) = q[1] /\ 1 \in 1 .. Len(q) /\ Tail(q) \in Seq(Answer) /\ Len(Tail(q)) = Len(q) - 1
      /\ \A k \in 1 .. Len(Tail(q)) : Tail(q)[k] = q[k + 1]
  BY <1>2, HeadTailProperties, LenProperties, EmptySeq
<1>4. Len(q) \in Nat BY LenProperties
<1>5. \A k \in 1 .. Len(q) : q[k] \in wire BY <1>1, <1>2 DEF DhcpInv, FromServers
<1>6. inbox \in [Place -> Seq(Answer)] BY DEF DhcpInv, DhcpTypes
<1>7. inbox' \in [Place -> Seq(Answer)] /\ inbox'[s] = Tail(q) /\ \A r \in Place \ {s} : inbox'[r] = inbox[r]
  BY <1>1, <1>2, <1>3, <1>6
<1>8. \A k \in 1 .. Len(Tail(q)) : Tail(q)[k] \in wire BY <1>3, <1>4, <1>5
<1>9. \A r \in Place : \A k \in 1 .. Len(inbox[r]) : inbox[r][k] \in wire BY DEF DhcpInv, FromServers
<1>10. ASSUME NEW r \in Place, NEW k \in 1 .. Len(inbox'[r]) PROVE inbox'[r][k] \in wire
  <2>1. CASE r = s BY <2>1, <1>7, <1>8
  <2>2. CASE r # s BY <2>2, <1>7, <1>9
  <2> QED BY <2>1, <2>2
<1> QED BY <1>1, <1>2, <1>3, <1>5, <1>7, <1>10

(* The ways out of run() close the socket of the thread and leave those of *)
(* the others open.                                                        *)
LEMMA ThreadEnds ==
  ASSUME DhcpInv, NEW i \in Interface, InRecv(i), sockets' = closed(i), At(i, "end", 0, 0)
  PROVE  /\ OwnSockets'
         /\ sockets' \in [Place -> [used: BOOLEAN, port: BOOLEAN]]
         /\ client' \in [Interface -> DhcpThread]
<1>1. PICK s \in Place : s = client[i].slot /\ sockets' = [sockets EXCEPT ![s].used = FALSE]
  BY DEF DhcpInv, OwnSockets, closed
<1>2. sockets \in [Place -> [used: BOOLEAN, port: BOOLEAN]] BY DEF DhcpInv, DhcpTypes
<1>3. sockets' \in [Place -> [used: BOOLEAN, port: BOOLEAN]] /\ \A r \in Place \ {s} : sockets'[r] = sockets[r]
  BY <1>1, <1>2
<1>4. client \in [Interface -> DhcpThread] BY DEF DhcpInv, DhcpTypes
<1>5. client' = [client EXCEPT ![i] = [at |-> "end", tries |-> 0, slot |-> 0, ip |-> 0]] BY DEF At
<1>6. client' \in [Interface -> DhcpThread] BY <1>4, <1>5 DEF DhcpThread
<1>7. /\ client'[i].at = "end" /\ client'[i].slot = 0
      /\ \A j \in Interface \ {i} : client'[j] = client[j] BY <1>4, <1>5 DEF DhcpThread
<1>8. OwnSockets'
  <2>1. ASSUME NEW j \in Interface, InRecv(j)'
        PROVE  j # i /\ InRecv(j) /\ client'[j] = client[j] /\ client[j].slot # s
    BY <2>1, <1>1, <1>7 DEF InRecv, DhcpInv, OwnSockets
  <2>2. \A j \in Interface : InRecv(j)' => client'[j].slot \in Place /\ sockets'[client'[j].slot].used
    BY <2>1, <1>3 DEF DhcpInv, OwnSockets
  <2>3. \A j, k \in Interface : InRecv(j)' /\ InRecv(k)' /\ client'[j].slot = client'[k].slot => j = k
    BY <2>1 DEF DhcpInv, OwnSockets
  <2>4. \A j \in Interface : client'[j].at = "end" => client'[j].slot = 0 BY <1>7 DEF DhcpInv, OwnSockets
  <2> QED BY <2>2, <2>3, <2>4 DEF OwnSockets
<1> QED BY <1>3, <1>6, <1>8

(* Every step of a thread, of main, of the servers and of the network      *)
(* keeps the invariant.                                                    *)
LEMMA DhcpStep == DhcpInv /\ [DhcpNext]_dhcpVars => DhcpInv'
<1> SUFFICES ASSUME DhcpInv, [DhcpNext]_dhcpVars PROVE DhcpInv' OBVIOUS
<1>0. DhcpTypes /\ OwnSockets /\ FromServers BY DEF DhcpInv
<1>00. client \in [Interface -> DhcpThread] BY <1>0 DEF DhcpTypes
<1>1. CASE UNCHANGED dhcpVars
  BY <1>0, <1>1 DEF DhcpInv, DhcpTypes, OwnSockets, FromServers, InRecv, dhcpVars
<1>2. ASSUME NEW i \in Interface, run_discover(i) PROVE DhcpInv'
  <2>1. PICK s \in Place : /\ ~sockets[s].used
                           /\ sockets' = [sockets EXCEPT ![s] = [used |-> TRUE, port |-> port_free]]
                           /\ At(i, "offer", s, 0)
    BY <1>2 DEF run_discover
  <2>2. port_free \in BOOLEAN BY DEF port_free
  <2>3. sockets' \in [Place -> [used: BOOLEAN, port: BOOLEAN]] /\ sockets'[s].used
        /\ \A r \in Place \ {s} : sockets'[r] = sockets[r]
    BY <1>0, <2>1, <2>2 DEF DhcpTypes
  <2>4. client' = [client EXCEPT ![i] = [at |-> "offer", tries |-> 0, slot |-> s, ip |-> 0]]
    BY <2>1 DEF At
  <2>5. client' \in [Interface -> DhcpThread] BY <1>00, <2>4 DEF DhcpThread
  <2>6. client'[i].at = "offer" /\ client'[i].slot = s /\ \A j \in Interface \ {i} : client'[j] = client[j]
    BY <1>00, <2>4 DEF DhcpThread
  <2>7. UNCHANGED <<started, joined, inbox, wire, config>> /\ asked' = socket_send(i, 0)
    BY <1>2 DEF run_discover
  <2>8. asked' \subseteq Interface \X (Lease \cup {0})
    BY <1>0, <2>7, DhcpAssumption DEF DhcpTypes, socket_send, Interface
  <2>9. DhcpTypes' BY <1>0, <2>3, <2>5, <2>7, <2>8 DEF DhcpTypes
  <2>10. ASSUME NEW j \in Interface \ {i}, InRecv(j)'
         PROVE  InRecv(j) /\ client'[j].slot \in Place /\ client'[j].slot # s /\ sockets'[client'[j].slot].used
    BY <1>0, <2>10, <2>1, <2>3, <2>6 DEF InRecv, OwnSockets
  <2>11. OwnSockets'
    <3>1. \A j \in Interface : InRecv(j)' => client'[j].slot \in Place /\ sockets'[client'[j].slot].used
      BY <2>3, <2>6, <2>10
    <3>2. \A j, k \in Interface : InRecv(j)' /\ InRecv(k)' /\ client'[j].slot = client'[k].slot => j = k
      BY <1>0, <2>6, <2>10 DEF OwnSockets
    <3>3. \A j \in Interface : client'[j].at = "end" => client'[j].slot = 0 BY <1>0, <2>6 DEF OwnSockets
    <3> QED BY <3>1, <3>2, <3>3 DEF OwnSockets
  <2>12. FromServers' BY <1>0, <2>7 DEF FromServers
  <2> QED BY <2>9, <2>11, <2>12 DEF DhcpInv
<1>3. ASSUME NEW i \in Interface, run_no_socket(i) PROVE DhcpInv'
  <2>1. client' = [client EXCEPT ![i] = [at |-> "end", tries |-> 0, slot |-> 0, ip |-> 0]]
        /\ UNCHANGED <<started, joined, sockets, inbox, wire, asked, config>>
    BY <1>3 DEF run_no_socket, At
  <2>2. client' \in [Interface -> DhcpThread] /\ client'[i].at = "end" /\ client'[i].slot = 0
        /\ \A j \in Interface \ {i} : client'[j] = client[j]
    BY <1>00, <2>1 DEF DhcpThread
  <2>3. DhcpTypes' BY <1>0, <2>1, <2>2 DEF DhcpTypes
  <2>4. OwnSockets' BY <1>0, <2>1, <2>2 DEF OwnSockets, InRecv
  <2>5. FromServers' BY <1>0, <2>1 DEF FromServers
  <2> QED BY <2>3, <2>4, <2>5 DEF DhcpInv
<1>4. ASSUME NEW i \in Interface, recv_sleep(i) PROVE DhcpInv'
  <2>1. client' = [client EXCEPT ![i].tries = client[i].tries + 1]
        /\ UNCHANGED <<started, joined, sockets, inbox, wire, asked, config>>
    BY <1>4, <1>00 DEF recv_sleep, next_try, DhcpThread
  <2>2. client' \in [Interface -> DhcpThread] BY <1>00, <2>1 DEF DhcpThread
  <2>3. \A j \in Interface : client'[j].at = client[j].at /\ client'[j].slot = client[j].slot BY <1>00, <2>1 DEF DhcpThread
  <2>4. DhcpTypes' BY <1>0, <2>1, <2>2 DEF DhcpTypes
  <2>5. OwnSockets' BY <1>0, <2>1, <2>3 DEF OwnSockets, InRecv
  <2>6. FromServers' BY <1>0, <2>1 DEF FromServers
  <2> QED BY <2>4, <2>5, <2>6 DEF DhcpInv
<1>5. ASSUME NEW i \in Interface, run_timeout(i) PROVE DhcpInv'
  <2>1. InRecv(i) /\ sockets' = closed(i) /\ At(i, "end", 0, 0)
        /\ UNCHANGED <<started, joined, inbox, wire, asked, config>>
    BY <1>5 DEF run_timeout
  <2>2. OwnSockets' /\ sockets' \in [Place -> [used: BOOLEAN, port: BOOLEAN]] /\ client' \in [Interface -> DhcpThread]
    BY <2>1, ThreadEnds
  <2>3. DhcpTypes' BY <1>0, <2>1, <2>2 DEF DhcpTypes
  <2>4. FromServers' BY <1>0, <2>1 DEF FromServers
  <2> QED BY <2>2, <2>3, <2>4 DEF DhcpInv
<1>6. ASSUME NEW i \in Interface, run_request(i) PROVE DhcpInv'
  <2>1. Recv(i) /\ InRecv(i) BY <1>6 DEF run_request, Recv
  <2>2. PICK p \in wire : /\ p = Head(inbox[client[i].slot]) /\ asked' = socket_send(i, p.ip)
                          /\ At(i, "ack", client[i].slot, p.ip)
    BY <1>6, <2>1, TakenAnswer DEF run_request
  <2>3. UNCHANGED <<started, joined, sockets, wire, config>> BY <1>6 DEF run_request
  <2>4. p.ip \in Lease \cup {0} BY <1>0, <2>2 DEF DhcpTypes, Answer
  <2>5. PICK s \in Place : s = client[i].slot BY <2>1, TakenAnswer
  <2>6. client' = [client EXCEPT ![i] = [at |-> "ack", tries |-> 0, slot |-> s, ip |-> p.ip]]
    BY <2>2, <2>5 DEF At
  <2>7. client' \in [Interface -> DhcpThread] BY <1>00, <2>4, <2>6 DEF DhcpThread
  <2>8. client'[i].at = "ack" /\ client'[i].slot = client[i].slot /\ \A j \in Interface \ {i} : client'[j] = client[j]
    BY <1>00, <2>5, <2>6 DEF DhcpThread
  <2>9. asked' \subseteq Interface \X (Lease \cup {0})
    BY <1>0, <2>2, <2>4, DhcpAssumption DEF DhcpTypes, socket_send, Interface
  <2>10. inbox' \in [Place -> Seq(Answer)] BY <2>1, TakenAnswer
  <2>11. DhcpTypes' BY <1>0, <2>3, <2>7, <2>9, <2>10 DEF DhcpTypes
  <2>12. OwnSockets' BY <1>0, <2>1, <2>3, <2>8 DEF OwnSockets, InRecv
  <2>13. FromServers' BY <1>0, <2>1, <2>3, TakenAnswer DEF FromServers
  <2> QED BY <2>11, <2>12, <2>13 DEF DhcpInv
<1>7. ASSUME NEW i \in Interface, run_configure(i) PROVE DhcpInv'
  <2>1. Recv(i) /\ InRecv(i) /\ sockets' = closed(i) /\ At(i, "end", 0, 0)
    BY <1>7 DEF run_configure, Recv
  <2>2. PICK p \in wire : /\ p = Head(inbox[client[i].slot]) /\ expected(i, p)
                          /\ \E m \in IF p.mask # 0 THEN {p.mask} ELSE {0, Garbage} :
                               config' = [config EXCEPT ![i] = [addr |-> p.ip, netmask |-> IF m = 0 THEN @.netmask ELSE m]]
    BY <1>7, <2>1, TakenAnswer DEF run_configure
  <2>3. UNCHANGED <<started, joined, wire, asked>> /\ client[i].at = "ack" BY <1>7 DEF run_configure
  <2>4. p.ip \in Lease \cup {0} /\ p.mask \in {0, Netmask} /\ p.type = ACK
    BY <1>0, <2>2, <2>3 DEF DhcpTypes, Answer, expected
  <2>5. PICK n \in {0, Netmask, Garbage} : config' = [config EXCEPT ![i] = [addr |-> p.ip, netmask |-> n]]
    <3>1. PICK m \in {0, Netmask, Garbage} :
            config' = [config EXCEPT ![i] = [addr |-> p.ip, netmask |-> IF m = 0 THEN config[i].netmask ELSE m]]
      BY <1>0, <2>2, <2>4 DEF DhcpTypes
    <3>2. config[i].netmask \in {0, Netmask, Garbage} BY <1>0 DEF DhcpTypes
    <3> QED BY <3>1, <3>2
  <2>6. config' \in [Interface -> [addr: Lease \cup {0}, netmask: {0, Netmask, Garbage}]]
        /\ config'[i].addr = p.ip /\ \A j \in Interface \ {i} : config'[j] = config[j]
    BY <1>0, <2>4, <2>5 DEF DhcpTypes
  <2>7. OwnSockets' /\ sockets' \in [Place -> [used: BOOLEAN, port: BOOLEAN]] /\ client' \in [Interface -> DhcpThread]
    BY <2>1, ThreadEnds
  <2>8. inbox' \in [Place -> Seq(Answer)]
        /\ \A s \in Place : \A k \in 1 .. Len(inbox'[s]) : inbox'[s][k] \in wire'
    BY <2>1, <2>3, TakenAnswer
  <2>9. DhcpTypes' BY <1>0, <2>3, <2>6, <2>7, <2>8 DEF DhcpTypes
  <2>10. FromServers' BY <1>0, <2>2, <2>3, <2>4, <2>6, <2>8 DEF FromServers
  <2> QED BY <2>7, <2>9, <2>10 DEF DhcpInv
<1>8. ASSUME NEW i \in Interface, run_unexpected(i) PROVE DhcpInv'
  <2>1. Recv(i) /\ InRecv(i) /\ sockets' = closed(i) /\ At(i, "end", 0, 0)
        /\ UNCHANGED <<started, joined, wire, asked, config>>
    BY <1>8 DEF run_unexpected, Recv
  <2>2. OwnSockets' /\ sockets' \in [Place -> [used: BOOLEAN, port: BOOLEAN]] /\ client' \in [Interface -> DhcpThread]
    BY <2>1, ThreadEnds
  <2>3. inbox' \in [Place -> Seq(Answer)]
        /\ \A s \in Place : \A k \in 1 .. Len(inbox'[s]) : inbox'[s][k] \in wire'
    BY <2>1, TakenAnswer
  <2>4. DhcpTypes' BY <1>0, <2>1, <2>2, <2>3 DEF DhcpTypes
  <2>5. FromServers' BY <1>0, <2>1, <2>3 DEF FromServers
  <2> QED BY <2>2, <2>4, <2>5 DEF DhcpInv
<1>9. CASE main_spawn
  <2>1. PICK i \in Interface : i = started + 1
    BY <1>0, <1>9, DhcpAssumption DEF main_spawn, Interface, DhcpTypes
  <2>2. client' = [client EXCEPT ![i] = [at |-> "start", tries |-> 0, slot |-> 0, ip |-> 0]]
        /\ UNCHANGED <<joined, sockets, inbox, wire, asked, config>>
    BY <1>9, <2>1 DEF main_spawn, At
  <2>3. client' \in [Interface -> DhcpThread] /\ client'[i].at = "start" /\ client'[i].slot = 0
        /\ \A j \in Interface \ {i} : client'[j] = client[j]
    BY <1>00, <2>2 DEF DhcpThread
  <2>4. started' \in 0 .. Count BY <1>0, <1>9, DhcpAssumption DEF main_spawn, DhcpTypes
  <2>5. DhcpTypes' BY <1>0, <2>2, <2>3, <2>4 DEF DhcpTypes
  <2>6. OwnSockets' BY <1>0, <2>2, <2>3 DEF OwnSockets, InRecv
  <2>7. FromServers' BY <1>0, <2>2 DEF FromServers
  <2> QED BY <2>5, <2>6, <2>7 DEF DhcpInv
<1>10. CASE main_join
  BY <1>0, <1>10 DEF main_join, DhcpInv, DhcpTypes, OwnSockets, FromServers, InRecv
<1>11. CASE Serve
  <2>1. UNCHANGED <<client, started, joined, sockets, inbox, asked, config>> BY <1>11 DEF Serve
  <2>2. PICK p \in Answer : wire' = wire \cup {p}
    <3>1. PICK r \in asked :
       \/ r[2] = 0 /\ \E ip \in Lease : wire' = wire \cup {[type |-> OFFER, ip |-> ip, mask |-> Netmask]}
       \/ r[2] # 0 /\ \E m \in {0, Netmask} : wire' = wire \cup {[type |-> ACK, ip |-> r[2], mask |-> m]}
       \/ r[2] # 0 /\ wire' = wire \cup {[type |-> NAK, ip |-> 0, mask |-> 0]}
      BY <1>11 DEF Serve
    <3>2. r[2] \in Lease \cup {0} BY <1>0 DEF DhcpTypes
    <3> QED BY <3>1, <3>2 DEF Answer
  <2>3. DhcpTypes' BY <1>0, <2>1, <2>2 DEF DhcpTypes
  <2>4. OwnSockets' BY <1>0, <2>1 DEF OwnSockets, InRecv
  <2>5. FromServers' BY <1>0, <2>1, <2>2 DEF FromServers
  <2> QED BY <2>3, <2>4, <2>5 DEF DhcpInv
<1>12. CASE Deliver
  <2>1. UNCHANGED <<client, started, joined, sockets, wire, asked, config>> BY <1>12 DEF Deliver
  <2>2. PICK p \in wire, s \in Place : inbox' = [inbox EXCEPT ![s] = Append(inbox[s], p)]
    BY <1>0, <1>12 DEF Deliver, DhcpTypes
  <2>3. PICK q \in Seq(Answer) : q = inbox[s] BY <1>0 DEF DhcpTypes
  <2>4. p \in Answer BY <1>0 DEF DhcpTypes
  <2>5. /\ Append(q, p) \in Seq(Answer) /\ Len(Append(q, p)) = Len(q) + 1 /\ Append(q, p)[Len(q) + 1] = p
        /\ \A k \in 1 .. Len(q) : Append(q, p)[k] = q[k]
    BY <2>4, AppendProperties
  <2>6. Len(q) \in Nat BY LenProperties
  <2>7. inbox \in [Place -> Seq(Answer)] BY <1>0 DEF DhcpTypes
  <2>8. inbox' \in [Place -> Seq(Answer)] /\ inbox'[s] = Append(q, p) /\ \A r \in Place \ {s} : inbox'[r] = inbox[r]
    BY <2>2, <2>3, <2>5, <2>7
  <2>9. \A r \in Place : \A k \in 1 .. Len(inbox[r]) : inbox[r][k] \in wire BY <1>0 DEF FromServers
  <2>10. \A k \in 1 .. Len(Append(q, p)) : Append(q, p)[k] \in wire BY <2>3, <2>5, <2>6, <2>9
  <2>11. ASSUME NEW r \in Place, NEW k \in 1 .. Len(inbox'[r]) PROVE inbox'[r][k] \in wire
    <3>1. CASE r = s BY <3>1, <2>8, <2>10
    <3>2. CASE r # s BY <3>2, <2>8, <2>9
    <3> QED BY <3>1, <3>2
  <2>12. DhcpTypes' BY <1>0, <2>1, <2>8 DEF DhcpTypes
  <2>13. OwnSockets' BY <1>0, <2>1 DEF OwnSockets, InRecv
  <2>14. FromServers' BY <1>0, <2>1, <2>11 DEF FromServers
  <2> QED BY <2>12, <2>13, <2>14 DEF DhcpInv
<1> QED BY <1>1, <1>2, <1>3, <1>4, <1>5, <1>6, <1>7, <1>8, <1>9, <1>10, <1>11, <1>12 DEF DhcpNext, Run, Main

(* For every number of interfaces, sockets and addresses, and whatever the *)
(* network delays or repeats: an interface only gets an address that a     *)
(* server acknowledged, a thread that waits has a socket that is open and  *)
(* one that has ended has none (run in user/services/dhcp/main.cpp).       *)
THEOREM LeasesGranted == DhcpSpec => []LeaseGranted
<1>1. DhcpInv => LeaseGranted BY DEF DhcpInv, OwnSockets, FromServers, LeaseGranted
<1> QED BY DhcpInitial, DhcpStep, <1>1, PTL DEF DhcpSpec

-----------------------------------------------------------------------------
(* TCP.                                                                    *)

\* Sequence numbers.
Num == 0 .. SEQ_RANGE - 1

\* States of a connection.
ConnState == {"CLOSED", "SYN_SENT", "SYN_RECEIVED", "ESTABLISHED", "LAST_ACK",
              "FIN_WAIT_1", "FIN_WAIT_2", "TIME_WAIT"}

\* Flags of a segment.
Flag == {"SYN", "ACK", "FIN", "RST"}

\* A connection.
Conn == [port: Nat, id: Nat \cup RandomIds, state: ConnState, seq: Num, ack: Num, initial_seq: Num,
         send_head: Nat, send_tail: Nat, recv_buf: [0 .. TCP_BUFFER - 1 -> Int],
         recv_head: Num, recv_tail: Num, got: Seq(Int)]

\* A segment.
Seg == [to: Host, port: Nat, seq: Num, ack: Num, flags: SUBSET Flag, data: Seq(Int)]

\* The connections of both hosts.
Conns == [Host -> [TcpSlot -> Conn]]

\* How far the number x is past the initial number y.
Off(x, y) == Seqn(x - y)

\* How much a connection of h has sent, by its state.
Sender(h, c) ==
  LET o == Off(c.seq, c.initial_seq)
  IN  /\ c.send_head <= MaxBytes[h]
      /\ c.state \in {"SYN_SENT", "SYN_RECEIVED"} => o = 1 /\ c.send_tail = 0
      /\ c.state = "ESTABLISHED" => o = 1 + c.send_tail /\ c.send_tail <= c.send_head
      /\ c.state = "LAST_ACK" => o >= 2 /\ o <= MaxBytes[h] + 2
      /\ c.state \in {"FIN_WAIT_1", "FIN_WAIT_2", "TIME_WAIT"} => o >= 2 /\ o <= MaxBytes[h] + 3

\* A segment of a connection with initial number x that has sent up to l.
SegOK(s, x, l) ==
  /\ Off(s.seq, x) + Acknowledged(s) <= l
  /\ "SYN" \in s.flags <=> Off(s.seq, x) = 0
  /\ "SYN" \in s.flags => s.data = <<>>

\* The ports of connections and segments.
PortInv(G, N, p) ==
  /\ p \in Nat /\ p <= MaxOpens + 1
  /\ \A h \in Host, i \in TcpSlot : G[h][i].port < p /\ (G[h][i].port = 0 <=> G[h][i].state = "CLOSED")
  /\ \A h \in Host, i, j \in TcpSlot : G[h][i].port = G[h][j].port /\ G[h][i].port # 0 => i = j
  /\ \A s \in N : 0 < s.port /\ s.port < p

\* What the client sends, f being its initial number for each port, and what the
\* server has acknowledged of it.
ClientInv(G, N, f) ==
  /\ \A i \in TcpSlot : LET c == G[Client][i] IN c.port # 0 =>
       /\ c.initial_seq = f[c.port] /\ c.state # "SYN_RECEIVED" /\ Sender(Client, c)
  /\ \A s \in N : s.to = Server => SegOK(s, f[s.port], MaxBytes[Client] + 3)
  /\ \A s \in N, i \in TcpSlot : LET c == G[Client][i] IN s.to = Server /\ s.port = c.port =>
       Off(s.seq, f[c.port]) + Acknowledged(s) <= Off(c.seq, f[c.port])
  /\ \A s \in N, i \in TcpSlot : LET c == G[Client][i] IN s.to = Client /\ s.port = c.port =>
       1 <= Off(s.ack, f[c.port]) /\ Off(s.ack, f[c.port]) <= Off(c.seq, f[c.port])
  /\ \A j \in TcpSlot : LET d == G[Server][j] IN d.port # 0 =>
       d.state # "SYN_SENT" /\ 1 <= Off(d.ack, f[d.port]) /\ Off(d.ack, f[d.port]) <= MaxBytes[Client] + 3
  /\ \A i, j \in TcpSlot : LET c == G[Client][i] IN G[Server][j].port = c.port /\ c.port # 0 =>
       Off(G[Server][j].ack, f[c.port]) <= Off(c.seq, f[c.port])

\* A connection the client's program has not closed.
Open(c) == c.state \in {"SYN_SENT", "ESTABLISHED", "LAST_ACK"}

\* Connection c of the client and the server's connection d.
PairOK(c, d) ==
  /\ Sender(Server, d)
  /\ c.state = "SYN_SENT" => d.state = "SYN_RECEIVED"
  /\ c.state = "ESTABLISHED" => d.state \in {"SYN_RECEIVED", "ESTABLISHED", "FIN_WAIT_1", "FIN_WAIT_2"}
  /\ c.state = "LAST_ACK" => d.state \in {"FIN_WAIT_1", "FIN_WAIT_2", "TIME_WAIT"}
  /\ d.state = "TIME_WAIT" => Off(d.ack, c.initial_seq) = Off(c.seq, c.initial_seq)
  /\ c.state # "SYN_SENT" => /\ 1 <= Off(c.ack, d.initial_seq)
                             /\ Off(c.ack, d.initial_seq) <= Off(d.seq, d.initial_seq)

\* A segment to the client, sent by d.
ToClientOK(c, d, s) ==
  /\ SegOK(s, d.initial_seq, Off(d.seq, d.initial_seq))
  /\ s.flags \in {{"SYN", "ACK"}, {"ACK"}, {"FIN"}}
  /\ "FIN" \in s.flags => d.state \in {"FIN_WAIT_1", "FIN_WAIT_2", "TIME_WAIT"}
  /\ c.state = "SYN_SENT" => s.flags = {"SYN", "ACK"}

\* A segment to the server, sent by c.
ToServerOK(c, s) ==
  /\ c.state = "SYN_SENT" => s.flags = {"SYN"}
  /\ c.state = "ESTABLISHED" => s.flags \in {{"SYN"}, {"ACK"}}
  /\ c.state = "LAST_ACK" => /\ s.flags \in {{"SYN"}, {"ACK"}, {"ACK", "FIN"}}
                             /\ Off(s.seq, c.initial_seq) < Off(c.seq, c.initial_seq)
                             /\ "FIN" \in s.flags => Off(s.seq, c.initial_seq) + 1 = Off(c.seq, c.initial_seq)

\* What a segment to the server acknowledges, d has sent.
AckOK(d, s) == "SYN" \notin s.flags => /\ 1 <= Off(s.ack, d.initial_seq)
                                       /\ Off(s.ack, d.initial_seq) <= Off(d.seq, d.initial_seq)

\* What holds of an open connection c of the client, D being the server's
\* connections: the server has one incarnation of it.
PairSlot(D, N, c) ==
  /\ \A s \in N : s.port = c.port =>
       /\ s.to = Server => ToServerOK(c, s)
       /\ s.to = Client => \E j \in TcpSlot : D[j].port = c.port
  /\ c.state # "SYN_SENT" => \E j \in TcpSlot : D[j].port = c.port
  /\ \A j \in TcpSlot : D[j].port = c.port =>
       /\ PairOK(c, D[j])
       /\ \A s \in N : s.port = c.port => /\ s.to = Client => ToClientOK(c, D[j], s)
                                          /\ s.to = Server => AckOK(D[j], s)

\* Every open connection of the client, and the ids of the half open ones.
PairInv(G, N) ==
  /\ \A i \in TcpSlot : Open(G[Client][i]) => PairSlot(G[Server], N, G[Client][i])
  /\ \A j \in TcpSlot : G[Server][j].state = "SYN_RECEIVED" => G[Server][j].id \in RandomIds

\* The invariant of connections G and segments N, p being the next port.
ConnsInv(G, N, p, b) ==
  /\ G \in Conns /\ N \in SUBSET Seg
  /\ PortInv(G, N, p)
  /\ \E f \in [Nat -> Num] : ClientInv(G, N, f)
  /\ b \/ PairInv(G, N)

\* The inductive invariant of TCP.
TcpInv ==
  /\ halfopen \in BOOLEAN
  /\ ConnsInv(g_active_sockets, tcpNet, port, halfopen)

(* What the assumptions say of the numbers.                                *)
LEMMA TcpSizes ==
  /\ SEQ_RANGE \in Nat /\ SEQ_RANGE > 3 /\ Client \in Host /\ Server \in Host /\ Client # Server
  /\ Peer(Client) = Server /\ Peer(Server) = Client
  /\ \A h \in Host : MaxBytes[h] \in Nat /\ MaxBytes[h] + 3 < SEQ_RANGE
  /\ TCP_BUFFER \in Nat /\ TCP_BUFFER > 0 /\ MaxOpens \in Nat /\ \A q \in 0 .. MaxOpens : q \notin RandomIds
<1>1. Client \in Host /\ Server \in Host /\ Client # Server BY TcpAssumption DEF Host
<1>2. Peer(Client) = Server /\ Peer(Server) = Client BY <1>1 DEF Peer, Host
<1>3. \A h \in Host : MaxBytes[h] \in Nat /\ MaxBytes[h] + 3 < SEQ_RANGE BY TcpAssumption
<1>4. SEQ_RANGE \in Nat /\ TCP_BUFFER \in Nat /\ TCP_BUFFER > 0 /\ MaxOpens \in Nat BY TcpAssumption
<1>5. SEQ_RANGE > 3 BY <1>1, <1>3, <1>4
<1>6. \A q \in 0 .. MaxOpens : q \notin RandomIds BY TcpAssumption
<1> QED BY <1>1, <1>2, <1>3, <1>4, <1>5, <1>6

(* A remainder is known by its class and its range.                        *)
LEMMA ModUnique ==
  ASSUME NEW z \in Int, NEW r \in Int, NEW d \in Nat, d > 0, 0 <= r, r < d, NEW k \in Int, z = r + d * k
  PROVE  z % d = r
<1>1. PICK q \in Int, m \in Int : q = z \div d /\ m = z % d BY DivLemma
<1>2. z = d * q + m /\ 0 <= m /\ m < d BY <1>1, DivLemma
<1>3. d * (q - k) = r - m BY <1>2
<1>4. q - k = 0
  <2>1. CASE q - k >= 1
    <3>1. d * (q - k) >= d BY <2>1
    <3> QED BY <1>2, <1>3, <3>1
  <2>2. CASE q - k <= -1
    <3>1. d * (q - k) <= -d BY <2>2
    <3> QED BY <1>2, <1>3, <3>1
  <2> QED BY <2>1, <2>2
<1> QED BY <1>1, <1>3, <1>4

(* Sequence numbers.                                                       *)
LEMMA SeqnRange == ASSUME NEW n \in Int PROVE Seqn(n) \in Num /\ Seqn(n) \in Nat /\ (n \in Num => Seqn(n) = n)
<1>1. SEQ_RANGE \in Nat /\ SEQ_RANGE > 0 BY TcpSizes
<1>2. n % SEQ_RANGE \in 0 .. SEQ_RANGE - 1 BY <1>1
<1>3. ASSUME n \in Num PROVE n % SEQ_RANGE = n
  <2>1. n = n + SEQ_RANGE * 0 BY <1>1
  <2>2. 0 <= n /\ n < SEQ_RANGE BY <1>1, <1>3 DEF Num
  <2> QED BY <1>1, <2>1, <2>2, ModUnique
<1> QED BY <1>1, <1>2, <1>3 DEF Seqn, Num

(* The distance from y grows with the number, as long as it stays in range. *)
LEMMA OffAdd ==
  ASSUME NEW x \in Num, NEW y \in Num, NEW k \in Nat, Off(x, y) + k < SEQ_RANGE
  PROVE  Off(Seqn(x + k), y) = Off(x, y) + k
<1>1. PICK d \in Nat : d = SEQ_RANGE /\ d > 0 /\ x \in Int /\ y \in Int BY TcpSizes DEF Num
<1>2. PICK p \in Int, m \in Int : x - y = d * p + m /\ m = Off(x, y) /\ 0 <= m /\ m < d
  <2>1. PICK z \in Int : z = x - y BY <1>1
  <2>2. PICK p \in Int, m \in Int : p = z \div d /\ m = z % d BY <1>1, DivLemma
  <2>3. z - d * p = m /\ d * p <= z /\ z < d * p + d BY <1>1, <2>2, DivLemma
  <2>4. PICK e \in Int : e = d * p BY <1>1
  <2>5. z = e + m /\ 0 <= m /\ m < d BY <2>3, <2>4
  <2>6. m = Off(x, y) BY <1>1, <2>1, <2>2 DEF Off, Seqn
  <2> QED BY <2>1, <2>4, <2>5, <2>6
<1>3. PICK q \in Int, w \in Int : x + k = d * q + w /\ w = Seqn(x + k)
  <2>1. PICK z \in Int : z = x + k BY <1>1
  <2>2. PICK q \in Int, w \in Int : q = z \div d /\ w = z % d BY <1>1, DivLemma
  <2>3. z - d * q = w BY <1>1, <2>2, DivLemma
  <2>4. PICK e \in Int : e = d * q BY <1>1
  <2>5. z = e + w BY <2>3, <2>4
  <2>6. w = Seqn(x + k) BY <1>1, <2>1, <2>2 DEF Seqn
  <2> QED BY <2>1, <2>4, <2>5, <2>6
<1>4. PICK n \in Int, z \in Int, r \in Int : n = p - q /\ z = w - y /\ r = m + k BY <1>1
<1>5. z = r + d * n
  <2>1. PICK a \in Int, b \in Int, c \in Int : a = d * p /\ b = d * q /\ c = d * n BY <1>1
  <2>2. c = a - b BY <1>1, <1>4, <2>1
  <2>3. x - y = a + m /\ x + k = b + w BY <1>2, <1>3, <2>1
  <2>4. z = r + c BY <1>1, <1>4, <2>2, <2>3
  <2> QED BY <2>1, <2>4
<1>6. 0 <= r /\ r < d BY <1>1, <1>2, <1>4
<1>7. z % d = r BY <1>1, <1>5, <1>6, ModUnique
<1> QED BY <1>1, <1>2, <1>3, <1>4, <1>7 DEF Off, Seqn

(* Distances.                                                              *)
LEMMA OffFacts ==
  ASSUME NEW x \in Num, NEW y \in Num
  PROVE  /\ Off(x, y) \in Nat /\ Off(x, y) < SEQ_RANGE
         /\ Off(y, y) = 0
         /\ Off(x, y) >= 1 => Seqn(x - y - 1) = Off(x, y) - 1
<1>1. PICK d \in Nat : d = SEQ_RANGE /\ d > 0 /\ x \in Int /\ y \in Int BY TcpSizes DEF Num
<1>2. Off(x, y) \in Nat /\ Off(x, y) < SEQ_RANGE
  <2>1. x - y \in Int BY <1>1
  <2>2. Off(x, y) \in Num BY <2>1, SeqnRange DEF Off
  <2> QED BY <1>1, <2>2 DEF Num
<1>3. Off(y, y) = 0
  <2>1. y - y = 0 /\ 0 \in Num BY <1>1 DEF Num
  <2> QED BY <2>1, SeqnRange DEF Off
<1>4. ASSUME Off(x, y) >= 1 PROVE Seqn(x - y - 1) = Off(x, y) - 1
  <2>1. PICK z \in Int : z = x - y BY <1>1
  <2>2. PICK p \in Int, m \in Int : p = z \div d /\ m = z % d BY <1>1, DivLemma
  <2>3. z - d * p = m /\ d * p <= z /\ z < d * p + d BY <1>1, <2>2, DivLemma
  <2>4. PICK e \in Int : e = d * p BY <1>1
  <2>5. z = e + m /\ m < d BY <2>3, <2>4
  <2>6. m = Off(x, y) BY <1>1, <2>1, <2>2 DEF Off, Seqn
  <2>7. PICK v \in Int, r \in Int : v = z - 1 /\ r = m - 1 BY <2>1
  <2>8. v = r + d * p BY <2>4, <2>5, <2>7
  <2>9. 0 <= r /\ r < d BY <1>4, <2>5, <2>6, <2>7
  <2>10. v % d = r BY <1>1, <2>8, <2>9, ModUnique
  <2> QED BY <1>1, <2>1, <2>6, <2>7, <2>10 DEF Seqn
<1> QED BY <1>2, <1>3, <1>4

(* What a segment adds to a number.                                        *)
LEMMA AcknowledgedNat ==
  ASSUME NEW s \in Seg
  PROVE  Acknowledged(s) \in Nat /\ (s.data = <<>> => Acknowledged(s) = IF s.flags \cap {"SYN", "FIN"} # {} THEN 1 ELSE 0)
<1>1. s.data \in Seq(Int) /\ Len(s.data) \in Nat BY DEF Seg
<1>2. s.data = <<>> => Len(s.data) = 0 OBVIOUS
<1>3. PICK n \in Nat : n = (IF s.flags \cap {"SYN", "FIN"} # {} THEN 1 ELSE 0) OBVIOUS
<1>4. Acknowledged(s) = n + Len(s.data) BY <1>3 DEF Acknowledged
<1>5. s.data = <<>> => Acknowledged(s) = n BY <1>2, <1>4
<1>6. Acknowledged(s) \in Nat BY <1>1, <1>4
<1> QED BY <1>3, <1>5, <1>6, Zenon

(* What the invariant says of a connection of the client.                  *)
LEMMA ClientFacts ==
  ASSUME NEW G, NEW N, NEW p, NEW b, ConnsInv(G, N, p, b), NEW i \in TcpSlot, NEW c, c = G[Client][i], c.port # 0
  PROVE  /\ c \in Conn /\ c.state # "CLOSED" /\ c.state # "SYN_RECEIVED" /\ Sender(Client, c)
         /\ \A s \in N : s.to = Server /\ s.port = c.port => SegOK(s, c.initial_seq, Off(c.seq, c.initial_seq))
         /\ \A s \in N : s.to = Client /\ s.port = c.port =>
              1 <= Off(s.ack, c.initial_seq) /\ Off(s.ack, c.initial_seq) <= Off(c.seq, c.initial_seq)
         /\ \A j \in TcpSlot : G[Server][j].port = c.port =>
              1 <= Off(G[Server][j].ack, c.initial_seq) /\ Off(G[Server][j].ack, c.initial_seq) <= Off(c.seq, c.initial_seq)
<1>1. PICK f \in [Nat -> Num] : ClientInv(G, N, f) BY DEF ConnsInv
<1>2. G \in Conns /\ c \in Conn /\ c.port \in Nat /\ PortInv(G, N, p) BY TcpSizes DEF ConnsInv, Conns, Conn
<1>3. c.state # "CLOSED" BY <1>2, TcpSizes DEF PortInv
<1>4. c.initial_seq = f[c.port] /\ c.state # "SYN_RECEIVED" /\ Sender(Client, c) BY <1>1 DEF ClientInv
<1>5. ASSUME NEW s \in N, s.to = Server, s.port = c.port PROVE SegOK(s, c.initial_seq, Off(c.seq, c.initial_seq))
  <2>1. SegOK(s, f[c.port], MaxBytes[Client] + 3) BY <1>1, <1>5 DEF ClientInv
  <2>2. Off(s.seq, f[c.port]) + Acknowledged(s) <= Off(c.seq, f[c.port]) BY <1>1, <1>5 DEF ClientInv
  <2> QED BY <1>4, <2>1, <2>2 DEF SegOK
<1>6. ASSUME NEW s \in N, s.to = Client, s.port = c.port
      PROVE  1 <= Off(s.ack, f[c.port]) /\ Off(s.ack, f[c.port]) <= Off(c.seq, f[c.port])
  BY <1>1, <1>6 DEF ClientInv
<1>7. ASSUME NEW j \in TcpSlot, G[Server][j].port = c.port
      PROVE  1 <= Off(G[Server][j].ack, f[c.port]) /\ Off(G[Server][j].ack, f[c.port]) <= Off(c.seq, f[c.port])
  BY <1>1, <1>7 DEF ClientInv
<1> QED BY <1>2, <1>3, <1>4, <1>5, <1>6, <1>7

(* What the invariant says of a connection of the server.                  *)
LEMMA ServerFacts ==
  ASSUME NEW G, NEW N, NEW p, NEW b, ConnsInv(G, N, p, b), NEW j \in TcpSlot, NEW d, d = G[Server][j], d.port # 0
  PROVE  d \in Conn /\ d.state # "CLOSED" /\ d.state # "SYN_SENT" /\ d.port \in 1 .. MaxOpens
<1>1. PICK f \in [Nat -> Num] : ClientInv(G, N, f) BY DEF ConnsInv
<1>2. G \in Conns /\ d \in Conn /\ d.port \in Nat /\ PortInv(G, N, p) BY TcpSizes DEF ConnsInv, Conns, Conn
<1>3. d.state # "CLOSED" /\ d.port < p /\ p <= MaxOpens + 1 /\ p \in Nat BY <1>2, TcpSizes DEF PortInv
<1>4. d.state # "SYN_SENT" BY <1>1 DEF ClientInv
<1> QED BY <1>2, <1>3, <1>4, TcpSizes

(* How far a connection of the client can have got.                        *)
LEMMA SenderBound ==
  ASSUME NEW h \in Host, NEW c \in Conn, c.state # "CLOSED", Sender(h, c)
  PROVE  /\ 1 <= Off(c.seq, c.initial_seq) /\ Off(c.seq, c.initial_seq) <= MaxBytes[h] + 3
         /\ c.state \in {"SYN_SENT", "SYN_RECEIVED", "ESTABLISHED"} => Off(c.seq, c.initial_seq) <= MaxBytes[h] + 1
         /\ c.state = "LAST_ACK" => Off(c.seq, c.initial_seq) <= MaxBytes[h] + 2
<1>1. c.seq \in Num /\ c.initial_seq \in Num /\ c.send_head \in Nat /\ c.send_tail \in Nat /\ c.state \in ConnState
  BY DEF Conn
<1>2. PICK o \in Nat : o = Off(c.seq, c.initial_seq) BY <1>1, OffFacts
<1>3. MaxBytes[h] \in Nat BY TcpSizes
<1> QED BY <1>1, <1>2, <1>3 DEF Sender, ConnState

\* A connection that has been given up, or one end of the connection c after a step.
Kept(c, c2) == c2.port = c.port /\ c2.initial_seq = c.initial_seq /\ c2.state # "CLOSED"

\* The connections D of a host become D2, and M is sent to the other host.
Moves(D, D2, M, to) ==
  /\ D2 \in [TcpSlot -> Conn] /\ M \in SUBSET Seg
  /\ \A m \in M : m.to = to /\ \E i \in TcpSlot : m.port = D[i].port /\ D[i].port # 0
  /\ \A i \in TcpSlot : D[i].port = 0 => D2[i].port = 0 /\ D2[i].state = "CLOSED"
  /\ \A i \in TcpSlot : D[i].port # 0 => D2[i] = Unclaimed \/ Kept(D[i], D2[i])

(* A slot that is not claimed.                                             *)
LEMMA UnclaimedType == Unclaimed \in Conn /\ Unclaimed.port = 0 /\ Unclaimed.state = "CLOSED" /\ ~Open(Unclaimed)
<1>1. 0 \in Num /\ 0 \in Nat /\ "CLOSED" \in ConnState BY TcpSizes DEF Num, ConnState
<1>2. [i \in 0 .. TCP_BUFFER - 1 |-> 0] \in [0 .. TCP_BUFFER - 1 -> Int] OBVIOUS
<1>3. <<>> \in Seq(Int) OBVIOUS
<1> QED BY <1>1, <1>2, <1>3 DEF Conn, Unclaimed, Open

(* Ports after a step of one host.                                         *)
LEMMA PortsMove ==
  ASSUME NEW G \in Conns, NEW N, NEW p, PortInv(G, N, p), NEW h \in Host, NEW D2, NEW M, NEW t, Moves(G[h], D2, M, t)
  PROVE  /\ [G EXCEPT ![h] = D2] \in Conns /\ PortInv([G EXCEPT ![h] = D2], N \cup M, p)
<1> DEFINE G2 == [G EXCEPT ![h] = D2]
<1>1. /\ G2 \in Conns /\ G2[h] = D2 /\ \A g \in Host : g # h => G2[g] = G[g] BY DEF Conns, Moves
<1>2. \A i \in TcpSlot : D2[i].port = G[h][i].port \/ D2[i].port = 0 BY UnclaimedType DEF Moves, Kept
<1>3. \A i \in TcpSlot : D2[i].port = 0 <=> D2[i].state = "CLOSED" BY UnclaimedType DEF Moves, Kept
<1>4. p \in Nat /\ p <= MaxOpens + 1 /\ \A g \in Host, i \in TcpSlot : G[g][i].port \in Nat
  BY DEF PortInv, Conns, Conn
<1>5. \A i \in TcpSlot : G[h][i].port < p BY DEF PortInv
<1>6. \A i \in TcpSlot : D2[i].port < p
  <2> SUFFICES ASSUME NEW i \in TcpSlot PROVE D2[i].port < p OBVIOUS
  <2>1. G[h][i].port < p /\ G[h][i].port \in Nat BY <1>4, <1>5
  <2> QED BY <1>2, <1>4, <2>1
<1>7. \A g \in Host, i \in TcpSlot : G2[g][i].port < p /\ (G2[g][i].port = 0 <=> G2[g][i].state = "CLOSED")
  <2> SUFFICES ASSUME NEW g \in Host, NEW i \in TcpSlot
               PROVE  G2[g][i].port < p /\ (G2[g][i].port = 0 <=> G2[g][i].state = "CLOSED") OBVIOUS
  <2> HIDE DEF G2
  <2>1. CASE g = h BY <1>1, <1>3, <1>6, <2>1
  <2>2. CASE g # h BY <1>1, <2>2 DEF PortInv
  <2> QED BY <2>1, <2>2
<1>8. \A g \in Host, i, j \in TcpSlot : G2[g][i].port = G2[g][j].port /\ G2[g][i].port # 0 => i = j
  <2> SUFFICES ASSUME NEW g \in Host, NEW i \in TcpSlot, NEW j \in TcpSlot, G2[g][i].port = G2[g][j].port, G2[g][i].port # 0
               PROVE  i = j OBVIOUS
  <2> HIDE DEF G2
  <2>0. \A x, y \in TcpSlot : G[g][x].port = G[g][y].port /\ G[g][x].port # 0 => x = y BY DEF PortInv
  <2>1. CASE g = h
    <3>1. D2[i].port = D2[j].port /\ D2[i].port # 0 BY <1>1, <2>1
    <3>2. G[h][i].port = G[h][j].port /\ G[h][i].port # 0 BY <1>2, <3>1
    <3> QED BY <2>0, <2>1, <3>2
  <2>2. CASE g # h BY <1>1, <2>0, <2>2
  <2> QED BY <2>1, <2>2
<1>9. \A s \in N \cup M : 0 < s.port /\ s.port < p
  <2> SUFFICES ASSUME NEW s \in M PROVE 0 < s.port /\ s.port < p BY DEF PortInv
  <2>1. PICK i \in TcpSlot : s.port = G[h][i].port /\ G[h][i].port # 0 BY DEF Moves
  <2> QED BY <1>4, <1>5, <2>1
<1> QED BY <1>1, <1>4, <1>7, <1>8, <1>9 DEF PortInv

\* A step of the client's connection c, M being what the client sends.
ClientMove(c, c2, M) ==
  c2 # Unclaimed =>
    /\ c2.state # "SYN_RECEIVED" /\ Sender(Client, c2)
    /\ Off(c.seq, c.initial_seq) <= Off(c2.seq, c.initial_seq)
    /\ \A m \in M : m.port = c.port => SegOK(m, c.initial_seq, Off(c2.seq, c.initial_seq))

\* A step of the server's connection d, M being what the server sends and N what is on the way.
ServerMove(N, d, d2, M) ==
  d2 # Unclaimed =>
    /\ d2.state # "SYN_SENT"
    /\ \/ d2.ack = d.ack
       \/ \E s \in N : s.to = Server /\ s.port = d.port /\ s.seq = d.ack /\ d2.ack = Seqn(d.ack + Acknowledged(s))
    /\ \A m \in M : m.port = d.port => m.ack = d2.ack

\* Nothing is sent on a connection that is given up.
Silent(D, D2, M) == \A i \in TcpSlot, m \in M : D[i].port # 0 /\ D2[i] = Unclaimed => m.port # D[i].port

(* Steps of the client keep what is known of its numbers.                  *)
LEMMA ClientInvClient ==
  ASSUME NEW G, NEW N, NEW p, G \in Conns, N \in SUBSET Seg, PortInv(G, N, p),
         NEW f \in [Nat -> Num], ClientInv(G, N, f),
         NEW D2, NEW M, Moves(G[Client], D2, M, Server), Silent(G[Client], D2, M),
         \A i \in TcpSlot : G[Client][i].port # 0 => ClientMove(G[Client][i], D2[i], M)
  PROVE  ClientInv([G EXCEPT ![Client] = D2], N \cup M, f)
<1> DEFINE G2 == [G EXCEPT ![Client] = D2]
<1>1. G2[Client] = D2 /\ G2[Server] = G[Server] BY TcpSizes DEF Conns
<1>2. \A i \in TcpSlot : G[Client][i] \in Conn /\ D2[i] \in Conn BY TcpSizes DEF Conns, Moves
<1>3. \A i \in TcpSlot : D2[i].port # 0 =>
        /\ G[Client][i].port # 0 /\ Kept(G[Client][i], D2[i]) /\ D2[i] # Unclaimed
        /\ D2[i].port = G[Client][i].port /\ G[Client][i].initial_seq = f[D2[i].port] /\ f[D2[i].port] \in Num
        /\ D2[i].port \in Nat
  <2> SUFFICES ASSUME NEW i \in TcpSlot, D2[i].port # 0
               PROVE  /\ G[Client][i].port # 0 /\ Kept(G[Client][i], D2[i]) /\ D2[i] # Unclaimed
                      /\ D2[i].port = G[Client][i].port /\ G[Client][i].initial_seq = f[D2[i].port] /\ f[D2[i].port] \in Num
                      /\ D2[i].port \in Nat
    OBVIOUS
  <2>1. D2[i] # Unclaimed BY UnclaimedType
  <2>2. G[Client][i].port # 0 /\ Kept(G[Client][i], D2[i]) BY <2>1 DEF Moves
  <2>3. G[Client][i].initial_seq = f[G[Client][i].port] BY <2>2 DEF ClientInv
  <2>4. D2[i].port \in Nat BY <1>2 DEF Conn
  <2> QED BY <2>1, <2>2, <2>3, <2>4 DEF Kept
<1>4. ASSUME NEW i \in TcpSlot, D2[i].port # 0
      PROVE  /\ D2[i].initial_seq = f[D2[i].port] /\ D2[i].state # "SYN_RECEIVED" /\ Sender(Client, D2[i])
             /\ Off(G[Client][i].seq, f[D2[i].port]) <= Off(D2[i].seq, f[D2[i].port])
             /\ Off(D2[i].seq, f[D2[i].port]) <= MaxBytes[Client] + 3
             /\ Off(G[Client][i].seq, f[D2[i].port]) \in Nat /\ Off(D2[i].seq, f[D2[i].port]) \in Nat
  <2>1. ClientMove(G[Client][i], D2[i], M) /\ D2[i] # Unclaimed /\ Kept(G[Client][i], D2[i])
        /\ G[Client][i].initial_seq = f[D2[i].port] BY <1>3, <1>4
  <2>2. D2[i].initial_seq = f[D2[i].port] /\ D2[i].state # "SYN_RECEIVED" /\ Sender(Client, D2[i]) /\ D2[i].state # "CLOSED"
    BY <2>1 DEF ClientMove, Kept
  <2>3. Off(G[Client][i].seq, f[D2[i].port]) <= Off(D2[i].seq, f[D2[i].port]) BY <2>1 DEF ClientMove
  <2>4. Off(D2[i].seq, f[D2[i].port]) <= MaxBytes[Client] + 3 BY <1>2, <2>2, SenderBound, TcpSizes
  <2>5. G[Client][i].seq \in Num /\ D2[i].seq \in Num /\ f[D2[i].port] \in Num BY <1>2, <1>3, <1>4 DEF Conn
  <2> QED BY <2>2, <2>3, <2>4, <2>5, OffFacts
<1>5. ASSUME NEW m \in M
      PROVE  m.to = Server /\ \E i \in TcpSlot : D2[i].port # 0 /\ m.port = D2[i].port /\ SegOK(m, f[m.port], Off(D2[i].seq, f[m.port]))
  <2>1. PICK i \in TcpSlot : m.port = G[Client][i].port /\ G[Client][i].port # 0 BY DEF Moves
  <2>2. D2[i] # Unclaimed BY <2>1 DEF Silent
  <2>3. Kept(G[Client][i], D2[i]) BY <2>1, <2>2 DEF Moves
  <2>4. D2[i].port # 0 /\ m.port = D2[i].port BY <2>1, <2>3 DEF Kept
  <2>5. ClientMove(G[Client][i], D2[i], M) BY <2>1
  <2>6. SegOK(m, G[Client][i].initial_seq, Off(D2[i].seq, G[Client][i].initial_seq))
    BY <2>1, <2>2, <2>5 DEF ClientMove
  <2>7. G[Client][i].initial_seq = f[m.port] BY <1>3, <2>4
  <2>8. m.to = Server BY DEF Moves
  <2> QED BY <2>4, <2>6, <2>7, <2>8
<1>6. \A s \in N \cup M : s.port \in Nat /\ s.port # 0 /\ s.seq \in Num /\ s \in Seg /\ Acknowledged(s) \in Nat
  <2> SUFFICES ASSUME NEW s \in N \cup M PROVE s.port \in Nat /\ s.port # 0 /\ s.seq \in Num /\ s \in Seg /\ Acknowledged(s) \in Nat OBVIOUS
  <2>1. s \in Seg BY DEF Moves
  <2>2. s.port \in Nat /\ s.seq \in Num BY <2>1 DEF Seg
  <2>3. CASE s \in M
    <3>1. PICK i \in TcpSlot : s.port = G[Client][i].port /\ G[Client][i].port # 0 BY <2>3 DEF Moves
    <3> QED BY <2>1, <2>2, <3>1, AcknowledgedNat
  <2>4. CASE s \in N
    <3>1. 0 < s.port BY <2>4 DEF PortInv
    <3> QED BY <2>1, <2>2, <3>1, AcknowledgedNat
  <2> QED BY <2>3, <2>4
<1>6a. \A i, j \in TcpSlot : D2[i].port # 0 /\ D2[i].port = D2[j].port => i = j
  <2> SUFFICES ASSUME NEW i \in TcpSlot, NEW j \in TcpSlot, D2[i].port # 0, D2[i].port = D2[j].port PROVE i = j
    OBVIOUS
  <2>1. G[Client][i].port # 0 /\ G[Client][i].port = G[Client][j].port BY <1>3
  <2> QED BY <2>1, TcpSizes DEF PortInv
<1>7. \A i \in TcpSlot : LET c == G2[Client][i] IN c.port # 0 =>
        /\ c.initial_seq = f[c.port] /\ c.state # "SYN_RECEIVED" /\ Sender(Client, c) BY <1>1, <1>4
<1>8. \A s \in N \cup M : s.to = Server => SegOK(s, f[s.port], MaxBytes[Client] + 3)
  <2> SUFFICES ASSUME NEW s \in M PROVE SegOK(s, f[s.port], MaxBytes[Client] + 3) BY DEF ClientInv
  <2>1. PICK i \in TcpSlot : D2[i].port # 0 /\ s.port = D2[i].port /\ SegOK(s, f[s.port], Off(D2[i].seq, f[s.port]))
    BY <1>5
  <2>2. Off(D2[i].seq, f[s.port]) <= MaxBytes[Client] + 3 /\ Off(D2[i].seq, f[s.port]) \in Nat BY <1>4, <2>1
  <2>3. Off(s.seq, f[s.port]) \in Nat /\ Acknowledged(s) \in Nat BY <1>3, <1>6, <2>1, OffFacts
  <2>4. MaxBytes[Client] \in Nat BY TcpSizes
  <2> QED BY <2>1, <2>2, <2>3, <2>4 DEF SegOK
<1>9. ASSUME NEW s \in N \cup M, NEW i \in TcpSlot, s.to = Server, s.port = D2[i].port
      PROVE  Off(s.seq, f[D2[i].port]) + Acknowledged(s) <= Off(D2[i].seq, f[D2[i].port])
  <2>1. D2[i].port # 0 BY <1>6, <1>9
  <2>2. CASE s \in N
    <3>1. s.port = G[Client][i].port BY <1>3, <1>9, <2>1
    <3>2. Off(s.seq, f[D2[i].port]) + Acknowledged(s) <= Off(G[Client][i].seq, f[D2[i].port])
      BY <1>9, <2>2, <3>1 DEF ClientInv
    <3>3. Off(s.seq, f[D2[i].port]) \in Nat /\ Acknowledged(s) \in Nat BY <1>3, <1>6, <2>1, OffFacts
    <3> QED BY <1>4, <2>1, <3>2, <3>3
  <2>3. CASE s \in M
    <3>1. PICK j \in TcpSlot : D2[j].port # 0 /\ s.port = D2[j].port /\ SegOK(s, f[s.port], Off(D2[j].seq, f[s.port]))
      BY <1>5, <2>3
    <3>2. i = j BY <1>6a, <1>9, <3>1
    <3> QED BY <1>9, <3>1, <3>2 DEF SegOK
  <2> QED BY <2>2, <2>3
<1>10. ASSUME NEW s \in N \cup M, NEW i \in TcpSlot, s.to = Client, s.port = D2[i].port
       PROVE  1 <= Off(s.ack, f[D2[i].port]) /\ Off(s.ack, f[D2[i].port]) <= Off(D2[i].seq, f[D2[i].port])
  <2>1. D2[i].port # 0 BY <1>6, <1>10
  <2>2. s \in N BY <1>5, <1>10, TcpSizes
  <2>3. s.port = G[Client][i].port BY <1>3, <1>10, <2>1
  <2>4. 1 <= Off(s.ack, f[D2[i].port]) /\ Off(s.ack, f[D2[i].port]) <= Off(G[Client][i].seq, f[D2[i].port])
    BY <1>10, <2>2, <2>3 DEF ClientInv
  <2>5. s.ack \in Num BY <2>2 DEF Seg
  <2>6. Off(s.ack, f[D2[i].port]) \in Nat BY <1>3, <2>1, <2>5, OffFacts
  <2> QED BY <1>4, <2>1, <2>4, <2>6
<1>11. \A j \in TcpSlot : LET d == G2[Server][j] IN d.port # 0 =>
       d.state # "SYN_SENT" /\ 1 <= Off(d.ack, f[d.port]) /\ Off(d.ack, f[d.port]) <= MaxBytes[Client] + 3
  BY <1>1 DEF ClientInv
<1>12. ASSUME NEW i \in TcpSlot, NEW j \in TcpSlot, G[Server][j].port = D2[i].port, D2[i].port # 0
       PROVE  Off(G[Server][j].ack, f[D2[i].port]) <= Off(D2[i].seq, f[D2[i].port])
  <2>1. G[Server][j].port = G[Client][i].port /\ G[Client][i].port # 0 BY <1>3, <1>12
  <2>2. Off(G[Server][j].ack, f[D2[i].port]) <= Off(G[Client][i].seq, f[D2[i].port])
    BY <1>12, <2>1 DEF ClientInv
  <2>3. G[Server][j].ack \in Num BY TcpSizes DEF Conns, Conn
  <2>4. Off(G[Server][j].ack, f[D2[i].port]) \in Nat BY <1>3, <1>12, <2>3, OffFacts
  <2> QED BY <1>4, <1>12, <2>2, <2>4
<1> HIDE DEF G2
<1>13. \A s \in N \cup M, i \in TcpSlot : LET c == G2[Client][i] IN s.to = Server /\ s.port = c.port =>
       Off(s.seq, f[c.port]) + Acknowledged(s) <= Off(c.seq, f[c.port]) BY <1>1, <1>9
<1>14. \A s \in N \cup M, i \in TcpSlot : LET c == G2[Client][i] IN s.to = Client /\ s.port = c.port =>
       1 <= Off(s.ack, f[c.port]) /\ Off(s.ack, f[c.port]) <= Off(c.seq, f[c.port]) BY <1>1, <1>10
<1>15. \A i, j \in TcpSlot : LET c == G2[Client][i] IN G2[Server][j].port = c.port /\ c.port # 0 =>
       Off(G2[Server][j].ack, f[c.port]) <= Off(c.seq, f[c.port]) BY <1>1, <1>12
<1>16. ClientInv(G2, N \cup M, f) BY <1>7, <1>8, <1>11, <1>13, <1>14, <1>15 DEF ClientInv
<1> QED BY <1>16 DEF G2

(* Steps of the server keep what is known of the client's numbers.         *)
LEMMA ClientInvServer ==
  ASSUME NEW G, NEW N, NEW p, G \in Conns, N \in SUBSET Seg, PortInv(G, N, p),
         NEW f \in [Nat -> Num], ClientInv(G, N, f),
         NEW D2, NEW M, Moves(G[Server], D2, M, Client), Silent(G[Server], D2, M),
         \A j \in TcpSlot : G[Server][j].port # 0 => ServerMove(N, G[Server][j], D2[j], M)
  PROVE  ClientInv([G EXCEPT ![Server] = D2], N \cup M, f)
<1> DEFINE G2 == [G EXCEPT ![Server] = D2]
<1>1. G2[Server] = D2 /\ G2[Client] = G[Client] BY TcpSizes DEF Conns
<1>2. \A j \in TcpSlot : G[Server][j] \in Conn /\ D2[j] \in Conn /\ G[Client][j] \in Conn
  BY TcpSizes DEF Conns, Moves
<1>3. ASSUME NEW j \in TcpSlot, D2[j].port # 0
      PROVE  /\ G[Server][j].port # 0 /\ D2[j] # Unclaimed /\ D2[j].port = G[Server][j].port
             /\ ServerMove(N, G[Server][j], D2[j], M) /\ D2[j].port \in Nat
             /\ f[D2[j].port] \in Num /\ G[Server][j].ack \in Num /\ D2[j].ack \in Num
  <2>1. D2[j] # Unclaimed BY <1>3, UnclaimedType
  <2>2. G[Server][j].port # 0 /\ Kept(G[Server][j], D2[j]) BY <1>3, <2>1 DEF Moves
  <2>3. D2[j].port \in Nat /\ G[Server][j].ack \in Num /\ D2[j].ack \in Num BY <1>2 DEF Conn
  <2>4. ServerMove(N, G[Server][j], D2[j], M) BY <2>2
  <2> QED BY <2>1, <2>2, <2>3, <2>4 DEF Kept
<1>4. ASSUME NEW s \in N
      PROVE  s.port \in Nat /\ s.port # 0 /\ s.seq \in Num /\ s.ack \in Num /\ Acknowledged(s) \in Nat /\ f[s.port] \in Num
             /\ Off(s.seq, f[s.port]) \in Nat
  <2>1. s \in Seg BY <1>4
  <2>2. s.port \in Nat /\ s.seq \in Num /\ s.ack \in Num BY <2>1 DEF Seg
  <2>3. 0 < s.port BY <1>4 DEF PortInv
  <2>4. f[s.port] \in Num BY <2>2
  <2>5. Off(s.seq, f[s.port]) \in Nat BY <2>2, <2>4, OffFacts
  <2>6. Acknowledged(s) \in Nat BY <2>1, AcknowledgedNat
  <2> QED BY <2>2, <2>3, <2>4, <2>5, <2>6
<1>5. ASSUME NEW j \in TcpSlot, D2[j].port # 0
      PROVE  /\ 1 <= Off(D2[j].ack, f[D2[j].port]) /\ Off(D2[j].ack, f[D2[j].port]) <= MaxBytes[Client] + 3
             /\ \A i \in TcpSlot : G[Client][i].port = D2[j].port => Off(D2[j].ack, f[D2[j].port]) <= Off(G[Client][i].seq, f[D2[j].port])
  <2>0. PICK d, q : d = G[Server][j] /\ q = D2[j].port /\ q = d.port /\ q # 0 /\ q \in Nat /\ d.ack \in Num /\ f[q] \in Num
    BY <1>3, <1>5
  <2>1. 1 <= Off(d.ack, f[q]) /\ Off(d.ack, f[q]) <= MaxBytes[Client] + 3 BY <2>0 DEF ClientInv
  <2>2. \A i \in TcpSlot : G[Client][i].port = q => Off(d.ack, f[q]) <= Off(G[Client][i].seq, f[q])
    BY <2>0 DEF ClientInv
  <2>3. CASE D2[j].ack = d.ack BY <2>0, <2>1, <2>2, <2>3
  <2>4. CASE D2[j].ack # d.ack
    <3>1. PICK s \in N : s.to = Server /\ s.port = q /\ s.seq = d.ack /\ D2[j].ack = Seqn(d.ack + Acknowledged(s))
      BY <1>3, <1>5, <2>0, <2>4 DEF ServerMove
    <3>2. PICK o \in Nat, k \in Nat : o = Off(s.seq, f[q]) /\ k = Acknowledged(s) BY <1>4, <3>1
    <3>3. o + k <= MaxBytes[Client] + 3
      <4>1. SegOK(s, f[q], MaxBytes[Client] + 3) BY <3>1 DEF ClientInv
      <4> QED BY <3>2, <4>1 DEF SegOK
    <3>4. MaxBytes[Client] \in Nat /\ MaxBytes[Client] + 3 < SEQ_RANGE /\ SEQ_RANGE \in Nat BY TcpSizes
    <3>5. Off(d.ack, f[q]) = o BY <3>1, <3>2
    <3>6. Off(d.ack, f[q]) + k < SEQ_RANGE BY <3>3, <3>4, <3>5
    <3>7. Off(Seqn(d.ack + k), f[q]) = o + k BY <2>0, <3>5, <3>6, OffAdd
    <3>8. Off(D2[j].ack, f[q]) = o + k BY <3>1, <3>2, <3>7
    <3>9. \A i \in TcpSlot : G[Client][i].port = q => o + k <= Off(G[Client][i].seq, f[q])
      BY <3>1, <3>2 DEF ClientInv
    <3>10. 1 <= o + k BY <2>1, <3>2, <3>5
    <3> QED BY <2>0, <3>3, <3>8, <3>9, <3>10
  <2> QED BY <2>3, <2>4
<1>6. ASSUME NEW m \in M
      PROVE  m.to = Client /\ m.port # 0 /\ \E j \in TcpSlot : D2[j].port # 0 /\ m.port = D2[j].port /\ m.ack = D2[j].ack
  <2>1. PICK j \in TcpSlot : m.port = G[Server][j].port /\ G[Server][j].port # 0 BY DEF Moves
  <2>2. D2[j] # Unclaimed BY <2>1 DEF Silent
  <2>3. Kept(G[Server][j], D2[j]) BY <2>1, <2>2 DEF Moves
  <2>4. D2[j].port # 0 /\ m.port = D2[j].port BY <2>1, <2>3 DEF Kept
  <2>5. ServerMove(N, G[Server][j], D2[j], M) BY <2>1
  <2>6. m.ack = D2[j].ack BY <2>1, <2>2, <2>5 DEF ServerMove
  <2>7. m.to = Client BY DEF Moves
  <2> QED BY <2>4, <2>6, <2>7
<1> HIDE DEF G2
<1>7. \A i \in TcpSlot : LET c == G2[Client][i] IN c.port # 0 =>
        /\ c.initial_seq = f[c.port] /\ c.state # "SYN_RECEIVED" /\ Sender(Client, c) BY <1>1 DEF ClientInv
<1>8. \A s \in N \cup M : s.to = Server => SegOK(s, f[s.port], MaxBytes[Client] + 3)
  BY <1>6, TcpSizes DEF ClientInv
<1>9. \A s \in N \cup M, i \in TcpSlot : LET c == G2[Client][i] IN s.to = Server /\ s.port = c.port =>
        Off(s.seq, f[c.port]) + Acknowledged(s) <= Off(c.seq, f[c.port])
  BY <1>1, <1>6, TcpSizes DEF ClientInv
<1>10. ASSUME NEW s \in N \cup M, NEW i \in TcpSlot, s.to = Client, s.port = G[Client][i].port
       PROVE  1 <= Off(s.ack, f[s.port]) /\ Off(s.ack, f[s.port]) <= Off(G[Client][i].seq, f[s.port])
  <2>1. CASE s \in N BY <1>10, <2>1 DEF ClientInv
  <2>2. CASE s \in M
    <3>1. PICK j \in TcpSlot : D2[j].port # 0 /\ s.port = D2[j].port /\ s.ack = D2[j].ack BY <1>6, <2>2
    <3> QED BY <1>5, <1>10, <3>1
  <2> QED BY <2>1, <2>2
<1>11. \A s \in N \cup M, i \in TcpSlot : LET c == G2[Client][i] IN s.to = Client /\ s.port = c.port =>
         1 <= Off(s.ack, f[c.port]) /\ Off(s.ack, f[c.port]) <= Off(c.seq, f[c.port]) BY <1>1, <1>10
<1>12. \A j \in TcpSlot : LET d == G2[Server][j] IN d.port # 0 =>
         d.state # "SYN_SENT" /\ 1 <= Off(d.ack, f[d.port]) /\ Off(d.ack, f[d.port]) <= MaxBytes[Client] + 3
  <2> SUFFICES ASSUME NEW j \in TcpSlot, D2[j].port # 0
               PROVE  D2[j].state # "SYN_SENT" /\ 1 <= Off(D2[j].ack, f[D2[j].port]) /\ Off(D2[j].ack, f[D2[j].port]) <= MaxBytes[Client] + 3
    BY <1>1
  <2>1. D2[j].state # "SYN_SENT" BY <1>3 DEF ServerMove
  <2> QED BY <1>5, <2>1
<1>13. \A i, j \in TcpSlot : LET c == G2[Client][i] IN G2[Server][j].port = c.port /\ c.port # 0 =>
         Off(G2[Server][j].ack, f[c.port]) <= Off(c.seq, f[c.port])
  <2> SUFFICES ASSUME NEW i \in TcpSlot, NEW j \in TcpSlot, D2[j].port = G[Client][i].port, G[Client][i].port # 0
               PROVE  Off(D2[j].ack, f[G[Client][i].port]) <= Off(G[Client][i].seq, f[G[Client][i].port])
    BY <1>1
  <2>1. D2[j].port # 0 OBVIOUS
  <2>2. Off(D2[j].ack, f[D2[j].port]) <= Off(G[Client][i].seq, f[D2[j].port]) BY <1>5, <2>1
  <2> QED BY <2>2
<1>14. ClientInv(G2, N \cup M, f) BY <1>7, <1>8, <1>9, <1>11, <1>12, <1>13 DEF ClientInv
<1> QED BY <1>14 DEF G2

\* What a step of the client's connection c, still open, keeps of its pair.
PairClient(D, N, c, c2, M) ==
  /\ Open(c) /\ c2.port = c.port /\ c2.initial_seq = c.initial_seq
  /\ \A s \in N \cup M : s.to = Server /\ s.port = c.port => ToServerOK(c2, s)
  /\ c2.state = "SYN_SENT" => c.state = "SYN_SENT"
  /\ c2.state # "SYN_SENT" => \E j \in TcpSlot : D[j].port = c.port
  /\ \A j \in TcpSlot : D[j].port = c.port =>
       PairOK(c2, D[j]) /\ \A m \in M : m.port = c.port => AckOK(D[j], m)

\* What a step of the server's connection d keeps of its pair with the open connection c.
PairServer(c, d, d2, M) ==
  /\ d2.port = d.port /\ d2.initial_seq = d.initial_seq /\ PairOK(c, d2)
  /\ Off(d.seq, d.initial_seq) <= Off(d2.seq, d.initial_seq)
  /\ d.state \in {"FIN_WAIT_1", "FIN_WAIT_2", "TIME_WAIT"} => d2.state \in {"FIN_WAIT_1", "FIN_WAIT_2", "TIME_WAIT"}
  /\ \A m \in M : m.port = c.port => ToClientOK(c, d2, m)

(* A connection of the client that stays open keeps its pair.              *)
LEMMA PairSlotClient ==
  ASSUME NEW D, NEW N, NEW c, NEW c2, NEW M, PairSlot(D, N, c), PairClient(D, N, c, c2, M), \A m \in M : m.to = Server
  PROVE  PairSlot(D, N \cup M, c2)
<1>1. c2.port = c.port /\ c2.initial_seq = c.initial_seq BY DEF PairClient
<1>2. ASSUME NEW s \in N \cup M, s.port = c2.port
      PROVE  /\ s.to = Server => ToServerOK(c2, s)
             /\ s.to = Client => \E j \in TcpSlot : D[j].port = c2.port
  <2>1. s.to = Server => ToServerOK(c2, s) BY <1>1, <1>2 DEF PairClient
  <2>2. s.to = Client => s \in N BY TcpSizes
  <2>3. s.to = Client => \E j \in TcpSlot : D[j].port = c2.port BY <1>1, <1>2, <2>2 DEF PairSlot
  <2> QED BY <2>1, <2>3
<1>3. c2.state # "SYN_SENT" => \E j \in TcpSlot : D[j].port = c2.port BY <1>1 DEF PairClient
<1>4. ASSUME NEW j \in TcpSlot, D[j].port = c2.port
      PROVE  /\ PairOK(c2, D[j])
             /\ \A s \in N \cup M : s.port = c2.port => /\ s.to = Client => ToClientOK(c2, D[j], s)
                                                        /\ s.to = Server => AckOK(D[j], s)
  <2>1. PairOK(c2, D[j]) BY <1>1, <1>4 DEF PairClient
  <2> SUFFICES ASSUME NEW s \in N \cup M, s.port = c2.port
               PROVE  /\ s.to = Client => ToClientOK(c2, D[j], s)
                      /\ s.to = Server => AckOK(D[j], s)
    BY <2>1
  <2>2. ASSUME s.to = Client PROVE ToClientOK(c2, D[j], s)
    <3>1. s \in N BY <2>2, TcpSizes
    <3>2. ToClientOK(c, D[j], s) BY <1>1, <1>4, <2>2, <3>1 DEF PairSlot
    <3>3. c2.state = "SYN_SENT" => c.state = "SYN_SENT" BY DEF PairClient
    <3> QED BY <3>2, <3>3 DEF ToClientOK
  <2>3. ASSUME s.to = Server PROVE AckOK(D[j], s)
    <3>1. CASE s \in N BY <1>1, <1>4, <2>3, <3>1 DEF PairSlot
    <3>2. CASE s \in M BY <1>1, <1>4, <3>2 DEF PairClient
    <3> QED BY <3>1, <3>2
  <2> QED BY <2>2, <2>3
<1> QED BY <1>2, <1>3, <1>4 DEF PairSlot

(* A connection of the client keeps its pair when the server's connections move. *)
LEMMA PairSlotServer ==
  ASSUME NEW D, NEW N, N \in SUBSET Seg, NEW c, NEW D2, NEW M, PairSlot(D, N, c), \A m \in M : m.to = Client,
         D \in [TcpSlot -> Conn], D2 \in [TcpSlot -> Conn],
         \A m \in M : \E j \in TcpSlot : m.port = D[j].port,
         \A j \in TcpSlot : D2[j].port = c.port => D[j].port = c.port,
         \A j \in TcpSlot : D[j].port = c.port => PairServer(c, D[j], D2[j], M)
  PROVE  PairSlot(D2, N \cup M, c)
<1>1. (\E j \in TcpSlot : D[j].port = c.port) => \E j \in TcpSlot : D2[j].port = c.port BY DEF PairServer
<1>2. ASSUME NEW s \in N \cup M, s.port = c.port
      PROVE  /\ s.to = Server => ToServerOK(c, s)
             /\ s.to = Client => \E j \in TcpSlot : D2[j].port = c.port
  <2>1. CASE s \in N BY <1>1, <1>2, <2>1 DEF PairSlot
  <2>2. CASE s \in M
    <3>1. s.to = Client /\ \E j \in TcpSlot : D[j].port = c.port BY <1>2, <2>2
    <3> QED BY <1>1, <3>1, TcpSizes
  <2> QED BY <2>1, <2>2
<1>3. c.state # "SYN_SENT" => \E j \in TcpSlot : D2[j].port = c.port BY <1>1 DEF PairSlot
<1>4. ASSUME NEW j \in TcpSlot, D2[j].port = c.port
      PROVE  /\ PairOK(c, D2[j])
             /\ \A s \in N \cup M : s.port = c.port => /\ s.to = Client => ToClientOK(c, D2[j], s)
                                                       /\ s.to = Server => AckOK(D2[j], s)
  <2>1. D[j].port = c.port /\ PairServer(c, D[j], D2[j], M) BY <1>4
  <2>2. PairOK(c, D2[j]) BY <2>1 DEF PairServer
  <2> SUFFICES ASSUME NEW s \in N \cup M, s.port = c.port
               PROVE  /\ s.to = Client => ToClientOK(c, D2[j], s)
                      /\ s.to = Server => AckOK(D2[j], s)
    BY <2>2
  <2>3. CASE s \in M BY <2>1, <2>3, TcpSizes DEF PairServer
  <2>4. CASE s \in N
    <3>1. /\ s.to = Client => ToClientOK(c, D[j], s)
          /\ s.to = Server => AckOK(D[j], s) BY <2>1, <2>4 DEF PairSlot
    <3>2. D[j] \in Conn /\ D2[j] \in Conn /\ s \in Seg BY <2>4
    <3>3. D[j].seq \in Num /\ D[j].initial_seq \in Num /\ D2[j].seq \in Num /\ s.seq \in Num /\ s.ack \in Num
      BY <3>2 DEF Conn, Seg
    <3>4. PICK x : x = D[j].initial_seq /\ x = D2[j].initial_seq BY <2>1 DEF PairServer
    <3>5. PICK u \in Nat, v \in Nat, a \in Nat, q \in Nat, k \in Nat :
            u = Off(D[j].seq, x) /\ v = Off(D2[j].seq, x) /\ a = Off(s.ack, x) /\ q = Off(s.seq, x) /\ k = Acknowledged(s)
      BY <3>2, <3>3, <3>4, OffFacts, AcknowledgedNat
    <3>6. u <= v BY <2>1, <3>4, <3>5 DEF PairServer
    <3>7. ASSUME s.to = Client PROVE ToClientOK(c, D2[j], s)
      <4>1. SegOK(s, x, u) BY <3>1, <3>4, <3>5, <3>7 DEF ToClientOK
      <4>2. SegOK(s, x, v) BY <3>5, <3>6, <4>1 DEF SegOK
      <4>3. D[j].state \in {"FIN_WAIT_1", "FIN_WAIT_2", "TIME_WAIT"} => D2[j].state \in {"FIN_WAIT_1", "FIN_WAIT_2", "TIME_WAIT"}
        BY <2>1 DEF PairServer
      <4> QED BY <3>1, <3>4, <3>5, <3>7, <4>2, <4>3 DEF ToClientOK
    <3>8. ASSUME s.to = Server PROVE AckOK(D2[j], s) BY <3>1, <3>4, <3>5, <3>6, <3>8 DEF AckOK
    <3> QED BY <3>7, <3>8
  <2> QED BY <2>3, <2>4
<1> QED BY <1>2, <1>3, <1>4 DEF PairSlot

(* A step of the client.                                                   *)
LEMMA ClientStep ==
  ASSUME NEW G, NEW N, NEW p, NEW b, ConnsInv(G, N, p, b),
         NEW D2, NEW M, Moves(G[Client], D2, M, Server), Silent(G[Client], D2, M),
         \A i \in TcpSlot : G[Client][i].port # 0 => ClientMove(G[Client][i], D2[i], M),
         b \/ \A i \in TcpSlot : G[Client][i].port # 0 /\ Open(D2[i]) => PairClient(G[Server], N, G[Client][i], D2[i], M)
  PROVE  ConnsInv([G EXCEPT ![Client] = D2], N \cup M, p, b)
<1>1. G \in Conns /\ N \in SUBSET Seg /\ PortInv(G, N, p) BY DEF ConnsInv
<1>2. PICK f \in [Nat -> Num] : ClientInv(G, N, f) BY DEF ConnsInv
<1>3. ClientInv([G EXCEPT ![Client] = D2], N \cup M, f) BY <1>1, <1>2, ClientInvClient
<1>4. [G EXCEPT ![Client] = D2] \in Conns /\ PortInv([G EXCEPT ![Client] = D2], N \cup M, p)
  BY <1>1, PortsMove, TcpSizes
<1>5. N \cup M \in SUBSET Seg BY <1>1 DEF Moves
<1>6. ASSUME ~b PROVE PairInv([G EXCEPT ![Client] = D2], N \cup M)
  <2>1. PairInv(G, N) BY <1>6 DEF ConnsInv
  <2>2. [G EXCEPT ![Client] = D2][Client] = D2 /\ [G EXCEPT ![Client] = D2][Server] = G[Server]
    BY <1>1, TcpSizes DEF Conns
  <2>3. ASSUME NEW i \in TcpSlot, Open(D2[i]) PROVE PairSlot(G[Server], N \cup M, D2[i])
    <3>1. G[Client][i].port # 0 BY <2>3 DEF Moves, Open
    <3>2. PairClient(G[Server], N, G[Client][i], D2[i], M) BY <1>6, <2>3, <3>1
    <3>3. Open(G[Client][i]) BY <3>2 DEF PairClient
    <3>4. PairSlot(G[Server], N, G[Client][i]) BY <2>1, <3>3 DEF PairInv
    <3>5. \A m \in M : m.to = Server BY DEF Moves
    <3> QED BY <3>2, <3>4, <3>5, PairSlotClient
  <2> QED BY <2>1, <2>2, <2>3 DEF PairInv
<1> QED BY <1>3, <1>4, <1>5, <1>6 DEF ConnsInv

(* A step of the server.                                                   *)
LEMMA ServerStep ==
  ASSUME NEW G, NEW N, NEW p, NEW b, ConnsInv(G, N, p, b), NEW b2, b => b2,
         NEW D2, NEW M, Moves(G[Server], D2, M, Client), Silent(G[Server], D2, M),
         \A j \in TcpSlot : G[Server][j].port # 0 => ServerMove(N, G[Server][j], D2[j], M),
         b2 \/ \A i, j \in TcpSlot : G[Client][i].port # 0 /\ Open(G[Client][i]) /\ G[Server][j].port = G[Client][i].port =>
                 PairServer(G[Client][i], G[Server][j], D2[j], M),
         b2 \/ \A j \in TcpSlot : D2[j].state = "SYN_RECEIVED" => D2[j].id \in RandomIds
  PROVE  ConnsInv([G EXCEPT ![Server] = D2], N \cup M, p, b2)
<1>1. G \in Conns /\ N \in SUBSET Seg /\ PortInv(G, N, p) BY DEF ConnsInv
<1>2. PICK f \in [Nat -> Num] : ClientInv(G, N, f) BY DEF ConnsInv
<1>3. ClientInv([G EXCEPT ![Server] = D2], N \cup M, f) BY <1>1, <1>2, ClientInvServer
<1>4. [G EXCEPT ![Server] = D2] \in Conns /\ PortInv([G EXCEPT ![Server] = D2], N \cup M, p)
  BY <1>1, PortsMove, TcpSizes
<1>5. N \cup M \in SUBSET Seg BY <1>1 DEF Moves
<1>6. ASSUME ~b2 PROVE PairInv([G EXCEPT ![Server] = D2], N \cup M)
  <2>1. PairInv(G, N) BY <1>6 DEF ConnsInv
  <2>2. [G EXCEPT ![Server] = D2][Server] = D2 /\ [G EXCEPT ![Server] = D2][Client] = G[Client]
    BY <1>1, TcpSizes DEF Conns
  <2>3. ASSUME NEW i \in TcpSlot, Open(G[Client][i]) PROVE PairSlot(D2, N \cup M, G[Client][i])
    <3>0. PICK c : c = G[Client][i] OBVIOUS
    <3>1. c.port # 0 BY <1>1, <2>3, <3>0, TcpSizes DEF PortInv, Open
    <3>2. PairSlot(G[Server], N, c) BY <2>1, <2>3, <3>0 DEF PairInv
    <3>3. \A m \in M : m.to = Client /\ \E j \in TcpSlot : m.port = G[Server][j].port BY DEF Moves
    <3>4. G[Server] \in [TcpSlot -> Conn] /\ D2 \in [TcpSlot -> Conn] BY <1>1, TcpSizes DEF Moves, Conns
    <3>5. \A j \in TcpSlot : D2[j].port = c.port => G[Server][j].port = c.port
      BY <3>1, UnclaimedType DEF Moves, Kept
    <3>6. \A j \in TcpSlot : G[Server][j].port = c.port => PairServer(c, G[Server][j], D2[j], M)
      BY <1>6, <2>3, <3>0, <3>1
    <3>7. PairSlot(D2, N \cup M, c) BY <1>1, <3>2, <3>3, <3>4, <3>5, <3>6, PairSlotServer
    <3> QED BY <3>0, <3>7
  <2> QED BY <1>6, <2>2, <2>3 DEF PairInv
<1> QED BY <1>3, <1>4, <1>5, <1>6 DEF ConnsInv

(* A step of one connection of a host.                                     *)
LEMMA OneMoves ==
  ASSUME NEW D \in [TcpSlot -> Conn], NEW i \in TcpSlot, D[i].port # 0,
         \A k \in TcpSlot : D[k].port = 0 => D[k].state = "CLOSED", \A k \in TcpSlot : D[k].port # 0 => D[k].state # "CLOSED",
         \A j, k \in TcpSlot : D[j].port = D[k].port /\ D[j].port # 0 => j = k,
         NEW c2 \in Conn, c2 = Unclaimed \/ Kept(D[i], c2),
         NEW M \in SUBSET Seg, NEW t, \A m \in M : m.to = t /\ m.port = D[i].port, c2 = Unclaimed => M = {}
  PROVE  /\ Moves(D, [D EXCEPT ![i] = c2], M, t)
         /\ [D EXCEPT ![i] = c2][i] = c2 /\ [D EXCEPT ![i] = c2] \in [TcpSlot -> Conn]
         /\ \A k \in TcpSlot : k # i => [D EXCEPT ![i] = c2][k] = D[k] /\ (D[k].port # 0 => \A m \in M : m.port # D[k].port)
<1> DEFINE D2 == [D EXCEPT ![i] = c2]
<1>1. D2 \in [TcpSlot -> Conn] /\ D2[i] = c2 /\ \A k \in TcpSlot : k # i => D2[k] = D[k] OBVIOUS
<1>2. \A k \in TcpSlot : k # i /\ D[k].port # 0 => \A m \in M : m.port # D[k].port OBVIOUS
<1> HIDE DEF D2
<1>3. \A m \in M : m.to = t /\ \E k \in TcpSlot : m.port = D[k].port /\ D[k].port # 0 OBVIOUS
<1>4. \A k \in TcpSlot : D[k].port = 0 => D2[k].port = 0 /\ D2[k].state = "CLOSED"
  <2> SUFFICES ASSUME NEW k \in TcpSlot, D[k].port = 0 PROVE D2[k].port = 0 /\ D2[k].state = "CLOSED"
    OBVIOUS
  <2>1. k # i OBVIOUS
  <2> QED BY <1>1, <2>1
<1>5. \A k \in TcpSlot : D[k].port # 0 => D2[k] = Unclaimed \/ Kept(D[k], D2[k])
  <2> SUFFICES ASSUME NEW k \in TcpSlot, D[k].port # 0 PROVE D2[k] = Unclaimed \/ Kept(D[k], D2[k]) OBVIOUS
  <2>1. CASE k = i BY <1>1, <2>1
  <2>2. CASE k # i BY <1>1, <2>2 DEF Kept
  <2> QED BY <2>1, <2>2
<1>6. Moves(D, D2, M, t) BY <1>1, <1>3, <1>4, <1>5 DEF Moves
<1>8. \A k \in TcpSlot : k # i => D2[k] = D[k] /\ (D[k].port # 0 => \A m \in M : m.port # D[k].port)
  BY <1>1, <1>2
<1> QED BY <1>1, <1>6, <1>8 DEF D2

(* The slots of a host satisfy what OneMoves asks for.                     *)
LEMMA SlotsOf ==
  ASSUME NEW G, NEW N, NEW p, NEW b, ConnsInv(G, N, p, b), NEW h \in Host
  PROVE  /\ G \in Conns /\ G[h] \in [TcpSlot -> Conn]
         /\ \A k \in TcpSlot : G[h][k].port = 0 => G[h][k].state = "CLOSED"
         /\ \A k \in TcpSlot : G[h][k].port # 0 => G[h][k].state # "CLOSED"
         /\ \A j, k \in TcpSlot : G[h][j].port = G[h][k].port /\ G[h][j].port # 0 => j = k
<1>1. G \in Conns /\ PortInv(G, N, p) BY DEF ConnsInv
<1> QED BY <1>1 DEF PortInv, Conns

(* A step of one connection of the client.                                 *)
LEMMA ClientSlotStep ==
  ASSUME NEW G, NEW N, NEW p, NEW b, ConnsInv(G, N, p, b), NEW i \in TcpSlot, NEW c, c = G[Client][i], c.port # 0,
         NEW c2 \in Conn, c2 = Unclaimed \/ Kept(c, c2),
         NEW M \in SUBSET Seg, \A m \in M : m.to = Server /\ m.port = c.port, c2 = Unclaimed => M = {},
         ClientMove(c, c2, M), b \/ (Open(c2) => PairClient(G[Server], N, c, c2, M))
  PROVE  ConnsInv([G EXCEPT ![Client] = [G[Client] EXCEPT ![i] = c2]], N \cup M, p, b)
<1> DEFINE D == G[Client]
           D2 == [G[Client] EXCEPT ![i] = c2]
<1>0. /\ D \in [TcpSlot -> Conn] /\ D[i] = c
      /\ \A k \in TcpSlot : D[k].port = 0 => D[k].state = "CLOSED"
      /\ \A k \in TcpSlot : D[k].port # 0 => D[k].state # "CLOSED"
      /\ \A l, k \in TcpSlot : D[l].port = D[k].port /\ D[l].port # 0 => l = k
  BY SlotsOf, TcpSizes
<1>1. /\ Moves(D, D2, M, Server) /\ Silent(D, D2, M) /\ D2[i] = c2
      /\ \A k \in TcpSlot : k # i => D2[k] = D[k] /\ (D[k].port # 0 => \A m \in M : m.port # D[k].port)
  <2> HIDE DEF D
  <2>0. D[i].port # 0 /\ (c2 = Unclaimed \/ Kept(D[i], c2)) /\ \A m \in M : m.to = Server /\ m.port = D[i].port
    BY <1>0
  <2>1. Moves(D, [D EXCEPT ![i] = c2], M, Server) BY <1>0, <2>0, OneMoves
  <2>2. /\ [D EXCEPT ![i] = c2][i] = c2
        /\ \A k \in TcpSlot : k # i => [D EXCEPT ![i] = c2][k] = D[k] /\ (D[k].port # 0 => \A m \in M : m.port # D[k].port)
    BY <1>0, OneMoves
  <2>3. D2 = [D EXCEPT ![i] = c2] BY DEF D
  <2> HIDE DEF D2
  <2>4. Silent(D, D2, M)
    <3> SUFFICES ASSUME NEW k \in TcpSlot, NEW m \in M, D[k].port # 0, D2[k] = Unclaimed PROVE m.port # D[k].port
      BY DEF Silent
    <3>1. k # i BY <2>2, <2>3
    <3> QED BY <2>2, <3>1
  <2> QED BY <2>1, <2>2, <2>3, <2>4
<1> HIDE DEF D2
<1>2. ASSUME NEW k \in TcpSlot, D[k].port # 0 PROVE ClientMove(D[k], D2[k], M)
  <2>1. CASE k = i BY <1>1, <2>1
  <2>2. CASE k # i
    <3>1. D[k] \in Conn /\ D[k].state # "SYN_RECEIVED" /\ Sender(Client, D[k]) BY <1>2, ClientFacts
    <3>2. D[k].seq \in Num /\ D[k].initial_seq \in Num BY <3>1 DEF Conn
    <3>3. Off(D[k].seq, D[k].initial_seq) \in Nat BY <3>2, OffFacts
    <3>4. D2[k] = D[k] /\ \A m \in M : m.port # D[k].port BY <1>1, <1>2, <2>2
    <3> QED BY <3>1, <3>3, <3>4 DEF ClientMove
  <2> QED BY <2>1, <2>2
<1>3. ASSUME ~b, NEW k \in TcpSlot, D[k].port # 0, Open(D2[k]) PROVE PairClient(G[Server], N, D[k], D2[k], M)
  <2>1. CASE k = i BY <1>1, <1>3, <2>1
  <2>2. CASE k # i
    <3>1. D2[k] = D[k] /\ \A m \in M : m.port # D[k].port BY <1>1, <1>3, <2>2
    <3>2. Open(D[k]) BY <1>3, <3>1
    <3>3. PairSlot(G[Server], N, D[k]) BY <1>3, <3>2 DEF ConnsInv, PairInv
    <3> HIDE DEF D
    <3>4. PairClient(G[Server], N, D[k], D[k], M) BY <3>1, <3>2, <3>3 DEF PairClient, PairSlot
    <3> QED BY <3>1, <3>4
  <2> QED BY <2>1, <2>2
<1>4. b \/ \A k \in TcpSlot : D[k].port # 0 /\ Open(D2[k]) => PairClient(G[Server], N, D[k], D2[k], M)
  BY <1>3
<1>5. ConnsInv([G EXCEPT ![Client] = D2], N \cup M, p, b) BY <1>1, <1>2, <1>4, ClientStep
<1> QED BY <1>5 DEF D2

(* A step of one connection of the server.                                 *)
LEMMA ServerSlotStep ==
  ASSUME NEW G, NEW N, NEW p, NEW b, ConnsInv(G, N, p, b), NEW j \in TcpSlot, NEW d, d = G[Server][j], d.port # 0,
         NEW d2 \in Conn, d2 = Unclaimed \/ Kept(d, d2),
         NEW M \in SUBSET Seg, \A m \in M : m.to = Client /\ m.port = d.port, d2 = Unclaimed => M = {},
         ServerMove(N, d, d2, M), d2.state = "SYN_RECEIVED" => d.state = "SYN_RECEIVED" /\ d2.id = d.id,
         b \/ \A i \in TcpSlot : G[Client][i].port # 0 /\ Open(G[Client][i]) /\ d.port = G[Client][i].port =>
                PairServer(G[Client][i], d, d2, M)
  PROVE  ConnsInv([G EXCEPT ![Server] = [G[Server] EXCEPT ![j] = d2]], N \cup M, p, b)
<1> DEFINE D == G[Server]
           D2 == [G[Server] EXCEPT ![j] = d2]
<1>0. /\ D \in [TcpSlot -> Conn] /\ D[j] = d
      /\ \A k \in TcpSlot : D[k].port = 0 => D[k].state = "CLOSED"
      /\ \A k \in TcpSlot : D[k].port # 0 => D[k].state # "CLOSED"
      /\ \A l, k \in TcpSlot : D[l].port = D[k].port /\ D[l].port # 0 => l = k
  BY SlotsOf, TcpSizes
<1>1. /\ Moves(D, D2, M, Client) /\ Silent(D, D2, M) /\ D2[j] = d2
      /\ \A k \in TcpSlot : k # j => D2[k] = D[k] /\ (D[k].port # 0 => \A m \in M : m.port # D[k].port)
  <2> HIDE DEF D
  <2>0. D[j].port # 0 /\ (d2 = Unclaimed \/ Kept(D[j], d2)) /\ \A m \in M : m.to = Client /\ m.port = D[j].port
    BY <1>0
  <2>1. Moves(D, [D EXCEPT ![j] = d2], M, Client) BY <1>0, <2>0, OneMoves
  <2>2. /\ [D EXCEPT ![j] = d2][j] = d2
        /\ \A k \in TcpSlot : k # j => [D EXCEPT ![j] = d2][k] = D[k] /\ (D[k].port # 0 => \A m \in M : m.port # D[k].port)
    BY <1>0, OneMoves
  <2>3. D2 = [D EXCEPT ![j] = d2] BY DEF D
  <2> HIDE DEF D2
  <2>4. Silent(D, D2, M)
    <3> SUFFICES ASSUME NEW k \in TcpSlot, NEW m \in M, D[k].port # 0, D2[k] = Unclaimed PROVE m.port # D[k].port
      BY DEF Silent
    <3>1. k # j BY <2>2, <2>3
    <3> QED BY <2>2, <3>1
  <2> QED BY <2>1, <2>2, <2>3, <2>4
<1> HIDE DEF D2
<1>2. ASSUME NEW k \in TcpSlot, D[k].port # 0 PROVE ServerMove(N, D[k], D2[k], M)
  <2>1. CASE k = j BY <1>1, <2>1
  <2>2. CASE k # j
    <3>1. D[k].state # "SYN_SENT" BY <1>2, ServerFacts
    <3>2. D2[k] = D[k] /\ \A m \in M : m.port # D[k].port BY <1>1, <1>2, <2>2
    <3> QED BY <3>1, <3>2 DEF ServerMove
  <2> QED BY <2>1, <2>2
<1>3. ASSUME ~b, NEW i \in TcpSlot, NEW k \in TcpSlot, G[Client][i].port # 0, Open(G[Client][i]), D[k].port = G[Client][i].port
      PROVE  PairServer(G[Client][i], D[k], D2[k], M)
  <2>1. CASE k = j BY <1>1, <1>3, <2>1
  <2>2. CASE k # j
    <3>1. D2[k] = D[k] /\ \A m \in M : m.port # D[k].port BY <1>1, <1>3, <2>2
    <3>2. PairSlot(G[Server], N, G[Client][i]) BY <1>3 DEF ConnsInv, PairInv
    <3>3. D[k] \in Conn BY SlotsOf, TcpSizes
    <3>4. D[k].seq \in Num /\ D[k].initial_seq \in Num BY <3>3 DEF Conn
    <3>5. Off(D[k].seq, D[k].initial_seq) \in Nat BY <3>4, OffFacts
    <3>6. PairOK(G[Client][i], D[k]) BY <1>3, <3>2 DEF PairSlot
    <3> HIDE DEF D
    <3>7. PairServer(G[Client][i], D[k], D[k], M) BY <1>3, <3>1, <3>5, <3>6 DEF PairServer
    <3> QED BY <3>1, <3>7
  <2> QED BY <2>1, <2>2
<1>4. ASSUME ~b, NEW k \in TcpSlot, D2[k].state = "SYN_RECEIVED" PROVE D2[k].id \in RandomIds
  <2>1. \A l \in TcpSlot : D[l].state = "SYN_RECEIVED" => D[l].id \in RandomIds
    BY <1>4 DEF ConnsInv, PairInv
  <2>2. CASE k = j BY <1>1, <1>4, <2>1, <2>2
  <2>3. CASE k # j BY <1>1, <1>4, <2>1, <2>3
  <2> QED BY <2>2, <2>3
<1>5. /\ b \/ \A i, k \in TcpSlot : G[Client][i].port # 0 /\ Open(G[Client][i]) /\ D[k].port = G[Client][i].port =>
                PairServer(G[Client][i], D[k], D2[k], M)
      /\ b \/ \A k \in TcpSlot : D2[k].state = "SYN_RECEIVED" => D2[k].id \in RandomIds BY <1>3, <1>4
<1>6. b => b OBVIOUS
<1>7. ConnsInv([G EXCEPT ![Server] = D2], N \cup M, p, b) BY <1>1, <1>2, <1>5, <1>6, ServerStep
<1> QED BY <1>7 DEF D2

\* A connection after tcp_send_buffered_data.
AfterFlushOne(c) == [c EXCEPT !.send_tail = Seqn(@ + Unsent(c)), !.seq = Seqn(@ + Unsent(c))]

(* tcp_send_buffered_data changes seq and send_tail only.                  *)
LEMMA FlushFields ==
  ASSUME NEW c \in Conn
  PROVE  /\ Unsent(c) \in Nat /\ (c.state # "ESTABLISHED" => Unsent(c) = 0)
         /\ AfterFlushOne(c) \in Conn
         /\ AfterFlushOne(c).port = c.port /\ AfterFlushOne(c).id = c.id /\ AfterFlushOne(c).state = c.state
         /\ AfterFlushOne(c).ack = c.ack /\ AfterFlushOne(c).initial_seq = c.initial_seq
         /\ AfterFlushOne(c).send_head = c.send_head
         /\ AfterFlushOne(c).seq = Seqn(c.seq + Unsent(c)) /\ AfterFlushOne(c).send_tail = Seqn(c.send_tail + Unsent(c))
<1>1. c.send_head \in Nat /\ c.send_tail \in Nat /\ c.seq \in Num /\ c.seq \in Int BY TcpSizes DEF Conn, Num
<1>2. Unsent(c) \in Nat /\ (c.state # "ESTABLISHED" => Unsent(c) = 0)
  <2>1. Seqn(c.send_head - c.send_tail) \in Nat BY <1>1, SeqnRange
  <2> QED BY <2>1 DEF Unsent
<1>3. PICK u \in Nat : u = Unsent(c) BY <1>2
<1>4. PICK x \in Num, y \in Nat : x = Seqn(c.seq + u) /\ y = Seqn(c.send_tail + u) BY <1>1, SeqnRange
<1>5. AfterFlushOne(c) = [c EXCEPT !.send_tail = y, !.seq = x] BY <1>3, <1>4 DEF AfterFlushOne
<1>6. /\ AfterFlushOne(c) \in Conn
      /\ AfterFlushOne(c).port = c.port /\ AfterFlushOne(c).id = c.id /\ AfterFlushOne(c).state = c.state
      /\ AfterFlushOne(c).ack = c.ack /\ AfterFlushOne(c).initial_seq = c.initial_seq
      /\ AfterFlushOne(c).send_head = c.send_head
      /\ AfterFlushOne(c).seq = x /\ AfterFlushOne(c).send_tail = y BY <1>5 DEF Conn
<1> QED BY <1>2, <1>3, <1>4, <1>6

(* It sends what is between send_tail and send_head.                       *)
LEMMA FlushSender ==
  ASSUME NEW h \in Host, NEW c \in Conn, c.state # "CLOSED", Sender(h, c)
  PROVE  /\ Sender(h, AfterFlushOne(c))
         /\ Off(AfterFlushOne(c).seq, c.initial_seq) = Off(c.seq, c.initial_seq) + Unsent(c)
         /\ Off(c.seq, c.initial_seq) \in Nat
         /\ c.state # "ESTABLISHED" => AfterFlushOne(c).seq = c.seq
<1>1. c.send_head \in Nat /\ c.send_tail \in Nat /\ c.seq \in Num /\ c.initial_seq \in Num /\ c.state \in ConnState
  BY DEF Conn
<1>2. PICK o \in Nat : o = Off(c.seq, c.initial_seq) /\ o < SEQ_RANGE BY <1>1, OffFacts
<1>3. SEQ_RANGE \in Nat /\ SEQ_RANGE > 3 /\ MaxBytes[h] \in Nat /\ MaxBytes[h] + 3 < SEQ_RANGE BY TcpSizes
<1>4. PICK u \in Nat : u = Unsent(c) BY FlushFields
<1>5. PICK d : d = AfterFlushOne(c) OBVIOUS
<1>6. /\ d.state = c.state /\ d.initial_seq = c.initial_seq /\ d.send_head = c.send_head
      /\ d.seq = Seqn(c.seq + u) /\ d.send_tail = Seqn(c.send_tail + u) BY <1>4, <1>5, FlushFields
<1>7. CASE c.state = "ESTABLISHED"
  <2>1. o = 1 + c.send_tail /\ c.send_tail <= c.send_head /\ c.send_head <= MaxBytes[h]
    BY <1>2, <1>7 DEF Sender
  <2>2. c.send_head - c.send_tail \in Num BY <1>1, <1>3, <2>1 DEF Num
  <2>3. u = c.send_head - c.send_tail BY <1>1, <1>4, <1>7, <2>2, SeqnRange DEF Unsent
  <2>4. o + u < SEQ_RANGE BY <1>1, <1>3, <2>1, <2>3
  <2>5. Off(d.seq, c.initial_seq) = o + u BY <1>1, <1>2, <1>6, <2>4, OffAdd
  <2>6. c.send_tail + u = c.send_head /\ c.send_head \in Num BY <1>1, <1>3, <2>1, <2>3 DEF Num
  <2>7. d.send_tail = c.send_head BY <1>1, <1>6, <2>6, SeqnRange
  <2>8. o + u = 1 + c.send_head BY <1>1, <2>1, <2>3
  <2>9. Sender(h, d) BY <1>1, <1>6, <1>7, <2>1, <2>5, <2>7, <2>8 DEF Sender
  <2> QED BY <1>2, <1>4, <1>5, <1>7, <2>5, <2>9
<1>8. CASE c.state # "ESTABLISHED"
  <2>1. u = 0 BY <1>4, <1>8, FlushFields
  <2>2. d.seq = c.seq
    <3>1. c.seq + u = c.seq BY <1>1, <2>1 DEF Num
    <3>2. c.seq \in Int BY <1>1, <1>3 DEF Num
    <3> QED BY <1>1, <1>6, <3>1, <3>2, SeqnRange
  <2>3. Off(d.seq, c.initial_seq) = o + u BY <1>2, <2>1, <2>2
  <2>4. c.send_tail = 0 => d.send_tail = 0
    <3>1. 0 \in Num BY <1>3 DEF Num
    <3>2. c.send_tail = 0 => c.send_tail + u = 0 BY <2>1
    <3> QED BY <1>6, <3>1, <3>2, SeqnRange
  <2>5. Sender(h, d) BY <1>2, <1>6, <1>8, <2>2, <2>4 DEF Sender
  <2> QED BY <1>2, <1>4, <1>5, <2>2, <2>3, <2>5
<1> QED BY <1>7, <1>8

(* What tcp_send_buffered_data does to the connections of a host.          *)
LEMMA FlushMoves ==
  ASSUME NEW h \in Host, NEW D \in [TcpSlot -> Conn],
         \A k \in TcpSlot : D[k].port = 0 => D[k].state = "CLOSED", \A k \in TcpSlot : D[k].port # 0 => D[k].state # "CLOSED"
  PROVE  /\ Moves(D, AfterFlush(D), Flushed(h, D), Peer(h)) /\ Silent(D, AfterFlush(D), Flushed(h, D))
         /\ \A i \in TcpSlot : AfterFlush(D)[i] = AfterFlushOne(D[i])
         /\ \A m \in Flushed(h, D) : \E i \in TcpSlot :
              /\ D[i].port # 0 /\ D[i].state = "ESTABLISHED" /\ m.port = D[i].port /\ m.seq = D[i].seq /\ m.ack = D[i].ack
              /\ m.flags = {"ACK"} /\ Acknowledged(m) = Unsent(D[i])
<1> DEFINE D2 == AfterFlush(D)
           M == Flushed(h, D)
<1>1. \A i \in TcpSlot : D2[i] = AfterFlushOne(D[i]) BY DEF AfterFlush, AfterFlushOne
<1>2. D2 = [i \in TcpSlot |-> AfterFlushOne(D[i])] BY DEF AfterFlush, AfterFlushOne
<1>3. D2 \in [TcpSlot -> Conn] BY <1>2, FlushFields
<1>4. ASSUME NEW m \in M
      PROVE  /\ m \in Seg /\ m.to = Peer(h)
             /\ \E i \in TcpSlot :
                 /\ D[i].port # 0 /\ D[i].state = "ESTABLISHED" /\ m.port = D[i].port /\ m.seq = D[i].seq /\ m.ack = D[i].ack
                 /\ m.flags = {"ACK"} /\ Acknowledged(m) = Unsent(D[i])
  <2>1. PICK i \in TcpSlot : /\ Unsent(D[i]) # 0
                             /\ m = Segment(h, D[i], {"ACK"}, [k \in 1 .. Unsent(D[i]) |-> SendByte(D[i], D[i].send_tail + k)])
    BY <1>4 DEF Flushed
  <2>2. D[i] \in Conn /\ D[i].port \in Nat /\ D[i].seq \in Num /\ D[i].ack \in Num /\ D[i].send_head \in Nat /\ D[i].send_tail \in Nat
    BY DEF Conn
  <2>3. PICK u \in Nat : u = Unsent(D[i]) BY <2>2, FlushFields
  <2>4. PICK w : w = [k \in 1 .. u |-> SendByte(D[i], D[i].send_tail + k)] OBVIOUS
  <2>5. \A n \in Int : SendByte(D[i], n) \in Int
    <3> SUFFICES ASSUME NEW n \in Int PROVE SendByte(D[i], n) \in Int OBVIOUS
    <3>1. PICK q \in Int : q = (D[i].send_head - n) \div TCP_BUFFER BY <2>2, TcpSizes, DivLemma
    <3> QED BY <3>1, TcpSizes DEF SendByte
  <2>6. w \in [1 .. u -> Int] BY <2>2, <2>4, <2>5
  <2>7. w \in Seq(Int) /\ Len(w) = u BY <2>6, FunctionIsSeq
  <2>8. m = [to |-> Peer(h), port |-> D[i].port, seq |-> D[i].seq, ack |-> D[i].ack, flags |-> {"ACK"}, data |-> w]
    BY <2>1, <2>3, <2>4 DEF Segment
  <2>9. Peer(h) \in Host /\ {"ACK"} \in SUBSET Flag BY TcpSizes DEF Host, Flag
  <2>10. m \in Seg BY <2>2, <2>7, <2>8, <2>9 DEF Seg
  <2>11. m.flags = {"ACK"} /\ m.data = w BY <2>8
  <2>12. m.flags \cap {"SYN", "FIN"} = {} BY <2>11
  <2>13. Acknowledged(m) = u BY <2>7, <2>11, <2>12 DEF Acknowledged
  <2>14. D[i].state = "ESTABLISHED" BY <2>1, <2>2, FlushFields
  <2>15. D[i].port # 0 BY <2>14
  <2> QED BY <2>3, <2>8, <2>10, <2>13, <2>14, <2>15
<1>5. \A i \in TcpSlot : D2[i].port = D[i].port /\ D2[i].state = D[i].state /\ D2[i].initial_seq = D[i].initial_seq
  BY <1>1, FlushFields
<1> HIDE DEF M, D2
<1>6. \A i \in TcpSlot : D[i].port = 0 => D2[i].port = 0 /\ D2[i].state = "CLOSED" BY <1>5
<1>7. \A i \in TcpSlot : D[i].port # 0 => Kept(D[i], D2[i]) BY <1>5 DEF Kept
<1>8. \A m \in M : m.to = Peer(h) /\ \E i \in TcpSlot : m.port = D[i].port /\ D[i].port # 0 BY <1>4
<1>9. M \in SUBSET Seg BY <1>4
<1>10. Moves(D, D2, M, Peer(h)) BY <1>3, <1>6, <1>7, <1>8, <1>9 DEF Moves
<1>11. Silent(D, D2, M)
  <2> SUFFICES ASSUME NEW i \in TcpSlot, D[i].port # 0, D2[i] = Unclaimed PROVE FALSE BY DEF Silent
  <2>1. D2[i].port = D[i].port BY <1>5
  <2> QED BY <2>1, UnclaimedType
<1> QED BY <1>1, <1>4, <1>10, <1>11 DEF M, D2

(* The flush keeps the invariant, at the client.                           *)
LEMMA FlushClient ==
  ASSUME NEW G, NEW N, NEW p, NEW b, ConnsInv(G, N, p, b)
  PROVE  ConnsInv([G EXCEPT ![Client] = AfterFlush(G[Client])], N \cup Flushed(Client, G[Client]), p, b)
<1> DEFINE D == G[Client]
           D2 == AfterFlush(G[Client])
           M == Flushed(Client, G[Client])
<1>1. /\ D \in [TcpSlot -> Conn]
      /\ \A k \in TcpSlot : D[k].port = 0 => D[k].state = "CLOSED"
      /\ \A k \in TcpSlot : D[k].port # 0 => D[k].state # "CLOSED"
      /\ \A l, k \in TcpSlot : D[l].port = D[k].port /\ D[l].port # 0 => l = k
  BY SlotsOf, TcpSizes
<1>2. /\ Moves(D, D2, M, Server) /\ Silent(D, D2, M)
      /\ \A i \in TcpSlot : D2[i] = AfterFlushOne(D[i])
      /\ \A m \in M : \E i \in TcpSlot :
              /\ D[i].port # 0 /\ D[i].state = "ESTABLISHED" /\ m.port = D[i].port /\ m.seq = D[i].seq /\ m.ack = D[i].ack
              /\ m.flags = {"ACK"} /\ Acknowledged(m) = Unsent(D[i])
  <2> HIDE DEF D
  <2>1. /\ Moves(D, AfterFlush(D), Flushed(Client, D), Server) /\ Silent(D, AfterFlush(D), Flushed(Client, D))
        /\ \A i \in TcpSlot : AfterFlush(D)[i] = AfterFlushOne(D[i])
        /\ \A m \in Flushed(Client, D) : \E i \in TcpSlot :
              /\ D[i].port # 0 /\ D[i].state = "ESTABLISHED" /\ m.port = D[i].port /\ m.seq = D[i].seq /\ m.ack = D[i].ack
              /\ m.flags = {"ACK"} /\ Acknowledged(m) = Unsent(D[i])
    BY <1>1, FlushMoves, TcpSizes
  <2> QED BY <2>1 DEF D
<1> HIDE DEF D2, M
<1>3. ASSUME NEW i \in TcpSlot, NEW m \in M, D[i].port # 0, m.port = D[i].port
      PROVE  /\ D[i].state = "ESTABLISHED" /\ m.seq = D[i].seq /\ m.ack = D[i].ack
             /\ m.flags = {"ACK"} /\ Acknowledged(m) = Unsent(D[i])
  <2>1. PICK k \in TcpSlot :
              /\ D[k].port # 0 /\ D[k].state = "ESTABLISHED" /\ m.port = D[k].port /\ m.seq = D[k].seq /\ m.ack = D[k].ack
              /\ m.flags = {"ACK"} /\ Acknowledged(m) = Unsent(D[k]) BY <1>2
  <2>2. k = i BY <1>1, <1>3, <2>1
  <2> QED BY <2>1, <2>2
<1>4. ASSUME NEW i \in TcpSlot, D[i].port # 0
      PROVE  /\ D[i] \in Conn /\ D[i].state # "CLOSED" /\ D[i].state # "SYN_RECEIVED" /\ Sender(Client, D[i])
             /\ Sender(Client, D2[i]) /\ Off(D[i].seq, D[i].initial_seq) \in Nat /\ Unsent(D[i]) \in Nat
             /\ Off(D2[i].seq, D[i].initial_seq) = Off(D[i].seq, D[i].initial_seq) + Unsent(D[i])
             /\ 1 <= Off(D[i].seq, D[i].initial_seq)
             /\ D2[i].port = D[i].port /\ D2[i].state = D[i].state /\ D2[i].ack = D[i].ack /\ D2[i].initial_seq = D[i].initial_seq
             /\ D[i].state # "ESTABLISHED" => D2[i].seq = D[i].seq
  <2>1. D[i] \in Conn /\ D[i].state # "CLOSED" /\ D[i].state # "SYN_RECEIVED" /\ Sender(Client, D[i])
    BY <1>4, ClientFacts
  <2>2. D2[i] = AfterFlushOne(D[i]) BY <1>2
  <2> HIDE DEF D
  <2>3. /\ Sender(Client, D2[i]) /\ Off(D[i].seq, D[i].initial_seq) \in Nat
        /\ Off(D2[i].seq, D[i].initial_seq) = Off(D[i].seq, D[i].initial_seq) + Unsent(D[i])
        /\ D[i].state # "ESTABLISHED" => D2[i].seq = D[i].seq BY <2>1, <2>2, FlushSender, TcpSizes
  <2>4. D2[i].port = D[i].port /\ D2[i].state = D[i].state /\ D2[i].ack = D[i].ack /\ D2[i].initial_seq = D[i].initial_seq
        /\ Unsent(D[i]) \in Nat
    BY <2>1, <2>2, FlushFields
  <2>5. 1 <= Off(D[i].seq, D[i].initial_seq) BY <2>1, SenderBound, TcpSizes
  <2> QED BY <2>1, <2>3, <2>4, <2>5
<1>5. ASSUME NEW i \in TcpSlot, D[i].port # 0 PROVE ClientMove(D[i], D2[i], M)
  <2>1. ASSUME NEW m \in M, m.port = D[i].port PROVE SegOK(m, D[i].initial_seq, Off(D2[i].seq, D[i].initial_seq))
    <3>1. m.seq = D[i].seq /\ m.flags = {"ACK"} /\ Acknowledged(m) = Unsent(D[i]) BY <1>3, <1>5, <2>1
    <3>2. "SYN" \notin m.flags BY <3>1
    <3> QED BY <1>4, <1>5, <3>1, <3>2 DEF SegOK
  <2> QED BY <1>4, <1>5, <2>1 DEF ClientMove
<1>6. ASSUME ~b, NEW i \in TcpSlot, D[i].port # 0, Open(D2[i]) PROVE PairClient(G[Server], N, D[i], D2[i], M)
  <2>1. PICK c, c2 : c = D[i] /\ c2 = D2[i] OBVIOUS
  <2>2. /\ c2.port = c.port /\ c2.state = c.state /\ c2.ack = c.ack /\ c2.initial_seq = c.initial_seq
        /\ c.state # "ESTABLISHED" => c2.seq = c.seq BY <1>4, <1>6, <2>1
  <2>3. Open(c) BY <1>6, <2>1, <2>2 DEF Open
  <2>4. PairSlot(G[Server], N, c) BY <1>6, <2>1, <2>3 DEF ConnsInv, PairInv
  <2>5. ASSUME NEW s \in N \cup M, s.to = Server, s.port = c.port PROVE ToServerOK(c2, s)
    <3>1. CASE s \in N
      <4>1. ToServerOK(c, s) BY <2>4, <2>5, <3>1 DEF PairSlot
      <4> QED BY <2>2, <4>1 DEF ToServerOK
    <3>2. CASE s \in M
      <4>1. c.state = "ESTABLISHED" /\ s.flags = {"ACK"} BY <1>3, <1>6, <2>1, <2>5, <3>2
      <4> QED BY <2>2, <4>1 DEF ToServerOK
    <3> QED BY <3>1, <3>2
  <2>6. ASSUME NEW j \in TcpSlot, G[Server][j].port = c.port
        PROVE  PairOK(c2, G[Server][j]) /\ \A m \in M : m.port = c.port => AckOK(G[Server][j], m)
    <3>1. PairOK(c, G[Server][j]) BY <2>4, <2>6 DEF PairSlot
    <3>2. G[Server][j].state = "TIME_WAIT" => c.state # "ESTABLISHED" BY <3>1 DEF PairOK
    <3>3. PairOK(c2, G[Server][j]) BY <2>2, <3>1, <3>2 DEF PairOK
    <3>4. ASSUME NEW m \in M, m.port = c.port PROVE AckOK(G[Server][j], m)
      <4>1. c.state = "ESTABLISHED" /\ m.ack = c.ack BY <1>3, <1>6, <2>1, <3>4
      <4> QED BY <3>1, <4>1 DEF AckOK, PairOK
    <3> QED BY <3>3, <3>4
  <2>7. c2.state # "SYN_SENT" => \E j \in TcpSlot : G[Server][j].port = c.port BY <2>2, <2>4 DEF PairSlot
  <2>8. PairClient(G[Server], N, c, c2, M) BY <2>2, <2>3, <2>5, <2>6, <2>7 DEF PairClient
  <2> QED BY <2>1, <2>8
<1>7. b \/ \A i \in TcpSlot : D[i].port # 0 /\ Open(D2[i]) => PairClient(G[Server], N, D[i], D2[i], M)
  BY <1>6
<1>8. ConnsInv([G EXCEPT ![Client] = D2], N \cup M, p, b) BY <1>2, <1>5, <1>7, ClientStep
<1> QED BY <1>8 DEF D2, M

(* The flush keeps the invariant, at the server.                           *)
LEMMA FlushServer ==
  ASSUME NEW G, NEW N, NEW p, NEW b, ConnsInv(G, N, p, b)
  PROVE  ConnsInv([G EXCEPT ![Server] = AfterFlush(G[Server])], N \cup Flushed(Server, G[Server]), p, b)
<1> DEFINE D == G[Server]
           D2 == AfterFlush(G[Server])
           M == Flushed(Server, G[Server])
<1>1. /\ D \in [TcpSlot -> Conn]
      /\ \A k \in TcpSlot : D[k].port = 0 => D[k].state = "CLOSED"
      /\ \A k \in TcpSlot : D[k].port # 0 => D[k].state # "CLOSED"
      /\ \A l, k \in TcpSlot : D[l].port = D[k].port /\ D[l].port # 0 => l = k
  BY SlotsOf, TcpSizes
<1>2. /\ Moves(D, D2, M, Client) /\ Silent(D, D2, M)
      /\ \A i \in TcpSlot : D2[i] = AfterFlushOne(D[i])
      /\ \A m \in M : \E i \in TcpSlot :
              /\ D[i].port # 0 /\ D[i].state = "ESTABLISHED" /\ m.port = D[i].port /\ m.seq = D[i].seq /\ m.ack = D[i].ack
              /\ m.flags = {"ACK"} /\ Acknowledged(m) = Unsent(D[i])
  <2> HIDE DEF D
  <2>1. /\ Moves(D, AfterFlush(D), Flushed(Server, D), Client) /\ Silent(D, AfterFlush(D), Flushed(Server, D))
        /\ \A i \in TcpSlot : AfterFlush(D)[i] = AfterFlushOne(D[i])
        /\ \A m \in Flushed(Server, D) : \E i \in TcpSlot :
              /\ D[i].port # 0 /\ D[i].state = "ESTABLISHED" /\ m.port = D[i].port /\ m.seq = D[i].seq /\ m.ack = D[i].ack
              /\ m.flags = {"ACK"} /\ Acknowledged(m) = Unsent(D[i])
    BY <1>1, FlushMoves, TcpSizes
  <2> QED BY <2>1 DEF D
<1> HIDE DEF D2, M
<1>3. ASSUME NEW i \in TcpSlot, NEW m \in M, D[i].port # 0, m.port = D[i].port
      PROVE  /\ D[i].state = "ESTABLISHED" /\ m.seq = D[i].seq /\ m.ack = D[i].ack
             /\ m.flags = {"ACK"} /\ Acknowledged(m) = Unsent(D[i])
  <2>1. PICK k \in TcpSlot :
              /\ D[k].port # 0 /\ D[k].state = "ESTABLISHED" /\ m.port = D[k].port /\ m.seq = D[k].seq /\ m.ack = D[k].ack
              /\ m.flags = {"ACK"} /\ Acknowledged(m) = Unsent(D[k]) BY <1>2
  <2>2. k = i BY <1>1, <1>3, <2>1
  <2> QED BY <2>1, <2>2
<1>4. ASSUME NEW j \in TcpSlot
      PROVE  /\ D2[j].port = D[j].port /\ D2[j].state = D[j].state /\ D2[j].ack = D[j].ack /\ D2[j].initial_seq = D[j].initial_seq
             /\ D2[j].id = D[j].id /\ Unsent(D[j]) \in Nat
  BY <1>1, <1>2, FlushFields
<1>5. ASSUME NEW j \in TcpSlot, D[j].port # 0 PROVE ServerMove(N, D[j], D2[j], M)
  <2>1. D[j].state # "SYN_SENT" BY <1>5, ServerFacts
  <2>2. \A m \in M : m.port = D[j].port => m.ack = D[j].ack BY <1>3, <1>5
  <2> QED BY <1>4, <2>1, <2>2 DEF ServerMove
<1>6. ASSUME ~b, NEW i \in TcpSlot, NEW j \in TcpSlot, G[Client][i].port # 0, Open(G[Client][i]), D[j].port = G[Client][i].port
      PROVE  PairServer(G[Client][i], D[j], D2[j], M)
  <2>1. PICK c, d, d2 : c = G[Client][i] /\ d = D[j] /\ d2 = D2[j] OBVIOUS
  <2>2. PairSlot(G[Server], N, c) BY <1>6, <2>1 DEF ConnsInv, PairInv
  <2>3. PairOK(c, d) BY <1>6, <2>1, <2>2 DEF PairSlot
  <2>4. /\ d2.port = d.port /\ d2.state = d.state /\ d2.ack = d.ack /\ d2.initial_seq = d.initial_seq /\ d2 = AfterFlushOne(d)
        /\ Unsent(d) \in Nat BY <1>2, <1>4, <2>1
  <2>5. d \in Conn /\ d.state # "CLOSED" /\ Sender(Server, d) BY <1>1, <1>6, <2>1, <2>3 DEF PairOK
  <2>6. /\ Sender(Server, d2) /\ Off(d.seq, d.initial_seq) \in Nat
        /\ Off(d2.seq, d.initial_seq) = Off(d.seq, d.initial_seq) + Unsent(d)
        /\ 1 <= Off(d.seq, d.initial_seq) BY <2>4, <2>5, FlushSender, SenderBound, TcpSizes
  <2>7. c.ack \in Num /\ d.initial_seq \in Num
    <3>1. c \in Conn BY <2>1, SlotsOf, TcpSizes
    <3> QED BY <2>5, <3>1 DEF Conn
  <2>8. Off(c.ack, d.initial_seq) \in Nat BY <2>7, OffFacts
  <2>9. PairOK(c, d2) BY <2>3, <2>4, <2>6, <2>8 DEF PairOK
  <2>10. ASSUME NEW m \in M, m.port = c.port PROVE ToClientOK(c, d2, m)
    <3>1. d.state = "ESTABLISHED" /\ m.seq = d.seq /\ m.flags = {"ACK"} /\ Acknowledged(m) = Unsent(d)
      BY <1>3, <1>6, <2>1, <2>10
    <3>2. "SYN" \notin m.flags /\ "FIN" \notin m.flags BY <3>1
    <3>3. c.state # "SYN_SENT" BY <2>3, <3>1 DEF PairOK
    <3>4. SegOK(m, d2.initial_seq, Off(d2.seq, d2.initial_seq)) BY <2>4, <2>6, <3>1, <3>2 DEF SegOK
    <3> QED BY <3>1, <3>2, <3>3, <3>4 DEF ToClientOK
  <2>11. PairServer(c, d, d2, M) BY <2>4, <2>6, <2>9, <2>10 DEF PairServer
  <2> QED BY <2>1, <2>11
<1>7. /\ b \/ \A i, j \in TcpSlot : G[Client][i].port # 0 /\ Open(G[Client][i]) /\ D[j].port = G[Client][i].port =>
                PairServer(G[Client][i], D[j], D2[j], M)
      /\ b \/ \A j \in TcpSlot : D2[j].state = "SYN_RECEIVED" => D2[j].id \in RandomIds
  <2>1. b \/ \A j \in TcpSlot : D[j].state = "SYN_RECEIVED" => D[j].id \in RandomIds
    BY DEF ConnsInv, PairInv
  <2> QED BY <1>4, <1>6, <2>1
<1>8. b => b OBVIOUS
<1>9. ConnsInv([G EXCEPT ![Server] = D2], N \cup M, p, b) BY <1>2, <1>5, <1>7, <1>8, ServerStep
<1> QED BY <1>9 DEF D2, M

(* tcp_send_buffered_data keeps the invariant.                             *)
LEMMA FlushStep ==
  ASSUME NEW G, NEW N, NEW p, NEW b, ConnsInv(G, N, p, b), NEW h \in Host
  PROVE  ConnsInv([G EXCEPT ![h] = AfterFlush(G[h])], N \cup Flushed(h, G[h]), p, b)
<1>1. h = Client \/ h = Server BY DEF Host
<1> QED BY <1>1, FlushClient, FlushServer

(* A step of one connection that changes neither its numbers nor its state *)
(* and sends nothing.                                                      *)
LEMMA QuietStep ==
  ASSUME NEW G, NEW N, NEW p, NEW b, ConnsInv(G, N, p, b), NEW h \in Host, NEW i \in TcpSlot,
         NEW c, c = G[h][i], c.port # 0, NEW c2 \in Conn,
         c2.port = c.port, c2.id = c.id, c2.state = c.state, c2.seq = c.seq, c2.ack = c.ack, c2.initial_seq = c.initial_seq,
         c2.send_tail = c.send_tail, c.send_head <= c2.send_head, c2.send_head <= MaxBytes[h] \/ c2.send_head = c.send_head
  PROVE  ConnsInv([G EXCEPT ![h] = [G[h] EXCEPT ![i] = c2]], N, p, b)
<1>1. c \in Conn /\ c.state # "CLOSED" BY SlotsOf
<1>2. Kept(c, c2) BY <1>1 DEF Kept
<1>3. c.seq \in Num /\ c.initial_seq \in Num /\ c.send_head \in Nat /\ c2.send_head \in Nat /\ c.send_tail \in Nat
  BY <1>1 DEF Conn
<1>4. Off(c.seq, c.initial_seq) \in Nat BY <1>3, OffFacts
<1>5. Sender(h, c) => Sender(h, c2)
  <2>1. MaxBytes[h] \in Nat BY TcpSizes
  <2> QED BY <1>3, <2>1 DEF Sender
<1>6. {} \in SUBSET Seg /\ N \cup {} = N OBVIOUS
<1>7. CASE h = Client
  <2>1. c.state # "SYN_RECEIVED" /\ Sender(Client, c) BY <1>7, ClientFacts
  <2>2. ClientMove(c, c2, {}) BY <1>4, <1>5, <1>7, <2>1 DEF ClientMove
  <2>3. ASSUME ~b, Open(c2) PROVE PairClient(G[Server], N, c, c2, {})
    <3>1. Open(c) BY <2>3 DEF Open
    <3>2. PairSlot(G[Server], N, c) BY <1>7, <2>3, <3>1 DEF ConnsInv, PairInv
    <3>3. ASSUME NEW s \in N \cup {}, s.to = Server, s.port = c.port PROVE ToServerOK(c2, s)
      <4>1. ToServerOK(c, s) BY <3>2, <3>3 DEF PairSlot
      <4> QED BY <4>1 DEF ToServerOK
    <3>4. ASSUME NEW j \in TcpSlot, G[Server][j].port = c.port PROVE PairOK(c2, G[Server][j])
      <4>1. PairOK(c, G[Server][j]) BY <3>2, <3>4 DEF PairSlot
      <4> QED BY <4>1 DEF PairOK
    <3>5. c2.state # "SYN_SENT" => \E j \in TcpSlot : G[Server][j].port = c.port BY <3>2 DEF PairSlot
    <3> QED BY <3>1, <3>3, <3>4, <3>5 DEF PairClient
  <2>4. ConnsInv([G EXCEPT ![Client] = [G[Client] EXCEPT ![i] = c2]], N \cup {}, p, b)
    <3>1. c2 = Unclaimed \/ Kept(c, c2) BY <1>2
    <3>2. b \/ (Open(c2) => PairClient(G[Server], N, c, c2, {})) BY <2>3
    <3>3. c = G[Client][i] BY <1>7
    <3> QED BY <1>6, <2>2, <3>1, <3>2, <3>3, ClientSlotStep
  <2> QED BY <1>6, <1>7, <2>4
<1>8. CASE h = Server
  <2>1. c.state # "SYN_SENT" BY <1>8, ServerFacts
  <2>2. ServerMove(N, c, c2, {}) BY <2>1 DEF ServerMove
  <2>3. ASSUME ~b, NEW k \in TcpSlot, G[Client][k].port # 0, Open(G[Client][k]), c.port = G[Client][k].port
        PROVE  PairServer(G[Client][k], c, c2, {})
    <3>1. PairSlot(G[Server], N, G[Client][k]) BY <2>3 DEF ConnsInv, PairInv
    <3>2. PairOK(G[Client][k], c) BY <1>8, <2>3, <3>1 DEF PairSlot
    <3>3. PairOK(G[Client][k], c2) BY <1>5, <1>8, <3>2 DEF PairOK
    <3> QED BY <1>4, <3>3 DEF PairServer
  <2>4. ConnsInv([G EXCEPT ![Server] = [G[Server] EXCEPT ![i] = c2]], N \cup {}, p, b)
    <3>1. c2 = Unclaimed \/ Kept(c, c2) BY <1>2
    <3>2. b \/ \A k \in TcpSlot : G[Client][k].port # 0 /\ Open(G[Client][k]) /\ c.port = G[Client][k].port =>
                PairServer(G[Client][k], c, c2, {}) BY <2>3
    <3>3. c = G[Server][i] BY <1>8
    <3>4. c2.state = "SYN_RECEIVED" => c.state = "SYN_RECEIVED" /\ c2.id = c.id OBVIOUS
    <3> QED BY <1>6, <2>2, <3>1, <3>2, <3>3, <3>4, ServerSlotStep
  <2> QED BY <1>6, <1>8, <2>4
<1> QED BY <1>7, <1>8 DEF Host

(* tcp_send keeps the invariant.                                           *)
LEMMA SendStep ==
  ASSUME TcpInv, NEW h \in Host, NEW i \in TcpSlot, NEW len \in 1 .. MaxBytes[h], tcp_send(h, i, len)
  PROVE  TcpInv'
<1> DEFINE G == g_active_sockets
           c == G[h][i]
           c2 == [c EXCEPT !.send_head = @ + len]
           cs == [G[h] EXCEPT ![i] = c2]
<1>1. ConnsInv(G, tcpNet, port, halfopen) /\ halfopen \in BOOLEAN BY DEF TcpInv
<1>2. G \in Conns /\ c \in Conn /\ G[h] \in [TcpSlot -> Conn] BY <1>1, SlotsOf
<1>3. cs = [g_active_sockets[h] EXCEPT ![i].send_head = @ + len] BY <1>2
<1>4. c.port # 0 BY DEF tcp_send, Held
<1>5. cs[i] = c2 BY <1>2
<1>6. c2.send_head <= MaxBytes[h]
  <2> HIDE DEF c2
  <2> QED BY <1>3, <1>5 DEF tcp_send
<1>7. c.send_head \in Nat /\ len \in Nat /\ MaxBytes[h] \in Nat BY <1>2, TcpSizes DEF Conn
<1>8. c2 \in Conn /\ c2.port = c.port /\ c2.id = c.id /\ c2.state = c.state /\ c2.seq = c.seq /\ c2.ack = c.ack
      /\ c2.initial_seq = c.initial_seq /\ c2.send_tail = c.send_tail /\ c2.send_head = c.send_head + len
  <2> HIDE DEF c
  <2>1. PICK y \in Nat : y = c.send_head + len BY <1>7
  <2>2. c2 = [c EXCEPT !.send_head = y] BY <2>1
  <2> HIDE DEF c2
  <2> QED BY <1>2, <2>1, <2>2 DEF Conn
<1>9. c.send_head <= c2.send_head BY <1>7, <1>8
<1> HIDE DEF c2
<1>10. ConnsInv([G EXCEPT ![h] = cs], tcpNet, port, halfopen) BY <1>1, <1>4, <1>6, <1>8, <1>9, QuietStep
<1>11. [G EXCEPT ![h] = cs][h] = cs BY <1>2 DEF Conns
<1>12. [[G EXCEPT ![h] = cs] EXCEPT ![h] = AfterFlush(cs)] = [G EXCEPT ![h] = AfterFlush(cs)]
  BY <1>2 DEF Conns
<1> HIDE DEF cs
<1>13. ConnsInv([G EXCEPT ![h] = AfterFlush(cs)], tcpNet \cup Flushed(h, cs), port, halfopen)
  <2>1. PICK H : H = [G EXCEPT ![h] = cs] OBVIOUS
  <2>2. ConnsInv([H EXCEPT ![h] = AfterFlush(H[h])], tcpNet \cup Flushed(h, H[h]), port, halfopen)
    BY <1>10, <2>1, FlushStep
  <2>3. H[h] = cs BY <1>11, <2>1
  <2> QED BY <1>12, <2>1, <2>2, <2>3
<1>14. /\ g_active_sockets' = [G EXCEPT ![h] = AfterFlush(cs)]
       /\ tcpNet' = tcpNet \cup Flushed(h, cs) /\ port' = port /\ halfopen' = halfopen
  BY <1>3 DEF tcp_send
<1> QED BY <1>1, <1>13, <1>14 DEF TcpInv

(* tcp_receive keeps the invariant.                                        *)
LEMMA TcpReceiveStep ==
  ASSUME TcpInv, NEW h \in Host, NEW i \in TcpSlot, tcp_receive(h, i)
  PROVE  TcpInv'
<1> DEFINE G == g_active_sockets
           c == G[h][i]
           n == Available(c)
           w == [k \in 1 .. n |-> RingByte(c, c.recv_tail + k - 1)]
           c2 == [c EXCEPT !.recv_tail = c.recv_head, !.got = @ \o w]
<1>1. ConnsInv(G, tcpNet, port, halfopen) /\ halfopen \in BOOLEAN BY DEF TcpInv
<1>2. G \in Conns /\ c \in Conn /\ G[h] \in [TcpSlot -> Conn] BY <1>1, SlotsOf
<1>3. c.port # 0 BY DEF tcp_receive, Held
<1>4. /\ c.recv_head \in Num /\ c.recv_tail \in Num /\ c.recv_head \in Int /\ c.recv_tail \in Int
      /\ c.got \in Seq(Int) /\ c.recv_buf \in [0 .. TCP_BUFFER - 1 -> Int] /\ c.send_head \in Nat
  <2> HIDE DEF c
  <2>1. /\ c.recv_head \in Num /\ c.recv_tail \in Num /\ c.got \in Seq(Int) /\ c.send_head \in Nat
        /\ c.recv_buf \in [0 .. TCP_BUFFER - 1 -> Int] BY <1>2 DEF Conn
  <2> QED BY <2>1, TcpSizes DEF Num
<1>5. n \in Nat
  <2>1. PICK z \in Int : z = c.recv_head - c.recv_tail BY <1>4
  <2>2. Seqn(z) \in Nat BY <2>1, SeqnRange
  <2> HIDE DEF c
  <2> QED BY <2>1, <2>2 DEF Available
<1>6. w \in Seq(Int)
  <2>1. \A k \in 1 .. n : RingByte(c, c.recv_tail + k - 1) \in Int
    <3> SUFFICES ASSUME NEW k \in 1 .. n PROVE RingByte(c, c.recv_tail + k - 1) \in Int OBVIOUS
    <3> HIDE DEF n, c
    <3>1. c.recv_tail + k - 1 \in Int BY <1>4, <1>5
    <3>2. (c.recv_tail + k - 1) % TCP_BUFFER \in 0 .. TCP_BUFFER - 1 BY <3>1, ModRange, TcpSizes
    <3> QED BY <1>4, <3>2 DEF RingByte
  <2>2. w \in [1 .. n -> Int] BY <2>1
  <2> HIDE DEF w, n
  <2> QED BY <1>5, <2>2, FunctionIsSeq
<1>7. c.got \o w \in Seq(Int) BY <1>4, <1>6
<1>8. c2 \in Conn /\ c2.port = c.port /\ c2.id = c.id /\ c2.state = c.state /\ c2.seq = c.seq /\ c2.ack = c.ack
      /\ c2.initial_seq = c.initial_seq /\ c2.send_tail = c.send_tail /\ c2.send_head = c.send_head
  <2> HIDE DEF w, c
  <2> QED BY <1>2, <1>4, <1>7 DEF Conn
<1>9. /\ g_active_sockets' = [G EXCEPT ![h][i] = c2] /\ tcpNet' = tcpNet /\ port' = port /\ halfopen' = halfopen
  BY DEF tcp_receive
<1> HIDE DEF c2
<1>10. c.send_head <= c2.send_head BY <1>4, <1>8
<1>11. ConnsInv([G EXCEPT ![h] = [G[h] EXCEPT ![i] = c2]], tcpNet, port, halfopen)
  BY <1>1, <1>3, <1>8, <1>10, QuietStep
<1>12. [G EXCEPT ![h][i] = c2] = [G EXCEPT ![h] = [G[h] EXCEPT ![i] = c2]] BY <1>2 DEF Conns
<1> QED BY <1>1, <1>9, <1>11, <1>12 DEF TcpInv

(* What send_header does to a connection, and the segment it sends.        *)
LEMMA HeaderFields ==
  ASSUME NEW c \in Conn, NEW F \in SUBSET Flag
  PROVE  LET d == AfterHeader(c, F)
         IN  /\ d \in Conn /\ d.port = c.port /\ d.id = c.id /\ d.state = c.state /\ d.ack = c.ack
             /\ d.initial_seq = c.initial_seq /\ d.send_head = c.send_head /\ d.send_tail = c.send_tail
             /\ d.seq = IF F \cap {"SYN", "FIN"} # {} THEN Seqn(c.seq + 1) ELSE c.seq
<1>1. c.seq \in Num /\ c.seq \in Int BY TcpSizes DEF Conn, Num
<1>2. PICK x \in Num : x = Seqn(c.seq + 1) BY <1>1, SeqnRange
<1>3. CASE F \cap {"SYN", "FIN"} # {}
  <2>1. AfterHeader(c, F) = [c EXCEPT !.seq = x] BY <1>2, <1>3 DEF AfterHeader
  <2>2. LET d == [c EXCEPT !.seq = x]
        IN  /\ d \in Conn /\ d.port = c.port /\ d.id = c.id /\ d.state = c.state /\ d.ack = c.ack
            /\ d.initial_seq = c.initial_seq /\ d.send_head = c.send_head /\ d.send_tail = c.send_tail
            /\ d.seq = x
    BY DEF Conn
  <2> QED BY <1>2, <1>3, <2>1, <2>2, Zenon
<1>4. CASE F \cap {"SYN", "FIN"} = {} BY <1>4 DEF AfterHeader
<1> QED BY <1>3, <1>4

(* A segment without data.                                                 *)
LEMMA HeaderSegment ==
  ASSUME NEW h \in Host, NEW c \in Conn, NEW F \in SUBSET Flag
  PROVE  LET m == Segment(h, c, F, <<>>)
         IN  /\ m \in Seg /\ m.to = Peer(h) /\ m.port = c.port /\ m.seq = c.seq /\ m.ack = c.ack /\ m.flags = F /\ m.data = <<>>
             /\ Acknowledged(m) = IF F \cap {"SYN", "FIN"} # {} THEN 1 ELSE 0
<1> DEFINE m == Segment(h, c, F, <<>>)
<1>1. c.port \in Nat /\ c.seq \in Num /\ c.ack \in Num BY DEF Conn
<1>2. m = [to |-> Peer(h), port |-> c.port, seq |-> c.seq, ack |-> c.ack, flags |-> F, data |-> <<>>]
  BY DEF Segment
<1>3. Peer(h) \in Host /\ <<>> \in Seq(Int) BY TcpSizes DEF Host
<1> HIDE DEF m
<1>4. m \in Seg BY <1>1, <1>2, <1>3 DEF Seg
<1>5. m.to = Peer(h) /\ m.port = c.port /\ m.seq = c.seq /\ m.ack = c.ack /\ m.flags = F /\ m.data = <<>>
  BY <1>2
<1>6. Acknowledged(m) = IF m.flags \cap {"SYN", "FIN"} # {} THEN 1 ELSE 0 BY <1>4, <1>5, AcknowledgedNat
<1> QED BY <1>4, <1>5, <1>6 DEF m

(* tcp_terminate_connection keeps the invariant.                           *)
LEMMA TerminateStep ==
  ASSUME TcpInv, NEW h \in Host, NEW i \in TcpSlot, tcp_terminate_connection(h, i)
  PROVE  TcpInv'
<1>0. PICK G, N, p, b : G = g_active_sockets /\ N = tcpNet /\ p = port /\ b = halfopen OBVIOUS
<1>1. ConnsInv(G, N, p, b) /\ b \in BOOLEAN BY <1>0 DEF TcpInv
<1>2. PICK c : c = G[h][i] OBVIOUS
<1>3. G \in Conns /\ c \in Conn /\ c.port # 0 /\ c.id = c.port /\ c.state # "CLOSED"
  <2>1. c.port # 0 /\ c.id = c.port BY <1>0, <1>2 DEF tcp_terminate_connection, Held
  <2> QED BY <1>1, <1>2, <2>1, SlotsOf
<1>4. c.state \notin {"FIN_WAIT_1", "FIN_WAIT_2", "TIME_WAIT"} BY <1>0, <1>2 DEF tcp_terminate_connection
<1>5. PICK c1 : c1 = [c EXCEPT !.state = "FIN_WAIT_1"] OBVIOUS
<1>6. /\ c1 \in Conn /\ c1.port = c.port /\ c1.id = c.id /\ c1.state = "FIN_WAIT_1" /\ c1.ack = c.ack /\ c1.seq = c.seq
      /\ c1.initial_seq = c.initial_seq /\ c1.send_head = c.send_head /\ c1.send_tail = c.send_tail
  BY <1>3, <1>5 DEF Conn, ConnState
<1>7. PICK c2, m : c2 = AfterHeader(c1, {"FIN"}) /\ m = Segment(h, c1, {"FIN"}, <<>>) OBVIOUS
<1>8. {"FIN"} \in SUBSET Flag /\ {"FIN"} \cap {"SYN", "FIN"} # {} BY DEF Flag
<1>9. /\ c2 \in Conn /\ c2.port = c.port /\ c2.id = c.id /\ c2.state = "FIN_WAIT_1" /\ c2.ack = c.ack /\ c2.seq = Seqn(c.seq + 1)
      /\ c2.initial_seq = c.initial_seq /\ c2.send_head = c.send_head /\ c2.send_tail = c.send_tail
  BY <1>6, <1>7, <1>8, HeaderFields
<1>10. /\ m \in Seg /\ m.to = Peer(h) /\ m.port = c.port /\ m.seq = c.seq /\ m.ack = c.ack /\ m.flags = {"FIN"} /\ m.data = <<>>
       /\ Acknowledged(m) = 1
  <2>1. PICK F \in SUBSET Flag : F = {"FIN"} /\ F \cap {"SYN", "FIN"} # {} BY <1>8
  <2>2. m = Segment(h, c1, F, <<>>) /\ c1 \in Conn BY <1>6, <1>7, <2>1
  <2>3. /\ m \in Seg /\ m.to = Peer(h) /\ m.port = c1.port /\ m.seq = c1.seq /\ m.ack = c1.ack /\ m.flags = F /\ m.data = <<>>
        /\ Acknowledged(m) = IF F \cap {"SYN", "FIN"} # {} THEN 1 ELSE 0 BY <2>2, HeaderSegment
  <2> QED BY <1>6, <2>1, <2>3
<1>11. /\ g_active_sockets' = [G EXCEPT ![h][i] = c2] /\ tcpNet' = N \cup {m} /\ port' = p /\ halfopen' = b
  BY <1>0, <1>2, <1>5, <1>7 DEF tcp_terminate_connection
<1>12. [G EXCEPT ![h][i] = c2] = [G EXCEPT ![h] = [G[h] EXCEPT ![i] = c2]] BY <1>3 DEF Conns
<1>13. Kept(c, c2) /\ c2 # Unclaimed /\ ~Open(c2) BY <1>3, <1>9, UnclaimedType DEF Kept, Open
<1>14. c.seq \in Num /\ c.initial_seq \in Num BY <1>3 DEF Conn
<1>15. ASSUME Sender(h, c), Off(c.seq, c.initial_seq) <= MaxBytes[h] + 2
       PROVE  /\ Sender(h, c2) /\ Off(c2.seq, c.initial_seq) = Off(c.seq, c.initial_seq) + 1
              /\ Off(c.seq, c.initial_seq) \in Nat /\ 1 <= Off(c.seq, c.initial_seq)
              /\ SegOK(m, c.initial_seq, Off(c2.seq, c.initial_seq))
  <2>1. PICK o \in Nat : o = Off(c.seq, c.initial_seq) BY <1>14, OffFacts
  <2>2. 1 <= o BY <1>3, <1>15, <2>1, SenderBound
  <2>3. MaxBytes[h] \in Nat /\ MaxBytes[h] + 3 < SEQ_RANGE /\ SEQ_RANGE \in Nat BY TcpSizes
  <2>4. o + 1 < SEQ_RANGE BY <1>15, <2>1, <2>3
  <2>5. Off(c2.seq, c.initial_seq) = o + 1 BY <1>9, <1>14, <2>1, <2>4, OffAdd
  <2>6. Sender(h, c2) BY <1>9, <1>15, <2>1, <2>2, <2>3, <2>5 DEF Sender
  <2>7. SegOK(m, c.initial_seq, Off(c2.seq, c.initial_seq)) BY <1>10, <2>1, <2>2, <2>5 DEF SegOK
  <2> QED BY <2>1, <2>2, <2>5, <2>6, <2>7
<1>16. PICK M : M = {m} OBVIOUS
<1>16a. M \in SUBSET Seg /\ (c2 = Unclaimed => M = {}) /\ (c2 = Unclaimed \/ Kept(c, c2))
  BY <1>10, <1>13, <1>16
<1>17. CASE h = Client
  <2>1. Sender(Client, c) /\ c.state # "SYN_RECEIVED" BY <1>1, <1>2, <1>3, <1>17, ClientFacts
  <2>2. Off(c.seq, c.initial_seq) <= MaxBytes[Client] + 2
    <3>1. c.state \in {"SYN_SENT", "ESTABLISHED", "LAST_ACK"} BY <1>3, <1>4, <2>1 DEF Conn, ConnState
    <3>2. PICK o \in Nat : o = Off(c.seq, c.initial_seq) BY <1>14, OffFacts
    <3>3. MaxBytes[Client] \in Nat BY TcpSizes
    <3> QED BY <1>3, <2>1, <3>1, <3>2, <3>3, SenderBound, TcpSizes
  <2>3. ClientMove(c, c2, M) BY <1>9, <1>15, <1>16, <1>17, <2>1, <2>2 DEF ClientMove
  <2>4. \A n \in M : n.to = Server /\ n.port = c.port BY <1>10, <1>16, <1>17, TcpSizes
  <2>5. b \/ (Open(c2) => PairClient(G[Server], N, c, c2, M)) BY <1>13
  <2>6. ConnsInv([G EXCEPT ![Client] = [G[Client] EXCEPT ![i] = c2]], N \cup M, p, b)
    <3>1. c = G[Client][i] /\ c.port # 0 /\ c2 \in Conn BY <1>2, <1>3, <1>9, <1>17
    <3> QED BY <1>1, <1>16a, <2>3, <2>4, <2>5, <3>1, ClientSlotStep
  <2> QED BY <1>1, <1>11, <1>12, <1>16, <1>17, <2>6 DEF TcpInv
<1>18. CASE h = Server
  <2>1. c.state # "SYN_SENT" /\ c.port \in 1 .. MaxOpens BY <1>1, <1>2, <1>3, <1>18, ServerFacts
  <2>2. ServerMove(N, c, c2, M) BY <1>9, <1>10, <1>16 DEF ServerMove
  <2>3. \A n \in M : n.to = Client /\ n.port = c.port BY <1>10, <1>16, <1>18, TcpSizes
  <2>4. ASSUME ~b, NEW k \in TcpSlot, G[Client][k].port # 0, Open(G[Client][k]), c.port = G[Client][k].port
        PROVE  PairServer(G[Client][k], c, c2, M)
    <3>1. PairSlot(G[Server], N, G[Client][k]) BY <1>1, <2>4 DEF ConnsInv, PairInv
    <3>2. PairOK(G[Client][k], c) BY <1>2, <1>18, <2>4, <3>1 DEF PairSlot
    <3>3. c.state # "SYN_RECEIVED"
      <4>1. c.state = "SYN_RECEIVED" => c.id \in RandomIds BY <1>1, <1>2, <1>18, <2>4 DEF ConnsInv, PairInv
      <4>2. c.port \in 0 .. MaxOpens BY <2>1, TcpSizes
      <4> QED BY <1>3, <4>1, <4>2, TcpSizes
    <3>4. G[Client][k].state = "ESTABLISHED" /\ c.state = "ESTABLISHED"
      BY <1>4, <2>4, <3>2, <3>3 DEF PairOK, Open
    <3>5. Sender(Server, c) BY <3>2 DEF PairOK
    <3>6. Off(c.seq, c.initial_seq) <= MaxBytes[Server] + 2
      <4>1. PICK o \in Nat : o = Off(c.seq, c.initial_seq) BY <1>14, OffFacts
      <4>2. MaxBytes[Server] \in Nat BY TcpSizes
      <4> QED BY <1>3, <3>4, <3>5, <4>1, <4>2, SenderBound, TcpSizes
    <3>7. /\ Sender(Server, c2) /\ Off(c2.seq, c.initial_seq) = Off(c.seq, c.initial_seq) + 1
          /\ Off(c.seq, c.initial_seq) \in Nat /\ SegOK(m, c.initial_seq, Off(c2.seq, c.initial_seq))
      BY <1>15, <1>18, <3>5, <3>6
    <3>8. PICK a \in Nat : a = Off(G[Client][k].ack, c.initial_seq)
      <4>1. G[Client][k] \in Conn BY <1>1, SlotsOf, TcpSizes
      <4>2. G[Client][k].ack \in Num BY <4>1 DEF Conn
      <4> QED BY <1>14, <4>2, OffFacts
    <3>9. PairOK(G[Client][k], c2) BY <1>9, <3>2, <3>4, <3>7, <3>8 DEF PairOK
    <3>10. ToClientOK(G[Client][k], c2, m) BY <1>9, <1>10, <3>4, <3>7 DEF ToClientOK
    <3> QED BY <1>9, <1>16, <3>4, <3>7, <3>9, <3>10 DEF PairServer
  <2>5. b \/ \A k \in TcpSlot : G[Client][k].port # 0 /\ Open(G[Client][k]) /\ c.port = G[Client][k].port =>
              PairServer(G[Client][k], c, c2, M) BY <2>4
  <2>6. c2.state = "SYN_RECEIVED" => c.state = "SYN_RECEIVED" /\ c2.id = c.id BY <1>9
  <2>7. ConnsInv([G EXCEPT ![Server] = [G[Server] EXCEPT ![i] = c2]], N \cup M, p, b)
    <3>1. c = G[Server][i] /\ c.port # 0 /\ c2 \in Conn BY <1>2, <1>3, <1>9, <1>18
    <3> QED BY <1>1, <1>16a, <2>2, <2>3, <2>5, <2>6, <3>1, ServerSlotStep
  <2> QED BY <1>1, <1>11, <1>12, <1>16, <1>18, <2>7 DEF TcpInv
<1> QED BY <1>17, <1>18 DEF Host

(* tcp_accept keeps the invariant: it changes ids only.                    *)
LEMMA AcceptStep ==
  ASSUME TcpInv, tcp_accept
  PROVE  TcpInv'
<1>0. PICK G, N, p, b : G = g_active_sockets /\ N = tcpNet /\ p = port /\ b = halfopen OBVIOUS
<1>1. ConnsInv(G, N, p, b) /\ b \in BOOLEAN BY <1>0 DEF TcpInv
<1>2. PICK D, A : D = G[Server] /\ A = get_conn(Server, Head(backlog)) OBVIOUS
<1>3. PICK D2 : D2 = [i \in TcpSlot |-> IF i \in A THEN [D[i] EXCEPT !.id = D[i].port] ELSE D[i]] OBVIOUS
<1>4. /\ g_active_sockets' = [G EXCEPT ![Server] = D2] /\ tcpNet' = N /\ port' = p
      /\ halfopen' = (b \/ \E i \in A : D[i].state = "SYN_RECEIVED")
  BY <1>0, <1>2, <1>3 DEF tcp_accept
<1>5. /\ D \in [TcpSlot -> Conn]
      /\ \A k \in TcpSlot : D[k].port = 0 => D[k].state = "CLOSED"
      /\ \A k \in TcpSlot : D[k].port # 0 => D[k].state # "CLOSED"
  BY <1>1, <1>2, SlotsOf, TcpSizes
<1>6. ASSUME NEW i \in TcpSlot
      PROVE  /\ D2[i] \in Conn /\ D2[i].port = D[i].port /\ D2[i].state = D[i].state /\ D2[i].ack = D[i].ack /\ D2[i].seq = D[i].seq
             /\ D2[i].initial_seq = D[i].initial_seq /\ D2[i].send_head = D[i].send_head /\ D2[i].send_tail = D[i].send_tail
             /\ i \notin A => D2[i].id = D[i].id
  <2>1. D[i] \in Conn BY <1>5
  <2>2. CASE i \in A
    <3>1. D2[i] = [D[i] EXCEPT !.id = D[i].port] BY <1>3, <2>2
    <3> QED BY <2>1, <2>2, <3>1 DEF Conn
  <2>3. CASE i \notin A
    <3>1. D2[i] = D[i] BY <1>3, <2>3
    <3> QED BY <2>1, <3>1
  <2> QED BY <2>2, <2>3
<1>7. D2 \in [TcpSlot -> Conn] BY <1>3, <1>6
<1>8. Moves(D, D2, {}, Client) BY <1>5, <1>6, <1>7 DEF Moves, Kept
<1>9. Silent(D, D2, {}) BY DEF Silent
<1>10. \A j \in TcpSlot : D[j].port # 0 => ServerMove(N, D[j], D2[j], {})
  <2> SUFFICES ASSUME NEW j \in TcpSlot, D[j].port # 0 PROVE ServerMove(N, D[j], D2[j], {}) OBVIOUS
  <2>1. D[j].state # "SYN_SENT" BY <1>1, <1>2, ServerFacts
  <2> QED BY <1>6, <2>1 DEF ServerMove
<1>11. PICK b2 : b2 = halfopen' OBVIOUS
<1>12. b2 \in BOOLEAN /\ (b => b2) /\ (b2 \/ \A i \in A : D[i].state # "SYN_RECEIVED") BY <1>1, <1>4, <1>11
<1>13. ASSUME ~b2, NEW i \in TcpSlot, NEW j \in TcpSlot, G[Client][i].port # 0, Open(G[Client][i]), D[j].port = G[Client][i].port
       PROVE  PairServer(G[Client][i], D[j], D2[j], {})
  <2>1. ~b BY <1>12, <1>13
  <2>2. PairSlot(D, N, G[Client][i]) BY <1>1, <1>2, <1>13, <2>1 DEF ConnsInv, PairInv
  <2>3. PairOK(G[Client][i], D[j]) BY <1>13, <2>2 DEF PairSlot
  <2>4. PairOK(G[Client][i], D2[j]) BY <1>6, <2>3 DEF PairOK, Sender
  <2>5. D[j].seq \in Num /\ D[j].initial_seq \in Num BY <1>5 DEF Conn
  <2>6. Off(D[j].seq, D[j].initial_seq) \in Nat BY <2>5, OffFacts
  <2> QED BY <1>6, <2>4, <2>6 DEF PairServer
<1>14. ASSUME ~b2, NEW j \in TcpSlot, D2[j].state = "SYN_RECEIVED" PROVE D2[j].id \in RandomIds
  <2>1. ~b BY <1>12, <1>14
  <2>2. D[j].state = "SYN_RECEIVED" BY <1>6, <1>14
  <2>3. D[j].id \in RandomIds BY <1>1, <1>2, <2>1, <2>2 DEF ConnsInv, PairInv
  <2>4. j \notin A BY <1>12, <1>14, <2>2
  <2> QED BY <1>6, <2>3, <2>4
<1>15. /\ b2 \/ \A i, j \in TcpSlot : G[Client][i].port # 0 /\ Open(G[Client][i]) /\ D[j].port = G[Client][i].port =>
                 PairServer(G[Client][i], D[j], D2[j], {})
       /\ b2 \/ \A j \in TcpSlot : D2[j].state = "SYN_RECEIVED" => D2[j].id \in RandomIds BY <1>13, <1>14
<1>16. ConnsInv([G EXCEPT ![Server] = D2], N \cup {}, p, b2)
  BY <1>1, <1>2, <1>8, <1>9, <1>10, <1>12, <1>15, ServerStep
<1>17. N \cup {} = N OBVIOUS
<1> QED BY <1>4, <1>11, <1>12, <1>16, <1>17 DEF TcpInv

(* create_active takes a slot that is free.                                *)
LEMMA CreateActive ==
  ASSUME NEW h \in Host, FreeConns(h) # {}, NEW c
  PROVE  \E i \in TcpSlot : g_active_sockets[h][i].port = 0 /\ create_active(h, c) = [g_active_sockets EXCEPT ![h][i] = c]
<1> DEFINE F == FreeConns(h)
           i == CHOOSE x \in F : \A y \in F : x <= y
<1>1. F \in SUBSET Nat /\ F # {}
  <2>1. TCP_MAX_CONNECTIONS \in Nat BY TcpAssumption
  <2> QED BY <2>1 DEF FreeConns, TcpSlot
<1>2. i \in F
  <2> HIDE DEF F
  <2> QED BY <1>1, LeastExists
<1>3. i \in TcpSlot /\ g_active_sockets[h][i].port = 0 BY <1>2 DEF FreeConns
<1>4. create_active(h, c) = [g_active_sockets EXCEPT ![h][i] = c] BY DEF create_active
<1> HIDE DEF i
<1> QED BY <1>3, <1>4

(* Ports after a slot has been claimed for a new connection.               *)
LEMMA PortsClaim ==
  ASSUME NEW G \in Conns, NEW N \in SUBSET Seg, NEW p, PortInv(G, N, p), NEW h \in Host, NEW i \in TcpSlot, G[h][i].port = 0,
         NEW c \in Conn, c.port # 0, c.state # "CLOSED", \A k \in TcpSlot : G[h][k].port # c.port,
         NEW q \in Nat, p <= q, c.port < q, q <= MaxOpens + 1, NEW m, m.port = c.port
  PROVE  /\ [G EXCEPT ![h][i] = c] \in Conns /\ PortInv([G EXCEPT ![h][i] = c], N \cup {m}, q)
         /\ [G EXCEPT ![h][i] = c][h][i] = c
         /\ \A k \in TcpSlot : k # i => [G EXCEPT ![h][i] = c][h][k] = G[h][k]
         /\ \A g \in Host : g # h => [G EXCEPT ![h][i] = c][g] = G[g]
<1> DEFINE G2 == [G EXCEPT ![h][i] = c]
<1>1. /\ G2 \in Conns /\ G2[h][i] = c /\ (\A k \in TcpSlot : k # i => G2[h][k] = G[h][k])
      /\ \A g \in Host : g # h => G2[g] = G[g]
  BY DEF Conns
<1> HIDE DEF G2
<1>2. p \in Nat /\ \A g \in Host, k \in TcpSlot : G[g][k].port \in Nat /\ G[g][k].port < p
  BY DEF PortInv, Conns, Conn
<1>3. c.port \in Nat BY DEF Conn
<1>4. ASSUME NEW g \in Host, NEW k \in TcpSlot PROVE G2[g][k].port < q /\ (G2[g][k].port = 0 <=> G2[g][k].state = "CLOSED")
  <2>1. CASE g = h /\ k = i BY <1>1, <2>1
  <2>2. CASE ~(g = h /\ k = i)
    <3>1. G2[g][k] = G[g][k] BY <1>1, <2>2
    <3>2. G[g][k].port < q
      <4>1. G[g][k].port \in Nat /\ G[g][k].port < p BY <1>2
      <4> QED BY <1>2, <4>1
    <3> QED BY <3>1, <3>2 DEF PortInv
  <2> QED BY <2>1, <2>2
<1>5. ASSUME NEW g \in Host, NEW k \in TcpSlot, NEW l \in TcpSlot, G2[g][k].port = G2[g][l].port, G2[g][k].port # 0 PROVE k = l
  <2>1. CASE g # h
    <3>1. G2[g] = G[g] BY <1>1, <2>1
    <3> QED BY <1>5, <3>1 DEF PortInv
  <2>2. CASE g = h /\ k # i /\ l # i
    <3>1. G2[g][k] = G[g][k] /\ G2[g][l] = G[g][l] BY <1>1, <2>2
    <3> QED BY <1>5, <3>1 DEF PortInv
  <2>3. CASE g = h /\ k = i /\ l # i
    <3>1. G2[g][k] = c /\ G2[g][l] = G[h][l] BY <1>1, <2>3
    <3> QED BY <1>5, <3>1
  <2>4. CASE g = h /\ k # i /\ l = i
    <3>1. G2[g][l] = c /\ G2[g][k] = G[h][k] BY <1>1, <2>4
    <3> QED BY <1>5, <3>1
  <2> QED BY <2>1, <2>2, <2>3, <2>4
<1>6. ASSUME NEW s \in N \cup {m} PROVE 0 < s.port /\ s.port < q
  <2>1. CASE s = m BY <1>3, <2>1
  <2>2. CASE s \in N
    <3>1. 0 < s.port /\ s.port < p BY <2>2 DEF PortInv
    <3>2. s.port \in Nat BY <2>2 DEF Seg
    <3> QED BY <1>2, <3>1, <3>2
  <2> QED BY <2>1, <2>2
<1>7. PortInv(G2, N \cup {m}, q) BY <1>4, <1>5, <1>6 DEF PortInv
<1> QED BY <1>1, <1>7 DEF G2

(* tcp_active keeps the invariant.                                         *)
LEMMA ActiveStep ==
  ASSUME TcpInv, NEW iss \in InitialSeqs, tcp_active(iss)
  PROVE  TcpInv'
<1>0. PICK G, N, p, b : G = g_active_sockets /\ N = tcpNet /\ p = port /\ b = halfopen OBVIOUS
<1>1. ConnsInv(G, N, p, b) /\ b \in BOOLEAN BY <1>0 DEF TcpInv
<1>2. G \in Conns /\ N \in SUBSET Seg /\ PortInv(G, N, p) BY <1>1 DEF ConnsInv
<1>3. PICK f \in [Nat -> Num] : ClientInv(G, N, f) BY <1>1 DEF ConnsInv
<1>4. p \in Nat /\ p <= MaxOpens /\ MaxOpens \in Nat BY <1>0, <1>2, TcpSizes DEF PortInv, tcp_active
<1>5. port' = p + 1 /\ halfopen' = b BY <1>0 DEF tcp_active
<1>6. \A h \in Host, k \in TcpSlot : G[h][k] \in Conn /\ G[h][k].port \in Nat /\ G[h][k].port < p
  BY <1>2 DEF PortInv, Conns, Conn
<1>7. \A s \in N : s \in Seg /\ s.port \in Nat /\ s.port # 0 /\ s.port < p
  <2> SUFFICES ASSUME NEW s \in N PROVE s \in Seg /\ s.port \in Nat /\ s.port # 0 /\ s.port < p OBVIOUS
  <2>1. s \in Seg /\ s.port \in Nat BY <1>2 DEF Seg
  <2>2. 0 < s.port /\ s.port < p BY <1>2 DEF PortInv
  <2> QED BY <2>1, <2>2
<1>8. CASE FreeConns(Client) = {}
  <2>1. g_active_sockets' = G /\ tcpNet' = N BY <1>0, <1>8 DEF tcp_active
  <2>2. PortInv(G, N, p + 1)
    <3>1. p + 1 \in Nat /\ p + 1 <= MaxOpens + 1 BY <1>4
    <3>2. \A h \in Host, k \in TcpSlot : G[h][k].port < p + 1 /\ (G[h][k].port = 0 <=> G[h][k].state = "CLOSED")
      <4>1. \A h \in Host, k \in TcpSlot : G[h][k].port < p + 1 BY <1>4, <1>6
      <4> QED BY <1>2, <4>1 DEF PortInv
    <3>3. \A s \in N : 0 < s.port /\ s.port < p + 1 BY <1>4, <1>7
    <3>4. \A h \in Host, k, l \in TcpSlot : G[h][k].port = G[h][l].port /\ G[h][k].port # 0 => k = l
      BY <1>2 DEF PortInv
    <3> QED BY <3>1, <3>2, <3>3, <3>4 DEF PortInv
  <2> QED BY <1>1, <1>5, <2>1, <2>2 DEF TcpInv, ConnsInv
<1>9. CASE FreeConns(Client) # {}
  <2>1. p # 0
    <3>1. TRUE OBVIOUS
    <3>2. PICK k \in TcpSlot : G[Client][k].port = 0 BY <1>0, <1>9 DEF FreeConns
    <3> QED BY <1>6, <3>2, TcpSizes
  <2>2. PICK c : c = [Unclaimed EXCEPT !.port = p, !.id = p, !.state = "SYN_SENT", !.seq = iss, !.initial_seq = iss]
    OBVIOUS
  <2>3. iss \in Num BY TcpAssumption DEF Num
  <2>4. /\ c \in Conn /\ c.port = p /\ c.id = p /\ c.state = "SYN_SENT" /\ c.seq = iss /\ c.initial_seq = iss
        /\ c.send_head = 0 /\ c.send_tail = 0
    <3>1. Unclaimed \in Conn /\ Unclaimed.send_head = 0 /\ Unclaimed.send_tail = 0
      BY UnclaimedType DEF Unclaimed
    <3> QED BY <1>4, <2>2, <2>3, <3>1 DEF Conn, ConnState
  <2>5. PICK c2, m : c2 = AfterHeader(c, {"SYN"}) /\ m = Segment(Client, c, {"SYN"}, <<>>) OBVIOUS
  <2>6. {"SYN"} \in SUBSET Flag /\ {"SYN"} \cap {"SYN", "FIN"} # {} BY DEF Flag
  <2>7. /\ c2 \in Conn /\ c2.port = p /\ c2.id = p /\ c2.state = "SYN_SENT" /\ c2.initial_seq = iss
        /\ c2.send_head = 0 /\ c2.send_tail = 0 /\ c2.seq = Seqn(iss + 1)
    BY <2>4, <2>5, <2>6, HeaderFields
  <2>8. /\ m \in Seg /\ m.to = Server /\ m.port = p /\ m.seq = iss /\ m.flags = {"SYN"} /\ m.data = <<>> /\ Acknowledged(m) = 1
    BY <2>4, <2>5, <2>6, HeaderSegment, TcpSizes
  <2>9. PICK i \in TcpSlot : G[Client][i].port = 0 /\ g_active_sockets' = [G EXCEPT ![Client][i] = c2]
    <3>1. g_active_sockets' = create_active(Client, c2) BY <1>0, <1>9, <2>2, <2>5 DEF tcp_active
    <3>2. \E i \in TcpSlot : g_active_sockets[Client][i].port = 0 /\ create_active(Client, c2) = [g_active_sockets EXCEPT ![Client][i] = c2]
      BY <1>9, CreateActive, TcpSizes
    <3> QED BY <1>0, <3>1, <3>2
  <2>10. tcpNet' = N \cup {m} BY <1>0, <1>9, <2>2, <2>5 DEF tcp_active
  <2>11. PICK q \in Nat, G2 \in {[G EXCEPT ![Client][i] = c2]} : G2 = [G EXCEPT ![Client][i] = c2] /\ q = p + 1
    <3>1. p + 1 \in Nat BY <1>4
    <3> QED BY <3>1
  <2>12. /\ G2 \in Conns /\ PortInv(G2, N \cup {m}, q) /\ G2[Client][i] = c2
         /\ \A k \in TcpSlot : k # i => G2[Client][k] = G[Client][k]
         /\ G2[Server] = G[Server]
    <3>1. \A k \in TcpSlot : G[Client][k].port # c2.port BY <1>4, <1>6, <2>7, TcpSizes
    <3>2. p <= q /\ c2.port < q /\ q <= MaxOpens + 1 BY <1>4, <2>7, <2>11
    <3>3. c2.port # 0 /\ c2.state # "CLOSED" /\ m.port = c2.port BY <2>1, <2>7, <2>8
    <3>4. /\ [G EXCEPT ![Client][i] = c2] \in Conns /\ PortInv([G EXCEPT ![Client][i] = c2], N \cup {m}, q)
      BY <1>2, <2>7, <2>9, <3>1, <3>2, <3>3, PortsClaim, TcpSizes
    <3>5. /\ [G EXCEPT ![Client][i] = c2][Client][i] = c2
          /\ \A k \in TcpSlot : k # i => [G EXCEPT ![Client][i] = c2][Client][k] = G[Client][k]
          /\ [G EXCEPT ![Client][i] = c2][Server] = G[Server] BY <1>2, TcpSizes DEF Conns
    <3> QED BY <2>11, <3>4, <3>5
  <2>13. N \cup {m} \in SUBSET Seg BY <1>2, <2>8
  <2>14. PICK g \in [Nat -> Num] : g[p] = iss /\ \A x \in Nat : x # p => g[x] = f[x]
    <3>1. [f EXCEPT ![p] = iss] \in [Nat -> Num] /\ [f EXCEPT ![p] = iss][p] = iss
          /\ \A x \in Nat : x # p => [f EXCEPT ![p] = iss][x] = f[x] BY <1>4, <2>3
    <3> QED BY <3>1
  <2>15. /\ \A h \in Host, k \in TcpSlot : g[G[h][k].port] = f[G[h][k].port] /\ G[h][k].port # p
         /\ \A s \in N : g[s.port] = f[s.port] /\ s.port # p BY <1>4, <1>6, <1>7, <2>14
  <2>16. Off(c2.seq, iss) = 1 /\ Off(iss, iss) = 0
    <3>1. Off(iss, iss) = 0 BY <2>3, OffFacts
    <3>2. Off(iss, iss) + 1 < SEQ_RANGE /\ 0 + 1 = 1 BY <3>1, TcpSizes
    <3> QED BY <2>3, <2>7, <3>1, <3>2, OffAdd
  <2>17. MaxBytes[Client] \in Nat BY TcpSizes
  <2>18. Sender(Client, c2) BY <2>7, <2>16, <2>17 DEF Sender
  <2>19. SegOK(m, iss, 1) /\ SegOK(m, iss, MaxBytes[Client] + 3)
    <3>1. Off(m.seq, iss) + Acknowledged(m) = 1 /\ 1 <= MaxBytes[Client] + 3 BY <2>8, <2>16, <2>17
    <3> QED BY <2>8, <2>16, <3>1 DEF SegOK
  <2>20. ClientInv(G2, N \cup {m}, g)
    <3>1. ASSUME NEW k \in TcpSlot, G2[Client][k].port # 0
          PROVE  /\ G2[Client][k].initial_seq = g[G2[Client][k].port] /\ G2[Client][k].state # "SYN_RECEIVED" /\ Sender(Client, G2[Client][k])
      <4>1. CASE k = i BY <2>7, <2>12, <2>14, <2>18, <4>1
      <4>2. CASE k # i
        <5>1. G2[Client][k] = G[Client][k] BY <2>12, <4>2
        <5>2. g[G[Client][k].port] = f[G[Client][k].port] BY <2>15, TcpSizes
        <5> QED BY <1>3, <3>1, <5>1, <5>2 DEF ClientInv
      <4> QED BY <4>1, <4>2
    <3>2. ASSUME NEW s \in N \cup {m}, s.to = Server PROVE SegOK(s, g[s.port], MaxBytes[Client] + 3)
      <4>1. CASE s = m BY <2>8, <2>14, <2>19, <4>1
      <4>2. CASE s \in N BY <1>3, <2>15, <3>2, <4>2 DEF ClientInv
      <4> QED BY <4>1, <4>2
    <3>3. ASSUME NEW s \in N \cup {m}, NEW k \in TcpSlot, s.to = Server, s.port = G2[Client][k].port
          PROVE  Off(s.seq, g[s.port]) + Acknowledged(s) <= Off(G2[Client][k].seq, g[s.port])
      <4>1. CASE k = i
        <5>1. s = m BY <2>7, <2>12, <2>15, <3>3, <4>1
        <5> QED BY <2>7, <2>8, <2>12, <2>14, <2>16, <4>1, <5>1
      <4>2. CASE k # i
        <5>1. G2[Client][k] = G[Client][k] BY <2>12, <4>2
        <5>2. s \in N BY <2>8, <2>15, <3>3, <5>1, TcpSizes
        <5>3. g[s.port] = f[s.port] BY <2>15, <5>2
        <5> QED BY <1>3, <3>3, <5>1, <5>2, <5>3 DEF ClientInv
      <4> QED BY <4>1, <4>2
    <3>4. ASSUME NEW s \in N \cup {m}, NEW k \in TcpSlot, s.to = Client, s.port = G2[Client][k].port
          PROVE  1 <= Off(s.ack, g[s.port]) /\ Off(s.ack, g[s.port]) <= Off(G2[Client][k].seq, g[s.port])
      <4>1. s \in N BY <2>8, <3>4, TcpSizes
      <4>2. k # i BY <2>7, <2>12, <2>15, <3>4, <4>1
      <4>3. G2[Client][k] = G[Client][k] BY <2>12, <4>2
      <4>4. g[s.port] = f[s.port] BY <2>15, <4>1
      <4> QED BY <1>3, <3>4, <4>1, <4>3, <4>4 DEF ClientInv
    <3>5. ASSUME NEW j \in TcpSlot, G2[Server][j].port # 0
          PROVE  /\ G2[Server][j].state # "SYN_SENT" /\ 1 <= Off(G2[Server][j].ack, g[G2[Server][j].port])
                 /\ Off(G2[Server][j].ack, g[G2[Server][j].port]) <= MaxBytes[Client] + 3
      <4>1. g[G[Server][j].port] = f[G[Server][j].port] BY <2>15, TcpSizes
      <4> QED BY <1>3, <2>12, <3>5, <4>1 DEF ClientInv
    <3>6. ASSUME NEW k \in TcpSlot, NEW j \in TcpSlot, G2[Server][j].port = G2[Client][k].port, G2[Client][k].port # 0
          PROVE  Off(G2[Server][j].ack, g[G2[Client][k].port]) <= Off(G2[Client][k].seq, g[G2[Client][k].port])
      <4>1. k # i BY <2>7, <2>12, <2>15, <3>6, TcpSizes
      <4>2. G2[Client][k] = G[Client][k] /\ G2[Server][j] = G[Server][j] BY <2>12, <4>1
      <4>3. g[G[Client][k].port] = f[G[Client][k].port] BY <2>15, TcpSizes
      <4> QED BY <1>3, <3>6, <4>2, <4>3 DEF ClientInv
    <3> QED BY <3>1, <3>2, <3>3, <3>4, <3>5, <3>6 DEF ClientInv
  <2>21. ASSUME ~b PROVE PairInv(G2, N \cup {m})
    <3>1. PairInv(G, N) BY <1>1, <2>21 DEF ConnsInv
    <3>2. ASSUME NEW k \in TcpSlot, Open(G2[Client][k]) PROVE PairSlot(G2[Server], N \cup {m}, G2[Client][k])
      <4>1. CASE k = i
        <5>1. \A s \in N \cup {m} : s.port = c2.port => s = m BY <2>7, <2>15
        <5>2. \A j \in TcpSlot : G[Server][j].port # c2.port BY <2>7, <2>15, TcpSizes
        <5>3. ToServerOK(c2, m) BY <2>7, <2>8 DEF ToServerOK
        <5>4. PairSlot(G[Server], N \cup {m}, c2) BY <2>7, <2>8, <5>1, <5>2, <5>3, TcpSizes DEF PairSlot
        <5> QED BY <2>12, <4>1, <5>4
      <4>2. CASE k # i
        <5>1. G2[Client][k] = G[Client][k] BY <2>12, <4>2
        <5>2. PairSlot(G[Server], N, G[Client][k]) BY <3>1, <3>2, <5>1 DEF PairInv
        <5>3. m.port # G[Client][k].port BY <2>8, <2>15, TcpSizes
        <5>4. PairSlot(G[Server], N \cup {m}, G[Client][k]) BY <5>2, <5>3 DEF PairSlot
        <5> QED BY <2>12, <5>1, <5>4
      <4> QED BY <4>1, <4>2
    <3> QED BY <2>12, <3>1, <3>2 DEF PairInv
  <2>22. ConnsInv(G2, N \cup {m}, q, b) BY <2>12, <2>13, <2>20, <2>21 DEF ConnsInv
  <2> QED BY <1>1, <1>5, <2>9, <2>10, <2>11, <2>22 DEF TcpInv
<1> QED BY <1>8, <1>9

(* Incoming keeps the invariant: the server has no connection of this port, *)
(* so the client's one, if it is open, has not seen an answer yet.          *)
LEMMA IncomingStep ==
  ASSUME TcpInv, NEW s \in tcpNet, NEW iss \in InitialSeqs, NEW id \in RandomIds, Incoming(s, iss, id)
  PROVE  TcpInv'
<1>0. PICK G, N, p, b : G = g_active_sockets /\ N = tcpNet /\ p = port /\ b = halfopen OBVIOUS
<1>1. ConnsInv(G, N, p, b) /\ b \in BOOLEAN BY <1>0 DEF TcpInv
<1>2. G \in Conns /\ N \in SUBSET Seg /\ PortInv(G, N, p) /\ s \in N BY <1>0, <1>1 DEF ConnsInv
<1>3. PICK f \in [Nat -> Num] : ClientInv(G, N, f) BY <1>1 DEF ConnsInv
<1>4. /\ s.to = Server /\ s.flags = {"SYN"} /\ FreeConns(Server) # {} /\ \A k \in TcpSlot : G[Server][k].port # s.port
      /\ port' = p /\ halfopen' = b
  BY <1>0 DEF Incoming
<1>5. s \in Seg /\ s.port \in Nat /\ s.seq \in Num /\ 0 < s.port /\ s.port < p /\ p \in Nat /\ p <= MaxOpens + 1
  <2>1. s \in Seg BY <1>2
  <2>2. 0 < s.port /\ s.port < p /\ p \in Nat /\ p <= MaxOpens + 1 BY <1>2 DEF PortInv
  <2> QED BY <2>1, <2>2 DEF Seg
<1>6. iss \in Num BY TcpAssumption DEF Num
<1>7. PICK a \in Num : a = Seqn(s.seq + 1)
  <2>1. s.seq + 1 \in Int BY <1>5, TcpSizes DEF Num
  <2> QED BY <2>1, SeqnRange
<1>8. PICK c : c = [Unclaimed EXCEPT !.port = s.port, !.id = id, !.state = "SYN_RECEIVED",
                      !.seq = iss, !.initial_seq = iss, !.ack = a] OBVIOUS
<1>9. /\ c \in Conn /\ c.port = s.port /\ c.id = id /\ c.state = "SYN_RECEIVED" /\ c.seq = iss /\ c.initial_seq = iss /\ c.ack = a
      /\ c.send_head = 0 /\ c.send_tail = 0
  <2>1. Unclaimed \in Conn /\ Unclaimed.send_head = 0 /\ Unclaimed.send_tail = 0
    BY UnclaimedType DEF Unclaimed
  <2> QED BY <1>5, <1>6, <1>8, <2>1 DEF Conn, ConnState
<1>10. PICK d, m : d = AfterHeader(c, {"SYN", "ACK"}) /\ m = Segment(Server, c, {"SYN", "ACK"}, <<>>)
  OBVIOUS
<1>11. {"SYN", "ACK"} \in SUBSET Flag /\ {"SYN", "ACK"} \cap {"SYN", "FIN"} # {} BY DEF Flag
<1>12. /\ d \in Conn /\ d.port = s.port /\ d.id = id /\ d.state = "SYN_RECEIVED" /\ d.initial_seq = iss /\ d.ack = a
       /\ d.send_head = 0 /\ d.send_tail = 0 /\ d.seq = Seqn(iss + 1)
  BY <1>9, <1>10, <1>11, HeaderFields
<1>13. /\ m \in Seg /\ m.to = Client /\ m.port = s.port /\ m.seq = iss /\ m.ack = a /\ m.flags = {"SYN", "ACK"} /\ m.data = <<>>
       /\ Acknowledged(m) = 1
  BY <1>9, <1>10, <1>11, HeaderSegment, TcpSizes
<1>14. PICK j \in TcpSlot : G[Server][j].port = 0 /\ g_active_sockets' = [G EXCEPT ![Server][j] = d]
  <2>1. g_active_sockets' = create_active(Server, d) BY <1>7, <1>8, <1>10 DEF Incoming
  <2>2. \E k \in TcpSlot : g_active_sockets[Server][k].port = 0 /\ create_active(Server, d) = [g_active_sockets EXCEPT ![Server][k] = d]
    BY <1>4, CreateActive, TcpSizes
  <2> QED BY <1>0, <2>1, <2>2
<1>15. tcpNet' = N \cup {m} BY <1>0, <1>7, <1>8, <1>10 DEF Incoming
<1>16. PICK G2 : G2 = [G EXCEPT ![Server][j] = d] OBVIOUS
<1>17. /\ G2 \in Conns /\ PortInv(G2, N \cup {m}, p) /\ G2[Server][j] = d
       /\ \A k \in TcpSlot : k # j => G2[Server][k] = G[Server][k]
       /\ G2[Client] = G[Client]
  <2>1. \A k \in TcpSlot : G[Server][k].port # d.port BY <1>4, <1>12
  <2>2. p <= p /\ d.port < p /\ p <= MaxOpens + 1 BY <1>5, <1>12
  <2>3. d.port # 0 /\ d.state # "CLOSED" /\ m.port = d.port BY <1>5, <1>12, <1>13
  <2>4. /\ [G EXCEPT ![Server][j] = d] \in Conns /\ PortInv([G EXCEPT ![Server][j] = d], N \cup {m}, p)
    <3>1. PICK q \in Nat : q = p BY <1>5
    <3>2. p <= q /\ d.port < q /\ q <= MaxOpens + 1 BY <2>2, <3>1
    <3>3. [G EXCEPT ![Server][j] = d] \in Conns /\ PortInv([G EXCEPT ![Server][j] = d], N \cup {m}, q)
      <4>1. G \in Conns /\ N \in SUBSET Seg /\ PortInv(G, N, p) /\ d \in Conn /\ G[Server][j].port = 0
        BY <1>2, <1>12, <1>14
      <4>2. Server \in Host BY TcpSizes
      <4> QED BY <2>1, <2>3, <3>2, <4>1, <4>2, PortsClaim
    <3> QED BY <3>1, <3>3
  <2>5. /\ [G EXCEPT ![Server][j] = d][Server][j] = d
        /\ \A k \in TcpSlot : k # j => [G EXCEPT ![Server][j] = d][Server][k] = G[Server][k]
        /\ [G EXCEPT ![Server][j] = d][Client] = G[Client] BY <1>2, TcpSizes DEF Conns
  <2> QED BY <1>16, <2>4, <2>5
<1>18. N \cup {m} \in SUBSET Seg BY <1>2, <1>13
<1>19. PICK x \in Num : x = f[s.port] BY <1>5
<1>20. Off(a, x) = 1 /\ \A k \in TcpSlot : G[Client][k].port = s.port => 1 <= Off(G[Client][k].seq, x)
  <2>1. SegOK(s, x, MaxBytes[Client] + 3) BY <1>2, <1>3, <1>4, <1>19 DEF ClientInv
  <2>2. Off(s.seq, x) = 0 BY <1>4, <2>1 DEF SegOK
  <2>3. Acknowledged(s) = 1
    <3>1. s.data = <<>> BY <1>4, <2>1 DEF SegOK
    <3>2. s.flags \cap {"SYN", "FIN"} # {} BY <1>4
    <3> QED BY <1>5, <3>1, <3>2, AcknowledgedNat
  <2>4. Off(s.seq, x) + 1 < SEQ_RANGE /\ 0 + 1 = 1 BY <2>2, TcpSizes
  <2>5. Off(a, x) = 1 BY <1>5, <1>7, <2>2, <2>4, OffAdd
  <2>6. \A k \in TcpSlot : G[Client][k].port = s.port => Off(s.seq, x) + Acknowledged(s) <= Off(G[Client][k].seq, x)
    BY <1>2, <1>3, <1>4, <1>19 DEF ClientInv
  <2> QED BY <2>2, <2>3, <2>4, <2>5, <2>6
<1>21. MaxBytes[Client] \in Nat /\ MaxBytes[Server] \in Nat BY TcpSizes
<1>22. ClientInv(G2, N \cup {m}, f)
  <2>1. \A k \in TcpSlot : G2[Client][k].port # 0 =>
          /\ G2[Client][k].initial_seq = f[G2[Client][k].port] /\ G2[Client][k].state # "SYN_RECEIVED" /\ Sender(Client, G2[Client][k])
    BY <1>3, <1>17 DEF ClientInv
  <2>2. \A n \in N \cup {m} : n.to = Server => SegOK(n, f[n.port], MaxBytes[Client] + 3)
    BY <1>3, <1>13, TcpSizes DEF ClientInv
  <2>3. \A n \in N \cup {m}, k \in TcpSlot : n.to = Server /\ n.port = G2[Client][k].port =>
          Off(n.seq, f[G2[Client][k].port]) + Acknowledged(n) <= Off(G2[Client][k].seq, f[G2[Client][k].port])
    BY <1>3, <1>13, <1>17, TcpSizes DEF ClientInv
  <2>4. ASSUME NEW n \in N \cup {m}, NEW k \in TcpSlot, n.to = Client, n.port = G[Client][k].port
        PROVE  1 <= Off(n.ack, f[n.port]) /\ Off(n.ack, f[n.port]) <= Off(G[Client][k].seq, f[n.port])
    <3>1. CASE n = m BY <1>13, <1>19, <1>20, <2>4, <3>1
    <3>2. CASE n \in N BY <1>3, <2>4, <3>2 DEF ClientInv
    <3> QED BY <3>1, <3>2
  <2>5. ASSUME NEW k \in TcpSlot, G2[Server][k].port # 0
        PROVE  /\ G2[Server][k].state # "SYN_SENT" /\ 1 <= Off(G2[Server][k].ack, f[G2[Server][k].port])
               /\ Off(G2[Server][k].ack, f[G2[Server][k].port]) <= MaxBytes[Client] + 3
    <3>1. CASE k = j
      <4>1. G2[Server][k] = d BY <1>17, <3>1
      <4>2. Off(d.ack, f[d.port]) = 1 BY <1>12, <1>19, <1>20
      <4> QED BY <1>12, <1>21, <4>1, <4>2
    <3>2. CASE k # j
      <4>1. G2[Server][k] = G[Server][k] BY <1>17, <3>2
      <4> QED BY <1>3, <2>5, <4>1 DEF ClientInv
    <3> QED BY <3>1, <3>2
  <2>6. ASSUME NEW i \in TcpSlot, NEW k \in TcpSlot, G2[Server][k].port = G[Client][i].port, G[Client][i].port # 0
        PROVE  Off(G2[Server][k].ack, f[G[Client][i].port]) <= Off(G[Client][i].seq, f[G[Client][i].port])
    <3>1. CASE k = j
      <4>1. G2[Server][k] = d BY <1>17, <3>1
      <4> QED BY <1>12, <1>19, <1>20, <2>6, <4>1
    <3>2. CASE k # j
      <4>1. G2[Server][k] = G[Server][k] BY <1>17, <3>2
      <4> QED BY <1>3, <2>6, <4>1 DEF ClientInv
    <3> QED BY <3>1, <3>2
  <2> QED BY <1>17, <2>1, <2>2, <2>3, <2>4, <2>5, <2>6 DEF ClientInv
<1>23. ASSUME ~b PROVE PairInv(G2, N \cup {m})
  <2>1. PairInv(G, N) BY <1>1, <1>23 DEF ConnsInv
  <2>2. ASSUME NEW i \in TcpSlot, Open(G[Client][i]) PROVE PairSlot(G2[Server], N \cup {m}, G[Client][i])
    <3>1. PICK e : e = G[Client][i] OBVIOUS
    <3>2. PairSlot(G[Server], N, e) BY <2>1, <2>2, <3>1 DEF PairInv
    <3>3. CASE e.port # s.port
      <4>1. \A k \in TcpSlot : G2[Server][k].port = e.port <=> G[Server][k].port = e.port
        <5>1. e.port # 0 BY <1>1, <2>2, <3>1, SlotsOf, TcpSizes DEF Open
        <5> QED BY <1>12, <1>14, <1>17, <3>3, <5>1
      <4>2. \A k \in TcpSlot : G[Server][k].port = e.port => G2[Server][k] = G[Server][k]
        BY <1>12, <1>17, <3>3, <4>1
      <4>3. m.port # e.port BY <1>13, <3>3
      <4>4. PairSlot(G2[Server], N \cup {m}, e)
        <5>1. PICK D, D2 : D = G[Server] /\ D2 = G2[Server] OBVIOUS
        <5>2. \A n \in N \cup {m} : n.port = e.port => n \in N BY <4>3
        <5>3. PairSlot(D, N, e) BY <3>2, <5>1
        <5>4. (\A k \in TcpSlot : D2[k].port = e.port <=> D[k].port = e.port) /\ \A k \in TcpSlot : D[k].port = e.port => D2[k] = D[k]
          BY <4>1, <4>2, <5>1
        <5>5. PairSlot(D2, N \cup {m}, e) BY <5>2, <5>3, <5>4 DEF PairSlot
        <5> QED BY <5>1, <5>5
      <4> QED BY <3>1, <4>4
    <3>4. CASE e.port = s.port
      <4>1. \A k \in TcpSlot : G[Server][k].port # e.port BY <1>4, <3>4
      <4>2. e.state = "SYN_SENT" /\ \A n \in N : n.port = e.port => n.to # Client BY <3>2, <4>1 DEF PairSlot
      <4>3. \A k \in TcpSlot : G2[Server][k].port = e.port => k = j BY <1>17, <4>1
      <4>4. \A n \in N : n.port = e.port /\ n.to = Server => n.flags = {"SYN"}
        BY <3>2, <4>2 DEF PairSlot, ToServerOK
      <4>5. Off(d.seq, iss) = 1 /\ Off(iss, iss) = 0
        <5>1. Off(iss, iss) = 0 BY <1>6, OffFacts
        <5>2. Off(iss, iss) + 1 < SEQ_RANGE /\ 0 + 1 = 1 BY <5>1, TcpSizes
        <5> QED BY <1>6, <1>12, <5>1, <5>2, OffAdd
      <4>6. Sender(Server, d) BY <1>12, <1>21, <4>5 DEF Sender
      <4>7. PairOK(e, d) BY <1>12, <4>2, <4>6 DEF PairOK
      <4>8. SegOK(m, iss, 1) BY <1>13, <4>5 DEF SegOK
      <4>9. ToClientOK(e, d, m) BY <1>12, <1>13, <4>5, <4>8 DEF ToClientOK
      <4>10. \A n \in N : n.port = e.port /\ n.to = Server => AckOK(d, n) BY <4>4 DEF AckOK
      <4>11. \A n \in N \cup {m} : n.port = e.port =>
                /\ n.to = Server => ToServerOK(e, n)
                /\ n.to = Client => \E k \in TcpSlot : G2[Server][k].port = e.port
        <5>1. G2[Server][j].port = e.port BY <1>12, <1>17, <3>4
        <5> QED BY <1>13, <3>2, <5>1, TcpSizes DEF PairSlot
      <4>12. \A k \in TcpSlot : G2[Server][k].port = e.port =>
                /\ PairOK(e, G2[Server][k])
                /\ \A n \in N \cup {m} : n.port = e.port => /\ n.to = Client => ToClientOK(e, G2[Server][k], n)
                                                            /\ n.to = Server => AckOK(G2[Server][k], n)
        <5> SUFFICES ASSUME NEW k \in TcpSlot, G2[Server][k].port = e.port
                     PROVE  /\ PairOK(e, d)
                            /\ \A n \in N \cup {m} : n.port = e.port => /\ n.to = Client => ToClientOK(e, d, n)
                                                                        /\ n.to = Server => AckOK(d, n)
          BY <1>17, <4>3
        <5> QED BY <1>13, <4>2, <4>7, <4>9, <4>10, TcpSizes
      <4>13. PairSlot(G2[Server], N \cup {m}, e) BY <4>2, <4>11, <4>12 DEF PairSlot
      <4> QED BY <3>1, <4>13
    <3> QED BY <3>3, <3>4
  <2>3. ASSUME NEW k \in TcpSlot, G2[Server][k].state = "SYN_RECEIVED" PROVE G2[Server][k].id \in RandomIds
    <3>1. CASE k = j BY <1>12, <1>17, <3>1
    <3>2. CASE k # j BY <1>17, <2>1, <2>3, <3>2 DEF PairInv
    <3> QED BY <3>1, <3>2
  <2> QED BY <1>17, <2>2, <2>3 DEF PairInv
<1>24. ConnsInv(G2, N \cup {m}, p, b) BY <1>17, <1>18, <1>22, <1>23 DEF ConnsInv
<1> QED BY <1>1, <1>4, <1>14, <1>15, <1>16, <1>24 DEF TcpInv

(* The headers of tcp_on_data, sent one after the other.                   *)
LEMMA HeadersSent ==
  ASSUME NEW c, NEW hs, Len(hs) \in 0 .. 2
  PROVE  /\ AfterHeaders(c, hs)[0] = c
         /\ Len(hs) >= 1 => AfterHeaders(c, hs)[1] = AfterHeader(c, hs[1])
         /\ Len(hs) = 2 => AfterHeaders(c, hs)[2] = AfterHeader(AfterHeader(c, hs[1]), hs[2])
<1> DEFINE n == Len(hs)
           D(g) == [k \in 0 .. n |-> IF k = 0 THEN c ELSE AfterHeader(g[k - 1], hs[k])]
           w == [k \in 0 .. n |-> IF k = 0 THEN c ELSE IF k = 1 THEN AfterHeader(c, hs[1]) ELSE AfterHeader(AfterHeader(c, hs[1]), hs[2])]
           f == CHOOSE g : g = D(g)
<1>1. AfterHeaders(c, hs) = f BY DEF AfterHeaders
<1>2. w = D(w)
  <2>1. \A k \in 0 .. n : w[k] = IF k = 0 THEN c ELSE AfterHeader(w[k - 1], hs[k])
    <3> SUFFICES ASSUME NEW k \in 0 .. n PROVE w[k] = IF k = 0 THEN c ELSE AfterHeader(w[k - 1], hs[k])
      OBVIOUS
    <3>1. CASE k = 0 BY <3>1
    <3>2. CASE k = 1
      <4>1. w[0] = c /\ w[1] = AfterHeader(c, hs[1]) BY <3>2
      <4> HIDE DEF w
      <4>2. k - 1 = 0 BY <3>2
      <4> QED BY <3>2, <4>1, <4>2
    <3>3. CASE k = 2
      <4>1. w[1] = AfterHeader(c, hs[1]) /\ w[2] = AfterHeader(AfterHeader(c, hs[1]), hs[2]) BY <3>3
      <4> HIDE DEF w
      <4>2. k - 1 = 1 BY <3>3
      <4> QED BY <3>3, <4>1, <4>2
    <3>4. k = 0 \/ k = 1 \/ k = 2
      <4>1. n \in 0 .. 2 /\ k \in 0 .. n OBVIOUS
      <4> HIDE DEF n
      <4> QED BY <4>1
    <3> QED BY <3>1, <3>2, <3>3, <3>4
  <2>2. w = [k \in 0 .. n |-> w[k]] OBVIOUS
  <2> HIDE DEF w
  <2> QED BY <2>1, <2>2
<1>3. f = D(f)
  <2> HIDE DEF w, D
  <2>1. \E g : g = D(g) BY <1>2
  <2> QED BY <2>1
<1> HIDE DEF f, w
<1>4. \A k \in 0 .. n : f[k] = IF k = 0 THEN c ELSE AfterHeader(f[k - 1], hs[k])
  <2> SUFFICES ASSUME NEW k \in 0 .. n PROVE f[k] = IF k = 0 THEN c ELSE AfterHeader(f[k - 1], hs[k])
    OBVIOUS
  <2>1. D(f)[k] = IF k = 0 THEN c ELSE AfterHeader(f[k - 1], hs[k]) OBVIOUS
  <2> HIDE DEF D
  <2> QED BY <1>3, <2>1
<1>5. f[0] = c BY <1>4
<1>6. n >= 1 => f[1] = AfterHeader(c, hs[1])
  <2>1. n >= 1 => 1 \in 0 .. n /\ 1 - 1 = 0 /\ 1 # 0 OBVIOUS
  <2> HIDE DEF n
  <2> QED BY <1>4, <1>5, <2>1
<1>7. n = 2 => f[2] = AfterHeader(AfterHeader(c, hs[1]), hs[2])
  <2>1. n = 2 => 2 \in 0 .. n /\ 2 - 1 = 1 /\ 2 # 0 /\ n >= 1 OBVIOUS
  <2> HIDE DEF n
  <2> QED BY <1>4, <1>6, <2>1
<1> QED BY <1>1, <1>5, <1>6, <1>7

(* What is noted of a segment before the state is looked at.               *)
LEMMA NotedFields ==
  ASSUME NEW c \in Conn, NEW s \in Seg
  PROVE  LET d == Noted(c, s)
             acked == Seqn(s.ack - c.initial_seq - 1)
         IN  /\ d \in Conn /\ d.port = c.port /\ d.id = c.id /\ d.state = c.state /\ d.seq = c.seq
             /\ d.initial_seq = c.initial_seq /\ d.send_head = c.send_head
             /\ d.ack = Seqn((IF c.state = "SYN_SENT" THEN s.seq ELSE c.ack) + Acknowledged(s))
             /\ d.send_tail = IF acked > c.send_tail THEN acked ELSE c.send_tail
<1>1. c.ack \in Num /\ c.initial_seq \in Num /\ c.send_tail \in Nat /\ s.seq \in Num /\ s.ack \in Num
  BY DEF Conn, Seg
<1>2. \A x \in Num : x \in Int BY TcpSizes DEF Num
<1>3. Acknowledged(s) \in Nat BY AcknowledgedNat
<1>4. PICK base \in Int : base = (IF c.state = "SYN_SENT" THEN s.seq ELSE c.ack) BY <1>1, <1>2
<1>5. PICK a \in Num : a = Seqn(base + Acknowledged(s)) BY <1>3, SeqnRange
<1>6. PICK k \in Nat : k = Seqn(s.ack - c.initial_seq - 1)
  <2>1. s.ack - c.initial_seq - 1 \in Int BY <1>1, <1>2
  <2> QED BY <2>1, SeqnRange
<1>7. PICK t \in Nat : t = (IF k > c.send_tail THEN k ELSE c.send_tail) BY <1>1
<1>8. Noted(c, s) = [c EXCEPT !.ack = a, !.send_tail = t] BY <1>4, <1>5, <1>6, <1>7 DEF Noted
<1>9. LET d == [c EXCEPT !.ack = a, !.send_tail = t]
      IN  /\ d \in Conn /\ d.port = c.port /\ d.id = c.id /\ d.state = c.state /\ d.seq = c.seq
          /\ d.initial_seq = c.initial_seq /\ d.send_head = c.send_head /\ d.ack = a /\ d.send_tail = t
  BY DEF Conn
<1> QED BY <1>4, <1>5, <1>6, <1>7, <1>8, <1>9, Zenon

(* The last byte of a segment that goes to a place of the ring.            *)
LEMMA LastExists ==
  ASSUME NEW n \in Nat, NEW K \in SUBSET (1 .. n), K # {}
  PROVE  (CHOOSE k \in K : \A j \in K : j <= k) \in K
<1> DEFINE S == {n - k : k \in K}
<1>0. \A k \in K : n - k \in Nat OBVIOUS
<1>1. S \in SUBSET Nat /\ S # {} BY <1>0
<1>2. PICK x \in S : \A y \in S : x <= y BY <1>1, MinLemma
<1>3. PICK k \in K : x = n - k BY <1>2
<1>4. \A j \in K : j <= k
  <2> SUFFICES ASSUME NEW j \in K PROVE j <= k OBVIOUS
  <2>1. n - j \in S OBVIOUS
  <2>2. x <= n - j BY <1>2, <2>1
  <2>3. j \in Nat /\ k \in Nat OBVIOUS
  <2> HIDE DEF S
  <2> QED BY <1>3, <2>2, <2>3
<1> HIDE DEF S
<1>5. \E k1 \in K : \A j \in K : j <= k1 BY <1>4
<1> QED BY <1>5

(* The payload changes the ring and its head only.                         *)
LEMMA StoredFields ==
  ASSUME NEW c \in Conn, NEW s \in Seg
  PROVE  LET d == Stored(c, s)
         IN  /\ d \in Conn /\ d.port = c.port /\ d.id = c.id /\ d.state = c.state /\ d.seq = c.seq /\ d.ack = c.ack
             /\ d.initial_seq = c.initial_seq /\ d.send_head = c.send_head /\ d.send_tail = c.send_tail
<1>1. c.recv_head \in Num /\ c.recv_buf \in [0 .. TCP_BUFFER - 1 -> Int] /\ s.data \in Seq(Int) /\ Len(s.data) \in Nat
  BY DEF Conn, Seg
<1>2. c.recv_head \in Int BY <1>1, TcpSizes DEF Num
<1>3. PICK h \in Num : h = Seqn(c.recv_head + Len(s.data)) BY <1>1, <1>2, SeqnRange
<1> DEFINE K(i) == {k \in 1 .. Len(s.data) : (c.recv_head + k - 1) % TCP_BUFFER = i}
           V(i) == IF K(i) = {} THEN c.recv_buf[i] ELSE s.data[CHOOSE k \in K(i) : \A j \in K(i) : j <= k]
<1>4. ASSUME NEW i \in 0 .. TCP_BUFFER - 1 PROVE V(i) \in Int
  <2>1. CASE K(i) = {} BY <1>1, <2>1
  <2>2. CASE K(i) # {}
    <3>1. K(i) \in SUBSET (1 .. Len(s.data)) OBVIOUS
    <3> HIDE DEF K
    <3>2. (CHOOSE k \in K(i) : \A j \in K(i) : j <= k) \in K(i) BY <1>1, <2>2, <3>1, LastExists
    <3>3. PICK l \in 1 .. Len(s.data) : l = (CHOOSE k \in K(i) : \A j \in K(i) : j <= k) BY <3>1, <3>2
    <3>4. s.data[l] \in Int BY <1>1, ElementOfSeq
    <3> QED BY <2>2, <3>3, <3>4
  <2> QED BY <2>1, <2>2
<1>5. PICK w : w = [i \in 0 .. TCP_BUFFER - 1 |-> V(i)] OBVIOUS
<1>6. w \in [0 .. TCP_BUFFER - 1 -> Int]
  <2> HIDE DEF V
  <2> QED BY <1>4, <1>5
<1>7. Stored(c, s) = [c EXCEPT !.recv_head = h, !.recv_buf = w]
  <2>1. DOMAIN c.recv_buf = 0 .. TCP_BUFFER - 1 BY <1>1
  <2> QED BY <1>3, <1>5, <2>1 DEF Stored
<1>8. LET d == [c EXCEPT !.recv_head = h, !.recv_buf = w]
      IN  /\ d \in Conn /\ d.port = c.port /\ d.id = c.id /\ d.state = c.state /\ d.seq = c.seq /\ d.ack = c.ack
          /\ d.initial_seq = c.initial_seq /\ d.send_head = c.send_head /\ d.send_tail = c.send_tail
  BY <1>6 DEF Conn
<1> QED BY <1>7, <1>8, Zenon

(* The headers of one segment and of another one, in order.                *)
LEMMA TwoHeaders ==
  ASSUME NEW S, NEW a \in S, NEW b \in S
  PROVE  <<a>> \o <<b>> = <<a, b>> /\ <<a>> \o <<>> = <<a>> /\ <<>> \o <<b>> = <<b>> /\ <<>> \o <<>> = <<>>
<1>a. <<a>> \in Seq(S) OBVIOUS
<1>b. <<b>> \in Seq(S) OBVIOUS
<1>c. <<a, b>> \in Seq(S) OBVIOUS
<1>1. PICK s \in Seq(S), t \in Seq(S), u \in Seq(S) : s = <<a>> /\ t = <<b>> /\ u = <<a, b>>
  BY <1>a, <1>b, <1>c, Zenon
<1>2. Len(s) = 1 /\ Len(t) = 1 /\ Len(u) = 2 /\ s[1] = a /\ t[1] = b /\ u[1] = a /\ u[2] = b BY <1>1
<1>3. s \o t \in Seq(S) /\ Len(s \o t) = 2 /\ (s \o t)[1] = a /\ (s \o t)[2] = b BY <1>2, ConcatProperties
<1>4. \A k \in 1 .. 2 : (s \o t)[k] = u[k]
  <2> SUFFICES ASSUME NEW k \in 1 .. 2 PROVE (s \o t)[k] = u[k] OBVIOUS
  <2>1. k = 1 \/ k = 2 OBVIOUS
  <2> QED BY <1>2, <1>3, <2>1
<1>5. s \o t = u BY <1>2, <1>3, <1>4, SeqEqual
<1>6. s \o <<>> = s /\ <<>> \o t = t /\ <<>> \o <<>> = <<>>
  <2>1. <<>> \in Seq(S) OBVIOUS
  <2> QED BY <2>1, ConcatEmptySeq
<1> QED BY <1>1, <1>5, <1>6

\* Connection c of h after the headers hs is d, and after[n] after n of them.
Ran(h, c, hs, after, d) ==
  /\ d \in Conn /\ d.port = c.port /\ d.id = c.id /\ d.state = c.state /\ d.ack = c.ack
  /\ d.initial_seq = c.initial_seq /\ d.send_head = c.send_head /\ d.send_tail = c.send_tail
  /\ (\A k \in 1 .. Len(hs) : hs[k] \cap {"SYN", "FIN"} = {}) => d.seq = c.seq
  /\ (\E k \in 1 .. Len(hs) : hs[k] \cap {"SYN", "FIN"} # {}) => d.seq = Seqn(c.seq + 1)
  /\ \A n \in 1 .. Len(hs) : LET m == Segment(h, after[n - 1], hs[n], <<>>)
       IN m \in Seg /\ m.to = Peer(h) /\ m.port = c.port /\ m.ack = c.ack /\ m.seq = c.seq /\ m.data = <<>> /\ m.flags = hs[n]

(* Headers of which only the last may use up a number.                     *)
LEMMA HeadersRun ==
  ASSUME NEW h \in Host, NEW c \in Conn, NEW hs \in Seq(SUBSET Flag), Len(hs) \in 0 .. 2,
         \A k \in 1 .. Len(hs) - 1 : hs[k] \cap {"SYN", "FIN"} = {}
  PROVE  Ran(h, c, hs, AfterHeaders(c, hs), AfterHeaders(c, hs)[Len(hs)])
<1> DEFINE after == AfterHeaders(c, hs)
           d == after[Len(hs)]
           Alike(e) == /\ e \in Conn /\ e.port = c.port /\ e.id = c.id /\ e.state = c.state /\ e.ack = c.ack
                       /\ e.initial_seq = c.initial_seq /\ e.send_head = c.send_head /\ e.send_tail = c.send_tail
           Mine(m, k) == /\ m \in Seg /\ m.to = Peer(h) /\ m.port = c.port /\ m.ack = c.ack /\ m.seq = c.seq /\ m.data = <<>>
                         /\ m.flags = hs[k]
<1>1. \A k \in 1 .. Len(hs) : hs[k] \in SUBSET Flag BY ElementOfSeq
<1>2. CASE Len(hs) = 0
  <2>1. after[0] = c BY <1>2, HeadersSent
  <2>2. 1 .. Len(hs) = {} BY <1>2
  <2> HIDE DEF after
  <2>4. d = c BY <1>2, <2>1
  <2> HIDE DEF d
  <2>5. Alike(d) /\ d.seq = c.seq BY <2>4
  <2> QED BY <2>2, <2>5 DEF d, after, Ran
<1>3. CASE Len(hs) = 1
  <2>1. after[0] = c /\ after[1] = AfterHeader(c, hs[1]) BY <1>3, HeadersSent
  <2>2. 1 .. Len(hs) = {1} BY <1>3
  <2>3. 1 - 1 = 0 OBVIOUS
  <2> HIDE DEF after
  <2>4. d = AfterHeader(c, hs[1]) BY <1>3, <2>1
  <2> HIDE DEF d
  <2>6. hs[1] \in SUBSET Flag BY <1>1, <2>2
  <2>7. Alike(d) /\ d.seq = IF hs[1] \cap {"SYN", "FIN"} # {} THEN Seqn(c.seq + 1) ELSE c.seq
    BY <2>4, <2>6, HeaderFields
  <2>8. Mine(Segment(h, c, hs[1], <<>>), 1) BY <2>6, HeaderSegment
  <2>9. \A n \in 1 .. Len(hs) : Mine(Segment(h, after[n - 1], hs[n], <<>>), n)
    <3> HIDE DEF Mine
    <3> QED BY <2>1, <2>2, <2>3, <2>8
  <2> QED BY <2>2, <2>7, <2>9 DEF d, after, Ran
<1>4. CASE Len(hs) = 2
  <2>1. after[0] = c /\ after[1] = AfterHeader(c, hs[1]) /\ after[2] = AfterHeader(AfterHeader(c, hs[1]), hs[2])
    BY <1>4, HeadersSent
  <2>2. 1 .. Len(hs) = {1, 2} /\ 1 \in 1 .. Len(hs) - 1 BY <1>4
  <2>3. 1 - 1 = 0 /\ 2 - 1 = 1 OBVIOUS
  <2>4. hs[1] \cap {"SYN", "FIN"} = {} BY <2>2
  <2>5. AfterHeader(c, hs[1]) = c BY <2>4 DEF AfterHeader
  <2> HIDE DEF after
  <2>6. d = AfterHeader(c, hs[2]) BY <1>4, <2>1, <2>5
  <2> HIDE DEF d
  <2>8. hs[1] \in SUBSET Flag /\ hs[2] \in SUBSET Flag BY <1>1, <2>2
  <2>9. Alike(d) /\ d.seq = IF hs[2] \cap {"SYN", "FIN"} # {} THEN Seqn(c.seq + 1) ELSE c.seq
    BY <2>6, <2>8, HeaderFields
  <2>10. \A n \in 1 .. Len(hs) : Mine(Segment(h, after[n - 1], hs[n], <<>>), n)
    <3>1. Mine(Segment(h, c, hs[1], <<>>), 1) BY <2>8, HeaderSegment
    <3>2. Mine(Segment(h, c, hs[2], <<>>), 2) BY <2>8, HeaderSegment
    <3> HIDE DEF Mine
    <3> QED BY <2>1, <2>2, <2>3, <2>5, <3>1, <3>2
  <2> QED BY <2>2, <2>4, <2>9, <2>10 DEF d, after, Ran
<1> QED BY <1>2, <1>3, <1>4

\* What segment s makes of the connection c of h before the buffered data is
\* sent, and the headers M it is answered with.
Answered(h, c, s, c2, M) ==
  /\ c2 \in Conn /\ Kept(c, c2) /\ c2.id = c.id /\ c2.send_head = c.send_head
  /\ c2.ack = Seqn((IF c.state = "SYN_SENT" THEN s.seq ELSE c.ack) + Acknowledged(s))
  /\ c2.send_tail = LET acked == Seqn(s.ack - c.initial_seq - 1) IN IF acked > c.send_tail THEN acked ELSE c.send_tail
  /\ "RST" \notin s.flags
  /\ M \in SUBSET Seg
  /\ \A m \in M : m.to = Peer(h) /\ m.port = c.port /\ m.ack = c2.ack /\ m.seq = c.seq /\ m.data = <<>>
  /\ \/ /\ c.state = "SYN_SENT" /\ {"SYN", "ACK"} \subseteq s.flags
        /\ c2.state = "ESTABLISHED" /\ c2.seq = c.seq /\ \A m \in M : m.flags = {"ACK"}
     \/ /\ c.state = "SYN_SENT" /\ ~({"SYN", "ACK"} \subseteq s.flags)
        /\ c2.state = c.state /\ c2.seq = c.seq /\ \A m \in M : m.flags = {"RST"}
     \/ /\ c.state = "SYN_RECEIVED" /\ "ACK" \in s.flags
        /\ c2.state = "ESTABLISHED" /\ c2.seq = c.seq /\ M = {}
     \/ /\ c.state = "SYN_RECEIVED" /\ "ACK" \notin s.flags
        /\ c2.state = c.state /\ c2.seq = c.seq /\ \A m \in M : m.flags = {"RST"}
     \/ /\ c.state = "ESTABLISHED" /\ "FIN" \notin s.flags
        /\ c2.state = c.state /\ c2.seq = c.seq /\ \A m \in M : m.flags = {"ACK"}
     \/ /\ c.state = "ESTABLISHED" /\ "FIN" \in s.flags
        /\ c2.state = "LAST_ACK" /\ c2.seq = Seqn(c.seq + 1) /\ \A m \in M : m.flags \in {{"ACK"}, {"ACK", "FIN"}}
     \/ /\ c.state \in {"FIN_WAIT_1", "FIN_WAIT_2"} /\ "FIN" \in s.flags
        /\ c2.state = "TIME_WAIT" /\ c2.seq = c.seq /\ \A m \in M : m.flags = {"ACK"}
     \/ /\ c.state \in {"FIN_WAIT_1", "FIN_WAIT_2"} /\ "FIN" \notin s.flags
        /\ c2.state \in {c.state, "FIN_WAIT_2"} /\ c2.seq = c.seq /\ M = {}
     \/ /\ c.state \in {"TIME_WAIT", "LAST_ACK"} /\ "ACK" \notin s.flags
        /\ c2.state = c.state /\ c2.seq = c.seq /\ M = {}

\* What tcp_on_data of h makes of segment s for c: the outcome o, the
\* connection after each header, and the headers M.
Handled(h, c, s, o, after, M) ==
  /\ o = Outcome(c, s)
  /\ after = LET c1 == IF o.keep THEN Stored(Noted(c, s), s) ELSE Noted(c, s)
            IN  AfterHeaders([c1 EXCEPT !.state = o.state], o.headers)
  /\ M = {Segment(h, after[n - 1], o.headers[n], <<>>) : n \in 1 .. Len(o.headers)}

(* tcp_on_data gives a connection up or answers.                           *)
LEMMA OnDataResult ==
  ASSUME NEW h \in Host, NEW c \in Conn, c.state # "CLOSED", NEW s \in Seg, NEW o, NEW after, NEW M, Handled(h, c, s, o, after, M)
  PROVE  \/ /\ o.state = "gone" /\ o.headers = <<>>
            /\ "RST" \in s.flags \/ (c.state \in {"TIME_WAIT", "LAST_ACK"} /\ "ACK" \in s.flags)
         \/ o.state # "gone" /\ Answered(h, c, s, after[Len(o.headers)], M) /\ o.state = after[Len(o.headers)].state
<1>1. o = Outcome(c, s) BY DEF Handled
<1>2. PICK c1 : c1 = (IF o.keep THEN Stored(Noted(c, s), s) ELSE Noted(c, s)) OBVIOUS
<1>3. PICK a : a = Seqn((IF c.state = "SYN_SENT" THEN s.seq ELSE c.ack) + Acknowledged(s)) OBVIOUS
<1>4. PICK t : t = (LET acked == Seqn(s.ack - c.initial_seq - 1) IN IF acked > c.send_tail THEN acked ELSE c.send_tail)
  OBVIOUS
<1>5. /\ c1 \in Conn /\ c1.port = c.port /\ c1.id = c.id /\ c1.seq = c.seq /\ c1.initial_seq = c.initial_seq
      /\ c1.send_head = c.send_head /\ c1.ack = a /\ c1.send_tail = t
  <2>1. PICK e : e = Noted(c, s) OBVIOUS
  <2>2. /\ e \in Conn /\ e.port = c.port /\ e.id = c.id /\ e.seq = c.seq /\ e.initial_seq = c.initial_seq
        /\ e.send_head = c.send_head /\ e.ack = a /\ e.send_tail = t BY <1>3, <1>4, <2>1, NotedFields
  <2>3. PICK g : g = Stored(e, s) OBVIOUS
  <2>4. /\ g \in Conn /\ g.port = c.port /\ g.id = c.id /\ g.seq = c.seq /\ g.initial_seq = c.initial_seq
        /\ g.send_head = c.send_head /\ g.ack = a /\ g.send_tail = t BY <2>2, <2>3, StoredFields
  <2>5. c1 = e \/ c1 = g BY <1>2, <2>1, <2>3
  <2> QED BY <2>2, <2>4, <2>5
<1>6. PICK u : u = [c1 EXCEPT !.state = o.state] OBVIOUS
<1>7. after = AfterHeaders(u, o.headers) BY <1>2, <1>6 DEF Handled
<1>8. PICK c2 : c2 = after[Len(o.headers)] OBVIOUS
<1>9. M = {Segment(h, after[n - 1], o.headers[n], <<>>) : n \in 1 .. Len(o.headers)} BY DEF Handled
<1> DEFINE Out(st, hs) == o.state = st /\ o.headers = hs
           Common(st) == /\ c2 \in Conn /\ Kept(c, c2) /\ c2.id = c.id /\ c2.send_head = c.send_head /\ c2.ack = a /\ c2.send_tail = t
                       /\ c2.state = st
                       /\ M \in SUBSET Seg
                       /\ \A m \in M : m.to = Peer(h) /\ m.port = c.port /\ m.ack = c2.ack /\ m.seq = c.seq /\ m.data = <<>>
<1>10. ASSUME NEW st \in ConnState, NEW hs \in Seq(SUBSET Flag), Len(hs) \in 0 .. 2, st # "CLOSED", Out(st, hs),
              \A k \in 1 .. Len(hs) - 1 : hs[k] \cap {"SYN", "FIN"} = {}, "RST" \notin s.flags
       PROVE  /\ Common(st)
              /\ \A m \in M : \E k \in 1 .. Len(hs) : m.flags = hs[k]
              /\ (\A k \in 1 .. Len(hs) : hs[k] \cap {"SYN", "FIN"} = {}) => c2.seq = c.seq
              /\ (\E k \in 1 .. Len(hs) : hs[k] \cap {"SYN", "FIN"} # {}) => c2.seq = Seqn(c.seq + 1)
  <2>1. u = [c1 EXCEPT !.state = st] BY <1>6, <1>10
  <2>2. /\ u \in Conn /\ u.port = c.port /\ u.id = c.id /\ u.seq = c.seq /\ u.initial_seq = c.initial_seq /\ u.state = st
        /\ u.send_head = c.send_head /\ u.ack = a /\ u.send_tail = t BY <1>5, <2>1 DEF Conn
  <2>3. after = AfterHeaders(u, hs) /\ c2 = after[Len(hs)] /\ M = {Segment(h, after[n - 1], hs[n], <<>>) : n \in 1 .. Len(hs)}
    BY <1>7, <1>8, <1>9, <1>10
  <2>4. /\ c2 \in Conn /\ c2.port = u.port /\ c2.id = u.id /\ c2.state = u.state /\ c2.ack = u.ack
        /\ c2.initial_seq = u.initial_seq /\ c2.send_head = u.send_head /\ c2.send_tail = u.send_tail
        /\ (\A k \in 1 .. Len(hs) : hs[k] \cap {"SYN", "FIN"} = {}) => c2.seq = u.seq
        /\ (\E k \in 1 .. Len(hs) : hs[k] \cap {"SYN", "FIN"} # {}) => c2.seq = Seqn(u.seq + 1)
        /\ \A n \in 1 .. Len(hs) : LET m == Segment(h, after[n - 1], hs[n], <<>>)
             IN m \in Seg /\ m.to = Peer(h) /\ m.port = u.port /\ m.ack = u.ack /\ m.seq = u.seq /\ m.data = <<>> /\ m.flags = hs[n]
    <3>1. Ran(h, u, hs, AfterHeaders(u, hs), AfterHeaders(u, hs)[Len(hs)]) BY <1>10, <2>2, HeadersRun
    <3>2. Ran(h, u, hs, after, c2) BY <2>3, <3>1
    <3> QED BY <3>2 DEF Ran
  <2>5. Kept(c, c2) BY <1>10, <2>2, <2>4 DEF Kept
  <2>6. ASSUME NEW m \in M
        PROVE  /\ m \in Seg /\ m.to = Peer(h) /\ m.port = c.port /\ m.ack = c2.ack /\ m.seq = c.seq /\ m.data = <<>>
               /\ \E k \in 1 .. Len(hs) : m.flags = hs[k]
    <3>1. PICK n \in 1 .. Len(hs) : m = Segment(h, after[n - 1], hs[n], <<>>) BY <2>3, <2>6
    <3> QED BY <2>2, <2>4, <3>1
  <2> QED BY <2>2, <2>4, <2>5, <2>6
<1>11. ASSUME NEW st \in ConnState, st # "CLOSED", Out(st, <<>>), "RST" \notin s.flags
       PROVE  Common(st) /\ c2.seq = c.seq /\ M = {}
  <2>1. PICK hs : hs = <<>> OBVIOUS
  <2>2. hs \in Seq(SUBSET Flag) /\ Len(hs) = 0 /\ 1 .. Len(hs) = {} /\ 1 .. Len(hs) - 1 = {} BY <2>1
  <2>3. Out(st, hs) BY <1>11, <2>1
  <2> HIDE DEF Out, Common
  <2>4. /\ Common(st) /\ \A m \in M : \E k \in 1 .. Len(hs) : m.flags = hs[k]
        /\ (\A k \in 1 .. Len(hs) : hs[k] \cap {"SYN", "FIN"} = {}) => c2.seq = c.seq
    <3>1. Len(hs) \in 0 .. 2 /\ \A k \in 1 .. Len(hs) - 1 : hs[k] \cap {"SYN", "FIN"} = {} BY <2>2
    <3> QED BY <1>10, <1>11, <2>2, <2>3, <3>1
  <2> QED BY <2>2, <2>4
<1>12. ASSUME NEW st \in ConnState, st # "CLOSED", NEW F \in SUBSET Flag, F \cap {"SYN", "FIN"} = {}, Out(st, <<F>>), "RST" \notin s.flags
       PROVE  Common(st) /\ c2.seq = c.seq /\ \A m \in M : m.flags = F
  <2>1. PICK hs : hs = <<F>> OBVIOUS
  <2>2. hs \in Seq(SUBSET Flag) /\ Len(hs) = 1 /\ 1 .. Len(hs) = {1} /\ 1 .. Len(hs) - 1 = {} /\ hs[1] = F
    BY <2>1
  <2>3. Out(st, hs) BY <1>12, <2>1
  <2> HIDE DEF Out, Common
  <2>4. /\ Common(st) /\ \A m \in M : \E k \in 1 .. Len(hs) : m.flags = hs[k]
        /\ (\A k \in 1 .. Len(hs) : hs[k] \cap {"SYN", "FIN"} = {}) => c2.seq = c.seq
    <3>1. Len(hs) \in 0 .. 2 /\ \A k \in 1 .. Len(hs) - 1 : hs[k] \cap {"SYN", "FIN"} = {} BY <2>2
    <3> QED BY <1>10, <1>12, <2>2, <2>3, <3>1
  <2> QED BY <1>12, <2>2, <2>4
<1>13. ASSUME NEW st \in ConnState, st # "CLOSED", "RST" \notin s.flags,
              Out(st, <<{"ACK", "FIN"}>>) \/ Out(st, <<{"ACK"}, {"ACK", "FIN"}>>)
       PROVE  Common(st) /\ c2.seq = Seqn(c.seq + 1) /\ \A m \in M : m.flags \in {{"ACK"}, {"ACK", "FIN"}}
  <2>1. PICK hs \in {<<{"ACK", "FIN"}>>, <<{"ACK"}, {"ACK", "FIN"}>>} : Out(st, hs) BY <1>13
  <2>2. hs \in Seq(SUBSET Flag) /\ Len(hs) \in 0 .. 2 /\ hs[Len(hs)] = {"ACK", "FIN"} /\ Len(hs) \in 1 .. Len(hs)
        /\ (\A k \in 1 .. Len(hs) - 1 : hs[k] = {"ACK"}) /\ \A k \in 1 .. Len(hs) : hs[k] \in {{"ACK"}, {"ACK", "FIN"}}
    <3>1. CASE hs = <<{"ACK", "FIN"}>>
      <4>1. Len(hs) = 1 /\ hs[1] = {"ACK", "FIN"} /\ 1 .. 1 = {1} /\ 1 .. 1 - 1 = {} BY <3>1
      <4>2. hs \in Seq(SUBSET Flag) BY <3>1 DEF Flag
      <4> QED BY <4>1, <4>2
    <3>2. CASE hs = <<{"ACK"}, {"ACK", "FIN"}>>
      <4>1. Len(hs) = 2 /\ hs[1] = {"ACK"} /\ hs[2] = {"ACK", "FIN"} /\ 1 .. 2 = {1, 2} /\ 1 .. 2 - 1 = {1}
        BY <3>2
      <4>2. hs \in Seq(SUBSET Flag) BY <3>2 DEF Flag
      <4> QED BY <4>1, <4>2
    <3> QED BY <3>1, <3>2
  <2>3. {"ACK"} \cap {"SYN", "FIN"} = {} /\ {"ACK", "FIN"} \cap {"SYN", "FIN"} # {} OBVIOUS
  <2> HIDE DEF Out, Common
  <2>4. /\ Common(st) /\ \A m \in M : \E k \in 1 .. Len(hs) : m.flags = hs[k]
        /\ (\E k \in 1 .. Len(hs) : hs[k] \cap {"SYN", "FIN"} # {}) => c2.seq = Seqn(c.seq + 1)
    <3>1. \A k \in 1 .. Len(hs) - 1 : hs[k] \cap {"SYN", "FIN"} = {} BY <2>2, <2>3
    <3> QED BY <1>10, <1>13, <2>1, <2>2, <3>1
  <2>5. \E k \in 1 .. Len(hs) : hs[k] \cap {"SYN", "FIN"} # {} BY <2>2, <2>3
  <2>6. \A m \in M : m.flags \in {{"ACK"}, {"ACK", "FIN"}} BY <2>2, <2>4
  <2> QED BY <2>4, <2>5, <2>6
<1> DEFINE Done == \/ /\ o.state = "gone" /\ o.headers = <<>>
                      /\ "RST" \in s.flags \/ (c.state \in {"TIME_WAIT", "LAST_ACK"} /\ "ACK" \in s.flags)
                   \/ o.state # "gone" /\ Answered(h, c, s, c2, M) /\ o.state = c2.state
<1>14. ASSUME "RST" \in s.flags PROVE Done
  <2>1. o.state = "gone" /\ o.headers = <<>> BY <1>1, <1>14 DEF Outcome
  <2> HIDE DEF Done
  <2>2. "RST" \in s.flags \/ (c.state \in {"TIME_WAIT", "LAST_ACK"} /\ "ACK" \in s.flags) BY <1>14
  <2> QED BY <2>1, <2>2, Zenon DEF Done
<1>15. ASSUME "RST" \notin s.flags, NEW st \in ConnState, o.state = st, Common(st),
         \/ /\ c.state = "SYN_SENT" /\ {"SYN", "ACK"} \subseteq s.flags
            /\ st = "ESTABLISHED" /\ c2.seq = c.seq /\ \A m \in M : m.flags = {"ACK"}
         \/ /\ c.state = "SYN_SENT" /\ ~({"SYN", "ACK"} \subseteq s.flags)
            /\ st = c.state /\ c2.seq = c.seq /\ \A m \in M : m.flags = {"RST"}
         \/ /\ c.state = "SYN_RECEIVED" /\ "ACK" \in s.flags
            /\ st = "ESTABLISHED" /\ c2.seq = c.seq /\ M = {}
         \/ /\ c.state = "SYN_RECEIVED" /\ "ACK" \notin s.flags
            /\ st = c.state /\ c2.seq = c.seq /\ \A m \in M : m.flags = {"RST"}
         \/ /\ c.state = "ESTABLISHED" /\ "FIN" \notin s.flags
            /\ st = c.state /\ c2.seq = c.seq /\ \A m \in M : m.flags = {"ACK"}
         \/ /\ c.state = "ESTABLISHED" /\ "FIN" \in s.flags
            /\ st = "LAST_ACK" /\ c2.seq = Seqn(c.seq + 1) /\ \A m \in M : m.flags \in {{"ACK"}, {"ACK", "FIN"}}
         \/ /\ c.state \in {"FIN_WAIT_1", "FIN_WAIT_2"} /\ "FIN" \in s.flags
            /\ st = "TIME_WAIT" /\ c2.seq = c.seq /\ \A m \in M : m.flags = {"ACK"}
         \/ /\ c.state \in {"FIN_WAIT_1", "FIN_WAIT_2"} /\ "FIN" \notin s.flags
            /\ st \in {c.state, "FIN_WAIT_2"} /\ c2.seq = c.seq /\ M = {}
         \/ /\ c.state \in {"TIME_WAIT", "LAST_ACK"} /\ "ACK" \notin s.flags
            /\ st = c.state /\ c2.seq = c.seq /\ M = {}
       PROVE  Done
  <2>1. Answered(h, c, s, c2, M) BY <1>3, <1>4, <1>15 DEF Answered
  <2>2. o.state # "gone" BY <1>15 DEF ConnState
  <2> QED BY <1>15, <2>1, <2>2
<1>16. ASSUME "RST" \notin s.flags PROVE Done
  <2>0. {"ACK"} \in SUBSET Flag /\ {"RST"} \in SUBSET Flag /\ {"ACK"} \cap {"SYN", "FIN"} = {} /\ {"RST"} \cap {"SYN", "FIN"} = {} BY DEF Flag
  <2>00. c.state \in ConnState /\ "ESTABLISHED" \in ConnState /\ "LAST_ACK" \in ConnState /\ "TIME_WAIT" \in ConnState
         /\ "FIN_WAIT_2" \in ConnState BY DEF Conn, ConnState
  <2>1. CASE c.state = "SYN_SENT" /\ {"SYN", "ACK"} \subseteq s.flags
    <3>1. Out("ESTABLISHED", <<{"ACK"}>>) BY <1>1, <1>16, <2>1 DEF Outcome
    <3> HIDE DEF Out, Common, Done
    <3>2. Common("ESTABLISHED") /\ c2.seq = c.seq /\ \A m \in M : m.flags = {"ACK"}
      BY <1>12, <1>16, <2>0, <2>00, <3>1
    <3>3. o.state = "ESTABLISHED" BY <3>1 DEF Out
    <3> QED BY <1>15, <1>16, <2>1, <2>00, <3>2, <3>3
  <2>2. CASE c.state = "SYN_SENT" /\ ~({"SYN", "ACK"} \subseteq s.flags)
    <3>1. Out(c.state, <<{"RST"}>>) BY <1>1, <1>16, <2>2 DEF Outcome
    <3> HIDE DEF Out, Common, Done
    <3>2. Common(c.state) /\ c2.seq = c.seq /\ \A m \in M : m.flags = {"RST"}
      BY <1>12, <1>16, <2>0, <2>00, <3>1
    <3>3. o.state = c.state BY <3>1 DEF Out
    <3> QED BY <1>15, <1>16, <2>2, <2>00, <3>2, <3>3
  <2>3. CASE c.state = "SYN_RECEIVED" /\ "ACK" \in s.flags
    <3>1. Out("ESTABLISHED", <<>>) BY <1>1, <1>16, <2>3 DEF Outcome
    <3> HIDE DEF Out, Common, Done
    <3>2. Common("ESTABLISHED") /\ c2.seq = c.seq /\ M = {} BY <1>11, <1>16, <2>00, <3>1
    <3>3. o.state = "ESTABLISHED" BY <3>1 DEF Out
    <3> QED BY <1>15, <1>16, <2>3, <2>00, <3>2, <3>3
  <2>4. CASE c.state = "SYN_RECEIVED" /\ "ACK" \notin s.flags
    <3>1. Out(c.state, <<{"RST"}>>) BY <1>1, <1>16, <2>4 DEF Outcome
    <3> HIDE DEF Out, Common, Done
    <3>2. Common(c.state) /\ c2.seq = c.seq /\ \A m \in M : m.flags = {"RST"}
      BY <1>12, <1>16, <2>0, <2>00, <3>1
    <3>3. o.state = c.state BY <3>1 DEF Out
    <3> QED BY <1>15, <1>16, <2>4, <2>00, <3>2, <3>3
  <2>5. CASE c.state = "ESTABLISHED" /\ "FIN" \notin s.flags
    <3>1. o.state = c.state /\ o.headers = (IF s.data # <<>> THEN <<{"ACK"}>> ELSE <<>>) \o <<>>
      BY <1>1, <1>16, <2>5 DEF Outcome
    <3>2. <<{"ACK"}>> \o <<>> = <<{"ACK"}>> /\ <<>> \o <<>> = <<>> BY <2>0, TwoHeaders
    <3>3. Out(c.state, <<{"ACK"}>>) \/ Out(c.state, <<>>) BY <3>1, <3>2
    <3> HIDE DEF Out, Common, Done
    <3>4. Common(c.state) /\ c2.seq = c.seq /\ \A m \in M : m.flags = {"ACK"}
      BY <1>11, <1>12, <1>16, <2>0, <2>00, <3>3
    <3> QED BY <1>15, <1>16, <2>5, <2>00, <3>1, <3>4
  <2>6. CASE c.state = "ESTABLISHED" /\ "FIN" \in s.flags
    <3>1. o.state = "LAST_ACK" /\ o.headers = (IF s.data # <<>> THEN <<{"ACK"}>> ELSE <<>>) \o <<{"ACK", "FIN"}>>
      BY <1>1, <1>16, <2>6 DEF Outcome
    <3>2. <<{"ACK"}>> \o <<{"ACK", "FIN"}>> = <<{"ACK"}, {"ACK", "FIN"}>> /\ <<>> \o <<{"ACK", "FIN"}>> = <<{"ACK", "FIN"}>>
      <4>1. {"ACK", "FIN"} \in SUBSET Flag BY DEF Flag
      <4>2. PICK A \in SUBSET Flag, B \in SUBSET Flag : A = {"ACK"} /\ B = {"ACK", "FIN"} BY <2>0, <4>1
      <4>3. <<A>> \o <<B>> = <<A, B>> /\ <<>> \o <<B>> = <<B>> BY <4>2, TwoHeaders
      <4> QED BY <4>2, <4>3
    <3>3. Out("LAST_ACK", <<{"ACK", "FIN"}>>) \/ Out("LAST_ACK", <<{"ACK"}, {"ACK", "FIN"}>>) BY <3>1, <3>2
    <3> HIDE DEF Out, Common, Done
    <3>4. Common("LAST_ACK") /\ c2.seq = Seqn(c.seq + 1) /\ \A m \in M : m.flags \in {{"ACK"}, {"ACK", "FIN"}}
      BY <1>13, <1>16, <2>00, <3>3
    <3> QED BY <1>15, <1>16, <2>6, <2>00, <3>1, <3>4
  <2>7. CASE c.state \in {"FIN_WAIT_1", "FIN_WAIT_2"} /\ "FIN" \in s.flags
    <3>1. Out("TIME_WAIT", <<{"ACK"}>>) BY <1>1, <1>16, <2>7 DEF Outcome
    <3> HIDE DEF Out, Common, Done
    <3>2. Common("TIME_WAIT") /\ c2.seq = c.seq /\ \A m \in M : m.flags = {"ACK"}
      BY <1>12, <1>16, <2>0, <2>00, <3>1
    <3>3. o.state = "TIME_WAIT" BY <3>1 DEF Out
    <3> QED BY <1>15, <1>16, <2>7, <2>00, <3>2, <3>3
  <2>8. CASE c.state \in {"FIN_WAIT_1", "FIN_WAIT_2"} /\ "FIN" \notin s.flags
    <3>1. Out("FIN_WAIT_2", <<>>) \/ Out(c.state, <<>>) BY <1>1, <1>16, <2>8 DEF Outcome
    <3>2. PICK st \in {"FIN_WAIT_2", c.state} : Out(st, <<>>) BY <3>1
    <3> HIDE DEF Out, Common, Done
    <3>3. Common(st) /\ c2.seq = c.seq /\ M = {} BY <1>11, <1>16, <2>00, <3>2
    <3>4. o.state = st /\ st \in ConnState /\ st \in {c.state, "FIN_WAIT_2"} BY <2>00, <3>2 DEF Out
    <3> QED BY <1>15, <1>16, <2>8, <3>3, <3>4
  <2>9. CASE c.state \in {"TIME_WAIT", "LAST_ACK"} /\ "ACK" \in s.flags
    <3>1. Out("gone", <<>>) BY <1>1, <1>16, <2>9 DEF Outcome
    <3> QED BY <2>9, <3>1
  <2>10. CASE c.state \in {"TIME_WAIT", "LAST_ACK"} /\ "ACK" \notin s.flags
    <3>1. Out(c.state, <<>>) BY <1>1, <1>16, <2>10 DEF Outcome
    <3> HIDE DEF Out, Common, Done
    <3>2. Common(c.state) /\ c2.seq = c.seq /\ M = {} BY <1>11, <1>16, <2>00, <3>1
    <3>3. o.state = c.state BY <3>1 DEF Out
    <3> QED BY <1>15, <1>16, <2>10, <2>00, <3>2, <3>3
  <2>11. \/ c.state = "SYN_SENT" \/ c.state = "SYN_RECEIVED" \/ c.state = "ESTABLISHED"
         \/ c.state \in {"FIN_WAIT_1", "FIN_WAIT_2"} \/ c.state \in {"TIME_WAIT", "LAST_ACK"}
    BY <2>00 DEF ConnState
  <2> HIDE DEF Done
  <2>12. c.state = "SYN_SENT" => Done BY <2>1, <2>2, Zenon
  <2>13. c.state = "SYN_RECEIVED" => Done BY <2>3, <2>4, Zenon
  <2>14. c.state = "ESTABLISHED" => Done BY <2>5, <2>6, Zenon
  <2>15. c.state \in {"FIN_WAIT_1", "FIN_WAIT_2"} => Done BY <2>7, <2>8, Zenon
  <2>16. c.state \in {"TIME_WAIT", "LAST_ACK"} => Done BY <2>9, <2>10, Zenon
  <2> QED BY <2>11, <2>12, <2>13, <2>14, <2>15, <2>16, Zenon
<1>17. Done BY <1>14, <1>16
<1> QED BY <1>8, <1>17, Zenon

(* What a segment acknowledges is never more than was sent, so what is taken *)
(* to be sent stays the same.                                              *)
LEMMA TailStays ==
  ASSUME NEW h \in Host, NEW c \in Conn, NEW s \in Seg, Sender(h, c), c.state \in {"SYN_SENT", "SYN_RECEIVED", "ESTABLISHED"},
         1 <= Off(s.ack, c.initial_seq), Off(s.ack, c.initial_seq) <= Off(c.seq, c.initial_seq),
         NEW t, t = (LET acked == Seqn(s.ack - c.initial_seq - 1) IN IF acked > c.send_tail THEN acked ELSE c.send_tail)
  PROVE  t = c.send_tail
<1>1. s.ack \in Num /\ c.seq \in Num /\ c.initial_seq \in Num /\ c.send_tail \in Nat BY DEF Seg, Conn
<1>2. PICK a \in Nat, o \in Nat : a = Off(s.ack, c.initial_seq) /\ o = Off(c.seq, c.initial_seq)
  BY <1>1, OffFacts
<1>3. Seqn(s.ack - c.initial_seq - 1) = a - 1 BY <1>1, <1>2, OffFacts
<1>4. o = 1 + c.send_tail BY <1>1, <1>2 DEF Sender
<1>5. ~(a - 1 > c.send_tail) BY <1>1, <1>2, <1>4
<1> QED BY <1>3, <1>5

(* The number after a segment that is expected, known by its sender.       *)
LEMMA AckGrows ==
  ASSUME NEW s \in Seg, NEW y \in Num, NEW l \in Nat, l < SEQ_RANGE, SegOK(s, y, l)
  PROVE  /\ Off(Seqn(s.seq + Acknowledged(s)), y) = Off(s.seq, y) + Acknowledged(s)
         /\ 1 <= Off(Seqn(s.seq + Acknowledged(s)), y) \/ ("SYN" \notin s.flags /\ Off(s.seq, y) = 0)
         /\ Off(Seqn(s.seq + Acknowledged(s)), y) <= l
<1>1. s.seq \in Num BY DEF Seg
<1>2. PICK o \in Nat, k \in Nat : o = Off(s.seq, y) /\ k = Acknowledged(s)
  BY <1>1, OffFacts, AcknowledgedNat
<1>3. o + k <= l BY <1>2 DEF SegOK
<1>4. o + k < SEQ_RANGE BY <1>2, <1>3, TcpSizes
<1>5. Off(Seqn(s.seq + k), y) = o + k BY <1>1, <1>2, <1>4, OffAdd
<1>6. "SYN" \in s.flags => k = 1
  <2>1. "SYN" \in s.flags => s.data = <<>> BY DEF SegOK
  <2> QED BY <1>2, <2>1, AcknowledgedNat
<1>7. o = 0 <=> "SYN" \in s.flags BY <1>2 DEF SegOK
<1> QED BY <1>2, <1>3, <1>5, <1>6, <1>7

(* The client's connection after a segment.                                *)
LEMMA ClientAnswers ==
  ASSUME NEW c \in Conn, Sender(Client, c), c.state # "CLOSED", c.state # "SYN_RECEIVED", NEW s \in Seg,
         1 <= Off(s.ack, c.initial_seq), Off(s.ack, c.initial_seq) <= Off(c.seq, c.initial_seq),
         NEW c2, NEW M, Answered(Client, c, s, c2, M)
  PROVE  ClientMove(c, c2, M)
<1>1. c.seq \in Num /\ c.initial_seq \in Num /\ c.send_tail \in Nat /\ c.send_head \in Nat /\ c.state \in ConnState
  BY DEF Conn
<1>2. PICK x \in Num, o \in Nat : x = c.initial_seq /\ o = Off(c.seq, x) BY <1>1, OffFacts
<1>3. 1 <= o /\ (c.state = "ESTABLISHED" => o <= MaxBytes[Client] + 1) BY <1>2, SenderBound, TcpSizes
<1>4. MaxBytes[Client] \in Nat /\ MaxBytes[Client] + 3 < SEQ_RANGE /\ SEQ_RANGE \in Nat BY TcpSizes
<1>5. c2 \in Conn /\ Kept(c, c2) /\ c2.send_head = c.send_head /\ M \in SUBSET Seg BY DEF Answered
<1>6. \A m \in M : m.seq = c.seq /\ m.data = <<>> BY DEF Answered
<1>7. c.state \in {"SYN_SENT", "ESTABLISHED"} => c2.send_tail = c.send_tail
  <2> SUFFICES ASSUME c.state \in {"SYN_SENT", "ESTABLISHED"} PROVE c2.send_tail = c.send_tail OBVIOUS
  <2>1. c2.send_tail = (LET acked == Seqn(s.ack - c.initial_seq - 1) IN IF acked > c.send_tail THEN acked ELSE c.send_tail)
    BY DEF Answered
  <2>2. c.state \in {"SYN_SENT", "SYN_RECEIVED", "ESTABLISHED"} OBVIOUS
  <2> QED BY <2>1, <2>2, TailStays, TcpSizes
<1>8. c2.initial_seq = x BY <1>2, <1>5 DEF Kept
<1>9. CASE c.state = "ESTABLISHED" /\ "FIN" \in s.flags
  <2>1. c2.state = "LAST_ACK" /\ c2.seq = Seqn(c.seq + 1) /\ \A m \in M : m.flags \in {{"ACK"}, {"ACK", "FIN"}}
    BY <1>9 DEF Answered
  <2>2. Off(c.seq, x) + 1 < SEQ_RANGE BY <1>2, <1>3, <1>4, <1>9
  <2>3. Off(c2.seq, x) = o + 1 BY <1>1, <1>2, <2>1, <2>2, OffAdd
  <2>4. Sender(Client, c2)
    <3>1. c2.send_head <= MaxBytes[Client] BY <1>5 DEF Sender
    <3>2. 2 <= o + 1 /\ o + 1 <= MaxBytes[Client] + 2 BY <1>3, <1>4, <1>9
    <3> QED BY <1>8, <2>1, <2>3, <3>1, <3>2 DEF Sender
  <2>5. ASSUME NEW m \in M PROVE SegOK(m, x, o + 1)
    <3>1. m \in Seg /\ m.seq = c.seq /\ m.data = <<>> /\ m.flags \in {{"ACK"}, {"ACK", "FIN"}}
      BY <1>5, <1>6, <2>1
    <3>2. Acknowledged(m) \in {0, 1} BY <3>1, AcknowledgedNat
    <3>3. "SYN" \notin m.flags BY <3>1
    <3> QED BY <1>2, <1>3, <3>1, <3>2, <3>3 DEF SegOK
  <2> QED BY <1>2, <2>1, <2>3, <2>4, <2>5 DEF ClientMove
<1>10. CASE ~(c.state = "ESTABLISHED" /\ "FIN" \in s.flags)
  <2>1. c2.seq = c.seq /\ \A m \in M : m.flags \in {{"ACK"}, {"RST"}}
    <3>1. \/ c2.seq = c.seq /\ \A m \in M : m.flags = {"ACK"}
          \/ c2.seq = c.seq /\ \A m \in M : m.flags = {"RST"}
          \/ c2.seq = c.seq /\ M = {}
      BY <1>10 DEF Answered
    <3> QED BY <3>1
  <2>2. \/ c.state = "SYN_SENT" /\ c2.state \in {"SYN_SENT", "ESTABLISHED"}
        \/ c.state = "ESTABLISHED" /\ c2.state = "ESTABLISHED"
        \/ c.state \in {"FIN_WAIT_1", "FIN_WAIT_2"} /\ c2.state \in {"FIN_WAIT_1", "FIN_WAIT_2", "TIME_WAIT"}
        \/ c.state \in {"TIME_WAIT", "LAST_ACK"} /\ c2.state = c.state
    BY <1>10 DEF Answered
  <2>3. Off(c2.seq, x) = o BY <1>2, <2>1
  <2>4. Sender(Client, c2) BY <1>1, <1>2, <1>5, <1>7, <1>8, <2>2, <2>3 DEF Sender
  <2>5. ASSUME NEW m \in M PROVE SegOK(m, x, o)
    <3>1. m \in Seg /\ m.seq = c.seq /\ m.data = <<>> /\ m.flags \in {{"ACK"}, {"RST"}} BY <1>5, <1>6, <2>1
    <3>2. m.flags \cap {"SYN", "FIN"} = {} /\ "SYN" \notin m.flags BY <3>1
    <3>3. Acknowledged(m) = 0 BY <3>1, <3>2, AcknowledgedNat
    <3> QED BY <1>2, <1>3, <3>1, <3>2, <3>3 DEF SegOK
  <2>6. c2.state # "SYN_RECEIVED" BY <2>2
  <2> QED BY <1>2, <2>3, <2>4, <2>5, <2>6 DEF ClientMove
<1> QED BY <1>9, <1>10

(* The pair of the client's connection after a segment.                    *)
LEMMA ClientAnswersPair ==
  ASSUME NEW G, NEW N, NEW p, ConnsInv(G, N, p, FALSE), NEW i \in TcpSlot, NEW c, c = G[Client][i], c.port # 0,
         NEW s \in N, s.to = Client, s.port = c.port, Expected(c, s),
         NEW c2, NEW M, Answered(Client, c, s, c2, M), Open(c2)
  PROVE  PairClient(G[Server], N, c, c2, M)
<1>0. /\ c \in Conn /\ c.state # "CLOSED" /\ c.state # "SYN_RECEIVED" /\ Sender(Client, c)
      /\ \A r \in N : r.to = Server /\ r.port = c.port => SegOK(r, c.initial_seq, Off(c.seq, c.initial_seq))
  BY ClientFacts
<1>1. Open(c) /\ (c2.state = "SYN_SENT" => c.state = "SYN_SENT") BY <1>0 DEF Open, Answered
<1>2. PairSlot(G[Server], N, c) BY <1>1 DEF ConnsInv, PairInv
<1>3. \E j \in TcpSlot : G[Server][j].port = c.port BY <1>2 DEF PairSlot
<1>4. c2.port = c.port /\ c2.initial_seq = c.initial_seq /\ c2 \in Conn /\ M \in SUBSET Seg
  BY DEF Answered, Kept
<1>5. N \in SUBSET Seg /\ s \in Seg BY DEF ConnsInv
<1>6. c.state = "SYN_SENT" => c2.state = "ESTABLISHED"
  <2>1. PICK j \in TcpSlot : G[Server][j].port = c.port BY <1>3
  <2>2. ToClientOK(c, G[Server][j], s) BY <1>2, <2>1 DEF PairSlot
  <2>3. c.state = "SYN_SENT" => s.flags = {"SYN", "ACK"} BY <2>2 DEF ToClientOK
  <2> QED BY <2>3 DEF Answered
<1>7. c2.state \in {"ESTABLISHED", "LAST_ACK"} /\ (c2.state = "ESTABLISHED" => c.state \in {"SYN_SENT", "ESTABLISHED"})
      /\ (c2.state = "LAST_ACK" => c.state \in {"ESTABLISHED", "LAST_ACK"})
  BY <1>0, <1>1, <1>6 DEF Answered, Open
<1>8. c.seq \in Num /\ c.initial_seq \in Num /\ c2.ack \in Num BY <1>0, <1>4 DEF Conn
<1>9. PICK x \in Num, o \in Nat : x = c.initial_seq /\ o = Off(c.seq, x) BY <1>8, OffFacts
<1>10. c2.ack = Seqn(s.seq + Acknowledged(s)) BY DEF Answered, Expected
<1>11. ASSUME NEW j \in TcpSlot, G[Server][j].port = c.port
       PROVE  PairOK(c2, G[Server][j]) /\ \A m \in M : m.port = c.port => AckOK(G[Server][j], m)
  <2>1. PICK d : d = G[Server][j] OBVIOUS
  <2>2. d \in Conn
    <3>1. G[Server] \in [TcpSlot -> Conn] BY SlotsOf, TcpSizes
    <3> QED BY <1>11, <2>1, <3>1
  <2>3. PairOK(c, d) /\ ToClientOK(c, d, s) BY <1>2, <1>11, <2>1 DEF PairSlot
  <2>4. d.seq \in Num /\ d.initial_seq \in Num BY <2>2 DEF Conn
  <2>5. PICK y \in Num, l \in Nat : y = d.initial_seq /\ l = Off(d.seq, y) /\ l < SEQ_RANGE
    BY <2>4, OffFacts
  <2>6. SegOK(s, y, l) BY <2>3, <2>5 DEF ToClientOK
  <2>7. Off(c2.ack, y) <= l /\ (1 <= Off(c2.ack, y) \/ ("SYN" \notin s.flags /\ Off(s.seq, y) = 0))
    BY <1>5, <1>10, <2>5, <2>6, AckGrows
  <2>8. c.state = "SYN_SENT" => "SYN" \in s.flags BY <2>3 DEF ToClientOK
  <2>9. c.state # "SYN_SENT" => Off(s.seq, y) # 0
    <3> SUFFICES ASSUME c.state # "SYN_SENT" PROVE Off(s.seq, y) # 0 OBVIOUS
    <3>1. s.seq = c.ack BY DEF Expected
    <3>2. 1 <= Off(c.ack, y) BY <2>3, <2>5 DEF PairOK
    <3> QED BY <3>1, <3>2
  <2>10. 1 <= Off(c2.ack, y) BY <2>7, <2>8, <2>9
  <2>11. "FIN" \in s.flags => d.state \in {"FIN_WAIT_1", "FIN_WAIT_2", "TIME_WAIT"} BY <2>3 DEF ToClientOK
  <2>12. c2.state = "ESTABLISHED" => d.state \in {"SYN_RECEIVED", "ESTABLISHED", "FIN_WAIT_1", "FIN_WAIT_2"}
    BY <1>7, <2>3 DEF PairOK
  <2>13. c2.state = "LAST_ACK" => d.state \in {"FIN_WAIT_1", "FIN_WAIT_2", "TIME_WAIT"}
    <3>1. CASE c.state = "ESTABLISHED"
      <4>1. c2.state = "LAST_ACK" => "FIN" \in s.flags BY <3>1 DEF Answered
      <4> QED BY <2>11, <4>1
    <3>2. CASE c.state = "LAST_ACK" BY <2>3, <3>2 DEF PairOK
    <3> QED BY <1>7, <3>1, <3>2
  <2>14. d.state = "TIME_WAIT" => Off(d.ack, c2.initial_seq) = Off(c2.seq, c2.initial_seq)
    <3> SUFFICES ASSUME d.state = "TIME_WAIT" PROVE Off(d.ack, c2.initial_seq) = Off(c2.seq, c2.initial_seq)
      OBVIOUS
    <3>1. c.state = "LAST_ACK" BY <1>1, <2>3 DEF PairOK, Open
    <3>2. c2.seq = c.seq BY <3>1 DEF Answered
    <3> QED BY <1>4, <2>3, <3>2 DEF PairOK
  <2>15. PairOK(c2, d)
    <3>1. Sender(Server, d) BY <2>3 DEF PairOK
    <3> QED BY <1>7, <2>5, <2>7, <2>10, <2>12, <2>13, <2>14, <3>1 DEF PairOK
  <2>16. ASSUME NEW m \in M PROVE AckOK(d, m)
    <3>1. m.ack = c2.ack BY DEF Answered
    <3> QED BY <2>5, <2>7, <2>10, <3>1 DEF AckOK
  <2> QED BY <2>1, <2>15, <2>16
<1>12. ASSUME NEW r \in N, r.to = Server, r.port = c.port PROVE ToServerOK(c2, r)
  <2>1. ToServerOK(c, r) BY <1>2, <1>12 DEF PairSlot
  <2>2. CASE c2.state = "ESTABLISHED" BY <1>7, <2>1, <2>2 DEF ToServerOK
  <2>3. CASE c2.state = "LAST_ACK" /\ c.state = "LAST_ACK"
    <3>1. c2.seq = c.seq BY <2>3 DEF Answered
    <3> QED BY <1>4, <2>1, <2>3, <3>1 DEF ToServerOK
  <2>4. CASE c2.state = "LAST_ACK" /\ c.state = "ESTABLISHED"
    <3>1. c2.seq = Seqn(c.seq + 1) BY <2>4 DEF Answered
    <3>2. o <= MaxBytes[Client] + 1 BY <1>0, <1>9, <2>4, SenderBound, TcpSizes
    <3>3. Off(c2.seq, x) = o + 1
      <4>1. MaxBytes[Client] \in Nat /\ MaxBytes[Client] + 3 < SEQ_RANGE /\ SEQ_RANGE \in Nat BY TcpSizes
      <4>2. Off(c.seq, x) + 1 < SEQ_RANGE BY <1>9, <3>2, <4>1
      <4> QED BY <1>8, <1>9, <3>1, <4>2, OffAdd
    <3>4. r.flags \in {{"SYN"}, {"ACK"}} BY <2>1, <2>4 DEF ToServerOK
    <3>5. Off(r.seq, x) + Acknowledged(r) <= o BY <1>0, <1>9, <1>12 DEF SegOK
    <3>6. r \in Seg BY <1>5
    <3>7. r.seq \in Num /\ Acknowledged(r) \in Nat BY <3>6, AcknowledgedNat DEF Seg
    <3>8. Off(r.seq, x) \in Nat BY <1>8, <1>9, <3>7, OffFacts
    <3>9. Off(r.seq, x) < o + 1 BY <3>5, <3>7, <3>8
    <3>10. "FIN" \notin r.flags BY <3>4
    <3> QED BY <1>4, <1>9, <2>4, <3>3, <3>4, <3>9, <3>10 DEF ToServerOK
  <2> QED BY <1>7, <2>2, <2>3, <2>4
<1>13. ASSUME NEW m \in M PROVE ToServerOK(c2, m)
  <2>1. CASE c2.state = "ESTABLISHED"
    <3>1. m.flags = {"ACK"} BY <1>7, <2>1 DEF Answered
    <3> QED BY <2>1, <3>1 DEF ToServerOK
  <2>2. CASE c2.state = "LAST_ACK"
    <3>1. c.state = "ESTABLISHED" /\ c2.seq = Seqn(c.seq + 1) /\ m.flags \in {{"ACK"}, {"ACK", "FIN"}} /\ m.seq = c.seq
      BY <1>7, <2>2 DEF Answered
    <3>2. o <= MaxBytes[Client] + 1 BY <1>0, <1>9, <3>1, SenderBound, TcpSizes
    <3>3. Off(c2.seq, x) = o + 1
      <4>1. MaxBytes[Client] \in Nat /\ MaxBytes[Client] + 3 < SEQ_RANGE /\ SEQ_RANGE \in Nat BY TcpSizes
      <4>2. Off(c.seq, x) + 1 < SEQ_RANGE BY <1>9, <3>2, <4>1
      <4> QED BY <1>8, <1>9, <3>1, <4>2, OffAdd
    <3> QED BY <1>4, <1>9, <2>2, <3>1, <3>3 DEF ToServerOK
  <2> QED BY <1>7, <2>1, <2>2
<1> QED BY <1>1, <1>3, <1>4, <1>11, <1>12, <1>13 DEF PairClient

\* Segment s, for connection c of h.
Arrives(G, N, p, b, h, i, c, s) ==
  /\ b \in BOOLEAN /\ ConnsInv(G, N, p, b)
  /\ i \in TcpSlot /\ c = G[h][i] /\ c.port # 0 /\ s \in N /\ s.to = h /\ s.port = c.port

(* tcp_on_data, at the client.                                             *)
LEMMA OnDataClient ==
  ASSUME NEW G, NEW N, NEW p, NEW b, NEW i, NEW c, NEW s, Arrives(G, N, p, b, Client, i, c, s), Expected(c, s),
         NEW c2, NEW M, Answered(Client, c, s, c2, M)
  PROVE  ConnsInv([G EXCEPT ![Client] = [G[Client] EXCEPT ![i] = c2]], N \cup M, p, b)
<1>0. /\ b \in BOOLEAN /\ ConnsInv(G, N, p, b)
      /\ i \in TcpSlot /\ c = G[Client][i] /\ c.port # 0 /\ s \in N /\ s.to = Client /\ s.port = c.port
  BY DEF Arrives
<1> USE <1>0
<1>1. /\ c \in Conn /\ c.state # "CLOSED" /\ c.state # "SYN_RECEIVED" /\ Sender(Client, c)
      /\ 1 <= Off(s.ack, c.initial_seq) /\ Off(s.ack, c.initial_seq) <= Off(c.seq, c.initial_seq)
  BY ClientFacts
<1>2. s \in Seg BY DEF ConnsInv
<1>3. ClientMove(c, c2, M) BY <1>1, <1>2, ClientAnswers
<1>4. /\ c2 \in Conn /\ M \in SUBSET Seg /\ Kept(c, c2) /\ c2.state # "CLOSED"
      /\ \A m \in M : m.to = Peer(Client) /\ m.port = c.port BY DEF Answered, Kept
<1>5. \A m \in M : m.to = Server /\ m.port = c.port BY <1>4, TcpSizes
<1>6. (c2 = Unclaimed \/ Kept(c, c2)) /\ (c2 = Unclaimed => M = {}) BY <1>4, UnclaimedType
<1>7. b \/ (Open(c2) => PairClient(G[Server], N, c, c2, M))
  <2> SUFFICES ASSUME ~b, Open(c2) PROVE PairClient(G[Server], N, c, c2, M) OBVIOUS
  <2>1. ConnsInv(G, N, p, FALSE) BY DEF ConnsInv
  <2> QED BY <2>1, ClientAnswersPair
<1>8. c2 \in Conn /\ M \in SUBSET Seg BY <1>4
<1> QED BY <1>3, <1>5, <1>6, <1>7, <1>8, ClientSlotStep

\* Segment s comes for connection d of the server, of which c is the client's
\* side, still open.
Comes(G, N, p, j, d, s, k, c) ==
  /\ ConnsInv(G, N, p, FALSE) /\ j \in TcpSlot /\ d = G[Server][j] /\ d.port # 0
  /\ s \in N /\ s.to = Server /\ s.port = d.port
  /\ k \in TcpSlot /\ c = G[Client][k] /\ c.port # 0 /\ Open(c) /\ d.port = c.port

(* What a segment for the server says when its sender's connection is open. *)
LEMMA OpenSends ==
  ASSUME NEW G, NEW N, NEW p, NEW j, NEW d, NEW s, NEW k, NEW c, Comes(G, N, p, j, d, s, k, c)
  PROVE  /\ c \in Conn /\ d \in Conn /\ s \in Seg /\ d.state # "CLOSED" /\ d.state # "SYN_SENT"
         /\ ToServerOK(c, s) /\ PairOK(c, d) /\ AckOK(d, s) /\ SegOK(s, c.initial_seq, Off(c.seq, c.initial_seq))
         /\ "RST" \notin s.flags
         /\ s.seq = d.ack => /\ "SYN" \notin s.flags /\ "ACK" \in s.flags /\ c.state \in {"ESTABLISHED", "LAST_ACK"}
                             /\ d.state # "TIME_WAIT"
<1>0. /\ ConnsInv(G, N, p, FALSE) /\ j \in TcpSlot /\ d = G[Server][j] /\ d.port # 0
      /\ s \in N /\ s.to = Server /\ s.port = d.port
      /\ k \in TcpSlot /\ c = G[Client][k] /\ c.port # 0 /\ Open(c) /\ d.port = c.port BY DEF Comes
<1>1. /\ c \in Conn /\ SegOK(s, c.initial_seq, Off(c.seq, c.initial_seq))
      /\ 1 <= Off(d.ack, c.initial_seq) /\ Off(d.ack, c.initial_seq) <= Off(c.seq, c.initial_seq)
  BY <1>0, ClientFacts
<1>2. d \in Conn /\ s \in Seg /\ d.state # "CLOSED" /\ d.state # "SYN_SENT"
  BY <1>0, ServerFacts DEF ConnsInv
<1>3. PairSlot(G[Server], N, c) BY <1>0 DEF ConnsInv, PairInv
<1>4. ToServerOK(c, s) /\ PairOK(c, d) /\ AckOK(d, s) BY <1>0, <1>3 DEF PairSlot
<1>5. s.flags \in {{"SYN"}, {"ACK"}, {"ACK", "FIN"}} /\ (c.state = "SYN_SENT" => s.flags = {"SYN"})
  BY <1>0, <1>4 DEF ToServerOK, Open
<1>6. ASSUME s.seq = d.ack
      PROVE  "SYN" \notin s.flags /\ "ACK" \in s.flags /\ c.state \in {"ESTABLISHED", "LAST_ACK"} /\ d.state # "TIME_WAIT"
  <2>1. PICK a \in Nat, o \in Nat : a = Off(d.ack, c.initial_seq) /\ o = Off(c.seq, c.initial_seq)
    <3>1. d.ack \in Num /\ c.seq \in Num /\ c.initial_seq \in Num BY <1>1, <1>2 DEF Conn
    <3> QED BY <3>1, OffFacts
  <2>2. "SYN" \notin s.flags BY <1>1, <1>6, <2>1 DEF SegOK
  <2>3. "ACK" \in s.flags /\ c.state \in {"ESTABLISHED", "LAST_ACK"} BY <1>0, <1>5, <2>2 DEF Open
  <2>4. ASSUME d.state = "TIME_WAIT" PROVE FALSE
    <3>1. c.state = "LAST_ACK" /\ a = o BY <1>4, <2>1, <2>3, <2>4 DEF PairOK
    <3>2. a < o BY <1>4, <1>6, <2>1, <3>1 DEF ToServerOK
    <3> QED BY <2>1, <3>1, <3>2
  <2> QED BY <2>2, <2>3, <2>4
<1>7. "RST" \notin s.flags BY <1>5
<1> QED BY <1>1, <1>2, <1>4, <1>6, <1>7

(* The pair of the server's connection after a segment.                    *)
LEMMA ServerAnswersPair ==
  ASSUME NEW G, NEW N, NEW p, NEW j, NEW d, NEW s, NEW k, NEW c, Comes(G, N, p, j, d, s, k, c), s.seq = d.ack,
         NEW d2, NEW M, Answered(Server, d, s, d2, M)
  PROVE  PairServer(c, d, d2, M)
<1>1. /\ c \in Conn /\ d \in Conn /\ s \in Seg /\ d.state # "CLOSED" /\ d.state # "SYN_SENT"
      /\ ToServerOK(c, s) /\ PairOK(c, d) /\ AckOK(d, s) /\ SegOK(s, c.initial_seq, Off(c.seq, c.initial_seq))
      /\ "SYN" \notin s.flags /\ "ACK" \in s.flags /\ c.state \in {"ESTABLISHED", "LAST_ACK"} /\ d.state # "TIME_WAIT"
  BY OpenSends
<1>2. d2 \in Conn /\ d2.port = d.port /\ d2.initial_seq = d.initial_seq /\ d2.send_head = d.send_head /\ M \in SUBSET Seg
  BY DEF Answered, Kept
<1>3. d.seq \in Num /\ d.initial_seq \in Num /\ c.initial_seq \in Num /\ c.seq \in Num /\ d.send_tail \in Nat /\ d.send_head \in Nat
      /\ d.state \in ConnState BY <1>1 DEF Conn
<1>4. PICK y \in Num, l \in Nat : y = d.initial_seq /\ l = Off(d.seq, y) BY <1>3, OffFacts
<1>5. PICK x \in Num, o \in Nat : x = c.initial_seq /\ o = Off(c.seq, x) /\ o < SEQ_RANGE BY <1>3, OffFacts
<1>6. Sender(Server, d) /\ 1 <= Off(s.ack, y) /\ Off(s.ack, y) <= l BY <1>1, <1>4 DEF PairOK, AckOK
<1>7. 1 <= l BY <1>1, <1>4, <1>6, SenderBound, TcpSizes
<1>8. d.state \in {"SYN_RECEIVED", "ESTABLISHED"} => d2.send_tail = d.send_tail
  <2> SUFFICES ASSUME d.state \in {"SYN_RECEIVED", "ESTABLISHED"} PROVE d2.send_tail = d.send_tail OBVIOUS
  <2>1. d2.send_tail = (LET acked == Seqn(s.ack - d.initial_seq - 1) IN IF acked > d.send_tail THEN acked ELSE d.send_tail)
    BY DEF Answered
  <2>2. d.state \in {"SYN_SENT", "SYN_RECEIVED", "ESTABLISHED"} OBVIOUS
  <2> QED BY <1>1, <1>4, <1>6, <2>1, <2>2, TailStays, TcpSizes
<1>9. d.state \in {"SYN_RECEIVED", "ESTABLISHED", "FIN_WAIT_1", "FIN_WAIT_2"} BY <1>1 DEF PairOK
<1>10. ~(d.state = "ESTABLISHED" /\ "FIN" \in s.flags)
  <2> SUFFICES ASSUME d.state = "ESTABLISHED", "FIN" \in s.flags PROVE FALSE OBVIOUS
  <2>1. c.state = "LAST_ACK" BY <1>1 DEF ToServerOK
  <2> QED BY <1>1, <2>1 DEF PairOK
<1>11. d2.seq = d.seq /\ \A m \in M : m.flags = {"ACK"} /\ m.seq = d.seq /\ m.data = <<>>
  <2>1. d2.seq = d.seq /\ (M = {} \/ \A m \in M : m.flags = {"ACK"}) BY <1>1, <1>9, <1>10 DEF Answered
  <2>2. \A m \in M : m.seq = d.seq /\ m.data = <<>> BY DEF Answered
  <2> QED BY <2>1, <2>2
<1>12. \/ d.state \in {"SYN_RECEIVED", "ESTABLISHED"} /\ d2.state = "ESTABLISHED"
       \/ d.state \in {"FIN_WAIT_1", "FIN_WAIT_2"} /\ d2.state \in {"FIN_WAIT_1", "FIN_WAIT_2"}
       \/ d.state \in {"FIN_WAIT_1", "FIN_WAIT_2"} /\ d2.state = "TIME_WAIT" /\ "FIN" \in s.flags
  BY <1>1, <1>9, <1>10 DEF Answered
<1>13. Sender(Server, d2) BY <1>2, <1>3, <1>4, <1>6, <1>8, <1>11, <1>12 DEF Sender
<1>14. ASSUME d2.state = "TIME_WAIT" PROVE c.state = "LAST_ACK" /\ Off(d2.ack, x) = o
  <2>1. "FIN" \in s.flags BY <1>12, <1>14
  <2>2. c.state = "LAST_ACK" BY <1>1, <2>1 DEF ToServerOK
  <2>3. Off(s.seq, x) + 1 = o BY <1>1, <1>5, <2>1, <2>2 DEF ToServerOK
  <2>4. d2.ack = Seqn(s.seq + Acknowledged(s)) BY <1>1 DEF Answered
  <2>5. Off(d2.ack, x) = Off(s.seq, x) + Acknowledged(s) /\ Off(d2.ack, x) <= o
    BY <1>1, <1>5, <2>4, AckGrows
  <2>6. PICK q \in Nat, n \in Nat : q = Off(s.seq, x) /\ n = Len(s.data)
    <3>1. s.seq \in Num /\ s.data \in Seq(Int) BY <1>1 DEF Seg
    <3>2. Len(s.data) \in Nat BY <3>1
    <3> QED BY <1>5, <3>1, <3>2, OffFacts
  <2>7. Acknowledged(s) = 1 + n
    <3>1. s.flags \cap {"SYN", "FIN"} # {} BY <2>1
    <3> QED BY <2>6, <3>1 DEF Acknowledged
  <2> QED BY <1>5, <2>2, <2>3, <2>5, <2>6, <2>7
<1>15. PairOK(c, d2)
  <2>1. /\ c.state = "ESTABLISHED" => d2.state \in {"SYN_RECEIVED", "ESTABLISHED", "FIN_WAIT_1", "FIN_WAIT_2"}
        /\ c.state = "LAST_ACK" => d2.state \in {"FIN_WAIT_1", "FIN_WAIT_2", "TIME_WAIT"}
    BY <1>1, <1>12, <1>14 DEF PairOK
  <2>2. d2.state = "TIME_WAIT" => Off(d2.ack, c.initial_seq) = Off(c.seq, c.initial_seq) BY <1>5, <1>14
  <2>3. 1 <= Off(c.ack, d2.initial_seq) /\ Off(c.ack, d2.initial_seq) <= Off(d2.seq, d2.initial_seq)
    BY <1>1, <1>2, <1>11 DEF PairOK
  <2> QED BY <1>1, <1>13, <2>1, <2>2, <2>3 DEF PairOK
<1>16. ASSUME NEW m \in M PROVE ToClientOK(c, d2, m)
  <2>1. m \in Seg /\ m.flags = {"ACK"} /\ m.seq = d.seq /\ m.data = <<>> BY <1>2, <1>11
  <2>2. Acknowledged(m) = 0
    <3>1. m.flags \cap {"SYN", "FIN"} = {} BY <2>1
    <3> QED BY <2>1, <3>1, AcknowledgedNat
  <2>3. SegOK(m, y, l) BY <1>4, <1>7, <2>1, <2>2 DEF SegOK
  <2> QED BY <1>1, <1>2, <1>4, <1>11, <2>1, <2>3 DEF ToClientOK
<1>17. Off(d.seq, d.initial_seq) <= Off(d2.seq, d.initial_seq) BY <1>4, <1>11
<1>18. d.state \in {"FIN_WAIT_1", "FIN_WAIT_2", "TIME_WAIT"} => d2.state \in {"FIN_WAIT_1", "FIN_WAIT_2", "TIME_WAIT"}
  BY <1>12
<1> QED BY <1>2, <1>15, <1>16, <1>17, <1>18 DEF PairServer

(* tcp_on_data, at the server.                                             *)
LEMMA OnDataServer ==
  ASSUME NEW G, NEW N, NEW p, NEW b, NEW j, NEW d, NEW s, Arrives(G, N, p, b, Server, j, d, s), Expected(d, s),
         NEW d2, NEW M, Answered(Server, d, s, d2, M)
  PROVE  ConnsInv([G EXCEPT ![Server] = [G[Server] EXCEPT ![j] = d2]], N \cup M, p, b)
<1>0. /\ b \in BOOLEAN /\ ConnsInv(G, N, p, b)
      /\ j \in TcpSlot /\ d = G[Server][j] /\ d.port # 0 /\ s \in N /\ s.to = Server /\ s.port = d.port
  BY DEF Arrives
<1> USE <1>0
<1>1. d \in Conn /\ d.state # "CLOSED" /\ d.state # "SYN_SENT" BY ServerFacts
<1>2. s.seq = d.ack BY <1>1 DEF Expected
<1>3. /\ d2 \in Conn /\ M \in SUBSET Seg /\ Kept(d, d2) /\ d2.state # "CLOSED" /\ d2.id = d.id
      /\ d2.ack = Seqn(d.ack + Acknowledged(s))
      /\ \A m \in M : m.to = Peer(Server) /\ m.port = d.port /\ m.ack = d2.ack BY <1>1 DEF Answered, Kept
<1>4. d2.state # "SYN_SENT" /\ (d2.state = "SYN_RECEIVED" => d.state = "SYN_RECEIVED") BY <1>1 DEF Answered
<1>5. ServerMove(N, d, d2, M) BY <1>2, <1>3, <1>4 DEF ServerMove
<1>6. \A m \in M : m.to = Client /\ m.port = d.port BY <1>3, TcpSizes
<1>7. (d2 = Unclaimed \/ Kept(d, d2)) /\ (d2 = Unclaimed => M = {}) BY <1>3, UnclaimedType
<1>8. (d2.state = "SYN_RECEIVED" => d.state = "SYN_RECEIVED" /\ d2.id = d.id) BY <1>3, <1>4
<1>9. b \/ \A i \in TcpSlot : G[Client][i].port # 0 /\ Open(G[Client][i]) /\ d.port = G[Client][i].port =>
             PairServer(G[Client][i], d, d2, M)
  <2> SUFFICES ASSUME ~b, NEW i \in TcpSlot, G[Client][i].port # 0, Open(G[Client][i]), d.port = G[Client][i].port
               PROVE  PairServer(G[Client][i], d, d2, M)
    OBVIOUS
  <2>1. ConnsInv(G, N, p, FALSE) BY DEF ConnsInv
  <2>2. PICK c : c = G[Client][i] OBVIOUS
  <2>3. Comes(G, N, p, j, d, s, i, c) BY <2>1, <2>2 DEF Comes
  <2>4. PairServer(c, d, d2, M) BY <1>2, <2>3, ServerAnswersPair
  <2> QED BY <2>2, <2>4, Zenon
<1>10. d = G[Server][j] /\ d.port # 0 /\ d2 \in Conn /\ M \in SUBSET Seg BY <1>3
<1> QED BY <1>5, <1>6, <1>7, <1>8, <1>9, <1>10, ServerSlotStep

(* tcp_on_data, when the connection is given up.                           *)
LEMMA OnDataGone ==
  ASSUME NEW G, NEW N, NEW p, NEW b, NEW h \in Host, NEW i, NEW c, NEW s, Arrives(G, N, p, b, h, i, c, s), "RST" \in s.flags \/ Expected(c, s),
         "RST" \in s.flags \/ (c.state \in {"TIME_WAIT", "LAST_ACK"} /\ "ACK" \in s.flags)
  PROVE  ConnsInv([G EXCEPT ![h] = [G[h] EXCEPT ![i] = Unclaimed]], N, p, b)
<1>0. /\ b \in BOOLEAN /\ ConnsInv(G, N, p, b)
      /\ i \in TcpSlot /\ c = G[h][i] /\ c.port # 0 /\ s \in N /\ s.to = h /\ s.port = c.port BY DEF Arrives
<1> USE <1>0
<1>1. PICK M \in SUBSET Seg : M = {} OBVIOUS
<1>2. PICK c2 \in Conn : c2 = Unclaimed /\ ~Open(c2) /\ c2.state = "CLOSED" BY UnclaimedType
<1>3. (c2 = Unclaimed \/ Kept(c, c2)) /\ (c2 = Unclaimed => M = {}) BY <1>1, <1>2
<1>4. CASE h = Client
  <2>1. ClientMove(c, c2, M) BY <1>2 DEF ClientMove
  <2>2. (\A m \in M : m.to = Server /\ m.port = c.port) /\ (b \/ (Open(c2) => PairClient(G[Server], N, c, c2, M)))
    BY <1>1, <1>2
  <2>3. c = G[Client][i] BY <1>4
  <2>4. ConnsInv([G EXCEPT ![Client] = [G[Client] EXCEPT ![i] = c2]], N \cup M, p, b)
    BY <1>3, <2>1, <2>2, <2>3, ClientSlotStep
  <2> QED BY <1>1, <1>2, <1>4, <2>4
<1>5. CASE h = Server
  <2>1. ServerMove(N, c, c2, M) BY <1>2 DEF ServerMove
  <2>2. (\A m \in M : m.to = Client /\ m.port = c.port) BY <1>1
  <2>3. c = G[Server][i] BY <1>5
  <2>4. (c2.state = "SYN_RECEIVED" => c.state = "SYN_RECEIVED" /\ c2.id = c.id) BY <1>2
  <2>5. b \/ \A k \in TcpSlot : G[Client][k].port # 0 /\ Open(G[Client][k]) /\ c.port = G[Client][k].port =>
               PairServer(G[Client][k], c, c2, M)
    <3> SUFFICES ASSUME ~b, NEW k \in TcpSlot, G[Client][k].port # 0, Open(G[Client][k]), c.port = G[Client][k].port
                 PROVE  FALSE
      OBVIOUS
    <3>1. ConnsInv(G, N, p, FALSE) BY DEF ConnsInv
    <3>2. PICK e : e = G[Client][k] OBVIOUS
    <3>3. Comes(G, N, p, i, c, s, k, e) BY <1>5, <2>3, <3>1, <3>2 DEF Comes
    <3>4. /\ PairOK(e, c) /\ "RST" \notin s.flags /\ c.state # "SYN_SENT"
          /\ s.seq = c.ack => c.state # "TIME_WAIT" BY <3>3, OpenSends
    <3>5. c.state = "LAST_ACK" BY <3>4 DEF Expected
    <3> QED BY <3>2, <3>4, <3>5 DEF PairOK, Open
  <2>6. ConnsInv([G EXCEPT ![Server] = [G[Server] EXCEPT ![i] = c2]], N \cup M, p, b)
    BY <1>3, <2>1, <2>2, <2>3, <2>4, <2>5, ServerSlotStep
  <2> QED BY <1>1, <1>2, <1>5, <2>6
<1> QED BY <1>4, <1>5 DEF Host

(* tcp_on_data keeps the invariant.                                        *)
LEMMA OnDataStep ==
  ASSUME TcpInv, NEW h \in Host, NEW i \in TcpSlot, NEW s \in tcpNet, tcp_on_data(h, i, s)
  PROVE  TcpInv'
<1>0. PICK G, N, p, b : G = g_active_sockets /\ N = tcpNet /\ p = port /\ b = halfopen OBVIOUS
<1>1. ConnsInv(G, N, p, b) /\ b \in BOOLEAN BY <1>0 DEF TcpInv
<1>2. PICK c : c = G[h][i] OBVIOUS
<1>3. PICK o : o = Outcome(c, s) OBVIOUS
<1>4. PICK after : after = (LET c1 == IF o.keep THEN Stored(Noted(c, s), s) ELSE Noted(c, s)
                          IN  AfterHeaders([c1 EXCEPT !.state = o.state], o.headers)) OBVIOUS
<1>5. PICK c2 : c2 = (IF o.state = "gone" THEN Unclaimed ELSE after[Len(o.headers)]) OBVIOUS
<1>6. PICK M : M = {Segment(h, after[n - 1], o.headers[n], <<>>) : n \in 1 .. Len(o.headers)} OBVIOUS
<1>7. PICK cs : cs = [G[h] EXCEPT ![i] = c2] OBVIOUS
<1>8. PICK opened \in BOOLEAN : opened = (o.state = "ESTABLISHED" /\ c.state # "ESTABLISHED") OBVIOUS
<1>9. /\ s.to = h /\ c.port = s.port /\ c.port # 0 /\ ("RST" \in s.flags \/ Expected(c, s))
      /\ g_active_sockets' = [G EXCEPT ![h] = IF opened THEN AfterFlush(cs) ELSE cs]
      /\ tcpNet' = N \cup M \cup (IF opened THEN Flushed(h, cs) ELSE {})
      /\ port' = p /\ halfopen' = b
  <2>1. s.to = h /\ c.port = s.port /\ c.port # 0 /\ ("RST" \in s.flags \/ Expected(c, s))
    BY <1>0, <1>2 DEF tcp_on_data
  <2>2. port' = p /\ halfopen' = b BY <1>0 DEF tcp_on_data
  <2> DEFINE e == g_active_sockets[h][i]
             u == Outcome(e, s)
             e1 == IF u.keep THEN Stored(Noted(e, s), s) ELSE Noted(e, s)
             f == AfterHeaders([e1 EXCEPT !.state = u.state], u.headers)
             D == [g_active_sockets[h] EXCEPT ![i] = IF u.state = "gone" THEN Unclaimed ELSE f[Len(u.headers)]]
             fresh == u.state = "ESTABLISHED" /\ e.state # "ESTABLISHED"
  <2>3. g_active_sockets' = [g_active_sockets EXCEPT ![h] = IF fresh THEN AfterFlush(D) ELSE D]
    BY DEF tcp_on_data
  <2>4. tcpNet' = tcpNet \cup {Segment(h, f[n - 1], u.headers[n], <<>>) : n \in 1 .. Len(u.headers)}
                         \cup (IF fresh THEN Flushed(h, D) ELSE {}) BY DEF tcp_on_data
  <2>5. e = c /\ u = o BY <1>0, <1>2, <1>3
  <2> HIDE DEF e, u
  <2>6. f = after BY <1>4, <2>5
  <2> HIDE DEF f
  <2>7. D = cs BY <1>0, <1>5, <1>7, <2>5, <2>6
  <2>8. fresh = opened BY <1>8, <2>5
  <2> HIDE DEF D, fresh
  <2>9. g_active_sockets' = [G EXCEPT ![h] = IF opened THEN AfterFlush(cs) ELSE cs]
    BY <1>0, <2>3, <2>7, <2>8
  <2>10. tcpNet' = N \cup M \cup (IF opened THEN Flushed(h, cs) ELSE {})
    BY <1>0, <1>6, <2>4, <2>5, <2>6, <2>7, <2>8, Zenon
  <2> QED BY <2>1, <2>2, <2>9, <2>10
<1>10. G \in Conns /\ c \in Conn /\ G[h] \in [TcpSlot -> Conn] /\ c.state # "CLOSED"
  BY <1>1, <1>2, <1>9, SlotsOf
<1>11. s \in N /\ s \in Seg BY <1>0, <1>1 DEF ConnsInv
<1>12. \/ /\ o.state = "gone" /\ o.headers = <<>>
          /\ "RST" \in s.flags \/ (c.state \in {"TIME_WAIT", "LAST_ACK"} /\ "ACK" \in s.flags)
       \/ o.state # "gone" /\ Answered(h, c, s, after[Len(o.headers)], M)
  <2>1. Handled(h, c, s, o, after, M) BY <1>3, <1>4, <1>6 DEF Handled
  <2> QED BY <1>10, <1>11, <2>1, OnDataResult
<1>12a. Arrives(G, N, p, b, h, i, c, s) BY <1>1, <1>2, <1>9, <1>11 DEF Arrives
<1>13. ConnsInv([G EXCEPT ![h] = cs], N \cup M, p, b)
  <2>1. CASE o.state = "gone"
    <3>1. c2 = Unclaimed /\ M = {} BY <1>5, <1>6, <1>12, <2>1
    <3>2. "RST" \in s.flags \/ (c.state \in {"TIME_WAIT", "LAST_ACK"} /\ "ACK" \in s.flags) BY <1>12, <2>1
    <3>3. ConnsInv([G EXCEPT ![h] = [G[h] EXCEPT ![i] = Unclaimed]], N, p, b)
      BY <1>9, <1>12a, <3>2, OnDataGone
    <3>4. N \cup M = N BY <3>1
    <3> QED BY <1>7, <3>1, <3>3, <3>4
  <2>2. CASE o.state # "gone"
    <3>1. Answered(h, c, s, c2, M) BY <1>5, <1>12, <2>2
    <3>2. Expected(c, s) BY <1>9, <3>1 DEF Answered
    <3>3. CASE h = Client
      <4>1. ConnsInv([G EXCEPT ![Client] = [G[Client] EXCEPT ![i] = c2]], N \cup M, p, b)
        BY <1>12a, <3>1, <3>2, <3>3, OnDataClient
      <4> QED BY <1>7, <3>3, <4>1
    <3>4. CASE h = Server
      <4>1. ConnsInv([G EXCEPT ![Server] = [G[Server] EXCEPT ![i] = c2]], N \cup M, p, b)
        BY <1>12a, <3>1, <3>2, <3>4, OnDataServer
      <4> QED BY <1>7, <3>4, <4>1
    <3> QED BY <3>3, <3>4 DEF Host
  <2> QED BY <2>1, <2>2
<1>14. CASE opened
  <2>1. PICK H : H = [G EXCEPT ![h] = cs] OBVIOUS
  <2>2. H[h] = cs /\ [H EXCEPT ![h] = AfterFlush(cs)] = [G EXCEPT ![h] = AfterFlush(cs)]
    BY <1>10, <2>1 DEF Conns
  <2>3. ConnsInv([H EXCEPT ![h] = AfterFlush(H[h])], (N \cup M) \cup Flushed(h, H[h]), p, b)
    BY <1>13, <2>1, FlushStep
  <2>4. ConnsInv([G EXCEPT ![h] = AfterFlush(cs)], (N \cup M) \cup Flushed(h, cs), p, b) BY <2>2, <2>3
  <2> QED BY <1>1, <1>9, <1>14, <2>4 DEF TcpInv
<1>15. CASE ~opened
  <2>1. g_active_sockets' = [G EXCEPT ![h] = cs] /\ tcpNet' = N \cup M BY <1>9, <1>15
  <2> QED BY <1>1, <1>9, <1>13, <2>1 DEF TcpInv
<1> QED BY <1>14, <1>15

(* Every step keeps the invariant.                                         *)
LEMMA TcpStep == ASSUME TcpInv, [TcpNext]_tcpVars PROVE TcpInv'
<1>1. ASSUME NEW iss \in InitialSeqs, tcp_active(iss) PROVE TcpInv' BY <1>1, ActiveStep
<1>2. ASSUME tcp_passive PROVE TcpInv' BY <1>2 DEF tcp_passive, TcpInv
<1>3. ASSUME tcp_accept PROVE TcpInv' BY <1>3, AcceptStep
<1>4. ASSUME NEW h \in Host, NEW i \in TcpSlot, tcp_terminate_connection(h, i) PROVE TcpInv'
  BY <1>4, TerminateStep
<1>5. ASSUME NEW h \in Host, NEW i \in TcpSlot, tcp_receive(h, i) PROVE TcpInv' BY <1>5, TcpReceiveStep
<1>6. ASSUME NEW h \in Host, NEW i \in TcpSlot, NEW len \in 1 .. MaxBytes[h], tcp_send(h, i, len) PROVE TcpInv'
  BY <1>6, SendStep
<1>7. ASSUME NEW h \in Host, NEW i \in TcpSlot, NEW s \in tcpNet, tcp_on_data(h, i, s) PROVE TcpInv'
  BY <1>7, OnDataStep
<1>8. ASSUME NEW s \in tcpNet, NEW iss \in InitialSeqs, NEW id \in RandomIds, Incoming(s, iss, id) PROVE TcpInv'
  BY <1>8, IncomingStep
<1>9. CASE UNCHANGED tcpVars BY <1>9 DEF tcpVars, TcpInv
<1> QED BY <1>1, <1>2, <1>3, <1>4, <1>5, <1>6, <1>7, <1>8, <1>9 DEF TcpNext

(* It holds when nothing is open.                                          *)
LEMMA TcpStart == TcpInit => TcpInv
<1> SUFFICES ASSUME TcpInit PROVE TcpInv OBVIOUS
<1>1. PICK G, N : G = g_active_sockets /\ N = tcpNet OBVIOUS
<1>2. G = [h \in Host |-> [i \in TcpSlot |-> Unclaimed]] /\ N = {} /\ port = 1 /\ halfopen = FALSE
  BY <1>1 DEF TcpInit
<1>3. \A h \in Host, i \in TcpSlot : G[h][i] = Unclaimed BY <1>2
<1>4. G \in Conns BY <1>2, UnclaimedType DEF Conns
<1>5. PortInv(G, N, 1)
  <2>1. 1 \in Nat /\ 1 <= MaxOpens + 1 BY TcpSizes
  <2>2. \A h \in Host, i \in TcpSlot : G[h][i].port = 0 /\ G[h][i].state = "CLOSED" BY <1>3, UnclaimedType
  <2> QED BY <1>2, <2>1, <2>2 DEF PortInv
<1>6. PICK f \in [Nat -> Num] : TRUE
  <2>1. [n \in Nat |-> 0] \in [Nat -> Num] BY TcpSizes DEF Num
  <2> QED BY <2>1
<1>7. ClientInv(G, N, f)
  <2>1. \A h \in Host, i \in TcpSlot : G[h][i].port = 0 BY <1>3, UnclaimedType
  <2> QED BY <1>2, <2>1, TcpSizes DEF ClientInv
<1>8. PairInv(G, N)
  <2>1. \A i \in TcpSlot : ~Open(G[Client][i]) BY <1>3, UnclaimedType, TcpSizes
  <2>2. \A j \in TcpSlot : G[Server][j].state = "CLOSED" BY <1>3, UnclaimedType, TcpSizes
  <2> QED BY <2>1, <2>2 DEF PairInv
<1>9. ConnsInv(G, N, port, halfopen) BY <1>2, <1>4, <1>5, <1>6, <1>7, <1>8 DEF ConnsInv
<1> QED BY <1>1, <1>2, <1>9 DEF TcpInv

(* What the invariant is for.                                              *)
LEMMA TcpUse == TcpInv => AckSent
<1> SUFFICES ASSUME TcpInv, ~halfopen, NEW i \in TcpSlot, NEW j \in TcpSlot, NEW h \in Host,
                    NEW c, c = g_active_sockets[h][i], NEW q, q = g_active_sockets[Peer(h)][j],
                    c.port # 0, c.port = q.port, c.state \in {"SYN_RECEIVED", "ESTABLISHED", "LAST_ACK"}
             PROVE  Seqn(c.ack - q.initial_seq) <= Seqn(q.seq - q.initial_seq)
  BY Zenon DEF AckSent
<1>1. ConnsInv(g_active_sockets, tcpNet, port, halfopen) BY DEF TcpInv
<1>2. CASE h = Client
  <2>1. c.state # "SYN_RECEIVED" /\ c = g_active_sockets[Client][i] BY <1>1, <1>2, ClientFacts
  <2>2. Open(c) /\ c.state # "SYN_SENT" BY <2>1 DEF Open
  <2>3. q = g_active_sockets[Server][j] BY <1>2, TcpSizes
  <2>4. PairSlot(g_active_sockets[Server], tcpNet, c) BY <1>1, <2>1, <2>2 DEF ConnsInv, PairInv
  <2>5. PairOK(c, q) BY <2>3, <2>4 DEF PairSlot
  <2>6. Off(c.ack, q.initial_seq) <= Off(q.seq, q.initial_seq) BY <2>2, <2>5 DEF PairOK
  <2> QED BY <2>6 DEF Off
<1>3. CASE h = Server
  <2>1. q = g_active_sockets[Client][j] /\ c = g_active_sockets[Server][i] /\ q.port # 0 BY <1>3, TcpSizes
  <2>2. Off(c.ack, q.initial_seq) <= Off(q.seq, q.initial_seq) BY <1>1, <2>1, ClientFacts
  <2> QED BY <2>2 DEF Off
<1> QED BY <1>2, <1>3 DEF Host

(* Neither side of a connection ever acknowledges more than the other has  *)
(* sent, whatever the network loses, repeats or reorders, for any number   *)
(* of connections, buffer size, range of the numbers and amount of data    *)
(* that stays below that range (tcp_on_data, send_header, tcp_send).       *)
THEOREM TcpAcksSent == TcpSpec => []AckSent
<1>1. TcpInit => TcpInv BY TcpStart
<1>2. TcpInv /\ [TcpNext]_tcpVars => TcpInv' BY TcpStep
<1>3. TcpInv => AckSent BY TcpUse
<1> QED BY <1>1, <1>2, <1>3, PTL DEF TcpSpec

-----------------------------------------------------------------------------
(* TCP, the bytes of the streams.                                          *)

\* What c has received, read by its program or in its ring, is a run of bytes
\* that ends before byte e.
RecvOK(c, e) ==
  LET n == Available(c)
  IN  /\ n <= TCP_BUFFER /\ n < e
      /\ \A k \in 1 .. n : RingByte(c, c.recv_tail + k - 1) = e - n + k - 1
      /\ \A k \in 1 .. Len(c.got) : c.got[k] = e - n - Len(c.got) + k - 1

\* A connection of h: its rings hold what they should.
SlotOK(h, c) ==
  /\ c.send_head <= MaxBytes[h] /\ c.send_tail < SEQ_RANGE
  /\ c.send_head - c.send_tail <= TCP_BUFFER
  /\ \E e \in Nat : RecvOK(c, e)
  /\ c.state \in {"SYN_SENT", "SYN_RECEIVED"} => Available(c) = 0 /\ c.got = <<>>

\* The client's initial number for the port q is x.
Starts(N, q, x) == \E r \in N : r.to = Server /\ r.port = q /\ "SYN" \in r.flags /\ r.seq = x

\* The bytes of a segment are those its number says, x being the initial one.
DataOK(s, x) == \A k \in 1 .. Len(s.data) : s.data[k] = Off(s.seq, x) + k - 1

\* An open connection c of the client and the server's connection d.
PairStream(N, c, d) ==
  /\ c.state = "ESTABLISHED" => RecvOK(c, Off(c.ack, d.initial_seq))
  /\ \A s \in N : s.to = Client /\ s.port = c.port => DataOK(s, d.initial_seq)

\* A connection d of the server.
ServerStream(N, d) ==
  /\ \E x \in Num : Starts(N, d.port, x)
  /\ \A x \in Num : Starts(N, d.port, x) /\ d.state = "ESTABLISHED" => RecvOK(d, Off(d.ack, x))

\* All connections G and segments N.
StreamInv(G, N) ==
  /\ \A h \in Host, i \in TcpSlot : SlotOK(h, G[h][i])
  /\ \A j \in TcpSlot : G[Server][j].port # 0 => ServerStream(N, G[Server][j])
  /\ \A s \in N, x \in Num : s.to = Server /\ Starts(N, s.port, x) => DataOK(s, x)
  /\ \A i, j \in TcpSlot : Open(G[Client][i]) /\ G[Server][j].port = G[Client][i].port =>
       PairStream(N, G[Client][i], G[Server][j])

\* The inductive invariant of the streams, on top of TcpInv.
TcpStreamInv ==
  /\ overrun \in BOOLEAN
  /\ overrun \/ halfopen \/ StreamInv(g_active_sockets, tcpNet)
(* Places of a ring: the wrap-around of the numbers does not move them.    *)
LEMMA PlaceOfNumber ==
  ASSUME NEW z \in Int, NEW k \in Int
  PROVE  /\ (Seqn(z) + k) % TCP_BUFFER = (z + k) % TCP_BUFFER
         /\ (z + k) % TCP_BUFFER \in 0 .. TCP_BUFFER - 1
<1>0. SEQ_RANGE \in Nat /\ SEQ_RANGE > 0 /\ TCP_BUFFER \in Nat /\ TCP_BUFFER > 0 BY TcpSizes
<1>1. PICK d \in Nat, B \in Nat : d = SEQ_RANGE /\ d > 0 /\ B = TCP_BUFFER /\ B > 0 BY <1>0, Zenon
<1>2. PICK u \in Int : d = B * u
  <2>1. d % B = 0 BY <1>1, TcpAssumption
  <2>2. PICK u \in Int : u = d \div B BY <1>1, DivLemma
  <2>3. d - B * u = d % B BY <1>1, <2>2, DivLemma
  <2>4. PICK e \in Int : e = B * u BY <1>1
  <2> QED BY <1>1, <2>1, <2>3, <2>4
<1>3. PICK q \in Int, w \in Int : q = z \div d /\ w = z % d BY <1>1, DivLemma
<1>4. z = d * q + w
  <2>1. z - d * q = w BY <1>1, <1>3, DivLemma
  <2>2. PICK e \in Int : e = d * q BY <1>1
  <2> QED BY <2>1, <2>2
<1>5. PICK y \in Int, x \in Int : y = z + k /\ x = w + k OBVIOUS
<1>6. PICK p \in Int, m \in Int : p = y \div B /\ m = y % B BY <1>1, DivLemma
<1>7. y = B * p + m /\ 0 <= m /\ m < B
  <2>1. y - B * p = m /\ B * p <= y /\ y < B * p + B BY <1>1, <1>6, DivLemma
  <2>2. PICK e \in Int : e = B * p BY <1>1
  <2> QED BY <2>1, <2>2
<1>8. PICK n \in Int : n = p - u * q BY <1>2
<1>9. x = m + B * n
  <2>1. d * q = B * (u * q) BY <1>1, <1>2
  <2>2. PICK g \in Int : g = u * q BY <1>2
  <2>3. B * n = B * p - B * g BY <1>1, <1>8, <2>2
  <2>4. PICK a \in Int, b \in Int, c \in Int : a = B * p /\ b = B * g /\ c = B * n BY <1>1, <2>2
  <2>5. y = a + m /\ z = b + w /\ c = a - b BY <1>4, <1>7, <2>1, <2>2, <2>3, <2>4
  <2>6. x = m + c BY <1>5, <2>5
  <2> QED BY <2>4, <2>6
<1>10. x % B = m BY <1>1, <1>7, <1>9, ModUnique
<1>11. Seqn(z) = w BY <1>1, <1>3 DEF Seqn
<1> QED BY <1>1, <1>5, <1>6, <1>7, <1>10, <1>11

(* Different bytes of a ring that is not overrun have different places.    *)
LEMMA PlacesDiffer ==
  ASSUME NEW x \in Int, NEW y \in Int, x - y < TCP_BUFFER, y - x < TCP_BUFFER, x % TCP_BUFFER = y % TCP_BUFFER
  PROVE  x = y
<1>0. TCP_BUFFER \in Nat /\ TCP_BUFFER > 0 BY TcpSizes
<1>1. PICK B \in Nat : B = TCP_BUFFER /\ B > 0 BY <1>0, Zenon
<1>2. PICK p \in Int, q \in Int, m \in Int : p = x \div B /\ q = y \div B /\ m = x % B BY <1>1, DivLemma
<1>3. PICK a \in Int, b \in Int : a = B * p /\ b = B * q BY <1>1
<1>4. x = a + m /\ y = b + m
  <2>1. x - B * p = m /\ y - B * q = m BY <1>1, <1>2, DivLemma
  <2> QED BY <1>3, <2>1
<1>5. B * (p - q) = x - y
  <2>1. B * (p - q) = B * p - B * q BY <1>1
  <2> QED BY <1>3, <1>4, <2>1
<1>6. p - q = 0
  <2>1. CASE p - q >= 1
    <3>1. B * (p - q) >= B BY <1>1, <2>1
    <3> QED BY <1>1, <1>5, <3>1
  <2>2. CASE p - q <= -1
    <3>1. B * (p - q) <= -B BY <1>1, <2>2
    <3> QED BY <1>1, <1>5, <3>1
  <2> QED BY <2>1, <2>2
<1>7. a = b BY <1>3, <1>6
<1> QED BY <1>4, <1>7

(* A byte that is not overwritten is the byte itself.                      *)
LEMMA SendByteSame ==
  ASSUME NEW c \in Conn, NEW n \in Nat, n <= c.send_head, c.send_head - n < TCP_BUFFER
  PROVE  SendByte(c, n) = n
<1>0. TCP_BUFFER \in Nat /\ TCP_BUFFER > 0 BY TcpSizes
<1>1. PICK B \in Nat : B = TCP_BUFFER /\ B > 0 BY <1>0, Zenon
<1>2. PICK z \in Int : z = c.send_head - n /\ 0 <= z /\ z < B BY <1>1 DEF Conn
<1>3. PICK q \in Int : q = z \div B BY <1>1, DivLemma
<1>4. B * q <= z /\ z < B * q + B BY <1>1, <1>3, DivLemma
<1>5. q = 0
  <2>1. CASE q >= 1
    <3>1. B * q >= B BY <1>1, <2>1
    <3> QED BY <1>2, <1>4, <3>1
  <2>2. CASE q <= -1
    <3>1. B * q <= -B BY <1>1, <2>2
    <3>2. PICK e \in Int : e = B * q BY <1>1
    <3> QED BY <1>1, <1>2, <1>4, <3>1, <3>2
  <2> QED BY <2>1, <2>2
<1>6. B * q = 0 BY <1>1, <1>5
<1> QED BY <1>1, <1>2, <1>3, <1>6 DEF SendByte

\* Nothing of what is received has changed.
SameRecv(c, c2) ==
  c2.recv_buf = c.recv_buf /\ c2.recv_head = c.recv_head /\ c2.recv_tail = c.recv_tail /\ c2.got = c.got

(* Then what is known of it holds still.                                   *)
LEMMA RecvSame ==
  ASSUME NEW c, NEW c2, SameRecv(c, c2)
  PROVE  /\ Available(c2) = Available(c) /\ c2.got = c.got
         /\ \A e : RecvOK(c, e) => RecvOK(c2, e)
<1>1. Available(c2) = Available(c) /\ c2.got = c.got /\ c2.recv_tail = c.recv_tail /\ c2.recv_buf = c.recv_buf
  BY DEF SameRecv, Available
<1>2. \A n : RingByte(c2, n) = RingByte(c, n) BY <1>1 DEF RingByte
<1>3. ASSUME NEW e, RecvOK(c, e) PROVE RecvOK(c2, e)
  <2> DEFINE n == Available(c)
  <2>1. /\ n <= TCP_BUFFER /\ n < e
        /\ \A k \in 1 .. n : RingByte(c, c.recv_tail + k - 1) = e - n + k - 1
        /\ \A k \in 1 .. Len(c.got) : c.got[k] = e - n - Len(c.got) + k - 1 BY <1>3 DEF RecvOK
  <2>2. \A k \in 1 .. n : RingByte(c2, c2.recv_tail + k - 1) = e - n + k - 1 BY <1>1, <1>2, <2>1
  <2>3. \A k \in 1 .. Len(c2.got) : c2.got[k] = e - n - Len(c2.got) + k - 1 BY <1>1, <2>1
  <2>4. n = Available(c2) BY <1>1
  <2> HIDE DEF n
  <2> QED BY <2>1, <2>2, <2>3, <2>4, Zenon DEF RecvOK
<1> QED BY <1>1, <1>3

(* How many bytes wait is the distance of the two ends of the ring.        *)
LEMMA AvailableFacts ==
  ASSUME NEW c \in Conn
  PROVE  /\ c.recv_head \in Num /\ c.recv_tail \in Num /\ c.recv_head \in Int /\ c.recv_tail \in Int
         /\ Available(c) = Off(c.recv_head, c.recv_tail) /\ Available(c) \in Nat
         /\ \A k \in Int : (c.recv_head + k) % TCP_BUFFER = (c.recv_tail + Available(c) + k) % TCP_BUFFER
<1>1. c.recv_head \in Num /\ c.recv_tail \in Num /\ c.recv_head \in Int /\ c.recv_tail \in Int
  BY TcpSizes DEF Conn, Num
<1>2. Available(c) = Off(c.recv_head, c.recv_tail) BY DEF Available, Off
<1>3. Available(c) \in Nat BY <1>1, <1>2, OffFacts
<1>4. ASSUME NEW k \in Int PROVE (c.recv_head + k) % TCP_BUFFER = (c.recv_tail + Available(c) + k) % TCP_BUFFER
  <2>1. PICK z \in Int, l \in Int : z = c.recv_head - c.recv_tail /\ l = c.recv_tail + k BY <1>1
  <2>2. (Seqn(z) + l) % TCP_BUFFER = (z + l) % TCP_BUFFER BY PlaceOfNumber
  <2>3. z + l = c.recv_head + k BY <1>1, <2>1
  <2>4. Seqn(z) = Available(c) BY <2>1 DEF Available
  <2>5. Seqn(z) + l = c.recv_tail + Available(c) + k BY <1>1, <1>3, <2>1, <2>4
  <2> QED BY <2>2, <2>3, <2>5
<1> QED BY <1>1, <1>2, <1>3, <1>4

(* A place of the ring after a payload: the last byte that went there.     *)
LEMMA StoredRing ==
  ASSUME NEW c \in Conn, NEW s \in Seg
  PROVE  LET d == Stored(c, s)
         IN  /\ d.recv_head = Seqn(c.recv_head + Len(s.data)) /\ d.recv_tail = c.recv_tail /\ d.got = c.got
             /\ \A i \in 0 .. TCP_BUFFER - 1 :
                  LET K == {k \in 1 .. Len(s.data) : (c.recv_head + k - 1) % TCP_BUFFER = i}
                  IN  d.recv_buf[i] = IF K = {} THEN c.recv_buf[i] ELSE s.data[CHOOSE k \in K : \A j \in K : j <= k]
<1> DEFINE K(i) == {k \in 1 .. Len(s.data) : (c.recv_head + k - 1) % TCP_BUFFER = i}
           V(i) == IF K(i) = {} THEN c.recv_buf[i] ELSE s.data[CHOOSE k \in K(i) : \A j \in K(i) : j <= k]
<1>1. DOMAIN c.recv_buf = 0 .. TCP_BUFFER - 1 BY DEF Conn
<1>2. PICK h, w : h = Seqn(c.recv_head + Len(s.data)) /\ w = [i \in 0 .. TCP_BUFFER - 1 |-> V(i)] OBVIOUS
<1>3. Stored(c, s) = [c EXCEPT !.recv_head = h, !.recv_buf = w] BY <1>1, <1>2 DEF Stored
<1>4. LET d == [c EXCEPT !.recv_head = h, !.recv_buf = w]
      IN  d.recv_head = h /\ d.recv_tail = c.recv_tail /\ d.got = c.got /\ d.recv_buf = w BY DEF Conn
<1>5. \A i \in 0 .. TCP_BUFFER - 1 : w[i] = V(i)
  <2> HIDE DEF V
  <2> QED BY <1>2
<1> HIDE DEF V
<1>6. LET d == Stored(c, s)
      IN  /\ d.recv_head = Seqn(c.recv_head + Len(s.data)) /\ d.recv_tail = c.recv_tail /\ d.got = c.got
          /\ \A i \in 0 .. TCP_BUFFER - 1 : d.recv_buf[i] = V(i) BY <1>2, <1>3, <1>4, <1>5
<1> QED BY <1>6 DEF V

(* The bytes that come next go behind those that wait, and overwrite none  *)
(* as long as the ring holds them all.                                     *)
LEMMA StoredRecv ==
  ASSUME NEW c \in Conn, NEW s \in Seg, NEW e \in Nat, RecvOK(c, e), e + Len(s.data) <= SEQ_RANGE,
         \A k \in 1 .. Len(s.data) : s.data[k] = e + k - 1, Available(Stored(c, s)) <= TCP_BUFFER
  PROVE  RecvOK(Stored(c, s), e + Len(s.data))
<1>0. PICK B \in Nat : B = TCP_BUFFER /\ B > 0
  <2>1. TCP_BUFFER \in Nat /\ TCP_BUFFER > 0 BY TcpSizes
  <2> QED BY <2>1, Zenon
<1>1. PICK l \in Nat : l = Len(s.data) BY DEF Seg
<1>2. PICK n \in Nat : n = Available(c) BY AvailableFacts
<1>3. /\ c.recv_head \in Num /\ c.recv_tail \in Num /\ c.recv_head \in Int /\ c.recv_tail \in Int /\ n = Off(c.recv_head, c.recv_tail)
      /\ \A k \in Int : (c.recv_head + k) % B = (c.recv_tail + n + k) % B BY <1>0, <1>2, AvailableFacts
<1>3a. PICK H \in Int, T \in Int : H = c.recv_head /\ T = c.recv_tail BY <1>3
<1>4. PICK d : d = Stored(c, s) OBVIOUS
<1>5. d.recv_head = Seqn(c.recv_head + l) /\ d.recv_tail = c.recv_tail /\ d.got = c.got
  BY <1>1, <1>4, StoredRing
<1>6. /\ n <= B /\ n < e
      /\ \A k \in 1 .. n : RingByte(c, c.recv_tail + k - 1) = e - n + k - 1
      /\ \A k \in 1 .. Len(c.got) : c.got[k] = e - n - Len(c.got) + k - 1 BY <1>0, <1>2 DEF RecvOK
<1>7. Available(d) = n + l
  <2>1. n + l < SEQ_RANGE BY <1>1, <1>6, TcpSizes
  <2>2. Off(Seqn(c.recv_head + l), c.recv_tail) = n + l BY <1>3, <2>1, OffAdd
  <2> QED BY <1>5, <2>2 DEF Available, Off
<1>8. n + l <= B BY <1>0, <1>4, <1>7
<1>9. ASSUME NEW k \in 1 .. n + l PROVE RingByte(d, d.recv_tail + k - 1) = (e + l) - (n + l) + k - 1
  <2>1. PICK y \in Int : y = c.recv_tail + k - 1 BY <1>3
  <2>1b. y = T + k - 1 BY <1>3a, <2>1
  <2>1a. PICK i : i = y % B OBVIOUS
  <2>2. i \in 0 .. B - 1 BY <1>0, <2>1a
  <2> DEFINE K == {m \in 1 .. Len(s.data) : (c.recv_head + m - 1) % TCP_BUFFER = i}
  <2>3. RingByte(d, d.recv_tail + k - 1) = d.recv_buf[i] BY <1>0, <1>5, <2>1, <2>1a DEF RingByte
  <2>4. d.recv_buf[i] = IF K = {} THEN c.recv_buf[i] ELSE s.data[CHOOSE m \in K : \A j \in K : j <= m]
    BY <1>0, <1>4, <2>2, StoredRing
  <2>5. ASSUME NEW m \in K PROVE m = k - n
    <3>1. m \in 1 .. l /\ m \in Int /\ (c.recv_head + m - 1) % B = i BY <1>0, <1>1
    <3> HIDE DEF K
    <3>2. PICK m1 \in Int : m1 = m - 1 BY <3>1
    <3>3. (c.recv_head + m1) % B = (c.recv_tail + n + m1) % B BY <1>3
    <3>4. c.recv_head + m - 1 = c.recv_head + m1 BY <1>3, <3>1, <3>2
    <3>5. PICK x \in Int : x = T + n + m1 OBVIOUS
    <3>5a. x = c.recv_tail + n + m1 BY <1>3a, <3>5
    <3>6. x % B = y % B BY <2>1a, <3>1, <3>3, <3>4, <3>5a
    <3>6a. x - y = n + m - k BY <2>1b, <3>1, <3>2, <3>5
    <3>7. x - y < B /\ y - x < B
      <4>2. k >= 1 /\ k <= n + l /\ m >= 1 /\ m <= l BY <3>1
      <4> QED BY <1>8, <3>1, <3>6a, <4>2
    <3>8. x = y BY <1>0, <3>6, <3>7, PlacesDiffer
    <3> QED BY <3>1, <3>6a, <3>8
  <2>6. CASE k <= n
    <3>1. K = {}
      <4> SUFFICES ASSUME NEW m \in K PROVE FALSE OBVIOUS
      <4>1. m = k - n BY <2>5
      <4>2. m \in 1 .. l BY <1>1
      <4> QED BY <2>6, <4>1, <4>2
    <3>2. k \in 1 .. n BY <2>6
    <3>3. RingByte(c, y) = e - n + k - 1 BY <1>6, <2>1, <3>2
    <3>4. d.recv_buf[i] = c.recv_buf[i]
      <4> HIDE DEF K
      <4> QED BY <2>4, <3>1
    <3>5. RingByte(c, y) = c.recv_buf[i] BY <1>0, <2>1a DEF RingByte
    <3> QED BY <2>3, <3>3, <3>4, <3>5
  <2>7. CASE k > n
    <3>1. PICK m \in 1 .. l : m = k - n BY <2>7
    <3>2. m \in K
      <4>1. PICK m1 \in Int : m1 = m - 1 BY <3>1
      <4>2. (c.recv_head + m1) % B = (c.recv_tail + n + m1) % B BY <1>3
      <4>3. c.recv_head + m - 1 = c.recv_head + m1 /\ c.recv_tail + n + m1 = y BY <1>3a, <2>1, <3>1, <4>1
      <4> QED BY <1>0, <1>1, <2>1a, <4>2, <4>3
    <3>3. K = {m}
      <4>1. \A j \in K : j = m BY <2>5, <3>1
      <4> HIDE DEF K
      <4> QED BY <3>2, <4>1
    <3>4. (CHOOSE j \in K : \A j2 \in K : j2 <= j) = m
      <4>1. m <= m OBVIOUS
      <4> HIDE DEF K
      <4> QED BY <3>3, <4>1
    <3>5. d.recv_buf[i] = s.data[m]
      <4> HIDE DEF K
      <4> QED BY <2>4, <3>2, <3>4
    <3>6. s.data[m] = e + m - 1 BY <1>1
    <3> QED BY <2>3, <3>1, <3>5, <3>6
  <2> QED BY <2>6, <2>7
<1>10. \A k \in 1 .. Len(d.got) : d.got[k] = (e + l) - (n + l) - Len(d.got) + k - 1
  <2>1. Len(c.got) \in Nat BY DEF Conn
  <2>2. ASSUME NEW k \in 1 .. Len(c.got) PROVE c.got[k] = (e + l) - (n + l) - Len(c.got) + k - 1
    <3>1. c.got[k] = e - n - Len(c.got) + k - 1 BY <1>6
    <3>2. e - n = (e + l) - (n + l) OBVIOUS
    <3> QED BY <3>1, <3>2
  <2> QED BY <1>5, <2>2
<1>11. n + l < e + l BY <1>6
<1> QED BY <1>0, <1>1, <1>4, <1>7, <1>8, <1>9, <1>10, <1>11 DEF RecvOK

(* Two runs of numbers, one after the other, are a run.                    *)
LEMMA RunsJoin ==
  ASSUME NEW g \in Seq(Int), NEW w \in Seq(Int), NEW r \in Int,
         \A k \in 1 .. Len(g) : g[k] = r - Len(g) + k - 1, \A k \in 1 .. Len(w) : w[k] = r + k - 1
  PROVE  \A k \in 1 .. Len(g \o w) : (g \o w)[k] = r + Len(w) - Len(g \o w) + k - 1
<1>1. PICK L \in Nat, n \in Nat : L = Len(g) /\ n = Len(w) OBVIOUS
<1>2. PICK v : v = g \o w OBVIOUS
<1>3. Len(v) = L + n /\ \A k \in 1 .. L + n : v[k] = IF k <= L THEN g[k] ELSE w[k - L]
  BY <1>1, <1>2, ConcatProperties
<1>4. ASSUME NEW k \in 1 .. L + n PROVE v[k] = r + n - (L + n) + k - 1
  <2>1. CASE k <= L
    <3>1. k \in 1 .. L BY <2>1
    <3>2. v[k] = r - L + k - 1 BY <1>1, <1>3, <2>1, <3>1
    <3>3. r - L = r + n - (L + n) OBVIOUS
    <3> QED BY <3>2, <3>3
  <2>2. CASE k > L
    <3>1. PICK m \in 1 .. n : m = k - L BY <2>2
    <3>2. v[k] = w[m]
      <4>1. ~(k <= L) BY <2>2
      <4> QED BY <1>3, <3>1, <4>1
    <3>3. w[m] = r + m - 1 BY <1>1
    <3>4. r + m - 1 = r + n - (L + n) + k - 1 BY <3>1
    <3> QED BY <3>2, <3>3, <3>4
  <2> QED BY <2>1, <2>2
<1> QED BY <1>1, <1>2, <1>3, <1>4

(* tcp_receive moves the bytes that wait to the end of those that were     *)
(* read.                                                                   *)
LEMMA ReceiveRecv ==
  ASSUME NEW c \in Conn, NEW e \in Nat, RecvOK(c, e), NEW c2 \in Conn, c2.recv_head = c.recv_head, c2.recv_tail = c.recv_head,
         c2.got = c.got \o [k \in 1 .. Available(c) |-> RingByte(c, c.recv_tail + k - 1)]
  PROVE  RecvOK(c2, e)
<1>1. PICK n \in Nat : n = Available(c) BY AvailableFacts
<1>2. PICK g \in Seq(Int) : g = c.got BY DEF Conn
<1>3. PICK L \in Nat : L = Len(g) OBVIOUS
<1>4. /\ n < e
      /\ \A k \in 1 .. n : RingByte(c, c.recv_tail + k - 1) = e - n + k - 1
      /\ \A k \in 1 .. L : g[k] = e - n - L + k - 1 BY <1>1, <1>2, <1>3 DEF RecvOK
<1>5. PICK w : w = [k \in 1 .. n |-> e - n + k - 1] OBVIOUS
<1>6. w \in Seq(Int) /\ Len(w) = n
  <2>1. w \in [1 .. n -> Int] BY <1>5
  <2> QED BY <2>1, FunctionIsSeq
<1>7. c2.got = g \o w
  <2>1. [k \in 1 .. Available(c) |-> RingByte(c, c.recv_tail + k - 1)] = w BY <1>1, <1>4, <1>5
  <2> QED BY <1>2, <2>1
<1>8. PICK r \in Int : r = e - n OBVIOUS
<1>9. \A k \in 1 .. Len(c2.got) : c2.got[k] = e - 0 - Len(c2.got) + k - 1
  <2>1. \A k \in 1 .. Len(g) : g[k] = r - Len(g) + k - 1 BY <1>3, <1>4, <1>8
  <2>2. \A k \in 1 .. Len(w) : w[k] = r + k - 1 BY <1>5, <1>6, <1>8
  <2>3. \A k \in 1 .. Len(g \o w) : (g \o w)[k] = r + Len(w) - Len(g \o w) + k - 1
    BY <1>6, <2>1, <2>2, RunsJoin
  <2>4. r + Len(w) = e - 0 BY <1>6, <1>8
  <2>5. PICK v : v = g \o w /\ v = c2.got BY <1>7
  <2>6. \A k \in 1 .. Len(v) : v[k] = r + Len(w) - Len(v) + k - 1 BY <2>3, <2>5
  <2>7. ASSUME NEW k \in 1 .. Len(v) PROVE v[k] = e - 0 - Len(v) + k - 1
    <3>1. v[k] = r + Len(w) - Len(v) + k - 1 BY <2>6
    <3>2. PICK x : x = r + Len(w) /\ x = e - 0 BY <2>4
    <3>3. v[k] = x - Len(v) + k - 1 BY <3>1, <3>2
    <3> QED BY <3>2, <3>3
  <2> QED BY <2>5, <2>7
<1>10. Available(c2) = 0
  <2>1. c.recv_head \in Num BY AvailableFacts
  <2>2. Off(c.recv_head, c.recv_head) = 0 BY <2>1, OffFacts
  <2>3. Available(c2) = Off(c2.recv_head, c2.recv_tail) BY AvailableFacts
  <2> QED BY <2>2, <2>3
<1>11. 0 <= TCP_BUFFER /\ 0 < e BY <1>4, TcpSizes
<1>12. \A k \in 1 .. 0 : RingByte(c2, c2.recv_tail + k - 1) = e - 0 + k - 1 OBVIOUS
<1> QED BY <1>9, <1>10, <1>11, <1>12 DEF RecvOK

(* Nothing is received: the empty stream ends before any byte.             *)
LEMMA RecvNothing ==
  ASSUME NEW c, Available(c) = 0, c.got = <<>>, NEW e \in Nat, 1 <= e
  PROVE  RecvOK(c, e)
<1>1. 0 <= TCP_BUFFER /\ 0 < e BY TcpSizes
<1>2. \A k \in 1 .. 0 : FALSE OBVIOUS
<1>3. Len(c.got) = 0 OBVIOUS
<1> QED BY <1>1, <1>2, <1>3 DEF RecvOK

(* tcp_send_buffered_data and what is received.                            *)
LEMMA FlushSlot ==
  ASSUME NEW h \in Host, NEW c \in Conn, SlotOK(h, c)
  PROVE  SameRecv(c, AfterFlushOne(c)) /\ SlotOK(h, AfterFlushOne(c))
<1>1. PICK d : d = AfterFlushOne(c) OBVIOUS
<1>2. SameRecv(c, d) BY <1>1 DEF SameRecv, AfterFlushOne, Conn
<1>3. PICK u \in Nat : u = Unsent(c) BY FlushFields
<1>4. d.state = c.state /\ d.send_head = c.send_head /\ d.send_tail = Seqn(c.send_tail + u)
  BY <1>1, <1>3, FlushFields
<1>5. PICK a \in Nat, t \in Nat : a = c.send_head /\ t = c.send_tail BY DEF Conn
<1>6. a <= MaxBytes[h] /\ a - t <= TCP_BUFFER /\ t < SEQ_RANGE BY <1>5 DEF SlotOK
<1>7. MaxBytes[h] \in Nat /\ MaxBytes[h] + 3 < SEQ_RANGE /\ SEQ_RANGE \in Nat /\ TCP_BUFFER \in Nat
  BY TcpSizes
<1>8. d.send_head - d.send_tail <= TCP_BUFFER
  <2>1. PICK z \in Int : z = t + u OBVIOUS
  <2>2. Seqn(z) \in Nat BY SeqnRange
  <2>3. CASE c.state = "ESTABLISHED"
    <3>1. u = Seqn(a - t) BY <1>3, <1>5, <2>3 DEF Unsent
    <3>2. Seqn(t + u) = a
      <4>1. PICK D \in Nat : D = SEQ_RANGE /\ D > 0
        <5>1. SEQ_RANGE > 0 BY <1>7
        <5> QED BY <1>7, <5>1, Zenon
      <4>2. PICK y \in Int : y = a - t OBVIOUS
      <4>3. PICK q \in Int : q = y \div D BY <4>1, DivLemma
      <4>4. y - D * q = u BY <3>1, <4>1, <4>2, <4>3, DivLemma DEF Seqn
      <4>5. PICK p \in Int : p = 0 - q OBVIOUS
      <4>6. z = a + D * p
        <5>1. PICK x \in Int : x = D * q BY <4>1
        <5>2. D * p = 0 - x BY <4>1, <4>5, <5>1
        <5>3. u = a - t - x BY <4>2, <4>4, <5>1
        <5> QED BY <2>1, <5>2, <5>3
      <4>7. 0 <= a /\ a < D BY <1>6, <1>7, <4>1
      <4>8. z % D = a BY <4>1, <4>6, <4>7, ModUnique
      <4> QED BY <2>1, <4>1, <4>8 DEF Seqn
    <3> QED BY <1>4, <1>5, <1>7, <3>2
  <2>4. CASE c.state # "ESTABLISHED"
    <3>1. u = 0 BY <1>3, <2>4, FlushFields
    <3>2. z = t BY <2>1, <3>1
    <3>3. t \in Num BY <1>6, <1>7 DEF Num
    <3>4. Seqn(z) = t BY <3>2, <3>3, SeqnRange
    <3> QED BY <1>4, <1>5, <1>6, <2>1, <3>4
  <2> QED BY <2>3, <2>4
<1>9. Available(d) = Available(c) /\ d.got = c.got /\ \A e : RecvOK(c, e) => RecvOK(d, e) BY <1>2, RecvSame
<1>10. d.send_head <= MaxBytes[h] /\ d.send_tail < SEQ_RANGE
  <2>1. Seqn(t + u) \in Num BY SeqnRange
  <2> QED BY <1>4, <1>5, <1>6, <1>7, <2>1 DEF Num
<1>11. \E e \in Nat : RecvOK(d, e) BY <1>9 DEF SlotOK
<1>12. d.state \in {"SYN_SENT", "SYN_RECEIVED"} => Available(d) = 0 /\ d.got = <<>> BY <1>4, <1>9 DEF SlotOK
<1> QED BY <1>1, <1>2, <1>8, <1>10, <1>11, <1>12 DEF SlotOK

(* What tcp_send_buffered_data sends are the bytes after those it has sent. *)
LEMMA FlushBytes ==
  ASSUME NEW h \in Host, NEW D \in [TcpSlot -> Conn], NEW m \in Flushed(h, D)
  PROVE  \E i \in TcpSlot :
           /\ D[i].state = "ESTABLISHED" /\ m.port = D[i].port /\ m.to = Peer(h) /\ m.flags = {"ACK"}
           /\ Sender(h, D[i]) /\ D[i].send_head - D[i].send_tail <= TCP_BUFFER => DataOK(m, D[i].initial_seq)
<1>1. PICK i \in TcpSlot : /\ Unsent(D[i]) # 0
                           /\ m = Segment(h, D[i], {"ACK"}, [k \in 1 .. Unsent(D[i]) |-> SendByte(D[i], D[i].send_tail + k)])
  BY DEF Flushed
<1>2. PICK c \in Conn : c = D[i] OBVIOUS
<1>3. c.state = "ESTABLISHED" BY <1>1, <1>2, FlushFields
<1>4. PICK u \in Nat : u = Unsent(c) BY FlushFields
<1>5. PICK w : w = [k \in 1 .. u |-> SendByte(c, c.send_tail + k)] OBVIOUS
<1>6. m = Segment(h, c, {"ACK"}, w) BY <1>1, <1>2, <1>4, <1>5
<1>7. m.port = c.port /\ m.to = Peer(h) /\ m.flags = {"ACK"} /\ m.seq = c.seq /\ m.data = w
  BY <1>6 DEF Segment
<1>8. ASSUME Sender(h, c), c.send_head - c.send_tail <= TCP_BUFFER PROVE DataOK(m, c.initial_seq)
  <2>1. PICK a \in Nat, t \in Nat : a = c.send_head /\ t = c.send_tail BY DEF Conn
  <2>2. Off(c.seq, c.initial_seq) = 1 + t /\ t <= a /\ a <= MaxBytes[h] BY <1>3, <1>8, <2>1 DEF Sender
  <2>3. u = a - t
    <3>1. a - t \in Num BY <2>2, TcpSizes DEF Num
    <3>2. a - t \in Int OBVIOUS
    <3> QED BY <1>3, <1>4, <2>1, <3>1, <3>2, SeqnRange DEF Unsent
  <2>4. ASSUME NEW k \in 1 .. u PROVE w[k] = 1 + t + k - 1
    <3>1. PICK n \in Nat : n = t + k OBVIOUS
    <3>2. n <= a /\ a - n < TCP_BUFFER
      <4>1. k >= 1 /\ k <= u BY <1>4
      <4>2. a - t <= TCP_BUFFER /\ TCP_BUFFER \in Nat BY <1>8, <2>1, TcpSizes
      <4> QED BY <2>3, <3>1, <4>1, <4>2
    <3>3. SendByte(c, n) = n BY <2>1, <3>2, SendByteSame
    <3>4. w[k] = SendByte(c, n) BY <1>5, <2>1, <3>1
    <3> QED BY <3>1, <3>3, <3>4
  <2>5. Len(w) = u
    <3>1. w \in [1 .. u -> Int]
      <4>1. \A k \in 1 .. u : w[k] \in Int BY <2>4
      <4> QED BY <1>5, <4>1
    <3> QED BY <3>1, FunctionIsSeq
  <2> QED BY <1>7, <2>2, <2>4, <2>5 DEF DataOK
<1> QED BY <1>2, <1>3, <1>7, <1>8

(* Two numbers with no distance are the same.                              *)
LEMMA OffZero ==
  ASSUME NEW x \in Num, NEW y \in Num, Off(x, y) = 0
  PROVE  x = y
<1>1. SEQ_RANGE \in Nat /\ SEQ_RANGE > 0 BY TcpSizes
<1>2. PICK d \in Nat : d = SEQ_RANGE /\ d > 0 BY <1>1, Zenon
<1>3. PICK z \in Int : z = x - y BY <1>1 DEF Num
<1>4. PICK q \in Int : q = z \div d BY <1>2, DivLemma
<1>5. z % d = 0 BY <1>2, <1>3 DEF Off, Seqn
<1>6. z = d * q
  <2>1. z - d * q = 0 BY <1>2, <1>4, <1>5, DivLemma
  <2>2. PICK e \in Int : e = d * q BY <1>2
  <2> QED BY <2>1, <2>2
<1>7. z < d /\ -d < z BY <1>1, <1>2, <1>3 DEF Num
<1>8. q = 0
  <2>1. CASE q >= 1
    <3>1. d * q >= d BY <1>2, <2>1
    <3> QED BY <1>6, <1>7, <3>1
  <2>2. CASE q <= -1
    <3>1. d * q <= -d BY <1>2, <2>2
    <3> QED BY <1>6, <1>7, <3>1
  <2> QED BY <2>1, <2>2
<1>9. z = 0 BY <1>2, <1>6, <1>8
<1> QED BY <1>3, <1>9, TcpSizes DEF Num

(* The client's SYN tells its initial number.                              *)
LEMMA StartFacts ==
  ASSUME NEW G, NEW N, NEW p, NEW b, ConnsInv(G, N, p, b), NEW q, NEW x \in Num, Starts(N, q, x)
  PROVE  /\ \A s \in N : s.to = Server /\ s.port = q => SegOK(s, x, MaxBytes[Client] + 3)
         /\ \A i \in TcpSlot : G[Client][i].port = q => G[Client][i].initial_seq = x
         /\ \A j \in TcpSlot : G[Server][j].port = q =>
              1 <= Off(G[Server][j].ack, x) /\ Off(G[Server][j].ack, x) <= MaxBytes[Client] + 3
<1>1. PICK f \in [Nat -> Num] : ClientInv(G, N, f) BY DEF ConnsInv
<1>2. PICK r \in N : r.to = Server /\ r.port = q /\ "SYN" \in r.flags /\ r.seq = x BY DEF Starts
<1>3. r \in Seg /\ r.port # 0 BY DEF ConnsInv, PortInv
<1>4. q \in Nat /\ q # 0 BY <1>2, <1>3 DEF Seg
<1>5. SegOK(r, f[q], MaxBytes[Client] + 3) BY <1>1, <1>2 DEF ClientInv
<1>6. Off(x, f[q]) = 0 BY <1>2, <1>5 DEF SegOK
<1>7. f[q] = x BY <1>4, <1>6, OffZero
<1>8. \A s \in N : s.to = Server /\ s.port = q => SegOK(s, x, MaxBytes[Client] + 3)
  BY <1>1, <1>7 DEF ClientInv
<1>9. \A i \in TcpSlot : G[Client][i].port = q => G[Client][i].initial_seq = x
  BY <1>1, <1>4, <1>7 DEF ClientInv
<1>10. \A j \in TcpSlot : G[Server][j].port = q =>
              1 <= Off(G[Server][j].ack, x) /\ Off(G[Server][j].ack, x) <= MaxBytes[Client] + 3
  BY <1>1, <1>4, <1>7 DEF ClientInv
<1> QED BY <1>8, <1>9, <1>10

(* Only a SYN starts a connection.                                         *)
LEMMA StartsSame ==
  ASSUME NEW N, NEW M, \A m \in M : m.to = Server => "SYN" \notin m.flags, NEW q, NEW x
  PROVE  Starts(N \cup M, q, x) <=> Starts(N, q, x)
BY DEF Starts

(* A step of the client keeps the streams.                                 *)
LEMMA StreamClient ==
  ASSUME NEW G, NEW N, NEW p, NEW b, ConnsInv(G, N, p, b), StreamInv(G, N), NEW D2, NEW M, Moves(G[Client], D2, M, Server),
         \A i \in TcpSlot : SlotOK(Client, D2[i]),
         \A m \in M : "SYN" \notin m.flags, \A m \in M, x \in Num : Starts(N, m.port, x) => DataOK(m, x),
         \A i, j \in TcpSlot : Open(D2[i]) /\ G[Server][j].port = D2[i].port =>
           /\ Open(G[Client][i]) /\ D2[i].port = G[Client][i].port
           /\ D2[i].state = "ESTABLISHED" => RecvOK(D2[i], Off(D2[i].ack, G[Server][j].initial_seq))
  PROVE  StreamInv([G EXCEPT ![Client] = D2], N \cup M)
<1>1. PICK H : H = [G EXCEPT ![Client] = D2] OBVIOUS
<1>2. H[Client] = D2 /\ H[Server] = G[Server] BY <1>1, TcpSizes DEF ConnsInv, Conns
<1>3. \A q, x : Starts(N \cup M, q, x) <=> Starts(N, q, x) BY StartsSame
<1>4. \A h \in Host, i \in TcpSlot : SlotOK(h, H[h][i])
  <2>1. \A i \in TcpSlot : SlotOK(Client, H[Client][i]) BY <1>2
  <2>2. \A i \in TcpSlot : SlotOK(Server, H[Server][i]) BY <1>2, TcpSizes DEF StreamInv
  <2> QED BY <2>1, <2>2 DEF Host
<1>5. \A j \in TcpSlot : H[Server][j].port # 0 => ServerStream(N \cup M, H[Server][j])
  <2> SUFFICES ASSUME NEW j \in TcpSlot, H[Server][j].port # 0 PROVE ServerStream(N \cup M, H[Server][j])
    OBVIOUS
  <2>1. ServerStream(N, H[Server][j]) BY <1>2 DEF StreamInv
  <2> QED BY <1>3, <2>1 DEF ServerStream
<1>6. \A s \in N \cup M, x \in Num : s.to = Server /\ Starts(N \cup M, s.port, x) => DataOK(s, x)
  <2> SUFFICES ASSUME NEW s \in N \cup M, NEW x \in Num, s.to = Server, Starts(N \cup M, s.port, x) PROVE DataOK(s, x)
    OBVIOUS
  <2>1. Starts(N, s.port, x) BY <1>3
  <2>2. CASE s \in N BY <2>1, <2>2 DEF StreamInv
  <2>3. CASE s \in M BY <2>1, <2>3
  <2> QED BY <2>2, <2>3
<1>7. \A i, j \in TcpSlot : Open(H[Client][i]) /\ H[Server][j].port = H[Client][i].port =>
       PairStream(N \cup M, H[Client][i], H[Server][j])
  <2> SUFFICES ASSUME NEW i \in TcpSlot, NEW j \in TcpSlot, Open(H[Client][i]), H[Server][j].port = H[Client][i].port
               PROVE  PairStream(N \cup M, H[Client][i], H[Server][j]) OBVIOUS
  <2>1. PICK c, c2, d : c = G[Client][i] /\ c2 = D2[i] /\ d = G[Server][j] OBVIOUS
  <2>2. H[Client][i] = c2 /\ H[Server][j] = d BY <1>2, <2>1
  <2>3. Open(c2) /\ d.port = c2.port BY <2>2
  <2>4. /\ Open(c) /\ c2.port = c.port
        /\ c2.state = "ESTABLISHED" => RecvOK(c2, Off(c2.ack, d.initial_seq)) BY <2>1, <2>3
  <2>5. PairStream(N, c, d) BY <2>1, <2>3, <2>4 DEF StreamInv
  <2>6. \A s \in N \cup M : s.to = Client /\ s.port = c2.port => DataOK(s, d.initial_seq)
    <3> SUFFICES ASSUME NEW s \in N \cup M, s.to = Client, s.port = c2.port PROVE DataOK(s, d.initial_seq)
      OBVIOUS
    <3>1. CASE s \in N BY <2>4, <2>5, <3>1 DEF PairStream
    <3>2. CASE s \in M BY <3>2, TcpSizes DEF Moves
    <3> QED BY <3>1, <3>2
  <2> QED BY <2>2, <2>4, <2>6 DEF PairStream
<1> QED BY <1>1, <1>4, <1>5, <1>6, <1>7 DEF StreamInv

(* A step of the server keeps the streams.                                 *)
LEMMA StreamServer ==
  ASSUME NEW G, NEW N, NEW p, NEW b, ConnsInv(G, N, p, b), StreamInv(G, N), NEW D2, NEW M, Moves(G[Server], D2, M, Client),
         \A j \in TcpSlot : SlotOK(Server, D2[j]),
         \A j \in TcpSlot, x \in Num : G[Server][j].port # 0 /\ Starts(N, G[Server][j].port, x) /\ D2[j].state = "ESTABLISHED" =>
           RecvOK(D2[j], Off(D2[j].ack, x)),
         \A i, j \in TcpSlot : Open(G[Client][i]) /\ G[Server][j].port = G[Client][i].port /\ G[Server][j].port # 0 =>
           \A m \in M : m.port = G[Server][j].port => DataOK(m, G[Server][j].initial_seq)
  PROVE  StreamInv([G EXCEPT ![Server] = D2], N \cup M)
<1>1. PICK H : H = [G EXCEPT ![Server] = D2] OBVIOUS
<1>2. H[Server] = D2 /\ H[Client] = G[Client] BY <1>1, TcpSizes DEF ConnsInv, Conns
<1>3. \A q, x : Starts(N \cup M, q, x) <=> Starts(N, q, x)
  <2>1. \A m \in M : m.to = Server => "SYN" \notin m.flags BY TcpSizes DEF Moves
  <2> QED BY <2>1, StartsSame
<1>4. \A h \in Host, i \in TcpSlot : SlotOK(h, H[h][i])
  <2>1. \A i \in TcpSlot : SlotOK(Server, H[Server][i]) BY <1>2
  <2>2. \A i \in TcpSlot : SlotOK(Client, H[Client][i]) BY <1>2, TcpSizes DEF StreamInv
  <2> QED BY <2>1, <2>2 DEF Host
<1>5. ASSUME NEW j \in TcpSlot, D2[j].port # 0
      PROVE  G[Server][j].port # 0 /\ D2[j].port = G[Server][j].port /\ D2[j].initial_seq = G[Server][j].initial_seq
  <2>1. G[Server][j].port # 0 BY <1>5 DEF Moves
  <2>2. D2[j] # Unclaimed BY <1>5, UnclaimedType
  <2> QED BY <2>1, <2>2 DEF Moves, Kept
<1>6. \A j \in TcpSlot : H[Server][j].port # 0 => ServerStream(N \cup M, H[Server][j])
  <2> SUFFICES ASSUME NEW j \in TcpSlot, D2[j].port # 0 PROVE ServerStream(N \cup M, D2[j]) BY <1>2
  <2>1. PICK d, d2 : d = G[Server][j] /\ d2 = D2[j] OBVIOUS
  <2>2. d.port # 0 /\ d2.port = d.port BY <1>5, <2>1
  <2>3. ServerStream(N, d) BY <2>1, <2>2 DEF StreamInv
  <2>4. \E x \in Num : Starts(N \cup M, d2.port, x) BY <1>3, <2>2, <2>3 DEF ServerStream
  <2>5. \A x \in Num : Starts(N \cup M, d2.port, x) /\ d2.state = "ESTABLISHED" => RecvOK(d2, Off(d2.ack, x))
    BY <1>3, <2>1, <2>2
  <2> QED BY <2>1, <2>4, <2>5 DEF ServerStream
<1>7. \A s \in N \cup M, x \in Num : s.to = Server /\ Starts(N \cup M, s.port, x) => DataOK(s, x)
  <2> SUFFICES ASSUME NEW s \in N \cup M, NEW x \in Num, s.to = Server, Starts(N \cup M, s.port, x) PROVE DataOK(s, x)
    OBVIOUS
  <2>1. Starts(N, s.port, x) BY <1>3
  <2>2. s \in N BY TcpSizes DEF Moves
  <2> QED BY <2>1, <2>2 DEF StreamInv
<1>8. \A i, j \in TcpSlot : Open(H[Client][i]) /\ H[Server][j].port = H[Client][i].port =>
       PairStream(N \cup M, H[Client][i], H[Server][j])
  <2> SUFFICES ASSUME NEW i \in TcpSlot, NEW j \in TcpSlot, Open(H[Client][i]), H[Server][j].port = H[Client][i].port
               PROVE  PairStream(N \cup M, H[Client][i], H[Server][j]) OBVIOUS
  <2>1. PICK c, d, d2 : c = G[Client][i] /\ d = G[Server][j] /\ d2 = D2[j] OBVIOUS
  <2>2. H[Client][i] = c /\ H[Server][j] = d2 BY <1>2, <2>1
  <2>3. Open(c) /\ d2.port = c.port BY <2>2
  <2>4. c.port # 0
    <3>1. c.state # "CLOSED" BY <2>3 DEF Open
    <3> QED BY <2>1, <3>1, TcpSizes DEF ConnsInv, PortInv
  <2>5. d.port # 0 /\ d.port = c.port /\ d2.initial_seq = d.initial_seq BY <1>5, <2>1, <2>3, <2>4
  <2>6. PairStream(N, c, d) BY <2>1, <2>3, <2>5 DEF StreamInv
  <2>7. \A s \in N \cup M : s.to = Client /\ s.port = c.port => DataOK(s, d2.initial_seq)
    <3> SUFFICES ASSUME NEW s \in N \cup M, s.to = Client, s.port = c.port PROVE DataOK(s, d.initial_seq)
      BY <2>5
    <3>1. CASE s \in N BY <2>6, <3>1 DEF PairStream
    <3>2. CASE s \in M BY <2>1, <2>3, <2>5, <3>2
    <3> QED BY <3>1, <3>2
  <2> QED BY <2>2, <2>5, <2>6, <2>7 DEF PairStream
<1> QED BY <1>1, <1>4, <1>6, <1>7, <1>8 DEF StreamInv

(* The flush keeps the streams.                                            *)
LEMMA StreamFlush ==
  ASSUME NEW G, NEW N, NEW p, ConnsInv(G, N, p, FALSE), StreamInv(G, N), NEW h \in Host
  PROVE  StreamInv([G EXCEPT ![h] = AfterFlush(G[h])], N \cup Flushed(h, G[h]))
<1>1. PICK D, D2, M : D = G[h] /\ D2 = AfterFlush(D) /\ M = Flushed(h, D) OBVIOUS
<1>2. /\ D \in [TcpSlot -> Conn]
      /\ \A k \in TcpSlot : D[k].port = 0 => D[k].state = "CLOSED"
      /\ \A k \in TcpSlot : D[k].port # 0 => D[k].state # "CLOSED"
      /\ \A j, k \in TcpSlot : D[j].port = D[k].port /\ D[j].port # 0 => j = k BY <1>1, SlotsOf
<1>3. Moves(D, D2, M, Peer(h)) /\ \A i \in TcpSlot : D2[i] = AfterFlushOne(D[i]) BY <1>1, <1>2, FlushMoves
<1>4. \A i \in TcpSlot : D[i] \in Conn /\ SlotOK(h, D[i]) BY <1>1, <1>2 DEF StreamInv
<1>5. \A i \in TcpSlot : SlotOK(h, D2[i]) /\ SameRecv(D[i], D2[i]) BY <1>3, <1>4, FlushSlot
<1>6. \A i \in TcpSlot : D2[i].port = D[i].port /\ D2[i].state = D[i].state /\ D2[i].ack = D[i].ack
  BY <1>3, <1>4, FlushFields
<1>7. ASSUME NEW m \in M
      PROVE  \E i \in TcpSlot :
               /\ D[i].state = "ESTABLISHED" /\ m.port = D[i].port /\ m.flags = {"ACK"} /\ D[i].port # 0
               /\ Sender(h, D[i]) => DataOK(m, D[i].initial_seq)
  <2>1. PICK i \in TcpSlot :
           /\ D[i].state = "ESTABLISHED" /\ m.port = D[i].port /\ m.to = Peer(h) /\ m.flags = {"ACK"}
           /\ Sender(h, D[i]) /\ D[i].send_head - D[i].send_tail <= TCP_BUFFER => DataOK(m, D[i].initial_seq)
    BY <1>1, <1>2, <1>7, FlushBytes
  <2>2. D[i].send_head - D[i].send_tail <= TCP_BUFFER BY <1>4 DEF SlotOK
  <2>3. D[i].port # 0 BY <1>2, <2>1
  <2> QED BY <2>1, <2>2, <2>3
<1>8. CASE h = Client
  <2>1. \A m \in M : "SYN" \notin m.flags BY <1>7
  <2>2. ASSUME NEW m \in M, NEW x \in Num, Starts(N, m.port, x) PROVE DataOK(m, x)
    <3>1. PICK i \in TcpSlot : m.port = D[i].port /\ D[i].port # 0 /\ (Sender(h, D[i]) => DataOK(m, D[i].initial_seq))
      BY <1>7
    <3>2. Sender(Client, D[i]) BY <1>1, <1>8, <3>1, ClientFacts
    <3>3. D[i].initial_seq = x BY <1>1, <1>8, <2>2, <3>1, StartFacts
    <3> QED BY <1>8, <3>1, <3>2, <3>3
  <2>3. ASSUME NEW i \in TcpSlot, NEW j \in TcpSlot, Open(D2[i]), G[Server][j].port = D2[i].port
        PROVE  /\ Open(D[i]) /\ D2[i].port = D[i].port
               /\ D2[i].state = "ESTABLISHED" => RecvOK(D2[i], Off(D2[i].ack, G[Server][j].initial_seq))
    <3>1. D2[i].port = D[i].port /\ D2[i].state = D[i].state /\ D2[i].ack = D[i].ack /\ SameRecv(D[i], D2[i])
      BY <1>5, <1>6
    <3>2. Open(D[i]) BY <2>3, <3>1 DEF Open
    <3>3. PairStream(N, D[i], G[Server][j]) BY <1>1, <1>8, <2>3, <3>1, <3>2 DEF StreamInv
    <3>4. D[i].state = "ESTABLISHED" => RecvOK(D[i], Off(D[i].ack, G[Server][j].initial_seq))
      BY <3>3 DEF PairStream
    <3> QED BY <3>1, <3>2, <3>4, RecvSame
  <2>4. Moves(G[Client], D2, M, Server) BY <1>1, <1>3, <1>8, TcpSizes
  <2>5. \A i \in TcpSlot : SlotOK(Client, D2[i]) BY <1>5, <1>8
  <2>6. StreamInv([G EXCEPT ![Client] = D2], N \cup M)
    BY <1>1, <1>8, <2>1, <2>2, <2>3, <2>4, <2>5, StreamClient
  <2> QED BY <1>1, <1>8, <2>6
<1>9. CASE h = Server
  <2>1. ASSUME NEW j \in TcpSlot, NEW x \in Num, D[j].port # 0, Starts(N, D[j].port, x), D2[j].state = "ESTABLISHED"
        PROVE  RecvOK(D2[j], Off(D2[j].ack, x))
    <3>1. D2[j].state = D[j].state /\ D2[j].ack = D[j].ack /\ SameRecv(D[j], D2[j]) BY <1>5, <1>6
    <3>2. ServerStream(N, D[j]) BY <1>1, <1>9, <2>1 DEF StreamInv
    <3>3. RecvOK(D[j], Off(D[j].ack, x)) BY <2>1, <3>1, <3>2 DEF ServerStream
    <3> QED BY <3>1, <3>3, RecvSame
  <2>2. ASSUME NEW i \in TcpSlot, NEW j \in TcpSlot, Open(G[Client][i]), D[j].port = G[Client][i].port, D[j].port # 0,
               NEW m \in M, m.port = D[j].port
        PROVE  DataOK(m, D[j].initial_seq)
    <3>1. PICK k \in TcpSlot : m.port = D[k].port /\ D[k].port # 0 /\ (Sender(h, D[k]) => DataOK(m, D[k].initial_seq))
      BY <1>7
    <3>2. k = j BY <1>2, <2>2, <3>1
    <3>3. PairSlot(G[Server], N, G[Client][i]) BY <2>2 DEF ConnsInv, PairInv
    <3>4. Sender(Server, D[j]) BY <1>1, <1>9, <2>2, <3>3 DEF PairSlot, PairOK
    <3> QED BY <1>9, <3>1, <3>2, <3>4
  <2>3. Moves(G[Server], D2, M, Client) BY <1>1, <1>3, <1>9, TcpSizes
  <2>4. \A j \in TcpSlot : SlotOK(Server, D2[j]) BY <1>5, <1>9
  <2>5. D = G[Server] BY <1>1, <1>9
  <2>6. StreamInv([G EXCEPT ![Server] = D2], N \cup M) BY <2>1, <2>2, <2>3, <2>4, <2>5, StreamServer
  <2> QED BY <1>1, <1>9, <2>6
<1> QED BY <1>8, <1>9 DEF Host

\* Headers M of the connection c of h.
Headers(h, c, M) ==
  M \in SUBSET Seg /\ \A m \in M : m.to = Peer(h) /\ m.port = c.port /\ m.data = <<>> /\ "SYN" \notin m.flags

(* A header holds no bytes.                                                *)
LEMMA NoData == ASSUME NEW m, m.data = <<>>, NEW x PROVE DataOK(m, x)
<1>1. Len(m.data) = 0 OBVIOUS
<1> QED BY <1>1 DEF DataOK

(* A step of one connection of the client keeps the streams.               *)
LEMMA StreamClientSlot ==
  ASSUME NEW G, NEW N, NEW p, NEW b, ConnsInv(G, N, p, b), StreamInv(G, N), NEW i \in TcpSlot, NEW c, c = G[Client][i], c.port # 0,
         NEW c2 \in Conn, c2 = Unclaimed \/ Kept(c, c2), NEW M, Headers(Client, c, M), c2 = Unclaimed => M = {},
         SlotOK(Client, c2), Open(c2) => Open(c),
         \A j \in TcpSlot : Open(c2) /\ G[Server][j].port = c.port /\ c2.state = "ESTABLISHED" =>
           RecvOK(c2, Off(c2.ack, G[Server][j].initial_seq))
  PROVE  StreamInv([G EXCEPT ![Client] = [G[Client] EXCEPT ![i] = c2]], N \cup M)
<1>1. PICK D, D2 : D = G[Client] /\ D2 = [D EXCEPT ![i] = c2] OBVIOUS
<1>2. /\ D \in [TcpSlot -> Conn]
      /\ \A k \in TcpSlot : D[k].port = 0 => D[k].state = "CLOSED"
      /\ \A k \in TcpSlot : D[k].port # 0 => D[k].state # "CLOSED"
      /\ \A j, k \in TcpSlot : D[j].port = D[k].port /\ D[j].port # 0 => j = k BY <1>1, SlotsOf, TcpSizes
<1>3. M \in SUBSET Seg /\ \A m \in M : m.to = Server /\ m.port = c.port /\ m.data = <<>> /\ "SYN" \notin m.flags
  BY TcpSizes DEF Headers
<1>4. D[i] = c BY <1>1
<1>5. Moves(D, D2, M, Server) BY <1>1, <1>2, <1>3, <1>4, OneMoves
<1>6. D2[i] = c2 /\ \A k \in TcpSlot : k # i => D2[k] = D[k] BY <1>1, <1>2
<1>7. \A k \in TcpSlot : SlotOK(Client, D2[k])
  <2>1. \A k \in TcpSlot : SlotOK(Client, D[k]) BY <1>1, TcpSizes DEF StreamInv
  <2> QED BY <1>6, <2>1
<1>8. \A m \in M : "SYN" \notin m.flags BY <1>3
<1>9. \A m \in M, x \in Num : Starts(N, m.port, x) => DataOK(m, x) BY <1>3, NoData
<1>10. ASSUME NEW k \in TcpSlot, NEW j \in TcpSlot, Open(D2[k]), G[Server][j].port = D2[k].port
       PROVE  /\ Open(D[k]) /\ D2[k].port = D[k].port
              /\ D2[k].state = "ESTABLISHED" => RecvOK(D2[k], Off(D2[k].ack, G[Server][j].initial_seq))
  <2>1. CASE k = i
    <3>1. Open(c2) BY <1>6, <1>10, <2>1
    <3>2. c2 # Unclaimed BY <3>1, UnclaimedType
    <3>3. c2.port = c.port BY <3>2 DEF Kept
    <3> QED BY <1>4, <1>6, <1>10, <2>1, <3>1, <3>3
  <2>2. CASE k # i
    <3>1. D2[k] = D[k] BY <1>6, <2>2
    <3>2. PairStream(N, D[k], G[Server][j]) BY <1>1, <1>10, <3>1 DEF StreamInv
    <3> QED BY <1>10, <3>1, <3>2 DEF PairStream
  <2> QED BY <2>1, <2>2
<1> QED BY <1>1, <1>5, <1>7, <1>8, <1>9, <1>10, StreamClient

(* A step of one connection of the server keeps the streams.               *)
LEMMA StreamServerSlot ==
  ASSUME NEW G, NEW N, NEW p, NEW b, ConnsInv(G, N, p, b), StreamInv(G, N), NEW j \in TcpSlot, NEW d, d = G[Server][j], d.port # 0,
         NEW d2 \in Conn, d2 = Unclaimed \/ Kept(d, d2), NEW M, Headers(Server, d, M), d2 = Unclaimed => M = {},
         SlotOK(Server, d2),
         \A x \in Num : Starts(N, d.port, x) /\ d2.state = "ESTABLISHED" => RecvOK(d2, Off(d2.ack, x))
  PROVE  StreamInv([G EXCEPT ![Server] = [G[Server] EXCEPT ![j] = d2]], N \cup M)
<1>1. PICK D, D2 : D = G[Server] /\ D2 = [D EXCEPT ![j] = d2] OBVIOUS
<1>2. /\ D \in [TcpSlot -> Conn]
      /\ \A k \in TcpSlot : D[k].port = 0 => D[k].state = "CLOSED"
      /\ \A k \in TcpSlot : D[k].port # 0 => D[k].state # "CLOSED"
      /\ \A l, k \in TcpSlot : D[l].port = D[k].port /\ D[l].port # 0 => l = k BY <1>1, SlotsOf, TcpSizes
<1>3. M \in SUBSET Seg /\ \A m \in M : m.to = Client /\ m.port = d.port /\ m.data = <<>>
  BY TcpSizes DEF Headers
<1>4. D[j] = d BY <1>1
<1>5. Moves(D, D2, M, Client) BY <1>1, <1>2, <1>3, <1>4, OneMoves
<1>6. D2[j] = d2 /\ \A k \in TcpSlot : k # j => D2[k] = D[k] BY <1>1, <1>2
<1>7. \A k \in TcpSlot : SlotOK(Server, D2[k])
  <2>1. \A k \in TcpSlot : SlotOK(Server, D[k]) BY <1>1, TcpSizes DEF StreamInv
  <2> QED BY <1>6, <2>1
<1>8. \A x : \A m \in M : DataOK(m, x) BY <1>3, NoData
<1>9. ASSUME NEW k \in TcpSlot, NEW x \in Num, D[k].port # 0, Starts(N, D[k].port, x), D2[k].state = "ESTABLISHED"
      PROVE  RecvOK(D2[k], Off(D2[k].ack, x))
  <2>1. CASE k = j BY <1>4, <1>6, <1>9, <2>1
  <2>2. CASE k # j
    <3>1. D2[k] = D[k] BY <1>6, <2>2
    <3>2. ServerStream(N, D[k]) BY <1>1, <1>9 DEF StreamInv
    <3> QED BY <1>9, <3>1, <3>2 DEF ServerStream
  <2> QED BY <2>1, <2>2
<1> QED BY <1>1, <1>5, <1>7, <1>8, <1>9, StreamServer

(* A step of a connection that leaves its state and what it has received   *)
(* alone, or after which it is no longer open.                             *)
LEMMA StreamKept ==
  ASSUME NEW G, NEW N, NEW p, NEW b, ConnsInv(G, N, p, b), StreamInv(G, N), NEW h \in Host, NEW i \in TcpSlot,
         NEW c, c = G[h][i], c.port # 0, NEW c2 \in Conn, c2 = Unclaimed \/ Kept(c, c2),
         NEW M, Headers(h, c, M), c2 = Unclaimed => M = {}, SlotOK(h, c2),
         ~Open(c2) \/ (c2.state = c.state /\ c2.ack = c.ack /\ \A e \in Nat : RecvOK(c, e) => RecvOK(c2, e))
  PROVE  StreamInv([G EXCEPT ![h] = [G[h] EXCEPT ![i] = c2]], N \cup M)
<1>0. c \in Conn /\ c.ack \in Num
  <2>1. c \in Conn BY SlotsOf
  <2> QED BY <2>1 DEF Conn
<1>1. CASE h = Client
  <2>1. Open(c2) => Open(c) BY DEF Open
  <2>2. ASSUME NEW j \in TcpSlot, Open(c2), G[Server][j].port = c.port, c2.state = "ESTABLISHED"
        PROVE  RecvOK(c2, Off(c2.ack, G[Server][j].initial_seq))
    <3>1. PICK d : d = G[Server][j] OBVIOUS
    <3>2. d \in Conn BY <3>1, SlotsOf, TcpSizes
    <3>3. Off(c.ack, d.initial_seq) \in Nat BY <1>0, <3>2, OffFacts DEF Conn
    <3>4. PairStream(N, c, d) BY <1>1, <2>1, <2>2, <3>1 DEF StreamInv
    <3>5. RecvOK(c, Off(c.ack, d.initial_seq)) BY <2>2, <3>4 DEF PairStream
    <3> QED BY <2>2, <3>1, <3>3, <3>5
  <2>3. StreamInv([G EXCEPT ![Client] = [G[Client] EXCEPT ![i] = c2]], N \cup M)
    BY <1>1, <2>1, <2>2, StreamClientSlot
  <2> QED BY <1>1, <2>3
<1>2. CASE h = Server
  <2>1. ASSUME NEW x \in Num, Starts(N, c.port, x), c2.state = "ESTABLISHED" PROVE RecvOK(c2, Off(c2.ack, x))
    <3>1. Open(c2) BY <2>1 DEF Open
    <3>2. ServerStream(N, c) BY <1>2 DEF StreamInv
    <3>3. RecvOK(c, Off(c.ack, x)) BY <2>1, <3>1, <3>2 DEF ServerStream
    <3>4. Off(c.ack, x) \in Nat BY <1>0, OffFacts
    <3> QED BY <3>1, <3>3, <3>4
  <2>2. StreamInv([G EXCEPT ![Server] = [G[Server] EXCEPT ![i] = c2]], N \cup M)
    BY <1>2, <2>1, StreamServerSlot
  <2> QED BY <1>2, <2>2
<1> QED BY <1>1, <1>2 DEF Host

(* A connection that has acknowledgements noted, or a new state.           *)
LEMMA SlotSame ==
  ASSUME NEW h \in Host, NEW c \in Conn, NEW c2 \in Conn, SlotOK(h, c), SameRecv(c, c2), c2.send_head = c.send_head,
         c2.send_tail >= c.send_tail, c2.send_tail < SEQ_RANGE,
         c2.state = c.state \/ c2.state \notin {"SYN_SENT", "SYN_RECEIVED"}
  PROVE  SlotOK(h, c2)
<1>1. Available(c2) = Available(c) /\ c2.got = c.got /\ \A e : RecvOK(c, e) => RecvOK(c2, e) BY RecvSame
<1>2. PICK a \in Nat, t \in Nat, t2 \in Nat : a = c.send_head /\ t = c.send_tail /\ t2 = c2.send_tail
  BY DEF Conn
<1>3. a <= MaxBytes[h] /\ a - t <= TCP_BUFFER /\ t <= t2 /\ TCP_BUFFER \in Nat BY <1>2, TcpSizes DEF SlotOK
<1>4. a - t2 <= TCP_BUFFER BY <1>3
<1>5. \E e \in Nat : RecvOK(c2, e) BY <1>1 DEF SlotOK
<1>6. c2.state \in {"SYN_SENT", "SYN_RECEIVED"} => Available(c2) = 0 /\ c2.got = <<>> BY <1>1 DEF SlotOK
<1> QED BY <1>2, <1>3, <1>4, <1>5, <1>6 DEF SlotOK

(* tcp_accept changes ids only.                                            *)
LEMMA AcceptStream ==
  ASSUME TcpInv, StreamInv(g_active_sockets, tcpNet), tcp_accept
  PROVE  StreamInv(g_active_sockets', tcpNet')
<1>0. PICK G, N, p, b : G = g_active_sockets /\ N = tcpNet /\ p = port /\ b = halfopen OBVIOUS
<1>1. ConnsInv(G, N, p, b) /\ StreamInv(G, N) BY <1>0 DEF TcpInv
<1>2. PICK D, A : D = G[Server] /\ A = get_conn(Server, Head(backlog)) OBVIOUS
<1>3. PICK D2 : D2 = [i \in TcpSlot |-> IF i \in A THEN [D[i] EXCEPT !.id = D[i].port] ELSE D[i]] OBVIOUS
<1>4. g_active_sockets' = [G EXCEPT ![Server] = D2] /\ tcpNet' = N BY <1>0, <1>2, <1>3 DEF tcp_accept
<1>5. /\ D \in [TcpSlot -> Conn]
      /\ \A k \in TcpSlot : D[k].port = 0 => D[k].state = "CLOSED"
      /\ \A k \in TcpSlot : D[k].port # 0 => D[k].state # "CLOSED" BY <1>1, <1>2, SlotsOf, TcpSizes
<1>6. ASSUME NEW i \in TcpSlot
      PROVE  /\ D2[i] \in Conn /\ D2[i].port = D[i].port /\ D2[i].state = D[i].state /\ D2[i].ack = D[i].ack
             /\ D2[i].initial_seq = D[i].initial_seq /\ D2[i].send_head = D[i].send_head /\ D2[i].send_tail = D[i].send_tail
             /\ SameRecv(D[i], D2[i])
  <2>1. D[i] \in Conn BY <1>5
  <2>2. CASE i \in A
    <3>1. D2[i] = [D[i] EXCEPT !.id = D[i].port] BY <1>3, <2>2
    <3> QED BY <2>1, <3>1 DEF Conn, SameRecv
  <2>3. CASE i \notin A
    <3>1. D2[i] = D[i] BY <1>3, <2>3
    <3> QED BY <2>1, <3>1 DEF SameRecv
  <2> QED BY <2>2, <2>3
<1>7. D2 \in [TcpSlot -> Conn] BY <1>3, <1>6
<1>8. Moves(D, D2, {}, Client) BY <1>5, <1>6, <1>7 DEF Moves, Kept
<1>9. \A j \in TcpSlot : SlotOK(Server, D2[j])
  <2> SUFFICES ASSUME NEW j \in TcpSlot PROVE SlotOK(Server, D2[j]) OBVIOUS
  <2>1. SlotOK(Server, D[j]) BY <1>1, <1>2, TcpSizes DEF StreamInv
  <2>2. D[j] \in Conn /\ Server \in Host BY <1>5, TcpSizes
  <2>3. D[j].send_tail \in Nat /\ D[j].send_tail < SEQ_RANGE BY <2>1, <2>2 DEF SlotOK, Conn
  <2>4. D2[j].send_tail >= D[j].send_tail /\ D2[j].send_tail < SEQ_RANGE BY <1>6, <2>3
  <2> QED BY <1>6, <2>1, <2>2, <2>4, SlotSame
<1>10. ASSUME NEW j \in TcpSlot, NEW x \in Num, D[j].port # 0, Starts(N, D[j].port, x), D2[j].state = "ESTABLISHED"
       PROVE  RecvOK(D2[j], Off(D2[j].ack, x))
  <2>1. ServerStream(N, D[j]) BY <1>1, <1>2, <1>10 DEF StreamInv
  <2>2. RecvOK(D[j], Off(D[j].ack, x)) BY <1>6, <1>10, <2>1 DEF ServerStream
  <2> QED BY <1>6, <2>2, RecvSame
<1>11. StreamInv([G EXCEPT ![Server] = D2], N \cup {}) BY <1>1, <1>2, <1>8, <1>9, <1>10, StreamServer
<1>12. N \cup {} = N OBVIOUS
<1> QED BY <1>4, <1>11, <1>12

(* tcp_terminate_connection sends no bytes.                                *)
LEMMA TerminateStream ==
  ASSUME TcpInv, StreamInv(g_active_sockets, tcpNet), NEW h \in Host, NEW i \in TcpSlot, tcp_terminate_connection(h, i)
  PROVE  StreamInv(g_active_sockets', tcpNet')
<1>0. PICK G, N, p, b : G = g_active_sockets /\ N = tcpNet /\ p = port /\ b = halfopen OBVIOUS
<1>1. ConnsInv(G, N, p, b) /\ StreamInv(G, N) BY <1>0 DEF TcpInv
<1>2. PICK c : c = G[h][i] OBVIOUS
<1>3. G \in Conns /\ c \in Conn /\ c.port # 0
  <2>1. c.port # 0 BY <1>0, <1>2 DEF tcp_terminate_connection, Held
  <2> QED BY <1>1, <1>2, <2>1, SlotsOf
<1>5. PICK c1 : c1 = [c EXCEPT !.state = "FIN_WAIT_1"] OBVIOUS
<1>6. /\ c1 \in Conn /\ c1.port = c.port /\ c1.state = "FIN_WAIT_1"
      /\ c1.initial_seq = c.initial_seq /\ c1.send_head = c.send_head /\ c1.send_tail = c.send_tail /\ SameRecv(c, c1)
  BY <1>3, <1>5 DEF Conn, ConnState, SameRecv
<1>7. PICK c2, m : c2 = AfterHeader(c1, {"FIN"}) /\ m = Segment(h, c1, {"FIN"}, <<>>) OBVIOUS
<1>8. {"FIN"} \in SUBSET Flag BY DEF Flag
<1>9. /\ c2 \in Conn /\ c2.port = c.port /\ c2.state = "FIN_WAIT_1"
      /\ c2.initial_seq = c.initial_seq /\ c2.send_head = c.send_head /\ c2.send_tail = c.send_tail
  BY <1>6, <1>7, <1>8, HeaderFields
<1>10. SameRecv(c, c2) BY <1>6, <1>7 DEF AfterHeader, SameRecv, Conn
<1>11. m \in Seg /\ m.to = Peer(h) /\ m.port = c.port /\ m.flags = {"FIN"} /\ m.data = <<>>
  <2>1. PICK F \in SUBSET Flag : F = {"FIN"} BY <1>8
  <2>2. m = Segment(h, c1, F, <<>>) BY <1>7, <2>1
  <2> QED BY <1>6, <2>1, <2>2, HeaderSegment
<1>12. Headers(h, c, {m}) BY <1>11 DEF Headers
<1>13. g_active_sockets' = [G EXCEPT ![h][i] = c2] /\ tcpNet' = N \cup {m}
  BY <1>0, <1>2, <1>5, <1>7 DEF tcp_terminate_connection
<1>14. [G EXCEPT ![h][i] = c2] = [G EXCEPT ![h] = [G[h] EXCEPT ![i] = c2]] BY <1>3 DEF Conns
<1>15. Kept(c, c2) /\ c2 # Unclaimed /\ ~Open(c2) BY <1>9, UnclaimedType DEF Kept, Open
<1>16. SlotOK(h, c2)
  <2>1. SlotOK(h, c) BY <1>1, <1>2 DEF StreamInv
  <2>2. c.send_tail \in Nat /\ c.send_tail < SEQ_RANGE BY <1>3, <2>1 DEF SlotOK, Conn
  <2>3. c2.send_tail >= c.send_tail /\ c2.send_tail < SEQ_RANGE BY <1>9, <2>2
  <2> QED BY <1>3, <1>9, <1>10, <2>1, <2>3, SlotSame
<1>17. StreamInv([G EXCEPT ![h] = [G[h] EXCEPT ![i] = c2]], N \cup {m})
  BY <1>1, <1>2, <1>3, <1>9, <1>12, <1>15, <1>16, StreamKept
<1> QED BY <1>13, <1>14, <1>17

(* tcp_receive.                                                            *)
LEMMA ReceiveStream ==
  ASSUME TcpInv, StreamInv(g_active_sockets, tcpNet), NEW h \in Host, NEW i \in TcpSlot, tcp_receive(h, i), TcpInv'
  PROVE  StreamInv(g_active_sockets', tcpNet')
<1>0. PICK G, N, p, b : G = g_active_sockets /\ N = tcpNet /\ p = port /\ b = halfopen OBVIOUS
<1>1. ConnsInv(G, N, p, b) /\ StreamInv(G, N) BY <1>0 DEF TcpInv
<1>2. PICK c : c = G[h][i] OBVIOUS
<1>3. G \in Conns /\ c \in Conn /\ c.port # 0 /\ c.state # "CLOSED" /\ Available(c) # 0
  <2>1. c.port # 0 /\ Available(c) # 0 BY <1>0, <1>2 DEF tcp_receive, Held
  <2> QED BY <1>1, <1>2, <2>1, SlotsOf
<1>4. PICK v : v = c.got \o [k \in 1 .. Available(c) |-> RingByte(c, c.recv_tail + k - 1)] OBVIOUS
<1>5. PICK c2 : c2 = [c EXCEPT !.recv_tail = c.recv_head, !.got = v] OBVIOUS
<1>6. g_active_sockets' = [G EXCEPT ![h][i] = c2] /\ tcpNet' = N BY <1>0, <1>2, <1>4, <1>5 DEF tcp_receive
<1>7. [G EXCEPT ![h][i] = c2] = [G EXCEPT ![h] = [G[h] EXCEPT ![i] = c2]] BY <1>3 DEF Conns
<1>8. c2 \in Conn
  <2>1. ConnsInv(g_active_sockets', tcpNet', port', halfopen') BY DEF TcpInv
  <2>2. g_active_sockets'[h][i] \in Conn BY <2>1 DEF ConnsInv, Conns
  <2> QED BY <1>3, <1>6, <2>2 DEF Conns
<1>9. /\ c2.port = c.port /\ c2.state = c.state /\ c2.ack = c.ack /\ c2.initial_seq = c.initial_seq
      /\ c2.send_tail = c.send_tail /\ c2.send_head = c.send_head /\ c2.recv_head = c.recv_head /\ c2.recv_tail = c.recv_head
      /\ c2.got = v BY <1>3, <1>5 DEF Conn
<1>10. \A e \in Nat : RecvOK(c, e) => RecvOK(c2, e) BY <1>3, <1>4, <1>8, <1>9, ReceiveRecv
<1>11. SlotOK(h, c) BY <1>1, <1>2 DEF StreamInv
<1>12. c.state \notin {"SYN_SENT", "SYN_RECEIVED"} BY <1>3, <1>11 DEF SlotOK
<1>13. SlotOK(h, c2) BY <1>9, <1>10, <1>11, <1>12 DEF SlotOK
<1>14. Kept(c, c2) /\ c2 # Unclaimed BY <1>3, <1>9, UnclaimedType DEF Kept
<1>15. Headers(h, c, {}) BY DEF Headers
<1>16. StreamInv([G EXCEPT ![h] = [G[h] EXCEPT ![i] = c2]], N \cup {})
  BY <1>1, <1>2, <1>3, <1>8, <1>9, <1>10, <1>13, <1>14, <1>15, StreamKept
<1>17. N \cup {} = N OBVIOUS
<1> QED BY <1>6, <1>7, <1>16, <1>17

(* A connection that has just been opened.                                 *)
LEMMA FreshSlot ==
  ASSUME NEW h \in Host, NEW c, c.send_head = 0, c.send_tail = 0, SameRecv(Unclaimed, c)
  PROVE  SlotOK(h, c)
<1>1. Unclaimed.recv_head = 0 /\ Unclaimed.recv_tail = 0 /\ Unclaimed.got = <<>> BY DEF Unclaimed
<1>2. Available(Unclaimed) = 0
  <2>1. 0 \in Num /\ 0 - 0 = 0 BY TcpSizes DEF Num
  <2>2. Seqn(0) = 0 BY <2>1, SeqnRange
  <2> QED BY <1>1, <2>1, <2>2 DEF Available
<1>3. Available(c) = 0 /\ c.got = <<>> BY <1>1, <1>2, RecvSame
<1>4. RecvOK(c, 1) BY <1>3, RecvNothing
<1>5. 0 <= MaxBytes[h] /\ 0 < SEQ_RANGE /\ 0 - 0 <= TCP_BUFFER BY TcpSizes
<1>6. \E e \in Nat : RecvOK(c, e)
  <2>1. 1 \in Nat OBVIOUS
  <2> QED BY <1>4, <2>1
<1> QED BY <1>3, <1>5, <1>6 DEF SlotOK

(* A slot that is given up.                                                *)
LEMMA UnclaimedSlot == ASSUME NEW h \in Host PROVE SlotOK(h, Unclaimed)
<1>1. Unclaimed.send_head = 0 /\ Unclaimed.send_tail = 0 BY DEF Unclaimed
<1>2. SameRecv(Unclaimed, Unclaimed) BY DEF SameRecv
<1> QED BY <1>1, <1>2, FreshSlot

(* tcp_send: as long as the ring is not overrun, it holds what is not sent. *)
LEMMA SendStream ==
  ASSUME TcpInv, ~halfopen, StreamInv(g_active_sockets, tcpNet), NEW h \in Host, NEW i \in TcpSlot, NEW len \in 1 .. MaxBytes[h],
         tcp_send(h, i, len), ~overrun'
  PROVE  StreamInv(g_active_sockets', tcpNet')
<1>0. PICK G, N, p : G = g_active_sockets /\ N = tcpNet /\ p = port OBVIOUS
<1>1. ConnsInv(G, N, p, FALSE) /\ StreamInv(G, N)
  <2>1. halfopen = FALSE /\ ConnsInv(g_active_sockets, tcpNet, port, halfopen) BY DEF TcpInv
  <2> QED BY <1>0, <2>1
<1>2. PICK c : c = G[h][i] OBVIOUS
<1>3. G \in Conns /\ c \in Conn /\ G[h] \in [TcpSlot -> Conn] /\ c.port # 0 /\ c.state # "CLOSED"
  <2>1. c.port # 0 BY <1>0, <1>2 DEF tcp_send, Held
  <2> QED BY <1>1, <1>2, <2>1, SlotsOf
<1>4. c.send_head \in Nat /\ c.send_tail \in Nat /\ len \in Nat /\ len >= 1 /\ MaxBytes[h] \in Nat /\ TCP_BUFFER \in Nat
  BY <1>3, TcpSizes DEF Conn
<1>5. PICK y \in Nat : y = c.send_head + len BY <1>4
<1>6. PICK c2 : c2 = [c EXCEPT !.send_head = y] OBVIOUS
<1>7. /\ c2 \in Conn /\ c2.port = c.port /\ c2.id = c.id /\ c2.state = c.state /\ c2.seq = c.seq /\ c2.ack = c.ack
      /\ c2.initial_seq = c.initial_seq /\ c2.send_tail = c.send_tail /\ c2.send_head = y /\ SameRecv(c, c2)
  BY <1>3, <1>6 DEF Conn, SameRecv
<1>8. PICK cs : cs = [G[h] EXCEPT ![i] = c2] OBVIOUS
<1>9. cs[i] = c2 BY <1>3, <1>8
<1>10. cs = [g_active_sockets[h] EXCEPT ![i].send_head = @ + len] BY <1>0, <1>2, <1>3, <1>5, <1>6, <1>8
<1>11. /\ cs[i].send_head <= MaxBytes[h] /\ g_active_sockets' = [G EXCEPT ![h] = AfterFlush(cs)]
       /\ tcpNet' = N \cup Flushed(h, cs) /\ ~(cs[i].send_head - cs[i].send_tail > TCP_BUFFER)
  BY <1>0, <1>10 DEF tcp_send
<1>12. y <= MaxBytes[h] /\ y - c.send_tail <= TCP_BUFFER
  <2>1. ~(y - c.send_tail > TCP_BUFFER) /\ y <= MaxBytes[h] BY <1>7, <1>9, <1>11
  <2> QED BY <1>4, <2>1
<1>13. Available(c2) = Available(c) /\ c2.got = c.got /\ \A e : RecvOK(c, e) => RecvOK(c2, e)
  BY <1>7, RecvSame
<1>14. SlotOK(h, c) BY <1>1, <1>2 DEF StreamInv
<1>15. SlotOK(h, c2) BY <1>7, <1>12, <1>13, <1>14 DEF SlotOK
<1>16. Kept(c, c2) /\ c2 # Unclaimed BY <1>3, <1>7, UnclaimedType DEF Kept
<1>17. Headers(h, c, {}) BY DEF Headers
<1>18. StreamInv([G EXCEPT ![h] = cs], N)
  <2>1. StreamInv([G EXCEPT ![h] = [G[h] EXCEPT ![i] = c2]], N \cup {})
    BY <1>1, <1>2, <1>3, <1>7, <1>13, <1>15, <1>16, <1>17, StreamKept
  <2>2. N \cup {} = N OBVIOUS
  <2> QED BY <1>8, <2>1, <2>2
<1>19. ConnsInv([G EXCEPT ![h] = cs], N, p, FALSE)
  <2>1. c.send_head <= c2.send_head /\ c2.send_head <= MaxBytes[h] BY <1>4, <1>5, <1>7, <1>12
  <2>2. ConnsInv([G EXCEPT ![h] = [G[h] EXCEPT ![i] = c2]], N, p, FALSE)
    BY <1>1, <1>2, <1>3, <1>7, <2>1, QuietStep
  <2> QED BY <1>8, <2>2
<1>20. PICK H : H = [G EXCEPT ![h] = cs] OBVIOUS
<1>21. H[h] = cs /\ [H EXCEPT ![h] = AfterFlush(cs)] = [G EXCEPT ![h] = AfterFlush(cs)]
  BY <1>3, <1>20 DEF Conns
<1>21a. ConnsInv(H, N, p, FALSE) /\ StreamInv(H, N) BY <1>18, <1>19, <1>20
<1>22. StreamInv([H EXCEPT ![h] = AfterFlush(H[h])], N \cup Flushed(h, H[h])) BY <1>21a, StreamFlush
<1> QED BY <1>11, <1>21, <1>22

(* tcp_active: the port is new.                                            *)
LEMMA ActiveStream ==
  ASSUME TcpInv, StreamInv(g_active_sockets, tcpNet), NEW iss \in InitialSeqs, tcp_active(iss)
  PROVE  StreamInv(g_active_sockets', tcpNet')
<1>0. PICK G, N, p, b : G = g_active_sockets /\ N = tcpNet /\ p = port /\ b = halfopen OBVIOUS
<1>1. ConnsInv(G, N, p, b) /\ StreamInv(G, N) BY <1>0 DEF TcpInv
<1>2. G \in Conns /\ N \in SUBSET Seg /\ PortInv(G, N, p) /\ p \in Nat BY <1>1 DEF ConnsInv, PortInv
<1>3. \A h \in Host, k \in TcpSlot : G[h][k] \in Conn /\ G[h][k].port # p
  <2> SUFFICES ASSUME NEW h \in Host, NEW k \in TcpSlot PROVE G[h][k] \in Conn /\ G[h][k].port # p OBVIOUS
  <2>1. G[h][k] \in Conn /\ G[h][k].port < p BY <1>2 DEF PortInv, Conns
  <2>2. G[h][k].port \in Nat BY <2>1 DEF Conn
  <2> QED BY <1>2, <2>1, <2>2
<1>4. \A s \in N : s.port # p
  <2> SUFFICES ASSUME NEW s \in N PROVE s.port # p OBVIOUS
  <2>1. s.port \in Nat /\ s.port < p BY <1>2 DEF PortInv, Seg
  <2> QED BY <1>2, <2>1
<1>5. CASE FreeConns(Client) = {}
  <2>1. g_active_sockets' = G /\ tcpNet' = N BY <1>0, <1>5 DEF tcp_active
  <2> QED BY <1>1, <2>1
<1>6. CASE FreeConns(Client) # {}
  <2>1. PICK c : c = [Unclaimed EXCEPT !.port = p, !.id = p, !.state = "SYN_SENT", !.seq = iss, !.initial_seq = iss]
    OBVIOUS
  <2>2. iss \in Num BY TcpAssumption DEF Num
  <2>3. /\ c \in Conn /\ c.port = p /\ c.state = "SYN_SENT" /\ c.seq = iss
        /\ c.send_head = 0 /\ c.send_tail = 0 /\ SameRecv(Unclaimed, c)
    <3>1. Unclaimed \in Conn /\ Unclaimed.send_head = 0 /\ Unclaimed.send_tail = 0
      BY UnclaimedType DEF Unclaimed
    <3> QED BY <1>2, <2>1, <2>2, <3>1 DEF Conn, ConnState, SameRecv
  <2>4. PICK c2, m : c2 = AfterHeader(c, {"SYN"}) /\ m = Segment(Client, c, {"SYN"}, <<>>) OBVIOUS
  <2>5. {"SYN"} \in SUBSET Flag BY DEF Flag
  <2>6. c2 \in Conn /\ c2.port = p /\ c2.state = "SYN_SENT" /\ c2.send_head = 0 /\ c2.send_tail = 0
    BY <2>3, <2>4, <2>5, HeaderFields
  <2>7. SameRecv(Unclaimed, c2) BY <2>3, <2>4 DEF AfterHeader, SameRecv, Conn
  <2>8. m \in Seg /\ m.to = Server /\ m.port = p /\ m.data = <<>>
    BY <2>3, <2>4, <2>5, HeaderSegment, TcpSizes
  <2>9. PICK i \in TcpSlot : g_active_sockets' = [G EXCEPT ![Client][i] = c2]
    <3>1. g_active_sockets' = create_active(Client, c2) BY <1>0, <1>6, <2>1, <2>4 DEF tcp_active
    <3>2. \E i \in TcpSlot : create_active(Client, c2) = [g_active_sockets EXCEPT ![Client][i] = c2]
      BY <1>6, CreateActive, TcpSizes
    <3> QED BY <1>0, <3>1, <3>2
  <2>10. tcpNet' = N \cup {m} BY <1>0, <1>6, <2>1, <2>4 DEF tcp_active
  <2>11. PICK H : H = [G EXCEPT ![Client][i] = c2] OBVIOUS
  <2>12. /\ H[Client][i] = c2 /\ \A k \in TcpSlot : k # i => H[Client][k] = G[Client][k]
         /\ H[Server] = G[Server] BY <1>2, <2>11, TcpSizes DEF Conns
  <2>13. \A q, x : q # p => (Starts(N \cup {m}, q, x) <=> Starts(N, q, x)) BY <2>8 DEF Starts
  <2>14. \A h \in Host, k \in TcpSlot : SlotOK(h, H[h][k])
    <3>1. SlotOK(Client, c2) BY <2>6, <2>7, FreshSlot, TcpSizes
    <3>2. \A k \in TcpSlot : SlotOK(Client, H[Client][k]) BY <1>1, <2>12, <3>1, TcpSizes DEF StreamInv
    <3>3. \A k \in TcpSlot : SlotOK(Server, H[Server][k]) BY <1>1, <2>12, TcpSizes DEF StreamInv
    <3> QED BY <3>2, <3>3 DEF Host
  <2>15. \A j \in TcpSlot : H[Server][j].port # 0 => ServerStream(N \cup {m}, H[Server][j])
    <3> SUFFICES ASSUME NEW j \in TcpSlot, G[Server][j].port # 0 PROVE ServerStream(N \cup {m}, G[Server][j])
      BY <2>12
    <3>1. ServerStream(N, G[Server][j]) BY <1>1 DEF StreamInv
    <3>2. G[Server][j].port # p BY <1>3, TcpSizes
    <3> QED BY <2>13, <3>1, <3>2 DEF ServerStream
  <2>16. \A s \in N \cup {m}, x \in Num : s.to = Server /\ Starts(N \cup {m}, s.port, x) => DataOK(s, x)
    <3> SUFFICES ASSUME NEW s \in N \cup {m}, NEW x \in Num, s.to = Server, Starts(N \cup {m}, s.port, x) PROVE DataOK(s, x)
      OBVIOUS
    <3>1. CASE s = m BY <2>8, <3>1, NoData
    <3>2. CASE s \in N
      <4>1. Starts(N, s.port, x) BY <1>4, <2>13, <3>2
      <4> QED BY <1>1, <3>2, <4>1 DEF StreamInv
    <3> QED BY <3>1, <3>2
  <2>17. \A k, j \in TcpSlot : Open(H[Client][k]) /\ H[Server][j].port = H[Client][k].port =>
           PairStream(N \cup {m}, H[Client][k], H[Server][j])
    <3> SUFFICES ASSUME NEW k \in TcpSlot, NEW j \in TcpSlot, Open(H[Client][k]), G[Server][j].port = H[Client][k].port
                 PROVE  PairStream(N \cup {m}, H[Client][k], G[Server][j]) BY <2>12
    <3>1. k # i BY <1>3, <2>6, <2>12, TcpSizes
    <3>2. H[Client][k] = G[Client][k] BY <2>12, <3>1
    <3>3. PairStream(N, G[Client][k], G[Server][j]) BY <1>1, <3>2 DEF StreamInv
    <3>4. \A s \in N \cup {m} : s.to = Client /\ s.port = G[Client][k].port => DataOK(s, G[Server][j].initial_seq)
      BY <2>8, <3>3, TcpSizes DEF PairStream
    <3> QED BY <3>2, <3>3, <3>4 DEF PairStream
  <2> QED BY <2>9, <2>10, <2>11, <2>14, <2>15, <2>16, <2>17 DEF StreamInv
<1> QED BY <1>5, <1>6

(* Incoming: no segment of an earlier connection of this port is on its    *)
(* way to a client whose connection is open.                               *)
LEMMA IncomingStream ==
  ASSUME TcpInv, ~halfopen, StreamInv(g_active_sockets, tcpNet),
         NEW s \in tcpNet, NEW iss \in InitialSeqs, NEW id \in RandomIds, Incoming(s, iss, id)
  PROVE  StreamInv(g_active_sockets', tcpNet')
<1>0. PICK G, N, p, b : G = g_active_sockets /\ N = tcpNet /\ p = port /\ b = halfopen OBVIOUS
<1>1. ConnsInv(G, N, p, b) /\ StreamInv(G, N) /\ ~b BY <1>0 DEF TcpInv
<1>2. G \in Conns /\ N \in SUBSET Seg /\ s \in N BY <1>0, <1>1 DEF ConnsInv
<1>3. s.to = Server /\ s.flags = {"SYN"} /\ FreeConns(Server) # {} /\ \A k \in TcpSlot : G[Server][k].port # s.port
  BY <1>0 DEF Incoming
<1>4. s \in Seg /\ s.port \in Nat /\ s.seq \in Num BY <1>2 DEF Seg
<1>5. iss \in Num BY TcpAssumption DEF Num
<1>6. PICK a \in Num : a = Seqn(s.seq + 1)
  <2>1. s.seq + 1 \in Int BY <1>4, TcpSizes DEF Num
  <2> QED BY <2>1, SeqnRange
<1>7. PICK c : c = [Unclaimed EXCEPT !.port = s.port, !.id = id, !.state = "SYN_RECEIVED",
                      !.seq = iss, !.initial_seq = iss, !.ack = a] OBVIOUS
<1>8. /\ c \in Conn /\ c.port = s.port /\ c.state = "SYN_RECEIVED"
      /\ c.send_head = 0 /\ c.send_tail = 0 /\ SameRecv(Unclaimed, c)
  <2>1. Unclaimed \in Conn /\ Unclaimed.send_head = 0 /\ Unclaimed.send_tail = 0
    BY UnclaimedType DEF Unclaimed
  <2> QED BY <1>4, <1>5, <1>7, <2>1 DEF Conn, ConnState, SameRecv
<1>9. PICK d, m : d = AfterHeader(c, {"SYN", "ACK"}) /\ m = Segment(Server, c, {"SYN", "ACK"}, <<>>) OBVIOUS
<1>10. {"SYN", "ACK"} \in SUBSET Flag BY DEF Flag
<1>11. d \in Conn /\ d.port = s.port /\ d.state = "SYN_RECEIVED" /\ d.send_head = 0 /\ d.send_tail = 0
  BY <1>8, <1>9, <1>10, HeaderFields
<1>12. SameRecv(Unclaimed, d) BY <1>8, <1>9 DEF AfterHeader, SameRecv, Conn
<1>13. m \in Seg /\ m.to = Client /\ m.port = s.port /\ m.data = <<>>
  BY <1>8, <1>9, <1>10, HeaderSegment, TcpSizes
<1>14. PICK j \in TcpSlot : g_active_sockets' = [G EXCEPT ![Server][j] = d]
  <2>1. g_active_sockets' = create_active(Server, d) BY <1>6, <1>7, <1>9 DEF Incoming
  <2>2. \E k \in TcpSlot : create_active(Server, d) = [g_active_sockets EXCEPT ![Server][k] = d]
    BY <1>3, CreateActive, TcpSizes
  <2> QED BY <1>0, <2>1, <2>2
<1>15. tcpNet' = N \cup {m} BY <1>0, <1>6, <1>7, <1>9 DEF Incoming
<1>16. PICK H : H = [G EXCEPT ![Server][j] = d] OBVIOUS
<1>17. /\ H[Server][j] = d /\ \A k \in TcpSlot : k # j => H[Server][k] = G[Server][k]
       /\ H[Client] = G[Client] BY <1>2, <1>16, TcpSizes DEF Conns
<1>18. \A q, x : Starts(N \cup {m}, q, x) <=> Starts(N, q, x) BY <1>13, TcpSizes DEF Starts
<1>19. \A h \in Host, k \in TcpSlot : SlotOK(h, H[h][k])
  <2>1. SlotOK(Server, d) BY <1>11, <1>12, FreshSlot, TcpSizes
  <2>2. \A k \in TcpSlot : SlotOK(Server, H[Server][k]) BY <1>1, <1>17, <2>1, TcpSizes DEF StreamInv
  <2>3. \A k \in TcpSlot : SlotOK(Client, H[Client][k]) BY <1>1, <1>17, TcpSizes DEF StreamInv
  <2> QED BY <2>2, <2>3 DEF Host
<1>20. \A k \in TcpSlot : H[Server][k].port # 0 => ServerStream(N \cup {m}, H[Server][k])
  <2> SUFFICES ASSUME NEW k \in TcpSlot, H[Server][k].port # 0 PROVE ServerStream(N \cup {m}, H[Server][k])
    OBVIOUS
  <2>1. CASE k = j
    <3>1. Starts(N, s.port, s.seq) BY <1>2, <1>3 DEF Starts
    <3>2. \E x \in Num : Starts(N \cup {m}, d.port, x) BY <1>4, <1>11, <1>18, <3>1
    <3> QED BY <1>11, <1>17, <2>1, <3>2 DEF ServerStream
  <2>2. CASE k # j
    <3>1. H[Server][k] = G[Server][k] BY <1>17, <2>2
    <3>2. ServerStream(N, G[Server][k]) BY <1>1, <3>1 DEF StreamInv
    <3> QED BY <1>18, <3>1, <3>2 DEF ServerStream
  <2> QED BY <2>1, <2>2
<1>21. \A r \in N \cup {m}, x \in Num : r.to = Server /\ Starts(N \cup {m}, r.port, x) => DataOK(r, x)
  BY <1>1, <1>13, <1>18, TcpSizes DEF StreamInv
<1>22. \A i, k \in TcpSlot : Open(H[Client][i]) /\ H[Server][k].port = H[Client][i].port =>
         PairStream(N \cup {m}, H[Client][i], H[Server][k])
  <2> SUFFICES ASSUME NEW i \in TcpSlot, NEW k \in TcpSlot, Open(G[Client][i]), H[Server][k].port = G[Client][i].port
               PROVE  PairStream(N \cup {m}, G[Client][i], H[Server][k]) BY <1>17
  <2>0. PICK e : e = G[Client][i] OBVIOUS
  <2>1. CASE k = j
    <3>1. e.port = s.port BY <1>11, <1>17, <2>0, <2>1
    <3>2. PairSlot(G[Server], N, e) BY <1>1, <2>0 DEF ConnsInv, PairInv
    <3>3. e.state # "ESTABLISHED" BY <1>3, <3>1, <3>2 DEF PairSlot
    <3>4. \A r \in N : ~(r.to = Client /\ r.port = e.port) BY <1>3, <3>1, <3>2 DEF PairSlot
    <3>5. \A r \in N \cup {m} : r.to = Client /\ r.port = e.port => DataOK(r, H[Server][k].initial_seq)
      BY <1>13, <3>4, NoData
    <3> QED BY <2>0, <3>3, <3>5 DEF PairStream
  <2>2. CASE k # j
    <3>1. H[Server][k] = G[Server][k] BY <1>17, <2>2
    <3>2. PairStream(N, e, G[Server][k]) BY <1>1, <2>0, <3>1 DEF StreamInv
    <3>3. G[Server][k].port = e.port BY <2>0, <3>1
    <3>4. m.port # e.port BY <1>3, <1>13, <3>3
    <3> QED BY <2>0, <3>1, <3>2, <3>4 DEF PairStream
  <2> QED BY <2>1, <2>2
<1> QED BY <1>14, <1>15, <1>16, <1>19, <1>20, <1>21, <1>22 DEF StreamInv

(* What tcp_on_data answers with, and when it keeps the payload.           *)
LEMMA OutcomeShape ==
  ASSUME NEW c \in Conn, c.state # "CLOSED", NEW s \in Seg, "RST" \notin s.flags, NEW o, o = Outcome(c, s)
  PROVE  /\ Len(o.headers) \in 0 .. 2 /\ \A k \in 1 .. Len(o.headers) : o.headers[k] \in SUBSET Flag
         /\ o.keep <=> c.state = "ESTABLISHED" /\ s.data # <<>>
<1> DEFINE Good == Len(o.headers) \in 0 .. 2 /\ \A k \in 1 .. Len(o.headers) : o.headers[k] \in SUBSET Flag
<1>0. {"ACK"} \in SUBSET Flag /\ {"RST"} \in SUBSET Flag /\ {"ACK", "FIN"} \in SUBSET Flag BY DEF Flag
<1>1. ASSUME o.headers = <<>> PROVE Good
  <2>1. Len(o.headers) = 0 BY <1>1
  <2> QED BY <2>1
<1>2. ASSUME NEW F \in SUBSET Flag, o.headers = <<F>> PROVE Good
  <2>1. Len(o.headers) = 1 /\ o.headers[1] = F /\ \A k \in 1 .. 1 : k = 1 BY <1>2
  <2> QED BY <2>1
<1>3. ASSUME NEW F \in SUBSET Flag, NEW E \in SUBSET Flag, o.headers = <<F, E>> PROVE Good
  <2>1. Len(o.headers) = 2 /\ o.headers[1] = F /\ o.headers[2] = E /\ \A k \in 1 .. 2 : k = 1 \/ k = 2
    BY <1>3
  <2> QED BY <2>1
<1>4. CASE c.state = "ESTABLISHED"
  <2>1. /\ o.keep = (s.data # <<>>)
        /\ o.headers = (IF s.data # <<>> THEN <<{"ACK"}>> ELSE <<>>) \o (IF "FIN" \in s.flags THEN <<{"ACK", "FIN"}>> ELSE <<>>)
    BY <1>4 DEF Outcome
  <2>2. PICK A \in SUBSET Flag, B \in SUBSET Flag : A = {"ACK"} /\ B = {"ACK", "FIN"} BY <1>0
  <2>3. <<A>> \o <<B>> = <<A, B>> /\ <<A>> \o <<>> = <<A>> /\ <<>> \o <<B>> = <<B>> /\ <<>> \o <<>> = <<>>
    BY TwoHeaders
  <2>4. o.headers = <<A, B>> \/ o.headers = <<A>> \/ o.headers = <<B>> \/ o.headers = <<>>
    BY <2>1, <2>2, <2>3
  <2> HIDE DEF Good
  <2>5. Good BY <1>1, <1>2, <1>3, <2>4
  <2> QED BY <1>4, <2>1, <2>5 DEF Good
<1>5. CASE c.state # "ESTABLISHED"
  <2>0. c.state \in ConnState BY DEF Conn
  <2>1. o.keep = FALSE /\ (o.headers = <<>> \/ o.headers = <<{"ACK"}>> \/ o.headers = <<{"RST"}>>)
    <3>1. CASE c.state = "SYN_SENT" BY <3>1 DEF Outcome
    <3>2. CASE c.state = "SYN_RECEIVED" BY <3>2 DEF Outcome
    <3>3. CASE c.state \in {"FIN_WAIT_1", "FIN_WAIT_2"} BY <3>3 DEF Outcome
    <3>4. CASE c.state \in {"TIME_WAIT", "LAST_ACK"} BY <3>4 DEF Outcome
    <3> QED BY <1>5, <2>0, <3>1, <3>2, <3>3, <3>4 DEF ConnState
  <2> HIDE DEF Good
  <2>2. Good BY <1>0, <1>1, <1>2, <2>1
  <2> QED BY <1>5, <2>1, <2>2 DEF Good
<1> QED BY <1>4, <1>5

(* Headers leave what is received alone.                                   *)
LEMMA HeadersRecv ==
  ASSUME NEW c \in Conn, NEW hs, Len(hs) \in 0 .. 2, \A k \in 1 .. Len(hs) : hs[k] \in SUBSET Flag
  PROVE  SameRecv(c, AfterHeaders(c, hs)[Len(hs)])
<1>1. \A d \in Conn : \A F \in SUBSET Flag : AfterHeader(d, F) \in Conn /\ SameRecv(d, AfterHeader(d, F))
  <2> SUFFICES ASSUME NEW d \in Conn, NEW F \in SUBSET Flag PROVE AfterHeader(d, F) \in Conn /\ SameRecv(d, AfterHeader(d, F)) OBVIOUS
  <2>1. AfterHeader(d, F) \in Conn BY HeaderFields
  <2>2. SameRecv(d, AfterHeader(d, F)) BY DEF AfterHeader, SameRecv, Conn
  <2> QED BY <2>1, <2>2
<1>2. CASE Len(hs) = 0
  <2>1. AfterHeaders(c, hs)[Len(hs)] = c BY <1>2, HeadersSent
  <2> QED BY <2>1 DEF SameRecv
<1>3. CASE Len(hs) = 1
  <2>1. AfterHeaders(c, hs)[Len(hs)] = AfterHeader(c, hs[1]) BY <1>3, HeadersSent
  <2>2. hs[1] \in SUBSET Flag BY <1>3
  <2> QED BY <1>1, <2>1, <2>2
<1>4. CASE Len(hs) = 2
  <2>1. AfterHeaders(c, hs)[Len(hs)] = AfterHeader(AfterHeader(c, hs[1]), hs[2]) BY <1>4, HeadersSent
  <2>2. hs[1] \in SUBSET Flag /\ hs[2] \in SUBSET Flag BY <1>4
  <2>3. PICK d \in Conn : d = AfterHeader(c, hs[1]) /\ SameRecv(c, d) BY <1>1, <2>2
  <2>4. SameRecv(d, AfterHeader(d, hs[2])) BY <1>1, <2>2
  <2> QED BY <2>1, <2>3, <2>4 DEF SameRecv
<1> QED BY <1>2, <1>3, <1>4

(* What tcp_on_data does to what is received.                              *)
LEMMA HandledRecv ==
  ASSUME NEW h \in Host, NEW c \in Conn, c.state # "CLOSED", NEW s \in Seg, "RST" \notin s.flags,
         NEW o, NEW after, NEW M, Handled(h, c, s, o, after, M), NEW st \in ConnState, o.state = st
  PROVE  LET c2 == after[Len(o.headers)]
         IN  /\ c.state # "ESTABLISHED" \/ s.data = <<>> => SameRecv(c, c2)
             /\ c.state = "ESTABLISHED" /\ s.data # <<>> =>
                  o.keep /\ SameRecv(c, Noted(c, s)) /\ Noted(c, s) \in Conn /\ SameRecv(Stored(Noted(c, s), s), c2)
<1>1. PICK e, c1 : e = Noted(c, s) /\ c1 = (IF o.keep THEN Stored(e, s) ELSE e) OBVIOUS
<1>2. e \in Conn /\ Stored(e, s) \in Conn
  <2>1. e \in Conn BY <1>1, NotedFields
  <2> QED BY <2>1, StoredFields
<1>3. c1 \in Conn BY <1>1, <1>2
<1>4. SameRecv(c, e) BY <1>1 DEF Noted, SameRecv, Conn
<1>5. PICK u : u = [c1 EXCEPT !.state = st] OBVIOUS
<1>6. u \in Conn /\ SameRecv(c1, u) BY <1>3, <1>5 DEF Conn, SameRecv
<1>7. after = AfterHeaders(u, o.headers) BY <1>1, <1>5 DEF Handled
<1>8. /\ Len(o.headers) \in 0 .. 2 /\ \A k \in 1 .. Len(o.headers) : o.headers[k] \in SUBSET Flag
      /\ o.keep <=> c.state = "ESTABLISHED" /\ s.data # <<>>
  <2>1. o = Outcome(c, s) BY DEF Handled
  <2> QED BY <2>1, OutcomeShape
<1>9. PICK c2 : c2 = after[Len(o.headers)] OBVIOUS
<1>10. SameRecv(u, c2) BY <1>6, <1>7, <1>8, <1>9, HeadersRecv
<1>11. SameRecv(c1, c2) BY <1>6, <1>10 DEF SameRecv
<1>12. ASSUME c.state # "ESTABLISHED" \/ s.data = <<>> PROVE SameRecv(c, c2)
  <2>1. c1 = e BY <1>1, <1>8, <1>12
  <2> QED BY <1>4, <1>11, <2>1 DEF SameRecv
<1>13. ASSUME c.state = "ESTABLISHED", s.data # <<>> PROVE o.keep /\ SameRecv(Stored(e, s), c2)
  <2>1. c1 = Stored(e, s) BY <1>1, <1>8, <1>13
  <2> QED BY <1>8, <1>11, <1>13, <2>1
<1> QED BY <1>1, <1>2, <1>4, <1>9, <1>12, <1>13

\* What segment s makes of what c has received, when no ring is overrun.
Takes(c, s, c2) ==
  /\ c.state # "ESTABLISHED" \/ s.data = <<>> => SameRecv(c, c2)
  /\ c.state = "ESTABLISHED" /\ s.data # <<>> =>
       /\ SameRecv(c, Noted(c, s)) /\ Noted(c, s) \in Conn /\ SameRecv(Stored(Noted(c, s), s), c2)
       /\ Available(Stored(Noted(c, s), s)) <= TCP_BUFFER

(* The send ring and the headers after a segment was answered.             *)
LEMMA AnsweredSend ==
  ASSUME NEW h \in Host, NEW c \in Conn, NEW s \in Seg, NEW c2, NEW M, Answered(h, c, s, c2, M), SlotOK(h, c)
  PROVE  /\ c2 \in Conn /\ Kept(c, c2) /\ c2.send_head = c.send_head /\ c2.send_tail >= c.send_tail /\ c2.send_tail < SEQ_RANGE
         /\ c2.state = c.state \/ c2.state \notin {"SYN_SENT", "SYN_RECEIVED"}
         /\ Headers(h, c, M)
         /\ c2.state = "ESTABLISHED" => c.state \in {"SYN_SENT", "SYN_RECEIVED", "ESTABLISHED"}
         /\ Open(c2) /\ c.state # "SYN_RECEIVED" => Open(c)
<1>1. c2 \in Conn /\ Kept(c, c2) /\ c2.send_head = c.send_head BY DEF Answered
<1>2. c2.send_tail >= c.send_tail /\ c2.send_tail < SEQ_RANGE
  <2>1. PICK a : a = Seqn(s.ack - c.initial_seq - 1) OBVIOUS
  <2>2. PICK n \in Int : n = s.ack - c.initial_seq - 1
    <3>1. PICK x \in Num : x = s.ack BY DEF Seg
    <3>2. PICK y \in Num : y = c.initial_seq BY DEF Conn
    <3>3. x \in Int /\ y \in Int BY TcpSizes DEF Num
    <3> QED BY <3>1, <3>2, <3>3
  <2>3. a \in Num BY <2>1, <2>2, SeqnRange
  <2>4. PICK t \in Nat : t = c.send_tail /\ t < SEQ_RANGE BY DEF Conn, SlotOK
  <2>5. c2.send_tail = IF a > t THEN a ELSE t BY <2>1, <2>4 DEF Answered
  <2> QED BY <2>3, <2>4, <2>5, TcpSizes DEF Num
<1>3. c2.state = c.state \/ c2.state \notin {"SYN_SENT", "SYN_RECEIVED"} BY DEF Answered
<1>4. Headers(h, c, M)
  <2>1. \A m \in M : m.flags \in {{"ACK"}, {"RST"}, {"ACK", "FIN"}} BY DEF Answered
  <2>2. \A m \in M : "SYN" \notin m.flags BY <2>1
  <2> QED BY <2>2 DEF Answered, Headers
<1>5. c2.state = "ESTABLISHED" => c.state \in {"SYN_SENT", "SYN_RECEIVED", "ESTABLISHED"} BY DEF Answered
<1>6. Open(c2) /\ c.state # "SYN_RECEIVED" => Open(c) BY DEF Answered, Open
<1> QED BY <1>1, <1>2, <1>3, <1>4, <1>5, <1>6

(* A segment for an established connection: the bytes are those that come  *)
(* next.                                                                   *)
LEMMA AnsweredEst ==
  ASSUME NEW h \in Host, NEW c \in Conn, c.state = "ESTABLISHED", NEW s \in Seg, NEW c2, NEW M, Answered(h, c, s, c2, M),
         SlotOK(h, c), Takes(c, s, c2), NEW y \in Num, RecvOK(c, Off(c.ack, y)), DataOK(s, y),
         NEW l \in Nat, l < SEQ_RANGE, SegOK(s, y, l), s.seq = c.ack, 1 <= Off(c.ack, y)
  PROVE  SlotOK(h, c2) /\ (c2.state = "ESTABLISHED" => RecvOK(c2, Off(c2.ack, y)))
<1>1. PICK a \in Num : a = c.ack BY DEF Conn
<1>2. PICK e \in Nat : e = Off(a, y) BY OffFacts
<1>3. PICK n \in Nat : n = Len(s.data)
  <2>1. s.data \in Seq(Int) BY DEF Seg
  <2> QED BY <2>1
<1>4. "SYN" \notin s.flags BY <1>1, <1>2 DEF SegOK
<1>5. PICK f \in Nat : f = (IF "FIN" \in s.flags THEN 1 ELSE 0) OBVIOUS
<1>6. Acknowledged(s) = f + n
  <2>1. s.flags \cap {"SYN", "FIN"} # {} <=> "FIN" \in s.flags BY <1>4
  <2> QED BY <1>3, <1>5, <2>1 DEF Acknowledged
<1>7. e + f + n <= l
  <2>1. Off(s.seq, y) + Acknowledged(s) <= l BY DEF SegOK
  <2>2. e + (f + n) <= l BY <1>1, <1>2, <1>6, <2>1
  <2> QED BY <2>2
<1>8. SEQ_RANGE \in Nat /\ e + n < SEQ_RANGE BY <1>7, TcpSizes
<1>9. RecvOK(c2, e + n)
  <2>1. RecvOK(c, e) BY <1>1, <1>2
  <2>2. CASE s.data = <<>>
    <3>1. n = 0 BY <1>3, <2>2
    <3>2. SameRecv(c, c2) BY <2>2 DEF Takes
    <3>3. RecvOK(c2, e) BY <2>1, <3>2, RecvSame
    <3>4. e + n = e BY <3>1
    <3> QED BY <3>3, <3>4
  <2>3. CASE s.data # <<>>
    <3>1. PICK d : d = Noted(c, s) OBVIOUS
    <3>2. SameRecv(c, d) /\ d \in Conn /\ SameRecv(Stored(d, s), c2) /\ Available(Stored(d, s)) <= TCP_BUFFER
      BY <2>3, <3>1 DEF Takes
    <3>3. RecvOK(d, e) BY <2>1, <3>2, RecvSame
    <3>4. \A k \in 1 .. Len(s.data) : s.data[k] = e + k - 1 BY <1>1, <1>2 DEF DataOK
    <3>5. e + Len(s.data) <= SEQ_RANGE BY <1>3, <1>8
    <3>6. RecvOK(Stored(d, s), e + Len(s.data)) BY <3>2, <3>3, <3>4, <3>5, StoredRecv
    <3> QED BY <1>3, <3>2, <3>6, RecvSame
  <2> QED BY <2>2, <2>3
<1>10. /\ c2 \in Conn /\ c2.send_head = c.send_head /\ c2.send_tail >= c.send_tail /\ c2.send_tail < SEQ_RANGE
       /\ c2.state = c.state \/ c2.state \notin {"SYN_SENT", "SYN_RECEIVED"} BY AnsweredSend
<1>11. SlotOK(h, c2)
  <2>1. PICK u \in Nat, t \in Nat, t2 \in Nat : u = c.send_head /\ t = c.send_tail /\ t2 = c2.send_tail
    BY <1>10 DEF Conn
  <2>2. u <= MaxBytes[h] /\ u - t <= TCP_BUFFER /\ t <= t2 /\ TCP_BUFFER \in Nat
    BY <1>10, <2>1, TcpSizes DEF SlotOK
  <2>3. u - t2 <= TCP_BUFFER BY <2>2
  <2>4. \E x \in Nat : RecvOK(c2, x)
    <3>1. e + n \in Nat OBVIOUS
    <3> QED BY <1>9, <3>1
  <2>5. c2.state \notin {"SYN_SENT", "SYN_RECEIVED"} BY <1>10
  <2> QED BY <1>10, <2>1, <2>2, <2>3, <2>4, <2>5 DEF SlotOK
<1>12. ASSUME c2.state = "ESTABLISHED" PROVE Off(c2.ack, y) = e + n
  <2>1. "FIN" \notin s.flags BY <1>12 DEF Answered
  <2>2. f = 0 BY <1>5, <2>1
  <2>3. c2.ack = Seqn(a + n) BY <1>1, <1>6, <2>2 DEF Answered
  <2> QED BY <1>2, <1>8, <2>3, OffAdd
<1> QED BY <1>9, <1>11, <1>12

(* A segment for a connection that is not established: nothing is kept.    *)
LEMMA AnsweredNot ==
  ASSUME NEW h \in Host, NEW c \in Conn, c.state # "ESTABLISHED", NEW s \in Seg, NEW c2, NEW M, Answered(h, c, s, c2, M),
         SlotOK(h, c), Takes(c, s, c2)
  PROVE  SlotOK(h, c2) /\ (c2.state = "ESTABLISHED" => Available(c2) = 0 /\ c2.got = <<>>)
<1>1. SameRecv(c, c2) BY DEF Takes
<1>2. SlotOK(h, c2) BY <1>1, AnsweredSend, SlotSame
<1>3. ASSUME c2.state = "ESTABLISHED" PROVE Available(c2) = 0 /\ c2.got = <<>>
  <2>1. c.state \in {"SYN_SENT", "SYN_RECEIVED"} BY <1>3, AnsweredSend
  <2>2. Available(c) = 0 /\ c.got = <<>> BY <2>1 DEF SlotOK
  <2> QED BY <1>1, <2>2, RecvSame
<1> QED BY <1>2, <1>3

(* tcp_on_data, at the client.                                             *)
LEMMA ClientStream ==
  ASSUME NEW G, NEW N, NEW p, NEW i, NEW c, NEW s, Arrives(G, N, p, FALSE, Client, i, c, s), Expected(c, s), StreamInv(G, N),
         NEW c2, NEW M, Answered(Client, c, s, c2, M), Takes(c, s, c2)
  PROVE  StreamInv([G EXCEPT ![Client] = [G[Client] EXCEPT ![i] = c2]], N \cup M)
<1>1. /\ ConnsInv(G, N, p, FALSE) /\ i \in TcpSlot /\ c = G[Client][i] /\ c.port # 0
      /\ s \in N /\ s.to = Client /\ s.port = c.port BY DEF Arrives
<1>2. c \in Conn /\ c.state # "CLOSED" /\ c.state # "SYN_RECEIVED" BY <1>1, ClientFacts
<1>3. s \in Seg /\ Client \in Host BY <1>1, TcpSizes DEF ConnsInv
<1>4. SlotOK(Client, c) BY <1>1, <1>3 DEF StreamInv
<1>5. /\ c2 \in Conn /\ Kept(c, c2) /\ Headers(Client, c, M) /\ (Open(c2) => Open(c))
      /\ c2.state = "ESTABLISHED" => c.state \in {"SYN_SENT", "SYN_RECEIVED", "ESTABLISHED"}
  BY <1>2, <1>3, <1>4, AnsweredSend
<1>6. c2 # Unclaimed BY <1>5, UnclaimedType DEF Kept
<1>7. SlotOK(Client, c2) /\ \A j \in TcpSlot : Open(c2) /\ G[Server][j].port = c.port /\ c2.state = "ESTABLISHED" =>
        RecvOK(c2, Off(c2.ack, G[Server][j].initial_seq))
  <2>1. CASE c.state = "ESTABLISHED"
    <3>1. Open(c) BY <2>1 DEF Open
    <3>2. PairSlot(G[Server], N, c) BY <1>1, <3>1 DEF ConnsInv, PairInv
    <3>3. ASSUME NEW j \in TcpSlot, G[Server][j].port = c.port
          PROVE  SlotOK(Client, c2) /\ (c2.state = "ESTABLISHED" => RecvOK(c2, Off(c2.ack, G[Server][j].initial_seq)))
      <4>1. PICK d : d = G[Server][j] OBVIOUS
      <4>2. d \in Conn /\ d.state # "CLOSED" BY <1>1, <3>3, <4>1, ServerFacts
      <4>3. PairOK(c, d) /\ ToClientOK(c, d, s) BY <1>1, <3>2, <3>3, <4>1 DEF PairSlot
      <4>4. PairStream(N, c, d) BY <1>1, <3>1, <3>3, <4>1 DEF StreamInv
      <4>5. PICK y \in Num : y = d.initial_seq BY <4>2 DEF Conn
      <4>6. RecvOK(c, Off(c.ack, y)) /\ DataOK(s, y) BY <1>1, <2>1, <4>4, <4>5 DEF PairStream
      <4>7. PICK l \in Nat : l = Off(d.seq, y) /\ l < SEQ_RANGE
        <5>1. d.seq \in Num BY <4>2 DEF Conn
        <5> QED BY <5>1, OffFacts
      <4>8. SegOK(s, y, l) BY <4>3, <4>5, <4>7 DEF ToClientOK
      <4>9. s.seq = c.ack BY <2>1 DEF Expected
      <4>10. 1 <= Off(c.ack, y) BY <2>1, <4>3, <4>5 DEF PairOK
      <4>11. SlotOK(Client, c2) /\ (c2.state = "ESTABLISHED" => RecvOK(c2, Off(c2.ack, y)))
        BY <1>2, <1>3, <1>4, <2>1, <4>6, <4>7, <4>8, <4>9, <4>10, AnsweredEst
      <4> QED BY <4>1, <4>5, <4>11
    <3>4. \E j \in TcpSlot : G[Server][j].port = c.port BY <2>1, <3>2 DEF PairSlot
    <3> QED BY <3>3, <3>4
  <2>2. CASE c.state # "ESTABLISHED"
    <3>1. SlotOK(Client, c2) /\ (c2.state = "ESTABLISHED" => Available(c2) = 0 /\ c2.got = <<>>)
      BY <1>2, <1>3, <1>4, <2>2, AnsweredNot
    <3>2. ASSUME NEW j \in TcpSlot, G[Server][j].port = c.port, c2.state = "ESTABLISHED"
          PROVE  RecvOK(c2, Off(c2.ack, G[Server][j].initial_seq))
      <4>1. PICK H : H = [G EXCEPT ![Client] = [G[Client] EXCEPT ![i] = c2]] OBVIOUS
      <4>2. ConnsInv(H, N \cup M, p, FALSE) BY <4>1, OnDataClient
      <4>3. H[Client][i] = c2 /\ H[Server] = G[Server]
        <5>1. G \in Conns BY <1>1 DEF ConnsInv
        <5> QED BY <1>1, <4>1, <5>1, TcpSizes DEF Conns
      <4>4. Open(c2) BY <3>2 DEF Open
      <4>5. PairSlot(G[Server], N \cup M, c2) BY <1>1, <4>2, <4>3, <4>4 DEF ConnsInv, PairInv
      <4>6. c2.port = c.port BY <1>5 DEF Kept
      <4>7. PairOK(c2, G[Server][j]) BY <3>2, <4>5, <4>6 DEF PairSlot
      <4>8. 1 <= Off(c2.ack, G[Server][j].initial_seq) BY <3>2, <4>7 DEF PairOK
      <4>9. G[Server][j] \in Conn BY <1>1, <3>2, ServerFacts
      <4>10. Off(c2.ack, G[Server][j].initial_seq) \in Nat
        <5>1. c2.ack \in Num /\ G[Server][j].initial_seq \in Num BY <1>5, <4>9 DEF Conn
        <5> QED BY <5>1, OffFacts
      <4> QED BY <3>1, <3>2, <4>8, <4>10, RecvNothing
    <3> QED BY <3>1, <3>2
  <2> QED BY <2>1, <2>2
<1> QED BY <1>1, <1>5, <1>6, <1>7, StreamClientSlot

(* tcp_on_data, at the server.                                             *)
LEMMA ServerSideStream ==
  ASSUME NEW G, NEW N, NEW p, NEW j, NEW d, NEW s, Arrives(G, N, p, FALSE, Server, j, d, s), Expected(d, s), StreamInv(G, N),
         NEW d2, NEW M, Answered(Server, d, s, d2, M), Takes(d, s, d2)
  PROVE  StreamInv([G EXCEPT ![Server] = [G[Server] EXCEPT ![j] = d2]], N \cup M)
<1>1. /\ ConnsInv(G, N, p, FALSE) /\ j \in TcpSlot /\ d = G[Server][j] /\ d.port # 0
      /\ s \in N /\ s.to = Server /\ s.port = d.port BY DEF Arrives
<1>2. d \in Conn /\ d.state # "CLOSED" /\ d.state # "SYN_SENT" BY <1>1, ServerFacts
<1>3. s \in Seg /\ Server \in Host BY <1>1, TcpSizes DEF ConnsInv
<1>4. SlotOK(Server, d) BY <1>1, <1>3 DEF StreamInv
<1>5. d2 \in Conn /\ Kept(d, d2) /\ Headers(Server, d, M) BY <1>2, <1>3, <1>4, AnsweredSend
<1>6. d2 # Unclaimed BY <1>5, UnclaimedType DEF Kept
<1>7. SlotOK(Server, d2) /\ \A x \in Num : Starts(N, d.port, x) /\ d2.state = "ESTABLISHED" => RecvOK(d2, Off(d2.ack, x))
  <2>0. ServerStream(N, d) BY <1>1 DEF StreamInv
  <2>1. CASE d.state = "ESTABLISHED"
    <3>1. ASSUME NEW x \in Num, Starts(N, d.port, x)
          PROVE  SlotOK(Server, d2) /\ (d2.state = "ESTABLISHED" => RecvOK(d2, Off(d2.ack, x)))
      <4>1. PICK l \in Nat : l = MaxBytes[Client] + 3 /\ l < SEQ_RANGE BY TcpSizes
      <4>2. SegOK(s, x, l) /\ 1 <= Off(d.ack, x) BY <1>1, <3>1, <4>1, StartFacts
      <4>3. RecvOK(d, Off(d.ack, x)) BY <2>0, <2>1, <3>1 DEF ServerStream
      <4>4. DataOK(s, x) BY <1>1, <3>1 DEF StreamInv
      <4>5. s.seq = d.ack BY <2>1 DEF Expected
      <4> QED BY <1>2, <1>3, <1>4, <2>1, <4>1, <4>2, <4>3, <4>4, <4>5, AnsweredEst
    <3>2. \E x \in Num : Starts(N, d.port, x) BY <2>0 DEF ServerStream
    <3> QED BY <3>1, <3>2
  <2>2. CASE d.state # "ESTABLISHED"
    <3>1. SlotOK(Server, d2) /\ (d2.state = "ESTABLISHED" => Available(d2) = 0 /\ d2.got = <<>>)
      BY <1>2, <1>3, <1>4, <2>2, AnsweredNot
    <3>2. ASSUME NEW x \in Num, Starts(N, d.port, x), d2.state = "ESTABLISHED"
          PROVE  RecvOK(d2, Off(d2.ack, x))
      <4>1. PICK H : H = [G EXCEPT ![Server] = [G[Server] EXCEPT ![j] = d2]] OBVIOUS
      <4>2. ConnsInv(H, N \cup M, p, FALSE) BY <4>1, OnDataServer
      <4>3. H[Server][j] = d2
        <5>1. G \in Conns BY <1>1 DEF ConnsInv
        <5> QED BY <1>1, <4>1, <5>1, TcpSizes DEF Conns
      <4>4. Starts(N \cup M, d.port, x) BY <3>2 DEF Starts
      <4>5. d2.port = d.port BY <1>5 DEF Kept
      <4>6. 1 <= Off(d2.ack, x) BY <1>1, <4>2, <4>3, <4>4, <4>5, StartFacts
      <4>7. Off(d2.ack, x) \in Nat
        <5>1. d2.ack \in Num BY <1>5 DEF Conn
        <5> QED BY <5>1, OffFacts
      <4> QED BY <3>1, <3>2, <4>6, <4>7, RecvNothing
    <3> QED BY <3>1, <3>2
  <2> QED BY <2>1, <2>2
<1> QED BY <1>1, <1>5, <1>6, <1>7, StreamServerSlot

(* tcp_on_data keeps the streams.                                          *)
LEMMA OnDataStream ==
  ASSUME TcpInv, ~halfopen, StreamInv(g_active_sockets, tcpNet), NEW h \in Host, NEW i \in TcpSlot, NEW s \in tcpNet,
         tcp_on_data(h, i, s), ~overrun'
  PROVE  StreamInv(g_active_sockets', tcpNet')
<1>0. PICK G, N, p : G = g_active_sockets /\ N = tcpNet /\ p = port OBVIOUS
<1>1. ConnsInv(G, N, p, FALSE) /\ StreamInv(G, N)
  <2>1. ConnsInv(G, N, p, halfopen) BY <1>0 DEF TcpInv
  <2> QED BY <1>0, <2>1 DEF ConnsInv
<1>2. PICK c : c = G[h][i] OBVIOUS
<1>3. PICK o : o = Outcome(c, s) OBVIOUS
<1>4. PICK after : after = (LET c1 == IF o.keep THEN Stored(Noted(c, s), s) ELSE Noted(c, s)
                          IN  AfterHeaders([c1 EXCEPT !.state = o.state], o.headers)) OBVIOUS
<1>5. PICK c2 : c2 = (IF o.state = "gone" THEN Unclaimed ELSE after[Len(o.headers)]) OBVIOUS
<1>6. PICK M : M = {Segment(h, after[n - 1], o.headers[n], <<>>) : n \in 1 .. Len(o.headers)} OBVIOUS
<1>7. PICK cs : cs = [G[h] EXCEPT ![i] = c2] OBVIOUS
<1>8. PICK opened \in BOOLEAN : opened = (o.state = "ESTABLISHED" /\ c.state # "ESTABLISHED") OBVIOUS
<1>9. /\ s.to = h /\ c.port = s.port /\ c.port # 0 /\ ("RST" \in s.flags \/ Expected(c, s))
      /\ g_active_sockets' = [G EXCEPT ![h] = IF opened THEN AfterFlush(cs) ELSE cs]
      /\ tcpNet' = N \cup M \cup (IF opened THEN Flushed(h, cs) ELSE {})
      /\ o.keep => ~(Available(Stored(Noted(c, s), s)) > TCP_BUFFER)
  <2>1. s.to = h /\ c.port = s.port /\ c.port # 0 /\ ("RST" \in s.flags \/ Expected(c, s))
    BY <1>0, <1>2 DEF tcp_on_data
  <2> DEFINE e == g_active_sockets[h][i]
             u == Outcome(e, s)
             e1 == IF u.keep THEN Stored(Noted(e, s), s) ELSE Noted(e, s)
             f == AfterHeaders([e1 EXCEPT !.state = u.state], u.headers)
             D == [g_active_sockets[h] EXCEPT ![i] = IF u.state = "gone" THEN Unclaimed ELSE f[Len(u.headers)]]
             fresh == u.state = "ESTABLISHED" /\ e.state # "ESTABLISHED"
  <2>2. ~(Available(e1) > TCP_BUFFER) BY DEF tcp_on_data
  <2>3. g_active_sockets' = [g_active_sockets EXCEPT ![h] = IF fresh THEN AfterFlush(D) ELSE D]
    BY DEF tcp_on_data
  <2>4. tcpNet' = tcpNet \cup {Segment(h, f[n - 1], u.headers[n], <<>>) : n \in 1 .. Len(u.headers)}
                         \cup (IF fresh THEN Flushed(h, D) ELSE {}) BY DEF tcp_on_data
  <2>5. e = c /\ u = o BY <1>0, <1>2, <1>3
  <2> HIDE DEF e, u
  <2>5a. o.keep => ~(Available(Stored(Noted(c, s), s)) > TCP_BUFFER) BY <2>2, <2>5
  <2>6. f = after BY <1>4, <2>5
  <2> HIDE DEF f
  <2>7. D = cs BY <1>0, <1>5, <1>7, <2>5, <2>6
  <2>8. fresh = opened BY <1>8, <2>5
  <2> HIDE DEF D, fresh
  <2>9. g_active_sockets' = [G EXCEPT ![h] = IF opened THEN AfterFlush(cs) ELSE cs]
    BY <1>0, <2>3, <2>7, <2>8
  <2>10. tcpNet' = N \cup M \cup (IF opened THEN Flushed(h, cs) ELSE {})
    BY <1>0, <1>6, <2>4, <2>5, <2>6, <2>7, <2>8, Zenon
  <2> QED BY <2>1, <2>5a, <2>9, <2>10
<1>10. G \in Conns /\ c \in Conn /\ G[h] \in [TcpSlot -> Conn] /\ c.state # "CLOSED"
  BY <1>1, <1>2, <1>9, SlotsOf
<1>11. s \in N /\ s \in Seg BY <1>0, <1>1 DEF ConnsInv
<1>12. Handled(h, c, s, o, after, M) BY <1>3, <1>4, <1>6 DEF Handled
<1>13. \/ /\ o.state = "gone" /\ o.headers = <<>>
          /\ "RST" \in s.flags \/ (c.state \in {"TIME_WAIT", "LAST_ACK"} /\ "ACK" \in s.flags)
       \/ o.state # "gone" /\ Answered(h, c, s, after[Len(o.headers)], M) /\ o.state = after[Len(o.headers)].state
  BY <1>10, <1>11, <1>12, OnDataResult
<1>14. Arrives(G, N, p, FALSE, h, i, c, s) BY <1>1, <1>2, <1>9, <1>11 DEF Arrives
<1>15. ConnsInv([G EXCEPT ![h] = cs], N \cup M, p, FALSE) /\ StreamInv([G EXCEPT ![h] = cs], N \cup M)
  <2>1. CASE o.state = "gone"
    <3>1. c2 = Unclaimed /\ M = {} BY <1>5, <1>6, <1>13, <2>1
    <3>2. "RST" \in s.flags \/ (c.state \in {"TIME_WAIT", "LAST_ACK"} /\ "ACK" \in s.flags) BY <1>13, <2>1
    <3>3. ConnsInv([G EXCEPT ![h] = [G[h] EXCEPT ![i] = Unclaimed]], N, p, FALSE)
      BY <1>9, <1>14, <3>2, OnDataGone
    <3>4. N \cup M = N BY <3>1
    <3>5. c2 \in Conn /\ ~Open(c2) /\ SlotOK(h, c2) BY <3>1, UnclaimedType, UnclaimedSlot
    <3>6. Headers(h, c, M) BY <3>1 DEF Headers
    <3>7. StreamInv([G EXCEPT ![h] = [G[h] EXCEPT ![i] = c2]], N \cup M)
      BY <1>1, <1>2, <1>9, <3>1, <3>5, <3>6, StreamKept
    <3> QED BY <1>7, <3>1, <3>3, <3>4, <3>7
  <2>2. CASE o.state # "gone"
    <3>1. Answered(h, c, s, c2, M) /\ o.state = c2.state BY <1>5, <1>13, <2>2
    <3>2. Expected(c, s) /\ "RST" \notin s.flags BY <1>9, <3>1 DEF Answered
    <3>3. Takes(c, s, c2)
      <4>1. PICK st \in ConnState : o.state = st BY <3>1 DEF Answered, Conn
      <4>2. c2 = after[Len(o.headers)] BY <1>5, <2>2
      <4>3. /\ c.state # "ESTABLISHED" \/ s.data = <<>> => SameRecv(c, c2)
            /\ c.state = "ESTABLISHED" /\ s.data # <<>> =>
                  o.keep /\ SameRecv(c, Noted(c, s)) /\ Noted(c, s) \in Conn /\ SameRecv(Stored(Noted(c, s), s), c2)
        BY <1>10, <1>11, <1>12, <3>2, <4>1, <4>2, HandledRecv
      <4>4. ASSUME c.state = "ESTABLISHED", s.data # <<>> PROVE Available(Stored(Noted(c, s), s)) <= TCP_BUFFER
        <5>1. PICK d : d = Stored(Noted(c, s), s) OBVIOUS
        <5>2. o.keep /\ Noted(c, s) \in Conn BY <4>3, <4>4
        <5>3. d \in Conn BY <1>11, <5>1, <5>2, StoredFields
        <5>4. Available(d) \in Nat BY <5>3, AvailableFacts
        <5>5. ~(Available(d) > TCP_BUFFER) BY <1>9, <5>1, <5>2
        <5>6. Available(d) <= TCP_BUFFER BY <5>4, <5>5, TcpSizes
        <5> QED BY <5>1, <5>6
      <4> QED BY <4>3, <4>4 DEF Takes
    <3>4. CASE h = Client
      <4>1. ConnsInv([G EXCEPT ![Client] = [G[Client] EXCEPT ![i] = c2]], N \cup M, p, FALSE)
        BY <1>14, <3>1, <3>2, <3>4, OnDataClient
      <4>2. StreamInv([G EXCEPT ![Client] = [G[Client] EXCEPT ![i] = c2]], N \cup M)
        BY <1>1, <1>14, <3>1, <3>2, <3>3, <3>4, ClientStream
      <4> QED BY <1>7, <3>4, <4>1, <4>2
    <3>5. CASE h = Server
      <4>1. ConnsInv([G EXCEPT ![Server] = [G[Server] EXCEPT ![i] = c2]], N \cup M, p, FALSE)
        BY <1>14, <3>1, <3>2, <3>5, OnDataServer
      <4>2. StreamInv([G EXCEPT ![Server] = [G[Server] EXCEPT ![i] = c2]], N \cup M)
        BY <1>1, <1>14, <3>1, <3>2, <3>3, <3>5, ServerSideStream
      <4> QED BY <1>7, <3>5, <4>1, <4>2
    <3> QED BY <3>4, <3>5 DEF Host
  <2> QED BY <2>1, <2>2
<1>16. CASE opened
  <2>1. PICK H : H = [G EXCEPT ![h] = cs] OBVIOUS
  <2>2. H[h] = cs /\ [H EXCEPT ![h] = AfterFlush(cs)] = [G EXCEPT ![h] = AfterFlush(cs)]
    BY <1>10, <2>1 DEF Conns
  <2>3. StreamInv([H EXCEPT ![h] = AfterFlush(H[h])], (N \cup M) \cup Flushed(h, H[h]))
    BY <1>15, <2>1, StreamFlush
  <2>4. StreamInv([G EXCEPT ![h] = AfterFlush(cs)], (N \cup M) \cup Flushed(h, cs)) BY <2>2, <2>3
  <2> QED BY <1>9, <1>16, <2>4
<1>17. CASE ~opened
  <2>1. g_active_sockets' = [G EXCEPT ![h] = cs] /\ tcpNet' = N \cup M BY <1>9, <1>17
  <2> QED BY <1>15, <2>1
<1> QED BY <1>16, <1>17

(* Every step keeps the streams.                                           *)
LEMMA StreamStep ==
  ASSUME TcpInv, TcpInv', TcpStreamInv, [TcpNext]_tcpVars
  PROVE  TcpStreamInv'
<1>1. overrun' \in BOOLEAN /\ (overrun => overrun') /\ (halfopen => halfopen')
  <2>1. halfopen \in BOOLEAN /\ overrun \in BOOLEAN BY DEF TcpInv, TcpStreamInv
  <2>2. CASE UNCHANGED tcpVars BY <2>1, <2>2 DEF tcpVars
  <2>3. ASSUME NEW iss \in InitialSeqs, tcp_active(iss) PROVE overrun' = overrun /\ halfopen' = halfopen
    BY <2>3 DEF tcp_active
  <2>4. ASSUME tcp_passive PROVE overrun' = overrun /\ halfopen' = halfopen BY <2>4 DEF tcp_passive
  <2>5. ASSUME tcp_accept PROVE overrun' = overrun /\ (halfopen => halfopen') BY <2>5 DEF tcp_accept
  <2>6. ASSUME NEW h \in Host, NEW i \in TcpSlot, tcp_terminate_connection(h, i) PROVE overrun' = overrun /\ halfopen' = halfopen
    BY <2>6 DEF tcp_terminate_connection
  <2>7. ASSUME NEW h \in Host, NEW i \in TcpSlot, tcp_receive(h, i) PROVE overrun' = overrun /\ halfopen' = halfopen
    BY <2>7 DEF tcp_receive
  <2>8. ASSUME NEW h \in Host, NEW i \in TcpSlot, NEW len \in 1 .. MaxBytes[h], tcp_send(h, i, len)
        PROVE  overrun' \in BOOLEAN /\ (overrun => overrun') /\ halfopen' = halfopen
    <3>1. \E B \in BOOLEAN : overrun' = (overrun \/ B) /\ halfopen' = halfopen BY <2>8 DEF tcp_send
    <3> QED BY <2>1, <3>1
  <2>9. ASSUME NEW h \in Host, NEW i \in TcpSlot, NEW s \in tcpNet, tcp_on_data(h, i, s)
        PROVE  overrun' \in BOOLEAN /\ (overrun => overrun') /\ halfopen' = halfopen
    <3>1. \E B \in BOOLEAN : overrun' = (overrun \/ B) /\ halfopen' = halfopen BY <2>9 DEF tcp_on_data
    <3> QED BY <2>1, <3>1
  <2>10. ASSUME NEW s \in tcpNet, NEW iss \in InitialSeqs, NEW id \in RandomIds, Incoming(s, iss, id)
         PROVE  overrun' = overrun /\ halfopen' = halfopen BY <2>10 DEF Incoming
  <2> QED BY <2>1, <2>2, <2>3, <2>4, <2>5, <2>6, <2>7, <2>8, <2>9, <2>10 DEF TcpNext
<1>2. ASSUME ~overrun', ~halfopen' PROVE StreamInv(g_active_sockets', tcpNet')
  <2>1. ~overrun' /\ ~halfopen /\ StreamInv(g_active_sockets, tcpNet) BY <1>1, <1>2 DEF TcpStreamInv
  <2>2. CASE UNCHANGED tcpVars BY <2>1, <2>2 DEF tcpVars
  <2>3. ASSUME NEW iss \in InitialSeqs, tcp_active(iss) PROVE StreamInv(g_active_sockets', tcpNet')
    BY <2>1, <2>3, ActiveStream
  <2>4. ASSUME tcp_passive PROVE StreamInv(g_active_sockets', tcpNet') BY <2>1, <2>4 DEF tcp_passive
  <2>5. ASSUME tcp_accept PROVE StreamInv(g_active_sockets', tcpNet') BY <2>1, <2>5, AcceptStream
  <2>6. ASSUME NEW h \in Host, NEW i \in TcpSlot, tcp_terminate_connection(h, i) PROVE StreamInv(g_active_sockets', tcpNet')
    BY <2>1, <2>6, TerminateStream
  <2>7. ASSUME NEW h \in Host, NEW i \in TcpSlot, tcp_receive(h, i) PROVE StreamInv(g_active_sockets', tcpNet')
    BY <2>1, <2>7, ReceiveStream
  <2>8. ASSUME NEW h \in Host, NEW i \in TcpSlot, NEW len \in 1 .. MaxBytes[h], tcp_send(h, i, len)
        PROVE  StreamInv(g_active_sockets', tcpNet') BY <2>1, <2>8, SendStream
  <2>9. ASSUME NEW h \in Host, NEW i \in TcpSlot, NEW s \in tcpNet, tcp_on_data(h, i, s)
        PROVE  StreamInv(g_active_sockets', tcpNet') BY <2>1, <2>9, OnDataStream
  <2>10. ASSUME NEW s \in tcpNet, NEW iss \in InitialSeqs, NEW id \in RandomIds, Incoming(s, iss, id)
         PROVE  StreamInv(g_active_sockets', tcpNet') BY <2>1, <2>10, IncomingStream
  <2> QED BY <2>2, <2>3, <2>4, <2>5, <2>6, <2>7, <2>8, <2>9, <2>10 DEF TcpNext
<1> QED BY <1>1, <1>2 DEF TcpStreamInv

(* Nothing is received at first.                                           *)
LEMMA StreamStart == TcpInit => TcpStreamInv
<1> SUFFICES ASSUME TcpInit PROVE TcpStreamInv OBVIOUS
<1>1. PICK G, N : G = g_active_sockets /\ N = tcpNet OBVIOUS
<1>2. G = [h \in Host |-> [i \in TcpSlot |-> Unclaimed]] /\ N = {} /\ overrun = FALSE BY <1>1 DEF TcpInit
<1>3. \A h \in Host, i \in TcpSlot : G[h][i] = Unclaimed BY <1>2
<1>4. \A h \in Host, i \in TcpSlot : SlotOK(h, G[h][i]) /\ G[h][i].port = 0 /\ ~Open(G[h][i])
  BY <1>3, UnclaimedSlot, UnclaimedType
<1>5. StreamInv(G, N) BY <1>2, <1>4, TcpSizes DEF StreamInv
<1> QED BY <1>1, <1>2, <1>5 DEF TcpStreamInv

(* What the streams are for.                                               *)
LEMMA StreamUse == TcpInv /\ TcpStreamInv => StreamContiguous
<1> SUFFICES ASSUME TcpInv, TcpStreamInv, ~overrun, ~halfopen
             PROVE  \A h \in Host, i \in TcpSlot :
                      \A k \in 1 .. Len(g_active_sockets[h][i].got) - 1 :
                        g_active_sockets[h][i].got[k + 1] = g_active_sockets[h][i].got[k] + 1
  BY DEF StreamContiguous
<1> TAKE h \in Host, i \in TcpSlot
<1> TAKE k \in 1 .. Len(g_active_sockets[h][i].got) - 1
<1>0. PICK g : g = g_active_sockets[h][i].got /\ k \in 1 .. Len(g) - 1 OBVIOUS
<1>1. PICK c : c = g_active_sockets[h][i] OBVIOUS
<1>2. c \in Conn
  <2>1. ConnsInv(g_active_sockets, tcpNet, port, halfopen) BY DEF TcpInv
  <2> QED BY <1>1, <2>1, SlotsOf
<1>3. SlotOK(h, c) BY <1>1 DEF TcpStreamInv, StreamInv
<1>4. PICK e \in Nat : RecvOK(c, e) BY <1>3 DEF SlotOK
<1>5. PICK n \in Nat : n = Available(c) BY <1>2, AvailableFacts
<1>6. PICK l \in Nat : l = Len(g)
  <2>1. g \in Seq(Int) BY <1>0, <1>1, <1>2 DEF Conn
  <2> QED BY <2>1
<1>7. \A m \in 1 .. l : g[m] = e - n - l + m - 1 BY <1>0, <1>1, <1>4, <1>5, <1>6 DEF RecvOK
<1>8. k \in 1 .. l /\ k + 1 \in 1 .. l BY <1>0, <1>6
<1>9. g[k] = e - n - l + k - 1 /\ g[k + 1] = e - n - l + (k + 1) - 1 BY <1>7, <1>8
<1>10. g[k + 1] = g[k] + 1 BY <1>8, <1>9
<1> QED BY <1>0, <1>10

(* Whatever the network loses, repeats or reorders, the bytes a program    *)
(* receives on a connection follow each other in the order they were sent, *)
(* none twice and none missing in between, as long as no ring is overrun   *)
(* and no half open connection is given out: for any number of             *)
(* connections, buffer size, range of the numbers and amount of data below *)
(* that range (tcp_on_data, tcp_send, tcp_send_buffered_data,              *)
(* tcp_receive).                                                           *)
THEOREM TcpStreamsContiguous == TcpSpec => []StreamContiguous
<1>1. TcpInit => TcpInv /\ TcpStreamInv BY TcpStart, StreamStart
<1>2. TcpInv /\ TcpStreamInv /\ [TcpNext]_tcpVars => (TcpInv /\ TcpStreamInv)' BY TcpStep, StreamStep
<1>3. TcpInv /\ TcpStreamInv => StreamContiguous BY StreamUse
<1> QED BY <1>1, <1>2, <1>3, PTL DEF TcpSpec
=============================================================================
