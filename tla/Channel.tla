------------------------------ MODULE Channel ------------------------------
(***************************************************************************)
(* Servers, channels and handles: kernel/ipc/channel.c, kernel/ipc/handle.c*)
(* and the IPC system calls of kernel/cpu/syscall.c.                       *)
(*                                                                         *)
(* A channel is two pipes, one per direction; side 0 is the process that   *)
(* connected, side 1 the one that accepted.  A system call is one step up  *)
(* to schedule() and one step after it.  Calls that return an error and    *)
(* change nothing are left out.  What the timer can do to the second half  *)
(* of a call is in module Pipe.                                            *)
(***************************************************************************)
EXTENDS PipeBuffer, FiniteSets

CONSTANTS
  Proc, NoProc,     \* processes by their pid; pid 0
  Task, NoTask,
  OwnerOf,          \* task -> its process
  Name, NoName,     \* server identifiers (hashes); 0
  MAX_SERVERS,      \* 32
  MAX_PENDING,      \* 16
  MAX_HANDLES,      \* 128
  Serving,          \* the processes that create servers and accept
  Connecting,       \* the processes that connect
  MaxChannels,      \* bound: connections
  MaxBytes,         \* bound: bytes stored in one direction of a channel
  MaxLen            \* bound: bytes of one send or receive

ASSUME ChannelAssumption ==
  /\ NoProc \notin Proc /\ NoTask \notin Task /\ NoName \notin Name
  /\ OwnerOf \in [Task -> Proc]
  /\ {MAX_SERVERS, MAX_PENDING, MAX_HANDLES} \subseteq Nat \ {0}
  /\ Serving \subseteq Proc /\ Connecting \subseteq Proc
  /\ {MaxChannels, MaxBytes, MaxLen} \subseteq Nat
  /\ 1 .. MaxBytes \subseteq Byte

VARIABLES
  s_servers,  \* [identifier, listener, incoming], incoming a queue of channels
  channels,   \* the channels that were created: [pids, p, listeners, is_closed]
  handles,    \* process -> its handle table: [type, ptr]
  state,      \* task->state
  pc,         \* where a task is: [at, arg, len]
  exited,     \* processes that exited
  sent,       \* history: channel -> side -> number of bytes stored
  rcvd        \* history: channel -> side -> the bytes its peer received

chanVars == <<s_servers, channels, handles, state, pc, exited, sent, rcvd>>

Side == {0, 1}
Server == 0 .. MAX_SERVERS - 1
Handle == 0 .. MAX_HANDLES - 1
None == [type |-> "none", ptr |-> 0]
User == [at |-> "user", arg |-> 0, len |-> 0]

Init ==
  /\ s_servers = [h \in Server |->
       [identifier |-> NoName, listener |-> NoTask, incoming |-> <<>>]]
  /\ channels = <<>>
  /\ handles = [q \in Proc |-> [h \in Handle |-> None]]
  /\ state = [t \in Task |-> "ready"]
  /\ pc = [t \in Task |-> User]
  /\ exited = {}
  /\ sent = <<>> /\ rcvd = <<>>

InUser(t) == state[t] = "ready" /\ pc[t].at = "user"
Resumed(t, call) == state[t] = "ready" /\ pc[t].at = call
Return(t) == pc' = [pc EXCEPT ![t] = User]

\* t blocks in call; schedule() picks another task.
Block(t, call, arg, len) ==
  /\ state' = [state EXCEPT ![t] = "blocked"]
  /\ pc' = [pc EXCEPT ![t] = [at |-> call, arg |-> arg, len |-> len]]

\* task_set_ready of the tasks in T; NoTask stands for an empty slot.
wake(T) ==
  [t \in Task |-> IF t \in T /\ state[t] = "blocked" THEN "ready" ELSE state[t]]

-----------------------------------------------------------------------------
(* Handles.                                                                *)

FreeHandles(q) == {h \in Handle : handles[q][h] = None}
FirstFree(q) == CHOOSE h \in FreeHandles(q) : \A k \in FreeHandles(q) : h <= k

\* With a full table the caller gets -1 and the object stays without a handle.
handle_alloc(q, type, ptr) ==
  IF FreeHandles(q) = {} THEN handles
  ELSE [handles EXCEPT ![q][FirstFree(q)] = [type |-> type, ptr |-> ptr]]

\* The channels a process has a handle of.
Held(q) == {handles[q][h].ptr : h \in {k \in Handle : handles[q][k].type = "channel"}}

\* SYS_PIPE: when only one handle is free it stays taken although the call
\* fails.  The pipe itself is in module Pipe.
SYS_PIPE(t) ==
  LET q == OwnerOf[t]
      one == handle_alloc(q, "pipe_read", 0)
      rest == {h \in Handle : one[q][h] = None}
  IN  /\ InUser(t) /\ FreeHandles(q) # {}
      /\ handles' = IF rest = {} THEN one
                    ELSE [one EXCEPT ![q][CHOOSE h \in rest : \A k \in rest : h <= k]
                                       = [type |-> "pipe_write", ptr |-> 0]]
      /\ UNCHANGED <<s_servers, channels, state, pc, exited, sent, rcvd>>

-----------------------------------------------------------------------------
(* Servers.                                                                *)

Registered(name) == {h \in Server : s_servers[h].identifier = name}

\* The creator becomes the listener at once, without blocking.
ipc_server(t, name) ==
  /\ InUser(t) /\ OwnerOf[t] \in Serving
  /\ Registered(name) = {} /\ Registered(NoName) # {}
  /\ LET h == CHOOSE h \in Registered(NoName) :
                \A k \in Registered(NoName) : h <= k
     IN  s_servers' = [s_servers EXCEPT ![h].identifier = name,
                                        ![h].listener = t]
  /\ UNCHANGED <<channels, handles, state, pc, exited, sent, rcvd>>

\* Mutant: the first of the queue stays there.
dequeue_incomming_keep(h) == s_servers

dequeue_incomming(h) == [s_servers EXCEPT ![h].incoming = Tail(@)]

\* The caller becomes side 1 of the first channel of the queue.
TakeFirst(t, h) ==
  LET c == Head(s_servers[h].incoming)
  IN  /\ s_servers[h].incoming # <<>>
      /\ s_servers' = dequeue_incomming(h)
      /\ channels' = [channels EXCEPT ![c].pids[1] = OwnerOf[t]]
      /\ handles' = handle_alloc(OwnerOf[t], "channel", c)

\* ipc_accept and ipc_accept_nb when a connection is waiting.
ipc_accept(t, h) ==
  /\ InUser(t) /\ OwnerOf[t] \in Serving
  /\ TakeFirst(t, h)
  /\ UNCHANGED <<state, pc, exited, sent, rcvd>>

\* ipc_accept blocks only while no task is registered: not before the first
\* connection, the creator being registered since ipc_server.
accept_blocks(h) == s_servers[h].incoming = <<>> /\ s_servers[h].listener = NoTask

\* get_server does not ask whether the server exists: the ipc_server that takes
\* the slot later puts its creator in the place of a task that accepts too early.
ipc_accept_block(t, h) ==
  /\ InUser(t) /\ OwnerOf[t] \in Serving
  /\ accept_blocks(h)
  /\ s_servers' = [s_servers EXCEPT ![h].listener = t]
  /\ Block(t, IF s_servers[h].identifier = NoName THEN "accept_early" ELSE "accept", h, 0)
  /\ UNCHANGED <<channels, handles, exited, sent, rcvd>>

\* The rest of ipc_accept: -1 when the queue is empty again.
ipc_accept_resume(t) ==
  /\ Resumed(t, "accept") \/ Resumed(t, "accept_early")
  /\ Return(t)
  /\ \/ TakeFirst(t, pc[t].arg)
     \/ /\ s_servers[pc[t].arg].incoming = <<>>
        /\ UNCHANGED <<s_servers, channels, handles>>
  /\ UNCHANGED <<state, exited, sent, rcvd>>

\* With a full queue the channel is dropped, and the caller not told.
enqueue_incomming(queue, c) ==
  IF Len(queue) = MAX_PENDING THEN queue ELSE Append(queue, c)

ipc_connect(t, name) ==
  /\ InUser(t) /\ OwnerOf[t] \in Connecting /\ Len(channels) < MaxChannels
  /\ \E h \in Registered(name) :
       LET c == Len(channels) + 1
       IN  /\ channels' = Append(channels,
                [pids |-> [s \in Side |-> IF s = 0 THEN OwnerOf[t] ELSE NoProc],
                 p |-> [s \in Side |-> pipe_create],
                 listeners |-> [s \in Side |-> NoTask],
                 is_closed |-> [s \in Side |-> FALSE]])
           /\ s_servers' = [s_servers EXCEPT
                ![h].incoming = enqueue_incomming(@, c), ![h].listener = NoTask]
           /\ state' = wake({s_servers[h].listener})
           /\ handles' = handle_alloc(OwnerOf[t], "channel", c)
  /\ sent' = Append(sent, [s \in Side |-> 0])
  /\ rcvd' = Append(rcvd, [s \in Side |-> <<>>])
  /\ UNCHANGED <<pc, exited>>

-----------------------------------------------------------------------------
(* Channels.                                                               *)

\* The sides a process may use; both are its own when it connected to itself.
Sides(c, q) == {s \in Side : channels[c].pids[s] = q}

\* The code asks for side 0 first.
SideOf(c, q) == CHOOSE s \in Sides(c, q) : \A k \in Sides(c, q) : s <= k

\* The bytes of a send are numbered as they are stored.
Message(c, s, n) == [i \in 1 .. n |-> sent[c][s] + i]

SYS_IPC_SEND(t, c, n) ==
  /\ InUser(t) /\ c \in Held(OwnerOf[t]) /\ Sides(c, OwnerOf[t]) # {}
  /\ LET s == SideOf(c, OwnerOf[t])
         data == Message(c, s, n)
     IN  /\ sent[c][s] + n <= MaxBytes
         /\ channels' = [channels EXCEPT ![c].p[s] = pipe_store(@, data),
                                         ![c].listeners[1 - s] = NoTask]
         /\ sent' = [sent EXCEPT ![c][s] = @ + pipe_accepts(channels[c].p[s], data)]
         /\ state' = wake({channels[c].listeners[1 - s]})
  /\ UNCHANGED <<s_servers, handles, pc, exited, rcvd>>

\* Mutant: the side's own pipe.
recv_side_own(c, q) == SideOf(c, q)

\* The side whose pipe channel_recv reads.
recv_side(c, q) == 1 - SideOf(c, q)

\* channel_recv when the peer has not closed: up to n bytes.
Receive(t, c, n) ==
  LET s == recv_side(c, OwnerOf[t])
      peer == 1 - SideOf(c, OwnerOf[t])
  IN  /\ channels' = [channels EXCEPT ![c].p[s] = pipe_take(@, n)]
      /\ rcvd' = [rcvd EXCEPT ![c][peer] = @ \o pipe_data(channels[c].p[s], n)]

CanRecv(t, c) ==
  /\ c \in Held(OwnerOf[t]) /\ Sides(c, OwnerOf[t]) # {}
  /\ ~channels[c].is_closed[1 - SideOf(c, OwnerOf[t])]

\* SYS_IPC_RECV and SYS_IPC_RECV_NB when there are bytes.
SYS_IPC_RECV(t, c, n) ==
  /\ InUser(t) /\ CanRecv(t, c)
  /\ channels[c].p[recv_side(c, OwnerOf[t])].count > 0
  /\ Receive(t, c, n)
  /\ UNCHANGED <<s_servers, handles, state, pc, exited, sent>>

channel_set_listener(c, s) == channels[c].listeners[s] = NoTask

SYS_IPC_RECV_block(t, c, n) ==
  /\ InUser(t) /\ CanRecv(t, c)
  /\ LET s == SideOf(c, OwnerOf[t])
     IN  /\ channels[c].p[recv_side(c, OwnerOf[t])].count = 0
         /\ channel_set_listener(c, s)
         /\ channels' = [channels EXCEPT ![c].listeners[s] = t]
  /\ Block(t, "recv", c, n)
  /\ UNCHANGED <<s_servers, handles, exited, sent, rcvd>>

\* The rest of SYS_IPC_RECV: -1 when the peer has closed meanwhile.
SYS_IPC_RECV_resume(t) ==
  /\ Resumed(t, "recv") /\ Return(t)
  /\ \/ CanRecv(t, pc[t].arg) /\ Receive(t, pc[t].arg, pc[t].len)
     \/ ~CanRecv(t, pc[t].arg) /\ UNCHANGED <<channels, rcvd>>
  /\ UNCHANGED <<s_servers, handles, state, exited, sent>>

\* Mutant: the own side is told.
close_wakes_own(C, q) == {channels[c].listeners[SideOf(c, q)] : c \in C}

\* The tasks channel_close wakes: the listeners of the other sides.
close_wakes(C, q) == {channels[c].listeners[1 - SideOf(c, q)] : c \in C}

\* channel_close of every channel in C, by the process q.
channel_close(C, q) ==
  [c \in DOMAIN channels |->
     IF c \notin C THEN channels[c]
     ELSE [channels[c] EXCEPT !.is_closed[SideOf(c, q)] = TRUE,
                              !.listeners[1 - SideOf(c, q)] = NoTask]]

\* The handle stays in the table.
SYS_IPC_CHANNEL_CLOSE(t, c) ==
  /\ InUser(t) /\ c \in Held(OwnerOf[t])
  /\ channels' = channel_close({c}, OwnerOf[t])
  /\ state' = wake(close_wakes({c}, OwnerOf[t]))
  /\ UNCHANGED <<s_servers, handles, pc, exited, sent, rcvd>>

-----------------------------------------------------------------------------
(* Ends of threads and processes.                                          *)

Threads(q) == {t \in Task : OwnerOf[t] = q /\ state[t] # "dead"}

\* Mutant: a process that exits leaves its channels open.
handle_close_none(q) == {}

\* The channels handle_close_all closes.
handle_close_all(q) == Held(q)

\* process_exit of the last thread (whoever waits for it is in module Process).
SYS_EXIT(t) ==
  LET q == OwnerOf[t]
      closing == handle_close_all(q)
  IN  /\ InUser(t) /\ Threads(q) = {t}
      /\ channels' = channel_close(closing, q)
      /\ state' = [wake(close_wakes(closing, q)) EXCEPT ![t] = "dead"]
      /\ exited' = exited \cup {q}
      /\ UNCHANGED <<s_servers, handles, pc, sent, rcvd>>

\* No slot that points at the killed thread is cleared.
SYS_THREAD_KILL(t, u) ==
  /\ InUser(t) /\ u # t /\ u \in Threads(OwnerOf[t])
  /\ state' = [state EXCEPT ![u] = "dead"]
  /\ UNCHANGED <<s_servers, channels, handles, pc, exited, sent, rcvd>>

-----------------------------------------------------------------------------
Next ==
  \E t \in Task :
    \/ SYS_PIPE(t) \/ SYS_EXIT(t) \/ ipc_accept_resume(t)
    \/ SYS_IPC_RECV_resume(t)
    \/ \E name \in Name : ipc_server(t, name) \/ ipc_connect(t, name)
    \/ \E h \in Server : ipc_accept(t, h) \/ ipc_accept_block(t, h)
    \/ \E u \in Task : SYS_THREAD_KILL(t, u)
    \/ \E c \in DOMAIN channels :
         \/ SYS_IPC_CHANNEL_CLOSE(t, c)
         \/ \E n \in 1 .. MaxLen :
              SYS_IPC_SEND(t, c, n) \/ SYS_IPC_RECV(t, c, n) \/ SYS_IPC_RECV_block(t, c, n)

Spec == Init /\ [][Next]_chanVars

-----------------------------------------------------------------------------
(* Properties.                                                             *)

(* Type invariant.                                                         *)
ChanTypeOK ==
  /\ \A h \in Server :
       /\ s_servers[h].identifier \in Name \cup {NoName}
       /\ s_servers[h].listener \in Task \cup {NoTask}
       /\ Len(s_servers[h].incoming) <= MAX_PENDING
  /\ \A c \in DOMAIN channels :
       /\ channels[c].pids \in [Side -> Proc \cup {NoProc}]
       /\ channels[c].p \in [Side -> PipeType({})]
       /\ channels[c].listeners \in [Side -> Task \cup {NoTask}]
       /\ channels[c].is_closed \in [Side -> BOOLEAN]
  /\ state \in [Task -> {"ready", "blocked", "dead"}]

(* A channel carries what was stored, once and in order, in both           *)
(* directions: neither side receives bytes of its own or of another pipe.  *)
InOrder ==
  ChanTypeOK /\ \A c \in DOMAIN channels, s \in Side :
    rcvd[c][s] \o Contents(channels[c].p[s]) = [i \in 1 .. sent[c][s] |-> i]

(* A connection is queued at one server at most, once, in the order of the *)
(* calls of ipc_connect, and is accepted by nobody as long as it is queued.*)
QueuedOnce ==
  /\ \A h, k \in Server :
       \A i \in 1 .. Len(s_servers[h].incoming), j \in 1 .. Len(s_servers[k].incoming) :
         s_servers[h].incoming[i] = s_servers[k].incoming[j] => h = k /\ i = j
  /\ \A h \in Server : \A i, j \in 1 .. Len(s_servers[h].incoming) :
       i < j => s_servers[h].incoming[i] < s_servers[h].incoming[j]
  /\ \A h \in Server : \A i \in 1 .. Len(s_servers[h].incoming) :
       channels[s_servers[h].incoming[i]].pids[1] = NoProc

(* A task that has called ipc_accept for a server that exists, and is      *)
(* blocked, is its registered listener, and no connection waits: the next  *)
(* ipc_connect wakes it.                                                   *)
AccepterNotForgotten ==
  \A t \in Task : state[t] = "blocked" /\ pc[t].at = "accept" =>
    s_servers[pc[t].arg].listener = t /\ s_servers[pc[t].arg].incoming = <<>>

(* A task blocked in SYS_IPC_RECV is the registered listener of its side,  *)
(* nothing waits in its pipe and the peer has not closed: no wake-up by a  *)
(* send, a close or an exit is lost, nor an accepter's by a connect.       *)
ReceiverNotForgotten ==
  AccepterNotForgotten /\ \A t \in Task : state[t] = "blocked" /\ pc[t].at = "recv" =>
    LET ch == channels[pc[t].arg]
        s == SideOf(pc[t].arg, OwnerOf[t])
    IN  /\ ch.listeners[s] = t
        /\ ch.p[1 - s].count = 0
        /\ ~ch.is_closed[1 - s]

(* A task does not stay blocked in SYS_IPC_RECV when the process it talks  *)
(* to has exited, provided that process got a handle of the channel.       *)
PeerAlive ==
  \A t \in Task : state[t] = "blocked" /\ pc[t].at = "recv" =>
    LET peer == channels[pc[t].arg].pids[1 - SideOf(pc[t].arg, OwnerOf[t])]
    IN  peer \in exited => pc[t].arg \notin Held(peer)
=============================================================================
