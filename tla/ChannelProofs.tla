--------------------------- MODULE ChannelProofs ----------------------------
(***************************************************************************)
(* Proofs about channels, servers and handles (module Channel). The        *)
(* properties are not inductive alone: a receiver is woken because its     *)
(* side has it as listener, the listener is right because a process keeps  *)
(* its side, and the order of the bytes is that of the ring buffer.        *)
(* ChanInv puts this together; there is one lemma for each system call.    *)
(***************************************************************************)
EXTENDS Channel, PipeBufferProofs

\* A channel of channel.c: the processes of its two sides, a pipe in each
\* direction, a listener and a closed flag of each side.
Chan == [pids: [Side -> Proc \cup {NoProc}], p: [Side -> PipeType({})],
         listeners: [Side -> Task \cup {NoTask}], is_closed: [Side -> BOOLEAN]]
\* The channels that were created.
Connections == 1 .. Len(channels)
\* The types of a handle.
Types == {"none", "pipe_read", "pipe_write", "channel"}

\* Where a task may be.
Calls == {"user", "accept", "accept_early", "recv"}

\* Types; a call that waits names a server or a channel.
ChanTypes ==
  /\ s_servers \in [Server -> [identifier: Name \cup {NoName}, listener: Task \cup {NoTask},
                               incoming: Seq(Nat)]]
  /\ channels \in Seq(Chan)
  /\ handles \in [Proc -> [Handle -> [type: Types, ptr: Nat]]]
  /\ state \in [Task -> {"ready", "blocked", "dead"}]
  /\ pc \in [Task -> [at: Calls, arg: Nat, len: Nat]]
  /\ \A t \in Task : /\ pc[t].at \in {"accept", "accept_early"} => pc[t].arg \in Server
                     /\ pc[t].at = "recv" => pc[t].arg \in Connections
  /\ exited \in SUBSET Proc
  /\ sent \in Seq([Side -> 0 .. MaxBytes]) /\ Len(sent) = Len(channels)
  /\ rcvd \in Seq([Side -> Seq(Byte)]) /\ Len(rcvd) = Len(channels)

\* The first n bytes a side sends.
Numbers(n) == [i \in 1 .. n |-> i]
\* The n bytes a side sends after the first m.
Following(m, n) == [i \in 1 .. n |-> m + i]

\* What a side received followed by what is in its pipe is what the other
\* sent.
StreamInv ==
  \A c \in Connections, s \in Side :
    /\ RingOK(channels[c].p[s])
    /\ rcvd[c][s] \o Contents(channels[c].p[s]) = Numbers(sent[c][s])

\* The queues of the servers are in bounds and hold each connection once.
QueueInv ==
  /\ \A h \in Server : Len(s_servers[h].incoming) <= MAX_PENDING
  /\ \A h \in Server : \A i \in 1 .. Len(s_servers[h].incoming) :
       s_servers[h].incoming[i] \in Connections
  /\ QueuedOnce

\* A process has handles only of channels one of whose sides it is.
HandleInv ==
  \A q \in Proc : \A c \in Held(q) : c \in Connections /\ Sides(c, q) # {}

\* A server that waits in ipc_accept is its listener and has no connection
\* waiting.
AcceptInv ==
  \A t \in Task : state[t] = "blocked" /\ pc[t].at = "accept" =>
    /\ s_servers[pc[t].arg].identifier # NoName
    /\ s_servers[pc[t].arg].listener = t
    /\ s_servers[pc[t].arg].incoming = <<>>

\* Task t is blocked in SYS_IPC_RECV of channel c.
WaitsIn(t, c) == state[t] = "blocked" /\ pc[t].at = "recv" /\ pc[t].arg = c

\* A receiver that waits is the listener of its side, its pipe is empty and
\* the other side is not closed.
RecvInv ==
  \A t \in Task, c \in Connections : WaitsIn(t, c) =>
    LET s == SideOf(c, OwnerOf[t])
    IN  /\ Sides(c, OwnerOf[t]) # {}
        /\ channels[c].listeners[s] = t
        /\ channels[c].p[1 - s].count = 0
        /\ ~channels[c].is_closed[1 - s]

\* What process_exit leaves: no thread that runs, and closed channels.
ExitInv ==
  \A q \in exited :
    /\ \A t \in Task : OwnerOf[t] = q => state[t] = "dead"
    /\ \A c \in Held(q) : channels[c].is_closed[SideOf(c, q)]

\* The inductive invariant.
ChanInv == ChanTypes /\ StreamInv /\ QueueInv /\ HandleInv /\ AcceptInv /\ RecvInv /\ ExitInv

-----------------------------------------------------------------------------
(* SideOf is the first side that is the process, as channel.c compares     *)
(* pids[0] first.                                                          *)
LEMMA SideLemma ==
  ASSUME NEW c, NEW q, Sides(c, q) # {}
  PROVE  /\ SideOf(c, q) \in Side /\ channels[c].pids[SideOf(c, q)] = q
         /\ SideOf(c, q) = IF channels[c].pids[0] = q THEN 0 ELSE 1
<1>1. Sides(c, q) \in SUBSET Nat BY DEF Sides, Side
<1>2. SideOf(c, q) \in Sides(c, q) /\ \A k \in Sides(c, q) : SideOf(c, q) <= k
  BY <1>1, LeastExists DEF SideOf
<1> QED BY <1>2 DEF Sides, Side

(* The bytes a side sends are a sequence of bytes.                         *)
LEMMA NumbersType ==
  ASSUME NEW n \in 0 .. MaxBytes
  PROVE  Numbers(n) \in Seq(Byte) /\ Len(Numbers(n)) = n
<1>1. n \in Nat /\ 1 .. n \subseteq Byte BY ChannelAssumption
<1>2. Numbers(n) \in [1 .. n -> Byte] BY <1>1 DEF Numbers
<1> QED BY <1>1, <1>2, FunctionIsSeq

(* Bytes may be put together in any order.                                 *)
LEMMA BytesConcat == \A a, b, c \in Seq(Byte) : (a \o b) \o c = a \o (b \o c)
BY ConcatAssociative

(* When received and waiting bytes are the first m sent ones and the pipe  *)
(* takes the first k of n more, they are the first m + k.                  *)
LEMMA StreamSend ==
  ASSUME NEW a \in Seq(Byte), NEW b \in Seq(Byte), NEW m \in Nat, NEW n \in Nat, NEW k \in 0 .. n,
         m + n <= MaxBytes, a \o b = Numbers(m)
  PROVE  a \o (b \o SubSeq(Following(m, n), 1, k)) = Numbers(m + k)
<1>1. PICK data \in Seq(Byte) : /\ data = Following(m, n) /\ Len(data) = n
                               /\ \A i \in 1 .. n : data[i] = m + i
  <2> DEFINE f == [i \in 1 .. n |-> m + i]
  <2>1. \A i \in 1 .. n : m + i \in 1 .. MaxBytes BY ChannelAssumption
  <2>2. f \in [1 .. n -> Byte] BY <2>1, ChannelAssumption
  <2>3. f \in Seq(Byte) /\ Len(f) = n BY <2>2, FunctionIsSeq
  <2> QED BY <2>3 DEF Following
<1> DEFINE new == SubSeq(data, 1, k)
<1>2. new \in Seq(Byte) /\ Len(new) = k /\ \A i \in 1 .. k : new[i] = m + i
  <2>1. \A i \in 1 .. k : data[i] = m + i /\ data[i] \in Byte
    <3>1. \A i \in 1 .. k : i \in 1 .. n OBVIOUS
    <3> QED BY <1>1, <3>1, ElementOfSeq
  <2>2. k \in Int /\ 1 \in Int /\ \A i \in 1 .. k : data[i] \in Byte BY <2>1
  <2>3. /\ new \in Seq(Byte) /\ Len(new) = IF 1 <= k THEN k - 1 + 1 ELSE 0
        /\ \A i \in 1 .. k - 1 + 1 : new[i] = data[1 + i - 1]
    BY <2>2, SubSeqProperties
  <2> HIDE DEF new
  <2>4. k - 1 + 1 = k /\ \A i \in 1 .. k : 1 + i - 1 = i OBVIOUS
  <2> QED BY <2>1, <2>3, <2>4
<1>3. m \in 0 .. MaxBytes /\ m + k \in 0 .. MaxBytes BY ChannelAssumption
<1>4. a \o (b \o new) = Numbers(m) \o new
  <2> HIDE DEF new
  <2>1. (a \o b) \o new = a \o (b \o new)
    <3>1. PICK u \in Seq(Byte) : u = new BY <1>2
    <3>2. (a \o b) \o u = a \o (b \o u) BY BytesConcat, Zenon
    <3> QED BY <3>1, <3>2
  <2> QED BY <2>1
<1>5. Numbers(m) \o new = Numbers(m + k)
  <2> HIDE DEF new
  <2>1. Numbers(m) \in Seq(Byte) /\ Len(Numbers(m)) = m /\ Numbers(m + k) \in Seq(Byte) /\ Len(Numbers(m + k)) = m + k
    BY <1>3, NumbersType
  <2>2. /\ Numbers(m) \o new \in Seq(Byte) /\ Len(Numbers(m) \o new) = m + k
        /\ \A i \in 1 .. m + k : (Numbers(m) \o new)[i] = IF i <= m THEN Numbers(m)[i] ELSE new[i - m]
    <3>1. new \in Seq(Byte) /\ Numbers(m) \in Seq(Byte) /\ Len(Numbers(m)) = m /\ Len(new) = k BY <1>2, <2>1
    <3>2. /\ Numbers(m) \o new \in Seq(Byte) /\ Len(Numbers(m) \o new) = Len(Numbers(m)) + Len(new)
          /\ \A i \in 1 .. Len(Numbers(m)) + Len(new) : (Numbers(m) \o new)[i] =
               IF i <= Len(Numbers(m)) THEN Numbers(m)[i] ELSE new[i - Len(Numbers(m))]
      BY <3>1, ConcatProperties
    <3> QED BY <3>1, <3>2
  <2>3. \A i \in 1 .. m + k : (Numbers(m) \o new)[i] = Numbers(m + k)[i]
    <3> SUFFICES ASSUME NEW i \in 1 .. m + k PROVE (Numbers(m) \o new)[i] = i BY DEF Numbers
    <3>1. CASE i <= m
      <4>1. Numbers(m)[i] = i BY <3>1 DEF Numbers
      <4> QED BY <2>2, <3>1, <4>1
    <3>2. CASE ~(i <= m)
      <4>1. i - m \in 1 .. k /\ m + (i - m) = i BY <3>2
      <4> QED BY <1>2, <2>2, <3>2, <4>1
    <3> QED BY <3>1, <3>2
  <2> QED BY <2>1, <2>2, <2>3, SeqEqual
<1> QED BY <1>1, <1>4, <1>5

(* Moving the first k bytes that wait to the received ones leaves the      *)
(* stream.                                                                 *)
LEMMA StreamTake ==
  ASSUME NEW a \in Seq(Byte), NEW b \in Seq(Byte), NEW k \in 0 .. Len(b)
  PROVE  (a \o SubSeq(b, 1, k)) \o SubSeq(b, k + 1, Len(b)) = a \o b
<1>1. Len(b) \in Nat /\ \A i \in 1 .. Len(b) : b[i] \in Byte BY LenProperties
<1>2. SubSeq(b, 1, k) \in Seq(Byte) /\ SubSeq(b, k + 1, Len(b)) \in Seq(Byte)
  BY <1>1, SubSeqProperties
<1>3. SubSeq(b, 1, k) \o SubSeq(b, k + 1, Len(b)) = b
  <2>1. k \in 1 - 1 .. Len(b) /\ Len(b) \in k .. Len(b) /\ 1 \in 1 .. Len(b) + 1 BY <1>1
  <2>2. SubSeq(b, 1, k) \o SubSeq(b, k + 1, Len(b)) = SubSeq(b, 1, Len(b))
    BY <2>1, ConcatAdjacentSubSeq
  <2> QED BY <2>2, SubSeqFull
<1> DEFINE x == SubSeq(b, 1, k)
           y == SubSeq(b, k + 1, Len(b))
<1> HIDE DEF x, y
<1>4. x \in Seq(Byte) /\ y \in Seq(Byte) /\ x \o y = b BY <1>2, <1>3 DEF x, y
<1>5. (a \o x) \o y = a \o (x \o y)
  <2>1. x \in Seq(Byte) /\ y \in Seq(Byte) BY <1>4
  <2> QED BY <2>1, ConcatAssociative
<1>6. (a \o x) \o y = a \o b BY <1>4, <1>5
<1> QED BY <1>6 DEF x, y

-----------------------------------------------------------------------------
(* The types of the fields of a channel.                                   *)
LEMMA ChanFields ==
  ASSUME ChanTypes, NEW c \in Connections
  PROVE  /\ channels[c] \in Chan
         /\ channels[c].pids \in [Side -> Proc \cup {NoProc}]
         /\ channels[c].p \in [Side -> PipeType({})]
         /\ channels[c].listeners \in [Side -> Task \cup {NoTask}]
         /\ channels[c].is_closed \in [Side -> BOOLEAN]
<1>1. channels[c] \in Chan BY ElementOfSeq DEF ChanTypes, Connections
<1> QED BY <1>1 DEF Chan

\* The processes of a channel stay; an open second place may be taken.
PidsKept(c) ==
  /\ channels'[c].pids[0] = channels[c].pids[0]
  /\ channels[c].pids[1] # NoProc => channels'[c].pids[1] = channels[c].pids[1]

(* As long as a channel keeps its processes, a process keeps its side.     *)
LEMMA SideKept ==
  ASSUME NEW c, NEW q \in Proc, Sides(c, q) # {}, PidsKept(c)
  PROVE  Sides(c, q)' # {} /\ SideOf(c, q)' = SideOf(c, q)
<1>1. q # NoProc BY ChannelAssumption
<1>2. channels[c].pids[0] = q \/ channels[c].pids[1] = q BY DEF Sides, Side
<1>3. channels'[c].pids[0] = q \/ channels'[c].pids[1] = q BY <1>1, <1>2 DEF PidsKept
<1>4. Sides(c, q)' # {} BY <1>3 DEF Sides, Side
<1>5. SideOf(c, q) = IF channels[c].pids[0] = q THEN 0 ELSE 1 BY SideLemma
<1>6. SideOf(c, q)' = IF channels'[c].pids[0] = q THEN 0 ELSE 1
  <2>1. Sides(c, q)' \in SUBSET Nat BY DEF Sides, Side
  <2>2. SideOf(c, q)' \in Sides(c, q)' /\ \A k \in Sides(c, q)' : SideOf(c, q)' <= k
    BY <1>4, <2>1, LeastExists DEF SideOf
  <2> QED BY <2>2 DEF Sides, Side
<1> QED BY <1>4, <1>5, <1>6 DEF PidsKept

(* Handles stay right in a step that keeps the processes of the channels   *)
(* and adds only handles of their own.                                     *)
LEMMA HandleStep ==
  ASSUME HandleInv, ChanTypes,
         \A c \in Connections : c \in 1 .. Len(channels') /\ PidsKept(c),
         \A q \in Proc : \A c \in Held(q)' :
           c \in Held(q) \/ (c \in 1 .. Len(channels') /\ Sides(c, q)' # {})
  PROVE  HandleInv'
<1> SUFFICES ASSUME NEW q \in Proc, NEW c \in Held(q)'
             PROVE  c \in 1 .. Len(channels') /\ Sides(c, q)' # {}
  BY DEF HandleInv, Connections
<1> QED BY SideKept DEF HandleInv

(* What an exited process leaves stays in a step that reopens no channel   *)
(* and revives no thread.                                                  *)
LEMMA ExitStep ==
  ASSUME ExitInv, HandleInv, ChanTypes, exited' = exited,
         \A t \in Task : state[t] = "dead" => state'[t] = "dead",
         \A c \in Connections : PidsKept(c) /\ \A s \in Side :
           channels[c].is_closed[s] => channels'[c].is_closed[s],
         \A q \in exited : Held(q)' \subseteq Held(q)
  PROVE  ExitInv'
<1> SUFFICES ASSUME NEW q \in exited
             PROVE  /\ \A t \in Task : OwnerOf[t] = q => state'[t] = "dead"
                    /\ \A c \in Held(q)' : channels'[c].is_closed[SideOf(c, q)']
  BY DEF ExitInv
<1>1. q \in Proc BY DEF ChanTypes
<1>2. ASSUME NEW c \in Held(q)' PROVE channels'[c].is_closed[SideOf(c, q)']
  <2>1. c \in Held(q) /\ c \in Connections /\ Sides(c, q) # {} BY <1>1, <1>2 DEF HandleInv
  <2>2. SideOf(c, q)' = SideOf(c, q) /\ SideOf(c, q) \in Side BY <1>1, <2>1, SideKept, SideLemma
  <2>3. channels[c].is_closed[SideOf(c, q)] BY <2>1 DEF ExitInv
  <2> QED BY <2>1, <2>2, <2>3
<1> QED BY <1>2 DEF ExitInv

(* Receivers that wait stay right in a step that leaves their side         *)
(* listening, their pipe empty and the other side open.                    *)
LEMMA RecvStep ==
  ASSUME RecvInv, ChanTypes,
         \A c \in Connections : PidsKept(c),
         \A t \in Task, c \in 1 .. Len(channels') : WaitsIn(t, c)' =>
           /\ c \in Connections /\ WaitsIn(t, c)
           /\ LET s == SideOf(c, OwnerOf[t])
              IN  /\ channels'[c].listeners[s] = channels[c].listeners[s]
                  /\ channels'[c].p[1 - s].count = 0
                  /\ channels'[c].is_closed[1 - s] = channels[c].is_closed[1 - s]
  PROVE  RecvInv'
<1> SUFFICES ASSUME NEW t \in Task, NEW c \in 1 .. Len(channels'), WaitsIn(t, c)'
             PROVE  LET s == SideOf(c, OwnerOf[t])'
                    IN  /\ Sides(c, OwnerOf[t])' # {}
                        /\ channels'[c].listeners[s] = t
                        /\ channels'[c].p[1 - s].count = 0
                        /\ ~channels'[c].is_closed[1 - s]
  BY DEF RecvInv, Connections
<1>1. OwnerOf[t] \in Proc /\ WaitsIn(t, c) /\ c \in Connections BY ChannelAssumption
<1>2. Sides(c, OwnerOf[t]) # {} BY <1>1 DEF RecvInv
<1>3. Sides(c, OwnerOf[t])' # {} /\ SideOf(c, OwnerOf[t])' = SideOf(c, OwnerOf[t])
  BY <1>1, <1>2, SideKept
<1> QED BY <1>1, <1>3 DEF RecvInv

(* The streams stay in a step that touches no pipe.                        *)
LEMMA StreamStep ==
  ASSUME StreamInv, Len(channels') = Len(channels), sent' = sent, rcvd' = rcvd,
         \A c \in Connections : channels'[c].p = channels[c].p
  PROVE  StreamInv'
<1> SUFFICES ASSUME NEW c \in Connections, NEW s \in Side
             PROVE  /\ RingOK(channels'[c].p[s])
                    /\ rcvd'[c][s] \o Contents(channels'[c].p[s]) = Numbers(sent'[c][s])
  BY DEF StreamInv, Connections, RingOK, Contents, pipe_data, Least, Numbers
<1>1. channels'[c].p[s] = channels[c].p[s] OBVIOUS
<1>2. RingOK(channels[c].p[s]) /\ rcvd[c][s] \o Contents(channels[c].p[s]) = Numbers(sent[c][s])
  BY DEF StreamInv
<1> QED BY <1>1, <1>2

\* The streams are right when every stream of the next state is.
LEMMA StreamFrom ==
  ASSUME Len(channels') = Len(channels),
         \A c \in Connections, s \in Side :
           /\ RingOK(channels'[c].p[s])
           /\ rcvd'[c][s] \o Contents(channels'[c].p[s]) = Numbers(sent'[c][s])
  PROVE  StreamInv'
BY DEF StreamInv, Connections, RingOK, Contents, pipe_data, Least, Numbers

\* The waiting connections of the servers stay.
LEMMA QueueStep ==
  ASSUME QueueInv, ChanTypes, Len(channels') = Len(channels),
         \A h \in Server : s_servers'[h].incoming = s_servers[h].incoming,
         \A c \in Connections : channels'[c].pids = channels[c].pids
  PROVE  QueueInv'
<1>1. \A h \in Server : Len(s_servers'[h].incoming) <= MAX_PENDING
  BY DEF QueueInv
<1>2. \A h \in Server : \A i \in 1 .. Len(s_servers'[h].incoming) :
        s_servers'[h].incoming[i] \in Connections'
  BY DEF QueueInv, Connections
<1>3. QueuedOnce'
  <2> DEFINE Q(h) == s_servers[h].incoming
  <2>1. \A h \in Server : \A i \in 1 .. Len(Q(h)) :
          channels'[Q(h)[i]].pids[1] = NoProc
    BY DEF QueueInv, QueuedOnce
  <2>2. QueuedOnce BY DEF QueueInv
  <2>3. \A h, k \in Server :
          \A i \in 1 .. Len(s_servers'[h].incoming), j \in 1 .. Len(s_servers'[k].incoming) :
            s_servers'[h].incoming[i] = s_servers'[k].incoming[j] => h = k /\ i = j
    <3>1. \A h, k \in Server : \A i \in 1 .. Len(Q(h)), j \in 1 .. Len(Q(k)) : Q(h)[i] = Q(k)[j] => h = k /\ i = j
      BY <2>2 DEF QueuedOnce
    <3>2. \A h \in Server : s_servers'[h].incoming = Q(h) OBVIOUS
    <3> HIDE DEF Q
    <3> QED BY <3>1, <3>2
  <2>4. \A h \in Server : \A i, j \in 1 .. Len(s_servers'[h].incoming) :
          i < j => s_servers'[h].incoming[i] < s_servers'[h].incoming[j]
    BY <2>2 DEF QueuedOnce
  <2>5. \A h \in Server : \A i \in 1 .. Len(s_servers'[h].incoming) :
          channels'[s_servers'[h].incoming[i]].pids[1] = NoProc
    BY <2>1
  <2> QED BY <2>3, <2>4, <2>5 DEF QueuedOnce
<1> QED BY <1>1, <1>2, <1>3 DEF QueueInv

(* handle_alloc changes one free handle, or none when the table is full.   *)
LEMMA AllocLemma ==
  ASSUME ChanTypes, NEW q \in Proc, NEW type \in Types, NEW ptr \in Nat
  PROVE  LET H == handle_alloc(q, type, ptr)
         IN  /\ H \in [Proc -> [Handle -> [type: Types, ptr: Nat]]]
             /\ \A r \in Proc, h \in Handle :
                  H[r][h] = handles[r][h] \/ (r = q /\ H[r][h] = [type |-> type, ptr |-> ptr])
<1>1. CASE FreeHandles(q) = {} BY <1>1 DEF handle_alloc, ChanTypes
<1>2. CASE FreeHandles(q) # {}
  <2>1. FreeHandles(q) \in SUBSET Nat BY DEF FreeHandles, Handle
  <2>2. FirstFree(q) \in Handle BY <1>2, <2>1, LeastExists DEF FirstFree, FreeHandles
  <2>3. handle_alloc(q, type, ptr) = [handles EXCEPT ![q] = [handles[q] EXCEPT ![FirstFree(q)] = [type |-> type, ptr |-> ptr]]]
    BY <1>2 DEF handle_alloc
  <2> QED BY <2>2, <2>3 DEF ChanTypes
<1> QED BY <1>1, <1>2

\* A handle table after one more handle of q.
LEMMA HeldAfter ==
  ASSUME ChanTypes, NEW q \in Proc, NEW type \in Types, NEW ptr \in Nat,
         handles' = handle_alloc(q, type, ptr)
  PROVE  /\ handles' \in [Proc -> [Handle -> [type: Types, ptr: Nat]]]
         /\ \A r \in Proc : \A c \in Held(r)' : c \in Held(r) \/ (r = q /\ type = "channel" /\ c = ptr)
<1>1. \A r \in Proc, h \in Handle :
        handles'[r][h] = handles[r][h] \/ (r = q /\ handles'[r][h] = [type |-> type, ptr |-> ptr])
  BY AllocLemma
<1>2. ASSUME NEW r \in Proc, NEW c \in Held(r)'
      PROVE  c \in Held(r) \/ (r = q /\ type = "channel" /\ c = ptr)
  <2>1. PICK h \in Handle : handles'[r][h].type = "channel" /\ handles'[r][h].ptr = c
    BY <1>2 DEF Held
  <2>2. CASE handles'[r][h] = handles[r][h]
    BY <2>1, <2>2 DEF Held
  <2>3. CASE r = q /\ handles'[r][h] = [type |-> type, ptr |-> ptr]
    BY <2>1, <2>3
  <2> QED BY <1>1, <2>2, <2>3
<1>3. handles' \in [Proc -> [Handle -> [type: Types, ptr: Nat]]] BY AllocLemma
<1> QED BY <1>2, <1>3

-----------------------------------------------------------------------------
(* A step that leaves the channels keeps their processes.                  *)
LEMMA SamePids ==
  ASSUME channels' = channels PROVE \A c \in Connections : c \in 1 .. Len(channels') /\ PidsKept(c)
BY DEF PidsKept, Connections

(* Before the first call no channel, handle or waiting task exists.        *)
LEMMA ChanInitInv == Init => ChanInv
<1> SUFFICES ASSUME Init PROVE ChanInv OBVIOUS
<1>1. /\ channels = <<>> /\ sent = <<>> /\ rcvd = <<>> /\ Len(channels) = 0 /\ Connections = {}
  BY DEF Init, Connections
<1>2. ChanTypes
  <2>1. channels \in Seq(Chan) /\ sent \in Seq([Side -> 0 .. MaxBytes]) /\ rcvd \in Seq([Side -> Seq(Byte)])
    BY <1>1, EmptySeq
  <2>2. s_servers \in [Server -> [identifier: Name \cup {NoName}, listener: Task \cup {NoTask}, incoming: Seq(Nat)]]
    BY EmptySeq DEF Init
  <2>3. handles \in [Proc -> [Handle -> [type: Types, ptr: Nat]]] BY DEF Init, None, Types
  <2> QED BY <1>1, <2>1, <2>2, <2>3 DEF ChanTypes, Init, User, Calls
<1>3. \A h \in Server : s_servers[h].incoming = <<>> /\ Len(s_servers[h].incoming) = 0 BY DEF Init
<1>4. QueueInv BY <1>3, ChannelAssumption DEF QueueInv, QueuedOnce
<1>5. \A q \in Proc : Held(q) = {} BY DEF Held, Init, None
<1>6. StreamInv /\ HandleInv BY <1>1, <1>5 DEF StreamInv, HandleInv
<1>7. AcceptInv /\ RecvInv /\ ExitInv BY DEF AcceptInv, RecvInv, WaitsIn, ExitInv, Init
<1> QED BY <1>2, <1>4, <1>6, <1>7 DEF ChanInv

(* SYS_PIPE takes two handles of its own process and touches no channel.   *)
LEMMA PipeKeeps == ASSUME ChanInv, NEW t \in Task, SYS_PIPE(t) PROVE ChanInv'
<1> USE DEF ChanInv
<1> DEFINE q == OwnerOf[t]
           one == handle_alloc(q, "pipe_read", 0)
           rest == {h \in Handle : one[q][h] = None}
<1>1. q \in Proc BY ChannelAssumption
<1>2. UNCHANGED <<s_servers, channels, state, pc, exited, sent, rcvd>> BY DEF SYS_PIPE
<1>3. /\ one \in [Proc -> [Handle -> [type: Types, ptr: Nat]]]
      /\ \A r \in Proc, h \in Handle :
           one[r][h] = handles[r][h] \/ (r = q /\ one[r][h] = [type |-> "pipe_read", ptr |-> 0])
  BY <1>1, AllocLemma DEF Types
<1>4. /\ handles' \in [Proc -> [Handle -> [type: Types, ptr: Nat]]]
      /\ \A r \in Proc, h \in Handle : handles'[r][h].type = "channel" => handles'[r][h] = handles[r][h]
  <2> HIDE DEF one, q
  <2>1. CASE rest = {}
    <3>1. handles' = one BY <2>1 DEF SYS_PIPE, one, q
    <3> QED BY <1>3, <3>1
  <2>2. CASE rest # {}
    <3> DEFINE m == CHOOSE h \in rest : \A k \in rest : h <= k
    <3>1. rest \in SUBSET Nat BY DEF Handle
    <3>2. m \in Handle BY <2>2, <3>1, LeastExists
    <3>3. handles' = [one EXCEPT ![q][m] = [type |-> "pipe_write", ptr |-> 0]]
      BY <2>2 DEF SYS_PIPE, one, q
    <3> HIDE DEF m
    <3>4. handles' = [one EXCEPT ![q] = [one[q] EXCEPT ![m] = [type |-> "pipe_write", ptr |-> 0]]]
      BY <3>3
    <3> QED BY <1>1, <1>3, <3>2, <3>4 DEF Types
  <2> QED BY <2>1, <2>2
<1>5. \A r \in Proc : Held(r)' \subseteq Held(r)
  <2> SUFFICES ASSUME NEW r \in Proc, NEW c \in Held(r)' PROVE c \in Held(r) OBVIOUS
  <2>1. PICK h \in Handle : handles'[r][h].type = "channel" /\ handles'[r][h].ptr = c BY DEF Held
  <2> QED BY <1>4, <2>1 DEF Held
<1>6. \A c \in Connections : c \in 1 .. Len(channels') /\ PidsKept(c) BY <1>2, SamePids
<1>7. ChanTypes' BY <1>2, <1>4 DEF ChanTypes, Connections
<1>8. StreamInv' BY <1>2, StreamStep
<1>9. QueueInv' BY <1>2, QueueStep
<1>10. HandleInv' BY <1>5, <1>6, HandleStep
<1>11. AcceptInv' BY <1>2 DEF AcceptInv
<1>12. RecvInv'
  <2>1. \A d \in Task, c \in 1 .. Len(channels') : WaitsIn(d, c)' => c \in Connections /\ WaitsIn(d, c)
    BY <1>2 DEF WaitsIn, Connections
  <2> QED BY <1>2, <1>6, <2>1, RecvStep DEF RecvInv
<1>13. ExitInv'
  <2>1. \A r \in exited : Held(r)' \subseteq Held(r) BY <1>5 DEF ChanTypes
  <2> QED BY <1>2, <1>6, <2>1, ExitStep
<1> QED BY <1>7, <1>8, <1>9, <1>10, <1>11, <1>12, <1>13

(* SYS_THREAD_KILL of another thread keeps the invariant: a dead task      *)
(* waits nowhere.                                                          *)
LEMMA KillKeeps ==
  ASSUME ChanInv, NEW t \in Task, NEW u \in Task, SYS_THREAD_KILL(t, u) PROVE ChanInv'
<1> USE DEF ChanInv
<1>1. UNCHANGED <<s_servers, channels, handles, pc, exited, sent, rcvd>> BY DEF SYS_THREAD_KILL
<1>2. /\ state' \in [Task -> {"ready", "blocked", "dead"}]
      /\ \A d \in Task : /\ state'[d] = "blocked" => state[d] = "blocked"
                         /\ state[d] = "dead" => state'[d] = "dead"
  BY DEF SYS_THREAD_KILL, ChanTypes
<1>3. \A c \in Connections : c \in 1 .. Len(channels') /\ PidsKept(c) BY <1>1, SamePids
<1>4. \A r : Held(r)' = Held(r) BY <1>1 DEF Held
<1>5. ChanTypes' BY <1>1, <1>2 DEF ChanTypes, Connections
<1>6. StreamInv' BY <1>1, StreamStep
<1>7. QueueInv' BY <1>1, QueueStep
<1>8. HandleInv' BY <1>3, <1>4, HandleStep
<1>9. AcceptInv' BY <1>1, <1>2 DEF AcceptInv
<1>10. RecvInv'
  <2>1. \A d \in Task, c \in 1 .. Len(channels') : WaitsIn(d, c)' => c \in Connections /\ WaitsIn(d, c)
    BY <1>1, <1>2 DEF WaitsIn, Connections
  <2> QED BY <1>1, <1>3, <2>1, RecvStep DEF RecvInv
<1>11. ExitInv' BY <1>1, <1>2, <1>3, <1>4, ExitStep
<1> QED BY <1>5, <1>6, <1>7, <1>8, <1>9, <1>10, <1>11

(* ipc_server gives a name to a free entry, at which nobody waits.         *)
LEMMA ServerKeeps ==
  ASSUME ChanInv, NEW t \in Task, NEW name \in Name, ipc_server(t, name) PROVE ChanInv'
<1> USE DEF ChanInv
<1> DEFINE h == CHOOSE h \in Registered(NoName) : \A k \in Registered(NoName) : h <= k
<1>1. UNCHANGED <<channels, handles, state, pc, exited, sent, rcvd>> BY DEF ipc_server
<1>2. h \in Server /\ s_servers[h].identifier = NoName
  <2>1. Registered(NoName) # {} /\ Registered(NoName) \in SUBSET Nat
    BY DEF ipc_server, Registered, Server
  <2>2. h \in Registered(NoName) BY <2>1, LeastExists
  <2> QED BY <2>2 DEF Registered
<1>3. s_servers' = [s_servers EXCEPT ![h].identifier = name, ![h].listener = t]
  BY DEF ipc_server
<1> HIDE DEF h
<1>4. /\ s_servers' \in [Server -> [identifier: Name \cup {NoName}, listener: Task \cup {NoTask}, incoming: Seq(Nat)]]
      /\ \A k \in Server : s_servers'[k].incoming = s_servers[k].incoming
      /\ \A k \in Server : s_servers[k].identifier # NoName => s_servers'[k] = s_servers[k]
  <2>1. s_servers \in [Server -> [identifier: Name \cup {NoName}, listener: Task \cup {NoTask}, incoming: Seq(Nat)]]
    BY DEF ChanTypes
  <2>2. s_servers' \in [Server -> [identifier: Name \cup {NoName}, listener: Task \cup {NoTask}, incoming: Seq(Nat)]]
    <3>1. PICK r \in [identifier: Name \cup {NoName}, listener: Task \cup {NoTask}, incoming: Seq(Nat)] :
            r = [s_servers[h] EXCEPT !.identifier = name, !.listener = t]
      BY <1>2, <2>1
    <3>2. s_servers' = [s_servers EXCEPT ![h] = r] BY <1>3, <3>1
    <3> QED BY <2>1, <3>2
  <2>3. s_servers'[h].incoming = s_servers[h].incoming BY <1>2, <1>3, <2>1
  <2>4. \A k \in Server : k # h => s_servers'[k] = s_servers[k] BY <1>2, <1>3, <2>1
  <2> QED BY <1>2, <2>2, <2>3, <2>4
<1>5. \A c \in Connections : c \in 1 .. Len(channels') /\ PidsKept(c) BY <1>1, SamePids
<1>6. \A r : Held(r)' = Held(r) BY <1>1 DEF Held
<1>7. ChanTypes' BY <1>1, <1>4 DEF ChanTypes, Connections
<1>8. StreamInv' BY <1>1, StreamStep
<1>9. QueueInv' BY <1>1, <1>4, QueueStep
<1>10. HandleInv' BY <1>5, <1>6, HandleStep
<1>11. AcceptInv' BY <1>1, <1>4 DEF AcceptInv, ChanTypes
<1>12. RecvInv'
  <2>1. \A d \in Task, c \in 1 .. Len(channels') : WaitsIn(d, c)' => c \in Connections /\ WaitsIn(d, c)
    BY <1>1 DEF WaitsIn, Connections
  <2> QED BY <1>1, <1>5, <2>1, RecvStep DEF RecvInv
<1>13. ExitInv' BY <1>1, <1>5, <1>6, ExitStep
<1> QED BY <1>7, <1>8, <1>9, <1>10, <1>11, <1>12, <1>13

(* ipc_accept blocks only with an empty queue and no listener, and makes   *)
(* the task the listener.                                                  *)
LEMMA AcceptBlockKeeps ==
  ASSUME ChanInv, NEW t \in Task, NEW h \in Server, ipc_accept_block(t, h) PROVE ChanInv'
<1> USE DEF ChanInv
<1>1. UNCHANGED <<channels, handles, exited, sent, rcvd>> BY DEF ipc_accept_block
<1>2. /\ s_servers' = [s_servers EXCEPT ![h] = [s_servers[h] EXCEPT !.listener = t]]
      /\ s_servers[h].incoming = <<>> /\ s_servers[h].listener = NoTask
  BY DEF ipc_accept_block, accept_blocks
<1> DEFINE call == IF s_servers[h].identifier = NoName THEN "accept_early" ELSE "accept"
<1>3. /\ state' = [state EXCEPT ![t] = "blocked"] /\ state[t] = "ready" /\ h \in Nat
      /\ pc' = [pc EXCEPT ![t] = [at |-> call, arg |-> h, len |-> 0]]
  BY DEF ipc_accept_block, Block, InUser, Server
<1>3a. /\ call \in Calls /\ call \in {"accept", "accept_early"} /\ call # "recv"
       /\ call = "accept" => s_servers[h].identifier # NoName
  BY DEF Calls
<1> HIDE DEF call
<1>4. /\ s_servers' \in [Server -> [identifier: Name \cup {NoName}, listener: Task \cup {NoTask}, incoming: Seq(Nat)]]
      /\ \A k \in Server : s_servers'[k].incoming = s_servers[k].incoming
      /\ \A k \in Server : s_servers'[k].identifier = s_servers[k].identifier
      /\ \A k \in Server : s_servers'[k].listener = IF k = h THEN t ELSE s_servers[k].listener
  <2> DEFINE new == [s_servers[h] EXCEPT !.listener = t]
  <2>1. s_servers \in [Server -> [identifier: Name \cup {NoName}, listener: Task \cup {NoTask}, incoming: Seq(Nat)]]
    BY DEF ChanTypes
  <2>2. s_servers[h] \in [identifier: Name \cup {NoName}, listener: Task \cup {NoTask}, incoming: Seq(Nat)] BY <2>1
  <2>3. new \in [identifier: Name \cup {NoName}, listener: Task \cup {NoTask}, incoming: Seq(Nat)] BY <2>2
  <2>4. new.identifier = s_servers[h].identifier /\ new.listener = t /\ new.incoming = s_servers[h].incoming BY <2>2
  <2>5. s_servers' = [s_servers EXCEPT ![h] = new] BY <1>2
  <2> HIDE DEF new
  <2> QED BY <2>1, <2>3, <2>4, <2>5
<1>5. \A c \in Connections : c \in 1 .. Len(channels') /\ PidsKept(c) BY <1>1, SamePids
<1>6. \A r : Held(r)' = Held(r) BY <1>1 DEF Held
<1>7. ChanTypes' BY <1>1, <1>3, <1>3a, <1>4 DEF ChanTypes, Connections
<1>8. StreamInv' BY <1>1, StreamStep
<1>9. QueueInv' BY <1>1, <1>4, QueueStep
<1>10. HandleInv' BY <1>5, <1>6, HandleStep
<1>11. AcceptInv'
  <2> SUFFICES ASSUME NEW d \in Task, state'[d] = "blocked", pc'[d].at = "accept"
               PROVE  /\ s_servers'[pc'[d].arg].identifier # NoName
                      /\ s_servers'[pc'[d].arg].listener = d
                      /\ s_servers'[pc'[d].arg].incoming = <<>>
    BY DEF AcceptInv
  <2>1. CASE d = t BY <1>2, <1>3, <1>3a, <1>4, <2>1 DEF ChanTypes
  <2>2. CASE d # t
    <3>1. pc'[d] = pc[d] /\ state[d] = "blocked" /\ pc[d].arg \in Server BY <1>3, <2>2 DEF ChanTypes
    <3>2. /\ s_servers[pc[d].arg].identifier # NoName /\ s_servers[pc[d].arg].listener = d
          /\ s_servers[pc[d].arg].incoming = <<>>
      BY <3>1 DEF AcceptInv
    <3>3. pc[d].arg # h BY <1>2, <3>2, ChannelAssumption
    <3> QED BY <1>4, <3>1, <3>2, <3>3
  <2> QED BY <2>1, <2>2
<1>12. RecvInv'
  <2>1. \A d \in Task, c \in 1 .. Len(channels') : WaitsIn(d, c)' => c \in Connections /\ WaitsIn(d, c)
    BY <1>1, <1>3, <1>3a DEF WaitsIn, Connections, ChanTypes
  <2> QED BY <1>1, <1>5, <2>1, RecvStep DEF RecvInv
<1>13. ExitInv' BY <1>1, <1>3, <1>5, <1>6, ExitStep DEF ChanTypes
<1> QED BY <1>7, <1>8, <1>9, <1>10, <1>11, <1>12, <1>13

(* What the invariant says of the queues of the servers, as functions of   *)
(* their own.                                                              *)
LEMMA QueueFacts ==
  ASSUME ChanTypes, QueueInv, NEW Q \in [Server -> Seq(Nat)],
         \A k \in Server : Q[k] = s_servers[k].incoming
  PROVE  /\ \A k \in Server : Len(Q[k]) <= MAX_PENDING /\ Len(Q[k]) \in Nat
         /\ \A k \in Server : \A i \in 1 .. Len(Q[k]) : Q[k][i] \in Connections /\ channels[Q[k][i]].pids[1] = NoProc
         /\ \A k, l \in Server : \A i \in 1 .. Len(Q[k]), j \in 1 .. Len(Q[l]) : Q[k][i] = Q[l][j] => k = l /\ i = j
         /\ \A k \in Server : \A i, j \in 1 .. Len(Q[k]) : i < j => Q[k][i] < Q[k][j]
<1>1. QueuedOnce /\ \A k \in Server : Q[k] \in Seq(Nat) BY DEF QueueInv
<1>2. \A k \in Server : Len(Q[k]) <= MAX_PENDING /\ Len(Q[k]) \in Nat
  <2>1. \A k \in Server : Len(Q[k]) \in Nat BY <1>1, LenProperties
  <2> QED BY <2>1 DEF QueueInv
<1>3. \A k \in Server : \A i \in 1 .. Len(Q[k]) : Q[k][i] \in Connections BY DEF QueueInv
<1>4. \A k \in Server : \A i \in 1 .. Len(Q[k]) : channels[Q[k][i]].pids[1] = NoProc
  <2>1. \A k \in Server : \A i \in 1 .. Len(s_servers[k].incoming) : channels[s_servers[k].incoming[i]].pids[1] = NoProc
    BY <1>1 DEF QueuedOnce
  <2> QED BY <2>1
<1>5. \A k, l \in Server : \A i \in 1 .. Len(Q[k]), j \in 1 .. Len(Q[l]) : Q[k][i] = Q[l][j] => k = l /\ i = j
  <2> SUFFICES ASSUME NEW k \in Server, NEW l \in Server, NEW i \in 1 .. Len(Q[k]), NEW j \in 1 .. Len(Q[l]),
                      Q[k][i] = Q[l][j]
               PROVE  k = l /\ i = j
    OBVIOUS
  <2>1. \A a, b \in Server :
          \A m \in 1 .. Len(s_servers[a].incoming), n \in 1 .. Len(s_servers[b].incoming) :
            s_servers[a].incoming[m] = s_servers[b].incoming[n] => a = b /\ m = n
    BY <1>1 DEF QueuedOnce
  <2>2. Q[k] = s_servers[k].incoming /\ Q[l] = s_servers[l].incoming OBVIOUS
  <2>3. /\ i \in 1 .. Len(s_servers[k].incoming) /\ j \in 1 .. Len(s_servers[l].incoming)
        /\ s_servers[k].incoming[i] = s_servers[l].incoming[j]
    BY <2>2
  <2>4. \A m \in 1 .. Len(s_servers[k].incoming), n \in 1 .. Len(s_servers[l].incoming) :
          s_servers[k].incoming[m] = s_servers[l].incoming[n] => k = l /\ m = n
    BY <2>1
  <2> QED BY <2>3, <2>4
<1>6. \A k \in Server : \A i, j \in 1 .. Len(Q[k]) : i < j => Q[k][i] < Q[k][j]
  BY <1>1 DEF QueuedOnce
<1> QED BY <1>2, <1>3, <1>4, <1>5, <1>6

(* Taking the first connection of a queue: the others move up in their     *)
(* order, the channel gets its second process, and no other server has it. *)
LEMMA TakeKeeps ==
  ASSUME ChanInv, NEW t \in Task, NEW h \in Server, TakeFirst(t, h),
         state[t] = "ready", state' = state, pc' = pc \/ pc' = [pc EXCEPT ![t] = User],
         UNCHANGED <<exited, sent, rcvd>>
  PROVE  ChanInv'
<1> USE DEF ChanInv
<1>1. PICK q \in Proc : q = OwnerOf[t] /\ q # NoProc BY ChannelAssumption
<1>2. PICK Q \in [Server -> Seq(Nat)] : \A k \in Server : Q[k] = s_servers[k].incoming
  <2> DEFINE f == [k \in Server |-> s_servers[k].incoming]
  <2>1. f \in [Server -> Seq(Nat)] BY DEF ChanTypes
  <2> QED BY <2>1
<1>3. PICK T \in Seq(Nat) : T = Tail(Q[h])
  <2>1. Q[h] \in Seq(Nat) /\ Q[h] # <<>> BY <1>2 DEF TakeFirst
  <2>2. Tail(Q[h]) \in Seq(Nat) BY <2>1
  <2> QED BY <2>2
<1>4. /\ Len(Q[h]) \in Nat /\ Len(Q[h]) >= 1 /\ Head(Q[h]) = Q[h][1] /\ Len(T) = Len(Q[h]) - 1
      /\ \A i \in 1 .. Len(Q[h]) - 1 : T[i] = Q[h][i + 1]
  <2>1. Q[h] \in Seq(Nat) /\ Q[h] # <<>> BY <1>2 DEF TakeFirst
  <2> QED BY <1>3, <2>1
<1>5. /\ \A k \in Server : Len(Q[k]) <= MAX_PENDING /\ Len(Q[k]) \in Nat
      /\ \A k \in Server : \A i \in 1 .. Len(Q[k]) : Q[k][i] \in Connections /\ channels[Q[k][i]].pids[1] = NoProc
      /\ \A k, l \in Server : \A i \in 1 .. Len(Q[k]), j \in 1 .. Len(Q[l]) : Q[k][i] = Q[l][j] => k = l /\ i = j
      /\ \A k \in Server : \A i, j \in 1 .. Len(Q[k]) : i < j => Q[k][i] < Q[k][j]
  BY <1>2, QueueFacts
<1>6. 1 \in 1 .. Len(Q[h]) BY <1>4
<1>7. PICK c \in Connections : c = Q[h][1] /\ c = Head(s_servers[h].incoming) /\ channels[c].pids[1] = NoProc
  BY <1>2, <1>4, <1>5, <1>6
<1>8. s_servers' = [s_servers EXCEPT ![h] = [s_servers[h] EXCEPT !.incoming = T]]
  <2>1. s_servers' = [s_servers EXCEPT ![h].incoming = Tail(s_servers[h].incoming)]
    BY DEF TakeFirst, dequeue_incomming
  <2> QED BY <1>2, <1>3, <2>1
<1>9. /\ s_servers' \in [Server -> [identifier: Name \cup {NoName}, listener: Task \cup {NoTask}, incoming: Seq(Nat)]]
      /\ \A k \in Server : s_servers'[k].incoming = IF k = h THEN T ELSE Q[k]
      /\ \A k \in Server : s_servers'[k].identifier = s_servers[k].identifier /\ s_servers'[k].listener = s_servers[k].listener
  <2>1. s_servers \in [Server -> [identifier: Name \cup {NoName}, listener: Task \cup {NoTask}, incoming: Seq(Nat)]]
    BY DEF ChanTypes
  <2>2. s_servers' \in [Server -> [identifier: Name \cup {NoName}, listener: Task \cup {NoTask}, incoming: Seq(Nat)]]
    BY <1>8, <2>1
  <2>3. s_servers'[h].incoming = T /\ \A k \in Server : k # h => s_servers'[k] = s_servers[k]
    BY <1>8, <2>1
  <2>4. s_servers'[h].identifier = s_servers[h].identifier /\ s_servers'[h].listener = s_servers[h].listener
    BY <1>8, <2>1
  <2> QED BY <1>2, <2>2, <2>3, <2>4
<1> DEFINE new == [channels[c] EXCEPT !.pids = [channels[c].pids EXCEPT ![1] = q]]
<1>10. channels' = [channels EXCEPT ![c] = new]
  <2>1. channels' = [channels EXCEPT ![Head(s_servers[h].incoming)].pids[1] = OwnerOf[t]] BY DEF TakeFirst
  <2> QED BY <1>1, <1>7, <2>1
<1>11. channels[c] \in Chan /\ channels[c].pids \in [Side -> Proc \cup {NoProc}] BY <1>7, ChanFields
<1>12. new \in Chan /\ new.pids[0] = channels[c].pids[0] /\ new.pids[1] = q /\ new.p = channels[c].p
      /\ new.listeners = channels[c].listeners /\ new.is_closed = channels[c].is_closed
  <2>1. [channels[c].pids EXCEPT ![1] = q] \in [Side -> Proc \cup {NoProc}] BY <1>1, <1>11 DEF Side
  <2>2. new \in Chan /\ new.pids = [channels[c].pids EXCEPT ![1] = q] /\ new.p = channels[c].p
      /\ new.listeners = channels[c].listeners /\ new.is_closed = channels[c].is_closed
    BY <1>11, <2>1 DEF Chan
  <2> HIDE DEF new
  <2> QED BY <1>11, <2>2 DEF Side
<1>13. handles' = handle_alloc(q, "channel", c) BY <1>1, <1>7 DEF TakeFirst
<1> HIDE DEF new
<1>14. /\ channels' \in Seq(Chan) /\ Len(channels') = Len(channels)
       /\ \A d \in Connections : channels'[d] = IF d = c THEN new ELSE channels[d]
  BY <1>7, <1>10, <1>12, SeqUpdate DEF ChanTypes, Connections
<1>15. \A d \in Connections : /\ channels'[d].p = channels[d].p /\ channels'[d].listeners = channels[d].listeners
                             /\ channels'[d].is_closed = channels[d].is_closed
  BY <1>12, <1>14
<1>16. \A d \in Connections : d \in 1 .. Len(channels') /\ PidsKept(d)
  BY <1>7, <1>12, <1>14 DEF PidsKept, Connections
<1>17. /\ handles' \in [Proc -> [Handle -> [type: Types, ptr: Nat]]]
       /\ \A r \in Proc : \A d \in Held(r)' : d \in Held(r) \/ (r = q /\ d = c)
  <2>1. c \in Nat /\ "channel" \in Types BY <1>7 DEF Connections, Types
  <2> QED BY <1>13, <2>1, HeldAfter
<1>18. \A d \in Task : pc'[d] = pc[d] \/ (d = t /\ pc'[d] = User) BY DEF ChanTypes
<1>19. ChanTypes'
  <2>1. User \in [at: Calls, arg: Nat, len: Nat] /\ User.at = "user" BY DEF User, Calls
  <2>2. pc' \in [Task -> [at: Calls, arg: Nat, len: Nat]] BY <2>1 DEF ChanTypes
  <2>3. \A d \in Task : /\ pc'[d].at \in {"accept", "accept_early"} => pc'[d].arg \in Server
                        /\ pc'[d].at = "recv" => pc'[d].arg \in Connections
    BY <1>18, <2>1 DEF ChanTypes
  <2> QED BY <1>9, <1>14, <1>17, <2>2, <2>3 DEF ChanTypes, Connections
<1>20. StreamInv' BY <1>14, <1>15, StreamStep
<1>21. HandleInv'
  <2>1. Sides(c, q)' # {} BY <1>7, <1>12, <1>14 DEF Sides, Side
  <2>2. c \in 1 .. Len(channels') BY <1>7, <1>14 DEF Connections
  <2>3. \A r \in Proc : \A d \in Held(r)' : d \in Held(r) \/ (d \in 1 .. Len(channels') /\ Sides(d, r)' # {})
    BY <1>17, <2>1, <2>2
  <2> QED BY <1>16, <2>3, HandleStep
<1>22. AcceptInv'
  <2> SUFFICES ASSUME NEW d \in Task, state'[d] = "blocked", pc'[d].at = "accept"
               PROVE  /\ s_servers'[pc'[d].arg].identifier # NoName
                      /\ s_servers'[pc'[d].arg].listener = d
                      /\ s_servers'[pc'[d].arg].incoming = <<>>
    BY DEF AcceptInv
  <2>1. pc'[d] = pc[d] /\ state[d] = "blocked" /\ pc[d].arg \in Server BY <1>18 DEF User, ChanTypes
  <2>2. /\ s_servers[pc[d].arg].identifier # NoName /\ s_servers[pc[d].arg].listener = d
        /\ s_servers[pc[d].arg].incoming = <<>>
    BY <2>1 DEF AcceptInv
  <2>3. pc[d].arg # h BY <2>2 DEF TakeFirst
  <2> QED BY <1>2, <1>9, <2>1, <2>2, <2>3
<1>23. RecvInv'
  <2>1. \A d \in Task, e \in 1 .. Len(channels') : WaitsIn(d, e)' => e \in Connections /\ WaitsIn(d, e)
    BY <1>14, <1>18 DEF WaitsIn, Connections, User
  <2>2. \A d \in Task, e \in 1 .. Len(channels') : WaitsIn(d, e)' =>
          /\ e \in Connections /\ WaitsIn(d, e)
          /\ LET s == SideOf(e, OwnerOf[d])
             IN  /\ channels'[e].listeners[s] = channels[e].listeners[s]
                 /\ channels'[e].p[1 - s].count = 0
                 /\ channels'[e].is_closed[1 - s] = channels[e].is_closed[1 - s]
    BY <1>15, <2>1 DEF RecvInv
  <2> QED BY <1>16, <2>2, RecvStep
<1>24. ExitInv'
  <2>1. q \notin exited BY <1>1 DEF ExitInv
  <2>2. \A r \in exited : Held(r)' \subseteq Held(r) BY <1>17, <2>1 DEF ChanTypes
  <2> QED BY <1>15, <1>16, <2>2, ExitStep
<1>25. QueueInv'
  <2> DEFINE at(k, i) == IF k = h THEN i + 1 ELSE i
  <2>1. \A k \in Server : \A i \in 1 .. Len(s_servers'[k].incoming) :
          at(k, i) \in 1 .. Len(Q[k]) /\ s_servers'[k].incoming[i] = Q[k][at(k, i)] /\ i \in Nat \ {0}
    <3> SUFFICES ASSUME NEW k \in Server, NEW i \in 1 .. Len(s_servers'[k].incoming)
                 PROVE  at(k, i) \in 1 .. Len(Q[k]) /\ s_servers'[k].incoming[i] = Q[k][at(k, i)] /\ i \in Nat \ {0}
      OBVIOUS
    <3>1. CASE k = h BY <1>4, <1>9, <3>1
    <3>2. CASE k # h BY <1>5, <1>9, <3>2
    <3> QED BY <3>1, <3>2
  <2>2. \A k \in Server : Len(s_servers'[k].incoming) <= MAX_PENDING
    <3>1. MAX_PENDING \in Nat BY ChannelAssumption
    <3>2. Len(T) <= MAX_PENDING BY <1>4, <1>5, <3>1
    <3> QED BY <1>5, <1>9, <3>2
  <2>3. \A k \in Server : \A i \in 1 .. Len(s_servers'[k].incoming) : s_servers'[k].incoming[i] \in Connections'
    <3>1. Connections' = Connections BY <1>14 DEF Connections
    <3> SUFFICES ASSUME NEW k \in Server, NEW i \in 1 .. Len(s_servers'[k].incoming)
                 PROVE  s_servers'[k].incoming[i] \in Connections
      BY <3>1
    <3> HIDE DEF at
    <3>2. at(k, i) \in 1 .. Len(Q[k]) /\ s_servers'[k].incoming[i] = Q[k][at(k, i)] BY <2>1
    <3> QED BY <1>5, <3>2
  <2>4. QueuedOnce'
    <3>1. ASSUME NEW k \in Server, NEW l \in Server, NEW i \in 1 .. Len(s_servers'[k].incoming),
                 NEW j \in 1 .. Len(s_servers'[l].incoming),
                 s_servers'[k].incoming[i] = s_servers'[l].incoming[j]
          PROVE  k = l /\ i = j
      <4>1. k = l /\ at(k, i) = at(l, j)
        <5> HIDE DEF at
        <5>1. at(k, i) \in 1 .. Len(Q[k]) /\ s_servers'[k].incoming[i] = Q[k][at(k, i)] BY <2>1
        <5>2. at(l, j) \in 1 .. Len(Q[l]) /\ s_servers'[l].incoming[j] = Q[l][at(l, j)] BY <2>1
        <5>3. \A a, b \in Server : \A m \in 1 .. Len(Q[a]), n \in 1 .. Len(Q[b]) : Q[a][m] = Q[b][n] => a = b /\ m = n
          BY <1>5
        <5>4. PICK m \in 1 .. Len(Q[k]) : m = at(k, i) /\ s_servers'[k].incoming[i] = Q[k][m] BY <5>1
        <5>5. PICK n \in 1 .. Len(Q[l]) : n = at(l, j) /\ s_servers'[l].incoming[j] = Q[l][n] BY <5>2
        <5>6. Q[k][m] = Q[l][n] BY <3>1, <5>4, <5>5
        <5>7. k = l /\ m = n BY <5>3, <5>6
        <5> QED BY <5>4, <5>5, <5>7
      <4> QED BY <2>1, <4>1
    <3>2. ASSUME NEW k \in Server, NEW i \in 1 .. Len(s_servers'[k].incoming),
                 NEW j \in 1 .. Len(s_servers'[k].incoming), i < j
          PROVE  s_servers'[k].incoming[i] < s_servers'[k].incoming[j]
      <4>1. at(k, i) < at(k, j) BY <2>1, <3>2
      <4> HIDE DEF at
      <4>2. PICK m \in 1 .. Len(Q[k]) : m = at(k, i) /\ s_servers'[k].incoming[i] = Q[k][m]
        <5>1. at(k, i) \in 1 .. Len(Q[k]) /\ s_servers'[k].incoming[i] = Q[k][at(k, i)] BY <2>1
        <5> QED BY <5>1
      <4>3. PICK n \in 1 .. Len(Q[k]) : n = at(k, j) /\ s_servers'[k].incoming[j] = Q[k][n]
        <5>1. at(k, j) \in 1 .. Len(Q[k]) /\ s_servers'[k].incoming[j] = Q[k][at(k, j)] BY <2>1
        <5> QED BY <5>1
      <4>4. m < n BY <4>1, <4>2, <4>3
      <4>5. \A a \in Server : \A x, y \in 1 .. Len(Q[a]) : x < y => Q[a][x] < Q[a][y] BY <1>5
      <4>6. Q[k][m] < Q[k][n] BY <4>4, <4>5
      <4> QED BY <4>2, <4>3, <4>6
    <3>3. ASSUME NEW k \in Server, NEW i \in 1 .. Len(s_servers'[k].incoming)
          PROVE  channels'[s_servers'[k].incoming[i]].pids[1] = NoProc
      <4>1. ~(k = h /\ at(k, i) = 1) BY <2>1
      <4> HIDE DEF at
      <4>2. Q[k][at(k, i)] # c
        <5>1. at(k, i) \in 1 .. Len(Q[k]) BY <2>1
        <5>2. Q[k][at(k, i)] = Q[h][1] => k = h /\ at(k, i) = 1 BY <1>5, <1>6, <5>1
        <5> QED BY <1>7, <4>1, <5>2
      <4>3. Q[k][at(k, i)] \in Connections /\ channels[Q[k][at(k, i)]].pids[1] = NoProc BY <1>5, <2>1
      <4> QED BY <1>14, <2>1, <4>2, <4>3
    <3> QED BY <3>1, <3>2, <3>3 DEF QueuedOnce
  <2> QED BY <2>2, <2>3, <2>4 DEF QueueInv
<1> QED BY <1>19, <1>20, <1>21, <1>22, <1>23, <1>24, <1>25
(* ipc_accept that finds a connection keeps the invariant.                 *)
LEMMA AcceptKeeps ==
  ASSUME ChanInv, NEW t \in Task, NEW h \in Server, ipc_accept(t, h) PROVE ChanInv'
BY TakeKeeps DEF ipc_accept, InUser

\* A step that only ends a call of t.
LEMMA ReturnKeeps ==
  ASSUME ChanInv, NEW t \in Task, state[t] = "ready", pc' = [pc EXCEPT ![t] = User],
         UNCHANGED <<s_servers, channels, handles, state, exited, sent, rcvd>>
  PROVE  ChanInv'
<1> USE DEF ChanInv
<1>1. User \in [at: Calls, arg: Nat, len: Nat] /\ User.at = "user" BY DEF User, Calls
<1>2. \A d \in Task : pc'[d] = pc[d] \/ (d = t /\ pc'[d] = User) BY DEF ChanTypes
<1>3. ChanTypes'
  <2>1. pc' \in [Task -> [at: Calls, arg: Nat, len: Nat]] BY <1>1 DEF ChanTypes
  <2> QED BY <1>1, <1>2, <2>1 DEF ChanTypes, Connections
<1>4. \A c \in Connections : c \in 1 .. Len(channels') /\ PidsKept(c) BY SamePids
<1>5. \A r : Held(r)' = Held(r) BY DEF Held
<1>6. StreamInv' BY StreamStep
<1>7. QueueInv' BY QueueStep
<1>8. HandleInv' BY <1>4, <1>5, HandleStep
<1>9. AcceptInv' BY <1>1, <1>2 DEF AcceptInv
<1>10. RecvInv'
  <2>1. \A d \in Task, c \in 1 .. Len(channels') : WaitsIn(d, c)' => c \in Connections /\ WaitsIn(d, c)
    BY <1>1, <1>2 DEF WaitsIn, Connections
  <2> QED BY <1>4, <2>1, RecvStep DEF RecvInv
<1>11. ExitInv' BY <1>4, <1>5, ExitStep
<1> QED BY <1>3, <1>6, <1>7, <1>8, <1>9, <1>10, <1>11

(* A server that was woken takes the first connection or returns without   *)
(* one.                                                                    *)
LEMMA AcceptResumeKeeps ==
  ASSUME ChanInv, NEW t \in Task, ipc_accept_resume(t) PROVE ChanInv'
<1>1. /\ state[t] = "ready" /\ pc[t].at \in {"accept", "accept_early"} /\ pc' = [pc EXCEPT ![t] = User]
      /\ UNCHANGED <<state, exited, sent, rcvd>>
  BY DEF ipc_accept_resume, Resumed, Return
<1>2. PICK h \in Server : h = pc[t].arg BY <1>1 DEF ChanInv, ChanTypes
<1>3. CASE TakeFirst(t, h) BY <1>1, <1>3, TakeKeeps
<1>4. CASE UNCHANGED <<s_servers, channels, handles>> BY <1>1, <1>4, ReturnKeeps
<1> QED BY <1>2, <1>3, <1>4 DEF ipc_accept_resume

\* What task_set_ready does to the tasks.
LEMMA WakeLemma ==
  ASSUME ChanTypes, NEW T
  PROVE  /\ wake(T) \in [Task -> {"ready", "blocked", "dead"}]
         /\ \A d \in Task : /\ wake(T)[d] = "blocked" => state[d] = "blocked" /\ d \notin T
                            /\ state[d] = "dead" => wake(T)[d] = "dead"
BY DEF wake, ChanTypes

\* A step that leaves the servers, the handles and the processes of the channels.
LEMMA ChannelStep ==
  ASSUME ChanInv, UNCHANGED <<s_servers, handles>>, Len(channels') = Len(channels),
         \A d \in Connections : channels'[d].pids = channels[d].pids
  PROVE  /\ \A d \in Connections : d \in 1 .. Len(channels') /\ PidsKept(d)
         /\ \A r : Held(r)' = Held(r)
         /\ QueueInv' /\ HandleInv'
<1> USE DEF ChanInv
<1>1. \A d \in Connections : d \in 1 .. Len(channels') /\ PidsKept(d) BY DEF PidsKept, Connections
<1>2. \A r : Held(r)' = Held(r) BY DEF Held
<1>3. QueueInv' BY QueueStep
<1>4. HandleInv' BY <1>1, <1>2, HandleStep
<1> QED BY <1>1, <1>2, <1>3, <1>4

(* SYS_IPC_SEND: the bytes that fit follow the ones that wait, and the     *)
(* listener of the other side is woken.                                    *)
LEMMA SendKeeps ==
  ASSUME ChanInv, NEW t \in Task, NEW c \in Connections, NEW n \in Nat, SYS_IPC_SEND(t, c, n)
  PROVE  ChanInv'
<1> USE DEF ChanInv
<1>1. UNCHANGED <<s_servers, handles, pc, exited, rcvd>> BY DEF SYS_IPC_SEND
<1>2. PICK s \in Side : s = SideOf(c, OwnerOf[t]) BY SideLemma DEF SYS_IPC_SEND
<1>3. PICK P \in PipeType({}) : P = channels[c].p[s] BY ChanFields
<1>4. PICK L : L = channels[c].listeners[1 - s] OBVIOUS
<1>5. PICK m \in 0 .. MaxBytes : m = sent[c][s]
  <2>1. sent[c] \in [Side -> 0 .. MaxBytes] BY ElementOfSeq DEF ChanTypes, Connections
  <2> QED BY <2>1
<1> DEFINE data == [i \in 1 .. n |-> m + i]
<1>6. m \in Nat /\ m + n <= MaxBytes BY <1>2, <1>5, ChannelAssumption DEF SYS_IPC_SEND
<1>7. data \in Seq(Byte) /\ Len(data) = n
  <2>1. \A i \in 1 .. n : m + i \in 1 .. MaxBytes BY <1>6, ChannelAssumption
  <2>2. data \in [1 .. n -> Byte] BY <2>1, ChannelAssumption
  <2> QED BY <2>2, FunctionIsSeq
<1>8. PICK D \in Seq(Byte) : D = data BY <1>7
<1>9. PICK k : k = pipe_accepts(P, D) OBVIOUS
<1>10. PICK R : R = pipe_store(P, D) OBVIOUS
<1>11. RingOK(P) /\ rcvd[c][s] \o Contents(P) = Numbers(m)
  BY <1>3, <1>5 DEF StreamInv
<1>12. /\ k \in 0 .. n /\ R \in PipeType({}) /\ RingOK(R)
       /\ Contents(R) = Contents(P) \o SubSeq(D, 1, k)
  <2>1. Len(D) = n BY <1>7, <1>8
  <2> QED BY <1>9, <1>10, <1>11, <2>1, StoreLemma
<1>13. rcvd[c][s] \o Contents(R) = Numbers(m + k) /\ m + k \in 0 .. MaxBytes
  <2>1. rcvd[c] \in [Side -> Seq(Byte)] BY ElementOfSeq DEF ChanTypes, Connections
  <2>2. rcvd[c][s] \in Seq(Byte) BY <2>1
  <2>3. P.count \in Nat BY DEF PipeType
  <2>4. Contents(P) \in Seq(Byte) BY <2>3, ContentsType DEF Contents
  <2>5. rcvd[c][s] \o (Contents(P) \o SubSeq(data, 1, k)) = Numbers(m + k)
    <3>1. PICK x \in Seq(Byte), y \in Seq(Byte) : x = rcvd[c][s] /\ y = Contents(P) BY <2>2, <2>4
    <3>2. x \o y = Numbers(m) BY <1>11, <3>1
    <3>3. m \in Nat /\ n \in Nat /\ k \in 0 .. n /\ m + n <= MaxBytes BY <1>6, <1>12
    <3>4. D = Following(m, n) BY <1>8 DEF Following
    <3>5. x \o (y \o SubSeq(D, 1, k)) = Numbers(m + k)
      <4> HIDE DEF data
      <4>1. x \o (y \o SubSeq(Following(m, n), 1, k)) = Numbers(m + k) BY <3>2, <3>3, StreamSend
      <4> QED BY <3>4, <4>1
    <3> HIDE DEF data
    <3> QED BY <1>8, <3>1, <3>5
  <2> HIDE DEF data
  <2>6. rcvd[c][s] \o Contents(R) = Numbers(m + k) BY <1>8, <1>12, <2>5
  <2>7. m + k \in 0 .. MaxBytes BY <1>6, <1>12, ChannelAssumption
  <2> QED BY <2>6, <2>7
<1>14. /\ channels' = [channels EXCEPT ![c].p[s] = R, ![c].listeners[1 - s] = NoTask]
       /\ sent' = [sent EXCEPT ![c][s] = m + k]
       /\ state' = wake({L})
  <2>1. data = Message(c, s, n) BY <1>5 DEF Message
  <2>2. D = Message(c, s, n) BY <1>8, <2>1
  <2> HIDE DEF data
  <2>3. /\ channels' = [channels EXCEPT ![c].p[s] = pipe_store(@, Message(c, s, n)), ![c].listeners[1 - s] = NoTask]
        /\ sent' = [sent EXCEPT ![c][s] = @ + pipe_accepts(channels[c].p[s], Message(c, s, n))]
        /\ state' = wake({channels[c].listeners[1 - s]})
    BY <1>2 DEF SYS_IPC_SEND
  <2> QED BY <1>3, <1>4, <1>5, <1>9, <1>10, <2>2, <2>3
<1> HIDE DEF data
<1> DEFINE new == [channels[c] EXCEPT !.p = [channels[c].p EXCEPT ![s] = R],
                                      !.listeners = [channels[c].listeners EXCEPT ![1 - s] = NoTask]]
<1>15. channels' = [channels EXCEPT ![c] = new] BY <1>14
<1>16. /\ new \in Chan /\ new.pids = channels[c].pids /\ new.is_closed = channels[c].is_closed
       /\ new.p[s] = R /\ new.p[1 - s] = channels[c].p[1 - s]
       /\ new.listeners[s] = channels[c].listeners[s]
  <2>1. /\ channels[c] \in Chan /\ channels[c].p \in [Side -> PipeType({})]
        /\ channels[c].listeners \in [Side -> Task \cup {NoTask}]
    BY ChanFields
  <2>2. PICK np : np = [channels[c].p EXCEPT ![s] = R] OBVIOUS
  <2>3. PICK nl : nl = [channels[c].listeners EXCEPT ![1 - s] = NoTask] OBVIOUS
  <2>4. s \in Side /\ 1 - s \in Side /\ 1 - s # s BY DEF Side
  <2>5. np \in [Side -> PipeType({})] /\ np[s] = R /\ np[1 - s] = channels[c].p[1 - s] BY <1>12, <2>1, <2>2, <2>4
  <2>6. nl \in [Side -> Task \cup {NoTask}] /\ nl[s] = channels[c].listeners[s] BY <2>1, <2>3, <2>4
  <2>7. new = [channels[c] EXCEPT !.p = np, !.listeners = nl] BY <2>2, <2>3
  <2>8. new \in Chan /\ new.pids = channels[c].pids /\ new.is_closed = channels[c].is_closed /\ new.p = np /\ new.listeners = nl
    <3> HIDE DEF new
    <3> QED BY <2>1, <2>5, <2>6, <2>7 DEF Chan
  <2> HIDE DEF new
  <2> QED BY <2>5, <2>6, <2>8
<1> HIDE DEF new
<1>17. /\ channels' \in Seq(Chan) /\ Len(channels') = Len(channels)
       /\ \A d \in Connections : channels'[d] = IF d = c THEN new ELSE channels[d]
  BY <1>15, <1>16, SeqUpdate DEF ChanTypes, Connections
<1>18. \A d \in Connections : channels'[d].pids = channels[d].pids /\ channels'[d].is_closed = channels[d].is_closed
  BY <1>16, <1>17
<1>19. /\ \A d \in Connections : d \in 1 .. Len(channels') /\ PidsKept(d)
       /\ \A r : Held(r)' = Held(r)
       /\ QueueInv' /\ HandleInv'
  BY <1>1, <1>17, <1>18, ChannelStep
<1>20. /\ state' \in [Task -> {"ready", "blocked", "dead"}]
       /\ \A d \in Task : /\ state'[d] = "blocked" => state[d] = "blocked" /\ d # L
                          /\ state[d] = "dead" => state'[d] = "dead"
  BY <1>14, WakeLemma
<1>21. /\ sent' \in Seq([Side -> 0 .. MaxBytes]) /\ Len(sent') = Len(sent)
       /\ \A d \in Connections, r \in Side : sent'[d][r] = IF d = c /\ r = s THEN m + k ELSE sent[d][r]
  <2> DEFINE e == [sent[c] EXCEPT ![s] = m + k]
  <2>1. sent' = [sent EXCEPT ![c] = e] BY <1>14
  <2>2. sent[c] \in [Side -> 0 .. MaxBytes] BY ElementOfSeq DEF ChanTypes, Connections
  <2>3. e \in [Side -> 0 .. MaxBytes] /\ \A r \in Side : e[r] = IF r = s THEN m + k ELSE sent[c][r]
    BY <1>13, <2>2
  <2> HIDE DEF e
  <2>4. /\ sent' \in Seq([Side -> 0 .. MaxBytes]) /\ Len(sent') = Len(sent)
        /\ \A d \in Connections : sent'[d] = IF d = c THEN e ELSE sent[d]
    <3>1. sent \in Seq([Side -> 0 .. MaxBytes]) /\ c \in 1 .. Len(sent) /\ Connections = 1 .. Len(sent)
      BY DEF ChanTypes, Connections
    <3> QED BY <2>1, <2>3, <3>1, SeqUpdate
  <2> QED BY <2>3, <2>4
<1>22. ChanTypes' BY <1>1, <1>17, <1>20, <1>21 DEF ChanTypes, Connections
<1>23. StreamInv'
  <2> SUFFICES ASSUME NEW d \in Connections, NEW r \in Side
               PROVE  /\ RingOK(channels'[d].p[r])
                      /\ rcvd[d][r] \o Contents(channels'[d].p[r]) = Numbers(sent'[d][r])
    BY <1>1, <1>17, StreamFrom
  <2>1. CASE d = c /\ r = s
    <3>1. channels'[d].p[r] = R /\ sent'[d][r] = m + k BY <1>16, <1>17, <1>21, <2>1
    <3> QED BY <1>12, <1>13, <2>1, <3>1
  <2>2. CASE ~(d = c /\ r = s)
    <3>1. d = c => r = 1 - s BY <2>2 DEF Side
    <3>2. channels'[d].p[r] = channels[d].p[r] /\ sent'[d][r] = sent[d][r] BY <1>16, <1>17, <1>21, <2>2, <3>1
    <3>3. RingOK(channels[d].p[r]) /\ rcvd[d][r] \o Contents(channels[d].p[r]) = Numbers(sent[d][r]) BY DEF StreamInv
    <3> QED BY <3>2, <3>3
  <2> QED BY <2>1, <2>2
<1>24. AcceptInv' BY <1>1, <1>20 DEF AcceptInv
<1>25. RecvInv'
  <2>1. ASSUME NEW d \in Task, NEW e \in 1 .. Len(channels'), WaitsIn(d, e)'
        PROVE  /\ e \in Connections /\ WaitsIn(d, e)
               /\ LET x == SideOf(e, OwnerOf[d])
                  IN  /\ channels'[e].listeners[x] = channels[e].listeners[x]
                      /\ channels'[e].p[1 - x].count = 0
                      /\ channels'[e].is_closed[1 - x] = channels[e].is_closed[1 - x]
    <3>1. e \in Connections /\ WaitsIn(d, e) /\ d # L BY <1>1, <1>17, <1>20, <2>1 DEF WaitsIn, Connections
    <3>2. PICK x \in Side : x = SideOf(e, OwnerOf[d]) BY <3>1, SideLemma DEF RecvInv
    <3>3. channels[e].listeners[x] = d /\ channels[e].p[1 - x].count = 0 BY <3>1, <3>2 DEF RecvInv
    <3>4. e = c => x = s BY <1>4, <3>1, <3>3 DEF Side
    <3>5. channels'[e].listeners[x] = channels[e].listeners[x] /\ channels'[e].p[1 - x] = channels[e].p[1 - x]
      BY <1>16, <1>17, <3>1, <3>4
    <3> QED BY <1>18, <3>1, <3>2, <3>3, <3>5
  <2> QED BY <1>19, <2>1, RecvStep
<1>26. ExitInv' BY <1>1, <1>18, <1>19, <1>20, ExitStep
<1> QED BY <1>19, <1>22, <1>23, <1>24, <1>25, <1>26
(* channel_recv takes the oldest bytes of the pipe of the other side; a    *)
(* pipe that is empty for someone who waits stays empty.                   *)
LEMMA ReceiveKeeps ==
  ASSUME ChanInv, NEW t \in Task, NEW c \in Connections, NEW n \in Nat,
         CanRecv(t, c), Receive(t, c, n), state[t] = "ready", state' = state,
         pc' = pc \/ pc' = [pc EXCEPT ![t] = User],
         UNCHANGED <<s_servers, handles, exited, sent>>
  PROVE  ChanInv'
<1> USE DEF ChanInv
<1>1. PICK s \in Side : s = 1 - SideOf(c, OwnerOf[t])
  <2>1. SideOf(c, OwnerOf[t]) \in Side BY SideLemma DEF CanRecv
  <2>2. 1 - SideOf(c, OwnerOf[t]) \in Side BY <2>1 DEF Side
  <2> QED BY <2>2
<1>2. PICK P \in PipeType({}) : P = channels[c].p[s] BY ChanFields
<1>3. PICK R : R = pipe_take(P, n) OBVIOUS
<1>4. PICK D : D = pipe_data(P, n) OBVIOUS
<1>5. PICK a \in Seq(Byte) : a = rcvd[c][s]
  <2>1. rcvd[c] \in [Side -> Seq(Byte)] BY ElementOfSeq DEF ChanTypes, Connections
  <2> QED BY <2>1
<1>6. RingOK(P) /\ a \o Contents(P) = Numbers(sent[c][s])
  BY <1>2, <1>5 DEF StreamInv
<1>7. /\ R \in PipeType({}) /\ RingOK(R) /\ (P.count = 0 => R.count = 0)
      /\ a \o D \in Seq(Byte)
      /\ (a \o D) \o Contents(R) = Numbers(sent[c][s])
  <2> DEFINE k == Least(n, P.count)
             B == Contents(P)
  <2>1. /\ k \in 0 .. P.count /\ R \in PipeType({}) /\ RingOK(R) /\ R.count = P.count - k
        /\ B \in Seq(Byte) /\ Len(B) = P.count /\ D = SubSeq(B, 1, k)
        /\ Contents(R) = SubSeq(B, k + 1, Len(B))
    BY <1>3, <1>4, <1>6, TakeLemma
  <2> HIDE DEF k, B
  <2>2. P.count = 0 => R.count = 0
    <3> SUFFICES ASSUME P.count = 0 PROVE R.count = 0 OBVIOUS
    <3>1. k \in 0 .. 0 /\ R.count = 0 - k BY <2>1
    <3>2. k = 0 BY <3>1
    <3> QED BY <3>1, <3>2
  <2>3. (a \o SubSeq(B, 1, k)) \o SubSeq(B, k + 1, Len(B)) = a \o B
    <3>1. k \in 0 .. Len(B) /\ B \in Seq(Byte) BY <2>1
    <3> QED BY <3>1, StreamTake
  <2>4. D \in Seq(Byte) BY <1>4, ContentsType
  <2>5. a \o D \in Seq(Byte) BY <2>4, ConcatProperties
  <2> QED BY <1>6, <2>1, <2>2, <2>3, <2>5 DEF B
<1>8. /\ channels' = [channels EXCEPT ![c].p[s] = R]
      /\ rcvd' = [rcvd EXCEPT ![c][s] = a \o D]
  <2>1. /\ channels' = [channels EXCEPT ![c].p[s] = pipe_take(channels[c].p[s], n)]
        /\ rcvd' = [rcvd EXCEPT ![c][s] = rcvd[c][s] \o pipe_data(channels[c].p[s], n)]
    BY <1>1 DEF Receive, recv_side
  <2> QED BY <1>2, <1>3, <1>4, <1>5, <2>1
<1> DEFINE new == [channels[c] EXCEPT !.p = [channels[c].p EXCEPT ![s] = R]]
<1>9. channels' = [channels EXCEPT ![c] = new] BY <1>8
<1>10. /\ new \in Chan /\ new.pids = channels[c].pids /\ new.is_closed = channels[c].is_closed
       /\ new.listeners = channels[c].listeners
       /\ new.p[s] = R /\ new.p[1 - s] = channels[c].p[1 - s]
  <2>1. channels[c] \in Chan /\ channels[c].p \in [Side -> PipeType({})] BY ChanFields
  <2>2. PICK np : np = [channels[c].p EXCEPT ![s] = R] OBVIOUS
  <2>3. s \in Side /\ 1 - s \in Side /\ 1 - s # s BY DEF Side
  <2>4. np \in [Side -> PipeType({})] /\ np[s] = R /\ np[1 - s] = channels[c].p[1 - s] BY <1>7, <2>1, <2>2, <2>3
  <2>5. new = [channels[c] EXCEPT !.p = np] BY <2>2
  <2>6. new \in Chan /\ new.pids = channels[c].pids /\ new.is_closed = channels[c].is_closed /\ new.p = np
        /\ new.listeners = channels[c].listeners
    <3> HIDE DEF new
    <3> QED BY <2>1, <2>4, <2>5 DEF Chan
  <2> HIDE DEF new
  <2> QED BY <2>4, <2>6
<1> HIDE DEF new
<1>11. /\ channels' \in Seq(Chan) /\ Len(channels') = Len(channels)
       /\ \A d \in Connections : channels'[d] = IF d = c THEN new ELSE channels[d]
  BY <1>9, <1>10, SeqUpdate DEF ChanTypes, Connections
<1>12. \A d \in Connections : /\ channels'[d].pids = channels[d].pids /\ channels'[d].is_closed = channels[d].is_closed
                             /\ channels'[d].listeners = channels[d].listeners
  BY <1>10, <1>11
<1>13. /\ \A d \in Connections : d \in 1 .. Len(channels') /\ PidsKept(d)
       /\ \A r : Held(r)' = Held(r)
       /\ QueueInv' /\ HandleInv'
  BY <1>11, <1>12, ChannelStep
<1>14. /\ rcvd' \in Seq([Side -> Seq(Byte)]) /\ Len(rcvd') = Len(rcvd)
       /\ \A d \in Connections, r \in Side : rcvd'[d][r] = IF d = c /\ r = s THEN a \o D ELSE rcvd[d][r]
  <2> DEFINE e == [rcvd[c] EXCEPT ![s] = a \o D]
  <2>1. rcvd' = [rcvd EXCEPT ![c] = e] BY <1>8
  <2>2. rcvd[c] \in [Side -> Seq(Byte)] BY ElementOfSeq DEF ChanTypes, Connections
  <2>3. e \in [Side -> Seq(Byte)] /\ \A r \in Side : e[r] = IF r = s THEN a \o D ELSE rcvd[c][r]
    BY <1>7, <2>2
  <2> HIDE DEF e
  <2>4. /\ rcvd' \in Seq([Side -> Seq(Byte)]) /\ Len(rcvd') = Len(rcvd)
        /\ \A d \in Connections : rcvd'[d] = IF d = c THEN e ELSE rcvd[d]
    <3>1. rcvd \in Seq([Side -> Seq(Byte)]) /\ c \in 1 .. Len(rcvd) /\ Connections = 1 .. Len(rcvd)
      BY DEF ChanTypes, Connections
    <3> QED BY <2>1, <2>3, <3>1, SeqUpdate
  <2> QED BY <2>3, <2>4
<1>15. User \in [at: Calls, arg: Nat, len: Nat] /\ User.at = "user" BY DEF User, Calls
<1>16. \A d \in Task : pc'[d] = pc[d] \/ (d = t /\ pc'[d] = User) BY DEF ChanTypes
<1>17. ChanTypes'
  <2>1. pc' \in [Task -> [at: Calls, arg: Nat, len: Nat]] BY <1>15 DEF ChanTypes
  <2>2. \A d \in Task : /\ pc'[d].at \in {"accept", "accept_early"} => pc'[d].arg \in Server
                        /\ pc'[d].at = "recv" => pc'[d].arg \in Connections
    BY <1>15, <1>16 DEF ChanTypes
  <2> QED BY <1>11, <1>14, <2>1, <2>2 DEF ChanTypes, Connections
<1>18. StreamInv'
  <2> SUFFICES ASSUME NEW d \in Connections, NEW r \in Side
               PROVE  /\ RingOK(channels'[d].p[r])
                      /\ rcvd'[d][r] \o Contents(channels'[d].p[r]) = Numbers(sent[d][r])
    BY <1>11, StreamFrom
  <2>1. CASE d = c /\ r = s
    <3>1. channels'[d].p[r] = R /\ rcvd'[d][r] = a \o D BY <1>10, <1>11, <1>14, <2>1
    <3> QED BY <1>7, <2>1, <3>1
  <2>2. CASE ~(d = c /\ r = s)
    <3>1. d = c => r = 1 - s BY <2>2 DEF Side
    <3>2. channels'[d].p[r] = channels[d].p[r] /\ rcvd'[d][r] = rcvd[d][r] BY <1>10, <1>11, <1>14, <2>2, <3>1
    <3>3. RingOK(channels[d].p[r]) /\ rcvd[d][r] \o Contents(channels[d].p[r]) = Numbers(sent[d][r]) BY DEF StreamInv
    <3> QED BY <3>2, <3>3
  <2> QED BY <2>1, <2>2
<1>19. AcceptInv' BY <1>15, <1>16 DEF AcceptInv
<1>20. RecvInv'
  <2>1. ASSUME NEW d \in Task, NEW e \in 1 .. Len(channels'), WaitsIn(d, e)'
        PROVE  /\ e \in Connections /\ WaitsIn(d, e)
               /\ LET x == SideOf(e, OwnerOf[d])
                  IN  /\ channels'[e].listeners[x] = channels[e].listeners[x]
                      /\ channels'[e].p[1 - x].count = 0
                      /\ channels'[e].is_closed[1 - x] = channels[e].is_closed[1 - x]
    <3>1. e \in Connections /\ WaitsIn(d, e) BY <1>11, <1>15, <1>16, <2>1 DEF WaitsIn, Connections
    <3>2. PICK x \in Side : x = SideOf(e, OwnerOf[d]) BY <3>1, SideLemma DEF RecvInv
    <3>3. channels[e].p[1 - x].count = 0 BY <3>1, <3>2 DEF RecvInv
    <3>4. 1 - x = s \/ 1 - x = 1 - s BY DEF Side
    <3>5. channels'[e].p[1 - x].count = 0 BY <1>2, <1>7, <1>10, <1>11, <3>1, <3>3, <3>4
    <3> QED BY <1>12, <3>1, <3>2, <3>5
  <2> QED BY <1>13, <2>1, RecvStep
<1>21. ExitInv' BY <1>12, <1>13, ExitStep
<1> QED BY <1>13, <1>17, <1>18, <1>19, <1>20, <1>21

(* SYS_IPC_RECV that finds bytes keeps the invariant.                      *)
LEMMA RecvKeeps ==
  ASSUME ChanInv, NEW t \in Task, NEW c \in Connections, NEW n \in Nat, SYS_IPC_RECV(t, c, n)
  PROVE  ChanInv'
BY ReceiveKeeps DEF SYS_IPC_RECV, InUser

(* A receiver that was woken receives, or returns -1 when its peer has     *)
(* closed.                                                                 *)
LEMMA RecvResumeKeeps ==
  ASSUME ChanInv, NEW t \in Task, SYS_IPC_RECV_resume(t) PROVE ChanInv'
<1>1. /\ state[t] = "ready" /\ pc[t].at = "recv" /\ pc' = [pc EXCEPT ![t] = User]
      /\ UNCHANGED <<s_servers, handles, state, exited, sent>>
  BY DEF SYS_IPC_RECV_resume, Resumed, Return
<1>2. PICK c \in Connections : c = pc[t].arg BY <1>1 DEF ChanInv, ChanTypes
<1>3. PICK n \in Nat : n = pc[t].len BY DEF ChanInv, ChanTypes
<1>4. CASE CanRecv(t, c) /\ Receive(t, c, n) BY <1>1, <1>4, ReceiveKeeps
<1>5. CASE UNCHANGED <<channels, rcvd>> BY <1>1, <1>5, ReturnKeeps
<1> QED BY <1>2, <1>3, <1>4, <1>5 DEF SYS_IPC_RECV_resume

(* SYS_IPC_RECV of an empty channel whose peer has not closed makes the    *)
(* task the listener of its side, which channel_set_listener allows only   *)
(* when there is none, and blocks it.                                      *)
LEMMA RecvBlockKeeps ==
  ASSUME ChanInv, NEW t \in Task, NEW c \in Connections, NEW n \in Nat, SYS_IPC_RECV_block(t, c, n)
  PROVE  ChanInv'
<1> USE DEF ChanInv
<1>1. UNCHANGED <<s_servers, handles, exited, sent, rcvd>> BY DEF SYS_IPC_RECV_block
<1>2. Sides(c, OwnerOf[t]) # {} BY DEF SYS_IPC_RECV_block, CanRecv
<1>3. PICK s \in Side : s = SideOf(c, OwnerOf[t]) BY <1>2, SideLemma
<1>4. /\ ~channels[c].is_closed[1 - s] /\ channels[c].p[1 - s].count = 0 /\ channels[c].listeners[s] = NoTask
      /\ channels' = [channels EXCEPT ![c].listeners[s] = t]
  BY <1>3 DEF SYS_IPC_RECV_block, CanRecv, recv_side, channel_set_listener
<1>5. /\ state' = [state EXCEPT ![t] = "blocked"] /\ state[t] = "ready"
      /\ pc' = [pc EXCEPT ![t] = [at |-> "recv", arg |-> c, len |-> n]]
  BY DEF SYS_IPC_RECV_block, Block, InUser
<1> DEFINE new == [channels[c] EXCEPT !.listeners = [channels[c].listeners EXCEPT ![s] = t]]
<1>6. channels' = [channels EXCEPT ![c] = new] BY <1>4
<1>7. /\ new \in Chan /\ new.pids = channels[c].pids /\ new.is_closed = channels[c].is_closed
      /\ new.p = channels[c].p /\ new.listeners[s] = t
      /\ \A x \in Side : x # s => new.listeners[x] = channels[c].listeners[x]
  <2>1. channels[c] \in Chan /\ channels[c].listeners \in [Side -> Task \cup {NoTask}] BY ChanFields
  <2>2. PICK nl : nl = [channels[c].listeners EXCEPT ![s] = t] OBVIOUS
  <2>3. nl \in [Side -> Task \cup {NoTask}] /\ nl[s] = t /\ \A x \in Side : x # s => nl[x] = channels[c].listeners[x]
    BY <2>1, <2>2
  <2>4. new = [channels[c] EXCEPT !.listeners = nl] BY <2>2
  <2>5. new \in Chan /\ new.pids = channels[c].pids /\ new.is_closed = channels[c].is_closed
        /\ new.p = channels[c].p /\ new.listeners = nl
    <3> HIDE DEF new
    <3> QED BY <2>1, <2>3, <2>4 DEF Chan
  <2> HIDE DEF new
  <2> QED BY <2>3, <2>5
<1> HIDE DEF new
<1>8. /\ channels' \in Seq(Chan) /\ Len(channels') = Len(channels)
      /\ \A d \in Connections : channels'[d] = IF d = c THEN new ELSE channels[d]
  BY <1>6, <1>7, SeqUpdate DEF ChanTypes, Connections
<1>9. \A d \in Connections : /\ channels'[d].pids = channels[d].pids /\ channels'[d].is_closed = channels[d].is_closed
                            /\ channels'[d].p = channels[d].p
  BY <1>7, <1>8
<1>10. /\ \A d \in Connections : d \in 1 .. Len(channels') /\ PidsKept(d)
       /\ \A r : Held(r)' = Held(r)
       /\ QueueInv' /\ HandleInv'
  BY <1>1, <1>8, <1>9, ChannelStep
<1>11. ChanTypes'
  <2>1. c \in Nat BY DEF Connections
  <2>2. pc' \in [Task -> [at: Calls, arg: Nat, len: Nat]] BY <1>5, <2>1 DEF ChanTypes, Calls
  <2>3. \A d \in Task : /\ pc'[d].at \in {"accept", "accept_early"} => pc'[d].arg \in Server
                        /\ pc'[d].at = "recv" => pc'[d].arg \in Connections
    BY <1>5 DEF ChanTypes
  <2>4. state' \in [Task -> {"ready", "blocked", "dead"}] BY <1>5 DEF ChanTypes
  <2> QED BY <1>1, <1>8, <2>2, <2>3, <2>4 DEF ChanTypes, Connections
<1>12. StreamInv' BY <1>1, <1>8, <1>9, StreamStep
<1>13. AcceptInv' BY <1>1, <1>5 DEF AcceptInv, ChanTypes
<1>14. RecvInv'
  <2> SUFFICES ASSUME NEW d \in Task, NEW e \in 1 .. Len(channels'), WaitsIn(d, e)'
               PROVE  LET x == SideOf(e, OwnerOf[d])'
                      IN  /\ Sides(e, OwnerOf[d])' # {}
                          /\ channels'[e].listeners[x] = d
                          /\ channels'[e].p[1 - x].count = 0
                          /\ ~channels'[e].is_closed[1 - x]
    BY DEF RecvInv, Connections
  <2>1. e \in Connections BY <1>8 DEF Connections
  <2>2. OwnerOf[d] \in Proc BY ChannelAssumption
  <2>3. CASE d = t
    <3>1. e = c BY <1>5, <2>3 DEF WaitsIn, ChanTypes
    <3>2. Sides(c, OwnerOf[d])' # {} /\ SideOf(c, OwnerOf[d])' = s BY <1>2, <1>3, <1>10, <2>2, <2>3, SideKept
    <3> QED BY <1>4, <1>7, <1>8, <1>9, <2>3, <3>1, <3>2
  <2>4. CASE d # t
    <3>1. WaitsIn(d, e) BY <1>5, <2>4 DEF WaitsIn, ChanTypes
    <3>2. Sides(e, OwnerOf[d]) # {} BY <2>1, <3>1 DEF RecvInv
    <3>3. PICK x \in Side : x = SideOf(e, OwnerOf[d]) BY <3>2, SideLemma
    <3>4. /\ channels[e].listeners[x] = d /\ channels[e].p[1 - x].count = 0
          /\ ~channels[e].is_closed[1 - x]
      BY <2>1, <3>1, <3>3 DEF RecvInv
    <3>5. e = c => x # s BY <1>4, <3>4, ChannelAssumption
    <3>6. channels'[e].listeners[x] = d BY <1>7, <1>8, <2>1, <3>4, <3>5
    <3>7. Sides(e, OwnerOf[d])' # {} /\ SideOf(e, OwnerOf[d])' = x BY <1>10, <2>1, <2>2, <3>2, <3>3, SideKept
    <3> QED BY <1>9, <2>1, <3>4, <3>6, <3>7
  <2> QED BY <2>3, <2>4
<1>15. ExitInv' BY <1>1, <1>5, <1>9, <1>10, ExitStep DEF ChanTypes
<1> QED BY <1>10, <1>11, <1>12, <1>13, <1>14, <1>15
(* Closing a set of channels of a process wakes whoever waits at their     *)
(* other sides, so that every receiver that still waits has an open peer.  *)
LEMMA CloseStep ==
  ASSUME ChanInv, NEW q \in Proc, NEW C \in SUBSET Held(q), channels' = channel_close(C, q),
         state' \in [Task -> {"ready", "blocked", "dead"}],
         \A d \in Task : /\ state'[d] = "blocked" => state[d] = "blocked" /\ d \notin close_wakes(C, q)
                         /\ state[d] = "dead" => state'[d] = "dead",
         exited' \in SUBSET Proc,
         UNCHANGED <<s_servers, handles, pc, sent, rcvd>>
  PROVE  /\ ChanTypes' /\ StreamInv' /\ QueueInv' /\ HandleInv' /\ AcceptInv' /\ RecvInv'
         /\ \A d \in Connections : PidsKept(d) /\ \A s \in Side :
              channels[d].is_closed[s] => channels'[d].is_closed[s]
         /\ \A r : Held(r)' = Held(r)
         /\ \A c \in C : channels'[c].is_closed[SideOf(c, q)]
<1> USE DEF ChanInv
<1> DEFINE new(c) == [channels[c] EXCEPT !.is_closed[SideOf(c, q)] = TRUE,
                                         !.listeners[1 - SideOf(c, q)] = NoTask]
<1>1. \A c \in C : c \in Connections /\ Sides(c, q) # {} BY DEF HandleInv
<1>2. Len(channels) \in Nat /\ DOMAIN channels = Connections /\ channels \in [Connections -> Chan]
  <2>1. channels \in Seq(Chan) BY DEF ChanTypes
  <2> QED BY <2>1, LenProperties, ElementOfSeq DEF Connections
<1>3. channels' = [c \in Connections |-> IF c \notin C THEN channels[c] ELSE new(c)]
  BY <1>2 DEF channel_close
<1>4. ASSUME NEW c \in C
      PROVE  LET s == SideOf(c, q)
             IN  /\ s \in Side /\ new(c) \in Chan
                 /\ new(c).pids = channels[c].pids /\ new(c).p = channels[c].p
                 /\ new(c).is_closed[s] /\ new(c).is_closed[1 - s] = channels[c].is_closed[1 - s]
                 /\ new(c).listeners[s] = channels[c].listeners[s]
  <2>1. PICK s \in Side : s = SideOf(c, q) BY <1>1, SideLemma
  <2>2. s \in Side /\ 1 - s \in Side /\ 1 - s # s BY DEF Side
  <2>3. /\ channels[c] \in Chan /\ channels[c].is_closed \in [Side -> BOOLEAN]
        /\ channels[c].listeners \in [Side -> Task \cup {NoTask}]
    BY <1>1, ChanFields
  <2>4. PICK nc : nc = [channels[c].is_closed EXCEPT ![s] = TRUE] OBVIOUS
  <2>5. PICK nl : nl = [channels[c].listeners EXCEPT ![1 - s] = NoTask] OBVIOUS
  <2>6. nc \in [Side -> BOOLEAN] /\ nc[s] = TRUE /\ nc[1 - s] = channels[c].is_closed[1 - s]
    BY <2>2, <2>3, <2>4
  <2>7. nl \in [Side -> Task \cup {NoTask}] /\ nl[s] = channels[c].listeners[s] BY <2>2, <2>3, <2>5
  <2>8. PICK nw : nw = new(c) OBVIOUS
  <2>9. nw = [channels[c] EXCEPT !.is_closed = nc, !.listeners = nl] BY <2>1, <2>4, <2>5, <2>8
  <2>10. nw \in Chan /\ nw.pids = channels[c].pids /\ nw.p = channels[c].p /\ nw.is_closed = nc /\ nw.listeners = nl
    <3> HIDE DEF new
    <3> QED BY <2>3, <2>6, <2>7, <2>9 DEF Chan
  <2> HIDE DEF new
  <2> QED BY <2>1, <2>6, <2>7, <2>8, <2>10
<1> HIDE DEF new
<1>5. /\ channels' \in Seq(Chan) /\ Len(channels') = Len(channels)
      /\ \A d \in Connections : channels'[d] = IF d \notin C THEN channels[d] ELSE new(d)
  <2>1. channels' \in [Connections -> Chan] BY <1>2, <1>3, <1>4
  <2> QED BY <1>2, <1>3, <2>1, FunctionIsSeq DEF Connections
<1>6. \A d \in Connections : channels'[d].pids = channels[d].pids /\ channels'[d].p = channels[d].p
  BY <1>4, <1>5
<1>7. /\ \A d \in Connections : d \in 1 .. Len(channels') /\ PidsKept(d)
      /\ \A r : Held(r)' = Held(r)
      /\ QueueInv' /\ HandleInv'
  BY <1>5, <1>6, ChannelStep
<1>8. ASSUME NEW d \in Connections, NEW s \in Side, channels[d].is_closed[s] PROVE channels'[d].is_closed[s]
  <2>1. CASE d \notin C BY <1>5, <1>8, <2>1
  <2>2. CASE d \in C
    <3>1. PICK x \in Side : x = SideOf(d, q) BY <1>4, <2>2
    <3>2. new(d).is_closed[x] /\ new(d).is_closed[1 - x] = channels[d].is_closed[1 - x] BY <1>4, <2>2, <3>1
    <3>3. s = x \/ s = 1 - x BY DEF Side
    <3> QED BY <1>5, <1>8, <2>2, <3>2, <3>3
  <2> QED BY <2>1, <2>2
<1>9. \A c \in C : channels'[c].is_closed[SideOf(c, q)] BY <1>1, <1>4, <1>5
<1>10. ChanTypes' BY <1>5 DEF ChanTypes, Connections
<1>11. StreamInv' BY <1>5, <1>6, StreamStep
<1>12. AcceptInv' BY DEF AcceptInv
<1>13. RecvInv'
  <2>1. ASSUME NEW d \in Task, NEW e \in 1 .. Len(channels'), WaitsIn(d, e)'
        PROVE  /\ e \in Connections /\ WaitsIn(d, e)
               /\ LET x == SideOf(e, OwnerOf[d])
                  IN  /\ channels'[e].listeners[x] = channels[e].listeners[x]
                      /\ channels'[e].p[1 - x].count = 0
                      /\ channels'[e].is_closed[1 - x] = channels[e].is_closed[1 - x]
    <3>1. e \in Connections /\ WaitsIn(d, e) /\ d \notin close_wakes(C, q)
      BY <1>5, <2>1 DEF WaitsIn, Connections
    <3>2. PICK x \in Side : x = SideOf(e, OwnerOf[d]) BY <3>1, SideLemma DEF RecvInv
    <3>3. channels[e].listeners[x] = d /\ channels[e].p[1 - x].count = 0 BY <3>1, <3>2 DEF RecvInv
    <3>4. CASE e \notin C BY <1>5, <3>1, <3>2, <3>3, <3>4
    <3>5. CASE e \in C
      <4>1. PICK s \in Side : s = SideOf(e, q) BY <1>4, <3>5
      <4>2. channels[e].listeners[1 - s] # d BY <3>1, <3>5, <4>1 DEF close_wakes
      <4>3. x = s BY <3>3, <4>2 DEF Side
      <4>4. new(e).is_closed[1 - s] = channels[e].is_closed[1 - s] /\ new(e).listeners[s] = channels[e].listeners[s]
        BY <1>4, <3>5, <4>1
      <4> QED BY <1>5, <1>6, <3>1, <3>2, <3>3, <3>5, <4>3, <4>4
    <3> QED BY <3>4, <3>5
  <2> QED BY <1>7, <2>1, RecvStep
<1> QED BY <1>7, <1>8, <1>9, <1>10, <1>11, <1>12, <1>13

(* SYS_IPC_CHANNEL_CLOSE keeps the invariant.                              *)
LEMMA CloseKeeps ==
  ASSUME ChanInv, NEW t \in Task, NEW c \in Connections, SYS_IPC_CHANNEL_CLOSE(t, c) PROVE ChanInv'
<1> USE DEF ChanInv
<1>1. PICK q \in Proc : q = OwnerOf[t] BY ChannelAssumption
<1>2. PICK C \in SUBSET Held(q) : C = {c} BY <1>1 DEF SYS_IPC_CHANNEL_CLOSE
<1>3. /\ channels' = channel_close(C, q) /\ state' = wake(close_wakes(C, q))
      /\ UNCHANGED <<s_servers, handles, pc, exited, sent, rcvd>>
  BY <1>1, <1>2 DEF SYS_IPC_CHANNEL_CLOSE
<1>4. /\ state' \in [Task -> {"ready", "blocked", "dead"}]
      /\ \A d \in Task : /\ state'[d] = "blocked" => state[d] = "blocked" /\ d \notin close_wakes(C, q)
                         /\ state[d] = "dead" => state'[d] = "dead"
  BY <1>3, WakeLemma
<1>5. exited' \in SUBSET Proc BY <1>3 DEF ChanTypes
<1>6. /\ ChanTypes' /\ StreamInv' /\ QueueInv' /\ HandleInv' /\ AcceptInv' /\ RecvInv'
      /\ \A d \in Connections : PidsKept(d) /\ \A s \in Side :
           channels[d].is_closed[s] => channels'[d].is_closed[s]
      /\ \A r : Held(r)' = Held(r)
  BY <1>3, <1>4, <1>5, CloseStep
<1>7. ExitInv' BY <1>3, <1>4, <1>6, ExitStep
<1> QED BY <1>6, <1>7

(* SYS_EXIT of the last thread closes every channel the process has a      *)
(* handle of, wakes the peers, and leaves nothing that runs.               *)
LEMMA ExitKeeps == ASSUME ChanInv, NEW t \in Task, SYS_EXIT(t) PROVE ChanInv'
<1> USE DEF ChanInv
<1>1. PICK q \in Proc : q = OwnerOf[t] BY ChannelAssumption
<1>2. PICK C \in SUBSET Held(q) : C = Held(q) OBVIOUS
<1>3. /\ channels' = channel_close(C, q) /\ state' = [wake(close_wakes(C, q)) EXCEPT ![t] = "dead"]
      /\ exited' = exited \cup {q} /\ Threads(q) = {t} /\ UNCHANGED <<s_servers, handles, pc, sent, rcvd>>
  BY <1>1, <1>2 DEF SYS_EXIT, handle_close_all
<1>4. /\ state' \in [Task -> {"ready", "blocked", "dead"}] /\ state'[t] = "dead"
      /\ \A d \in Task : /\ state'[d] = "blocked" => state[d] = "blocked" /\ d \notin close_wakes(C, q)
                         /\ state[d] = "dead" => state'[d] = "dead"
  <2>1. PICK w \in [Task -> {"ready", "blocked", "dead"}] : w = wake(close_wakes(C, q)) BY WakeLemma
  <2>2. \A d \in Task : /\ w[d] = "blocked" => state[d] = "blocked" /\ d \notin close_wakes(C, q)
                        /\ state[d] = "dead" => w[d] = "dead"
    BY <2>1, WakeLemma
  <2>3. state' = [w EXCEPT ![t] = "dead"] BY <1>3, <2>1
  <2> QED BY <2>2, <2>3
<1>5. exited' \in SUBSET Proc BY <1>3 DEF ChanTypes
<1>6. /\ ChanTypes' /\ StreamInv' /\ QueueInv' /\ HandleInv' /\ AcceptInv' /\ RecvInv'
      /\ \A d \in Connections : PidsKept(d) /\ \A s \in Side :
           channels[d].is_closed[s] => channels'[d].is_closed[s]
      /\ \A r : Held(r)' = Held(r)
      /\ \A c \in C : channels'[c].is_closed[SideOf(c, q)]
  BY <1>3, <1>4, <1>5, CloseStep
<1>7. ExitInv'
  <2> SUFFICES ASSUME NEW r \in exited'
               PROVE  /\ \A d \in Task : OwnerOf[d] = r => state'[d] = "dead"
                      /\ \A c \in Held(r)' : channels'[c].is_closed[SideOf(c, r)']
    BY DEF ExitInv
  <2>1. r \in Proc BY <1>5
  <2>2. ASSUME NEW c \in Held(r)' PROVE /\ c \in Held(r) /\ c \in Connections
                                       /\ SideOf(c, r)' = SideOf(c, r) /\ SideOf(c, r) \in Side
    <3>1. c \in Held(r) /\ c \in Connections /\ Sides(c, r) # {} BY <1>6, <2>1, <2>2 DEF HandleInv
    <3> QED BY <1>6, <2>1, <3>1, SideKept, SideLemma
  <2>3. CASE r = q
    <3>1. \A d \in Task : OwnerOf[d] = q => d = t \/ state[d] = "dead" BY <1>3 DEF Threads
    <3> QED BY <1>2, <1>4, <1>6, <2>2, <2>3, <3>1
  <2>4. CASE r \in exited
    <3>1. \A c \in Held(r) : channels[c].is_closed[SideOf(c, r)] BY <2>4 DEF ExitInv
    <3>2. \A d \in Task : OwnerOf[d] = r => state'[d] = "dead" BY <1>4, <2>4 DEF ExitInv
    <3> QED BY <1>6, <2>2, <3>1, <3>2
  <2> QED BY <1>3, <2>3, <2>4
<1> QED BY <1>6, <1>7
(* ipc_connect makes a channel, puts it at the end of the queue of the     *)
(* server, or drops it when the queue is full, and wakes the listener. Its *)
(* number is above every one that waits: the queues stay ascending and no  *)
(* connection is in two.                                                   *)
LEMMA ConnectKeeps ==
  ASSUME ChanInv, NEW t \in Task, NEW name \in Name, ipc_connect(t, name) PROVE ChanInv'
<1> USE DEF ChanInv
<1>1. PICK q \in Proc : q = OwnerOf[t] /\ q # NoProc BY ChannelAssumption
<1>2. PICK c \in Nat : c = Len(channels) + 1 /\ channels \in Seq(Chan) /\ Len(channels) = c - 1
  <2>1. channels \in Seq(Chan) BY DEF ChanTypes
  <2>2. Len(channels) \in Nat BY <2>1, LenProperties
  <2> QED BY <2>1, <2>2
<1> DEFINE new == [pids |-> [s \in Side |-> IF s = 0 THEN q ELSE NoProc],
                   p |-> [s \in Side |-> pipe_create],
                   listeners |-> [s \in Side |-> NoTask],
                   is_closed |-> [s \in Side |-> FALSE]]
<1>3. PICK h \in Server :
        /\ channels' = Append(channels, new)
        /\ s_servers' = [s_servers EXCEPT ![h].incoming = enqueue_incomming(@, c), ![h].listener = NoTask]
        /\ state' = wake({s_servers[h].listener})
        /\ handles' = handle_alloc(q, "channel", c)
  BY <1>1, <1>2 DEF ipc_connect, Registered
<1>4. /\ sent' = Append(sent, [s \in Side |-> 0]) /\ rcvd' = Append(rcvd, [s \in Side |-> <<>>])
      /\ UNCHANGED <<pc, exited>>
  BY DEF ipc_connect
<1>5. /\ new \in Chan /\ new.pids[0] = q /\ new.pids[1] = NoProc
      /\ \A s \in Side : new.p[s] = pipe_create
  BY <1>1, CreateLemma DEF Chan, Side
<1> HIDE DEF new
<1>6. /\ channels' \in Seq(Chan) /\ Len(channels') = c /\ channels'[c] = new /\ c \notin Connections
      /\ \A d \in Connections : channels'[d] = channels[d] /\ d \in 1 .. c /\ d < c
      /\ \A d \in 1 .. c : d \in Connections \/ d = c
  <2>1. /\ Append(channels, new) \in Seq(Chan) /\ Len(Append(channels, new)) = Len(channels) + 1
        /\ \A i \in 1 .. Len(channels) : Append(channels, new)[i] = channels[i]
        /\ Append(channels, new)[Len(channels) + 1] = new
    BY <1>2, <1>5, AppendProperties
  <2> QED BY <1>2, <1>3, <2>1 DEF Connections
<1>7. /\ sent' \in Seq([Side -> 0 .. MaxBytes]) /\ Len(sent') = c /\ \A s \in Side : sent'[c][s] = 0
      /\ \A d \in Connections : sent'[d] = sent[d]
  <2> DEFINE e == [s \in Side |-> 0]
  <2>1. sent \in Seq([Side -> 0 .. MaxBytes]) /\ Len(sent) = c - 1 BY <1>2 DEF ChanTypes
  <2>2. e \in [Side -> 0 .. MaxBytes] /\ \A s \in Side : e[s] = 0 BY ChannelAssumption
  <2> HIDE DEF e
  <2>3. /\ Append(sent, e) \in Seq([Side -> 0 .. MaxBytes]) /\ Len(Append(sent, e)) = Len(sent) + 1
        /\ \A i \in 1 .. Len(sent) : Append(sent, e)[i] = sent[i]
        /\ Append(sent, e)[Len(sent) + 1] = e
    BY <2>1, <2>2, AppendProperties
  <2>4. sent' = Append(sent, e) BY <1>4 DEF e
  <2> QED BY <1>2, <2>1, <2>2, <2>3, <2>4 DEF Connections
<1>8. /\ rcvd' \in Seq([Side -> Seq(Byte)]) /\ Len(rcvd') = c /\ \A s \in Side : rcvd'[c][s] = <<>>
      /\ \A d \in Connections : rcvd'[d] = rcvd[d]
  <2> DEFINE e == [s \in Side |-> <<>>]
  <2>1. rcvd \in Seq([Side -> Seq(Byte)]) /\ Len(rcvd) = c - 1 BY <1>2 DEF ChanTypes
  <2>2. e \in [Side -> Seq(Byte)] /\ \A s \in Side : e[s] = <<>> BY EmptySeq
  <2> HIDE DEF e
  <2>3. /\ Append(rcvd, e) \in Seq([Side -> Seq(Byte)]) /\ Len(Append(rcvd, e)) = Len(rcvd) + 1
        /\ \A i \in 1 .. Len(rcvd) : Append(rcvd, e)[i] = rcvd[i]
        /\ Append(rcvd, e)[Len(rcvd) + 1] = e
    BY <2>1, <2>2, AppendProperties
  <2>4. rcvd' = Append(rcvd, e) BY <1>4 DEF e
  <2> QED BY <1>2, <2>1, <2>2, <2>3, <2>4 DEF Connections
<1>9. PICK Q \in [Server -> Seq(Nat)] : \A k \in Server : Q[k] = s_servers[k].incoming
  <2> DEFINE f == [k \in Server |-> s_servers[k].incoming]
  <2>1. f \in [Server -> Seq(Nat)] BY DEF ChanTypes
  <2> QED BY <2>1
<1>10. PICK N : N = enqueue_incomming(Q[h], c) OBVIOUS
<1>11. /\ N \in Seq(Nat) /\ Len(N) \in Nat /\ Len(Q[h]) \in Nat /\ Len(N) <= MAX_PENDING
       /\ \A i \in 1 .. Len(N) : (i \in 1 .. Len(Q[h]) /\ N[i] = Q[h][i]) \/ (i = Len(Q[h]) + 1 /\ N[i] = c)
  <2>1. Q[h] \in Seq(Nat) /\ Len(Q[h]) \in Nat /\ Len(Q[h]) <= MAX_PENDING
    <3>1. Q[h] \in Seq(Nat) OBVIOUS
    <3> QED BY <1>9, <3>1, LenProperties DEF QueueInv
  <2>2. CASE Len(Q[h]) = MAX_PENDING
    <3>1. N = Q[h] BY <1>10, <2>2 DEF enqueue_incomming
    <3> QED BY <2>1, <3>1
  <2>3. CASE Len(Q[h]) # MAX_PENDING
    <3>1. N = Append(Q[h], c) BY <1>10, <2>3 DEF enqueue_incomming
    <3>2. /\ N \in Seq(Nat) /\ Len(N) = Len(Q[h]) + 1 /\ N[Len(Q[h]) + 1] = c
          /\ \A i \in 1 .. Len(Q[h]) : N[i] = Q[h][i]
      BY <2>1, <3>1, AppendProperties
    <3>3. MAX_PENDING \in Nat BY ChannelAssumption
    <3> QED BY <2>1, <2>3, <3>2, <3>3
  <2> QED BY <2>2, <2>3
<1>12. /\ s_servers' \in [Server -> [identifier: Name \cup {NoName}, listener: Task \cup {NoTask}, incoming: Seq(Nat)]]
       /\ s_servers'[h].incoming = N
       /\ \A k \in Server : k # h => s_servers'[k] = s_servers[k]
  <2>1. s_servers \in [Server -> [identifier: Name \cup {NoName}, listener: Task \cup {NoTask}, incoming: Seq(Nat)]]
    BY DEF ChanTypes
  <2>2. s_servers' = [s_servers EXCEPT ![h].incoming = N, ![h].listener = NoTask]
    BY <1>3, <1>9, <1>10
  <2> QED BY <1>11, <2>1, <2>2
<1>13. /\ state' \in [Task -> {"ready", "blocked", "dead"}]
       /\ \A d \in Task : /\ state'[d] = "blocked" => state[d] = "blocked" /\ d # s_servers[h].listener
                          /\ state[d] = "dead" => state'[d] = "dead"
  BY <1>3, WakeLemma
<1>14. /\ handles' \in [Proc -> [Handle -> [type: Types, ptr: Nat]]]
       /\ \A r \in Proc : \A d \in Held(r)' : d \in Held(r) \/ (r = q /\ d = c)
  <2>1. "channel" \in Types BY DEF Types
  <2> QED BY <1>3, <2>1, HeldAfter
<1>15. \A d \in Connections : d \in 1 .. Len(channels') /\ PidsKept(d) BY <1>6 DEF PidsKept
<1>16. ChanTypes' BY <1>4, <1>6, <1>7, <1>8, <1>12, <1>13, <1>14 DEF ChanTypes, Connections
<1>17. StreamInv'
  <2> SUFFICES ASSUME NEW d \in 1 .. c, NEW r \in Side
               PROVE  /\ RingOK(channels'[d].p[r])
                      /\ rcvd'[d][r] \o Contents(channels'[d].p[r]) = Numbers(sent'[d][r])
    BY <1>6 DEF StreamInv, Connections, RingOK, Contents, pipe_data, Least, Numbers
  <2>1. CASE d = c
    <3>1. channels'[d].p[r] = pipe_create /\ rcvd'[d][r] = <<>> /\ sent'[d][r] = 0
      BY <1>5, <1>6, <1>7, <1>8, <2>1
    <3>2. Numbers(0) = <<>>
      <4>1. Numbers(0) \in Seq(Byte) /\ Len(Numbers(0)) = 0 BY NumbersType, ChannelAssumption
      <4> QED BY <4>1, EmptySeq
    <3>3. <<>> \o <<>> = <<>> OBVIOUS
    <3> QED BY <3>1, <3>2, <3>3, CreateLemma
  <2>2. CASE d \in Connections
    <3>1. channels'[d].p[r] = channels[d].p[r] /\ sent'[d][r] = sent[d][r] /\ rcvd'[d][r] = rcvd[d][r]
      BY <1>6, <1>7, <1>8, <2>2
    <3>2. RingOK(channels[d].p[r]) /\ rcvd[d][r] \o Contents(channels[d].p[r]) = Numbers(sent[d][r])
      BY <2>2 DEF StreamInv
    <3> QED BY <3>1, <3>2
  <2> QED BY <1>6, <2>1, <2>2
<1>18. HandleInv'
  <2>1. Sides(c, q)' # {} /\ c \in 1 .. Len(channels') BY <1>2, <1>5, <1>6 DEF Sides, Side
  <2>2. \A r \in Proc : \A d \in Held(r)' : d \in Held(r) \/ (d \in 1 .. Len(channels') /\ Sides(d, r)' # {})
    BY <1>14, <2>1
  <2> QED BY <1>15, <2>2, HandleStep
<1>19. AcceptInv'
  <2> SUFFICES ASSUME NEW d \in Task, state'[d] = "blocked", pc'[d].at = "accept"
               PROVE  /\ s_servers'[pc'[d].arg].identifier # NoName
                      /\ s_servers'[pc'[d].arg].listener = d
                      /\ s_servers'[pc'[d].arg].incoming = <<>>
    BY DEF AcceptInv
  <2>1. pc'[d] = pc[d] /\ state[d] = "blocked" /\ d # s_servers[h].listener /\ pc[d].arg \in Server
    BY <1>4, <1>13 DEF ChanTypes
  <2>2. /\ s_servers[pc[d].arg].identifier # NoName /\ s_servers[pc[d].arg].listener = d
        /\ s_servers[pc[d].arg].incoming = <<>>
    BY <2>1 DEF AcceptInv
  <2> QED BY <1>12, <2>1, <2>2
<1>20. RecvInv'
  <2>1. ASSUME NEW d \in Task, NEW e \in 1 .. Len(channels'), WaitsIn(d, e)'
        PROVE  /\ e \in Connections /\ WaitsIn(d, e)
               /\ LET x == SideOf(e, OwnerOf[d])
                  IN  /\ channels'[e].listeners[x] = channels[e].listeners[x]
                      /\ channels'[e].p[1 - x].count = 0
                      /\ channels'[e].is_closed[1 - x] = channels[e].is_closed[1 - x]
    <3>1. WaitsIn(d, e) BY <1>4, <1>13, <2>1 DEF WaitsIn
    <3>2. e \in Connections BY <3>1 DEF WaitsIn, ChanTypes
    <3>3. channels'[e] = channels[e] BY <1>6, <3>2
    <3> QED BY <3>1, <3>2, <3>3 DEF RecvInv
  <2> QED BY <1>15, <2>1, RecvStep
<1>21. ExitInv'
  <2>1. q \notin exited BY <1>1 DEF ExitInv, ipc_connect, InUser
  <2>2. \A r \in exited : Held(r)' \subseteq Held(r) BY <1>14, <2>1 DEF ChanTypes
  <2>3. \A d \in Connections : PidsKept(d) /\ \A s \in Side : channels[d].is_closed[s] => channels'[d].is_closed[s]
    BY <1>6, <1>15
  <2> QED BY <1>4, <1>13, <2>2, <2>3, ExitStep
<1>22. QueueInv'
  <2>1. /\ \A k \in Server : Len(Q[k]) <= MAX_PENDING /\ Len(Q[k]) \in Nat
        /\ \A k \in Server : \A i \in 1 .. Len(Q[k]) : Q[k][i] \in Connections /\ channels[Q[k][i]].pids[1] = NoProc
        /\ \A k, l \in Server : \A i \in 1 .. Len(Q[k]), j \in 1 .. Len(Q[l]) : Q[k][i] = Q[l][j] => k = l /\ i = j
        /\ \A k \in Server : \A i, j \in 1 .. Len(Q[k]) : i < j => Q[k][i] < Q[k][j]
    BY <1>9, QueueFacts
  <2>2. \A k \in Server : k # h => s_servers'[k].incoming = Q[k] BY <1>9, <1>12
  <2> DEFINE Old(k, i) == i \in 1 .. Len(Q[k]) /\ s_servers'[k].incoming[i] = Q[k][i]
             New(k, i) == k = h /\ i = Len(Q[h]) + 1 /\ s_servers'[k].incoming[i] = c
  <2>3. ASSUME NEW k \in Server, NEW i \in 1 .. Len(s_servers'[k].incoming) PROVE Old(k, i) \/ New(k, i)
    <3>1. CASE k = h BY <1>11, <1>12, <2>3, <3>1
    <3>2. CASE k # h BY <2>2, <2>3, <3>2
    <3> QED BY <3>1, <3>2
  <2>4. \A k \in Server : Len(s_servers'[k].incoming) <= MAX_PENDING BY <1>11, <1>12, <2>1, <2>2
  <2>5. \A k \in Server : \A i \in 1 .. Len(s_servers'[k].incoming) : s_servers'[k].incoming[i] \in 1 .. c
    <3> SUFFICES ASSUME NEW k \in Server, NEW i \in 1 .. Len(s_servers'[k].incoming)
                 PROVE  s_servers'[k].incoming[i] \in 1 .. c
      OBVIOUS
    <3>1. CASE Old(k, i)
      <4>1. Q[k][i] \in Connections BY <2>1, <3>1
      <4> QED BY <1>6, <3>1, <4>1
    <3>2. CASE New(k, i) BY <1>2, <1>6, <3>2
    <3> HIDE DEF Old, New
    <3> QED BY <2>3, <3>1, <3>2
  <2>6. ASSUME NEW k \in Server, NEW l \in Server, NEW i \in 1 .. Len(s_servers'[k].incoming),
               NEW j \in 1 .. Len(s_servers'[l].incoming),
               s_servers'[k].incoming[i] = s_servers'[l].incoming[j]
        PROVE  k = l /\ i = j
    <3>1. CASE Old(k, i) /\ Old(l, j)
      <4>1. Q[k][i] = Q[l][j] BY <2>6, <3>1
      <4>2. \A m \in 1 .. Len(Q[k]), n \in 1 .. Len(Q[l]) : Q[k][m] = Q[l][n] => k = l /\ m = n BY <2>1
      <4> QED BY <3>1, <4>1, <4>2
    <3>2. CASE Old(k, i) /\ New(l, j)
      <4>1. Q[k][i] \in Connections BY <2>1, <3>2
      <4> QED BY <1>6, <2>6, <3>2, <4>1
    <3>3. CASE New(k, i) /\ Old(l, j)
      <4>1. Q[l][j] \in Connections BY <2>1, <3>3
      <4> QED BY <1>6, <2>6, <3>3, <4>1
    <3>4. CASE New(k, i) /\ New(l, j) BY <3>4
    <3> HIDE DEF Old, New
    <3> QED BY <2>3, <3>1, <3>2, <3>3, <3>4
  <2>7. ASSUME NEW k \in Server, NEW i \in 1 .. Len(s_servers'[k].incoming),
               NEW j \in 1 .. Len(s_servers'[k].incoming), i < j
        PROVE  s_servers'[k].incoming[i] < s_servers'[k].incoming[j]
    <3>1. CASE Old(k, i) /\ Old(k, j)
      <4>1. \A m, n \in 1 .. Len(Q[k]) : m < n => Q[k][m] < Q[k][n] BY <2>1
      <4> QED BY <2>7, <3>1, <4>1
    <3>2. CASE Old(k, i) /\ New(k, j)
      <4>1. Q[k][i] \in Connections BY <2>1, <3>2
      <4> QED BY <1>6, <3>2, <4>1
    <3>3. CASE New(k, i) /\ (Old(k, j) \/ New(k, j)) BY <1>11, <2>7, <3>3
    <3> HIDE DEF Old, New
    <3> QED BY <2>3, <3>1, <3>2, <3>3
  <2>8. ASSUME NEW k \in Server, NEW i \in 1 .. Len(s_servers'[k].incoming)
        PROVE  channels'[s_servers'[k].incoming[i]].pids[1] = NoProc
    <3>1. CASE Old(k, i)
      <4>1. Q[k][i] \in Connections /\ channels[Q[k][i]].pids[1] = NoProc BY <2>1, <3>1
      <4> QED BY <1>6, <3>1, <4>1
    <3>2. CASE New(k, i) BY <1>5, <1>6, <3>2
    <3> HIDE DEF Old, New
    <3> QED BY <2>3, <3>1, <3>2
  <2>9. QueuedOnce' BY <2>6, <2>7, <2>8 DEF QueuedOnce
  <2> QED BY <1>6, <2>4, <2>5, <2>9 DEF QueueInv, Connections
<1> QED BY <1>16, <1>17, <1>18, <1>19, <1>20, <1>21, <1>22

-----------------------------------------------------------------------------
(* A step that changes nothing keeps the invariant.                        *)
LEMMA StutterKeeps ==
  ASSUME ChanInv, UNCHANGED <<s_servers, channels, handles, state, pc, exited, sent, rcvd>> PROVE ChanInv'
<1> USE DEF ChanInv
<1>1. \A c \in Connections : c \in 1 .. Len(channels') /\ PidsKept(c) BY SamePids
<1>2. \A r : Held(r)' = Held(r) BY DEF Held
<1>3. ChanTypes' BY DEF ChanTypes, Connections
<1>4. StreamInv' BY StreamStep
<1>5. QueueInv' BY QueueStep
<1>6. HandleInv' BY <1>1, <1>2, HandleStep
<1>7. AcceptInv' BY DEF AcceptInv
<1>8. RecvInv'
  <2>1. \A d \in Task, c \in 1 .. Len(channels') : WaitsIn(d, c)' => c \in Connections /\ WaitsIn(d, c)
    BY DEF WaitsIn, Connections
  <2> QED BY <1>1, <2>1, RecvStep DEF RecvInv
<1>9. ExitInv' BY <1>1, <1>2, ExitStep
<1> QED BY <1>3, <1>4, <1>5, <1>6, <1>7, <1>8, <1>9

(* Every step of the channels keeps the invariant.                         *)
LEMMA ChanNextInv == ASSUME ChanInv, [Next]_chanVars PROVE ChanInv'
<1>1. DOMAIN channels = Connections
  <2>1. channels \in Seq(Chan) BY DEF ChanInv, ChanTypes
  <2> QED BY <2>1, LenProperties DEF Connections
<1>2. \A n \in 1 .. MaxLen : n \in Nat BY ChannelAssumption
<1>3. CASE UNCHANGED chanVars BY <1>3, StutterKeeps DEF chanVars
<1>4. ASSUME NEW t \in Task, SYS_PIPE(t) PROVE ChanInv' BY <1>4, PipeKeeps
<1>5. ASSUME NEW t \in Task, SYS_EXIT(t) PROVE ChanInv' BY <1>5, ExitKeeps
<1>6. ASSUME NEW t \in Task, ipc_accept_resume(t) PROVE ChanInv' BY <1>6, AcceptResumeKeeps
<1>7. ASSUME NEW t \in Task, SYS_IPC_RECV_resume(t) PROVE ChanInv' BY <1>7, RecvResumeKeeps
<1>8. ASSUME NEW t \in Task, NEW name \in Name, ipc_server(t, name) \/ ipc_connect(t, name) PROVE ChanInv'
  BY <1>8, ServerKeeps, ConnectKeeps
<1>9. ASSUME NEW t \in Task, NEW h \in Server, ipc_accept(t, h) \/ ipc_accept_block(t, h) PROVE ChanInv'
  BY <1>9, AcceptKeeps, AcceptBlockKeeps
<1>10. ASSUME NEW t \in Task, NEW u \in Task, SYS_THREAD_KILL(t, u) PROVE ChanInv' BY <1>10, KillKeeps
<1>11. ASSUME NEW t \in Task, NEW c \in DOMAIN channels, SYS_IPC_CHANNEL_CLOSE(t, c) PROVE ChanInv'
  BY <1>1, <1>11, CloseKeeps
<1>12. ASSUME NEW t \in Task, NEW c \in DOMAIN channels, NEW n \in 1 .. MaxLen,
              SYS_IPC_SEND(t, c, n) \/ SYS_IPC_RECV(t, c, n) \/ SYS_IPC_RECV_block(t, c, n)
       PROVE  ChanInv'
  BY <1>1, <1>2, <1>12, SendKeeps, RecvKeeps, RecvBlockKeeps
<1> QED BY <1>3, <1>4, <1>5, <1>6, <1>7, <1>8, <1>9, <1>10, <1>11, <1>12 DEF Next

(* The invariant holds in every state.                                     *)
LEMMA ChanAlwaysInv == Spec => []ChanInv
BY ChanInitInv, ChanNextInv, PTL DEF Spec

(* The streams of the invariant are the order the property asks for.       *)
LEMMA ImpliesInOrder == ASSUME ChanInv PROVE InOrder
<1> USE DEF ChanInv
<1>1. DOMAIN channels = Connections
  <2>1. channels \in Seq(Chan) BY DEF ChanTypes
  <2> QED BY <2>1, LenProperties DEF Connections
<1>2. ChanTypeOK BY <1>1, ChanFields DEF ChanTypeOK, ChanTypes, QueueInv
<1> QED BY <1>1, <1>2 DEF InOrder, StreamInv, Numbers

(* For every number of processes, tasks, servers, channels and bytes: each *)
(* side of a channel receives the bytes the other side sent, in order,     *)
(* none lost or repeated, whatever the sends, receives, closes, accepts    *)
(* and exits in between (channel_send and channel_recv over pipe.c).       *)
THEOREM ChannelsInOrder == Spec => []InOrder
BY ImpliesInOrder, ChanAlwaysInv, PTL

(* A connection waits in the queue of one server and once, in the order of *)
(* ipc_connect, until ipc_accept gives it its second process.              *)
THEOREM ConnectionsQueuedOnce == Spec => []QueuedOnce
<1>1. ChanInv => QueuedOnce BY DEF ChanInv, QueueInv
<1> QED BY <1>1, ChanAlwaysInv, PTL

(* A receiver of the invariant is one the property allows.                 *)
LEMMA ImpliesReceiverNotForgotten == ASSUME ChanInv PROVE ReceiverNotForgotten
<1> USE DEF ChanInv
<1>1. AccepterNotForgotten BY DEF AccepterNotForgotten, AcceptInv
<1>2. \A t \in Task : state[t] = "blocked" /\ pc[t].at = "recv" =>
        pc[t].arg \in Connections /\ WaitsIn(t, pc[t].arg)
  BY DEF WaitsIn, ChanTypes
<1> QED BY <1>1, <1>2 DEF ReceiverNotForgotten, RecvInv

(* No wake-up is lost: a task blocked in SYS_IPC_RECV is the listener of   *)
(* its side, nothing waits in its pipe and the peer has not closed; a task *)
(* blocked in ipc_accept is the listener of a server without connections   *)
(* that wait                                                               *)
THEOREM ReceiversWoken == Spec => []ReceiverNotForgotten
BY ImpliesReceiverNotForgotten, ChanAlwaysInv, PTL

(* The peer a receiver waits for has not closed, so it has not exited.     *)
LEMMA ImpliesPeerAlive == ASSUME ChanInv PROVE PeerAlive
<1> USE DEF ChanInv
<1> SUFFICES ASSUME NEW t \in Task, state[t] = "blocked", pc[t].at = "recv",
                    NEW peer \in exited, peer = channels[pc[t].arg].pids[1 - SideOf(pc[t].arg, OwnerOf[t])],
                    pc[t].arg \in Held(peer)
             PROVE  FALSE
  BY DEF PeerAlive
<1>1. PICK c \in Connections : c = pc[t].arg BY DEF ChanTypes
<1>2. WaitsIn(t, c) BY <1>1 DEF WaitsIn
<1>3. PICK s \in Side : s = SideOf(c, OwnerOf[t]) /\ channels[c].pids[s] = OwnerOf[t]
  BY <1>2, SideLemma DEF RecvInv
<1>4. ~channels[c].is_closed[1 - s] BY <1>2, <1>3 DEF RecvInv
<1>5. peer # OwnerOf[t] BY DEF ExitInv
<1>6. peer = channels[c].pids[1 - s] /\ peer \in Proc BY <1>1, <1>3 DEF ChanTypes
<1>7. Sides(c, peer) # {} BY <1>1, <1>6 DEF HandleInv
<1>8. SideOf(c, peer) \in Side /\ channels[c].pids[SideOf(c, peer)] = peer BY <1>7, SideLemma
<1>9. SideOf(c, peer) = 1 - s BY <1>3, <1>5, <1>8 DEF Side
<1>10. channels[c].is_closed[SideOf(c, peer)] BY <1>1 DEF ExitInv
<1> QED BY <1>4, <1>9, <1>10

(* No task waits for a process that is gone: handle_close_all of           *)
(* process_exit closes the channels the process has handles of and wakes   *)
(* the other sides, so that a task blocked in SYS_IPC_RECV has no peer     *)
(* that exited and had a handle                                            *)
THEOREM ReceiversPeerAlive == Spec => []PeerAlive
BY ImpliesPeerAlive, ChanAlwaysInv, PTL

=============================================================================
