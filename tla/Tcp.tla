-------------------------------- MODULE Tcp --------------------------------
(***************************************************************************)
(* TCP, kernel/net/tcp.c, on two machines that both run it: Client opens   *)
(* connections to the port Server listens on.  The system calls do not     *)
(* reach tcp_active and tcp_passive yet (tcp_connect and tcp_listen are    *)
(* empty); they are used here as their declarations in tcp.h say.          *)
(*                                                                         *)
(* tcpNet holds every segment ever sent.  A segment may be delivered at    *)
(* any time, again, or never: the network loses, repeats and reorders, and *)
(* the code sends nothing twice.  A connection is known by the client's    *)
(* port.  The n-th byte a program sends on a connection has the value n.   *)
(* Sequence numbers are modulo SEQ_RANGE; the buffers are rings and        *)
(* nothing keeps a sender from filling them beyond their size.             *)
(***************************************************************************)
EXTENDS Integers, Sequences, FiniteSets

CONSTANTS
  Client, Server,
  TCP_MAX_CONNECTIONS,  \* 4
  TCP_BACKLOG_SIZE,     \* 4
  TCP_BUFFER,           \* 4096, sizeof recv_buf and send_buf
  SEQ_RANGE,            \* 2^32
  InitialSeqs,          \* what rand32 returns
  RandomIds,            \* what rand16 returns: no id a program holds
  MaxOpens,             \* bound: connections opened by the client
  MaxIncoming,          \* bound: connections the server takes
  MaxBytes              \* bound: host -> bytes it sends on a connection

Host == {Client, Server}
TcpSlot == 1 .. TCP_MAX_CONNECTIONS

ASSUME TcpAssumption ==
  /\ Client # Server
  /\ {TCP_MAX_CONNECTIONS, TCP_BACKLOG_SIZE, TCP_BUFFER, SEQ_RANGE} \subseteq Nat \ {0}
  /\ SEQ_RANGE % TCP_BUFFER = 0
  /\ InitialSeqs \subseteq 0 .. SEQ_RANGE - 1 /\ RandomIds \cap 0 .. MaxOpens = {}
  /\ {MaxOpens, MaxIncoming} \subseteq Nat
  /\ \A h \in Host : MaxBytes[h] \in Nat /\ MaxBytes[h] + 3 < SEQ_RANGE

VARIABLES
  g_active_sockets,   \* host -> slot -> connection
  listening,          \* the server's passive socket is in use
  backlog,            \* its backlog: ids of connections
  tcpNet,             \* segments sent
  port,               \* get_ephemeral_port
  incoming,           \* number of connections the server has taken
  overrun,            \* history: a ring was filled beyond its size
  halfopen            \* history: a program was given a connection in SYN_RECEIVED

tcpVars == <<g_active_sockets, listening, backlog, tcpNet, port, incoming, overrun, halfopen>>

Unclaimed == [port |-> 0, id |-> 0, state |-> "CLOSED", seq |-> 0, ack |-> 0,
              initial_seq |-> 0, send_head |-> 0, send_tail |-> 0,
              recv_buf |-> [i \in 0 .. TCP_BUFFER - 1 |-> 0],
              recv_head |-> 0, recv_tail |-> 0, got |-> <<>>]

TcpInit ==
  /\ g_active_sockets = [h \in Host |-> [i \in TcpSlot |-> Unclaimed]]
  /\ listening = FALSE /\ backlog = <<>> /\ tcpNet = {} /\ port = 1
  /\ incoming = 0 /\ overrun = FALSE /\ halfopen = FALSE

Seqn(n) == n % SEQ_RANGE
Peer(h) == CHOOSE g \in Host : g # h

-----------------------------------------------------------------------------
(* Sending.                                                                *)

\* create_header: the segment of a connection of h.
Segment(h, c, flags, data) ==
  [to |-> Peer(h), port |-> c.port, seq |-> c.seq, ack |-> c.ack, flags |-> flags,
   data |-> data]

\* send_header: SYN and FIN use up a sequence number.
AfterHeader(c, flags) ==
  IF flags \cap {"SYN", "FIN"} # {} THEN [c EXCEPT !.seq = Seqn(@ + 1)] ELSE c

\* The byte the ring send_buf holds in the place of byte n.
SendByte(c, n) == n + TCP_BUFFER * ((c.send_head - n) \div TCP_BUFFER)

Unsent(c) == IF c.state = "ESTABLISHED" THEN Seqn(c.send_head - c.send_tail) ELSE 0

\* tcp_send_buffered_data: everything that is not sent yet, of every
\* connection of the host cs belongs to.
AfterFlush(cs) ==
  [i \in TcpSlot |-> [cs[i] EXCEPT !.send_tail = Seqn(@ + Unsent(cs[i])),
                                   !.seq = Seqn(@ + Unsent(cs[i]))]]
Flushed(h, cs) ==
  {Segment(h, cs[i], {"ACK"}, [k \in 1 .. Unsent(cs[i]) |-> SendByte(cs[i], cs[i].send_tail + k)]) :
     i \in {j \in TcpSlot : Unsent(cs[j]) # 0}}

\* create_active takes the first slot that is not claimed.
FreeConns(h) == {i \in TcpSlot : g_active_sockets[h][i].port = 0}
create_active(h, c) ==
  [g_active_sockets EXCEPT ![h][CHOOSE i \in FreeConns(h) : \A j \in FreeConns(h) : i <= j] = c]

\* tcp_active with local_port 0; the port is used up also without a free slot.
tcp_active(iss) ==
  LET c == [Unclaimed EXCEPT !.port = port, !.id = port, !.state = "SYN_SENT",
                             !.seq = iss, !.initial_seq = iss]
  IN  /\ port <= MaxOpens /\ port' = port + 1
      /\ IF FreeConns(Client) = {} THEN UNCHANGED <<g_active_sockets, tcpNet>>
         ELSE /\ g_active_sockets' = create_active(Client, AfterHeader(c, {"SYN"}))
              /\ tcpNet' = tcpNet \cup {Segment(Client, c, {"SYN"}, <<>>)}
      /\ UNCHANGED <<listening, backlog, incoming, overrun, halfopen>>

tcp_passive ==
  /\ ~listening /\ listening' = TRUE /\ backlog' = <<>>
  /\ UNCHANGED <<g_active_sockets, tcpNet, port, incoming, overrun, halfopen>>

\* get_conn: the first connection with the id.
get_conn(h, id) == {i \in TcpSlot : /\ g_active_sockets[h][i].id = id
                                    /\ \A j \in 1 .. i - 1 : g_active_sockets[h][j].id # id}

\* A backlog entry is used up also when its connection is gone.  The new id of
\* a connection is its port, which no other connection of the server has.
tcp_accept ==
  /\ listening /\ backlog # <<>> /\ backlog' = Tail(backlog)
  /\ g_active_sockets' = [g_active_sockets EXCEPT ![Server] =
       [i \in TcpSlot |-> LET c == g_active_sockets[Server][i]
          IN IF i \in get_conn(Server, Head(backlog)) THEN [c EXCEPT !.id = c.port] ELSE c]]
  /\ halfopen' = (halfopen \/ \E i \in get_conn(Server, Head(backlog)) :
                                 g_active_sockets[Server][i].state = "SYN_RECEIVED")
  /\ UNCHANGED <<listening, tcpNet, port, incoming, overrun>>

\* A connection a program has an id for.
Held(h, i) == LET c == g_active_sockets[h][i] IN c.port # 0 /\ c.id = c.port

\* A program closes a connection once.
tcp_terminate_connection(h, i) ==
  LET c == [g_active_sockets[h][i] EXCEPT !.state = "FIN_WAIT_1"]
  IN  /\ Held(h, i)
      /\ g_active_sockets[h][i].state \notin {"FIN_WAIT_1", "FIN_WAIT_2", "TIME_WAIT"}
      /\ g_active_sockets' = [g_active_sockets EXCEPT ![h][i] = AfterHeader(c, {"FIN"})]
      /\ tcpNet' = tcpNet \cup {Segment(h, c, {"FIN"}, <<>>)}
      /\ UNCHANGED <<listening, backlog, port, incoming, overrun, halfopen>>

tcp_send(h, i, len) ==
  LET cs == [g_active_sockets[h] EXCEPT ![i].send_head = @ + len]
  IN  /\ Held(h, i) /\ cs[i].send_head <= MaxBytes[h]
      /\ g_active_sockets' = [g_active_sockets EXCEPT ![h] = AfterFlush(cs)]
      /\ tcpNet' = tcpNet \cup Flushed(h, cs)
      /\ overrun' = (overrun \/ cs[i].send_head - cs[i].send_tail > TCP_BUFFER)
      /\ UNCHANGED <<listening, backlog, port, incoming, halfopen>>

Available(c) == Seqn(c.recv_head - c.recv_tail)
RingByte(c, n) == c.recv_buf[n % TCP_BUFFER]

\* Everything there is; a program that asks for less calls again.
tcp_receive(h, i) ==
  LET c == g_active_sockets[h][i]
  IN  /\ Held(h, i) /\ Available(c) # 0
      /\ g_active_sockets' = [g_active_sockets EXCEPT ![h][i] =
           [c EXCEPT !.recv_tail = c.recv_head,
                     !.got = @ \o [k \in 1 .. Available(c) |-> RingByte(c, c.recv_tail + k - 1)]]]
      /\ UNCHANGED <<listening, backlog, tcpNet, port, incoming, overrun, halfopen>>

-----------------------------------------------------------------------------
(* Receiving, tcp_on_data.                                                 *)

\* A segment for no connection: a SYN opens one when there is a listener with
\* room in its backlog, and a free slot.
Incoming(s, iss, id) ==
  LET c == [Unclaimed EXCEPT !.port = s.port, !.id = id, !.state = "SYN_RECEIVED",
              !.seq = iss, !.initial_seq = iss, !.ack = Seqn(s.seq + 1)]
  IN  /\ s.to = Server /\ listening /\ Len(backlog) < TCP_BACKLOG_SIZE - 1
      /\ s.flags = {"SYN"} /\ FreeConns(Server) # {}
      /\ \A i \in TcpSlot : g_active_sockets[Server][i].port # s.port
      /\ g_active_sockets' = create_active(Server, AfterHeader(c, {"SYN", "ACK"}))
      /\ tcpNet' = tcpNet \cup {Segment(Server, c, {"SYN", "ACK"}, <<>>)}
      /\ incoming < MaxIncoming /\ incoming' = incoming + 1
      /\ UNCHANGED <<listening, backlog, port, overrun, halfopen>>

\* Mutant: a segment is taken whatever its number.
Expected_any(c, s) == TRUE

\* The sequence number is the one that is expected.
Expected(c, s) == c.state = "SYN_SENT" \/ s.seq = c.ack

\* Mutant: every segment counts.
Acknowledged_all(s) == 1 + Len(s.data)

\* What a segment adds to ack.
Acknowledged(s) == (IF s.flags \cap {"SYN", "FIN"} # {} THEN 1 ELSE 0) + Len(s.data)

\* ack and send_tail, before the state is looked at.
Noted(c, s) ==
  LET acked == Seqn(s.ack - c.initial_seq - 1)
  IN  [c EXCEPT !.ack = Seqn((IF c.state = "SYN_SENT" THEN s.seq ELSE @) + Acknowledged(s)),
                !.send_tail = IF acked > @ THEN acked ELSE @]

\* The payload goes into the ring, over what was not read.
Stored(c, s) ==
  [c EXCEPT !.recv_head = Seqn(@ + Len(s.data)),
            !.recv_buf = [i \in DOMAIN @ |->
               LET K == {k \in 1 .. Len(s.data) : (c.recv_head + k - 1) % TCP_BUFFER = i}
               IN  IF K = {} THEN @[i] ELSE s.data[CHOOSE k \in K : \A j \in K : j <= k]]]

\* The state afterwards, the headers sent, in order, and whether the data is
\* kept.  "gone": the connection is given up.
Outcome(c, s) ==
  LET out(st, hs, keep) == [state |-> st, headers |-> hs, keep |-> keep]
      fin == "FIN" \in s.flags
      ack == "ACK" \in s.flags
      data == s.data # <<>>
  IN  IF "RST" \in s.flags THEN out("gone", <<>>, FALSE) ELSE
      CASE c.state = "SYN_SENT" ->
             IF {"SYN", "ACK"} \subseteq s.flags THEN out("ESTABLISHED", <<{"ACK"}>>, FALSE)
             ELSE out(c.state, <<{"RST"}>>, FALSE)
        [] c.state = "SYN_RECEIVED" ->
             IF ack THEN out("ESTABLISHED", <<>>, FALSE) ELSE out(c.state, <<{"RST"}>>, FALSE)
        [] c.state = "ESTABLISHED" ->
             out(IF fin THEN "LAST_ACK" ELSE c.state,
                 (IF data THEN <<{"ACK"}>> ELSE <<>>) \o (IF fin THEN <<{"ACK", "FIN"}>> ELSE <<>>),
                 data)
        [] c.state \in {"FIN_WAIT_1", "FIN_WAIT_2"} ->
             IF fin THEN out("TIME_WAIT", <<{"ACK"}>>, FALSE)
             ELSE out(IF ack THEN "FIN_WAIT_2" ELSE c.state, <<>>, FALSE)
        [] c.state \in {"TIME_WAIT", "LAST_ACK"} ->
             out(IF ack THEN "gone" ELSE c.state, <<>>, FALSE)

\* The connection after the first n of the headers hs.
AfterHeaders(c, hs) ==
  LET sent[n \in 0 .. Len(hs)] == IF n = 0 THEN c ELSE AfterHeader(sent[n - 1], hs[n])
  IN  sent

\* A segment for connection i of h.
tcp_on_data(h, i, s) ==
  LET c == g_active_sockets[h][i]
      o == Outcome(c, s)
      c1 == IF o.keep THEN Stored(Noted(c, s), s) ELSE Noted(c, s)
      sent == AfterHeaders([c1 EXCEPT !.state = o.state], o.headers)
      cs == [g_active_sockets[h] EXCEPT
               ![i] = IF o.state = "gone" THEN Unclaimed ELSE sent[Len(o.headers)]]
      opened == o.state = "ESTABLISHED" /\ c.state # "ESTABLISHED"
      waits == c.state = "SYN_RECEIVED" /\ opened
  IN  /\ s.to = h /\ c.port = s.port /\ c.port # 0
      /\ "RST" \in s.flags \/ Expected(c, s)
      /\ waits => listening
      /\ backlog' = IF waits /\ Len(backlog) < TCP_BACKLOG_SIZE - 1
                    THEN Append(backlog, c.id) ELSE backlog
      /\ g_active_sockets' = [g_active_sockets EXCEPT ![h] = IF opened THEN AfterFlush(cs) ELSE cs]
      /\ tcpNet' = tcpNet
           \cup {Segment(h, sent[n - 1], o.headers[n], <<>>) : n \in 1 .. Len(o.headers)}
           \cup (IF opened THEN Flushed(h, cs) ELSE {})
      /\ overrun' = (overrun \/ Available(c1) > TCP_BUFFER)
      /\ UNCHANGED <<listening, port, incoming, halfopen>>

TcpNext ==
  \/ \E iss \in InitialSeqs : tcp_active(iss)
  \/ tcp_passive
  \/ tcp_accept
  \/ \E h \in Host, i \in TcpSlot :
       \/ tcp_terminate_connection(h, i)
       \/ tcp_receive(h, i)
       \/ \E len \in 1 .. MaxBytes[h] : tcp_send(h, i, len)
       \/ \E s \in tcpNet : tcp_on_data(h, i, s)
  \/ \E s \in tcpNet, iss \in InitialSeqs, id \in RandomIds : Incoming(s, iss, id)

TcpSpec == TcpInit /\ [][TcpNext]_tcpVars

-----------------------------------------------------------------------------
(* Properties.                                                             *)

(* Whatever the network loses, repeats or reorders, a program receives a   *)
(* run of the bytes that were sent, in order, none twice and none left out *)
(* in between, as long as no ring is overrun and no connection was given   *)
(* out half open (see AckSent).  (The run need not start with the first    *)
(* byte: data in the segment that ends the handshake is acknowledged and   *)
(* dropped.)                                                               *)
StreamContiguous ==
  ~overrun /\ ~halfopen => \A h \in Host, i \in TcpSlot :
    LET got == g_active_sockets[h][i].got
    IN  \A k \in 1 .. Len(got) - 1 : got[k + 1] = got[k] + 1

(* No connection acknowledges more than its peer has sent, across the      *)
(* wrap-around of the sequence numbers and in the handshakes of opening    *)
(* and closing.  (Not of a connection that its program closed, maybe       *)
(* before it had seen a number of the peer's, and not once rand16 has      *)
(* given two connections the same id and tcp_accept has taken the one that *)
(* is half open: its program may close it, and a repeated SYN opens it     *)
(* again while the client still answers the first SYN|ACK.)                *)
AckSent ==
  ~halfopen => \A i, j \in TcpSlot, h \in Host :
    LET c == g_active_sockets[h][i]
        p == g_active_sockets[Peer(h)][j]
    IN  c.port # 0 /\ c.port = p.port /\ c.state \in {"SYN_RECEIVED", "ESTABLISHED", "LAST_ACK"}
          => Seqn(c.ack - p.initial_seq) <= Seqn(p.seq - p.initial_seq)
=============================================================================
