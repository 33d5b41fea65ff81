-------------------------- MODULE PipeBufferProofs --------------------------
(***************************************************************************)
(* Facts about the ring buffer of pipe.c (module PipeBuffer), which pipes  *)
(* and channels share: what one call of pipe_write or pipe_read does to    *)
(* the bytes that wait, around the end of the buffer and at its limits.    *)
(***************************************************************************)
EXTENDS PipeBuffer, OrderLemmas

\* Writing goes on where the bytes that wait end.
RingOK(p) == p.write_pos = (p.read_pos + p.count) % PIPE_BUF_SIZE

(* What pipe_read copies out of the buffer: min(n, count) bytes, from      *)
(* read_pos on around the ring.                                            *)
LEMMA ContentsType ==
  ASSUME NEW L, NEW p \in PipeType(L), NEW n \in Nat
  PROVE  /\ Least(n, p.count) \in 0 .. p.count
         /\ pipe_data(p, n) \in Seq(Byte) /\ Len(pipe_data(p, n)) = Least(n, p.count)
         /\ \A i \in 1 .. Least(n, p.count) :
              pipe_data(p, n)[i] = p.buf[(p.read_pos + i - 1) % PIPE_BUF_SIZE]
<1> DEFINE k == Least(n, p.count)
           e(i) == p.buf[(p.read_pos + i - 1) % PIPE_BUF_SIZE]
<1>1. k \in 0 .. p.count BY DEF Least, PipeType
<1>2. \A i \in 1 .. k : e(i) \in Byte
  <2>1. \A a \in Nat : a % PIPE_BUF_SIZE \in 0 .. PIPE_BUF_SIZE - 1 BY PipeBufferAssumption
  <2>2. \A i \in 1 .. k : p.read_pos + i - 1 \in Nat BY <1>1 DEF PipeType
  <2> QED BY <2>1, <2>2 DEF PipeType
<1>3. pipe_data(p, n) \in [1 .. k -> Byte] BY <1>2 DEF pipe_data
<1>4. k \in Nat BY <1>1 DEF PipeType
<1>5. pipe_data(p, n) \in Seq(Byte) /\ Len(pipe_data(p, n)) = k BY <1>3, <1>4, FunctionIsSeq
<1> QED BY <1>1, <1>5 DEF pipe_data

(* What waits in a pipe: count bytes, from read_pos on around the ring.    *)
LEMMA ContentsAre ==
  ASSUME NEW L, NEW p \in PipeType(L)
  PROVE  /\ Contents(p) \in Seq(Byte) /\ Len(Contents(p)) = p.count
         /\ \A i \in 1 .. p.count : Contents(p)[i] = p.buf[(p.read_pos + i - 1) % PIPE_BUF_SIZE]
<1>1. PICK n \in Nat : n = p.count BY DEF PipeType
<1>2. Least(n, p.count) = n BY <1>1 DEF Least
<1>3. Contents(p) = pipe_data(p, n) BY <1>1 DEF Contents
<1>4. /\ pipe_data(p, n) \in Seq(Byte) /\ Len(pipe_data(p, n)) = Least(n, p.count)
      /\ \A i \in 1 .. Least(n, p.count) : pipe_data(p, n)[i] = p.buf[(p.read_pos + i - 1) % PIPE_BUF_SIZE]
  BY ContentsType
<1> QED BY <1>1, <1>2, <1>3, <1>4

(* pipe_create gives an empty pipe whose positions agree.                  *)
LEMMA CreateLemma ==
  pipe_create \in PipeType({}) /\ RingOK(pipe_create) /\ Contents(pipe_create) = <<>>
<1>1. pipe_create \in PipeType({}) BY PipeBufferAssumption DEF pipe_create, PipeType
<1>2. 0 % PIPE_BUF_SIZE = 0 BY PipeBufferAssumption
<1>3. RingOK(pipe_create) BY <1>2 DEF RingOK, pipe_create
<1>4. pipe_create.count = 0 /\ Least(0, 0) = 0 BY DEF pipe_create, Least
<1>5. Len(Contents(pipe_create)) = 0 /\ Contents(pipe_create) \in Seq(Byte)
  BY <1>1, <1>4, ContentsType DEF Contents
<1> QED BY <1>1, <1>3, <1>5, EmptySeq

(* pipe_write keeps the positions of the ring in step with count and       *)
(* appends to what waits the bytes it took, and nothing else: it stops at  *)
(* PIPE_BUF_SIZE bytes and overwrites none that wait.                      *)
LEMMA StoreLemma ==
  ASSUME NEW L, NEW p \in PipeType(L), RingOK(p), NEW data \in Seq(Byte)
  PROVE  LET q == pipe_store(p, data)
             n == pipe_accepts(p, data)
         IN  /\ n \in 0 .. Len(data) /\ n = Least(Len(data), PIPE_BUF_SIZE - p.count)
             /\ q \in PipeType(L) /\ RingOK(q)
             /\ q.listener = p.listener /\ q.count = p.count + n
             /\ Contents(q) = Contents(p) \o SubSeq(data, 1, n)
<1> DEFINE q == pipe_store(p, data)
           n == pipe_accepts(p, data)
           N == PIPE_BUF_SIZE
           r == p.read_pos
           w == p.write_pos
           c == p.count
           off(j) == (j - w) % N
           at(i) == (r + i - 1) % N
           new == SubSeq(data, 1, n)
<1>1. /\ N \in Nat \ {0} /\ r \in 0 .. N - 1 /\ w \in 0 .. N - 1 /\ c \in 0 .. N
      /\ p.buf \in [0 .. N - 1 -> Byte] /\ p.listener \in L \cup {NoListener}
  BY PipeBufferAssumption DEF PipeType
<1>2. Len(data) \in Nat /\ \A i \in 1 .. Len(data) : data[i] \in Byte BY LenProperties
<1>3. n \in 0 .. Len(data) /\ n = Least(Len(data), N - c) /\ n \in 0 .. N - c
  BY <1>1, <1>2 DEF pipe_accepts, Least
<1>4. q = [buf |-> [j \in 0 .. N - 1 |-> IF off(j) < n THEN data[off(j) + 1] ELSE p.buf[j]],
           read_pos |-> r, write_pos |-> (w + n) % N, count |-> c + n, listener |-> p.listener]
  <2> DEFINE B == [j \in DOMAIN p.buf |-> IF off(j) < n THEN data[off(j) + 1] ELSE p.buf[j]]
             m == (w + n) % N
  <2>1. q = [p EXCEPT !.buf = B, !.write_pos = m, !.count = c + n] BY DEF pipe_store
  <2>2. B = [j \in 0 .. N - 1 |-> IF off(j) < n THEN data[off(j) + 1] ELSE p.buf[j]] BY <1>1
  <2> HIDE DEF B, m, q
  <2>3. q = [buf |-> B, read_pos |-> r, write_pos |-> m, count |-> c + n, listener |-> p.listener]
    BY <2>1 DEF PipeType
  <2> QED BY <2>2, <2>3 DEF m
<1>5. w = (r + c) % N BY DEF RingOK
<1>6. \A j \in 0 .. N - 1 : j - w \in Int BY <1>1
<1>7. \A j \in 0 .. N - 1 : off(j) \in 0 .. N - 1
  <2> SUFFICES ASSUME NEW j \in 0 .. N - 1 PROVE off(j) \in 0 .. N - 1 OBVIOUS
  <2> DEFINE d == j - w
  <2>1. d \in Int BY <1>1
  <2> HIDE DEF d, N
  <2>2. d % N \in 0 .. N - 1 BY <1>1, <2>1, ModRange
  <2> QED BY <2>2 DEF d
<1>8. (w + n) % N = (r + (c + n)) % N
  <2> HIDE DEF r, c, w, N, n
  <2> QED BY <1>1, <1>3, <1>5, RingAdvance
<1>9. \A i \in 1 .. N : at(i) \in 0 .. N - 1 /\ off(at(i)) = IF i <= c THEN N - c + i - 1 ELSE i - 1 - c
  <2> SUFFICES ASSUME NEW i \in 1 .. N
               PROVE  at(i) \in 0 .. N - 1 /\ off(at(i)) = IF i <= c THEN N - c + i - 1 ELSE i - 1 - c
    OBVIOUS
  <2> HIDE DEF r, c, w, N
  <2>1. (((r + i - 1) % N) - ((r + c) % N)) % N = IF i <= c THEN N - c + i - 1 ELSE i - 1 - c
    BY <1>1, RingPlace
  <2>2. r + i - 1 \in Int BY <1>1
  <2>3. at(i) \in 0 .. N - 1 BY <1>1, <2>2, ModRange
  <2>4. off(at(i)) = (((r + i - 1) % N) - ((r + c) % N)) % N BY <1>5
  <2> QED BY <2>1, <2>3, <2>4, Zenon
<1> HIDE DEF off, at, r, c, w, n, N
<1>10. (w + n) % N \in 0 .. N - 1
  <2>1. w + n \in Int BY <1>1, <1>3
  <2> QED BY <1>1, <2>1, ModRange
<1>11. q \in PipeType(L)
  <2>1. \A j \in 0 .. N - 1 : (IF off(j) < n THEN data[off(j) + 1] ELSE p.buf[j]) \in Byte
    <3> SUFFICES ASSUME NEW j \in 0 .. N - 1, off(j) < n PROVE data[off(j) + 1] \in Byte BY <1>1
    <3>0a. PICK o \in 0 .. N - 1 : o = off(j) BY <1>7
    <3>0b. n \in Nat /\ n <= Len(data) /\ o \in Nat BY <1>1, <1>2, <1>3
    <3>0c. o + 1 \in 1 .. Len(data) BY <1>2, <3>0a, <3>0b
    <3>1. off(j) + 1 \in 1 .. Len(data) BY <3>0a, <3>0c
    <3> QED BY <1>2, <3>1
  <2>2. c + n \in 0 .. N BY <1>1, <1>3
  <2> QED BY <1>1, <1>4, <1>10, <2>1, <2>2 DEF PipeType, N
<1>12. RingOK(q) BY <1>4, <1>8 DEF RingOK, N
<1>13. /\ Contents(p) \in Seq(Byte) /\ Len(Contents(p)) = c
       /\ \A i \in 1 .. c : Contents(p)[i] = p.buf[at(i)]
  <2>1. c \in Nat /\ Least(c, c) = c BY <1>1 DEF Least
  <2> QED BY <2>1, ContentsType DEF Contents, c, at, r, N
<1>14. /\ Contents(q) \in Seq(Byte) /\ Len(Contents(q)) = c + n
       /\ \A i \in 1 .. c + n : Contents(q)[i] = q.buf[at(i)]
  <2>1. q.count = c + n /\ q.read_pos = r BY <1>4
  <2> HIDE DEF q
  <2>2. /\ Contents(q) \in Seq(Byte) /\ Len(Contents(q)) = q.count
        /\ \A i \in 1 .. q.count : Contents(q)[i] = q.buf[(q.read_pos + i - 1) % N]
    BY <1>11, ContentsAre DEF N
  <2> QED BY <2>1, <2>2 DEF at
<1>15. new \in Seq(Byte) /\ Len(new) = n /\ \A i \in 1 .. n : new[i] = data[i]
  BY <1>2, <1>3, SubSeqProperties
<1> HIDE DEF new
<1>16. /\ Contents(p) \o new \in Seq(Byte) /\ Len(Contents(p) \o new) = c + n
       /\ \A i \in 1 .. c + n :
            (Contents(p) \o new)[i] = IF i <= c THEN Contents(p)[i] ELSE new[i - c]
  BY <1>13, <1>15, ConcatProperties
<1>17. \A i \in 1 .. c + n : Contents(q)[i] = (Contents(p) \o new)[i]
  <2> SUFFICES ASSUME NEW i \in 1 .. c + n PROVE Contents(q)[i] = (Contents(p) \o new)[i]
    OBVIOUS
  <2>1. i \in 1 .. N BY <1>1, <1>3
  <2>2. /\ Contents(q)[i] = IF off(at(i)) < n THEN data[off(at(i)) + 1] ELSE p.buf[at(i)]
        /\ off(at(i)) = IF i <= c THEN N - c + i - 1 ELSE i - 1 - c
    <3>1. at(i) \in 0 .. N - 1 /\ off(at(i)) = IF i <= c THEN N - c + i - 1 ELSE i - 1 - c
      BY <1>9, <2>1
    <3>2. q.buf[at(i)] = IF off(at(i)) < n THEN data[off(at(i)) + 1] ELSE p.buf[at(i)]
      BY <1>4, <3>1
    <3> QED BY <1>14, <3>1, <3>2
  <2>3. CASE i <= c
    <3>1. i \in 1 .. c /\ ~(off(at(i)) < n) BY <1>1, <1>3, <2>1, <2>2, <2>3
    <3> QED BY <1>13, <1>16, <2>2, <2>3, <3>1
  <2>4. CASE ~(i <= c)
    <3>1. i - c \in 1 .. n /\ off(at(i)) < n /\ off(at(i)) + 1 = i - c
      BY <1>1, <1>3, <2>1, <2>2, <2>4
    <3> QED BY <1>15, <1>16, <2>2, <2>4, <3>1
  <2> QED BY <2>3, <2>4
<1>18. Contents(q) = Contents(p) \o new BY <1>14, <1>16, <1>17, SeqEqual
<1>19. q.listener = p.listener /\ q.count = p.count + n BY <1>4 DEF c
<1> QED BY <1>3, <1>11, <1>12, <1>18, <1>19 DEF new, n, N, c

(* pipe_read takes the first n bytes that wait (all, when there are        *)
(* fewer): they are what it returns, and what remains is the rest in its   *)
(* order.                                                                  *)
LEMMA TakeLemma ==
  ASSUME NEW L, NEW p \in PipeType(L), RingOK(p), NEW m \in Nat
  PROVE  LET q == pipe_take(p, m)
             n == Least(m, p.count)
         IN  /\ n \in 0 .. p.count
             /\ q \in PipeType(L) /\ RingOK(q)
             /\ q.listener = p.listener /\ q.count = p.count - n
             /\ Contents(p) \in Seq(Byte) /\ Len(Contents(p)) = p.count
             /\ pipe_data(p, m) = SubSeq(Contents(p), 1, n)
             /\ Contents(q) = SubSeq(Contents(p), n + 1, p.count)
<1> DEFINE q == pipe_take(p, m)
           n == Least(m, p.count)
           N == PIPE_BUF_SIZE
           r == p.read_pos
           w == p.write_pos
           c == p.count
           s == (r + n) % N
           at(i) == (r + i - 1) % N
<1>1. /\ N \in Nat \ {0} /\ r \in 0 .. N - 1 /\ w \in 0 .. N - 1 /\ c \in 0 .. N
      /\ p.buf \in [0 .. N - 1 -> Byte] /\ p.listener \in L \cup {NoListener}
  BY PipeBufferAssumption DEF PipeType
<1>2. n \in 0 .. c /\ n \in 0 .. N /\ Least(c, c) = c /\ c \in Nat BY <1>1 DEF Least
<1>3. q = [buf |-> p.buf, read_pos |-> s, write_pos |-> w, count |-> c - n, listener |-> p.listener]
  <2>1. q = [p EXCEPT !.read_pos = s, !.count = c - n] BY DEF pipe_take
  <2> HIDE DEF s, q, n
  <2> QED BY <2>1 DEF PipeType
<1>4. w = (r + c) % N BY DEF RingOK
<1> HIDE DEF N, r, w, c, n
<1>5. s \in 0 .. N - 1
  <2>1. r + n \in Int BY <1>1, <1>2
  <2> QED BY <1>1, <2>1, ModRange
<1>6. (s + (c - n)) % N = (r + (n + (c - n))) % N
  <2>1. c - n \in 0 .. N - n BY <1>1, <1>2
  <2> QED BY <1>1, <1>2, <2>1, RingAdvance
<1>7. n + (c - n) = c BY <1>1, <1>2
<1>8. \A i \in 1 .. c - n : (s + i - 1) % N = at(n + i)
  <2> SUFFICES ASSUME NEW i \in 1 .. c - n PROVE (s + i - 1) % N = at(n + i) OBVIOUS
  <2>1. i - 1 \in 0 .. N - n BY <1>1, <1>2
  <2>2. (s + (i - 1)) % N = (r + (n + (i - 1))) % N BY <1>1, <1>2, <2>1, RingAdvance
  <2>3. s + (i - 1) = s + i - 1 /\ r + (n + (i - 1)) = r + (n + i) - 1 BY <1>1, <1>2, <1>5, <2>1
  <2> QED BY <2>2, <2>3
<1> HIDE DEF s, at
<1>9. q \in PipeType(L)
  <2>1. c - n \in 0 .. N BY <1>1, <1>2
  <2> QED BY <1>1, <1>3, <1>5, <2>1 DEF PipeType, N
<1>10. RingOK(q) BY <1>3, <1>4, <1>6, <1>7 DEF RingOK, N
<1>11. /\ Contents(p) \in Seq(Byte) /\ Len(Contents(p)) = c
       /\ \A i \in 1 .. c : Contents(p)[i] = p.buf[at(i)] /\ Contents(p)[i] \in Byte
  BY <1>2, ContentsType, ElementOfSeq DEF Contents, c, at, r, N
<1>12. /\ pipe_data(p, m) \in Seq(Byte) /\ Len(pipe_data(p, m)) = n
       /\ \A i \in 1 .. n : pipe_data(p, m)[i] = p.buf[at(i)]
  BY ContentsType DEF n, at, r, N
<1>13. /\ Contents(q) \in Seq(Byte) /\ Len(Contents(q)) = c - n
       /\ \A i \in 1 .. c - n : Contents(q)[i] = p.buf[(s + i - 1) % N]
  <2>1. q.count = c - n /\ q.read_pos = s /\ q.buf = p.buf BY <1>3
  <2> HIDE DEF q
  <2>2. /\ Contents(q) \in Seq(Byte) /\ Len(Contents(q)) = q.count
        /\ \A i \in 1 .. q.count : Contents(q)[i] = q.buf[(q.read_pos + i - 1) % N]
    BY <1>9, ContentsAre DEF N
  <2> QED BY <2>1, <2>2
<1>14. /\ SubSeq(Contents(p), 1, n) \in Seq(Byte) /\ Len(SubSeq(Contents(p), 1, n)) = n
       /\ \A i \in 1 .. n : SubSeq(Contents(p), 1, n)[i] = Contents(p)[i]
  <2>1. \A i \in 1 .. n : Contents(p)[i] \in Byte BY <1>2, <1>11
  <2> QED BY <1>2, <2>1, SubSeqProperties
<1>15. /\ SubSeq(Contents(p), n + 1, c) \in Seq(Byte) /\ Len(SubSeq(Contents(p), n + 1, c)) = c - n
       /\ \A i \in 1 .. c - n : SubSeq(Contents(p), n + 1, c)[i] = Contents(p)[n + i]
  <2>1. \A i \in n + 1 .. c : Contents(p)[i] \in Byte BY <1>2, <1>11
  <2>2. n \in Nat /\ c \in Nat /\ n <= c BY <1>2
  <2>3. /\ SubSeq(Contents(p), n + 1, c) \in Seq(Byte)
        /\ Len(SubSeq(Contents(p), n + 1, c)) = IF n + 1 <= c THEN c - (n + 1) + 1 ELSE 0
        /\ \A i \in 1 .. c - (n + 1) + 1 : SubSeq(Contents(p), n + 1, c)[i] = Contents(p)[(n + 1) + i - 1]
    BY <2>1, <2>2, SubSeqProperties
  <2>4. c - (n + 1) + 1 = c - n /\ \A i \in 1 .. c - n : (n + 1) + i - 1 = n + i BY <2>2
  <2> QED BY <2>2, <2>3, <2>4
<1>16. pipe_data(p, m) = SubSeq(Contents(p), 1, n)
  <2>1. \A i \in 1 .. n : pipe_data(p, m)[i] = SubSeq(Contents(p), 1, n)[i]
    BY <1>2, <1>11, <1>12, <1>14
  <2> QED BY <1>12, <1>14, <2>1, SeqEqual
<1>17. Contents(q) = SubSeq(Contents(p), n + 1, c)
  <2>1. \A i \in 1 .. c - n : Contents(q)[i] = SubSeq(Contents(p), n + 1, c)[i]
    <3> SUFFICES ASSUME NEW i \in 1 .. c - n
                 PROVE  Contents(q)[i] = SubSeq(Contents(p), n + 1, c)[i]
      OBVIOUS
    <3>1. n + i \in 1 .. c BY <1>2
    <3> QED BY <1>8, <1>11, <1>13, <1>15, <3>1
  <2> QED BY <1>13, <1>15, <2>1, SeqEqual
<1>18. q.listener = p.listener /\ q.count = p.count - n BY <1>3 DEF c
<1> QED BY <1>2, <1>9, <1>10, <1>11, <1>16, <1>17, <1>18 DEF n, c

=============================================================================
