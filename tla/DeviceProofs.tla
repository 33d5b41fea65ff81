---------------------------- MODULE DeviceProofs ---------------------------
(***************************************************************************)
(* Proofs about devices: the packets of the mouse (module Mouse), the disk *)
(* drivers (module Disk), the rings of the network card (module E1000),    *)
(* the rings and waits of the USB host controller (module Xhci) and the    *)
(* event queue of the keyboards (module Keyboard).                         *)
(***************************************************************************)
EXTENDS Mouse, Disk, E1000, Xhci, Keyboard, OrderLemmas, SequenceTheorems, FiniteSetTheorems

\* A byte of the mouse.
MouseByte == [sync: BOOLEAN, xneg: BOOLEAN, yneg: BOOLEAN, overflow: BOOLEAN, value: Int]

\* Where the cursor, the buttons and the wheel are.
Position == [x: Int, y: Int, buttons: Int, scroll: Int]

\* Types.
MouseTypes ==
  /\ g_intellimouse \in BOOLEAN
  /\ bytes \in Seq(MouseByte) /\ g_packet \in Seq(MouseByte)
  /\ g_mouse \in [x: Int, y: Int, buttons: Int, scroll: Int, pending: BOOLEAN]
  /\ moved \in Position /\ scrolled \in Int /\ wrapped \in BOOLEAN

\* The position after the packet with the bytes f, u, v and, with a wheel, w.
AfterPacket(a, f, u, v, w, wheel) ==
  IF f.overflow THEN a
  ELSE [x |-> clamp(a.x + magnitude(u.value, f.xneg), g_fb_width),
        y |-> clamp(a.y - magnitude(v.value, f.yneg), g_fb_height),
        buttons |-> f.value % 8,
        scroll |-> a.scroll + (IF wheel THEN dz_of(w.value) ELSE 0)]

\* The k-th byte that the driver has not acted on: those of the packet it has
\* begun, then those that no interrupt has taken.
ByteAt(g, b, k) == IF k <= Len(g) THEN g[k] ELSE b[k - Len(g)]

\* The bytes of a packet.
Size(wheel) == IF wheel THEN 4 ELSE 3

\* The bytes of g and b behind the o-th, those of m packets, are the ones of h
\* and c behind the z-th.
Same(g, b, o, h, c, z, m, wheel) ==
  /\ Len(h) + Len(c) + o = Len(g) + Len(b) + z
  /\ \A k \in 1 .. m * Size(wheel) : ByteAt(h, c, z + k) = ByteAt(g, b, o + k)

\* The bytes behind the j-th are a packet that leads from position a to c.
PacketAt(g, b, wheel, j, a, c) ==
  /\ ByteAt(g, b, j + 1).sync
  /\ c = AfterPacket(a, ByteAt(g, b, j + 1), ByteAt(g, b, j + 2), ByteAt(g, b, j + 3), ByteAt(g, b, j + Size(wheel)), wheel)

\* From the o-th byte on there are m packets, which lead from position tr[0] to tr[m].
Packets(g, b, wheel, o, m, tr) ==
  /\ m \in Nat /\ tr \in [0 .. m -> Position]
  /\ Len(g) + Len(b) = o + m * Size(wheel)
  /\ \A k \in 0 .. m - 1 : PacketAt(g, b, wheel, o + k * Size(wheel), tr[k], tr[k + 1])

\* The first position is the one of the driver; the scroll counts what programs were told.
Here(p, g, told, w) ==
  /\ p.x = g.x /\ p.y = g.y /\ p.buttons = g.buttons
  /\ ~w => p.scroll = told + g.scroll

\* A stray byte comes before the packets only while the driver waits for one to begin.
Pending ==
  \E o \in {0, 1}, m \in Nat : \E tr \in [0 .. m -> Position] :
    /\ Packets(g_packet, bytes, g_intellimouse, o, m, tr)
    /\ o = 1 => g_packet = <<>> /\ ~bytes[1].sync
    /\ Here(tr[0], g_mouse, scrolled, wrapped) /\ tr[m] = moved

\* The inductive invariant: the packets that are on their way lead from where
\* the driver has the cursor to where the mouse is. MouseFollows itself
\* speaks only of the moments when nothing is on its way and is not
\* inductive.
MouseInv ==
  /\ MouseTypes /\ Pending
  /\ Len(g_packet) < Size(g_intellimouse)
  /\ g_mouse.x \in 0 .. g_fb_width - 1 /\ g_mouse.y \in 0 .. g_fb_height - 1
  /\ ~g_mouse.pending => g_mouse.scroll = 0

\* What holds however the packets are cut up.
MouseSafe ==
  /\ MouseTypes /\ desync \in BOOLEAN
  /\ Len(g_packet) < Size(g_intellimouse)
  /\ g_mouse.x \in 0 .. g_fb_width - 1 /\ g_mouse.y \in 0 .. g_fb_height - 1

-----------------------------------------------------------------------------
(* The constants as numbers.                                               *)
LEMMA MouseNumbers ==
  /\ BYTE \in Nat /\ NIBBLE \in Nat /\ BYTE >= 2 /\ NIBBLE >= 4
  /\ g_fb_width \in Nat \ {0} /\ g_fb_height \in Nat \ {0}
BY MouseAssumption

(* The nine bits of a movement, the low byte and the sign among the flags, *)
(* give the movement back, at both ends of the range too.                  *)
LEMMA MagnitudeOfByte ==
  ASSUME NEW d \in {-BYTE, -1, 0, 1, BYTE - 1}
  PROVE  d % BYTE \in Int /\ magnitude(d % BYTE, d < 0) = d
<1>1. CASE d = -BYTE
  <2>1. (-BYTE) % BYTE = 0 BY MouseNumbers
  <2> QED BY <1>1, <2>1, MouseNumbers DEF magnitude
<1>2. CASE d = -1
  <2>1. (-1) % BYTE = BYTE - 1 BY MouseNumbers
  <2> QED BY <1>2, <2>1, MouseNumbers DEF magnitude
<1>3. CASE d \in {0, 1, BYTE - 1}
  <2>1. d % BYTE = d BY <1>3, MouseNumbers
  <2> QED BY <1>3, <2>1, MouseNumbers DEF magnitude
<1> QED BY <1>1, <1>2, <1>3

(* Sign extension gives a turn of the wheel back.                          *)
LEMMA ScrollOfNibble ==
  ASSUME NEW d \in {-(NIBBLE \div 2), 0, 1}
  PROVE  d % NIBBLE \in Int /\ dz_of(d % NIBBLE) = d
<1>1. NIBBLE \div 2 \in Nat /\ NIBBLE \div 2 >= 2 /\ 2 * (NIBBLE \div 2) <= NIBBLE BY MouseNumbers
<1>2. CASE d = -(NIBBLE \div 2)
  <2>1. d % NIBBLE = NIBBLE - (NIBBLE \div 2) BY <1>1, <1>2, MouseNumbers
  <2> QED BY <1>1, <1>2, <2>1, MouseNumbers DEF dz_of
<1>3. CASE d \in {0, 1}
  <2>1. d % NIBBLE = d BY <1>3, MouseNumbers
  <2> QED BY <1>1, <1>3, <2>1, MouseNumbers DEF dz_of
<1> QED BY <1>2, <1>3

(* clamp keeps a coordinate on the screen.                                 *)
LEMMA ClampInside ==
  ASSUME NEW n \in Int, NEW s \in Nat \ {0}
  PROVE  clamp(n, s) \in 0 .. s - 1
BY DEF clamp

(* A packet leads from a position to a position.                           *)
LEMMA AfterType ==
  ASSUME NEW a \in Position, NEW f \in MouseByte, NEW u \in MouseByte, NEW v \in MouseByte,
         NEW w, NEW wheel \in BOOLEAN, wheel => w \in MouseByte
  PROVE  AfterPacket(a, f, u, v, w, wheel) \in Position
<1>1. magnitude(u.value, f.xneg) \in Int /\ magnitude(v.value, f.yneg) \in Int
  BY MouseNumbers DEF magnitude, MouseByte
<1>2. wheel => dz_of(w.value) \in Int BY MouseNumbers DEF dz_of, MouseByte
<1>3. /\ clamp(a.x + magnitude(u.value, f.xneg), g_fb_width) \in Int
      /\ clamp(a.y - magnitude(v.value, f.yneg), g_fb_height) \in Int
  BY <1>1, MouseNumbers DEF clamp, Position
<1>4. f.value % 8 \in Int
  <2>1. f.value \in Int BY DEF MouseByte
  <2> QED BY <2>1
<1> QED BY <1>2, <1>3, <1>4 DEF AfterPacket, Position, MouseByte

(* A tuple put together from two.                                          *)
LEMMA TupleConcat ==
  ASSUME NEW S, NEW f \in S, NEW u \in S, NEW v \in S, NEW w \in S
  PROVE  <<f, u, v>> \o <<w>> = <<f, u, v, w>>
<1>1. <<f, u, v>> \in Seq(S) /\ Len(<<f, u, v>>) = 3 OBVIOUS
<1>2. <<f, u, v, w>> \in Seq(S) /\ Len(<<f, u, v, w>>) = 4 OBVIOUS
<1>3. PICK r : r = Append(<<f, u, v>>, w) OBVIOUS
<1>4. r \in Seq(S) /\ Len(r) = 4 /\ r[4] = w /\ r[1] = f /\ r[2] = u /\ r[3] = v BY <1>1, <1>3, AppendProperties
<1>5. \A i \in 1 .. 4 : r[i] = <<f, u, v, w>>[i]
  <2>1. 1 .. 4 = {1, 2, 3, 4} OBVIOUS
  <2> QED BY <1>4, <2>1
<1>6. r = <<f, u, v, w>> BY <1>2, <1>4, <1>5, SeqEqual
<1>7. <<f, u, v>> \o <<w>> = r BY <1>1, <1>3, AppendIsConcat
<1> QED BY <1>6, <1>7

(* Packets are what their bytes are, wherever these are kept.              *)
LEMMA SameBytes ==
  ASSUME NEW g \in Seq(MouseByte), NEW b \in Seq(MouseByte), NEW h \in Seq(MouseByte), NEW c \in Seq(MouseByte),
         NEW wheel \in BOOLEAN, NEW o \in Nat, NEW m \in Nat, NEW tr,
         Packets(g, b, wheel, o, m, tr),
         Same(g, b, o, h, c, 0, m, wheel)
  PROVE  Packets(h, c, wheel, 0, m, tr)
<1>0. PICK z \in Nat : z = 0 /\ Same(g, b, o, h, c, z, m, wheel) OBVIOUS
<1>1. PICK n \in {3, 4} : n = Size(wheel) BY DEF Size
<1>2. /\ Len(g) + Len(b) = o + m * n /\ tr \in [0 .. m -> Position]
      /\ \A k \in 0 .. m - 1 : PacketAt(g, b, wheel, o + k * n, tr[k], tr[k + 1])
  BY <1>1 DEF Packets
<1>3. Len(g) \in Nat /\ Len(b) \in Nat /\ Len(h) \in Nat /\ Len(c) \in Nat BY LenProperties
<1>4. Len(h) + Len(c) = z + m * n
  <2>1. PICK mn \in Nat : mn = m * n OBVIOUS
  <2>2. Len(g) + Len(b) = o + mn BY <1>2, <2>1
  <2>3. PICK lg \in Nat, lb \in Nat, lh \in Nat, lc \in Nat : lg = Len(g) /\ lb = Len(b) /\ lh = Len(h) /\ lc = Len(c)
    BY <1>3
  <2>3a. lh + lc + o = lg + lb + z /\ lg + lb = o + mn BY <1>0, <2>2, <2>3 DEF Same
  <2>3b. lh + lc = z + mn BY <2>3a
  <2>4. Len(h) + Len(c) = z + mn BY <2>3, <2>3b
  <2> QED BY <2>1, <2>4
<1>5. ASSUME NEW k \in 0 .. m - 1 PROVE PacketAt(h, c, wheel, z + k * n, tr[k], tr[k + 1])
  <2>1. k * n \in Nat /\ \A i \in {1, 2, 3, n} : k * n + i \in 1 .. m * n
    <3>1. CASE n = 3 BY <3>1
    <3>2. CASE n = 4 BY <3>2
    <3> QED BY <3>1, <3>2
  <2>2. ASSUME NEW i \in {1, 2, 3, n} PROVE ByteAt(h, c, (z + k * n) + i) = ByteAt(g, b, (o + k * n) + i)
    <3>1. PICK e \in 1 .. m * n : e = k * n + i BY <2>1
    <3>2. ByteAt(h, c, z + e) = ByteAt(g, b, o + e) BY <1>0, <1>1 DEF Same
    <3>3. z + e = (z + k * n) + i /\ o + e = (o + k * n) + i BY <2>1, <3>1
    <3> QED BY <3>2, <3>3
  <2>3. PacketAt(g, b, wheel, o + k * n, tr[k], tr[k + 1]) BY <1>2
  <2> QED BY <1>1, <2>2, <2>3 DEF PacketAt
<1>6. Packets(h, c, wheel, z, m, tr) BY <1>1, <1>2, <1>4, <1>5 DEF Packets
<1> QED BY <1>0, <1>6

(* The first of several packets, and those behind it.                      *)
LEMMA FirstPacket ==
  ASSUME NEW g, NEW b, NEW wheel \in BOOLEAN, NEW o \in Nat, NEW m \in Nat \ {0}, NEW tr,
         Packets(g, b, wheel, o, m, tr),
         NEW ts, ts = [k \in 0 .. m - 1 |-> tr[k + 1]]
  PROVE  /\ PacketAt(g, b, wheel, o, tr[0], tr[1])
         /\ Packets(g, b, wheel, o + Size(wheel), m - 1, ts)
<1>1. PICK n \in {3, 4} : n = Size(wheel) BY DEF Size
<1>2. /\ Len(g) + Len(b) = o + m * n /\ tr \in [0 .. m -> Position]
      /\ \A k \in 0 .. m - 1 : PacketAt(g, b, wheel, o + k * n, tr[k], tr[k + 1])
  BY <1>1 DEF Packets
<1>3. PacketAt(g, b, wheel, o, tr[0], tr[1])
  <2>1. 0 \in 0 .. m - 1 /\ o + 0 * n = o /\ 0 + 1 = 1 OBVIOUS
  <2> QED BY <1>2, <2>1
<1>4. m - 1 \in Nat /\ Len(g) + Len(b) = (o + n) + (m - 1) * n
  <2>1. m * n = n + (m - 1) * n
    <3>1. CASE n = 3 BY <3>1
    <3>2. CASE n = 4 BY <3>2
    <3> QED BY <3>1, <3>2
  <2>2. (m - 1) * n \in Int OBVIOUS
  <2> QED BY <1>2, <2>1, <2>2
<1>5. ts = [k \in 0 .. m - 1 |-> tr[k + 1]] OBVIOUS
<1>6. ts \in [0 .. m - 1 -> Position] BY <1>2, <1>5
<1>7. ASSUME NEW k \in 0 .. (m - 1) - 1 PROVE PacketAt(g, b, wheel, (o + n) + k * n, ts[k], ts[k + 1])
  <2>1. k + 1 \in 0 .. m - 1 /\ ts[k] = tr[k + 1] /\ ts[k + 1] = tr[(k + 1) + 1] BY <1>5
  <2>2. o + (k + 1) * n = (o + n) + k * n
    <3>1. CASE n = 3 BY <3>1
    <3>2. CASE n = 4 BY <3>2
    <3> QED BY <3>1, <3>2
  <2> QED BY <1>2, <2>1, <2>2
<1> QED BY <1>1, <1>3, <1>4, <1>5, <1>6, <1>7 DEF Packets

\* The positions tr, and one more.
OnePosition(tr, m, e) == [k \in 0 .. m + 1 |-> IF k <= m THEN tr[k] ELSE e]

(* A packet sent behind the others.                                        *)
LEMMA OneMore ==
  ASSUME NEW g \in Seq(MouseByte), NEW b \in Seq(MouseByte), NEW q \in Seq(MouseByte),
         NEW wheel \in BOOLEAN, NEW o \in Nat, NEW m \in Nat, NEW tr,
         Packets(g, b, wheel, o, m, tr),
         Len(q) = Size(wheel), q[1].sync,
         NEW e \in Position, e = AfterPacket(tr[m], q[1], q[2], q[3], q[Size(wheel)], wheel),
         NEW ts, ts = OnePosition(tr, m, e)
  PROVE  Packets(g, b \o q, wheel, o, m + 1, ts)
<1>1. PICK n \in {3, 4} : n = Size(wheel) BY DEF Size
<1>2. /\ Len(g) + Len(b) = o + m * n /\ tr \in [0 .. m -> Position]
      /\ \A k \in 0 .. m - 1 : PacketAt(g, b, wheel, o + k * n, tr[k], tr[k + 1])
  BY <1>1 DEF Packets
<1>3. Len(g) \in Nat /\ Len(b) \in Nat /\ Len(q) = n BY <1>1, LenProperties
<1>4. PICK c : c = b \o q OBVIOUS
<1>5. /\ c \in Seq(MouseByte) /\ Len(c) = Len(b) + n
      /\ \A i \in 1 .. Len(b) : c[i] = b[i]
      /\ \A i \in 1 .. n : c[Len(b) + i] = q[i]
  BY <1>3, <1>4, ConcatProperties
<1>6. ASSUME NEW k \in 1 .. Len(g) + Len(b) PROVE ByteAt(g, c, k) = ByteAt(g, b, k)
  <2>1. CASE k <= Len(g) BY <2>1 DEF ByteAt
  <2>2. CASE ~(k <= Len(g))
    <3>1. k - Len(g) \in 1 .. Len(b) BY <1>3, <2>2
    <3>2. c[k - Len(g)] = b[k - Len(g)] BY <1>5, <3>1
    <3> QED BY <2>2, <3>2 DEF ByteAt
  <2> QED BY <2>1, <2>2
<1>7. ASSUME NEW i \in 1 .. n PROVE ByteAt(g, c, (o + m * n) + i) = q[i]
  <2>1. PICK lg \in Nat, lb \in Nat : lg = Len(g) /\ lb = Len(b) BY <1>3
  <2>2. PICK j : j = (o + m * n) + i OBVIOUS
  <2>3. j = (lg + lb) + i BY <1>2, <2>1, <2>2
  <2>4. i \in Nat \ {0} OBVIOUS
  <2>5. ~(j <= lg) /\ j - lg = lb + i BY <2>3, <2>4
  <2> QED BY <1>5, <2>1, <2>2, <2>5 DEF ByteAt
<1>8. ts = [k \in 0 .. m + 1 |-> IF k <= m THEN tr[k] ELSE e] BY DEF OnePosition
<1>9. ts \in [0 .. m + 1 -> Position] BY <1>2, <1>8
<1>10. Len(g) + Len(c) = o + (m + 1) * n
  <2>1. m * n + n = (m + 1) * n
    <3>1. CASE n = 3 BY <3>1
    <3>2. CASE n = 4 BY <3>2
    <3> QED BY <3>1, <3>2
  <2>2. PICK mn \in Nat : mn = m * n OBVIOUS
  <2>3. PICK lg \in Nat, lb \in Nat : lg = Len(g) /\ lb = Len(b) BY <1>3
  <2>4. lg + lb = o + mn /\ Len(c) = lb + n BY <1>2, <1>5, <2>2, <2>3
  <2>5. lg + (lb + n) = o + (mn + n) BY <2>4
  <2> QED BY <2>1, <2>2, <2>3, <2>4, <2>5
<1>11. ASSUME NEW k \in 0 .. (m + 1) - 1 PROVE PacketAt(g, c, wheel, o + k * n, ts[k], ts[k + 1])
  <2>1. CASE k = m
    <3>1. ts[k] = tr[m] /\ ts[k + 1] = e BY <1>8, <2>1
    <3>2. \A i \in {1, 2, 3, n} : i \in 1 .. n OBVIOUS
    <3>3. \A i \in {1, 2, 3, n} : ByteAt(g, c, (o + k * n) + i) = q[i] BY <1>7, <2>1, <3>2
    <3> QED BY <1>1, <3>1, <3>3 DEF PacketAt
  <2>2. CASE k # m
    <3>1. k \in 0 .. m - 1 /\ ts[k] = tr[k] /\ ts[k + 1] = tr[k + 1] BY <1>8, <2>2
    <3>2. \A i \in {1, 2, 3, n} : (o + k * n) + i \in 1 .. Len(g) + Len(b)
      <4>1. CASE n = 3 BY <1>2, <3>1, <4>1
      <4>2. CASE n = 4 BY <1>2, <3>1, <4>2
      <4> QED BY <4>1, <4>2
    <3>3. \A i \in {1, 2, 3, n} : ByteAt(g, c, (o + k * n) + i) = ByteAt(g, b, (o + k * n) + i) BY <1>6, <3>2
    <3>4. PacketAt(g, b, wheel, o + k * n, tr[k], tr[k + 1]) BY <1>2, <3>1
    <3> QED BY <1>1, <3>1, <3>3, <3>4 DEF PacketAt
  <2> QED BY <2>1, <2>2
<1>12. m + 1 \in Nat OBVIOUS
<1> QED BY <1>1, <1>4, <1>8, <1>9, <1>10, <1>11, <1>12 DEF Packets

-----------------------------------------------------------------------------
(* mouse_init: nothing is on its way, the cursor is in the middle of the   *)
(* screen.                                                                 *)
LEMMA MouseInitial == MouseInit => MouseInv
<1> SUFFICES ASSUME MouseInit PROVE MouseInv OBVIOUS
<1>1. g_fb_width \div 2 \in 0 .. g_fb_width - 1 /\ g_fb_height \div 2 \in 0 .. g_fb_height - 1 BY MouseNumbers
<1>1a. g_fb_width \div 2 \in Int /\ g_fb_height \div 2 \in Int BY MouseNumbers
<1>2. MouseTypes
  <2>1. moved \in Position BY <1>1a DEF MouseInit, Position
  <2>2. g_mouse \in [x: Int, y: Int, buttons: Int, scroll: Int, pending: BOOLEAN] BY <1>1a DEF MouseInit
  <2>3. g_packet \in Seq(MouseByte) /\ bytes \in Seq(MouseByte) BY DEF MouseInit
  <2>4. g_intellimouse \in BOOLEAN /\ wrapped \in BOOLEAN BY Zenon DEF MouseInit
  <2>5. scrolled \in Int BY DEF MouseInit
  <2> QED BY <2>1, <2>2, <2>3, <2>4, <2>5 DEF MouseTypes
<1>3. Len(g_packet) = 0 /\ Len(bytes) = 0 BY DEF MouseInit
<1>4. Pending
  <2>1. PICK tr : tr = [k \in 0 .. 0 |-> moved] OBVIOUS
  <2>2. tr \in [0 .. 0 -> Position] /\ tr[0] = moved BY <1>2, <2>1 DEF MouseTypes
  <2>3. 0 * Size(g_intellimouse) = 0 BY DEF Size
  <2>4. Packets(g_packet, bytes, g_intellimouse, 0, 0, tr) BY <1>3, <2>2, <2>3 DEF Packets
  <2>5. Here(tr[0], g_mouse, scrolled, wrapped) BY <2>2 DEF Here, MouseInit
  <2> QED BY <2>2, <2>4, <2>5 DEF Pending
<1> QED BY <1>1, <1>2, <1>3, <1>4 DEF MouseInv, MouseInit, Size

(* The mouse sends a packet.                                               *)
LEMMA SendInv ==
  ASSUME MouseInv, NEW dx \in {-BYTE, -1, BYTE - 1}, NEW dy \in {-1, 0, 1}, NEW dz \in {-(NIBBLE \div 2), 0, 1},
         NEW buttons \in {0, 1}, NEW overflow \in BOOLEAN, SendPacket(dx, dy, dz, buttons, overflow)
  PROVE  MouseInv'
<1>0. MouseTypes /\ Pending BY DEF MouseInv
<1>1. UNCHANGED <<g_intellimouse, g_packet, g_mouse, scrolled, wrapped>> /\ (g_intellimouse \/ dz = 0)
  BY DEF SendPacket
<1>2. PICK f, u, v, w : /\ f = Flags(TRUE, dx < 0, dy < 0, overflow, buttons) /\ u = Number(dx % BYTE)
                        /\ v = Number(dy % BYTE) /\ w = Number(dz % NIBBLE)
  OBVIOUS
<1>3. /\ dx \in Int /\ dy \in Int /\ dz \in Int
      /\ dx % BYTE \in Int /\ magnitude(dx % BYTE, dx < 0) = dx
      /\ dy % BYTE \in Int /\ magnitude(dy % BYTE, dy < 0) = dy
      /\ dz % NIBBLE \in Int /\ dz_of(dz % NIBBLE) = dz
  <2>1. dx \in {-BYTE, -1, 0, 1, BYTE - 1} /\ dy \in {-BYTE, -1, 0, 1, BYTE - 1} OBVIOUS
  <2>2. dx \in Int /\ dy \in Int /\ dz \in Int BY MouseNumbers
  <2> QED BY <2>1, <2>2, MagnitudeOfByte, ScrollOfNibble
<1>4. /\ f \in MouseByte /\ f.sync /\ f.overflow = overflow /\ f.value = buttons /\ f.xneg = (dx < 0) /\ f.yneg = (dy < 0)
      /\ u \in MouseByte /\ u.value = dx % BYTE /\ v \in MouseByte /\ v.value = dy % BYTE
      /\ w \in MouseByte /\ w.value = dz % NIBBLE
  <2>1. (dx < 0) \in BOOLEAN /\ (dy < 0) \in BOOLEAN BY <1>3
  <2>2. ASSUME NEW k \in Int PROVE Number(k) \in MouseByte /\ Number(k).value = k
    <3>1. (k % 2 = 1) \in BOOLEAN BY Zenon
    <3>2. (k >= BYTE \div 2) \in BOOLEAN BY MouseNumbers
    <3> QED BY <3>1, <3>2 DEF Number, Flags, MouseByte
  <2>3. u \in MouseByte /\ u.value = dx % BYTE BY <1>2, <1>3, <2>2
  <2>4. v \in MouseByte /\ v.value = dy % BYTE BY <1>2, <1>3, <2>2
  <2>5. w \in MouseByte /\ w.value = dz % NIBBLE BY <1>2, <1>3, <2>2
  <2> QED BY <1>2, <1>3, <2>1, <2>3, <2>4, <2>5 DEF Flags, MouseByte
<1>5. PICK wheel \in BOOLEAN : wheel = g_intellimouse BY <1>0 DEF MouseTypes
<1>6. PICK q : q = IF wheel THEN <<f, u, v, w>> ELSE <<f, u, v>> OBVIOUS
<1>7. q \in Seq(MouseByte) /\ Len(q) = Size(wheel) /\ q[1] = f /\ q[2] = u /\ q[3] = v /\ (wheel => q[Size(wheel)] = w)
  <2>1. CASE wheel BY <2>1, <1>4, <1>6 DEF Size
  <2>2. CASE ~wheel BY <2>2, <1>4, <1>6 DEF Size
  <2> QED BY <2>1, <2>2
<1>8. bytes' = bytes \o q
  <2>1. bytes' = bytes \o <<f, u, v>> \o (IF wheel THEN <<w>> ELSE <<>>) BY <1>2, <1>5 DEF SendPacket
  <2>2. CASE wheel
    <3>1. bytes \in Seq(MouseByte) /\ <<f, u, v>> \in Seq(MouseByte) /\ <<w>> \in Seq(MouseByte)
      BY <1>0, <1>4 DEF MouseTypes
    <3>2. bytes \o <<f, u, v>> \o <<w>> = bytes \o (<<f, u, v>> \o <<w>>) BY <3>1, ConcatAssociative
    <3>3. <<f, u, v>> \o <<w>> = <<f, u, v, w>> BY <1>4, TupleConcat
    <3> QED BY <2>1, <2>2, <3>2, <3>3, <1>6
  <2>3. CASE ~wheel
    <3>1. bytes \o <<f, u, v>> \o <<>> = bytes \o <<f, u, v>> BY <1>0, <1>4 DEF MouseTypes
    <3> QED BY <2>1, <2>3, <3>1, <1>6
  <2> QED BY <2>2, <2>3
<1>9. moved' = AfterPacket(moved, q[1], q[2], q[3], q[Size(wheel)], wheel)
  <2>1. moved \in Position BY <1>0 DEF MouseTypes
  <2>2. moved' = IF overflow THEN moved
              ELSE [x |-> clamp(moved.x + dx, g_fb_width), y |-> clamp(moved.y - dy, g_fb_height),
                    buttons |-> buttons, scroll |-> moved.scroll + dz]
    BY DEF SendPacket
  <2>3. dz = IF wheel THEN dz_of(q[Size(wheel)].value) ELSE 0 BY <1>1, <1>3, <1>4, <1>5, <1>7
  <2>4. magnitude(q[2].value, q[1].xneg) = dx /\ magnitude(q[3].value, q[1].yneg) = dy
        /\ q[1].overflow = overflow /\ q[1].value % 8 = buttons
    BY <1>3, <1>4, <1>7
  <2> QED BY <2>2, <2>3, <2>4 DEF AfterPacket
<1>10. moved' \in Position
  <2>1. moved \in Position BY <1>0 DEF MouseTypes
  <2>2. wheel => q[Size(wheel)] \in MouseByte BY <1>4, <1>7
  <2> QED BY <1>4, <1>7, <1>9, <2>1, <2>2, AfterType
<1>11. PICK b \in Seq(MouseByte) : b = bytes /\ Len(b) \in Nat BY <1>0, LenProperties DEF MouseTypes
<1>12. bytes' \in Seq(MouseByte) /\ (b # <<>> => bytes'[1] = b[1])
  BY <1>7, <1>8, <1>11, ConcatProperties
<1>13. MouseTypes' BY <1>0, <1>1, <1>10, <1>12 DEF MouseTypes
<1>14. PICK o \in {0, 1}, m \in Nat : \E tr \in [0 .. m -> Position] :
    /\ Packets(g_packet, bytes, g_intellimouse, o, m, tr)
    /\ o = 1 => g_packet = <<>> /\ ~bytes[1].sync
    /\ Here(tr[0], g_mouse, scrolled, wrapped) /\ tr[m] = moved
  BY <1>0 DEF Pending
<1>15. PICK tr \in [0 .. m -> Position] :
    /\ Packets(g_packet, bytes, g_intellimouse, o, m, tr)
    /\ o = 1 => g_packet = <<>> /\ ~bytes[1].sync
    /\ Here(tr[0], g_mouse, scrolled, wrapped) /\ tr[m] = moved
  BY <1>14
<1>15a. PICK e \in Position : e = moved' BY <1>10
<1>16. PICK ts : ts = OnePosition(tr, m, e) OBVIOUS
<1>17. Packets(g_packet, b \o q, wheel, o, m + 1, ts)
  <2>1. g_packet \in Seq(MouseByte) /\ o \in Nat BY <1>0 DEF MouseTypes
  <2>2. q[1].sync BY <1>4, <1>7
  <2>3. Packets(g_packet, b, wheel, o, m, tr) BY <1>5, <1>11, <1>15
  <2>4. e = AfterPacket(tr[m], q[1], q[2], q[3], q[Size(wheel)], wheel) BY <1>9, <1>15, <1>15a
  <2>5. q \in Seq(MouseByte) /\ Len(q) = Size(wheel) BY <1>7
  <2> QED BY <1>16, <2>1, <2>2, <2>3, <2>4, <2>5, OneMore
<1>18. ts[0] = tr[0] /\ ts[m + 1] = moved' /\ m + 1 \in Nat /\ ts \in [0 .. m + 1 -> Position]
  BY <1>15a, <1>16 DEF OnePosition
<1>19. o = 1 => g_packet' = <<>> /\ ~bytes'[1].sync
  <2> SUFFICES ASSUME o = 1 PROVE g_packet' = <<>> /\ ~bytes'[1].sync OBVIOUS
  <2>1. PICK ms \in Nat : ms = m * Size(wheel) BY DEF Size
  <2>2. Len(g_packet) = 0 BY <1>15
  <2>3. Len(b) = 1 + ms BY <1>5, <1>11, <1>15, <2>1, <2>2 DEF Packets
  <2>4. b # <<>> BY <2>3
  <2> QED BY <1>1, <1>11, <1>12, <1>15, <2>4
<1>20. Pending'
  <2>1. Packets(g_packet, bytes, g_intellimouse, o, m + 1, ts)' BY <1>1, <1>5, <1>8, <1>11, <1>17
  <2>2. Here(ts[0], g_mouse, scrolled, wrapped)' BY <1>1, <1>15, <1>18
  <2> QED BY <1>18, <1>19, <2>1, <2>2 DEF Pending
<1> QED BY <1>1, <1>13, <1>20 DEF MouseInv

(* The mouse answers a command, between packets.                           *)
LEMMA StrayInv ==
  ASSUME MouseInv, Stray(FALSE)
  PROVE  MouseInv'
<1>0. MouseTypes /\ Pending BY DEF MouseInv
<1>1. /\ bytes = <<>> /\ g_packet = <<>> /\ bytes' = <<Flags(FALSE, FALSE, FALSE, FALSE, 0)>>
      /\ UNCHANGED <<g_intellimouse, g_packet, g_mouse, packets, moved, scrolled, wrapped>>
  BY DEF Stray
<1>2. PICK e \in MouseByte : e = Flags(FALSE, FALSE, FALSE, FALSE, 0) /\ ~e.sync
  <2>1. Flags(FALSE, FALSE, FALSE, FALSE, 0) \in MouseByte /\ ~Flags(FALSE, FALSE, FALSE, FALSE, 0).sync
    BY DEF Flags, MouseByte
  <2> QED BY <2>1
<1>3. bytes' \in Seq(MouseByte) /\ Len(bytes') = 1 /\ bytes'[1] = e
  <2>1. bytes' = <<e>> BY <1>1, <1>2
  <2> QED BY <2>1
<1>4. MouseTypes' BY <1>0, <1>1, <1>3 DEF MouseTypes
<1>5. PICK o \in {0, 1}, m \in Nat : \E tr \in [0 .. m -> Position] :
    /\ Packets(g_packet, bytes, g_intellimouse, o, m, tr)
    /\ Here(tr[0], g_mouse, scrolled, wrapped) /\ tr[m] = moved
  BY <1>0 DEF Pending
<1>6. PICK tr \in [0 .. m -> Position] :
    /\ Packets(g_packet, bytes, g_intellimouse, o, m, tr)
    /\ Here(tr[0], g_mouse, scrolled, wrapped) /\ tr[m] = moved
  BY <1>5
<1>7. Len(bytes) = 0 /\ Len(g_packet) = 0 BY <1>1
<1>8. m = 0
  <2>1. PICK n \in {3, 4} : n = Size(g_intellimouse) BY DEF Size
  <2>2. 0 + 0 = o + m * n BY <1>6, <1>7, <2>1 DEF Packets
  <2>3. CASE n = 3 BY <2>2, <2>3
  <2>4. CASE n = 4 BY <2>2, <2>4
  <2> QED BY <2>3, <2>4
<1>9. Packets(g_packet, bytes, g_intellimouse, 1, m, tr)'
  <2>1. 0 * Size(g_intellimouse') = 0 BY DEF Size
  <2>2. Len(g_packet') + Len(bytes') = 1 + m * Size(g_intellimouse') BY <1>1, <1>3, <1>7, <1>8, <2>1
  <2> QED BY <1>8, <2>2 DEF Packets
<1>10. Pending'
  <2>1. Here(tr[0], g_mouse, scrolled, wrapped)' BY <1>1, <1>6
  <2>2. tr[m] = moved' /\ g_packet' = <<>> /\ ~bytes'[1].sync BY <1>1, <1>2, <1>3, <1>6
  <2> QED BY <1>9, <2>1, <2>2 DEF Pending
<1> QED BY <1>1, <1>4, <1>10 DEF MouseInv

(* SYS_READ_MOUSE moves the scroll to the program, when nothing of it is   *)
(* cut off, and takes none without a packet.                               *)
LEMMA ReadInv ==
  ASSUME MouseInv, SYS_READ_MOUSE
  PROVE  MouseInv'
<1>0. MouseTypes /\ Pending /\ (~g_mouse.pending => g_mouse.scroll = 0) BY DEF MouseInv
<1>1. /\ g_mouse' = [g_mouse EXCEPT !.pending = FALSE, !.scroll = 0]
      /\ scrolled' = IF g_mouse.pending THEN scrolled + Char(g_mouse.scroll) ELSE scrolled
      /\ wrapped' = (wrapped \/ Char(g_mouse.scroll) # g_mouse.scroll)
      /\ UNCHANGED <<g_intellimouse, bytes, g_packet, packets, moved>>
  BY DEF SYS_READ_MOUSE
<1>2. /\ g_mouse' \in [x: Int, y: Int, buttons: Int, scroll: Int, pending: BOOLEAN]
      /\ g_mouse'.x = g_mouse.x /\ g_mouse'.y = g_mouse.y /\ g_mouse'.buttons = g_mouse.buttons
      /\ g_mouse'.scroll = 0 /\ g_mouse'.pending = FALSE
  <2>1. g_mouse' = [x |-> g_mouse.x, y |-> g_mouse.y, buttons |-> g_mouse.buttons, scroll |-> 0, pending |-> FALSE]
    BY <1>0, <1>1 DEF MouseTypes
  <2>2. g_mouse.x \in Int /\ g_mouse.y \in Int /\ g_mouse.buttons \in Int BY <1>0 DEF MouseTypes
  <2> QED BY <2>1, <2>2
<1>3. Char(g_mouse.scroll) \in Int
  <2>1. g_mouse.scroll \in Int /\ CHAR \in Nat \ {0} BY <1>0, MouseAssumption DEF MouseTypes
  <2>2. CHAR \div 2 \in Int BY <2>1
  <2>3. (g_mouse.scroll + CHAR \div 2) % CHAR \in Int BY <2>1, <2>2
  <2> QED BY <2>2, <2>3 DEF Char
<1>4. MouseTypes' BY <1>0, <1>1, <1>2, <1>3 DEF MouseTypes
<1>5. ~wrapped' => ~wrapped /\ scrolled' + g_mouse'.scroll = scrolled + g_mouse.scroll
  BY <1>0, <1>1, <1>2 DEF MouseTypes
<1>6. PICK o \in {0, 1}, m \in Nat : \E tr \in [0 .. m -> Position] :
    /\ Packets(g_packet, bytes, g_intellimouse, o, m, tr)
    /\ o = 1 => g_packet = <<>> /\ ~bytes[1].sync
    /\ Here(tr[0], g_mouse, scrolled, wrapped) /\ tr[m] = moved
  BY <1>0 DEF Pending
<1>7. PICK tr \in [0 .. m -> Position] :
    /\ Packets(g_packet, bytes, g_intellimouse, o, m, tr)
    /\ o = 1 => g_packet = <<>> /\ ~bytes[1].sync
    /\ Here(tr[0], g_mouse, scrolled, wrapped) /\ tr[m] = moved
  BY <1>6
<1>8. Pending'
  <2>1. Here(tr[0], g_mouse, scrolled, wrapped)' BY <1>2, <1>5, <1>7 DEF Here
  <2>2. Packets(g_packet, bytes, g_intellimouse, o, m, tr)' BY <1>1, <1>7
  <2> QED BY <1>1, <1>7, <2>1, <2>2 DEF Pending
<1> QED BY <1>1, <1>2, <1>4, <1>8 DEF MouseInv

(* One byte from the device to the driver.                                 *)
LEMMA TakeByte ==
  ASSUME NEW g \in Seq(MouseByte), NEW b \in Seq(MouseByte), b # <<>>
  PROVE  /\ Head(b) \in MouseByte /\ Head(b) = b[1] /\ Tail(b) \in Seq(MouseByte)
         /\ Len(b) \in Nat \ {0} /\ Len(Tail(b)) = Len(b) - 1
         /\ \A k \in 1 .. Len(b) - 1 : Tail(b)[k] = b[k + 1]
         /\ Append(g, Head(b)) \in Seq(MouseByte)
         /\ Len(Append(g, Head(b))) = Len(g) + 1
         /\ \A k \in 1 .. Len(g) + 1 : Append(g, Head(b))[k] = ByteAt(g, b, k)
<1>1. /\ Head(b) \in MouseByte /\ Head(b) = b[1] /\ Tail(b) \in Seq(MouseByte)
      /\ Len(b) \in Nat \ {0} /\ Len(Tail(b)) = Len(b) - 1
      /\ \A k \in 1 .. Len(b) - 1 : Tail(b)[k] = b[k + 1]
  BY HeadTailProperties, LenProperties, EmptySeq
<1>2. PICK e \in MouseByte : e = b[1] /\ e = Head(b) BY <1>1
<1>3. /\ Append(g, e) \in Seq(MouseByte) /\ Len(Append(g, e)) = Len(g) + 1 /\ Append(g, e)[Len(g) + 1] = e
      /\ \A k \in 1 .. Len(g) : Append(g, e)[k] = g[k]
  BY AppendProperties
<1>4. Len(g) \in Nat BY LenProperties
<1>5. ASSUME NEW k \in 1 .. Len(g) + 1 PROVE Append(g, e)[k] = ByteAt(g, b, k)
  <2>1. CASE k <= Len(g) BY <1>3, <1>4, <2>1 DEF ByteAt
  <2>2. CASE ~(k <= Len(g))
    <3>1. k = Len(g) + 1 /\ k - Len(g) = 1 BY <1>4, <2>2
    <3> QED BY <1>2, <1>3, <2>2, <3>1 DEF ByteAt
  <2> QED BY <2>1, <2>2
<1> QED BY <1>1, <1>2, <1>3, <1>5

(* The driver has put a packet together: the bytes that no interrupt has   *)
(* taken are the packets behind it.                                        *)
LEMMA PacketDone ==
  ASSUME NEW g \in Seq(MouseByte), NEW b \in Seq(MouseByte), b # <<>>,
         NEW wheel \in BOOLEAN, Len(g) + 1 = Size(wheel),
         NEW r \in Nat, NEW ts, Packets(g, b, wheel, Size(wheel), r, ts)
  PROVE  Packets(<<>>, Tail(b), wheel, 0, r, ts)
<1>1. PICK n \in Nat : n = Size(wheel) BY DEF Size
<1>2. PICK c \in Seq(MouseByte) :
        c = Tail(b) /\ Len(c) = Len(b) - 1 /\ \A k \in 1 .. Len(b) - 1 : c[k] = b[k + 1]
  BY TakeByte
<1>3. <<>> \in Seq(MouseByte) /\ Len(<<>>) = 0 OBVIOUS
<1>4. PICK h \in Seq(MouseByte) : h = <<>> /\ Len(h) = 0 BY <1>3
<1>5. Len(g) \in Nat /\ Len(b) \in Nat BY LenProperties
<1>6. PICK rn \in Nat : rn = r * n /\ Len(g) + Len(b) = n + rn
  <2>1. r * n \in Nat OBVIOUS
  <2> QED BY <1>1, <2>1 DEF Packets
<1>6a. Len(g) + Len(b) = n + rn BY <1>6
<1>7. Len(g) = n - 1 BY <1>1, <1>5
<1>8. ASSUME NEW k \in 1 .. rn PROVE ByteAt(h, c, 0 + k) = ByteAt(g, b, n + k)
  <2>1. ~(n + k <= Len(g)) /\ (n + k) - Len(g) = k + 1 /\ k \in 1 .. Len(b) - 1 BY <1>5, <1>6a, <1>7
  <2>2. ByteAt(g, b, n + k) = b[k + 1] BY <2>1 DEF ByteAt
  <2>3. ByteAt(h, c, 0 + k) = c[k] BY <1>4 DEF ByteAt
  <2> QED BY <1>2, <2>1, <2>2, <2>3
<1>9. Len(h) + Len(c) + n = Len(g) + Len(b) + 0 BY <1>2, <1>4, <1>5, <1>7
<1>10. Same(g, b, n, h, c, 0, r, wheel) BY <1>1, <1>6, <1>8, <1>9 DEF Same
<1>11. Packets(g, b, wheel, n, r, ts) /\ 0 \in Nat BY <1>1
<1>12. Packets(h, c, wheel, 0, r, ts) BY <1>10, <1>11, SameBytes
<1> QED BY <1>2, <1>4, <1>12

(* on_mouse_irq: a stray byte is dropped, a byte in the middle of a packet *)
(* is kept, and a packet that is complete moves the cursor.                *)
LEMMA IrqInv ==
  ASSUME MouseInv, on_mouse_irq
  PROVE  MouseInv'
<1>0. /\ MouseTypes /\ Pending /\ Len(g_packet) < Size(g_intellimouse)
      /\ g_mouse.x \in 0 .. g_fb_width - 1 /\ g_mouse.y \in 0 .. g_fb_height - 1
      /\ ~g_mouse.pending => g_mouse.scroll = 0
  BY DEF MouseInv
<1>1. PICK g \in Seq(MouseByte), b \in Seq(MouseByte), wheel \in BOOLEAN :
        g = g_packet /\ b = bytes /\ wheel = g_intellimouse
  BY <1>0 DEF MouseTypes
<1>2. PICK n \in {3, 4} : n = Size(wheel) BY DEF Size
<1>3. Len(g) \in Nat /\ Len(b) \in Nat /\ Len(g) < n /\ b # <<>> BY <1>0, <1>1, <1>2, LenProperties DEF on_mouse_irq
<1>4. PICK p : p = Append(g, Head(b)) OBVIOUS
<1>5. PICK c : c = Tail(b) OBVIOUS
<1>6. /\ Head(b) \in MouseByte /\ Head(b) = b[1] /\ c \in Seq(MouseByte)
      /\ Len(b) \in Nat \ {0} /\ Len(c) = Len(b) - 1
      /\ \A k \in 1 .. Len(b) - 1 : c[k] = b[k + 1]
      /\ p \in Seq(MouseByte) /\ Len(p) = Len(g) + 1
      /\ \A k \in 1 .. Len(g) + 1 : p[k] = ByteAt(g, b, k)
  BY <1>3, <1>4, <1>5, TakeByte
<1>7. bytes' = c /\ UNCHANGED <<g_intellimouse, packets, moved, scrolled, wrapped>> BY <1>1, <1>5 DEF on_mouse_irq
<1>8. \/ g = <<>> /\ ~b[1].sync /\ g_packet' = g /\ g_mouse' = g_mouse
      \/ (g # <<>> \/ b[1].sync) /\ Len(p) < n /\ g_packet' = p /\ g_mouse' = g_mouse
      \/ Len(p) = n /\ g_packet' = <<>> /\ g_mouse' = IF p[1].overflow THEN g_mouse ELSE Moved(p)
  <2>1. packet_size = n BY <1>1, <1>2 DEF packet_size, Size
  <2> QED BY <1>1, <1>4, <1>6, <2>1 DEF on_mouse_irq
<1>9. PICK o \in {0, 1}, m \in Nat : \E tr \in [0 .. m -> Position] :
    /\ Packets(g, b, wheel, o, m, tr)
    /\ o = 1 => g = <<>> /\ ~b[1].sync
    /\ Here(tr[0], g_mouse, scrolled, wrapped) /\ tr[m] = moved
  BY <1>0, <1>1 DEF Pending
<1>10. PICK tr \in [0 .. m -> Position] :
    /\ Packets(g, b, wheel, o, m, tr)
    /\ o = 1 => g = <<>> /\ ~b[1].sync
    /\ Here(tr[0], g_mouse, scrolled, wrapped) /\ tr[m] = moved
  BY <1>9
<1>11. PICK mn \in Nat : mn = m * n /\ Len(g) + Len(b) = o + mn
  <2>1. m * n \in Nat OBVIOUS
  <2> QED BY <1>2, <1>10, <2>1 DEF Packets
<1>12. o = 0 => m \in Nat \ {0} /\ mn >= n
  <2> SUFFICES ASSUME o = 0 PROVE m \in Nat \ {0} /\ mn >= n OBVIOUS
  <2>1. mn # 0 BY <1>3, <1>6, <1>11
  <2>2. CASE n = 3 BY <1>11, <2>1, <2>2
  <2>3. CASE n = 4 BY <1>11, <2>1, <2>3
  <2> QED BY <2>2, <2>3
<1>13. CASE g = <<>> /\ ~b[1].sync /\ g_packet' = g /\ g_mouse' = g_mouse
  <2>1. Len(g) = 0 BY <1>13
  <2>2. o = 1
    <3> SUFFICES ASSUME o = 0 PROVE FALSE OBVIOUS
    <3>0. PICK ts : ts = [k \in 0 .. m - 1 |-> tr[k + 1]] OBVIOUS
    <3>1. PacketAt(g, b, wheel, o, tr[0], tr[1]) BY <1>10, <1>12, <3>0, FirstPacket
    <3>2. ByteAt(g, b, 0 + 1) = b[1] BY <2>1 DEF ByteAt
    <3> QED BY <1>13, <3>1, <3>2 DEF PacketAt
  <2>3a. Len(g) + Len(c) + o = Len(g) + Len(b) + 0 BY <1>3, <1>6, <2>2
  <2>3. Same(g, b, o, g, c, 0, m, wheel)
    <3> SUFFICES ASSUME NEW k \in 1 .. mn PROVE ByteAt(g, c, 0 + k) = ByteAt(g, b, o + k) BY <1>2, <1>11, <2>3a DEF Same
    <3>1. ByteAt(g, c, 0 + k) = c[k] /\ ByteAt(g, b, o + k) = b[k + 1] BY <2>1, <2>2 DEF ByteAt
    <3>2. k \in 1 .. Len(b) - 1 BY <1>6, <1>11, <2>1, <2>2
    <3> QED BY <1>6, <3>1, <3>2
  <2>5. Packets(g, c, wheel, 0, m, tr)
    <3>1. /\ o \in Nat /\ 0 \in Nat /\ m \in Nat /\ wheel \in BOOLEAN
          /\ {g, b, c, p} \subseteq Seq(MouseByte)
      BY <1>6
    <3> QED BY <1>10, <2>3, <3>1, SameBytes
  <2>6. Packets(g_packet, bytes, g_intellimouse, 0, m, tr)' BY <1>1, <1>7, <1>13, <2>5
  <2>7. Here(tr[0], g_mouse, scrolled, wrapped)' /\ tr[m] = moved' BY <1>7, <1>10, <1>13
  <2>8. Pending' BY <2>6, <2>7 DEF Pending
  <2>9. MouseTypes' BY <1>0, <1>1, <1>6, <1>7, <1>13 DEF MouseTypes
  <2> QED BY <1>0, <1>1, <1>7, <1>13, <2>8, <2>9 DEF MouseInv
<1>14. ASSUME ~(g = <<>> /\ ~b[1].sync) PROVE o = 0 BY <1>10, <1>14
<1>15. CASE (g # <<>> \/ b[1].sync) /\ Len(p) < n /\ g_packet' = p /\ g_mouse' = g_mouse
  <2>1. o = 0 BY <1>14, <1>15
  <2>3a. Len(p) + Len(c) + o = Len(g) + Len(b) + 0 BY <1>3, <1>6, <2>1
  <2>3. Same(g, b, o, p, c, 0, m, wheel)
    <3> SUFFICES ASSUME NEW k \in 1 .. mn PROVE ByteAt(p, c, k) = ByteAt(g, b, k) BY <1>2, <1>11, <2>1, <2>3a DEF Same
    <3>1. CASE k <= Len(p)
      <4>1. k \in 1 .. Len(g) + 1 BY <1>3, <1>6, <3>1
      <4> QED BY <1>6, <3>1, <4>1 DEF ByteAt
    <3>2. CASE ~(k <= Len(p))
      <4>1. /\ ~(k <= Len(g)) /\ k - Len(p) \in 1 .. Len(b) - 1
            /\ (k - Len(p)) + 1 = k - Len(g)
        BY <1>3, <1>6, <1>11, <2>1, <3>2
      <4>2. c[k - Len(p)] = b[(k - Len(p)) + 1] BY <1>6, <4>1
      <4> QED BY <3>2, <4>1, <4>2 DEF ByteAt
    <3> QED BY <3>1, <3>2
  <2>5. Packets(p, c, wheel, 0, m, tr)
    <3>1. /\ o \in Nat /\ 0 \in Nat /\ m \in Nat /\ wheel \in BOOLEAN
          /\ {g, b, c, p} \subseteq Seq(MouseByte)
      BY <1>6
    <3> QED BY <1>10, <2>3, <3>1, SameBytes
  <2>6. Packets(g_packet, bytes, g_intellimouse, 0, m, tr)' BY <1>1, <1>7, <1>15, <2>5
  <2>7. Here(tr[0], g_mouse, scrolled, wrapped)' /\ tr[m] = moved' BY <1>7, <1>10, <1>15
  <2>8. Pending' BY <2>6, <2>7 DEF Pending
  <2>9. MouseTypes' BY <1>0, <1>6, <1>7, <1>15 DEF MouseTypes
  <2>10. Len(g_packet') < Size(g_intellimouse') BY <1>1, <1>2, <1>7, <1>15
  <2> QED BY <1>0, <1>15, <2>8, <2>9, <2>10 DEF MouseInv
<1>16. CASE Len(p) = n /\ g_packet' = <<>> /\ g_mouse' = IF p[1].overflow THEN g_mouse ELSE Moved(p)
  <2>1. Len(g) = n - 1 /\ g # <<>> BY <1>3, <1>6, <1>16
  <2>2. o = 0 BY <1>14, <2>1
  <2>3. PICK ts : ts = [k \in 0 .. m - 1 |-> tr[k + 1]] OBVIOUS
  <2>4. PacketAt(g, b, wheel, 0, tr[0], tr[1]) /\ Packets(g, b, wheel, n, m - 1, ts)
    <3>1. /\ PacketAt(g, b, wheel, o, tr[0], tr[1])
          /\ Packets(g, b, wheel, o + Size(wheel), m - 1, ts)
      <4>1. m \in Nat \ {0} /\ o \in Nat BY <1>12, <2>2
      <4> QED BY <1>10, <2>3, <4>1, FirstPacket
    <3>2. o + Size(wheel) = n BY <1>2, <2>2
    <3> QED BY <2>2, <2>3, <3>1, <3>2
  <2>5. PICK r \in Nat, rn \in Nat : r = m - 1 /\ rn = r * n /\ Len(g) + Len(b) = n + rn
    <3>1. m - 1 \in Nat BY <1>12, <2>2
    <3>2. PICK r \in Nat : r = m - 1 BY <3>1
    <3>3. r * n \in Nat OBVIOUS
    <3> QED BY <1>2, <2>4, <3>2, <3>3 DEF Packets
  <2>6. Len(<<>>) = 0 OBVIOUS
  <2>9. Packets(<<>>, c, wheel, 0, r, ts)
    <3>1. Packets(g, b, wheel, Size(wheel), r, ts) /\ Len(g) + 1 = Size(wheel) BY <1>2, <1>3, <2>1, <2>4, <2>5
    <3> QED BY <1>3, <1>5, <3>1, PacketDone
  <2>10. Packets(g_packet, bytes, g_intellimouse, 0, r, ts)' BY <1>1, <1>7, <1>16, <2>9
  <2>11. ts[0] = tr[1] /\ ts[r] = moved' /\ ts \in [0 .. r -> Position]
    <3>1. 0 \in 0 .. r /\ r \in 0 .. r /\ r + 1 = m /\ \A k \in 0 .. r : k + 1 \in 0 .. m BY <2>5
    <3> QED BY <1>7, <1>10, <2>3, <2>5, <3>1
  <2>12. /\ p[1] = ByteAt(g, b, 0 + 1) /\ p[2] = ByteAt(g, b, 0 + 2) /\ p[3] = ByteAt(g, b, 0 + 3)
         /\ p[n] = ByteAt(g, b, 0 + n) /\ p[1] \in MouseByte /\ p[2] \in MouseByte /\ p[3] \in MouseByte /\ p[n] \in MouseByte
    <3>1. \A k \in {1, 2, 3, n} : k \in 1 .. Len(p) /\ k \in 1 .. Len(g) + 1 /\ 0 + k = k BY <1>3, <1>6, <2>1
    <3>2. \A k \in 1 .. Len(p) : p[k] \in MouseByte BY <1>6, ElementOfSeq
    <3> QED BY <1>6, <3>1, <3>2
  <2>13. tr[1] = AfterPacket(tr[0], p[1], p[2], p[3], p[n], wheel) BY <1>2, <2>4, <2>12 DEF PacketAt
  <2>14. Here(tr[0], g_mouse, scrolled, wrapped) /\ tr[0] \in Position BY <1>10
  <2>15. CASE p[1].overflow
    <3>1. g_mouse' = g_mouse /\ tr[1] = tr[0] BY <1>16, <2>13, <2>15 DEF AfterPacket
    <3>2. Here(ts[0], g_mouse, scrolled, wrapped)' BY <1>7, <2>11, <2>14, <3>1
    <3>3. Pending' BY <2>10, <2>11, <3>2 DEF Pending
    <3>4. MouseTypes' BY <1>0, <1>6, <1>7, <1>16, <3>1 DEF MouseTypes
    <3>5. Len(g_packet') < Size(g_intellimouse') BY <1>16, <2>6 DEF Size
    <3> QED BY <1>0, <3>1, <3>3, <3>4, <3>5 DEF MouseInv
  <2>16. CASE ~p[1].overflow
    <3>1. PICK a \in Int, d \in Int, y \in Int :
            /\ a = magnitude(p[2].value, p[1].xneg) /\ y = magnitude(p[3].value, p[1].yneg)
            /\ d = IF wheel THEN dz_of(p[n].value) ELSE 0
      <4>1. magnitude(p[2].value, p[1].xneg) \in Int /\ magnitude(p[3].value, p[1].yneg) \in Int
        BY <2>12, MouseNumbers DEF magnitude, MouseByte
      <4>2. dz_of(p[n].value) \in Int BY <2>12, MouseNumbers DEF dz_of, MouseByte
      <4> QED BY <4>1, <4>2
    <3>2. wheel => n = 4 BY <1>2 DEF Size
    <3>3. g_mouse' = [x |-> clamp(g_mouse.x + a, g_fb_width), y |-> clamp(g_mouse.y - y, g_fb_height),
                      buttons |-> p[1].value % 8, scroll |-> g_mouse.scroll + d, pending |-> TRUE]
      BY <1>1, <1>16, <2>16, <3>1, <3>2 DEF Moved
    <3>4. tr[1] = [x |-> clamp(tr[0].x + a, g_fb_width), y |-> clamp(tr[0].y - y, g_fb_height),
                   buttons |-> p[1].value % 8, scroll |-> tr[0].scroll + d]
      BY <2>13, <2>16, <3>1 DEF AfterPacket
    <3>5. /\ g_mouse.x \in Int /\ g_mouse.y \in Int /\ g_mouse.scroll \in Int /\ scrolled \in Int
      BY <1>0 DEF MouseTypes
    <3>6. /\ clamp(g_mouse.x + a, g_fb_width) \in 0 .. g_fb_width - 1
          /\ clamp(g_mouse.y - y, g_fb_height) \in 0 .. g_fb_height - 1
      <4>1. g_mouse.x + a \in Int /\ g_mouse.y - y \in Int BY <3>5
      <4>2. g_fb_width \in Nat \ {0} /\ g_fb_height \in Nat \ {0} BY MouseNumbers
      <4> QED BY <4>1, <4>2, ClampInside
    <3>7. p[1].value % 8 \in Int
      <4>1. p[1].value \in Int BY <2>12 DEF MouseByte
      <4> QED BY <4>1
    <3>8. /\ g_mouse' \in [x: Int, y: Int, buttons: Int, scroll: Int, pending: BOOLEAN]
          /\ g_mouse'.x \in 0 .. g_fb_width - 1 /\ g_mouse'.y \in 0 .. g_fb_height - 1
          /\ g_mouse'.pending
      BY <3>3, <3>5, <3>6, <3>7, MouseNumbers
    <3>9. Here(tr[1], g_mouse', scrolled, wrapped)
      <4>1. tr[0].x = g_mouse.x /\ tr[0].y = g_mouse.y /\ (~wrapped => tr[0].scroll = scrolled + g_mouse.scroll)
        BY <2>14 DEF Here
      <4> QED BY <3>3, <3>4, <3>5, <4>1 DEF Here
    <3>10. Here(ts[0], g_mouse, scrolled, wrapped)' BY <1>7, <2>11, <3>9
    <3>11. Pending' BY <2>10, <2>11, <3>10 DEF Pending
    <3>12. MouseTypes' BY <1>0, <1>6, <1>7, <1>16, <3>8 DEF MouseTypes
    <3>13. Len(g_packet') < Size(g_intellimouse') BY <1>16, <2>6 DEF Size
    <3> QED BY <3>8, <3>11, <3>12, <3>13 DEF MouseInv
  <2> QED BY <2>15, <2>16
<1> QED BY <1>8, <1>13, <1>15, <1>16

(* A step of on_mouse_irq keeps the cursor on the screen, also when the    *)
(* bytes it takes for a packet are not one.                                *)
LEMMA IrqSafe ==
  ASSUME MouseSafe, on_mouse_irq
  PROVE  MouseSafe'
<1>0. /\ MouseTypes /\ Len(g_packet) < Size(g_intellimouse) /\ desync \in BOOLEAN
      /\ g_mouse.x \in 0 .. g_fb_width - 1 /\ g_mouse.y \in 0 .. g_fb_height - 1
  BY DEF MouseSafe
<1>1. PICK g \in Seq(MouseByte), b \in Seq(MouseByte), wheel \in BOOLEAN :
        g = g_packet /\ b = bytes /\ wheel = g_intellimouse
  BY <1>0 DEF MouseTypes
<1>2. PICK n \in {3, 4} : n = Size(wheel) BY DEF Size
<1>3. Len(g) \in Nat /\ b # <<>> BY <1>1, LenProperties DEF on_mouse_irq
<1>4. PICK p : p = Append(g, Head(b)) OBVIOUS
<1>5. Tail(b) \in Seq(MouseByte) /\ p \in Seq(MouseByte) /\ Len(p) = Len(g) + 1 BY <1>3, <1>4, TakeByte
<1>6. bytes' = Tail(b) /\ UNCHANGED <<g_intellimouse, moved, scrolled, wrapped, desync>> BY <1>1 DEF on_mouse_irq
<1>7. \/ g_packet' = g /\ g_mouse' = g_mouse
      \/ Len(p) < n /\ g_packet' = p /\ g_mouse' = g_mouse
      \/ Len(p) = n /\ g_packet' = <<>> /\ g_mouse' = IF p[1].overflow THEN g_mouse ELSE Moved(p)
  <2>1. packet_size = n BY <1>1, <1>2 DEF packet_size, Size
  <2> QED BY <1>1, <1>4, <2>1 DEF on_mouse_irq
<1>8. g_packet' \in Seq(MouseByte) /\ Len(g_packet') < Size(g_intellimouse')
  <2>1. <<>> \in Seq(MouseByte) /\ Len(<<>>) = 0 OBVIOUS
  <2>2. CASE g_packet' = g BY <1>0, <1>1, <1>6, <2>2
  <2>3. CASE Len(p) < n /\ g_packet' = p BY <1>1, <1>2, <1>5, <1>6, <2>3
  <2>4. CASE g_packet' = <<>> BY <2>1, <2>4 DEF Size
  <2> QED BY <1>7, <2>2, <2>3, <2>4
<1>9. /\ g_mouse' \in [x: Int, y: Int, buttons: Int, scroll: Int, pending: BOOLEAN]
      /\ g_mouse'.x \in 0 .. g_fb_width - 1 /\ g_mouse'.y \in 0 .. g_fb_height - 1
  <2>1. CASE g_mouse' = g_mouse BY <1>0, <2>1 DEF MouseTypes
  <2>2. CASE Len(p) = n /\ g_mouse' = Moved(p)
    <3>1. \A k \in {1, 2, 3, n} : p[k] \in MouseByte BY <1>5, <2>2, ElementOfSeq
    <3>2. /\ p[1].value \in Int /\ p[2].value \in Int /\ p[3].value \in Int /\ p[n].value \in Int
          /\ p[1].xneg \in BOOLEAN /\ p[1].yneg \in BOOLEAN
      <4>1. ASSUME NEW e \in MouseByte PROVE e.value \in Int /\ e.xneg \in BOOLEAN /\ e.yneg \in BOOLEAN
        BY DEF MouseByte
      <4> QED BY <3>1, <4>1
    <3>3. PICK a \in Int, y \in Int, d \in Int, u \in Int :
            /\ a = magnitude(p[2].value, p[1].xneg) /\ y = magnitude(p[3].value, p[1].yneg)
            /\ d = (IF wheel THEN dz_of(p[4].value) ELSE 0) /\ u = p[1].value % 8
      <4>1. magnitude(p[2].value, p[1].xneg) \in Int /\ magnitude(p[3].value, p[1].yneg) \in Int
        BY <3>2, MouseNumbers DEF magnitude
      <4>2. wheel => n = 4 BY <1>2 DEF Size
      <4>3. (IF wheel THEN dz_of(p[4].value) ELSE 0) \in Int BY <3>2, <4>2, MouseNumbers DEF dz_of
      <4>4. p[1].value % 8 \in Int BY <3>2
      <4> QED BY <4>1, <4>3, <4>4
    <3>4. g_mouse' = [x |-> clamp(g_mouse.x + a, g_fb_width), y |-> clamp(g_mouse.y - y, g_fb_height),
                      buttons |-> u, scroll |-> g_mouse.scroll + d, pending |-> TRUE]
      BY <1>1, <2>2, <3>3 DEF Moved
    <3>5. g_mouse.x \in Int /\ g_mouse.y \in Int /\ g_mouse.scroll \in Int BY <1>0 DEF MouseTypes
    <3>6. /\ clamp(g_mouse.x + a, g_fb_width) \in 0 .. g_fb_width - 1
          /\ clamp(g_mouse.y - y, g_fb_height) \in 0 .. g_fb_height - 1
      <4>1. g_mouse.x + a \in Int /\ g_mouse.y - y \in Int BY <3>5
      <4>2. g_fb_width \in Nat \ {0} /\ g_fb_height \in Nat \ {0} BY MouseNumbers
      <4> QED BY <4>1, <4>2, ClampInside
    <3> QED BY <3>4, <3>5, <3>6, MouseNumbers
  <2> QED BY <1>7, <2>1, <2>2
<1>10. MouseTypes' BY <1>0, <1>5, <1>6, <1>8, <1>9 DEF MouseTypes
<1> QED BY <1>0, <1>6, <1>8, <1>9, <1>10 DEF MouseSafe

(* What happens after an acknowledgement came as a stray byte.             *)
LEMMA StraySafe ==
  ASSUME MouseSafe, NEW sync \in BOOLEAN, Stray(sync)
  PROVE  MouseSafe'
<1>1. UNCHANGED <<g_intellimouse, g_packet, g_mouse, packets, moved, scrolled, wrapped>> BY DEF Stray
<1>2. Flags(sync, sync, sync, sync, 0) \in MouseByte BY DEF Flags, MouseByte
<1>3. bytes' \in Seq(MouseByte) BY <1>2 DEF Stray
<1>4. desync' \in BOOLEAN BY Zenon DEF Stray
<1>5. MouseTypes' BY <1>1, <1>3 DEF MouseSafe, MouseTypes
<1> QED BY <1>1, <1>4, <1>5 DEF MouseSafe

(* A packet that is sent.                                                  *)
LEMMA SendSafe ==
  ASSUME MouseSafe, NEW dx \in {-BYTE, -1, BYTE - 1}, NEW dy \in {-1, 0, 1}, NEW dz \in {-(NIBBLE \div 2), 0, 1},
         NEW buttons \in {0, 1}, NEW overflow \in BOOLEAN, SendPacket(dx, dy, dz, buttons, overflow)
  PROVE  MouseSafe'
<1>0. MouseTypes BY DEF MouseSafe
<1>1. UNCHANGED <<g_intellimouse, g_packet, g_mouse, scrolled, wrapped, desync>> BY DEF SendPacket
<1>2. dx \in Int /\ dy \in Int /\ dz \in Int BY MouseNumbers
<1>3. dx % BYTE \in Int /\ dy % BYTE \in Int /\ dz % NIBBLE \in Int BY <1>2, MouseNumbers
<1>4. ASSUME NEW k \in Int PROVE Number(k) \in MouseByte
  <2>1. (k % 2 = 1) \in BOOLEAN BY Zenon
  <2>2. (k >= BYTE \div 2) \in BOOLEAN BY MouseNumbers
  <2> QED BY <2>1, <2>2 DEF Number, Flags, MouseByte
<1>5. Flags(TRUE, dx < 0, dy < 0, overflow, buttons) \in MouseByte
  <2>1. (dx < 0) \in BOOLEAN /\ (dy < 0) \in BOOLEAN BY <1>2
  <2> QED BY <2>1 DEF Flags, MouseByte
<1>6. PICK f \in MouseByte, u \in MouseByte, v \in MouseByte, w \in MouseByte :
        /\ f = Flags(TRUE, dx < 0, dy < 0, overflow, buttons) /\ u = Number(dx % BYTE)
        /\ v = Number(dy % BYTE) /\ w = Number(dz % NIBBLE)
  BY <1>3, <1>4, <1>5
<1>7. bytes' = bytes \o <<f, u, v>> \o (IF g_intellimouse THEN <<w>> ELSE <<>>) BY <1>6 DEF SendPacket
<1>8. bytes' \in Seq(MouseByte)
  <2>1. bytes \in Seq(MouseByte) BY <1>0 DEF MouseTypes
  <2>2. <<f, u, v>> \in Seq(MouseByte) /\ <<w>> \in Seq(MouseByte) /\ <<>> \in Seq(MouseByte) OBVIOUS
  <2>3. bytes \o <<f, u, v>> \in Seq(MouseByte) BY <2>1, <2>2, ConcatProperties
  <2>4. (IF g_intellimouse THEN <<w>> ELSE <<>>) \in Seq(MouseByte) BY <2>2
  <2> QED BY <1>7, <2>3, <2>4, ConcatProperties
<1>9. moved' \in Position
  <2>1. moved \in Position BY <1>0 DEF MouseTypes
  <2>2. moved' = IF overflow THEN moved
              ELSE [x |-> clamp(moved.x + dx, g_fb_width), y |-> clamp(moved.y - dy, g_fb_height),
                    buttons |-> buttons, scroll |-> moved.scroll + dz]
    BY DEF SendPacket
  <2>3. clamp(moved.x + dx, g_fb_width) \in Int /\ clamp(moved.y - dy, g_fb_height) \in Int
    BY <1>2, <2>1, MouseNumbers DEF clamp, Position
  <2> QED BY <1>2, <2>1, <2>2, <2>3 DEF Position
<1>10. MouseTypes' BY <1>0, <1>1, <1>8, <1>9 DEF MouseTypes
<1> QED BY <1>1, <1>10 DEF MouseSafe

(* The reads of programs.                                                  *)
LEMMA ReadSafe ==
  ASSUME MouseSafe, SYS_READ_MOUSE
  PROVE  MouseSafe'
<1>0. MouseTypes BY DEF MouseSafe
<1>1. /\ g_mouse' = [g_mouse EXCEPT !.pending = FALSE, !.scroll = 0]
      /\ scrolled' = IF g_mouse.pending THEN scrolled + Char(g_mouse.scroll) ELSE scrolled
      /\ wrapped' = (wrapped \/ Char(g_mouse.scroll) # g_mouse.scroll)
      /\ UNCHANGED <<g_intellimouse, bytes, g_packet, packets, moved, desync>>
  BY DEF SYS_READ_MOUSE
<1>2. /\ g_mouse' \in [x: Int, y: Int, buttons: Int, scroll: Int, pending: BOOLEAN]
      /\ g_mouse'.x = g_mouse.x /\ g_mouse'.y = g_mouse.y
  <2>1. g_mouse' = [x |-> g_mouse.x, y |-> g_mouse.y, buttons |-> g_mouse.buttons, scroll |-> 0, pending |-> FALSE]
    BY <1>0, <1>1 DEF MouseTypes
  <2>2. g_mouse.x \in Int /\ g_mouse.y \in Int /\ g_mouse.buttons \in Int BY <1>0 DEF MouseTypes
  <2> QED BY <2>1, <2>2
<1>3. Char(g_mouse.scroll) \in Int
  <2>1. g_mouse.scroll \in Int /\ CHAR \in Nat \ {0} BY <1>0, MouseAssumption DEF MouseTypes
  <2>2. CHAR \div 2 \in Int BY <2>1
  <2>3. (g_mouse.scroll + CHAR \div 2) % CHAR \in Int BY <2>1, <2>2
  <2> QED BY <2>2, <2>3 DEF Char
<1>4. MouseTypes' BY <1>0, <1>1, <1>2, <1>3 DEF MouseTypes
<1> QED BY <1>1, <1>2, <1>4 DEF MouseSafe

(* Every step keeps the cursor on the screen, and the driver in step with  *)
(* the mouse as long as no stray byte looks like the start of a packet.    *)
LEMMA MouseStep ==
  MouseSafe /\ (~desync => MouseInv) /\ [MouseNext]_mouseVars => MouseSafe' /\ (~desync' => MouseInv')
<1> SUFFICES ASSUME MouseSafe, ~desync => MouseInv, [MouseNext]_mouseVars PROVE MouseSafe' /\ (~desync' => MouseInv') OBVIOUS
<1>1. CASE UNCHANGED mouseVars
  <2>1. /\ g_intellimouse' = g_intellimouse /\ bytes' = bytes /\ g_packet' = g_packet /\ g_mouse' = g_mouse
        /\ moved' = moved /\ scrolled' = scrolled /\ wrapped' = wrapped /\ desync' = desync
    BY <1>1 DEF mouseVars
  <2>2. Pending => Pending' BY <2>1 DEF Pending
  <2>3. MouseTypes' BY <2>1 DEF MouseSafe, MouseTypes
  <2>4. MouseSafe' BY <2>1, <2>3 DEF MouseSafe
  <2> QED BY <2>1, <2>2, <2>3, <2>4 DEF MouseInv
<1>2. ASSUME NEW dx \in {-BYTE, -1, BYTE - 1}, NEW dy \in {-1, 0, 1}, NEW dz \in {-(NIBBLE \div 2), 0, 1},
             NEW buttons \in {0, 1}, NEW overflow \in BOOLEAN, SendPacket(dx, dy, dz, buttons, overflow)
      PROVE  MouseSafe' /\ (~desync' => MouseInv')
  <2>1. desync' = desync BY <1>2 DEF SendPacket
  <2> QED BY <1>2, <2>1, SendInv, SendSafe
<1>3. ASSUME NEW sync \in BOOLEAN, Stray(sync) PROVE MouseSafe' /\ (~desync' => MouseInv')
  <2>1. ~desync' => ~desync /\ sync = FALSE BY <1>3 DEF Stray
  <2> QED BY <1>3, <2>1, StrayInv, StraySafe
<1>4. CASE on_mouse_irq
  <2>1. desync' = desync BY <1>4 DEF on_mouse_irq
  <2> QED BY <1>4, <2>1, IrqInv, IrqSafe
<1>5. CASE SYS_READ_MOUSE
  <2>1. desync' = desync BY <1>5 DEF SYS_READ_MOUSE
  <2> QED BY <1>5, <2>1, ReadInv, ReadSafe
<1> QED BY <1>1, <1>2, <1>3, <1>4, <1>5 DEF MouseNext

(* For every size of the screen and any number of packets, of three bytes  *)
(* or four: the cursor never leaves the screen; and as long as no stray    *)
(* byte looks like the start of a packet, cursor, buttons and wheel are    *)
(* where the packets lead once all bytes are taken, however stray bytes    *)
(* and reads fall among them (on_mouse_irq, mouse_read_state).             *)
THEOREM MouseFollowsPackets == MouseSpec => []MouseFollows
<1>1. MouseSafe /\ (~desync => MouseInv) => MouseFollows
  <2> SUFFICES ASSUME MouseInv, bytes = <<>>, g_packet = <<>>
               PROVE  /\ <<g_mouse.x, g_mouse.y, g_mouse.buttons>> = <<moved.x, moved.y, moved.buttons>>
                      /\ ~wrapped => scrolled + g_mouse.scroll = moved.scroll
    BY DEF MouseFollows, MouseSafe
  <2>1. PICK o \in {0, 1}, m \in Nat : \E tr \in [0 .. m -> Position] :
      /\ Packets(g_packet, bytes, g_intellimouse, o, m, tr)
      /\ Here(tr[0], g_mouse, scrolled, wrapped) /\ tr[m] = moved
    BY DEF MouseInv, Pending
  <2>2. PICK n \in {3, 4} : n = Size(g_intellimouse) BY DEF Size
  <2>3. 0 + 0 = o + m * n BY <2>1, <2>2 DEF Packets
  <2>4. m = 0
    <3>1. CASE n = 3 BY <2>3, <3>1
    <3>2. CASE n = 4 BY <2>3, <3>2
    <3> QED BY <3>1, <3>2
  <2>5. Here(moved, g_mouse, scrolled, wrapped) BY <2>1, <2>4
  <2> QED BY <2>5 DEF MouseInv, Here, MouseTypes
<1>2. MouseInit => MouseSafe /\ (~desync => MouseInv)
  <2>1. MouseInit => desync \in BOOLEAN BY DEF MouseInit
  <2> QED BY <2>1, MouseInitial DEF MouseSafe, MouseInv
<1> QED BY <1>1, <1>2, MouseStep, PTL DEF MouseSpec

-----------------------------------------------------------------------------
(* The disk drivers.                                                       *)

\* A sector and what was written to it last.
SectorData == Nat \X Nat

\* A call, and what the drive shows.
DiskCall == [at: {"idle", "ready", "wait", "data", "flush"}, driver: {"ata", "ide"}, write: Nat, lba: Nat,
             count: Nat, s: Nat, buf: Seq(SectorData), result: BOOLEAN]
Drive == [bsy: BOOLEAN, drq: BOOLEAN, err: BOOLEAN, lba: Nat, left: Nat]

\* Types; the sectors of a call and those the drive has to do are on the disk.
DiskTypes ==
  /\ call \in DiskCall /\ drive \in Drive /\ gaveup \in BOOLEAN
  /\ media \in [Lba -> Nat]
  /\ call.at # "idle" => call.lba .. call.lba + call.count - 1 \subseteq Lba
  /\ drive.lba .. drive.lba + drive.left - 1 \subseteq Lba

\* The sectors a call has read are the ones it asked for, as they are stored.
ReadSoFar(c, m) == 
  /\ Len(c.buf) = c.s
  /\ \A k \in 1 .. c.s : c.buf[k] = <<c.lba + k - 1, m[c.lba + k - 1]>>

\* A call that has begun its command: the drive is at the sector that comes next.
InStep(c, d) == c.s < c.count /\ d.lba = c.lba + c.s /\ d.left = c.count - c.s

(* While no call gave up: the drive is idle between calls and until the    *)
(* command, is in step with the call after it, and what was read is right. *)
Steady(c, d, m) ==
  /\ c.at \in {"idle", "ready"} => ~d.bsy
  /\ c.at = "ready" => c.s = 0 /\ c.count > 0 /\ c.buf = <<>>
  /\ c.at \in {"wait", "data"} => InStep(c, d)
  /\ c.at = "data" => ~d.bsy 
  /\ c.at \in {"wait", "data"} /\ c.write = 0 => ReadSoFar(c, m)
  /\ c.at = "flush" => c.write # 0
  /\ c.at = "idle" /\ c.result /\ c.write = 0 => c.s = c.count /\ ReadSoFar(c, m)

\* The inductive invariant.
DiskInv == DiskTypes /\ (~gaveup => Steady(call, drive, media))

(* No call.                                                                *)
LEMMA IdleCall == Idle \in DiskCall
<1>0. <<>> \in Seq(SectorData) BY EmptySeq
<1>1. PICK e \in Seq(SectorData) : e = <<>> BY <1>0
<1> QED BY <1>1 DEF Idle, DiskCall

(* The invariant holds before the first call.                              *)
LEMMA DiskInitially == DiskInit => DiskInv
<1> SUFFICES ASSUME DiskInit PROVE DiskInv OBVIOUS
<1>1. call \in DiskCall BY IdleCall DEF DiskInit
<1>2. drive \in Drive BY DEF DiskInit, Drive
<1>3. media \in [Lba -> Nat] /\ gaveup \in BOOLEAN BY DEF DiskInit
<1>4. call.at = "idle" /\ call.result = FALSE BY DEF DiskInit, Idle
<1>5. drive.lba = 0 /\ drive.left = 0 /\ drive.bsy = FALSE BY DEF DiskInit
<1>6. DiskTypes BY <1>1, <1>2, <1>3, <1>4, <1>5 DEF DiskTypes
<1> QED BY <1>4, <1>5, <1>6 DEF DiskInv, Steady

(* A call as ata_read and ide_pio_access begin it: nothing is done yet.    *)
LEMMA NewCallLemma ==
  ASSUME NEW driver \in {"ata", "ide"}, NEW write \in Nat, NEW lba \in Nat, NEW count \in Nat
  PROVE  /\ NewCall(driver, write, lba, count) \in DiskCall
         /\ NewCall(driver, write, lba, count).at = IF driver = "ide" THEN "ready" ELSE "wait"
         /\ NewCall(driver, write, lba, count).lba = lba
         /\ NewCall(driver, write, lba, count).count = count
         /\ NewCall(driver, write, lba, count).s = 0
         /\ NewCall(driver, write, lba, count).write = write
         /\ NewCall(driver, write, lba, count).buf = <<>>
<1>0. Idle.s = 0 /\ Idle.buf = <<>> BY DEF Idle
<1>1. PICK c \in DiskCall : c = Idle BY IdleCall
<1>2. NewCall(driver, write, lba, count) =
        [c EXCEPT !.at = IF driver = "ide" THEN "ready" ELSE "wait", !.driver = driver, !.write = write,
                  !.lba = lba, !.count = count]
  BY <1>1 DEF NewCall
<1> QED BY <1>0, <1>1, <1>2 DEF DiskCall

(* A drive that is not busy takes the command; a busy one ignores it.      *)
LEMMA CommandLemma ==
  ASSUME NEW c \in DiskCall, NEW d \in Drive, NEW e \in Command(c, d)
  PROVE  /\ e \in Drive
         /\ d.bsy => e = d
         /\ ~d.bsy => e.lba = c.lba /\ e.left = c.count /\ e.bsy /\ ~e.err
<1>1. CASE d.bsy BY <1>1 DEF Command
<1>2. CASE ~d.bsy
  <2>1. PICK q \in BOOLEAN : e = [bsy |-> TRUE, drq |-> q, err |-> FALSE, lba |-> c.lba, left |-> c.count]
    BY <1>2 DEF Command
  <2>2. c.lba \in Nat /\ c.count \in Nat BY DEF DiskCall
  <2> QED BY <1>2, <2>1, <2>2 DEF Drive
<1> QED BY <1>1, <1>2

(* Every step of the drivers and of the drive keeps the invariant: a call  *)
(* that ends with an error leaves a drive that is not busy, so that the    *)
(* next command is taken.                                                  *)
LEMMA DiskStep == DiskInv /\ [DiskNext]_diskVars => DiskInv'
<1> SUFFICES ASSUME DiskInv, [DiskNext]_diskVars PROVE DiskInv' OBVIOUS
<1>1. /\ call \in DiskCall /\ drive \in Drive /\ gaveup \in BOOLEAN
      /\ media \in [Lba -> Nat]
      /\ call.at # "idle" => call.lba .. call.lba + call.count - 1 \subseteq Lba
      /\ drive.lba .. drive.lba + drive.left - 1 \subseteq Lba
      /\ ~gaveup => Steady(call, drive, media)
  BY DEF DiskInv, DiskTypes
<1>2. ASSUME NEW lba \in Lba, NEW count \in 1 .. MaxSectors, lba + count - 1 \in Lba,
             \/ ata_read(lba, count)
             \/ \E w \in Nat : ide_pio_access(w, lba, count)
      PROVE  DiskInv'
  <2>0. lba \in Nat /\ count \in Nat /\ count > 0 /\ lba .. lba + count - 1 \subseteq Lba
    BY <1>2, DiskAssumption
  <2>1. CASE ata_read(lba, count)
    <3>1. /\ call.at = "idle" /\ call' = NewCall("ata", 0, lba, count)
          /\ drive' \in Command(call', drive) /\ media' = media /\ gaveup' = gaveup
      BY <2>1 DEF ata_read
    <3>2. /\ call' \in DiskCall /\ call'.at = "wait" /\ call'.lba = lba /\ call'.count = count
          /\ call'.s = 0 /\ call'.buf = <<>>
      BY <2>0, <3>1, NewCallLemma
    <3>3. /\ drive' \in Drive
          /\ drive.bsy => drive' = drive
          /\ ~drive.bsy => drive'.lba = lba /\ drive'.left = count /\ drive'.bsy /\ ~drive'.err
      BY <1>1, <3>1, <3>2, CommandLemma
    <3>4. DiskTypes' BY <1>1, <2>0, <3>1, <3>2, <3>3 DEF DiskTypes
    <3>5. ASSUME ~gaveup PROVE Steady(call', drive', media')
      <4>1. ~drive.bsy BY <1>1, <3>1, <3>5 DEF Steady
      <4>2. InStep(call', drive') BY <2>0, <3>2, <3>3, <4>1 DEF InStep
      <4>3. ReadSoFar(call', media') BY <3>2 DEF ReadSoFar
      <4> QED BY <3>2, <4>2, <4>3 DEF Steady
    <3> QED BY <3>1, <3>4, <3>5 DEF DiskInv
  <2>2. ASSUME NEW w \in Nat, ide_pio_access(w, lba, count) PROVE DiskInv'
    <3>1. /\ call.at = "idle" /\ call' = NewCall("ide", w, lba, count)
          /\ drive' = drive /\ media' = media /\ gaveup' = gaveup
      BY <2>2 DEF ide_pio_access
    <3>2. /\ call' \in DiskCall /\ call'.at = "ready" /\ call'.lba = lba /\ call'.count = count
          /\ call'.s = 0 /\ call'.buf = <<>>
      BY <2>0, <3>1, NewCallLemma
    <3>4. DiskTypes' BY <1>1, <2>0, <3>1, <3>2 DEF DiskTypes
    <3>5. ASSUME ~gaveup PROVE Steady(call', drive', media')
      <4>1. ~drive.bsy BY <1>1, <3>1, <3>5 DEF Steady
      <4> QED BY <2>0, <3>1, <3>2, <4>1 DEF Steady
    <3> QED BY <3>1, <3>4, <3>5 DEF DiskInv
  <2> QED BY <1>2, <2>1, <2>2
<1>3. \A ok \in BOOLEAN :
        LET c == Return(ok) IN c \in DiskCall /\ c.at = "idle" /\ c.result = ok /\ c.s = call.s /\ c.count = call.count
           /\ c.buf = call.buf /\ c.lba = call.lba /\ c.write = call.write
  BY <1>1 DEF Return, DiskCall
<1>4. CASE ide_ready
  <2>1. call.at = "ready" /\ ~drive.bsy /\ media' = media /\ gaveup' = gaveup BY <1>4 DEF ide_ready
  <2>2. CASE drive.err
    <3>1. call' = Return(FALSE) /\ drive' = drive BY <1>4, <2>2 DEF ide_ready
    <3>2. call' \in DiskCall /\ call'.at = "idle" /\ call'.result = FALSE BY <1>3, <3>1
    <3> QED BY <1>1, <2>1, <3>1, <3>2 DEF DiskInv, DiskTypes, Steady
  <2>3. CASE ~drive.err
    <3>1. call' = [call EXCEPT !.at = "wait"] /\ drive' \in Command(call, drive) BY <1>4, <2>3 DEF ide_ready
    <3>2. /\ call' \in DiskCall /\ call'.at = "wait" /\ call'.lba = call.lba /\ call'.count = call.count
          /\ call'.s = call.s /\ call'.buf = call.buf
      BY <1>1, <3>1 DEF DiskCall
    <3>3. drive' \in Drive /\ drive'.lba = call.lba /\ drive'.left = call.count /\ drive'.bsy
      BY <1>1, <2>1, <3>1, CommandLemma
    <3>4. DiskTypes' BY <1>1, <2>1, <3>2, <3>3 DEF DiskTypes
    <3>5. ASSUME ~gaveup PROVE Steady(call', drive', media')
      <4>1. call.s = 0 /\ call.count > 0 /\ call.buf = <<>> BY <1>1, <2>1, <3>5 DEF Steady
      <4>0. call.lba \in Nat /\ call.count \in Nat BY <1>1 DEF DiskCall
      <4>2. InStep(call', drive') BY <3>2, <3>3, <4>0, <4>1 DEF InStep
      <4>3. ReadSoFar(call', media') BY <3>2, <4>1 DEF ReadSoFar
      <4> QED BY <3>2, <4>2, <4>3 DEF Steady
    <3> QED BY <2>1, <3>4, <3>5 DEF DiskInv
  <2> QED BY <2>2, <2>3
<1>5. CASE wait_data
  <2>1. call.at = "wait" /\ drive' = drive /\ media' = media BY <1>5 DEF wait_data
  <2>2. CASE call' = Return(FALSE) /\ ((gaveup' = gaveup /\ ~drive.bsy) \/ gaveup' = TRUE)
    <3>2. call' \in DiskCall /\ call'.at = "idle" /\ call'.result = FALSE BY <1>3, <2>2
    <3>3. gaveup' \in BOOLEAN /\ (~gaveup' => ~drive.bsy /\ ~gaveup) BY <1>1, <2>2
    <3> QED BY <1>1, <2>1, <2>2, <3>2, <3>3 DEF DiskInv, DiskTypes, Steady
  <2>3. CASE has_data(drive) /\ call' = [call EXCEPT !.at = "data"] /\ gaveup' = gaveup
    <3>2. /\ call' \in DiskCall /\ call'.at = "data" /\ call'.lba = call.lba /\ call'.count = call.count
          /\ call'.s = call.s /\ call'.buf = call.buf /\ call'.write = call.write
      BY <1>1, <2>3 DEF DiskCall
    <3>3. ~drive.bsy BY <2>3 DEF has_data
    <3>4. DiskTypes' BY <1>1, <2>1, <2>3, <3>2, <3>3 DEF DiskTypes
    <3>5. ASSUME ~gaveup PROVE Steady(call', drive', media')
      <4>1. InStep(call, drive) /\ (call.write = 0 => ReadSoFar(call, media)) BY <1>1, <2>1, <3>5 DEF Steady
      <4>2. InStep(call', drive') BY <2>1, <3>2, <4>1 DEF InStep
      <4>3. call'.write = 0 => ReadSoFar(call', media') BY <2>1, <3>2, <4>1 DEF ReadSoFar
      <4> QED BY <2>1, <3>2, <3>3, <4>2, <4>3 DEF Steady
    <3> QED BY <2>3, <3>4, <3>5 DEF DiskInv
  <2> QED BY <1>5, <2>2, <2>3 DEF wait_data
<1>6. CASE transfer
  <2> DEFINE last == call.s + 1 = call.count
             taken == ~drive.bsy /\ drive.left > 0
             word == IF taken THEN <<drive.lba, media[drive.lba]>> ELSE <<0, 0>>
             after == IF ~last THEN [call EXCEPT !.at = "wait"]
                      ELSE IF call.write # 0 THEN [call EXCEPT !.at = "flush"] ELSE Return(TRUE)
  <2>0. /\ call.lba \in Nat /\ call.count \in Nat /\ call.s \in Nat /\ call.write \in Nat /\ call.buf \in Seq(SectorData)
        /\ drive.lba \in Nat /\ drive.left \in Nat /\ drive.bsy \in BOOLEAN
    BY <1>1 DEF DiskCall, Drive
  <2>1. /\ call.at = "data"
        /\ call' = [after EXCEPT !.s = @ + 1, !.buf = IF call.write = 0 THEN Append(@, word) ELSE @]
        /\ media' = IF call.write # 0 /\ taken THEN [media EXCEPT ![drive.lba] = call.write] ELSE media
        /\ gaveup' = gaveup
    BY <1>6 DEF transfer
  <2>2. drive' \in IF ~taken THEN {drive}
                    ELSE {[drive EXCEPT !.lba = @ + 1, !.left = @ - 1, !.drq = q /\ drive.left > 1,
                             !.bsy = drive.left > 1 \/ (last /\ call.write # 0)] : q \in BOOLEAN}
    BY <1>6 DEF transfer
  <2>3. taken => drive.lba \in Lba BY <1>1, <2>0
  <2>4. word \in SectorData BY <1>1, <2>0, <2>3 DEF SectorData
  <2>5. media' \in [Lba -> Nat] BY <1>1, <2>0, <2>1
  <2>6. /\ after \in DiskCall /\ after.s = call.s /\ after.buf = call.buf /\ after.write = call.write
        /\ after.lba = call.lba /\ after.count = call.count
        /\ after.at = IF ~last THEN "wait" ELSE IF call.write # 0 THEN "flush" ELSE "idle"
    <3>1. CASE ~last BY <1>1, <3>1 DEF DiskCall
    <3>2. CASE last /\ call.write # 0 BY <1>1, <3>2 DEF DiskCall
    <3>3. CASE last /\ call.write = 0 BY <1>3, <3>3
    <3> QED BY <3>1, <3>2, <3>3
  <2>7. PICK a \in DiskCall : a = after BY <2>6
  <2>8. PICK b \in Seq(SectorData) : b = IF call.write = 0 THEN Append(call.buf, word) ELSE call.buf
    <3> HIDE DEF word
    <3>1. Append(call.buf, word) \in Seq(SectorData) BY <2>0, <2>4, AppendProperties
    <3>2. CASE call.write = 0 BY <3>1, <3>2
    <3>3. CASE call.write # 0 BY <2>0, <3>3
    <3> QED BY <3>2, <3>3
  <2>9. call' = [a EXCEPT !.s = call.s + 1, !.buf = b]
    <3> HIDE DEF after, word
    <3> QED BY <2>1, <2>6, <2>7, <2>8
  <2>10. /\ call' \in DiskCall /\ call'.s = call.s + 1 /\ call'.buf = b /\ call'.write = call.write
         /\ call'.lba = call.lba /\ call'.count = call.count
         /\ call'.at = IF ~last THEN "wait" ELSE IF call.write # 0 THEN "flush" ELSE "idle"
    <3>1. call.s + 1 \in Nat BY <2>0
    <3> HIDE DEF after, last
    <3>2. /\ call' \in DiskCall /\ call'.s = call.s + 1 /\ call'.buf = b /\ call'.write = a.write
          /\ call'.lba = a.lba /\ call'.count = a.count /\ call'.at = a.at
      BY <2>8, <2>9, <3>1 DEF DiskCall
    <3> QED BY <2>6, <2>7, <3>2, Zenon
  <2>11. ~taken => drive' = drive BY <2>2
  <2>12. ASSUME taken PROVE /\ drive' \in Drive /\ drive'.lba = drive.lba + 1 /\ drive'.left = drive.left - 1
                            /\ drive'.bsy = (drive.left > 1 \/ (last /\ call.write # 0))
    <3>1. PICK q \in BOOLEAN : drive' = [drive EXCEPT !.lba = @ + 1, !.left = @ - 1, !.drq = q /\ drive.left > 1,
                             !.bsy = drive.left > 1 \/ (last /\ call.write # 0)]
      BY <2>2, <2>12
    <3>2. PICK x \in BOOLEAN : x = (q /\ drive.left > 1) OBVIOUS
    <3>3. PICK y \in BOOLEAN : y = (drive.left > 1 \/ (last /\ call.write # 0)) OBVIOUS
    <3>4. drive' = [drive EXCEPT !.lba = drive.lba + 1, !.left = drive.left - 1, !.drq = x, !.bsy = y]
      BY <3>1, <3>2, <3>3, Zenon
    <3>5. drive.left - 1 \in Nat /\ drive.lba + 1 \in Nat BY <2>0, <2>12
    <3>6. drive' \in Drive /\ drive'.lba = drive.lba + 1 /\ drive'.left = drive.left - 1 /\ drive'.bsy = y
      BY <1>1, <3>4, <3>5 DEF Drive
    <3> QED BY <3>3, <3>6
  <2> HIDE DEF after, word
  <2>13. DiskTypes'
    <3>1. drive' \in Drive BY <1>1, <2>11, <2>12
    <3>2. drive'.lba .. drive'.lba + drive'.left - 1 \subseteq Lba
      <4>1. CASE taken
        <5>1. PICK x \in Nat, y \in Nat : x = drive.lba /\ y = drive.left /\ y > 0 BY <2>0, <4>1
        <5>2. drive'.lba = x + 1 /\ drive'.left = y - 1 BY <2>12, <4>1, <5>1
        <5>3. (x + 1) .. (x + 1) + (y - 1) - 1 \subseteq x .. x + y - 1 BY <5>1
        <5>4. x .. x + y - 1 \subseteq Lba BY <1>1, <5>1
        <5> QED BY <5>2, <5>3, <5>4
      <4>2. CASE ~taken BY <1>1, <2>11, <4>2
      <4> QED BY <4>1, <4>2
    <3> HIDE DEF taken, last
    <3> QED BY <1>1, <2>1, <2>5, <2>10, <3>1, <3>2 DEF DiskTypes
  <2>14. ASSUME ~gaveup PROVE Steady(call', drive', media')
    <3>1. InStep(call, drive) /\ ~drive.bsy /\ (call.write = 0 => ReadSoFar(call, media))
      BY <1>1, <2>1, <2>14 DEF Steady
    <3>2. taken
      <4>1. call.s < call.count /\ drive.left = call.count - call.s BY <3>1 DEF InStep
      <4>2. drive.left > 0 BY <2>0, <4>1
      <4> QED BY <3>1, <4>2
    <3>3. ASSUME ~last PROVE InStep(call', drive')
      <4>1. call.s < call.count /\ drive.left = call.count - call.s /\ drive.lba = call.lba + call.s BY <3>1 DEF InStep
      <4>2. drive'.lba = drive.lba + 1 /\ drive'.left = drive.left - 1 BY <2>12, <3>2
      <4>3. call'.s = call.s + 1 /\ call'.lba = call.lba /\ call'.count = call.count BY <2>10
      <4>4. call.s + 1 # call.count BY <3>3
      <4> HIDE DEF last, taken
      <4> QED BY <2>0, <4>1, <4>2, <4>3, <4>4 DEF InStep
    <3>4. last /\ call.write = 0 => ~drive'.bsy BY <2>0, <2>12, <3>1, <3>2 DEF InStep
    <3>5. ASSUME call.write = 0 PROVE ReadSoFar(call', media')
      <4>1. media' = media BY <2>1, <3>5
      <4>2. word = <<call.lba + call.s, media[call.lba + call.s]>> BY <3>1, <3>2 DEF word, InStep
      <4>3. Len(call.buf) = call.s /\ \A k \in 1 .. call.s : call.buf[k] = <<call.lba + k - 1, media[call.lba + k - 1]>>
        BY <3>1, <3>5 DEF ReadSoFar
      <4>4. b = Append(call.buf, word) BY <2>8, <3>5
      <4>5. Len(b) = call.s + 1 /\ \A k \in 1 .. call.s : b[k] = call.buf[k]
        BY <2>0, <2>4, <4>3, <4>4
      <4>6. b[call.s + 1] = word BY <2>0, <2>4, <4>3, <4>4
      <4>7. ASSUME NEW k \in 1 .. call.s + 1 PROVE b[k] = <<call.lba + k - 1, media[call.lba + k - 1]>>
        <5>1. CASE k \in 1 .. call.s BY <4>3, <4>5, <5>1
        <5>2. CASE k = call.s + 1
          <6>1. call.lba + k - 1 = call.lba + call.s BY <2>0, <5>2
          <6> QED BY <4>2, <4>6, <5>2, <6>1
        <5> QED BY <2>0, <4>7, <5>1, <5>2
      <4> QED BY <2>10, <4>1, <4>5, <4>7 DEF ReadSoFar
    <3>6. call'.at = "idle" => call'.s = call'.count BY <2>10
    <3>7. call'.at = "idle" => last /\ call.write = 0 BY <2>10
    <3>8. call'.at = "wait" => ~last BY <2>10
    <3>9. call'.at = "flush" => call.write # 0 BY <2>10
    <3>10. call'.at \notin {"ready", "data"} BY <2>10
    <3> HIDE DEF last, taken
    <3> QED BY <2>10, <3>3, <3>4, <3>5, <3>6, <3>7, <3>8, <3>9, <3>10 DEF Steady
  <2> QED BY <2>1, <2>13, <2>14 DEF DiskInv
<1>7. CASE ide_flushed
  <2>1. call.at = "flush" /\ ~drive.bsy /\ call' = Return(TRUE) /\ drive' = drive /\ media' = media /\ gaveup' = gaveup
    BY <1>7 DEF ide_flushed
  <2>2. call' \in DiskCall /\ call'.at = "idle" /\ call'.write = call.write BY <1>3, <2>1
  <2> QED BY <1>1, <2>1, <2>2 DEF DiskInv, DiskTypes, Steady
<1>8. ASSUME NEW ok \in BOOLEAN, DriveDone(ok) PROVE DiskInv'
  <2>1. /\ drive.bsy /\ call' = call /\ media' = media /\ gaveup' = gaveup
        /\ drive' = [drive EXCEPT !.bsy = FALSE, !.drq = ok /\ drive.left > 0, !.err = ~ok]
    BY <1>8 DEF DriveDone
  <2>2. PICK x \in BOOLEAN : x = (ok /\ drive.left > 0) OBVIOUS
  <2>3. drive' = [drive EXCEPT !.bsy = FALSE, !.drq = x, !.err = ~ok] BY <2>1, <2>2, Zenon
  <2>4. drive' \in Drive /\ drive'.lba = drive.lba /\ drive'.left = drive.left /\ ~drive'.bsy
    BY <1>1, <2>3 DEF Drive
  <2> QED BY <1>1, <2>1, <2>4 DEF DiskInv, DiskTypes, Steady, InStep, ReadSoFar
<1>9. CASE UNCHANGED diskVars
  BY <1>1, <1>9 DEF diskVars, DiskInv, DiskTypes
<1>10. 0 \in Nat /\ 1 .. MaxWrites \subseteq Nat BY DiskAssumption
<1> QED BY <1>2, <1>4, <1>5, <1>6, <1>7, <1>8, <1>9, <1>10 DEF DiskNext

(* For every disk and every sequence of calls of ata_read and              *)
(* ide_pio_access, well or with errors: a read that reports success has    *)
(* returned the sectors asked for, as they were last written, unless       *)
(* ata_read has given up on a busy drive before.                           *)
THEOREM SectorsAreRight == DiskSpec => []SectorsRight
<1>1. DiskInv => SectorsRight
  <2> SUFFICES ASSUME DiskInv, call.at = "idle", call.result, call.write = 0, ~gaveup
               PROVE  call.buf = [k \in 1 .. call.count |-> <<call.lba + k - 1, media[call.lba + k - 1]>>]
    BY DEF SectorsRight
  <2>1. call.s = call.count /\ ReadSoFar(call, media) BY DEF DiskInv, Steady
  <2>2. call.buf \in Seq(SectorData) BY DEF DiskInv, DiskTypes, DiskCall
  <2>3. call.buf = [k \in 1 .. Len(call.buf) |-> call.buf[k]] BY <2>2
  <2> QED BY <2>1, <2>3 DEF ReadSoFar
<1> QED BY <1>1, DiskInitially, DiskStep, PTL DEF DiskSpec

-----------------------------------------------------------------------------
(* The rings of the network card.                                          *)

\* The descriptor a places after position p of a ring of N.
DescIndex(p, a, N) == (p + a) % N

\* Types of the receive ring.
RxTypes ==
  /\ rx_descs \in [Rx -> [frame: Nat, done: BOOLEAN]]
  /\ rx_tail \in Rx /\ came \in Nat /\ kept \in Seq(Nat) /\ up \in Seq(Nat)

\* A descriptor of the transmit ring, and the types of the ring.
TxDesc == [addr: Memory, done: BOOLEAN, frame: Nat]
TxTypes ==
  /\ tx_descs \in [Tx -> TxDesc] /\ mem \in [Memory -> Nat]
  /\ tx_tail \in Tx /\ TDH \in Tx /\ given \in Nat /\ sent_frames \in Seq(Nat)

\* The frames given up are the first ones the card kept.
UpIsPrefix ==
  Len(up) <= Len(kept) /\ \A k \in 1 .. Len(up) : up[k] = kept[k]

\* w frames wait from the driver's position on, and the card has the rest of
\* the ring but one.
RxRing(D, p, w, h, t, u, s) ==
  /\ w \in 0 .. RX_DESC_COUNT - 1
  /\ h = DescIndex(p, w, RX_DESC_COUNT) /\ t = DescIndex(p, RX_DESC_COUNT - 1, RX_DESC_COUNT)
  /\ \A a \in Rx : D[DescIndex(p, a, RX_DESC_COUNT)].done <=> a < w
  /\ \A a \in Rx : a < w => D[DescIndex(p, a, RX_DESC_COUNT)].frame = s[u + a + 1]

\* The w frames not sent yet stand from the card's position on, in order, and
\* are in memory unless they are in S, the ones whose memory was used again; the
\* other descriptors are done.
TxRing(D, p, w, t, v, m, S) ==
  /\ w \in 0 .. TX_DESC_COUNT
  /\ t = DescIndex(p, w, TX_DESC_COUNT)
  /\ \A a \in Tx : ~D[DescIndex(p, a, TX_DESC_COUNT)].done <=> a < w
  /\ \A a \in Tx : a < w => /\ D[DescIndex(p, a, TX_DESC_COUNT)].frame = v + a + 1
                            /\ v + a + 1 \in S \/ m[D[DescIndex(p, a, TX_DESC_COUNT)].addr] = v + a + 1

\* The two rings once the card is up; before, nothing has moved.
RingsInv ==
  IF nic_state = "up"
  THEN /\ RxRing(rx_descs, rx_tail, Len(kept) - Len(up), RDH, RDT, Len(up), kept)
       /\ TxRing(tx_descs, TDH, given - Len(sent_frames), TDT, Len(sent_frames), mem, spoilt)
       /\ tx_tail = TDT
       /\ \A k \in 1 .. Len(sent_frames) : k \in spoilt \/ sent_frames[k] = k
  ELSE kept = <<>> /\ up = <<>> /\ rx_tail = 0 /\ tx_tail = 0 /\ given = 0 /\ sent_frames = <<>>

\* The inductive invariant of the driver and the card.
E1000Inv == RxTypes /\ TxTypes /\ UpIsPrefix /\ RingsInv

(* Before e1000_init the invariant holds.                                  *)
LEMMA E1000InitInv == E1000Init => E1000Inv
<1> SUFFICES ASSUME E1000Init PROVE E1000Inv OBVIOUS
<1>1. 0 \in Rx /\ 0 \in Tx BY E1000Assumption DEF Rx, Tx
<1>2. RxTypes BY <1>1 DEF RxTypes, E1000Init
<1>3. TxTypes
  <2>1. PICK b \in Memory : b = CHOOSE c \in Memory : TRUE BY E1000Assumption
  <2>2. tx_descs = [d \in Tx |-> [addr |-> b, done |-> FALSE, frame |-> 0]] BY <2>1 DEF E1000Init
  <2>3. tx_descs \in [Tx -> TxDesc] BY <2>2 DEF TxDesc
  <2> QED BY <1>1, <2>3 DEF TxTypes, E1000Init
<1>4. UpIsPrefix BY DEF E1000Init, UpIsPrefix
<1>5. RingsInv BY DEF E1000Init, RingsInv
<1> QED BY <1>2, <1>3, <1>4, <1>5 DEF E1000Inv

(* One turn of e1000_poll: the descriptor read goes back to the card as    *)
(* the last one it may use, and the next to read is the next frame it      *)
(* kept.                                                                   *)
LEMMA RxPoll ==
  ASSUME NEW D \in [Rx -> [frame: Nat, done: BOOLEAN]], NEW p \in Rx, NEW w \in Nat \ {0},
         NEW h, NEW t, NEW u \in Nat, NEW s, RxRing(D, p, w, h, t, u, s)
  PROVE  RxRing([D EXCEPT ![p].done = FALSE], (p + 1) % RX_DESC_COUNT, w - 1, h, p, u + 1, s)
<1> DEFINE N == RX_DESC_COUNT
           q == (p + 1) % N
           E == [D EXCEPT ![p].done = FALSE]
<1>1. N \in Nat \ {0, 1} /\ p \in 0 .. N - 1 BY E1000Assumption DEF Rx
<1>2. w - 1 \in 0 .. N - 1 /\ w \in 0 .. N - 1 BY <1>1 DEF RxRing
<1>3. ASSUME NEW a \in 0 .. N - 1 PROVE DescIndex(q, a, N) = DescIndex(p, a + 1, N)
  <2>1. (((p + 1) % N) + a) % N = (p + (1 + a)) % N BY <1>1, RingAdvance
  <2>2. 1 + a = a + 1 BY <1>1
  <2> QED BY <2>1, <2>2 DEF DescIndex
<1>4. DescIndex(p, N, N) = p BY <1>1 DEF DescIndex
<1>5. DescIndex(p, 0, N) = p BY <1>1 DEF DescIndex
<1>6. (N - 1) + 1 = N /\ (w - 1) + 1 = w BY <1>1, <1>2
<1>7. h = DescIndex(q, w - 1, N) /\ p = DescIndex(q, N - 1, N)
  <2>1. N - 1 \in 0 .. N - 1 BY <1>1
  <2> QED BY <1>2, <1>3, <1>4, <1>6, <2>1 DEF RxRing
<1>8. ASSUME NEW a \in 0 .. N - 1, a # N - 1
      PROVE  /\ DescIndex(q, a, N) = DescIndex(p, a + 1, N) /\ a + 1 \in Rx
             /\ E[DescIndex(q, a, N)] = D[DescIndex(p, a + 1, N)]
  <2>1. a + 1 \in 0 .. N - 1 /\ a + 1 # 0 /\ 0 \in 0 .. N - 1 BY <1>1, <1>8
  <2>2. DescIndex(p, a + 1, N) # p
    <3>1. (p + (a + 1)) % N # (p + 0) % N BY <1>1, <2>1, RingDistinct
    <3> QED BY <3>1, <1>5 DEF DescIndex
  <2>3. DescIndex(p, a + 1, N) \in Rx BY <1>1, <2>1 DEF DescIndex, Rx
  <2>4. E[DescIndex(p, a + 1, N)] = D[DescIndex(p, a + 1, N)] BY <2>2, <2>3
  <2> QED BY <1>3, <2>1, <2>4 DEF Rx
<1>9. E[p].done = FALSE OBVIOUS
<1>10. ASSUME NEW a \in Rx
       PROVE  /\ E[DescIndex(q, a, N)].done <=> a < w - 1
              /\ a < w - 1 => E[DescIndex(q, a, N)].frame = s[(u + 1) + a + 1]
  <2>0. a \in 0 .. N - 1 BY DEF Rx
  <2>1. CASE a = N - 1
    <3>1. E[DescIndex(q, a, N)].done = FALSE BY <1>7, <1>9, <2>1
    <3>2. ~(a < w - 1) BY <1>1, <1>2, <2>1
    <3> QED BY <3>1, <3>2
  <2>2. CASE a # N - 1
    <3>1. E[DescIndex(q, a, N)] = D[DescIndex(p, a + 1, N)] /\ a + 1 \in Rx BY <1>8, <2>0, <2>2
    <3>2. D[DescIndex(p, a + 1, N)].done <=> a + 1 < w BY <3>1 DEF RxRing
    <3>3. a + 1 < w => D[DescIndex(p, a + 1, N)].frame = s[u + (a + 1) + 1] BY <3>1 DEF RxRing
    <3>4. u + (a + 1) + 1 = (u + 1) + a + 1 /\ (a + 1 < w <=> a < w - 1) BY <2>0
    <3> QED BY <3>1, <3>2, <3>3, <3>4
  <2> QED BY <2>1, <2>2
<1> HIDE DEF E, q
<1>11. RxRing(E, q, w - 1, h, p, u + 1, s) BY <1>2, <1>7, <1>10 DEF RxRing
<1> QED BY <1>11 DEF E, q

(* The card writes a frame to the descriptor after the ones that wait,     *)
(* never to one that waits, and stops before the tail register.            *)
LEMMA RxArrive ==
  ASSUME NEW D \in [Rx -> [frame: Nat, done: BOOLEAN]], NEW p \in Rx, NEW w \in Nat,
         NEW h, NEW t, NEW u \in Nat, NEW s \in Seq(Nat), NEW f \in Nat, Len(s) = u + w,
         RxRing(D, p, w, h, t, u, s), h # t
  PROVE  /\ h \in Rx
         /\ RxRing([D EXCEPT ![h] = [frame |-> f, done |-> TRUE]], p, w + 1,
                   (h + 1) % RX_DESC_COUNT, t, u, Append(s, f))
<1> DEFINE N == RX_DESC_COUNT
           E == [D EXCEPT ![h] = [frame |-> f, done |-> TRUE]]
           g == (h + 1) % N
           z == Append(s, f)
<1>1. N \in Nat \ {0, 1} /\ p \in 0 .. N - 1 BY E1000Assumption DEF Rx
<1>2. w \in 0 .. N - 1 /\ h = (p + w) % N /\ t = (p + (N - 1)) % N BY DEF RxRing, DescIndex
<1>3. w # N - 1 BY <1>2
<1>4. w + 1 \in 0 .. N - 1 BY <1>1, <1>2, <1>3
<1>5. h \in Rx BY <1>1, <1>2 DEF Rx
<1>6. g = DescIndex(p, w + 1, N)
  <2>1. 1 \in 0 .. N - w /\ w \in 0 .. N BY <1>1, <1>2
  <2>2. (((p + w) % N) + 1) % N = (p + (w + 1)) % N BY <1>1, <2>1, RingAdvance
  <2> QED BY <1>2, <2>2 DEF DescIndex
<1>7. Len(z) = u + w + 1 /\ z[u + w + 1] = f /\ \A k \in 1 .. u + w : z[k] = s[k]
  BY AppendProperties
<1>8. ASSUME NEW a \in Rx
      PROVE  /\ E[DescIndex(p, a, N)].done <=> a < w + 1
             /\ a < w + 1 => E[DescIndex(p, a, N)].frame = z[u + a + 1]
  <2>0. a \in 0 .. N - 1 /\ DescIndex(p, a, N) \in Rx BY <1>1 DEF Rx, DescIndex
  <2>1. CASE a = w
    <3>1. E[DescIndex(p, a, N)] = [frame |-> f, done |-> TRUE] BY <1>2, <1>5, <2>1 DEF DescIndex
    <3> QED BY <3>1, <1>7, <2>1
  <2>2. CASE a # w
    <3>1. DescIndex(p, a, N) # h
      <4>1. (p + a) % N # (p + w) % N BY <1>1, <1>2, <2>0, <2>2, RingDistinct
      <4> QED BY <4>1, <1>2 DEF DescIndex
    <3>2. E[DescIndex(p, a, N)] = D[DescIndex(p, a, N)] BY <2>0, <3>1
    <3>3. D[DescIndex(p, a, N)].done <=> a < w BY DEF RxRing
    <3>4. a < w => D[DescIndex(p, a, N)].frame = s[u + a + 1] BY DEF RxRing
    <3>5. (a < w <=> a < w + 1) /\ (a < w => u + a + 1 \in 1 .. u + w) BY <2>0, <2>2
    <3> QED BY <3>2, <3>3, <3>4, <3>5, <1>7
  <2> QED BY <2>1, <2>2
<1> HIDE DEF E, z, g
<1>9. RxRing(E, p, w + 1, g, t, u, z) BY <1>2, <1>4, <1>6, <1>8 DEF RxRing, DescIndex
<1> QED BY <1>5, <1>9 DEF E, z, g

(* A descriptor of the ring is found at its distance from the card's.      *)
LEMMA TxPlace ==
  ASSUME NEW p \in Tx, NEW a \in Tx
  PROVE  /\ TX_DESC_COUNT \in Nat \ {0, 1} /\ p \in 0 .. TX_DESC_COUNT - 1 /\ a \in 0 .. TX_DESC_COUNT - 1
         /\ DescIndex(p, a, TX_DESC_COUNT) \in Tx
         /\ DescIndex(p, 0, TX_DESC_COUNT) = p /\ DescIndex(p, TX_DESC_COUNT, TX_DESC_COUNT) = p
         /\ \A c \in Tx : c # a => DescIndex(p, a, TX_DESC_COUNT) # DescIndex(p, c, TX_DESC_COUNT)
<1>1. TX_DESC_COUNT \in Nat \ {0, 1} /\ p \in 0 .. TX_DESC_COUNT - 1 /\ a \in 0 .. TX_DESC_COUNT - 1
  BY E1000Assumption DEF Tx
<1>2. ASSUME NEW c \in Tx, c # a PROVE (p + a) % TX_DESC_COUNT # (p + c) % TX_DESC_COUNT
  <2>1. c \in 0 .. TX_DESC_COUNT - 1 BY DEF Tx
  <2> QED BY <1>1, <1>2, <2>1, RingDistinct
<1>3. DescIndex(p, a, TX_DESC_COUNT) \in Tx BY <1>1 DEF DescIndex, Tx
<1>4. DescIndex(p, 0, TX_DESC_COUNT) = p /\ DescIndex(p, TX_DESC_COUNT, TX_DESC_COUNT) = p BY <1>1 DEF DescIndex
<1> QED BY <1>1, <1>2, <1>3, <1>4 DEF DescIndex

(* Memory of the heap is used again: what e1000_send was given and the     *)
(* card has not sent is lost from it, and only that.                       *)
LEMMA TxReuse ==
  ASSUME NEW D \in [Tx -> TxDesc], NEW p \in Tx, NEW w, NEW t, NEW v \in Nat, NEW m \in [Memory -> Nat], NEW S,
         TxRing(D, p, w, t, v, m, S), NEW b \in Memory, NEW x \in Nat, NEW T, S \subseteq T,
         \A e \in Tx : ~D[e].done /\ D[e].addr = b => D[e].frame \in T
  PROVE  TxRing(D, p, w, t, v, [m EXCEPT ![b] = x], T)
<1> DEFINE N == TX_DESC_COUNT
<1>1. ASSUME NEW a \in Tx, a < w
      PROVE  v + a + 1 \in T \/ [m EXCEPT ![b] = x][D[DescIndex(p, a, N)].addr] = v + a + 1
  <2>1. DescIndex(p, a, N) \in Tx BY TxPlace
  <2>2. PICK d \in TxDesc : d = D[DescIndex(p, a, N)] BY <2>1
  <2>3. ~d.done /\ d.frame = v + a + 1 /\ (v + a + 1 \in S \/ m[d.addr] = v + a + 1) BY <1>1, <2>2 DEF TxRing
  <2>4. CASE d.addr = b BY <2>1, <2>2, <2>3, <2>4
  <2>5. CASE d.addr # b
    <3>1. d.addr \in Memory BY DEF TxDesc
    <3>2. [m EXCEPT ![b] = x][d.addr] = m[d.addr] BY <2>5, <3>1
    <3> QED BY <2>2, <2>3, <3>2
  <2> QED BY <2>4, <2>5
<1> QED BY <1>1 DEF TxRing

(* e1000_send waits until its descriptor is done, so that fewer than       *)
(* TX_DESC_COUNT frames wait before it, and writes its frame after them.   *)
LEMMA TxSend ==
  ASSUME NEW D \in [Tx -> TxDesc], NEW p \in Tx, NEW w \in Int, NEW t, NEW v \in Nat, NEW m, NEW S,
         TxRing(D, p, w, t, v, m, S), D[t].done,
         NEW b \in Memory, m[b] = v + w + 1, NEW E,
         E = [D EXCEPT ![t] = [addr |-> b, done |-> FALSE, frame |-> v + w + 1]]
  PROVE  /\ t \in Tx /\ w < TX_DESC_COUNT
         /\ TxRing(E, p, w + 1, (t + 1) % TX_DESC_COUNT, v, m, S)
<1> DEFINE N == TX_DESC_COUNT
<1>1. N \in Nat \ {0, 1} /\ p \in 0 .. N - 1 BY TxPlace
<1>2. w \in 0 .. N /\ t = DescIndex(p, w, N) BY DEF TxRing
<1>3. w # N
  <2> SUFFICES ASSUME w = N PROVE FALSE OBVIOUS
  <2>1. 0 \in Tx /\ 0 < w BY <1>1 DEF Tx
  <2>2. t = p /\ DescIndex(p, 0, N) = p BY <1>2, <2>1, TxPlace
  <2>3. ~D[DescIndex(p, 0, N)].done BY <2>1 DEF TxRing
  <2> QED BY <2>2, <2>3
<1>4. w \in Tx /\ w \in 0 .. N - 1 /\ w < N /\ w + 1 \in 0 .. N BY <1>1, <1>2, <1>3 DEF Tx
<1>5. t \in Tx BY <1>2, <1>4, TxPlace
<1>6. (t + 1) % N = DescIndex(p, w + 1, N)
  <2>1. 1 \in 0 .. N - w BY <1>1, <1>4
  <2>2. (((p + w) % N) + 1) % N = (p + (w + 1)) % N BY <1>1, <1>2, <2>1, RingAdvance
  <2> QED BY <1>2, <2>2 DEF DescIndex
<1>7. ASSUME NEW a \in Tx
      PROVE  /\ ~E[DescIndex(p, a, N)].done <=> a < w + 1
             /\ a < w + 1 => /\ E[DescIndex(p, a, N)].frame = v + a + 1
                             /\ v + a + 1 \in S \/ m[E[DescIndex(p, a, N)].addr] = v + a + 1
  <2>0. a \in 0 .. N - 1 /\ DescIndex(p, a, N) \in Tx BY TxPlace
  <2>1. CASE a = w
    <3>1. E[DescIndex(p, a, N)] = [addr |-> b, done |-> FALSE, frame |-> v + w + 1] BY <1>2, <1>5, <2>1
    <3>2. a < w + 1 BY <1>4, <2>1
    <3> QED BY <3>1, <3>2, <2>1
  <2>2. CASE a # w
    <3>1. DescIndex(p, a, N) # t BY <1>2, <1>4, <2>2, TxPlace
    <3>2. E[DescIndex(p, a, N)] = D[DescIndex(p, a, N)] BY <2>0, <3>1
    <3>3. a < w + 1 <=> a < w BY <1>4, <2>0, <2>2
    <3> QED BY <3>2, <3>3 DEF TxRing
  <2> QED BY <2>1, <2>2
<1>8. TxRing(E, p, w + 1, (t + 1) % N, v, m, S) BY <1>4, <1>6, <1>7 DEF TxRing
<1> QED BY <1>4, <1>5, <1>8

\* Descriptor p is done.
MarkDone(D, p) == [D EXCEPT ![p].done = TRUE]

(* The card sends the oldest frame that was given to it.                   *)
LEMMA TxTransmit ==
  ASSUME NEW D \in [Tx -> TxDesc], NEW p \in Tx, NEW w \in Int, NEW m, NEW S,
         NEW t, NEW v \in Nat, TxRing(D, p, w, t, v, m, S), p # t, NEW E, E = MarkDone(D, p),
         NEW f, f = m[D[p].addr]
  PROVE  /\ v + 1 \in S \/ f = v + 1
         /\ TxRing(E, (p + 1) % TX_DESC_COUNT, w - 1, t, v + 1, m, S)
<1> DEFINE N == TX_DESC_COUNT
           q == (p + 1) % N
<1>1. N \in Nat \ {0, 1} /\ p \in 0 .. N - 1 BY TxPlace
<1>2. w \in 0 .. N /\ t = DescIndex(p, w, N) BY DEF TxRing
<1>3. DescIndex(p, 0, N) = p /\ DescIndex(p, N, N) = p BY TxPlace
<1>4. w # 0 /\ w # N BY <1>2, <1>3
<1>5. w - 1 \in 0 .. N /\ w - 1 \in 0 .. N - 1 /\ (w - 1) + 1 = w BY <1>1, <1>2, <1>4
<1>6. v + 1 \in S \/ m[D[p].addr] = v + 1
  <2>1. 0 \in Tx /\ 0 < w /\ v + 0 + 1 = v + 1 BY <1>1, <1>2, <1>4 DEF Tx
  <2>2. v + 0 + 1 \in S \/ m[D[DescIndex(p, 0, N)].addr] = v + 0 + 1 BY <2>1 DEF TxRing
  <2> QED BY <1>3, <2>1, <2>2
<1>7. ASSUME NEW a \in 0 .. N - 1 PROVE DescIndex(q, a, N) = DescIndex(p, a + 1, N)
  <2>1. (((p + 1) % N) + a) % N = (p + (1 + a)) % N BY <1>1, RingAdvance
  <2>2. 1 + a = a + 1 BY <1>1
  <2> QED BY <2>1, <2>2 DEF DescIndex
<1>8. t = DescIndex(q, w - 1, N) BY <1>2, <1>5, <1>7
<1>9. ASSUME NEW a \in Tx
      PROVE  /\ ~E[DescIndex(q, a, N)].done <=> a < w - 1
             /\ a < w - 1 => /\ E[DescIndex(q, a, N)].frame = (v + 1) + a + 1
                             /\ (v + 1) + a + 1 \in S \/ m[E[DescIndex(q, a, N)].addr] = (v + 1) + a + 1
  <2>1. a \in 0 .. N - 1 /\ DescIndex(q, a, N) = DescIndex(p, a + 1, N) BY <1>7 DEF Tx
  <2>2. CASE a = N - 1
    <3>1. DescIndex(q, a, N) = p /\ ~(a < w - 1) BY <1>1, <1>2, <1>3, <2>1, <2>2
    <3>2. E[p].done BY DEF TxDesc, MarkDone
    <3> QED BY <3>1, <3>2
  <2>3. CASE a # N - 1
    <3>1. a + 1 \in Tx /\ 0 \in Tx /\ a + 1 # 0 BY <1>1, <2>1, <2>3 DEF Tx
    <3>2. DescIndex(p, a + 1, N) \in Tx /\ DescIndex(p, a + 1, N) # p BY <1>3, <3>1, TxPlace
    <3>3. E[DescIndex(q, a, N)] = D[DescIndex(p, a + 1, N)] BY <2>1, <3>2 DEF MarkDone
    <3>4. v + (a + 1) + 1 = (v + 1) + a + 1 /\ (a + 1 < w <=> a < w - 1) BY <2>1
    <3>5. /\ ~D[DescIndex(p, a + 1, N)].done <=> a + 1 < w
          /\ a + 1 < w => /\ D[DescIndex(p, a + 1, N)].frame = v + (a + 1) + 1
                          /\ v + (a + 1) + 1 \in S \/ m[D[DescIndex(p, a + 1, N)].addr] = v + (a + 1) + 1
      BY <3>1 DEF TxRing
    <3> QED BY <3>3, <3>4, <3>5
  <2> QED BY <2>2, <2>3
<1> HIDE DEF q
<1>10. TxRing(E, q, w - 1, t, v + 1, m, S) BY <1>5, <1>8, <1>9 DEF TxRing
<1>11. v + 1 \in S \/ f = v + 1 BY <1>6
<1> QED BY <1>10, <1>11 DEF q

(* The rings of a card that is up.                                         *)
LEMMA UpFacts ==
  ASSUME E1000Inv, nic_state = "up"
  PROVE  /\ RxRing(rx_descs, rx_tail, Len(kept) - Len(up), RDH, RDT, Len(up), kept)
         /\ TxRing(tx_descs, TDH, given - Len(sent_frames), TDT, Len(sent_frames), mem, spoilt)
         /\ tx_tail = TDT /\ \A k \in 1 .. Len(sent_frames) : k \in spoilt \/ sent_frames[k] = k
BY DEF E1000Inv, RingsInv

(* The reset, its timeout and the poll of a dead card move no frame.       *)
LEMMA InitKeeps ==
  ASSUME E1000Inv, e1000_init \/ e1000_init_timeout \/ e1000_poll_dead PROVE E1000Inv'
<1>1. UNCHANGED <<rxVars, txVars>> /\ nic_state # "up" /\ nic_state' # "up"
  BY DEF e1000_init, e1000_init_timeout, e1000_poll_dead
<1>2. RxTypes' BY <1>1 DEF RxTypes, rxVars, E1000Inv
<1>3. TxTypes' BY <1>1 DEF TxTypes, txVars, E1000Inv
<1>4. UpIsPrefix' BY <1>1 DEF UpIsPrefix, rxVars, E1000Inv
<1>5. RingsInv' BY <1>1 DEF RingsInv, rxVars, txVars, E1000Inv
<1> QED BY <1>2, <1>3, <1>4, <1>5 DEF E1000Inv

(* The ends of a ring that begins at its first descriptor.                 *)
LEMMA RingEnds ==
  ASSUME NEW N \in Nat \ {0, 1}
  PROVE  0 = DescIndex(0, 0, N) /\ N - 1 = DescIndex(0, N - 1, N)
<1>1. (0 + 0) % N = 0 /\ 0 + (N - 1) = N - 1 OBVIOUS
<1>2. N - 1 \in 0 .. N - 1 OBVIOUS
<1>3. (N - 1) % N = N - 1 BY <1>2
<1> QED BY <1>1, <1>3 DEF DescIndex

(* e1000_init_rx and e1000_init_tx set up empty rings.                     *)
LEMMA InitDoneKeeps == ASSUME E1000Inv, e1000_init_done PROVE E1000Inv'
<1> USE DEF e1000_init_done, e1000_init_rx, e1000_init_tx
<1>1. /\ kept = <<>> /\ up = <<>> /\ rx_tail = 0 /\ tx_tail = 0 /\ given = 0 /\ sent_frames = <<>>
  BY DEF E1000Inv, RingsInv
<1>2. Len(<<>>) = 0 /\ 0 - 0 = 0 OBVIOUS
<1>3. RX_DESC_COUNT \in Nat \ {0, 1} /\ TX_DESC_COUNT \in Nat \ {0, 1}
  BY E1000Assumption
<1>4. RxTypes' BY <1>1 DEF RxTypes, E1000Inv
<1>5. TxTypes'
  <2>1. tx_descs \in [Tx -> TxDesc] /\ tx_descs' = [d \in Tx |-> [tx_descs[d] EXCEPT !.done = TRUE]]
    BY DEF E1000Inv, TxTypes
  <2>2. ASSUME NEW d \in TxDesc PROVE [d EXCEPT !.done = TRUE] \in TxDesc /\ [d EXCEPT !.done = TRUE].done BY DEF TxDesc
  <2>3. tx_descs' \in [Tx -> TxDesc] BY <2>1, <2>2
  <2> QED BY <1>1, <1>3, <2>3 DEF TxTypes, E1000Inv, Tx
<1>6. UpIsPrefix' BY <1>1 DEF UpIsPrefix
<1>7. ASSUME NEW a \in Rx PROVE DescIndex(0, a, RX_DESC_COUNT) \in Rx BY <1>3 DEF DescIndex, Rx
<1>8. RxRing(rx_descs', 0, 0, 0, RX_DESC_COUNT - 1, 0, <<>>)
  <2>1. 0 \in 0 .. RX_DESC_COUNT - 1 BY <1>3
  <2>2. 0 = DescIndex(0, 0, RX_DESC_COUNT) /\ RX_DESC_COUNT - 1 = DescIndex(0, RX_DESC_COUNT - 1, RX_DESC_COUNT)
    BY <1>3, RingEnds
  <2>3. ASSUME NEW a \in Rx PROVE rx_descs'[DescIndex(0, a, RX_DESC_COUNT)].done = FALSE /\ ~(a < 0)
    BY <1>7 DEF Rx
  <2> QED BY <2>1, <2>2, <2>3 DEF RxRing
<1>9. TxRing(tx_descs', 0, 0, 0, 0, mem, spoilt)
  <2>1. 0 \in 0 .. TX_DESC_COUNT /\ 0 \in Tx BY <1>3 DEF Tx
  <2>2. 0 = DescIndex(0, 0, TX_DESC_COUNT) BY <1>3 DEF DescIndex
  <2>3. \A a \in Tx : ~(a < 0) BY DEF Tx
  <2>4. \A d \in Tx : tx_descs'[d].done
    <3>1. tx_descs \in [Tx -> TxDesc] BY DEF E1000Inv, TxTypes
    <3>2. ASSUME NEW d \in TxDesc PROVE [d EXCEPT !.done = TRUE].done BY DEF TxDesc
    <3> QED BY <3>1, <3>2
  <2>5. \A a \in Tx : tx_descs'[DescIndex(0, a, TX_DESC_COUNT)].done BY <2>1, <2>4, TxPlace
  <2> QED BY <2>1, <2>2, <2>3, <2>5 DEF TxRing
<1>10. RingsInv' BY <1>1, <1>2, <1>8, <1>9 DEF RingsInv
<1> QED BY <1>4, <1>5, <1>6, <1>10 DEF E1000Inv

(* The counters of the histories are numbers.                              *)
LEMMA FrameLengths ==
  ASSUME E1000Inv
  PROVE  Len(up) \in Nat /\ Len(kept) \in Nat /\ Len(sent_frames) \in Nat /\ given \in Nat
BY DEF E1000Inv, RxTypes, TxTypes

(* e1000_poll keeps the invariant.                                         *)
LEMMA PollKeeps == ASSUME E1000Inv, e1000_poll PROVE E1000Inv'
<1>0. RX_DESC_COUNT \in Nat \ {0, 1} BY E1000Assumption
<1>1. PICK u \in Nat : u = Len(up) BY FrameLengths
<1>2. PICK c \in Nat : c = Len(kept) BY FrameLengths
<1>3. PICK p \in Rx : p = rx_tail BY DEF E1000Inv, RxTypes
<1>4. RxRing(rx_descs, p, c - u, RDH, RDT, u, kept)
  <2>1. nic_state = "up" BY DEF e1000_poll
  <2> QED BY UpFacts, <1>1, <1>2, <1>3, <2>1
<1>5. DescIndex(p, 0, RX_DESC_COUNT) = p /\ 0 \in Rx BY <1>0 DEF DescIndex, Rx
<1> USE DEF e1000_poll
<1>6. 0 < c - u
  <2>1. rx_descs[DescIndex(p, 0, RX_DESC_COUNT)].done <=> 0 < c - u BY <1>4, <1>5 DEF RxRing
  <2> QED BY <2>1, <1>3, <1>5
<1>7. c - u \in Nat \ {0} /\ u + 1 \in 1 .. c BY <1>6
<1>8. rx_descs[p].frame = kept[u + 1]
  <2>1. rx_descs[DescIndex(p, 0, RX_DESC_COUNT)].frame = kept[u + 0 + 1] BY <1>4, <1>5, <1>6 DEF RxRing
  <2> QED BY <2>1, <1>5
<1>9. PICK f \in Nat : f = kept[u + 1]
  BY <1>2, <1>7, ElementOfSeq DEF E1000Inv, RxTypes
<1>10. /\ up' \in Seq(Nat) /\ Len(up') = u + 1 /\ up'[u + 1] = f
       /\ \A k \in 1 .. u : up'[k] = up[k]
  BY <1>1, <1>3, <1>8, <1>9, AppendProperties DEF E1000Inv, RxTypes
<1>11. RxRing(rx_descs', rx_tail', (c - u) - 1, RDH, p, u + 1, kept)
  BY <1>3, <1>4, <1>7, RxPoll DEF E1000Inv, RxTypes
<1>12. (c - u) - 1 = c - (u + 1) OBVIOUS
<1>13. RxTypes'
  <2>1. rx_tail' \in Rx BY <1>0, <1>3 DEF Rx
  <2>2. rx_descs' \in [Rx -> [frame: Nat, done: BOOLEAN]] BY DEF E1000Inv, RxTypes
  <2> QED BY <2>1, <2>2, <1>10 DEF E1000Inv, RxTypes
<1>14. TxTypes' BY DEF TxTypes, txVars, E1000Inv
<1>15. UpIsPrefix'
  <2>1. \A k \in 1 .. u + 1 : k \in 1 .. u \/ k = u + 1 OBVIOUS
  <2>2. \A k \in 1 .. u : up[k] = kept[k] BY <1>1 DEF UpIsPrefix, E1000Inv
  <2> QED BY <1>2, <1>7, <1>9, <1>10, <2>1, <2>2 DEF UpIsPrefix
<1>16. RDT' = p BY <1>3 DEF after_poll
<1>17. RingsInv'
  BY UpFacts, <1>2, <1>10, <1>11, <1>12, <1>16 DEF RingsInv, txVars
<1> QED BY <1>13, <1>14, <1>15, <1>17 DEF E1000Inv

(* A frame that arrives keeps the invariant, received or lost.             *)
LEMMA ArriveKeeps == ASSUME E1000Inv, Arrive PROVE E1000Inv'
<1>1. PICK u \in Nat : u = Len(up) BY FrameLengths
<1>2. PICK c \in Nat : c = Len(kept) BY FrameLengths
<1>3. PICK p \in Rx : p = rx_tail BY DEF E1000Inv, RxTypes
<1>4. RxRing(rx_descs, p, c - u, RDH, RDT, u, kept)
  <2>1. nic_state = "up" BY DEF Arrive
  <2> QED BY UpFacts, <1>1, <1>2, <1>3, <2>1
<1> USE DEF Arrive
<1>5. TxTypes' BY DEF TxTypes, txVars, E1000Inv
<1>6. CASE RDH = RDT
  <2>1. UNCHANGED <<rx_descs, RDH, RDT, kept, up, rx_tail, nic_state>> BY <1>6
  <2>2. RxTypes' BY <2>1 DEF RxTypes, E1000Inv
  <2>3. UpIsPrefix' BY <2>1 DEF UpIsPrefix, E1000Inv
  <2>4. RingsInv' BY <2>1 DEF RingsInv, txVars, E1000Inv
  <2> QED BY <1>5, <2>2, <2>3, <2>4 DEF E1000Inv
<1>7. CASE RDH # RDT
  <2>1. PICK f \in Nat : f = came + 1 BY DEF E1000Inv, RxTypes
  <2>2. c - u \in Nat /\ Len(kept) = u + (c - u) BY <1>2, <1>4 DEF RxRing
  <2>2a. /\ kept' = Append(kept, f) /\ RDH' = (RDH + 1) % RX_DESC_COUNT
        /\ rx_descs' = [rx_descs EXCEPT ![RDH] = [frame |-> f, done |-> TRUE]]
    BY <1>7, <2>1
  <2>2b. kept \in Seq(Nat) /\ rx_descs \in [Rx -> [frame: Nat, done: BOOLEAN]]
    BY DEF E1000Inv, RxTypes
  <2> HIDE DEF Arrive
  <2>3. RDH \in Rx /\ RxRing(rx_descs', p, (c - u) + 1, RDH', RDT, u, Append(kept, f))
    BY <1>4, <1>7, <2>2, <2>2a, <2>2b, RxArrive
  <2>4. /\ kept' = Append(kept, f) /\ kept' \in Seq(Nat) /\ Len(kept') = c + 1
        /\ \A k \in 1 .. c : kept'[k] = kept[k]
    BY <1>2, <2>2a, <2>2b, AppendProperties
  <2>5. (c - u) + 1 = (c + 1) - u OBVIOUS
  <2>6. rx_descs' \in [Rx -> [frame: Nat, done: BOOLEAN]]
    BY <2>2a, <2>2b, <2>3
  <2>7. RxTypes' BY <2>1, <2>4, <2>6 DEF E1000Inv, RxTypes, Arrive
  <2>8. UpIsPrefix'
    <3>1. u <= c /\ \A k \in 1 .. u : k \in 1 .. c BY <1>1, <1>2 DEF UpIsPrefix, E1000Inv
    <3>2. \A k \in 1 .. u : up[k] = kept[k] BY <1>1 DEF UpIsPrefix, E1000Inv
    <3>3. u <= c + 1 BY <3>1
    <3> QED BY <1>1, <2>4, <3>1, <3>2, <3>3 DEF UpIsPrefix, Arrive
  <2>9. RingsInv' BY UpFacts, <1>1, <1>3, <2>3, <2>4, <2>5 DEF RingsInv, txVars, Arrive
  <2> QED BY <1>5, <2>7, <2>8, <2>9 DEF E1000Inv
<1> QED BY <1>6, <1>7

(* e1000_send keeps the invariant.                                         *)
LEMMA SendKeeps == ASSUME E1000Inv, NEW b \in Memory, e1000_send(b) PROVE E1000Inv'
<1>0. TX_DESC_COUNT \in Nat \ {0, 1} BY E1000Assumption
<1>1. PICK v \in Nat : v = Len(sent_frames) BY FrameLengths
<1>2. PICK g \in Nat : g = given BY FrameLengths
<1>3. TxRing(tx_descs, TDH, g - v, TDT, v, mem, spoilt) /\ tx_tail = TDT
  BY UpFacts, <1>1, <1>2 DEF e1000_send
<1>4. g - v \in Int /\ v + (g - v) + 1 = g + 1 OBVIOUS
<1>5. /\ tx_descs \in [Tx -> TxDesc] /\ TDH \in Tx /\ mem \in [Memory -> Nat] BY DEF E1000Inv, TxTypes
<1>6. /\ mem' = [mem EXCEPT ![b] = g + 1] /\ spoilt' = spoilt \cup NotSent(b)
      /\ tx_descs' = [tx_descs EXCEPT ![TDT] = [addr |-> b, done |-> FALSE, frame |-> v + (g - v) + 1]]
      /\ tx_descs[TDT].done /\ TDT' = (TDT + 1) % TX_DESC_COUNT /\ tx_tail' = TDT' /\ given' = g + 1
      /\ UNCHANGED <<nic_state, rxVars, TDH, sent_frames>> /\ nic_state = "up"
  BY <1>2, <1>3, <1>4 DEF e1000_send
<1>7. TxRing(tx_descs, TDH, g - v, TDT, v, mem', spoilt')
  <2>1. \A e \in Tx : ~tx_descs[e].done /\ tx_descs[e].addr = b => tx_descs[e].frame \in spoilt' BY <1>6 DEF NotSent
  <2>2. spoilt \subseteq spoilt' /\ g + 1 \in Nat BY <1>6
  <2>3. PICK m, T : m = mem' /\ T = spoilt' OBVIOUS
  <2>4. m = [mem EXCEPT ![b] = g + 1] /\ spoilt \subseteq T
        /\ \A e \in Tx : ~tx_descs[e].done /\ tx_descs[e].addr = b => tx_descs[e].frame \in T BY <1>6, <2>1, <2>2, <2>3
  <2>5. TxRing(tx_descs, TDH, g - v, TDT, v, [mem EXCEPT ![b] = g + 1], T) BY <1>3, <1>5, <2>2, <2>4, TxReuse
  <2> QED BY <2>3, <2>4, <2>5
<1>8. TDT \in Tx /\ TxRing(tx_descs', TDH, (g - v) + 1, TDT', v, mem', spoilt')
  <2>1. mem'[b] = v + (g - v) + 1 BY <1>4, <1>5, <1>6
  <2>2. PICK m, T, E : m = mem' /\ T = spoilt' /\ E = tx_descs' OBVIOUS
  <2>3. TDT \in Tx /\ TxRing(E, TDH, (g - v) + 1, (TDT + 1) % TX_DESC_COUNT, v, m, T)
    BY <1>4, <1>5, <1>6, <1>7, <2>1, <2>2, TxSend
  <2> QED BY <1>6, <2>2, <2>3
<1>9. (g - v) + 1 = (g + 1) - v OBVIOUS
<1>10. RxTypes' BY <1>6 DEF RxTypes, rxVars, E1000Inv
<1>11. UpIsPrefix' BY <1>6 DEF UpIsPrefix, rxVars, E1000Inv
<1>12. TxTypes'
  <2>1. tx_tail' \in Tx BY <1>0, <1>6, <1>8 DEF Tx
  <2>2. [addr |-> b, done |-> FALSE, frame |-> v + (g - v) + 1] \in TxDesc BY <1>4 DEF TxDesc
  <2>3. tx_descs' \in [Tx -> TxDesc] BY <1>5, <1>6, <2>2
  <2>4. mem' \in [Memory -> Nat] BY <1>5, <1>6
  <2> QED BY <1>6, <2>1, <2>3, <2>4 DEF E1000Inv, TxTypes
<1>13. RingsInv'
  <2>1. RxRing(rx_descs, rx_tail, Len(kept) - Len(up), RDH, RDT, Len(up), kept)' BY <1>6, UpFacts DEF rxVars
  <2>2. \A k \in 1 .. Len(sent_frames) : k \in spoilt' \/ sent_frames[k] = k BY <1>6, UpFacts
  <2>3. TxRing(tx_descs, TDH, given - Len(sent_frames), TDT, Len(sent_frames), mem, spoilt)' BY <1>1, <1>6, <1>8, <1>9
  <2> QED BY <1>6, <2>1, <2>2, <2>3 DEF RingsInv
<1> QED BY <1>10, <1>11, <1>12, <1>13 DEF E1000Inv

(* Memory that is used again by others keeps the invariant.                *)
LEMMA ReuseKeeps == ASSUME E1000Inv, NEW b \in Memory, Reuse(b) PROVE E1000Inv'
<1>1. PICK v \in Nat : v = Len(sent_frames) BY FrameLengths
<1>2. PICK g \in Nat : g = given BY FrameLengths
<1>3. TxRing(tx_descs, TDH, g - v, TDT, v, mem, spoilt) BY UpFacts, <1>1, <1>2 DEF Reuse
<1>4. tx_descs \in [Tx -> TxDesc] /\ TDH \in Tx /\ mem \in [Memory -> Nat] BY DEF E1000Inv, TxTypes
<1>5. /\ mem' = [mem EXCEPT ![b] = 0] /\ spoilt' = spoilt \cup NotSent(b) /\ nic_state = "up"
      /\ UNCHANGED <<nic_state, rxVars, tx_descs, tx_tail, TDH, TDT, given, sent_frames>>
  BY DEF Reuse
<1>6. TxRing(tx_descs, TDH, g - v, TDT, v, mem', spoilt')
  <2>1. \A e \in Tx : ~tx_descs[e].done /\ tx_descs[e].addr = b => tx_descs[e].frame \in spoilt' BY <1>5 DEF NotSent
  <2>2. spoilt \subseteq spoilt' /\ 0 \in Nat BY <1>5
  <2>3. PICK m, T : m = mem' /\ T = spoilt' OBVIOUS
  <2>4. m = [mem EXCEPT ![b] = 0] /\ spoilt \subseteq T
        /\ \A e \in Tx : ~tx_descs[e].done /\ tx_descs[e].addr = b => tx_descs[e].frame \in T BY <1>5, <2>1, <2>2, <2>3
  <2>5. TxRing(tx_descs, TDH, g - v, TDT, v, [mem EXCEPT ![b] = 0], T) BY <1>3, <1>4, <2>2, <2>4, TxReuse
  <2> QED BY <2>3, <2>4, <2>5
<1>7. RxTypes' BY <1>5 DEF RxTypes, rxVars, E1000Inv
<1>8. UpIsPrefix' BY <1>5 DEF UpIsPrefix, rxVars, E1000Inv
<1>9. TxTypes'
  <2>1. mem' \in [Memory -> Nat] BY <1>4, <1>5
  <2> QED BY <1>5, <2>1 DEF E1000Inv, TxTypes
<1>10. RingsInv'
  <2>1. RxRing(rx_descs, rx_tail, Len(kept) - Len(up), RDH, RDT, Len(up), kept)' BY <1>5, UpFacts DEF rxVars
  <2>2. \A k \in 1 .. Len(sent_frames) : k \in spoilt' \/ sent_frames[k] = k BY <1>5, UpFacts
  <2>3. TxRing(tx_descs, TDH, given - Len(sent_frames), TDT, Len(sent_frames), mem, spoilt)' BY <1>1, <1>2, <1>5, <1>6
  <2>4. tx_tail' = TDT' BY <1>5, UpFacts
  <2> QED BY <1>5, <2>1, <2>2, <2>3, <2>4 DEF RingsInv
<1> QED BY <1>7, <1>8, <1>9, <1>10 DEF E1000Inv

(* A frame the card sends keeps the invariant.                             *)
LEMMA TransmitKeeps == ASSUME E1000Inv, Transmit PROVE E1000Inv'
<1>0. TX_DESC_COUNT \in Nat \ {0, 1} BY E1000Assumption
<1>1. PICK v \in Nat : v = Len(sent_frames) BY FrameLengths
<1>2. PICK g \in Nat : g = given BY FrameLengths
<1>3. TxRing(tx_descs, TDH, g - v, TDT, v, mem, spoilt)
  BY UpFacts, <1>1, <1>2 DEF Transmit
<1>4. /\ sent_frames' = Append(sent_frames, mem[tx_descs[TDH].addr])
      /\ tx_descs' = [tx_descs EXCEPT ![TDH].done = TRUE] /\ TDH # TDT
      /\ TDH' = (TDH + 1) % TX_DESC_COUNT /\ nic_state = "up"
      /\ UNCHANGED <<nic_state, rxVars, mem, tx_tail, TDT, given, spoilt>>
  BY DEF Transmit
<1>5. tx_descs \in [Tx -> TxDesc] /\ TDH \in Tx /\ mem \in [Memory -> Nat] BY DEF E1000Inv, TxTypes
<1>6. /\ v + 1 \in spoilt \/ mem[tx_descs[TDH].addr] = v + 1
      /\ TxRing(tx_descs', TDH', (g - v) - 1, TDT, v + 1, mem, spoilt)
  <2>1. PICK E : E = tx_descs' OBVIOUS
  <2>2. g - v \in Int OBVIOUS
  <2>3. /\ v + 1 \in spoilt \/ mem[tx_descs[TDH].addr] = v + 1
        /\ TxRing(E, (TDH + 1) % TX_DESC_COUNT, (g - v) - 1, TDT, v + 1, mem, spoilt)
    <3>1. E = [tx_descs EXCEPT ![TDH].done = TRUE] /\ TDH # TDT BY <1>4, <2>1
    <3>2. PICK w \in Int : w = g - v BY <2>2
    <3>a. PICK D \in [Tx -> TxDesc], q \in Tx : D = tx_descs /\ q = TDH BY <1>5
    <3>b. PICK t : t = TDT OBVIOUS
    <3>c. PICK m : m = mem OBVIOUS
    <3>d. PICK S : S = spoilt OBVIOUS
    <3>3. D = tx_descs /\ q = TDH /\ t = TDT /\ m = mem /\ S = spoilt BY <3>a, <3>b, <3>c, <3>d
    <3>4. TxRing(D, q, w, t, v, m, S) /\ q # t /\ E = MarkDone(D, q) BY <1>3, <3>1, <3>2, <3>3 DEF MarkDone
    <3>5. PICK f : f = m[D[q].addr] OBVIOUS
    <3>6. (v + 1 \in S \/ f = v + 1) /\ TxRing(E, (q + 1) % TX_DESC_COUNT, w - 1, t, v + 1, m, S)
      BY <3>4, <3>5, TxTransmit
    <3> QED BY <3>2, <3>3, <3>5, <3>6
  <2> QED BY <1>4, <2>1, <2>3
<1>7. (g - v) - 1 = g - (v + 1) OBVIOUS
<1>8. PICK f \in Nat : f = mem[tx_descs[TDH].addr]
  <2>1. tx_descs[TDH].addr \in Memory BY <1>5 DEF TxDesc
  <2> QED BY <1>5, <2>1
<1>9. /\ sent_frames' \in Seq(Nat) /\ Len(sent_frames') = v + 1 /\ sent_frames'[v + 1] = f
      /\ \A k \in 1 .. v : sent_frames'[k] = sent_frames[k]
  BY <1>1, <1>4, <1>8, AppendProperties DEF E1000Inv, TxTypes
<1>10. RxTypes' BY <1>4 DEF RxTypes, rxVars, E1000Inv
<1>11. UpIsPrefix' BY <1>4 DEF UpIsPrefix, rxVars, E1000Inv
<1>12. TxTypes'
  <2>1. TDH' \in Tx BY <1>0, <1>4, <1>5 DEF Tx
  <2>2. tx_descs' \in [Tx -> TxDesc] BY <1>4, <1>5 DEF TxDesc
  <2> QED BY <1>4, <1>9, <2>1, <2>2 DEF E1000Inv, TxTypes
<1>13. \A k \in 1 .. v + 1 : k \in spoilt \/ sent_frames'[k] = k
  <2>1. \A k \in 1 .. v + 1 : k \in 1 .. v \/ k = v + 1 OBVIOUS
  <2>2. \A k \in 1 .. v : k \in spoilt \/ sent_frames[k] = k BY UpFacts, <1>1, <1>4
  <2> QED BY <1>6, <1>8, <1>9, <2>1, <2>2
<1>14. RingsInv'
  <2>1. RxRing(rx_descs, rx_tail, Len(kept) - Len(up), RDH, RDT, Len(up), kept)' BY <1>4, UpFacts DEF rxVars
  <2>2. TxRing(tx_descs, TDH, given - Len(sent_frames), TDT, Len(sent_frames), mem, spoilt)' BY <1>2, <1>4, <1>6, <1>7, <1>9
  <2>3. tx_tail' = TDT' BY <1>4, UpFacts
  <2> QED BY <1>4, <1>9, <1>13, <2>1, <2>2, <2>3 DEF RingsInv
<1> QED BY <1>10, <1>11, <1>12, <1>14 DEF E1000Inv

(* Every step of the driver and the card keeps the invariant.              *)
LEMMA E1000NextInv == E1000Inv /\ [E1000Next]_e1000Vars => E1000Inv'
<1> SUFFICES ASSUME E1000Inv, [E1000Next]_e1000Vars PROVE E1000Inv' OBVIOUS
<1>1. CASE UNCHANGED e1000Vars
  <2>1. RxTypes' BY <1>1 DEF RxTypes, e1000Vars, E1000Inv
  <2>2. TxTypes' BY <1>1 DEF TxTypes, e1000Vars, E1000Inv
  <2>3. UpIsPrefix' BY <1>1 DEF UpIsPrefix, e1000Vars, E1000Inv
  <2>4. RingsInv' BY <1>1 DEF RingsInv, e1000Vars, E1000Inv
  <2> QED BY <2>1, <2>2, <2>3, <2>4 DEF E1000Inv
<1> QED BY <1>1, InitKeeps, InitDoneKeeps, PollKeeps, ArriveKeeps, SendKeeps, ReuseKeeps, TransmitKeeps DEF E1000Next

(* The rings of the invariant have the registers and the order of the      *)
(* property.                                                               *)
LEMMA ImpliesFramesInOrder == ASSUME E1000Inv PROVE FramesInOrder
<1>1. up = SubSeq(kept, 1, Len(up)) /\ Len(up) <= Len(kept)
  <2>1. PICK u \in Nat : u = Len(up) BY DEF E1000Inv, RxTypes
  <2>2. u <= Len(kept) /\ \A k \in 1 .. u : up[k] = kept[k] BY <2>1 DEF E1000Inv, UpIsPrefix
  <2>3. /\ SubSeq(kept, 1, u) \in Seq(Nat) /\ Len(SubSeq(kept, 1, u)) = u
        /\ \A k \in 1 .. u : SubSeq(kept, 1, u)[k] = kept[k]
    <3>1. kept \in Seq(Nat) BY DEF E1000Inv, RxTypes
    <3>2. u \in 0 .. Len(kept) BY <2>2, <3>1
    <3> QED BY <3>1, <3>2, SubSeqProperties
  <2>4. up \in Seq(Nat) BY DEF E1000Inv, RxTypes
  <2> QED BY <2>1, <2>2, <2>3, <2>4, SeqEqual
<1>2. ASSUME nic_state = "up"
      PROVE  /\ (RDT - RDH) % RX_DESC_COUNT = RX_DESC_COUNT - 1 - (Len(kept) - Len(up))
             /\ rx_descs[rx_tail].done <=> Len(up) < Len(kept)
             /\ \A k \in 1 .. Len(sent_frames) : k \in spoilt \/ sent_frames[k] = k
             /\ \A k \in Len(sent_frames) + 1 .. given : \E d \in Tx : tx_descs[d].frame = k /\ ~tx_descs[d].done
             /\ given - Len(sent_frames) \in 0 .. TX_DESC_COUNT
             /\ given - Len(sent_frames) < TX_DESC_COUNT => (TDT - TDH) % TX_DESC_COUNT = given - Len(sent_frames)
  <2>0. /\ RX_DESC_COUNT \in Nat \ {0, 1} /\ TX_DESC_COUNT \in Nat \ {0, 1}
        /\ rx_tail \in 0 .. RX_DESC_COUNT - 1 /\ TDH \in 0 .. TX_DESC_COUNT - 1
    BY E1000Assumption DEF E1000Inv, RxTypes, TxTypes, Rx, Tx
  <2>1. PICK w : w = Len(kept) - Len(up) OBVIOUS
  <2>2. RxRing(rx_descs, rx_tail, w, RDH, RDT, Len(up), kept) BY <1>2, <2>1, UpFacts
  <2>3. w \in 0 .. RX_DESC_COUNT - 1 BY <2>2 DEF RxRing
  <2>4. (RDT - RDH) % RX_DESC_COUNT = RX_DESC_COUNT - 1 - w
    <3>1. RX_DESC_COUNT \in 1 .. RX_DESC_COUNT /\ w \in 0 .. RX_DESC_COUNT BY <2>0, <2>3
    <3>2. (((rx_tail + RX_DESC_COUNT - 1) % RX_DESC_COUNT) - ((rx_tail + w) % RX_DESC_COUNT)) % RX_DESC_COUNT
            = RX_DESC_COUNT - 1 - w
      BY <2>0, <2>3, <3>1, RingPlace
    <3>3. rx_tail + RX_DESC_COUNT - 1 = rx_tail + (RX_DESC_COUNT - 1) BY <2>0
    <3>4. RDT = (rx_tail + (RX_DESC_COUNT - 1)) % RX_DESC_COUNT /\ RDH = (rx_tail + w) % RX_DESC_COUNT
      BY <2>2 DEF RxRing, DescIndex
    <3> QED BY <3>2, <3>3, <3>4
  <2>5. rx_descs[rx_tail].done <=> 0 < w
    <3>1. DescIndex(rx_tail, 0, RX_DESC_COUNT) = rx_tail /\ 0 \in Rx BY <2>0 DEF DescIndex, Rx
    <3> QED BY <2>2, <3>1 DEF RxRing
  <2>6. 0 < w <=> Len(up) < Len(kept)
    <3>1. Len(up) \in Nat /\ Len(kept) \in Nat BY DEF E1000Inv, RxTypes
    <3> QED BY <3>1, <2>1
  <2>7. PICK g : g = given - Len(sent_frames) OBVIOUS
  <2>8. TxRing(tx_descs, TDH, g, TDT, Len(sent_frames), mem, spoilt) BY <1>2, <2>7, UpFacts
  <2>9a. g \in 0 .. TX_DESC_COUNT BY <2>8 DEF TxRing
  <2>9b. ASSUME NEW k \in Len(sent_frames) + 1 .. given PROVE \E d \in Tx : tx_descs[d].frame = k /\ ~tx_descs[d].done
    <3>1. PICK v \in Nat, u \in Nat : v = Len(sent_frames) /\ u = given BY FrameLengths
    <3>1a. k \in Int BY <3>1
    <3>2. PICK a \in Int : a = k - v - 1 BY <3>1a
    <3>3. a \in Tx /\ a < g /\ v + a + 1 = k BY <2>7, <2>9a, <2>0, <3>1, <3>2 DEF Tx
    <3>4. DescIndex(TDH, a, TX_DESC_COUNT) \in Tx
      <4>1. TDH \in Tx BY DEF E1000Inv, TxTypes
      <4> QED BY <3>3, <4>1, TxPlace
    <3>5. tx_descs[DescIndex(TDH, a, TX_DESC_COUNT)].frame = k /\ ~tx_descs[DescIndex(TDH, a, TX_DESC_COUNT)].done
      BY <2>8, <3>1, <3>3 DEF TxRing
    <3> QED BY <3>4, <3>5
  <2>9. ASSUME g < TX_DESC_COUNT PROVE (TDT - TDH) % TX_DESC_COUNT = g
    <3>1. g \in 0 .. TX_DESC_COUNT - 1 /\ TDT = (TDH + g) % TX_DESC_COUNT
      BY <2>0, <2>8, <2>9, <2>9a DEF TxRing, DescIndex
    <3>2. g + 1 \in 1 .. TX_DESC_COUNT /\ 0 \in 0 .. TX_DESC_COUNT /\ TDH + (g + 1) - 1 = TDH + g
          /\ (g + 1) - 1 - 0 = g /\ ~(g + 1 <= 0) /\ TDH + 0 = TDH
      BY <2>0, <3>1
    <3>3. (((TDH + (g + 1) - 1) % TX_DESC_COUNT) - ((TDH + 0) % TX_DESC_COUNT)) % TX_DESC_COUNT
            = (g + 1) - 1 - 0
      BY <2>0, <3>2, RingPlace
    <3>4. TDH % TX_DESC_COUNT = TDH BY <2>0
    <3> QED BY <3>1, <3>2, <3>3, <3>4
  <2> QED BY <1>2, UpFacts, <2>1, <2>4, <2>5, <2>6, <2>7, <2>9, <2>9a, <2>9b
<1> QED BY <1>1, <1>2 DEF FramesInOrder

(* For every size of the rings and however the card, the driver and the    *)
(* users of the heap alternate: frames go up in the order the card kept    *)
(* them, each once; the card has all descriptors but one that hold no      *)
(* frame; what e1000_send was given and the card has not sent is in the    *)
(* ring, a full one too, and the cable carries the frames in their order,  *)
(* with their own bytes unless their memory was used again before.         *)
THEOREM CardFramesInOrder == E1000Spec => []FramesInOrder
<1>1. E1000Inv => FramesInOrder BY ImpliesFramesInOrder
<1> QED BY <1>1, E1000InitInv, E1000NextInv, PTL DEF E1000Spec

-----------------------------------------------------------------------------
(* The USB host controller.                                                *)

\* Steps of the driver.
XStep == Requests \cup {"handoff", "reset", "handoff2", "init", "scan", "port_reset", "kready",
                        "status", "failed", "idle"}

\* A TRB, and a ring of sz places.
TrbOp == Requests \cup {"none", "report", "link"}
Trb == [c: Int, op: TrbOp, slot: Int, ioc: BOOLEAN]
RingType(sz) == [mem: [0 .. sz - 1 -> Trb], enq: Nat, pcs: Int, deq: Nat, ccs: Int, on: BOOLEAN]

\* Types.
XiType == [at: XStep, ci: Nat, round: Nat, port: Nat, slot: Int, tag: Nat, reading: BOOLEAN, pushed: BOOLEAN]
XhciTypes ==
  /\ xi \in XiType
  /\ g_msc_slot \in Int /\ used \in 0 .. MAX_SLOTS
  /\ cmd \in RingType(CMD_RING_SZ)
  /\ rings \in [XSlot -> [EpName -> RingType(XFER_RING_SZ)]]
  /\ ictx \in [ep: EpName, deq: Nat, ccs: Int]
  /\ \E S : evt \in Seq(S)
  /\ bot \in [cbw: Nat, asks: BOOLEAN, csw: Nat, data: Nat]
  /\ sends \in Seq([kind: {"data", "csw"}, tag: Nat])
  /\ DOMAIN answer = {"want", "got", "read", "data"}

\* The driver's side of a ring: the cycle bits of the places it has written in
\* this round differ from those of the others.
Cycled(r, sz) ==
  /\ r.enq < sz - 1 /\ r.pcs \in {0, 1}
  /\ \A i \in 0 .. sz - 2 : r.mem[i].op # "link" /\ r.mem[i].c = IF i < r.enq THEN r.pcs ELSE 1 - r.pcs
  /\ r.mem[sz - 1].c = 1 - r.pcs

\* The controller has n TRBs to carry out: it is in the driver's round, or in the one
\* before, with the link ahead.
InRound(r, n) == r.ccs = r.pcs /\ r.deq + n = r.enq
Behind(r, sz, n) ==
  /\ r.ccs = 1 - r.pcs /\ r.mem[sz - 1].op = "link"
  /\ r.enq < r.deq /\ r.deq <= sz - 1 /\ r.deq + n = sz - 1 + r.enq
Waits(r, sz, n) == InRound(r, n) \/ Behind(r, sz, n)

\* They are TRBs of the step op for the slot s; the m-th one asks for an event.
Place(r, sz, k) == IF r.deq + k - 1 < sz - 1 THEN r.deq + k - 1 ELSE r.deq + k - sz
IsTrb(t, op, s, ioc) == t.op = op /\ t.slot = s /\ (t.ioc <=> ioc)
Loaded(r, sz, n, m, op, s) ==
  /\ Waits(r, sz, n)
  /\ \A k \in 1 .. n : IsTrb(r.mem[Place(r, sz, k)], op, s, k = m)

(* Before all: a new ring is one of the driver's, off, with nothing in it. *)
LEMMA NewRing ==
  ASSUME NEW sz \in Nat, sz > 2
  PROVE  /\ EmptyRing(sz) \in RingType(sz) /\ Cycled(EmptyRing(sz), sz)
         /\ EmptyRing(sz).enq = 0 /\ EmptyRing(sz).pcs = 1 /\ EmptyRing(sz).on = FALSE
         /\ InRound(EmptyRing(sz), 0)
<1> DEFINE m == [i \in 0 .. sz - 1 |-> [c |-> 0, op |-> "none", slot |-> 0, ioc |-> TRUE]]
<1>0. [c |-> 0, op |-> "none", slot |-> 0, ioc |-> TRUE] \in Trb BY DEF Trb, TrbOp
<1>1. m \in [0 .. sz - 1 -> Trb] /\ \A i \in 0 .. sz - 1 : m[i].c = 0 /\ m[i].op = "none" BY <1>0
<1>2. EmptyRing(sz) = [mem |-> m, enq |-> 0, pcs |-> 1, deq |-> 0, ccs |-> 1, on |-> FALSE] BY DEF EmptyRing
<1> HIDE DEF m
<1> QED BY <1>1, <1>2 DEF RingType, Cycled, InRound

(* What push makes of a ring: the TRB is at enq, and if that was the last  *)
(* place the link is written and the driver starts its next round.         *)
LEMMA PushShape ==
  ASSUME NEW sz \in Nat, sz > 2, NEW r \in RingType(sz), NEW op \in TrbOp, NEW s \in Int, NEW ioc \in BOOLEAN,
         NEW q, q = push(r, op, s, ioc),
         NEW t, t = [c |-> r.pcs, op |-> op, slot |-> s, ioc |-> ioc],
         NEW l, l = [c |-> r.pcs, op |-> "link", slot |-> 0, ioc |-> FALSE]
  PROVE  /\ q \in RingType(sz) /\ q.on = r.on /\ q.deq = r.deq /\ q.ccs = r.ccs
         /\ r.enq + 1 < sz - 1 =>
              q.enq = r.enq + 1 /\ q.pcs = r.pcs /\ \A i \in 0 .. sz - 1 : q.mem[i] = IF i = r.enq THEN t ELSE r.mem[i]
         /\ ~(r.enq + 1 < sz - 1) =>
              /\ q.enq = 0 /\ q.pcs = 1 - r.pcs
              /\ \A i \in 0 .. sz - 1 : q.mem[i] = IF i = sz - 1 THEN l ELSE IF i = r.enq THEN t ELSE r.mem[i]
<1>1. r.mem \in [0 .. sz - 1 -> Trb] /\ r.enq \in Nat /\ r.pcs \in Int BY DEF RingType
<1>01. t \in Trb /\ l \in Trb BY <1>1 DEF Trb, TrbOp
<1>2. Cardinality(DOMAIN r.mem) - 1 = sz - 1
  <2>1. Cardinality(0 .. sz - 1) = sz BY FS_Interval
  <2> QED BY <1>1, <2>1
<1>02. PICK m : m = [r.mem EXCEPT ![r.enq] = t] OBVIOUS
<1>3. m \in [0 .. sz - 1 -> Trb] /\ \A i \in 0 .. sz - 1 : m[i] = IF i = r.enq THEN t ELSE r.mem[i]
  BY <1>1, <1>01, <1>02
<1>03. PICK n : n = [m EXCEPT ![sz - 1] = l] OBVIOUS
<1>4. n \in [0 .. sz - 1 -> Trb] /\ \A i \in 0 .. sz - 1 : n[i] = IF i = sz - 1 THEN l ELSE m[i]
  BY <1>01, <1>3, <1>03
<1>5. q = IF r.enq + 1 < sz - 1 THEN [r EXCEPT !.mem = m, !.enq = @ + 1]
          ELSE [r EXCEPT !.mem = n, !.enq = 0, !.pcs = 1 - @]
  BY <1>2, <1>02, <1>03 DEF push
<1>6. CASE r.enq + 1 < sz - 1
  <2>0. PICK e \in Nat : e = r.enq + 1 BY <1>1
  <2>1. q = [r EXCEPT !.mem = m, !.enq = e] BY <1>5, <1>6, <2>0
  <2>4. q \in RingType(sz) BY <2>1, <1>3 DEF RingType
  <2>2. q \in RingType(sz) /\ q.on = r.on /\ q.deq = r.deq /\ q.ccs = r.ccs BY <2>1, <2>4 DEF RingType
  <2>3. q.enq = e /\ q.pcs = r.pcs /\ q.mem = m BY <2>1, <1>3 DEF RingType
  <2> QED BY <1>6, <2>0, <2>2, <2>3, <1>3
<1>7. CASE ~(r.enq + 1 < sz - 1)
  <2>0. PICK p \in Int : p = 1 - r.pcs BY <1>1
  <2>1. q = [r EXCEPT !.mem = n, !.enq = 0, !.pcs = p] BY <1>5, <1>7, <2>0
  <2>4. q \in RingType(sz)
    <3>1. PICK e \in Nat : e = 0 OBVIOUS
    <3>2. q = [r EXCEPT !.mem = n, !.enq = e, !.pcs = p] BY <2>1, <3>1
    <3> QED BY <3>2, <1>4 DEF RingType
  <2>5. q.on = r.on BY <2>1 DEF RingType
  <2>2. q \in RingType(sz) /\ q.on = r.on /\ q.deq = r.deq /\ q.ccs = r.ccs BY <2>1, <2>4, <2>5 DEF RingType
  <2>3. q.enq = 0 /\ q.pcs = p /\ q.mem = n BY <2>1, <1>4 DEF RingType
  <2> QED BY <1>7, <2>0, <2>2, <2>3, <1>3, <1>4
<1> QED BY <1>6, <1>7

(* A push keeps a ring a ring.                                             *)
LEMMA PushType ==
  ASSUME NEW sz \in Nat, sz > 2, NEW r \in RingType(sz), NEW op \in TrbOp, NEW s \in Int, NEW ioc \in BOOLEAN,
         NEW q, q = push(r, op, s, ioc)
  PROVE  q \in RingType(sz) /\ q.on = r.on
<1>1. PICK t : t = [c |-> r.pcs, op |-> op, slot |-> s, ioc |-> ioc] OBVIOUS
<1>2. PICK l : l = [c |-> r.pcs, op |-> "link", slot |-> 0, ioc |-> FALSE] OBVIOUS
<1> QED BY <1>1, <1>2, PushShape

(* A push keeps the driver's side of a ring, and adds a TRB for the        *)
(* controller.                                                             *)
LEMMA PushLoads ==
  ASSUME NEW sz \in Nat, sz > 2, NEW r \in RingType(sz), NEW op \in TrbOp \ {"link"}, NEW s \in Int, NEW ioc \in BOOLEAN,
         NEW q, q = push(r, op, s, ioc), Cycled(r, sz)
  PROVE  /\ q \in RingType(sz) /\ q.on = r.on /\ Cycled(q, sz)
         /\ \A n \in Nat, m \in Nat : n + 2 < sz /\ Loaded(r, sz, n, m, op, s) /\ (ioc <=> n + 1 = m)
              => Loaded(q, sz, n + 1, m, op, s)
<1>1. PICK t : t = [c |-> r.pcs, op |-> op, slot |-> s, ioc |-> ioc] OBVIOUS
<1>2. PICK l : l = [c |-> r.pcs, op |-> "link", slot |-> 0, ioc |-> FALSE] OBVIOUS
<1> DEFINE wrap == ~(r.enq + 1 < sz - 1)
<1>4. /\ q \in RingType(sz) /\ q.on = r.on /\ q.deq = r.deq /\ q.ccs = r.ccs
      /\ q.enq = IF wrap THEN 0 ELSE r.enq + 1
      /\ q.pcs = IF wrap THEN 1 - r.pcs ELSE r.pcs
      /\ \A i \in 0 .. sz - 1 : q.mem[i] = IF wrap /\ i = sz - 1 THEN l ELSE IF i = r.enq THEN t ELSE r.mem[i]
  BY <1>1, <1>2, PushShape
<1>5. t.c = r.pcs /\ t.op = op /\ t.slot = s /\ t.ioc = ioc BY <1>1
<1>6. l.c = r.pcs /\ l.op = "link" BY <1>2
<1>7. r.enq \in Nat /\ r.deq \in Nat /\ r.enq < sz - 1 /\ r.pcs \in {0, 1} /\ r.ccs \in Int BY DEF RingType, Cycled
<1>8. Cycled(q, sz)
  <2>1. q.enq < sz - 1 /\ q.pcs \in {0, 1} BY <1>4, <1>7
  <2>2. ASSUME NEW i \in 0 .. sz - 2
        PROVE  q.mem[i].op # "link" /\ q.mem[i].c = IF i < q.enq THEN q.pcs ELSE 1 - q.pcs
    <3>1. r.mem[i].op # "link" /\ r.mem[i].c = IF i < r.enq THEN r.pcs ELSE 1 - r.pcs BY DEF Cycled
    <3>2. q.mem[i] = IF i = r.enq THEN t ELSE r.mem[i] BY <1>4, <1>7
    <3>3. CASE i = r.enq BY <3>2, <3>3, <1>4, <1>5, <1>7
    <3>4. CASE i # r.enq BY <3>1, <3>2, <3>4, <1>4, <1>7
    <3> QED BY <3>3, <3>4
  <2>3. q.mem[sz - 1].c = 1 - q.pcs
    <3>1. r.mem[sz - 1].c = 1 - r.pcs BY DEF Cycled
    <3>2. q.mem[sz - 1] = IF wrap THEN l ELSE r.mem[sz - 1] BY <1>4, <1>7
    <3> QED BY <3>1, <3>2, <1>4, <1>6, <1>7
  <2> QED BY <2>1, <2>2, <2>3 DEF Cycled
<1>9. ASSUME NEW n \in Nat, NEW m \in Nat, n + 2 < sz, Loaded(r, sz, n, m, op, s), (ioc <=> n + 1 = m)
      PROVE  Loaded(q, sz, n + 1, m, op, s)
  <2>1. CASE InRound(r, n)
    <3>1. r.ccs = r.pcs /\ r.deq + n = r.enq BY <2>1 DEF InRound
    <3>2. Waits(q, sz, n + 1)
      <4>1. CASE wrap
        <5>1. q.mem[sz - 1] = l BY <4>1, <1>4
        <5> QED BY <4>1, <5>1, <3>1, <1>4, <1>6, <1>7, <1>9 DEF Waits, Behind
      <4>2. CASE ~wrap BY <4>2, <3>1, <1>4, <1>7 DEF Waits, InRound
      <4> QED BY <4>1, <4>2
    <3>3. ASSUME NEW k \in 1 .. n + 1
          PROVE  IsTrb(q.mem[Place(q, sz, k)], op, s, k = m)
      <4>1. Place(q, sz, k) = r.deq + k - 1 BY <3>1, <1>4, <1>7 DEF Place
      <4>2. CASE k = n + 1
        <5>1. q.mem[r.deq + k - 1] = t BY <4>2, <3>1, <1>4, <1>7
        <5> QED BY <4>1, <4>2, <5>1, <1>5, <1>9 DEF IsTrb
      <4>3. CASE k \in 1 .. n
        <5>1. q.mem[r.deq + k - 1] = r.mem[r.deq + k - 1] BY <4>3, <3>1, <1>4, <1>7
        <5>2. Place(r, sz, k) = r.deq + k - 1 BY <3>1, <1>7, <4>3 DEF Place
        <5>3. IsTrb(r.mem[Place(r, sz, k)], op, s, k = m) BY <1>9, <4>3 DEF Loaded
        <5> QED BY <4>1, <5>1, <5>2, <5>3
      <4> QED BY <4>2, <4>3
    <3> QED BY <3>2, <3>3 DEF Loaded
  <2>2. CASE Behind(r, sz, n)
    <3>1. /\ r.ccs = 1 - r.pcs /\ r.mem[sz - 1].op = "link"
          /\ r.enq < r.deq /\ r.deq <= sz - 1 /\ r.deq + n = sz - 1 + r.enq
      BY <2>2 DEF Behind
    <3>0. r.enq + 1 < r.deq /\ ~wrap BY <3>1, <1>7, <1>9
    <3>2. Waits(q, sz, n + 1)
      <4>1. q.mem[sz - 1] = r.mem[sz - 1] BY <3>0, <1>4, <1>7
      <4> QED BY <4>1, <3>0, <3>1, <1>4, <1>7 DEF Waits, Behind
    <3>3. ASSUME NEW k \in 1 .. n + 1
          PROVE  IsTrb(q.mem[Place(q, sz, k)], op, s, k = m)
      <4>1. Place(q, sz, k) = Place(r, sz, k) BY <1>4 DEF Place
      <4>2. CASE k = n + 1
        <5>0. Place(r, sz, k) = r.enq BY <4>2, <3>1, <1>7 DEF Place
        <5>1. q.mem[r.enq] = t BY <3>0, <1>4, <1>7
        <5> QED BY <4>1, <4>2, <5>0, <5>1, <1>5, <1>9 DEF IsTrb
      <4>3. CASE k \in 1 .. n
        <5>0. Place(r, sz, k) \in 0 .. sz - 1 /\ Place(r, sz, k) # r.enq BY <4>3, <3>0, <3>1, <1>7 DEF Place
        <5>1. q.mem[Place(r, sz, k)] = r.mem[Place(r, sz, k)] BY <5>0, <3>0, <1>4
        <5>3. IsTrb(r.mem[Place(r, sz, k)], op, s, k = m) BY <1>9, <4>3 DEF Loaded
        <5> QED BY <4>1, <5>1, <5>3
      <4> QED BY <4>2, <4>3
    <3> QED BY <3>2, <3>3 DEF Loaded
  <2> QED BY <2>1, <2>2, <1>9 DEF Loaded, Waits
<1> QED BY <1>4, <1>8, <1>9

(* The controller moves along a ring without changing what is in it.       *)
LEMMA AtTrbShape ==
  ASSUME NEW sz \in Nat, sz > 2, NEW r \in RingType(sz), NEW a, a = AtTrb(r)
  PROVE  /\ a \in RingType(sz) /\ a.mem = r.mem /\ a.enq = r.enq /\ a.pcs = r.pcs /\ a.on = r.on
         /\ r.mem[r.deq].op # "link" => a.deq = r.deq /\ a.ccs = r.ccs
         /\ r.mem[r.deq].op = "link" /\ r.mem[r.deq].c = r.ccs => a.deq = 0 /\ a.ccs = 1 - r.ccs
<1>1. CASE r.mem[r.deq].op = "link" /\ r.mem[r.deq].c = r.ccs
  <2>1. PICK z \in Nat : z = 0 OBVIOUS
  <2>2. PICK c \in Int : c = 1 - r.ccs BY DEF RingType
  <2>3. a = [r EXCEPT !.deq = z, !.ccs = c] BY <1>1, <2>1, <2>2 DEF AtTrb
  <2>4. a \in RingType(sz) BY <2>3 DEF RingType
  <2>5. a.on = r.on BY <2>3 DEF RingType
  <2>6. a.mem = r.mem /\ a.enq = r.enq /\ a.pcs = r.pcs /\ a.deq = z /\ a.ccs = c BY <2>3 DEF RingType
  <2> QED BY <1>1, <2>1, <2>2, <2>4, <2>5, <2>6
<1>2. CASE ~(r.mem[r.deq].op = "link" /\ r.mem[r.deq].c = r.ccs)
  <2>1. a = r BY <1>2 DEF AtTrb
  <2> QED BY <1>2, <2>1
<1> QED BY <1>1, <1>2

(* What the controller does when it goes on to the next place.             *)
LEMMA SkipShape ==
  ASSUME NEW sz \in Nat, sz > 2, NEW r \in RingType(sz), NEW a, a = AtTrb(r), NEW q, q = Skip(r)
  PROVE  /\ q \in RingType(sz) /\ q.mem = r.mem /\ q.enq = r.enq /\ q.pcs = r.pcs /\ q.on = r.on
         /\ q.deq = a.deq + 1 /\ q.ccs = a.ccs
<1>1. a \in RingType(sz) /\ a.mem = r.mem /\ a.enq = r.enq /\ a.pcs = r.pcs /\ a.on = r.on BY AtTrbShape
<1>2. PICK d \in Nat : d = a.deq + 1 BY <1>1 DEF RingType
<1>3. q = [a EXCEPT !.deq = d] BY <1>2 DEF Skip
<1>4. q \in RingType(sz) BY <1>1, <1>3 DEF RingType
<1>5. q.on = a.on BY <1>1, <1>3 DEF RingType
<1>6. q.mem = a.mem /\ q.enq = a.enq /\ q.pcs = a.pcs /\ q.deq = d /\ q.ccs = a.ccs BY <1>1, <1>3 DEF RingType
<1> QED BY <1>1, <1>2, <1>4, <1>5, <1>6

(* What is in a ring does not depend on where the controller is.           *)
LEMMA CycledSame ==
  ASSUME NEW sz, NEW r, NEW q, q.mem = r.mem, q.enq = r.enq, q.pcs = r.pcs
  PROVE  Cycled(q, sz) <=> Cycled(r, sz)
BY DEF Cycled

(* A ring with nothing for the controller has no TRB for it, although the  *)
(* place it is at was written in an earlier round.                         *)
LEMMA NoTrb ==
  ASSUME NEW sz \in Nat, sz > 2, NEW r \in RingType(sz), Cycled(r, sz), Waits(r, sz, 0)
  PROVE  ~HasTrb(r)
<1>1. PICK a : a = AtTrb(r) OBVIOUS
<1>2. r.enq \in Nat /\ r.deq \in Nat /\ r.enq < sz - 1 /\ r.pcs \in {0, 1} /\ r.ccs \in Int BY DEF RingType, Cycled
<1>3. CASE InRound(r, 0)
  <2>1. r.deq = r.enq /\ r.ccs = r.pcs BY <1>2, <1>3 DEF InRound
  <2>2. r.mem[r.deq].op # "link" /\ r.mem[r.deq].c = 1 - r.pcs BY <1>2, <2>1 DEF Cycled
  <2>3. a.deq = r.deq /\ a.ccs = r.ccs /\ a.mem = r.mem BY <1>1, <2>2, AtTrbShape
  <2>4. a.mem[a.deq].c # a.ccs BY <2>1, <2>2, <2>3, <1>2
  <2> QED BY <1>1, <2>4 DEF HasTrb
<1>4. CASE Behind(r, sz, 0)
  <2>1. r.deq = sz - 1 /\ r.enq = 0 /\ r.ccs = 1 - r.pcs /\ r.mem[sz - 1].op = "link" BY <1>2, <1>4 DEF Behind
  <2>2. r.mem[sz - 1].c = 1 - r.pcs /\ r.mem[0].c = 1 - r.pcs BY <1>2, <2>1 DEF Cycled
  <2>3. a.deq = 0 /\ a.ccs = 1 - r.ccs /\ a.mem = r.mem BY <1>1, <2>1, <2>2, AtTrbShape
  <2>4. a.mem[a.deq].c # a.ccs BY <2>1, <2>2, <2>3, <1>2
  <2> QED BY <1>1, <2>4 DEF HasTrb
<1> QED BY <1>3, <1>4 DEF Waits

(* The controller finds the first of the TRBs the driver has pushed, and   *)
(* then the others, also across the link.                                  *)
LEMMA SkipLoaded ==
  ASSUME NEW sz \in Nat, sz > 2, NEW r \in RingType(sz), Cycled(r, sz), NEW n \in Nat, n > 0, NEW m \in Int,
         NEW op, NEW s, Loaded(r, sz, n, m, op, s), NEW q, q = Skip(r)
  PROVE  /\ HasTrb(r) <=> r.on
         /\ IsTrb(TrbOf(r), op, s, m = 1)
         /\ q \in RingType(sz) /\ Cycled(q, sz) /\ q.on = r.on /\ q.enq = r.enq /\ q.pcs = r.pcs
         /\ Loaded(q, sz, n - 1, m - 1, op, s)
<1>1. PICK a : a = AtTrb(r) OBVIOUS
<1>2. r.enq \in Nat /\ r.deq \in Nat /\ r.enq < sz - 1 /\ r.pcs \in {0, 1} /\ r.ccs \in Int BY DEF RingType, Cycled
<1>3. /\ q \in RingType(sz) /\ q.mem = r.mem /\ q.enq = r.enq /\ q.pcs = r.pcs /\ q.on = r.on
      /\ q.deq = a.deq + 1 /\ q.ccs = a.ccs /\ a.mem = r.mem
  BY <1>1, SkipShape, AtTrbShape
<1>4. Cycled(q, sz) BY <1>3, CycledSame
<1>5. IsTrb(r.mem[Place(r, sz, 1)], op, s, 1 = m) BY DEF Loaded
<1>6. SUFFICES /\ a.deq = Place(r, sz, 1) /\ a.mem[a.deq].c = a.ccs /\ Waits(q, sz, n - 1)
               /\ \A k \in 1 .. n - 1 : Place(q, sz, k) = Place(r, sz, k + 1)
  <2>1. HasTrb(r) <=> r.on BY <1>1, <1>6 DEF HasTrb
  <2>2. TrbOf(r) = r.mem[Place(r, sz, 1)] BY <1>1, <1>3, <1>6 DEF TrbOf
  <2>3. ASSUME NEW k \in 1 .. n - 1 PROVE IsTrb(q.mem[Place(q, sz, k)], op, s, k = m - 1)
    <3>1. k + 1 \in 1 .. n /\ (k + 1 = m <=> k = m - 1) OBVIOUS
    <3>2. IsTrb(r.mem[Place(r, sz, k + 1)], op, s, k + 1 = m) BY <3>1 DEF Loaded
    <3> QED BY <3>1, <3>2, <1>3, <1>6 DEF IsTrb
  <2>4. Loaded(q, sz, n - 1, m - 1, op, s) BY <2>3, <1>6 DEF Loaded
  <2>5. IsTrb(TrbOf(r), op, s, m = 1) BY <1>5, <2>2 DEF IsTrb
  <2> QED BY <2>1, <2>4, <2>5, <1>3, <1>4
<1>7. CASE InRound(r, n)
  <2>1. r.deq + n = r.enq /\ r.ccs = r.pcs BY <1>7 DEF InRound
  <2>2. r.mem[r.deq].op # "link" /\ r.mem[r.deq].c = r.pcs BY <1>2, <2>1 DEF Cycled
  <2>3. a.deq = r.deq /\ a.ccs = r.ccs BY <1>1, <2>2, AtTrbShape
  <2>4. Waits(q, sz, n - 1) BY <2>1, <2>3, <1>2, <1>3 DEF Waits, InRound
  <2>5. a.deq = Place(r, sz, 1) BY <2>1, <2>3, <1>2 DEF Place
  <2>6. \A k \in 1 .. n - 1 : Place(q, sz, k) = Place(r, sz, k + 1) BY <2>1, <2>3, <1>2, <1>3 DEF Place
  <2> QED BY <2>1, <2>2, <2>3, <2>4, <2>5, <2>6, <1>3
<1>8. CASE Behind(r, sz, n) /\ r.deq < sz - 1
  <2>1. /\ r.ccs = 1 - r.pcs /\ r.mem[sz - 1].op = "link"
        /\ r.enq < r.deq /\ r.deq < sz - 1 /\ r.deq + n = sz - 1 + r.enq
    BY <1>8 DEF Behind
  <2>2. r.mem[r.deq].op # "link" /\ r.mem[r.deq].c = 1 - r.pcs BY <1>2, <2>1 DEF Cycled
  <2>3. a.deq = r.deq /\ a.ccs = r.ccs BY <1>1, <2>2, AtTrbShape
  <2>4. Waits(q, sz, n - 1) BY <2>1, <2>3, <1>2, <1>3 DEF Waits, Behind
  <2>5. a.deq = Place(r, sz, 1) BY <2>1, <2>3, <1>2 DEF Place
  <2>6. \A k \in 1 .. n - 1 : Place(q, sz, k) = Place(r, sz, k + 1) BY <2>1, <2>3, <1>2, <1>3 DEF Place
  <2> QED BY <2>1, <2>2, <2>3, <2>4, <2>5, <2>6, <1>3
<1>9. CASE Behind(r, sz, n) /\ r.deq = sz - 1
  <2>1. r.ccs = 1 - r.pcs /\ r.mem[sz - 1].op = "link" /\ n = r.enq /\ r.deq = sz - 1
    BY <1>9, <1>2 DEF Behind
  <2>2. r.mem[sz - 1].c = 1 - r.pcs /\ r.mem[0].c = r.pcs BY <1>2, <2>1 DEF Cycled
  <2>3. a.deq = 0 /\ a.ccs = r.pcs
    <3>1. a.deq = 0 /\ a.ccs = 1 - r.ccs BY <1>1, <2>1, <2>2, AtTrbShape
    <3> QED BY <3>1, <2>1, <1>2
  <2>4. Waits(q, sz, n - 1) BY <2>1, <2>3, <1>2, <1>3 DEF Waits, InRound
  <2>5. a.deq = Place(r, sz, 1) BY <2>1, <2>3, <1>2 DEF Place
  <2>6. \A k \in 1 .. n - 1 : Place(q, sz, k) = Place(r, sz, k + 1) BY <2>1, <2>3, <1>2, <1>3 DEF Place
  <2> QED BY <2>1, <2>2, <2>3, <2>4, <2>5, <2>6, <1>3
<1>10. Waits(r, sz, n) BY DEF Loaded
<1>11. InRound(r, n) \/ (Behind(r, sz, n) /\ r.deq < sz - 1) \/ (Behind(r, sz, n) /\ r.deq = sz - 1)
  <2>1. Behind(r, sz, n) => r.deq <= sz - 1 BY DEF Behind
  <2> QED BY <1>10, <2>1, <1>2 DEF Waits
<1> QED BY <1>7, <1>8, <1>9, <1>11

(* The next TRB that asks for an event: the controller has carried out the *)
(* ones before it.                                                         *)
LEMMA NextIocLoaded ==
  ASSUME NEW sz \in Nat, sz > 2, NEW r \in RingType(sz), Cycled(r, sz), NEW n \in Nat, n > 0, NEW op, NEW s,
         Loaded(r, sz, n, n, op, s), NEW q, q = NextIoc(r), NEW k, k = IF n = 1 THEN 1 ELSE n - 1
  PROVE  /\ q \in RingType(sz) /\ Cycled(q, sz) /\ q.on = r.on /\ q.enq = r.enq /\ q.pcs = r.pcs
         /\ Loaded(q, sz, k, k, op, s)
<1>1. IsTrb(TrbOf(r), op, s, n = 1) BY SkipLoaded
<1>2. CASE n = 1
  <2>1. q = r BY <1>1, <1>2 DEF NextIoc, IsTrb
  <2> QED BY <1>2, <2>1
<1>3. CASE n # 1
  <2>1. q = Skip(r) BY <1>1, <1>3 DEF NextIoc, IsTrb
  <2>2. k = n - 1 BY <1>3
  <2> QED BY <2>1, <2>2, SkipLoaded
<1> QED BY <1>2, <1>3

(* AtIoc finds the TRB that asks for an event.                             *)
LEMMA AtIocLoaded ==
  ASSUME NEW sz \in Nat, sz > 2, NEW r \in RingType(sz), Cycled(r, sz), NEW n \in 1 .. 3, NEW op, NEW s,
         Loaded(r, sz, n, n, op, s), NEW q, q = Skip(AtIoc(r))
  PROVE  /\ HasTrb(r) <=> r.on
         /\ TrbOf(AtIoc(r)).op = op
         /\ q \in RingType(sz) /\ Cycled(q, sz) /\ q.enq = r.enq /\ q.pcs = r.pcs
         /\ Waits(q, sz, 0)
<1>1. PICK i \in Nat : i = IF n = 1 THEN 1 ELSE n - 1 OBVIOUS
<1>2. PICK j \in Nat : j = IF i = 1 THEN 1 ELSE i - 1 BY <1>1
<1>3. i > 0 /\ j = 1 BY <1>1, <1>2
<1>4. PICK a : a = NextIoc(r) OBVIOUS
<1>5. /\ a \in RingType(sz) /\ Cycled(a, sz) /\ a.on = r.on /\ a.enq = r.enq /\ a.pcs = r.pcs
      /\ Loaded(a, sz, i, i, op, s)
  BY <1>1, <1>4, NextIocLoaded
<1>6. PICK b : b = NextIoc(a) OBVIOUS
<1>7. /\ b \in RingType(sz) /\ Cycled(b, sz) /\ b.on = r.on /\ b.enq = r.enq /\ b.pcs = r.pcs
      /\ Loaded(b, sz, 1, 1, op, s)
  BY <1>2, <1>3, <1>5, <1>6, NextIocLoaded
<1>8. AtIoc(r) = b BY <1>4, <1>6 DEF AtIoc
<1>9. q = Skip(b) BY <1>8
<1>10. TrbOf(b).op = op
  <2>1. IsTrb(TrbOf(b), op, s, 1 = 1) BY <1>7, SkipLoaded
  <2> QED BY <2>1 DEF IsTrb
<1>11. q \in RingType(sz) /\ Cycled(q, sz) /\ q.enq = r.enq /\ q.pcs = r.pcs /\ Loaded(q, sz, 0, 0, op, s)
  <2>1. 1 - 1 = 0 OBVIOUS
  <2> QED BY <1>7, <1>9, <2>1, SkipLoaded
<1>12. HasTrb(r) <=> r.on BY SkipLoaded
<1> QED BY <1>8, <1>10, <1>11, <1>12 DEF Loaded

(* A ring of a keyboard stays a ring.                                      *)
LEMMA AtIocType ==
  ASSUME NEW sz \in Nat, sz > 2, NEW r \in RingType(sz)
  PROVE  Skip(AtIoc(r)) \in RingType(sz)
<1>1. \A q \in RingType(sz) : Skip(q) \in RingType(sz) BY SkipShape
<1>2. \A q \in RingType(sz) : NextIoc(q) \in RingType(sz) BY <1>1 DEF NextIoc
<1> QED BY <1>1, <1>2 DEF AtIoc

\* f is the loop of push_all for the first n requests.
PushesOf(f, r, op, s, iocs, n) ==
  f = [k \in 0 .. n |-> IF k = 0 THEN r ELSE push(f[k - 1], op, s, iocs[k])]

(* The recursive function of push_all exists.                              *)
LEMMA PushesExist ==
  ASSUME NEW r, NEW op, NEW s, NEW iocs, NEW N \in Nat
  PROVE  \E f : PushesOf(f, r, op, s, iocs, N)
<1> DEFINE G == {n \in 0 .. N : \E f : PushesOf(f, r, op, s, iocs, n)}
<1>1. 0 \in G
  <2>1. PICK f : f = [k \in 0 .. 0 |-> r] OBVIOUS
  <2>2. f = [k \in 0 .. 0 |-> IF k = 0 THEN r ELSE push(f[k - 1], op, s, iocs[k])] BY <2>1
  <2> QED BY <2>2 DEF PushesOf
<1>2. ASSUME NEW n \in 0 .. N - 1, n \in G PROVE n + 1 \in G
  <2>1. PICK f : PushesOf(f, r, op, s, iocs, n) BY <1>2
  <2>2. PICK g : g = [k \in 0 .. n + 1 |-> IF k = n + 1 THEN push(f[n], op, s, iocs[n + 1]) ELSE f[k]]
    OBVIOUS
  <2>3. ASSUME NEW k \in 0 .. n + 1
        PROVE  g[k] = IF k = 0 THEN r ELSE push(g[k - 1], op, s, iocs[k])
    <3>1. CASE k = n + 1
      <4>1. g[k] = push(f[n], op, s, iocs[n + 1]) BY <2>2, <3>1
      <4>2. n \in 0 .. n + 1 /\ n # n + 1 /\ k - 1 = n /\ k # 0 BY <3>1
      <4>3. g[n] = f[n] BY <2>2, <4>2
      <4> QED BY <3>1, <4>1, <4>2, <4>3
    <3>2. CASE k # n + 1
      <4>1. k \in 0 .. n BY <3>2
      <4>2. g[k] = f[k] BY <2>2, <3>2
      <4>3. f[k] = IF k = 0 THEN r ELSE push(f[k - 1], op, s, iocs[k]) BY <2>1, <4>1 DEF PushesOf
      <4>4. k # 0 => g[k - 1] = f[k - 1]
        <5>1. k # 0 => k - 1 \in 0 .. n + 1 /\ k - 1 # n + 1 BY <4>1
        <5> QED BY <5>1, <2>2
      <4> QED BY <4>2, <4>3, <4>4
    <3> QED BY <3>1, <3>2
  <2>4. PushesOf(g, r, op, s, iocs, n + 1)
    <3>1. g = [k \in 0 .. n + 1 |-> g[k]] BY <2>2
    <3> QED BY <2>3, <3>1 DEF PushesOf
  <2>5. n + 1 \in 0 .. N OBVIOUS
  <2> QED BY <2>4, <2>5
<1>3. 0 .. N \subseteq G
  <2> HIDE DEF G
  <2> QED BY <1>1, <1>2, IntervalInduction
<1> QED BY <1>3

(* What push_all computes: the pushes one after the other.                 *)
LEMMA PushAllSteps ==
  ASSUME NEW r, NEW op, NEW s, NEW iocs, Len(iocs) \in Nat
  PROVE  \E f : /\ push_all(r, op, s, iocs) = f[Len(iocs)] /\ f[0] = r
                /\ \A k \in 1 .. Len(iocs) : f[k] = push(f[k - 1], op, s, iocs[k])
<1> DEFINE D(g) == [k \in 0 .. Len(iocs) |-> IF k = 0 THEN r ELSE push(g[k - 1], op, s, iocs[k])]
           f == CHOOSE g : g = D(g)
<1>1. push_all(r, op, s, iocs) = f[Len(iocs)] BY DEF push_all
<1>2. \E g : g = D(g)
  <2>1. PICK g : PushesOf(g, r, op, s, iocs, Len(iocs)) BY PushesExist
  <2>2. g = D(g) BY <2>1 DEF PushesOf
  <2> QED BY <2>2
<1>3. f = D(f)
  <2> HIDE DEF D
  <2> QED BY <1>2
<1> HIDE DEF f
<1>4. ASSUME NEW k \in 0 .. Len(iocs) PROVE f[k] = IF k = 0 THEN r ELSE push(f[k - 1], op, s, iocs[k])
  <2>1. D(f)[k] = IF k = 0 THEN r ELSE push(f[k - 1], op, s, iocs[k]) OBVIOUS
  <2> HIDE DEF D
  <2> QED BY <1>3, <2>1
<1>5. f[0] = r BY <1>4
<1>6. \A k \in 1 .. Len(iocs) : f[k] = push(f[k - 1], op, s, iocs[k]) BY <1>4
<1> QED BY <1>1, <1>5, <1>6

(* Pushes keep a ring a ring.                                              *)
LEMMA PushAllType ==
  ASSUME NEW sz \in Nat, sz > 2, NEW r \in RingType(sz), NEW op \in TrbOp, NEW s \in Int,
         NEW iocs \in Seq(BOOLEAN), NEW q, q = push_all(r, op, s, iocs)
  PROVE  q \in RingType(sz) /\ q.on = r.on
<1>0. Len(iocs) \in Nat /\ \A k \in 1 .. Len(iocs) : iocs[k] \in BOOLEAN BY LenProperties, ElementOfSeq
<1>1. PICK f : /\ push_all(r, op, s, iocs) = f[Len(iocs)] /\ f[0] = r
               /\ \A k \in 1 .. Len(iocs) : f[k] = push(f[k - 1], op, s, iocs[k])
  BY <1>0, PushAllSteps
<1> DEFINE G == {k \in 0 .. Len(iocs) : f[k] \in RingType(sz) /\ f[k].on = r.on}
<1>2. 0 \in G BY <1>0, <1>1
<1>3. ASSUME NEW k \in 0 .. Len(iocs) - 1, k \in G PROVE k + 1 \in G
  <2>1. k + 1 \in 1 .. Len(iocs) /\ (k + 1) - 1 = k BY <1>0
  <2>2. f[k + 1] = push(f[k], op, s, iocs[k + 1]) BY <1>1, <2>1
  <2>3. f[k] \in RingType(sz) /\ f[k].on = r.on BY <1>3
  <2>4. iocs[k + 1] \in BOOLEAN BY <1>0, <2>1
  <2>5. f[k + 1] \in RingType(sz) /\ f[k + 1].on = f[k].on BY <2>2, <2>3, <2>4, PushType
  <2>6. k + 1 \in 0 .. Len(iocs) BY <2>1
  <2> QED BY <2>3, <2>5, <2>6
<1>4. 0 .. Len(iocs) \subseteq G
  <2> HIDE DEF G
  <2> QED BY <1>0, <1>2, <1>3, IntervalInduction
<1>5. Len(iocs) \in 0 .. Len(iocs) BY <1>0
<1> QED BY <1>1, <1>4, <1>5

(* The requests of a transfer: the last one, at most the third, asks for   *)
(* an event.                                                               *)
LEMMA PushAllLoads ==
  ASSUME NEW sz \in Nat, sz > 4, NEW r \in RingType(sz), NEW op \in TrbOp \ {"link"}, NEW s \in Int,
         NEW iocs \in Seq(BOOLEAN), Len(iocs) \in 1 .. 3, \A k \in 1 .. Len(iocs) : iocs[k] <=> k = Len(iocs),
         Cycled(r, sz), NEW q, q = push_all(r, op, s, iocs)
  PROVE  /\ q \in RingType(sz) /\ q.on = r.on /\ Cycled(q, sz)
         /\ Waits(r, sz, 0) => Loaded(q, sz, Len(iocs), Len(iocs), op, s)
<1>0. PICK n \in 1 .. 3 : n = Len(iocs) OBVIOUS
<1>1. PICK f : /\ q = f[n] /\ f[0] = r
               /\ \A k \in 1 .. n : f[k] = push(f[k - 1], op, s, iocs[k])
  BY <1>0, PushAllSteps
<1>2. \A k \in 1 .. n : iocs[k] \in BOOLEAN /\ (iocs[k] <=> k = n) BY <1>0, ElementOfSeq
<1> DEFINE G == {k \in 0 .. n : /\ f[k] \in RingType(sz) /\ f[k].on = r.on /\ Cycled(f[k], sz)
                                /\ Waits(r, sz, 0) => Loaded(f[k], sz, k, n, op, s)}
<1>3. 0 \in G
  <2>1. Waits(r, sz, 0) => Loaded(r, sz, 0, n, op, s) BY DEF Loaded
  <2> QED BY <1>1, <2>1
<1>4. ASSUME NEW k \in 0 .. n - 1, k \in G PROVE k + 1 \in G
  <2>1. k + 1 \in 1 .. n /\ (k + 1) - 1 = k /\ k \in Nat /\ k + 2 < sz /\ n \in Nat BY <1>0
  <2>2. f[k + 1] = push(f[k], op, s, iocs[k + 1]) BY <1>1, <2>1
  <2>3. /\ f[k] \in RingType(sz) /\ f[k].on = r.on /\ Cycled(f[k], sz)
        /\ Waits(r, sz, 0) => Loaded(f[k], sz, k, n, op, s)
    BY <1>4
  <2>4. iocs[k + 1] \in BOOLEAN /\ (iocs[k + 1] <=> k + 1 = n) BY <1>2, <2>1
  <2>5. /\ f[k + 1] \in RingType(sz) /\ f[k + 1].on = f[k].on /\ Cycled(f[k + 1], sz)
        /\ Loaded(f[k], sz, k, n, op, s) => Loaded(f[k + 1], sz, k + 1, n, op, s)
    BY <2>1, <2>2, <2>3, <2>4, PushLoads
  <2>6. k + 1 \in 0 .. n BY <2>1
  <2> QED BY <2>3, <2>5, <2>6
<1>5. 0 .. n \subseteq G
  <2> HIDE DEF G
  <2> QED BY <1>0, <1>3, <1>4, IntervalInduction
<1> QED BY <1>0, <1>1, <1>5

\* Steps on the device of the slot xi.slot; those after which it may be a disk.
OnSlot == (Requests \ {"enable"}) \cup {"kready", "status", "failed"}
MaybeDisk == OnSlot \ {"kconf", "kready"}

\* Where the driver is.
StepInv ==
  /\ xi.pushed => xi.at \in Requests
  /\ xi.at \in OnSlot => xi.slot \in 1 .. used
  /\ xi.at \in OnSlot \ (Bulk \cup {"status", "failed"}) => xi.slot # g_msc_slot
  /\ g_msc_slot \in 0 .. used
  /\ xi.at \in {"handoff", "reset", "handoff2", "init"} => g_msc_slot = 0
  /\ xi.at \in {"handoff2", "init"} => ~cmd.on /\ \A s \in XSlot, ep \in EpName : ~rings[s][ep].on
  /\ xi.reading => xi.at \in Bulk \cup {"status", "failed", "idle"}

\* The answer the driver waits for.
Own(e) == xi.pushed /\ Accepts(e) /\ e.op = xi.at

\* A report of a keyboard, K being the slots of keyboards.
FromKeyboard(K, e) == e.type = "xfer" /\ e.dci = "kbd" /\ e.slot \in K

\* Only keyboards send reports.
KeyboardInv(K) ==
  /\ K \subseteq 1 .. used /\ g_msc_slot \notin K
  /\ xi.at \in MaybeDisk => xi.slot \notin K
  /\ \A s \in XSlot : rings[s]["kbd"].on => s \in K

\* Events: reports, and at most one answer.
EventInv(K) ==
  /\ \A i \in 1 .. Len(evt) : Own(evt[i]) \/ FromKeyboard(K, evt[i])
  /\ \A i, j \in 1 .. Len(evt) : Own(evt[i]) /\ Own(evt[j]) => i = j
  /\ \A i \in 1 .. Len(evt) : Own(evt[i]) /\ xi.at = "enable" /\ evt[i].ok /\ evt[i].slot # 0 =>
       evt[i].slot \in 1 .. used /\ evt[i].slot \notin K /\ evt[i].slot # g_msc_slot

\* A request that was not carried out has no answer yet.
Unanswered == \A i \in 1 .. Len(evt) : ~Own(evt[i])

\* The endpoint of the input context of a command.
ContextOf(step) == CASE step = "kconf" -> "kbd" [] step = "mout" -> "out" [] step = "min" -> "in" [] OTHER -> "ep0"

\* A ring with nothing for the controller.
Drained(r, sz) == Cycled(r, sz) /\ (r.on => Waits(r, sz, 0))

\* The command ring: empty, or with the command that the driver waits for.
CommandWaits ==
  /\ xi.pushed /\ xi.at \in Commands /\ Unanswered
  /\ Loaded(cmd, CMD_RING_SZ, 1, 1, xi.at, xi.slot)
  /\ xi.at # "enable" => ictx.ep = ContextOf(xi.at)
  /\ xi.at \notin {"enable", "kconf"} =>
       ictx.deq = rings[xi.slot][ictx.ep].enq /\ ictx.ccs = rings[xi.slot][ictx.ep].pcs
CommandInv == Cycled(cmd, CMD_RING_SZ) /\ (Drained(cmd, CMD_RING_SZ) \/ CommandWaits)

\* How much the disk is to send before the answer to a step.
Owed(step) == IF step = "data" THEN 2 ELSE IF step = "csw" THEN 1 ELSE 0

\* The transfer rings, but those of keyboards: empty, or with the transfer that the
\* driver waits for.
TransferWaits(s, ep) ==
  /\ xi.pushed /\ xi.at \in Requests \ Commands /\ s = xi.slot /\ ep = EndpointOf(xi.at) /\ Unanswered
  /\ Loaded(rings[s][ep], XFER_RING_SZ, Len(Trbs(xi.at)), Len(Trbs(xi.at)), xi.at, s)
  /\ Len(sends) >= Owed(xi.at)
TransferInv ==
  \A s \in XSlot, ep \in EpName \ {"kbd"} :
    Cycled(rings[s][ep], XFER_RING_SZ) /\ (Drained(rings[s][ep], XFER_RING_SZ) \/ TransferWaits(s, ep))

\* What the disk is to send.
OwedInv ==
  /\ ~xi.pushed => Len(sends) >= Owed(xi.at)
  /\ xi.at = "cbw" /\ xi.pushed => bot.asks = xi.reading
  /\ \A i \in 1 .. Len(evt) : Own(evt[i]) /\ evt[i].ok =>
       /\ xi.at = "cbw" => Len(sends) >= IF xi.reading THEN 2 ELSE 1
       /\ xi.at = "data" => Len(sends) >= 1

\* The inductive invariant, as long as the driver has not given up early.
XhciOk(K) ==
  /\ XhciTypes /\ answer.want = answer.got
  /\ StepInv /\ CommandInv /\ TransferInv /\ OwedInv /\ KeyboardInv(K) /\ EventInv(K)
XhciInv == early \in Nat /\ (early = 0 => \E K \in SUBSET XSlot : XhciOk(K))

\* The part of it that is about rings and events, while the driver waits for nothing.
Quiet(K) ==
  /\ Drained(cmd, CMD_RING_SZ)
  /\ \A s \in XSlot, ep \in EpName \ {"kbd"} : Drained(rings[s][ep], XFER_RING_SZ)
  /\ Len(sends) >= Owed(xi.at)
  /\ \A i \in 1 .. Len(evt) : FromKeyboard(K, evt[i])

(* Before the driver pushes a request: nothing is in the rings, and the    *)
(* events are reports.                                                     *)
LEMMA ToQuiet ==
  ASSUME NEW K, XhciOk(K), ~xi.pushed
  PROVE  Quiet(K)
<1>1. Drained(cmd, CMD_RING_SZ) BY DEF XhciOk, CommandInv, CommandWaits
<1>2. \A s \in XSlot, ep \in EpName \ {"kbd"} : Drained(rings[s][ep], XFER_RING_SZ)
  BY DEF XhciOk, TransferInv, TransferWaits
<1>3. Len(sends) >= Owed(xi.at) BY DEF XhciOk, OwedInv
<1>4. \A i \in 1 .. Len(evt) : FromKeyboard(K, evt[i]) BY DEF XhciOk, EventInv, Own
<1> QED BY <1>1, <1>2, <1>3, <1>4 DEF Quiet

(* And back: the invariant where the driver waits for nothing.             *)
LEMMA FromQuiet ==
  ASSUME NEW K, XhciTypes', StepInv', KeyboardInv(K)', Quiet(K)', ~xi'.pushed, answer'.want = answer'.got
  PROVE  XhciOk(K)'
<1>1. CommandInv' BY DEF Quiet, CommandInv, Drained
<1>2. TransferInv' BY DEF Quiet, TransferInv, Drained
<1>3. OwedInv' BY DEF Quiet, OwedInv, Own
<1>4. EventInv(K)' BY DEF Quiet, EventInv, Own
<1> QED BY <1>1, <1>2, <1>3, <1>4 DEF XhciOk

(* A step of the driver that leaves rings and events as they are.          *)
LEMMA QuietSame ==
  ASSUME NEW K, Quiet(K), UNCHANGED <<cmd, rings, evt, sends>>, Owed(xi'.at) = 0
  PROVE  Quiet(K)'
<1>1. Len(sends') >= Owed(xi'.at)
  <2>1. Owed(xi.at) \in {0, 1, 2} BY DEF Owed
  <2> QED BY <2>1 DEF Quiet
<1> QED BY <1>1 DEF Quiet, FromKeyboard

(* Where the driver is after a step.                                       *)
LEMMA XiMoves ==
  ASSUME NEW x \in XiType, NEW y, NEW a \in XStep, y = [x EXCEPT !.at = a]
  PROVE  /\ y \in XiType /\ y.at = a /\ y.ci = x.ci /\ y.slot = x.slot /\ y.port = x.port
         /\ y.pushed = x.pushed /\ y.reading = x.reading
<1>1. y \in XiType BY DEF XiType
<1>2. y.pushed = x.pushed /\ y.reading = x.reading BY DEF XiType
<1>3. y.at = a /\ y.ci = x.ci /\ y.slot = x.slot /\ y.port = x.port BY DEF XiType
<1> QED BY <1>1, <1>2, <1>3

(* Where the driver goes when it has done with a controller.               *)
LEMMA XiNext ==
  ASSUME NEW x \in XiType, NEW y, y = NextController(x)
  PROVE  /\ y \in XiType /\ y.slot = x.slot /\ y.pushed = x.pushed /\ y.reading = x.reading
         /\ y.at = "idle" \/ (y.at = "handoff" /\ g_msc_slot = 0)
<1>1. CASE x.ci < Controllers /\ g_msc_slot = 0
  <2>1. PICK c \in Nat : c = x.ci + 1 BY DEF XiType
  <2>2. PICK z \in Nat : z = 0 OBVIOUS
  <2>3. y = [x EXCEPT !.at = "handoff", !.ci = c, !.round = z, !.port = z] BY <1>1, <2>1, <2>2 DEF NextController
  <2>4. "handoff" \in XStep BY DEF XStep
  <2>5. y \in XiType BY <2>3, <2>4 DEF XiType
  <2>6. y.pushed = x.pushed /\ y.reading = x.reading BY <2>3 DEF XiType
  <2>7. y.at = "handoff" /\ y.slot = x.slot BY <2>3 DEF XiType
  <2> QED BY <1>1, <2>5, <2>6, <2>7
<1>2. CASE ~(x.ci < Controllers /\ g_msc_slot = 0)
  <2>1. y = [x EXCEPT !.at = "idle"] BY <1>2 DEF NextController
  <2>2. "idle" \in XStep BY DEF XStep
  <2> QED BY <2>1, <2>2, XiMoves
<1> QED BY <1>1, <1>2

\* The driver is between two devices, or between two controllers.
Between == {"handoff", "reset", "handoff2", "init", "scan", "port_reset", "idle", "enable"}

(* From such a step to another one, no device is looked at.                *)
LEMMA BetweenSteps ==
  ASSUME NEW K, StepInv, KeyboardInv(K), xi.at \in Between, ~xi.pushed,
         xi' \in XiType, xi'.at \in {"scan", "idle", "handoff", "port_reset", "enable", "reset"}, ~xi'.pushed,
         xi'.reading => xi'.at = "idle",
         xi'.at \in {"handoff", "reset"} => g_msc_slot = 0,
         UNCHANGED <<used, g_msc_slot>>,
         \A s \in XSlot : rings'[s]["kbd"].on => rings[s]["kbd"].on
  PROVE  StepInv' /\ KeyboardInv(K)'
<1>1. xi'.at \notin OnSlot BY DEF OnSlot, Requests, Commands, ControlIn, ControlOut, Bulk
<1>2. StepInv' BY <1>1 DEF StepInv
<1>3. KeyboardInv(K)' BY <1>1 DEF KeyboardInv, MaybeDisk
<1> QED BY <1>2, <1>3

(* bios_handoff: the driver takes a controller over.                       *)
LEMMA BiosHandoffOk ==
  ASSUME NEW K \in SUBSET XSlot, XhciOk(K), bios_handoff
  PROVE  XhciOk(K)'
<1>1. PICK a : a = IF xi.at = "handoff" THEN "reset" ELSE "init" OBVIOUS
<1>2. xi.at \in {"handoff", "handoff2"} /\ xi' = [xi EXCEPT !.at = a] /\ xi \in XiType
  BY <1>1 DEF bios_handoff, XhciOk, XhciTypes
<1>3. a \in XStep BY <1>1 DEF XStep
<1>4. /\ xi' \in XiType /\ xi'.at = a /\ xi'.slot = xi.slot
      /\ xi'.pushed = xi.pushed /\ xi'.reading = xi.reading
  BY <1>2, <1>3, XiMoves
<1>5. UNCHANGED <<g_msc_slot, cmd, rings, ictx, evt, used, sends, bot, answer>> BY DEF bios_handoff, dev, hist
<1>6. XhciTypes' BY <1>4, <1>5 DEF XhciOk, XhciTypes
<1>7. xi.at \notin Requests /\ a \notin OnSlot /\ a \notin Requests
  BY <1>1, <1>2 DEF OnSlot, Requests, Commands, ControlIn, ControlOut, Bulk
<1>8. ~xi.pushed /\ ~xi.reading BY <1>2, <1>7 DEF XhciOk, StepInv, Bulk
<1>9. StepInv' BY <1>1, <1>2, <1>4, <1>5, <1>7, <1>8 DEF XhciOk, StepInv
<1>10. KeyboardInv(K)' BY <1>4, <1>5, <1>7 DEF XhciOk, KeyboardInv, MaybeDisk
<1>11. Quiet(K) BY <1>8, ToQuiet
<1>12. Owed(xi'.at) = 0 BY <1>1, <1>4 DEF Owed
<1>13. Quiet(K)' BY <1>5, <1>11, <1>12, QuietSame
<1>14. answer'.want = answer'.got BY <1>5 DEF XhciOk
<1> QED BY <1>4, <1>6, <1>8, <1>9, <1>10, <1>13, <1>14, FromQuiet

(* Scanning the ports.                                                     *)
LEMMA ScanOk ==
  ASSUME NEW K \in SUBSET XSlot, XhciOk(K), NEW ccs \in BOOLEAN, scan(ccs)
  PROVE  XhciOk(K)'
<1>1. xi.at = "scan" /\ xi \in XiType BY DEF scan, XhciOk, XhciTypes
<1>2. xi.at \notin Requests /\ xi.at \in Between
  BY <1>1 DEF Requests, Commands, ControlIn, ControlOut, Bulk, Between
<1>3. ~xi.pushed /\ ~xi.reading BY <1>1, <1>2 DEF XhciOk, StepInv, Bulk
<1>4. UNCHANGED <<g_msc_slot, cmd, rings, ictx, evt, used, sends, bot, answer>> BY DEF scan, drv, dev, hist
<1>5. /\ xi' \in XiType /\ xi'.pushed = xi.pushed /\ xi'.reading = xi.reading
      /\ xi'.at \in {"scan", "port_reset", "idle"} \/ (xi'.at = "handoff" /\ g_msc_slot = 0)
  <2>1. PICK p \in Nat : p = xi.port + 1 BY <1>1 DEF XiType
  <2>2. PICK a \in {"port_reset", "scan"} : p <= MaxPorts => xi' = [xi EXCEPT !.port = p, !.at = a]
    <3>1. PICK a : a = IF ccs /\ Attached[xi.ci][p] # "none" /\ (xi.round = 0 \/ p \notin port_done) THEN "port_reset" ELSE "scan"
      OBVIOUS
    <3>2. p <= MaxPorts => xi' = [xi EXCEPT !.port = p, !.at = a] BY <2>1, <3>1, Zenon DEF scan
    <3> QED BY <3>1, <3>2
  <2>3. CASE p <= MaxPorts
    <3>1. xi' = [xi EXCEPT !.port = p, !.at = a] BY <2>2, <2>3
    <3>2. a \in XStep BY DEF XStep
    <3>3. xi' \in XiType BY <3>1, <3>2, <1>1 DEF XiType
    <3>4. xi'.pushed = xi.pushed /\ xi'.reading = xi.reading BY <3>1, <1>1 DEF XiType
    <3>5. xi'.at = a BY <3>1, <1>1 DEF XiType
    <3> QED BY <3>3, <3>4, <3>5
  <2>4. CASE ~(p <= MaxPorts) /\ xi.round < MaxRetries /\ g_msc_slot = 0
    <3>1. PICK r \in Nat : r = xi.round + 1 BY <1>1 DEF XiType
    <3>2. PICK z \in Nat : z = 0 OBVIOUS
    <3>3. xi' = [xi EXCEPT !.round = r, !.port = z] BY <2>1, <2>4, <3>1, <3>2 DEF scan
    <3>4. xi' \in XiType BY <3>3, <1>1 DEF XiType
    <3>5. xi'.pushed = xi.pushed /\ xi'.reading = xi.reading BY <3>3, <1>1 DEF XiType
    <3>6. xi'.at = xi.at BY <3>3, <1>1 DEF XiType
    <3> QED BY <3>4, <3>5, <3>6, <1>1
  <2>5. CASE ~(p <= MaxPorts) /\ ~(xi.round < MaxRetries /\ g_msc_slot = 0)
    <3>1. xi' = NextController(xi) BY <2>1, <2>5 DEF scan
    <3> QED BY <3>1, <1>1, XiNext
  <2> QED BY <2>3, <2>4, <2>5
<1>6. XhciTypes' BY <1>4, <1>5 DEF XhciOk, XhciTypes
<1>7. StepInv' /\ KeyboardInv(K)'
  <2>1. StepInv /\ KeyboardInv(K) BY DEF XhciOk
  <2>2. ~xi'.pushed /\ ~xi'.reading BY <1>3, <1>5
  <2>3. \A s \in XSlot : rings'[s]["kbd"].on => rings[s]["kbd"].on BY <1>4
  <2> QED BY <2>1, <2>2, <2>3, <1>2, <1>3, <1>4, <1>5, BetweenSteps
<1>8. Owed(xi'.at) = 0 BY <1>5 DEF Owed
<1>9. Quiet(K)' BY <1>3, <1>4, <1>8, ToQuiet, QuietSame
<1>10. answer'.want = answer'.got BY <1>4 DEF XhciOk
<1> QED BY <1>3, <1>5, <1>6, <1>7, <1>9, <1>10, FromQuiet

(* The reset of a port.                                                    *)
LEMMA PortResetOk ==
  ASSUME NEW K \in SUBSET XSlot, XhciOk(K), NEW e, NEW w, NEW c, NEW r, port_reset(e, w, c, r)
  PROVE  XhciOk(K)'
<1>1. PICK a : a = IF Enabled(e, w, c, r) THEN "enable" ELSE "scan" OBVIOUS
<1>2. xi.at = "port_reset" /\ xi \in XiType /\ xi' = [xi EXCEPT !.at = a]
  BY <1>1 DEF port_reset, XhciOk, XhciTypes
<1>3. a \in XStep /\ a \in {"enable", "scan"} BY <1>1 DEF XStep, Requests, Commands
<1>4. xi' \in XiType /\ xi'.at = a /\ xi'.pushed = xi.pushed /\ xi'.reading = xi.reading
  BY <1>2, <1>3, XiMoves
<1>5. UNCHANGED <<g_msc_slot, cmd, rings, ictx, evt, used, sends, bot, answer>> BY DEF port_reset, drv, dev, hist
<1>6. xi.at \notin Requests /\ xi.at \in Between
  BY <1>2 DEF Requests, Commands, ControlIn, ControlOut, Bulk, Between
<1>7. ~xi.pushed /\ ~xi.reading BY <1>2, <1>6 DEF XhciOk, StepInv, Bulk
<1>8. XhciTypes' BY <1>4, <1>5 DEF XhciOk, XhciTypes
<1>9. StepInv' /\ KeyboardInv(K)'
  <2>1. StepInv /\ KeyboardInv(K) BY DEF XhciOk
  <2>2. ~xi'.pushed /\ ~xi'.reading BY <1>4, <1>7
  <2>3. \A s \in XSlot : rings'[s]["kbd"].on => rings[s]["kbd"].on BY <1>5
  <2> QED BY <2>1, <2>2, <2>3, <1>3, <1>4, <1>5, <1>6, <1>7, BetweenSteps
<1>10. Owed(xi'.at) = 0 BY <1>3, <1>4 DEF Owed
<1>11. Quiet(K)' BY <1>5, <1>7, <1>10, ToQuiet, QuietSame
<1>12. answer'.want = answer'.got BY <1>5 DEF XhciOk
<1> QED BY <1>4, <1>7, <1>8, <1>9, <1>11, <1>12, FromQuiet

(* Switching a ring off leaves what the driver has written.                *)
LEMMA RingOff ==
  ASSUME NEW sz \in Nat, sz > 2, NEW r \in RingType(sz), NEW q, q = [r EXCEPT !.on = FALSE]
  PROVE  q \in RingType(sz) /\ ~q.on /\ (Cycled(r, sz) => Drained(q, sz))
<1>1. q \in RingType(sz) BY DEF RingType
<1>2. ~q.on BY DEF RingType
<1>3. q.mem = r.mem /\ q.enq = r.enq /\ q.pcs = r.pcs BY DEF RingType
<1>4. Cycled(r, sz) => Cycled(q, sz) BY <1>3, CycledSame
<1> QED BY <1>1, <1>2, <1>4 DEF Drained

(* The reset of a controller switches all its rings off.                   *)
LEMMA CtrlResetOk ==
  ASSUME NEW K \in SUBSET XSlot, XhciOk(K), NEW ok \in BOOLEAN, ctrl_reset(ok)
  PROVE  XhciOk(K)'
<1>0. CMD_RING_SZ \in Nat /\ CMD_RING_SZ > 2 /\ XFER_RING_SZ \in Nat /\ XFER_RING_SZ > 2 BY XhciAssumption
<1>1. xi.at = "reset" /\ xi \in XiType BY DEF ctrl_reset, XhciOk, XhciTypes
<1>2. xi.at \notin Requests BY <1>1 DEF Requests, Commands, ControlIn, ControlOut, Bulk
<1>3. ~xi.pushed /\ ~xi.reading /\ g_msc_slot = 0 BY <1>1, <1>2 DEF XhciOk, StepInv, Bulk
<1>4. /\ xi' \in XiType /\ xi'.pushed = xi.pushed /\ xi'.reading = xi.reading
      /\ xi'.at \in {"handoff2", "idle", "handoff"}
  <2>1. CASE ok
    <3>1. xi' = [xi EXCEPT !.at = "handoff2"] BY <2>1 DEF ctrl_reset
    <3>2. "handoff2" \in XStep BY DEF XStep
    <3> QED BY <1>1, <3>1, <3>2, XiMoves
  <2>2. CASE ~ok
    <3>1. xi' = NextController(xi) BY <2>2 DEF ctrl_reset
    <3> QED BY <1>1, <3>1, XiNext
  <2> QED BY <2>1, <2>2
<1>5. UNCHANGED <<g_msc_slot, ictx, evt, used, sends, bot, answer>> BY DEF ctrl_reset, dev, hist
<1>6. cmd' \in RingType(CMD_RING_SZ) /\ ~cmd'.on /\ Drained(cmd', CMD_RING_SZ)
  <2>1. cmd' = [cmd EXCEPT !.on = FALSE] BY DEF ctrl_reset
  <2>2. cmd \in RingType(CMD_RING_SZ) /\ Cycled(cmd, CMD_RING_SZ) BY DEF XhciOk, XhciTypes, CommandInv
  <2> QED BY <1>0, <2>1, <2>2, RingOff
<1>7. ASSUME NEW s \in XSlot, NEW ep \in EpName
      PROVE  /\ rings'[s][ep] \in RingType(XFER_RING_SZ) /\ ~rings'[s][ep].on
             /\ ep # "kbd" => Drained(rings'[s][ep], XFER_RING_SZ)
  <2>1. rings'[s][ep] = [rings[s][ep] EXCEPT !.on = FALSE] BY DEF ctrl_reset
  <2>2. rings[s][ep] \in RingType(XFER_RING_SZ) BY DEF XhciOk, XhciTypes
  <2>3. ep # "kbd" => Cycled(rings[s][ep], XFER_RING_SZ) BY DEF XhciOk, TransferInv
  <2> QED BY <1>0, <2>1, <2>2, <2>3, RingOff
<1>8. rings' \in [XSlot -> [EpName -> RingType(XFER_RING_SZ)]]
  <2>1. rings' = [s \in XSlot |-> [e \in EpName |-> [rings[s][e] EXCEPT !.on = FALSE]]] BY DEF ctrl_reset
  <2>2. \A s \in XSlot, e \in EpName : [rings[s][e] EXCEPT !.on = FALSE] \in RingType(XFER_RING_SZ)
    <3>1. \A s \in XSlot, e \in EpName : rings[s][e] \in RingType(XFER_RING_SZ) BY DEF XhciOk, XhciTypes
    <3> QED BY <1>0, <3>1, RingOff
  <2> QED BY <2>1, <2>2
<1>9. XhciTypes' BY <1>4, <1>5, <1>6, <1>8 DEF XhciOk, XhciTypes
<1>10. xi'.at \notin OnSlot /\ xi'.at \notin Requests /\ Owed(xi'.at) = 0
  BY <1>4 DEF OnSlot, Requests, Commands, ControlIn, ControlOut, Bulk, Owed
<1>11. StepInv'
  <2>1. ~xi'.pushed /\ ~xi'.reading BY <1>3, <1>4
  <2>2. \A s \in XSlot, ep \in EpName : ~rings'[s][ep].on BY <1>7
  <2> QED BY <2>1, <2>2, <1>3, <1>5, <1>6, <1>10 DEF XhciOk, StepInv
<1>12. KeyboardInv(K)'
  <2>1. \A s \in XSlot : ~rings'[s]["kbd"].on BY <1>7 DEF EpName
  <2> QED BY <1>5, <1>10, <2>1 DEF XhciOk, KeyboardInv, MaybeDisk
<1>13. Quiet(K)'
  <2>1. Quiet(K) BY <1>3, ToQuiet
  <2>2. Len(sends) >= 0 BY <2>1, <1>1 DEF Quiet, Owed
  <2> QED BY <2>1, <2>2, <1>5, <1>6, <1>7, <1>10 DEF Quiet, FromKeyboard
<1>14. answer'.want = answer'.got BY <1>5 DEF XhciOk
<1> QED BY <1>3, <1>4, <1>9, <1>11, <1>12, <1>13, <1>14, FromQuiet

(* The set-up of a controller: a new command ring.                         *)
LEMMA CtrlInitOk ==
  ASSUME NEW K \in SUBSET XSlot, XhciOk(K), NEW ok \in BOOLEAN, ctrl_init(ok)
  PROVE  XhciOk({})'
<1>0. CMD_RING_SZ \in Nat /\ CMD_RING_SZ > 2 /\ MAX_SLOTS \in Nat BY XhciAssumption
<1>1. xi.at = "init" /\ xi \in XiType BY DEF ctrl_init, XhciOk, XhciTypes
<1>2. xi.at \notin Requests BY <1>1 DEF Requests, Commands, ControlIn, ControlOut, Bulk
<1>3. ~xi.pushed /\ ~xi.reading /\ g_msc_slot = 0 /\ \A s \in XSlot, ep \in EpName : ~rings[s][ep].on
  BY <1>1, <1>2 DEF XhciOk, StepInv, Bulk
<1>4. /\ xi' \in XiType /\ xi'.pushed = xi.pushed /\ xi'.reading = xi.reading
      /\ xi'.at \in {"scan", "idle", "handoff"}
  <2>1. CASE ok
    <3>1. xi' = [xi EXCEPT !.at = "scan"] BY <2>1 DEF ctrl_init
    <3>2. "scan" \in XStep BY DEF XStep
    <3> QED BY <1>1, <3>1, <3>2, XiMoves
  <2>2. CASE ~ok
    <3>1. xi' = NextController(xi) BY <2>2 DEF ctrl_init
    <3> QED BY <1>1, <3>1, XiNext
  <2> QED BY <2>1, <2>2
<1>5. UNCHANGED <<g_msc_slot, ictx, rings, sends, bot, answer>> /\ evt' = <<>> /\ used' = 0 BY DEF ctrl_init, hist
<1>6. cmd' \in RingType(CMD_RING_SZ) /\ Drained(cmd', CMD_RING_SZ)
  <2>1. PICK e : e = EmptyRing(CMD_RING_SZ) OBVIOUS
  <2>2. e \in RingType(CMD_RING_SZ) /\ Cycled(e, CMD_RING_SZ) /\ InRound(e, 0) BY <1>0, <2>1, NewRing
  <2>3. cmd' = [e EXCEPT !.on = ok] BY <2>1 DEF ctrl_init
  <2>4. cmd' \in RingType(CMD_RING_SZ) BY <2>2, <2>3 DEF RingType
  <2>5. /\ cmd'.mem = e.mem /\ cmd'.enq = e.enq /\ cmd'.pcs = e.pcs /\ cmd'.deq = e.deq /\ cmd'.ccs = e.ccs
    BY <2>2, <2>3 DEF RingType
  <2>6. Cycled(cmd', CMD_RING_SZ) BY <2>2, <2>5, CycledSame
  <2>7. Waits(cmd', CMD_RING_SZ, 0) BY <2>2, <2>5 DEF InRound, Waits
  <2> QED BY <2>4, <2>6, <2>7 DEF Drained
<1>7. evt' \in Seq({}) BY <1>5
<1>8. XhciTypes' BY <1>0, <1>4, <1>5, <1>6, <1>7 DEF XhciOk, XhciTypes
<1>9. xi'.at \notin OnSlot /\ xi'.at \notin Requests /\ Owed(xi'.at) = 0
  BY <1>4 DEF OnSlot, Requests, Commands, ControlIn, ControlOut, Bulk, Owed
<1>10. ~xi'.pushed /\ ~xi'.reading BY <1>3, <1>4
<1>11. StepInv' BY <1>3, <1>4, <1>5, <1>9, <1>10 DEF StepInv
<1>12. KeyboardInv({})'
  <2>1. \A s \in XSlot : ~rings'[s]["kbd"].on BY <1>3, <1>5 DEF EpName
  <2> QED BY <1>9, <2>1 DEF KeyboardInv, MaybeDisk
<1>13. Quiet({})'
  <2>1. Quiet(K) BY <1>3, ToQuiet
  <2>2. Len(sends) >= 0 BY <2>1, <1>1 DEF Quiet, Owed
  <2>3. Len(evt') = 0 BY <1>5
  <2> QED BY <2>1, <2>2, <2>3, <1>5, <1>6, <1>9 DEF Quiet
<1>14. answer'.want = answer'.got BY <1>5 DEF XhciOk
<1> QED BY <1>8, <1>10, <1>11, <1>12, <1>13, <1>14, FromQuiet

(* usb_msc_read begins a command of the disk.                              *)
LEMMA ReadOk ==
  ASSUME NEW K \in SUBSET XSlot, XhciOk(K), usb_msc_read
  PROVE  XhciOk(K)'
<1>1. xi.at = "idle" /\ xi \in XiType /\ g_msc_slot # 0 /\ g_msc_slot \in Int BY DEF usb_msc_read, XhciOk, XhciTypes
<1>2. xi' = [xi EXCEPT !.at = "cbw", !.reading = TRUE, !.slot = g_msc_slot] BY DEF usb_msc_read
<1>3. UNCHANGED <<g_msc_slot, cmd, rings, ictx, evt, used, sends, bot, answer>> BY DEF usb_msc_read, drv, dev, hist
<1>4. "cbw" \in XStep BY DEF XStep, Requests, Bulk
<1>5. xi' \in XiType BY <1>1, <1>2, <1>4 DEF XiType
<1>6. xi'.at = "cbw" /\ xi'.slot = g_msc_slot BY <1>1, <1>2 DEF XiType
<1>7. xi.at \notin Requests BY <1>1 DEF Requests, Commands, ControlIn, ControlOut, Bulk
<1>8. ~xi.pushed BY <1>7 DEF XhciOk, StepInv
<1>9. ~xi'.pushed
  <2>1. xi'.pushed = xi.pushed BY <1>1, <1>2 DEF XiType
  <2> QED BY <1>8, <2>1
<1>10. XhciTypes' BY <1>3, <1>5 DEF XhciOk, XhciTypes
<1>11. "cbw" \in Bulk /\ "cbw" \notin {"handoff", "reset", "handoff2", "init"} BY DEF Bulk
<1>12. StepInv'
  <2>1. g_msc_slot \in 1 .. used
    <3>1. g_msc_slot \in 0 .. used /\ used \in Int BY DEF XhciOk, StepInv, XhciTypes
    <3> QED BY <3>1, <1>1
  <2>2. g_msc_slot \in 0 .. used BY DEF XhciOk, StepInv
  <2> QED BY <2>1, <2>2, <1>3, <1>6, <1>9, <1>11 DEF StepInv
<1>13. KeyboardInv(K)'
  <2>1. g_msc_slot \notin K BY DEF XhciOk, KeyboardInv
  <2> QED BY <2>1, <1>3, <1>6 DEF XhciOk, KeyboardInv
<1>14. Owed(xi'.at) = 0 BY <1>6 DEF Owed
<1>15. Quiet(K)' BY <1>3, <1>8, <1>14, ToQuiet, QuietSame
<1>16. answer'.want = answer'.got BY <1>3 DEF XhciOk
<1> QED BY <1>9, <1>10, <1>12, <1>13, <1>15, <1>16, FromQuiet

(* The end of a command of the disk: the driver goes on, or is idle.       *)
LEMMA EndCommandOk ==
  ASSUME NEW K \in SUBSET XSlot, XhciOk(K), EndCommand
  PROVE  XhciOk(K)'
<1>1. xi.at \in {"status", "failed"} /\ xi \in XiType BY DEF EndCommand, XhciOk, XhciTypes
<1>2. PICK a : a = IF xi.reading THEN "idle" ELSE "scan" OBVIOUS
<1>3. PICK t \in Nat : t = xi.tag + 1 BY <1>1 DEF XiType
<1>4. xi' = [xi EXCEPT !.at = a, !.tag = t] BY <1>2, <1>3 DEF EndCommand
<1>5. a \in XStep BY <1>2 DEF XStep
<1>6. xi' \in XiType BY <1>1, <1>4, <1>5 DEF XiType
<1>7. xi'.at = a BY <1>1, <1>4 DEF XiType
<1>8. xi'.pushed = xi.pushed /\ xi'.reading = xi.reading BY <1>1, <1>4 DEF XiType
<1>9. xi.at \notin Requests /\ xi.at \in MaybeDisk /\ xi.at \in OnSlot
  BY <1>1 DEF Requests, Commands, ControlIn, ControlOut, Bulk, MaybeDisk, OnSlot
<1>10. ~xi.pushed /\ ~xi'.pushed BY <1>8, <1>9 DEF XhciOk, StepInv
<1>11. UNCHANGED <<cmd, rings, ictx, evt, used, sends, bot>> BY DEF EndCommand, dev
<1>12. g_msc_slot' \in {g_msc_slot, xi.slot} BY DEF EndCommand
<1>13. xi.slot \in 1 .. used /\ xi.slot \notin K /\ used \in Nat BY <1>9 DEF XhciOk, StepInv, KeyboardInv, XhciTypes
<1>14. g_msc_slot' \in 0 .. used /\ g_msc_slot' \in Int /\ g_msc_slot' \notin K
  BY <1>12, <1>13 DEF XhciOk, StepInv, KeyboardInv, XhciTypes
<1>15. DOMAIN answer' = DOMAIN answer /\ answer'.want = answer'.got
  <2>0. DOMAIN answer = {"want", "got", "read", "data"} /\ answer.want = answer.got BY DEF XhciOk, XhciTypes
  <2>1. CASE xi.reading
    <3>1. PICK x, y : answer' = [answer EXCEPT !.read = x, !.data = y] BY <2>1 DEF EndCommand
    <3> QED BY <2>0, <3>1
  <2>2. CASE ~xi.reading
    <3>1. answer' = answer BY <2>2 DEF EndCommand
    <3> QED BY <2>0, <3>1
  <2> QED BY <2>1, <2>2
<1>16. XhciTypes' BY <1>6, <1>11, <1>14, <1>15 DEF XhciOk, XhciTypes
<1>17. a \notin OnSlot /\ a \notin {"handoff", "reset", "handoff2", "init"} /\ Owed(a) = 0
  BY <1>2 DEF Requests, Commands, ControlIn, ControlOut, Bulk, OnSlot, Owed
<1>18. StepInv'
  <2>1. xi'.reading => xi'.at = "idle" BY <1>2, <1>7, <1>8
  <2> QED BY <2>1, <1>7, <1>10, <1>11, <1>14, <1>17 DEF StepInv
<1>19. KeyboardInv(K)' BY <1>7, <1>11, <1>14, <1>17 DEF XhciOk, KeyboardInv, MaybeDisk
<1>20. Quiet(K)' BY <1>7, <1>10, <1>11, <1>17, ToQuiet, QuietSame
<1> QED BY <1>10, <1>15, <1>16, <1>18, <1>19, <1>20, FromQuiet

(* The rings after a step that touches those of the keyboards only, and    *)
(* there only what the driver has written.                                 *)
LEMMA KeyboardRings ==
  ASSUME NEW K, KeyboardInv(K), StepInv, rings' \in [XSlot -> [EpName -> RingType(XFER_RING_SZ)]],
         \A s \in XSlot : rings'[s]["kbd"].on = rings[s]["kbd"].on,
         \A s \in XSlot, ep \in EpName \ {"kbd"} : rings'[s][ep] = rings[s][ep],
         UNCHANGED <<used, g_msc_slot>>
  PROVE  /\ \A s \in XSlot : rings'[s]["kbd"].on => s \in K
         /\ (\A s \in XSlot, ep \in EpName : ~rings[s][ep].on) => \A s \in XSlot, ep \in EpName : ~rings'[s][ep].on
<1>1. \A s \in XSlot : rings'[s]["kbd"].on => s \in K BY DEF KeyboardInv
<1>2. ASSUME NEW s \in XSlot, NEW ep \in EpName, ~rings[s][ep].on PROVE ~rings'[s][ep].on
  BY <1>2
<1> QED BY <1>1, <1>2

(* The first reports asked of a keyboard.                                  *)
LEMMA KeyboardReadyOk ==
  ASSUME NEW K \in SUBSET XSlot, XhciOk(K), keyboard_ready
  PROVE  XhciOk(K)'
<1>0. XFER_RING_SZ \in Nat /\ XFER_RING_SZ > 2 /\ MAX_SLOTS \in Nat BY XhciAssumption
<1>1. xi.at = "kready" /\ xi \in XiType /\ xi' = [xi EXCEPT !.at = "scan"] BY DEF keyboard_ready, XhciOk, XhciTypes
<1>2. "scan" \in XStep BY DEF XStep
<1>3. xi' \in XiType /\ xi'.at = "scan" /\ xi'.pushed = xi.pushed /\ xi'.reading = xi.reading BY <1>1, <1>2, XiMoves
<1>4. xi.at \notin Requests /\ xi.at \in OnSlot BY <1>1 DEF Requests, Commands, ControlIn, ControlOut, Bulk, OnSlot
<1>5. ~xi.pushed /\ ~xi.reading BY <1>1, <1>4 DEF XhciOk, StepInv, Bulk
<1>6. UNCHANGED <<g_msc_slot, cmd, ictx, evt, used, sends, bot, answer>> BY DEF keyboard_ready, dev, hist
<1>7. xi.slot \in XSlot /\ xi.slot \in Int
  <2>1. xi.slot \in 1 .. used /\ used \in 0 .. MAX_SLOTS BY <1>4 DEF XhciOk, StepInv, XhciTypes
  <2> QED BY <1>0, <2>1 DEF XSlot
<1>8. PICK r : r = rings[xi.slot]["kbd"] OBVIOUS
<1>9. PICK q : q = push(r, "report", xi.slot, TRUE) OBVIOUS
<1>10. rings \in [XSlot -> [EpName -> RingType(XFER_RING_SZ)]] /\ "kbd" \in EpName BY DEF XhciOk, XhciTypes, EpName
<1>11. r \in RingType(XFER_RING_SZ) BY <1>7, <1>8, <1>10
<1>12. q \in RingType(XFER_RING_SZ) /\ q.on = r.on
  <2>1. "report" \in TrbOp BY DEF TrbOp
  <2>2. PICK b \in BOOLEAN : b = TRUE OBVIOUS
  <2>3. PICK n \in Int : n = xi.slot BY <1>7
  <2>4. q = push(r, "report", n, b) BY <1>9, <2>2, <2>3
  <2> QED BY <2>1, <2>4, <1>0, <1>11, PushType
<1>13. rings' = [rings EXCEPT ![xi.slot]["kbd"] = q] BY <1>8, <1>9 DEF keyboard_ready
<1>14. rings' \in [XSlot -> [EpName -> RingType(XFER_RING_SZ)]] BY <1>7, <1>10, <1>12, <1>13
<1>15. \A s \in XSlot, ep \in EpName : rings'[s][ep] = IF s = xi.slot /\ ep = "kbd" THEN q ELSE rings[s][ep]
  BY <1>7, <1>10, <1>13
<1>16. \A s \in XSlot : rings'[s]["kbd"].on => s \in K
  <2>1. \A s \in XSlot : rings'[s]["kbd"].on = rings[s]["kbd"].on BY <1>8, <1>10, <1>12, <1>15
  <2> QED BY <2>1 DEF XhciOk, KeyboardInv
<1>17. XhciTypes' BY <1>3, <1>6, <1>14 DEF XhciOk, XhciTypes
<1>18. "scan" \notin OnSlot /\ Owed("scan") = 0 BY DEF Requests, Commands, ControlIn, ControlOut, Bulk, OnSlot, Owed
<1>19. ~xi'.pushed /\ ~xi'.reading BY <1>3, <1>5
<1>20. StepInv' BY <1>3, <1>6, <1>18, <1>19 DEF XhciOk, StepInv
<1>21. KeyboardInv(K)' BY <1>3, <1>6, <1>16, <1>18 DEF XhciOk, KeyboardInv, MaybeDisk
<1>22. Quiet(K)'
  <2>1. Quiet(K) BY <1>5, ToQuiet
  <2>2. \A s \in XSlot, ep \in EpName \ {"kbd"} : rings'[s][ep] = rings[s][ep] BY <1>15
  <2>3. Len(sends) >= 0 BY <2>1, <1>1 DEF Quiet, Owed
  <2> QED BY <2>1, <2>2, <2>3, <1>3, <1>6, <1>18 DEF Quiet, FromKeyboard
<1>23. answer'.want = answer'.got BY <1>6 DEF XhciOk
<1> QED BY <1>17, <1>19, <1>20, <1>21, <1>22, <1>23, FromQuiet

(* xhci_poll takes reports away and asks for as many.                      *)
LEMMA PollOk ==
  ASSUME NEW K \in SUBSET XSlot, XhciOk(K), xhci_poll
  PROVE  XhciOk(K)'
<1>0. XFER_RING_SZ \in Nat /\ XFER_RING_SZ > 2 /\ MAX_SLOTS \in Nat BY XhciAssumption
<1>1. UNCHANGED <<xi, g_msc_slot, cmd, ictx, used, sends, bot, answer>> /\ evt' = <<>> BY DEF xhci_poll, drv, dev, hist
<1> DEFINE hit(s) == {i \in 1 .. Len(evt) : IsReport(evt[i]) /\ evt[i].slot = s}
           q(s) == push_all(rings[s]["kbd"], "report", s, [i \in 1 .. Cardinality(hit(s)) |-> TRUE])
<1>2. rings' = [s \in XSlot |-> [rings[s] EXCEPT !["kbd"] = q(s)]] BY DEF xhci_poll
<1>3. rings \in [XSlot -> [EpName -> RingType(XFER_RING_SZ)]] /\ "kbd" \in EpName BY DEF XhciOk, XhciTypes, EpName
<1>4. ASSUME NEW s \in XSlot PROVE q(s) \in RingType(XFER_RING_SZ) /\ q(s).on = rings[s]["kbd"].on
  <2>1. Cardinality(hit(s)) \in Nat
    <3>1. Len(evt) \in Nat BY LenProperties DEF XhciOk, XhciTypes
    <3>2. IsFiniteSet(1 .. Len(evt)) BY <3>1, FS_Interval
    <3>3. IsFiniteSet(hit(s)) BY <3>2, FS_Subset
    <3> QED BY <3>3, FS_CardinalityType
  <2> HIDE DEF hit
  <2>2. PICK n \in Nat : n = Cardinality(hit(s)) BY <2>1
  <2>3. [i \in 1 .. n |-> TRUE] \in Seq(BOOLEAN)
    <3>1. [i \in 1 .. n |-> TRUE] \in [1 .. n -> BOOLEAN] OBVIOUS
    <3> QED BY <3>1, FunctionIsSeq
  <2>4. "report" \in TrbOp /\ s \in Int BY <1>0 DEF TrbOp, XSlot
  <2>5. rings[s]["kbd"] \in RingType(XFER_RING_SZ) BY <1>3
  <2> QED BY <2>2, <2>3, <2>4, <2>5, <1>0, PushAllType
<1> HIDE DEF q
<1>5. rings' \in [XSlot -> [EpName -> RingType(XFER_RING_SZ)]] BY <1>2, <1>3, <1>4
<1>6. \A s \in XSlot, ep \in EpName : rings'[s][ep] = IF ep = "kbd" THEN q(s) ELSE rings[s][ep] BY <1>2, <1>3
<1>7. \A s \in XSlot : rings'[s]["kbd"].on = rings[s]["kbd"].on BY <1>3, <1>4, <1>6
<1>8. \A s \in XSlot, ep \in EpName \ {"kbd"} : rings'[s][ep] = rings[s][ep] BY <1>6
<1>9. XhciTypes'
  <2>1. evt' \in Seq({}) BY <1>1
  <2> QED BY <2>1, <1>1, <1>5 DEF XhciOk, XhciTypes
<1>10. /\ \A s \in XSlot : rings'[s]["kbd"].on => s \in K
       /\ (\A s \in XSlot, ep \in EpName : ~rings[s][ep].on) => \A s \in XSlot, ep \in EpName : ~rings'[s][ep].on
  BY <1>1, <1>5, <1>7, <1>8, KeyboardRings DEF XhciOk
<1>11. StepInv' BY <1>1, <1>10 DEF XhciOk, StepInv
<1>12. KeyboardInv(K)' BY <1>1, <1>10 DEF XhciOk, KeyboardInv
<1>13. Len(evt') = 0 BY <1>1
<1>14. EventInv(K)' BY <1>13 DEF EventInv
<1>15. OwedInv' BY <1>1, <1>13 DEF XhciOk, OwedInv
<1>16. Unanswered' BY <1>13 DEF Unanswered
<1>17. CommandInv'
  <2>1. CASE Drained(cmd, CMD_RING_SZ) BY <2>1, <1>1 DEF XhciOk, CommandInv
  <2>2. CASE CommandWaits
    <3>1. xi.at \notin {"enable", "kconf"} => rings'[xi.slot][ictx.ep] = rings[xi.slot][ictx.ep]
      <4>1. SUFFICES ASSUME xi.at \notin {"enable", "kconf"} PROVE rings'[xi.slot][ictx.ep] = rings[xi.slot][ictx.ep]
        OBVIOUS
      <4>2. ictx.ep \in EpName \ {"kbd"} BY <4>1, <2>2 DEF CommandWaits, ContextOf, EpName
      <4>3. xi.at \in OnSlot BY <4>1, <2>2 DEF CommandWaits, OnSlot, Requests
      <4>4. xi.slot \in XSlot
        <5>1. xi.slot \in 1 .. used /\ used \in 0 .. MAX_SLOTS BY <4>3 DEF XhciOk, StepInv, XhciTypes
        <5> QED BY <1>0, <5>1 DEF XSlot
      <4> QED BY <4>2, <4>4, <1>8
    <3>2. CommandWaits' BY <2>2, <3>1, <1>1, <1>16 DEF CommandWaits
    <3> QED BY <3>2, <1>1 DEF XhciOk, CommandInv
  <2> QED BY <2>1, <2>2 DEF XhciOk, CommandInv
<1>18. TransferInv'
  <2> SUFFICES ASSUME NEW s \in XSlot, NEW ep \in EpName \ {"kbd"}
               PROVE  (Cycled(rings[s][ep], XFER_RING_SZ) /\ (Drained(rings[s][ep], XFER_RING_SZ) \/ TransferWaits(s, ep)))'
    BY DEF TransferInv
  <2>1. Cycled(rings[s][ep], XFER_RING_SZ) /\ (Drained(rings[s][ep], XFER_RING_SZ) \/ TransferWaits(s, ep))
    BY DEF XhciOk, TransferInv
  <2>2. rings'[s][ep] = rings[s][ep] BY <1>8
  <2> QED BY <2>1, <2>2, <1>1, <1>16 DEF TransferWaits
<1> QED BY <1>1, <1>9, <1>11, <1>12, <1>14, <1>15, <1>17, <1>18 DEF XhciOk

(* The events after one is put at the end, and after the first is taken.   *)
LEMMA EvtAppend ==
  ASSUME NEW s, \E S : s \in Seq(S), NEW e, NEW t, t = Append(s, e)
  PROVE  /\ \E S : t \in Seq(S)
         /\ Len(s) \in Nat /\ Len(t) = Len(s) + 1 /\ t[Len(s) + 1] = e
         /\ \A i \in 1 .. Len(s) : t[i] = s[i]
<1>1. PICK S : s \in Seq(S) OBVIOUS
<1>2. PICK T : T = S \cup {e} OBVIOUS
<1>3. s \in Seq(T) /\ e \in T
  <2>1. Len(s) \in Nat /\ s \in [1 .. Len(s) -> S] BY <1>1, LenProperties
  <2>2. s \in [1 .. Len(s) -> T] BY <1>2, <2>1
  <2> QED BY <1>2, <2>1, <2>2, FunctionIsSeq
<1>4. t \in Seq(T) /\ Len(t) = Len(s) + 1 /\ t[Len(s) + 1] = e /\ \A i \in 1 .. Len(s) : t[i] = s[i]
  BY <1>3, AppendProperties
<1>5. Len(s) \in Nat BY <1>1, LenProperties
<1> QED BY <1>4, <1>5

(* The events after the first is taken.                                    *)
LEMMA EvtTail ==
  ASSUME NEW s, \E S : s \in Seq(S), s # <<>>, NEW t, t = Tail(s)
  PROVE  /\ \E S : t \in Seq(S)
         /\ Len(s) \in Nat /\ Len(s) > 0 /\ Len(t) = Len(s) - 1 /\ Head(s) = s[1]
         /\ \A i \in 1 .. Len(t) : t[i] = s[i + 1]
<1>1. PICK S : s \in Seq(S) OBVIOUS
<1>2. Len(s) \in Nat /\ Len(s) > 0 BY <1>1, LenProperties, EmptySeq
<1>3. t \in Seq(S) /\ Len(t) = Len(s) - 1 /\ \A i \in 1 .. Len(t) : t[i] = s[i + 1]
  BY <1>1, HeadTailProperties
<1> QED BY <1>1, <1>2, <1>3

(* No wait accepts the report of a keyboard.                               *)
LEMMA ReportRefused ==
  ASSUME NEW K, XhciOk(K), xi.at \in Requests, NEW e, FromKeyboard(K, e)
  PROVE  ~Accepts(e)
<1>1. CASE xi.at \in Commands BY <1>1 DEF Accepts, FromKeyboard
<1>2. CASE xi.at \notin Commands
  <2>1. xi.at \in MaybeDisk BY <1>2 DEF MaybeDisk, OnSlot, Requests, Commands, ControlIn, ControlOut, Bulk
  <2>2. xi.slot \notin K BY <2>1 DEF XhciOk, KeyboardInv
  <2> QED BY <1>2, <2>2 DEF Accepts, FromKeyboard
<1> QED BY <1>1, <1>2

(* A request: the driver waits from now on.                                *)
LEMMA XiPushes ==
  ASSUME NEW x \in XiType, NEW y, y = [x EXCEPT !.pushed = TRUE]
  PROVE  y \in XiType /\ y.at = x.at /\ y.slot = x.slot /\ y.pushed /\ y.reading = x.reading
<1>1. y \in XiType BY DEF XiType
<1>2. y.at = x.at /\ y.slot = x.slot BY DEF XiType
<1>3. y.pushed BY DEF XiType
<1>4. y.reading = x.reading BY DEF XiType
<1> QED BY <1>1, <1>2, <1>3, <1>4

(* No event before the request is taken for its answer.                    *)
LEMMA PushedUnanswered ==
  ASSUME NEW K, XhciOk(K), Quiet(K), xi.at \in Requests, xi'.at = xi.at, xi'.slot = xi.slot, evt' = evt
  PROVE  /\ Unanswered'
         /\ \A i \in 1 .. Len(evt') : FromKeyboard(K, evt'[i]) /\ ~Own(evt[i])'
<1>1. ASSUME NEW i \in 1 .. Len(evt) PROVE FromKeyboard(K, evt[i]) /\ ~Own(evt[i])'
  <2>1. FromKeyboard(K, evt[i]) BY DEF Quiet
  <2>2. ~Accepts(evt[i]) BY <2>1, ReportRefused
  <2>3. ~Accepts(evt[i])' BY <2>2 DEF Accepts
  <2> QED BY <2>1, <2>3 DEF Own
<1> QED BY <1>1 DEF Unanswered

(* The slot of a step on a device is one in use.                           *)
LEMMA SlotType ==
  ASSUME NEW K, XhciOk(K), xi.at \in OnSlot
  PROVE  xi.slot \in XSlot /\ xi.slot \in 1 .. used
<1>1. xi.slot \in 1 .. used /\ used \in 0 .. MAX_SLOTS BY DEF XhciOk, StepInv, XhciTypes
<1>2. MAX_SLOTS \in Nat BY XhciAssumption
<1> QED BY <1>1, <1>2 DEF XSlot

(* A command is pushed on the empty command ring.                          *)
LEMMA PushCommandOk ==
  ASSUME NEW K \in SUBSET XSlot, XhciOk(K), PushCommand
  PROVE  XhciOk(K)'
<1>0. CMD_RING_SZ \in Nat /\ CMD_RING_SZ > 2 /\ XFER_RING_SZ \in Nat /\ XFER_RING_SZ > 2 BY XhciAssumption
<1>1. xi.at \in Commands /\ ~xi.pushed /\ xi \in XiType /\ xi' = [xi EXCEPT !.pushed = TRUE]
  BY DEF PushCommand, XhciOk, XhciTypes
<1>2. xi' \in XiType /\ xi'.at = xi.at /\ xi'.slot = xi.slot /\ xi'.pushed /\ xi'.reading = xi.reading
  BY <1>1, XiPushes
<1>3. UNCHANGED <<g_msc_slot, evt, used, sends, bot, answer>> BY DEF PushCommand, drv, dev, hist
<1>4. Quiet(K) BY <1>1, ToQuiet
<1>5. xi.at \in Requests /\ xi.at \notin Bulk /\ xi.slot \in Int BY <1>1 DEF Requests, Commands, Bulk, XiType
<1>6. /\ cmd \in RingType(CMD_RING_SZ) /\ Cycled(cmd, CMD_RING_SZ) /\ (cmd.on => Waits(cmd, CMD_RING_SZ, 0))
      /\ rings \in [XSlot -> [EpName -> RingType(XFER_RING_SZ)]]
  BY <1>4 DEF Quiet, Drained, XhciOk, XhciTypes
<1>7. /\ cmd' \in RingType(CMD_RING_SZ) /\ Cycled(cmd', CMD_RING_SZ) /\ cmd'.on = cmd.on
      /\ cmd.on => Loaded(cmd', CMD_RING_SZ, 1, 1, xi.at, xi.slot)
  <2>1. PICK b \in BOOLEAN : b = TRUE OBVIOUS
  <2>2. PICK s \in Int : s = xi.slot BY <1>5
  <2>3. PICK op \in TrbOp \ {"link"} : op = xi.at BY <1>1, <1>5 DEF TrbOp, Commands
  <2>4. cmd' = push(cmd, op, s, b) BY <2>1, <2>2, <2>3 DEF PushCommand
  <2>5. cmd.on => Loaded(cmd, CMD_RING_SZ, 0, 1, op, s) BY <1>6 DEF Loaded
  <2>6. 0 + 2 < CMD_RING_SZ /\ 0 + 1 = 1 /\ (b <=> 0 + 1 = 1) BY <1>0, <2>1
  <2>7. /\ cmd' \in RingType(CMD_RING_SZ) /\ cmd'.on = cmd.on /\ Cycled(cmd', CMD_RING_SZ)
        /\ \A n \in Nat, m \in Nat : n + 2 < CMD_RING_SZ /\ Loaded(cmd, CMD_RING_SZ, n, m, op, s) /\ (b <=> n + 1 = m)
             => Loaded(cmd', CMD_RING_SZ, n + 1, m, op, s)
    BY <1>0, <1>6, <2>4, PushLoads
  <2>8. cmd.on => Loaded(cmd', CMD_RING_SZ, 0 + 1, 1, op, s) BY <2>5, <2>6, <2>7
  <2> QED BY <2>2, <2>3, <2>7, <2>8
<1> DEFINE ep == ContextOf(xi.at)
<1>8. /\ xi.at = "enable" => ictx' = ictx
      /\ xi.at \in {"bsr", "address"} => ictx' = [ep |-> "ep0", deq |-> rings[xi.slot]["ep0"].enq, ccs |-> rings[xi.slot]["ep0"].pcs]
      /\ xi.at \in {"mout", "min", "kconf"} => ictx' = [ep |-> ep, deq |-> 0, ccs |-> 1]
      /\ rings' = IF ep \in {"out", "in"} THEN [rings EXCEPT ![xi.slot][ep] = EmptyRing(XFER_RING_SZ)] ELSE rings
  BY <1>1 DEF PushCommand, ContextOf, ep0_deq, configure_bulk_ep, Commands
<1>9. /\ xi.at \in {"enable", "bsr", "address"} => ep = "ep0"
      /\ xi.at = "kconf" => ep = "kbd"
      /\ xi.at = "mout" => ep = "out"
      /\ xi.at = "min" => ep = "in"
      /\ ep \in EpName
  BY DEF ContextOf, EpName
<1> HIDE DEF ep
<1>10. xi.at # "enable" => xi.slot \in XSlot
  <2>1. xi.at # "enable" => xi.at \in OnSlot BY <1>5 DEF OnSlot
  <2> QED BY <2>1, SlotType
<1>11. PICK e : e = EmptyRing(XFER_RING_SZ) OBVIOUS
<1>12. e \in RingType(XFER_RING_SZ) /\ Cycled(e, XFER_RING_SZ) /\ e.enq = 0 /\ e.pcs = 1 /\ e.on = FALSE
  BY <1>0, <1>11, NewRing
<1>13. /\ rings' \in [XSlot -> [EpName -> RingType(XFER_RING_SZ)]]
       /\ \A s \in XSlot, x \in EpName :
            rings'[s][x] = IF s = xi.slot /\ x = ep /\ ep \in {"out", "in"} THEN e ELSE rings[s][x]
  <2>1. CASE ep \in {"out", "in"}
    <3>1. rings' = [rings EXCEPT ![xi.slot][ep] = e] /\ xi.slot \in XSlot BY <2>1, <1>1, <1>8, <1>9, <1>10, <1>11
    <3> QED BY <3>1, <2>1, <1>6, <1>9, <1>12
  <2>2. CASE ep \notin {"out", "in"}
    <3>1. rings' = rings BY <2>2, <1>8
    <3> QED BY <3>1, <2>2, <1>6
  <2> QED BY <2>1, <2>2
<1>14. ictx' \in [ep: EpName, deq: Nat, ccs: Int]
  <2>1. CASE xi.at = "enable" BY <2>1, <1>8 DEF XhciOk, XhciTypes
  <2>2. CASE xi.at \in {"bsr", "address"}
    <3>1. rings[xi.slot]["ep0"] \in RingType(XFER_RING_SZ) BY <2>2, <1>6, <1>10 DEF EpName
    <3>2. rings[xi.slot]["ep0"].enq \in Nat /\ rings[xi.slot]["ep0"].pcs \in Int BY <3>1 DEF RingType
    <3> QED BY <2>2, <3>2, <1>8 DEF EpName
  <2>3. CASE xi.at \in {"mout", "min", "kconf"} BY <2>3, <1>8, <1>9
  <2> QED BY <1>1, <2>1, <2>2, <2>3 DEF Commands
<1>15. XhciTypes' BY <1>2, <1>3, <1>7, <1>13, <1>14 DEF XhciOk, XhciTypes
<1>16. \A s \in XSlot : rings'[s]["kbd"] = rings[s]["kbd"] BY <1>13 DEF EpName
<1>17. KeyboardInv(K)' BY <1>2, <1>3, <1>16 DEF XhciOk, KeyboardInv
<1>18. StepInv'
  <2>1. xi.at \notin {"handoff2", "init", "handoff", "reset"} BY <1>1 DEF Commands
  <2> QED BY <2>1, <1>2, <1>3, <1>5 DEF XhciOk, StepInv
<1>19. Unanswered' /\ \A i \in 1 .. Len(evt') : FromKeyboard(K, evt'[i]) /\ ~Own(evt[i])'
  BY <1>2, <1>3, <1>4, <1>5, PushedUnanswered
<1>20. EventInv(K)' BY <1>19 DEF EventInv
<1>21. OwedInv'
  <2>1. xi.at # "cbw" BY <1>1 DEF Commands
  <2> QED BY <1>2, <1>19, <2>1 DEF OwedInv
<1>22. CommandInv'
  <2>1. CASE cmd.on
    <3>1. xi.at # "enable" => ictx'.ep = ContextOf(xi.at) BY <1>1, <1>8, <1>9 DEF Commands, ep
    <3>2. xi.at \notin {"enable", "kconf"} =>
            ictx'.deq = rings'[xi.slot][ictx'.ep].enq /\ ictx'.ccs = rings'[xi.slot][ictx'.ep].pcs
      <4>1. CASE xi.at \in {"bsr", "address"}
        <5>1. rings'[xi.slot]["ep0"] = rings[xi.slot]["ep0"] BY <4>1, <1>10, <1>13 DEF EpName
        <5> QED BY <4>1, <5>1, <1>8
      <4>2. CASE xi.at \in {"mout", "min"}
        <5>1. rings'[xi.slot][ep] = e BY <4>2, <1>9, <1>10, <1>13
        <5>2. ictx'.ep = ep /\ ictx'.deq = 0 /\ ictx'.ccs = 1 BY <4>2, <1>8
        <5> QED BY <5>1, <5>2, <1>12
      <4> QED BY <1>1, <4>1, <4>2 DEF Commands
    <3>3. CommandWaits' BY <2>1, <3>1, <3>2, <1>1, <1>2, <1>7, <1>19 DEF CommandWaits
    <3> QED BY <3>3, <1>7 DEF CommandInv
  <2>2. CASE ~cmd.on
    <3>1. ~cmd'.on BY <2>2, <1>7
    <3> QED BY <3>1, <1>7 DEF CommandInv, Drained
  <2> QED BY <2>1, <2>2
<1>23. TransferInv'
  <2> SUFFICES ASSUME NEW s \in XSlot, NEW x \in EpName \ {"kbd"}
               PROVE  Drained(rings'[s][x], XFER_RING_SZ)
    BY DEF TransferInv, Drained
  <2>1. Drained(rings[s][x], XFER_RING_SZ) BY <1>4 DEF Quiet
  <2>2. Drained(e, XFER_RING_SZ) BY <1>12 DEF Drained
  <2>3. rings'[s][x] = e \/ rings'[s][x] = rings[s][x] BY <1>13
  <2> QED BY <2>1, <2>2, <2>3
<1>24. answer'.want = answer'.got BY <1>3 DEF XhciOk
<1> QED BY <1>15, <1>17, <1>18, <1>20, <1>21, <1>22, <1>23, <1>24 DEF XhciOk

(* The TRBs of a transfer.                                                 *)
LEMMA TrbsShape ==
  ASSUME NEW step
  PROVE  /\ Trbs(step) \in Seq(BOOLEAN) /\ Len(Trbs(step)) \in 1 .. 3
         /\ \A k \in 1 .. Len(Trbs(step)) : Trbs(step)[k] <=> k = Len(Trbs(step))
<1>b. PICK b \in BOOLEAN : b = FALSE OBVIOUS
<1>c. PICK c \in BOOLEAN : c = TRUE OBVIOUS
<1>1. CASE step \in ControlIn
  <2>1. Trbs(step) = <<FALSE, FALSE, TRUE>> BY <1>1 DEF Trbs
  <2>2. PICK T : T = <<b, b, c>> OBVIOUS
  <2>3. Trbs(step) = T BY <2>1, <2>2, <1>b, <1>c
  <2>4. T \in Seq(BOOLEAN) /\ Len(T) = 3 BY <2>2
  <2>5. T[1] = b /\ T[2] = b /\ T[3] = c BY <2>2
  <2>6. \A k \in 1 .. 3 : T[k] <=> k = 3
    <3> SUFFICES ASSUME NEW k \in 1 .. 3 PROVE T[k] <=> k = 3 OBVIOUS
    <3>1. k = 1 \/ k = 2 \/ k = 3 OBVIOUS
    <3> QED BY <3>1, <2>5, <1>b, <1>c
  <2> QED BY <2>3, <2>4, <2>6
<1>2. CASE step \notin ControlIn /\ step \in ControlOut
  <2>1. Trbs(step) = <<FALSE, TRUE>> BY <1>2 DEF Trbs
  <2>2. PICK T : T = <<b, c>> OBVIOUS
  <2>3. Trbs(step) = T BY <2>1, <2>2, <1>b, <1>c
  <2>4. T \in Seq(BOOLEAN) /\ Len(T) = 2 BY <2>2
  <2>5. T[1] = b /\ T[2] = c BY <2>2
  <2>6. \A k \in 1 .. 2 : T[k] <=> k = 2
    <3> SUFFICES ASSUME NEW k \in 1 .. 2 PROVE T[k] <=> k = 2 OBVIOUS
    <3>1. k = 1 \/ k = 2 OBVIOUS
    <3> QED BY <3>1, <2>5, <1>b, <1>c
  <2> QED BY <2>3, <2>4, <2>6
<1>3. CASE step \notin ControlIn /\ step \notin ControlOut
  <2>1. Trbs(step) = <<TRUE>> BY <1>3 DEF Trbs
  <2>2. PICK T : T = <<c>> OBVIOUS
  <2>3. Trbs(step) = T BY <2>1, <2>2, <1>b, <1>c
  <2>4. T \in Seq(BOOLEAN) /\ Len(T) = 1 BY <2>2
  <2>5. T[1] = c BY <2>2
  <2>6. \A k \in 1 .. 1 : T[k] <=> k = 1
    <3> SUFFICES ASSUME NEW k \in 1 .. 1 PROVE T[k] <=> k = 1 OBVIOUS
    <3>1. k = 1 OBVIOUS
    <3> QED BY <3>1, <2>5, <1>b, <1>c
  <2> QED BY <2>3, <2>4, <2>6
<1> QED BY <1>1, <1>2, <1>3

(* A transfer is pushed on an empty ring of its endpoint.                  *)
LEMMA PushTransferOk ==
  ASSUME NEW K \in SUBSET XSlot, XhciOk(K), PushTransfer
  PROVE  XhciOk(K)'
<1>0. XFER_RING_SZ \in Nat /\ XFER_RING_SZ > 4 BY XhciAssumption
<1>1. xi.at \in Requests \ Commands /\ ~xi.pushed /\ xi \in XiType /\ xi' = [xi EXCEPT !.pushed = TRUE]
  BY DEF PushTransfer, XhciOk, XhciTypes
<1>2. xi' \in XiType /\ xi'.at = xi.at /\ xi'.slot = xi.slot /\ xi'.pushed /\ xi'.reading = xi.reading
  BY <1>1, XiPushes
<1>3. UNCHANGED <<g_msc_slot, cmd, ictx, evt, used, sends, answer>> BY DEF PushTransfer, drv, dev, hist
<1>4. Quiet(K) BY <1>1, ToQuiet
<1>5. xi.at \in OnSlot /\ xi.slot \in Int /\ xi.at \notin {"handoff2", "init", "handoff", "reset"}
  BY <1>1 DEF OnSlot, Requests, Commands, ControlIn, ControlOut, Bulk, XiType
<1>6. xi.slot \in XSlot BY <1>5, SlotType
<1>7. PICK ep \in EpName \ {"kbd"} : ep = EndpointOf(xi.at) BY DEF EndpointOf, EpName
<1>8. PICK r : r = rings[xi.slot][ep] OBVIOUS
<1>9. rings \in [XSlot -> [EpName -> RingType(XFER_RING_SZ)]] BY DEF XhciOk, XhciTypes
<1>10. r \in RingType(XFER_RING_SZ) /\ Cycled(r, XFER_RING_SZ) /\ (r.on => Waits(r, XFER_RING_SZ, 0))
  BY <1>4, <1>6, <1>7, <1>8, <1>9 DEF Quiet, Drained
<1>11. PICK q : q = push_all(r, xi.at, xi.slot, Trbs(xi.at)) OBVIOUS
<1>12. /\ q \in RingType(XFER_RING_SZ) /\ q.on = r.on /\ Cycled(q, XFER_RING_SZ)
       /\ r.on => Loaded(q, XFER_RING_SZ, Len(Trbs(xi.at)), Len(Trbs(xi.at)), xi.at, xi.slot)
  <2>1. xi.at \in TrbOp \ {"link"} BY <1>1 DEF TrbOp, Requests, Commands, ControlIn, ControlOut, Bulk
  <2>2. PICK iocs \in Seq(BOOLEAN) : iocs = Trbs(xi.at) BY TrbsShape
  <2>3. Len(iocs) \in 1 .. 3 /\ \A k \in 1 .. Len(iocs) : iocs[k] <=> k = Len(iocs) BY <2>2, TrbsShape
  <2>4. /\ q \in RingType(XFER_RING_SZ) /\ q.on = r.on /\ Cycled(q, XFER_RING_SZ)
        /\ Waits(r, XFER_RING_SZ, 0) => Loaded(q, XFER_RING_SZ, Len(iocs), Len(iocs), xi.at, xi.slot)
    BY <2>1, <2>2, <2>3, <1>0, <1>5, <1>10, <1>11, PushAllLoads
  <2> QED BY <2>2, <2>4, <1>10
<1>13. rings' = [rings EXCEPT ![xi.slot][ep] = q] BY <1>7, <1>8, <1>11 DEF PushTransfer
<1>14. /\ rings' \in [XSlot -> [EpName -> RingType(XFER_RING_SZ)]]
       /\ \A s \in XSlot, x \in EpName : rings'[s][x] = IF s = xi.slot /\ x = ep THEN q ELSE rings[s][x]
  BY <1>6, <1>7, <1>9, <1>12, <1>13
<1>15. bot' \in [cbw: Nat, asks: BOOLEAN, csw: Nat, data: Nat] /\ (xi.at = "cbw" => bot'.asks = xi.reading)
  <2>0. bot \in [cbw: Nat, asks: BOOLEAN, csw: Nat, data: Nat] BY DEF XhciOk, XhciTypes
  <2>1. CASE xi.at = "cbw"
    <3>1. PICK t \in Nat : t = xi.tag BY <1>1 DEF XiType
    <3>2. PICK b \in BOOLEAN : b = xi.reading BY <1>1 DEF XiType
    <3>3. bot' = [bot EXCEPT !.cbw = t, !.asks = b] BY <2>1, <3>1, <3>2 DEF PushTransfer
    <3>4. bot' \in [cbw: Nat, asks: BOOLEAN, csw: Nat, data: Nat] BY <2>0, <3>3
    <3>5. bot'.asks = b BY <2>0, <3>3
    <3> QED BY <3>2, <3>4, <3>5
  <2>2. CASE xi.at # "cbw"
    <3>1. bot' = bot BY <2>2 DEF PushTransfer
    <3> QED BY <2>0, <2>2, <3>1
  <2> QED BY <2>1, <2>2
<1>16. XhciTypes' BY <1>2, <1>3, <1>14, <1>15 DEF XhciOk, XhciTypes
<1>17. KeyboardInv(K)'
  <2>1. \A s \in XSlot : rings'[s]["kbd"] = rings[s]["kbd"] BY <1>7, <1>14 DEF EpName
  <2> QED BY <2>1, <1>2, <1>3 DEF XhciOk, KeyboardInv
<1>18. StepInv' BY <1>1, <1>2, <1>3, <1>5 DEF XhciOk, StepInv
<1>19. Unanswered' /\ \A i \in 1 .. Len(evt') : FromKeyboard(K, evt'[i]) /\ ~Own(evt[i])'
  BY <1>1, <1>2, <1>3, <1>4, PushedUnanswered
<1>20. EventInv(K)' BY <1>19 DEF EventInv
<1>21. OwedInv' BY <1>2, <1>15, <1>19 DEF OwedInv
<1>22. CommandInv' BY <1>3, <1>4 DEF Quiet, CommandInv, Drained
<1>23. TransferInv'
  <2> SUFFICES ASSUME NEW s \in XSlot, NEW x \in EpName \ {"kbd"}
               PROVE  /\ Cycled(rings'[s][x], XFER_RING_SZ)
                      /\ Drained(rings'[s][x], XFER_RING_SZ) \/ TransferWaits(s, x)'
    BY DEF TransferInv
  <2>1. Drained(rings[s][x], XFER_RING_SZ) BY <1>4 DEF Quiet
  <2>2. CASE s = xi.slot /\ x = ep
    <3>1. rings'[s][x] = q BY <2>2, <1>14
    <3>2. CASE r.on
      <4>1. Len(sends') >= Owed(xi.at) BY <1>3, <1>4 DEF Quiet
      <4>2. TransferWaits(s, x)' BY <2>2, <3>1, <3>2, <4>1, <1>1, <1>2, <1>7, <1>12, <1>19 DEF TransferWaits
      <4> QED BY <3>1, <4>2, <1>12
    <3>3. CASE ~r.on
      <4>1. ~q.on BY <3>3, <1>12
      <4> QED BY <3>1, <4>1, <1>12 DEF Drained
    <3> QED BY <3>2, <3>3
  <2>3. CASE ~(s = xi.slot /\ x = ep)
    <3>1. rings'[s][x] = rings[s][x] BY <2>3, <1>14
    <3> QED BY <2>1, <3>1 DEF Drained
  <2> QED BY <2>2, <2>3
<1>24. answer'.want = answer'.got BY <1>3 DEF XhciOk
<1> QED BY <1>16, <1>17, <1>18, <1>20, <1>21, <1>22, <1>23, <1>24 DEF XhciOk

(* Where a step leads to when it is answered or given up.                  *)
LEMMA AfterStep ==
  ASSUME xi.at \in Requests, NEW ok \in BOOLEAN, xi.at = "enable" => ~ok,
         NEW a, a = IF ok \/ xi.at \in Tolerated THEN After(xi.at) ELSE GiveUp(xi.at)
  PROVE  /\ a \in XStep \ {"handoff", "reset", "handoff2", "init"}
         /\ xi.at = "enable" => a = "scan"
         /\ a \in MaybeDisk => xi.at \in MaybeDisk
         /\ a \in OnSlot => xi.at \in OnSlot
         /\ a \in OnSlot \ (Bulk \cup {"status", "failed"}) => xi.at \in OnSlot \ (Bulk \cup {"status", "failed"})
         /\ xi.at \in Bulk => a \in Bulk \cup {"status", "failed"}
         /\ Owed(a) = IF ~ok THEN 0
                      ELSE IF xi.at = "cbw" THEN IF xi.reading THEN 2 ELSE 1
                      ELSE IF xi.at = "data" THEN 1 ELSE 0
<1>1. CASE ~ok /\ xi.at \notin Tolerated
  <2>1. a = GiveUp(xi.at) BY <1>1
  <2>2. CASE xi.at \in Bulk
    <3>1. a = "failed" BY <2>1, <2>2 DEF GiveUp
    <3> QED BY <1>1, <2>2, <3>1 DEF XStep, Bulk, MaybeDisk, OnSlot, Requests, Owed
  <2>3. CASE xi.at \notin Bulk
    <3>1. a = "scan" BY <2>1, <2>3 DEF GiveUp
    <3> QED BY <1>1, <2>3, <3>1 DEF XStep, Bulk, MaybeDisk, OnSlot, Requests, Owed, Commands, ControlIn, ControlOut
  <2> QED BY <2>2, <2>3
<1>2. CASE ok \/ xi.at \in Tolerated
  <2>1. a = After(xi.at) BY <1>2
  <2>2. xi.at \notin {"enable"} BY <1>2 DEF Tolerated
  <2>3. CASE xi.at \in Bulk
    <3>0. ok BY <1>2, <2>3 DEF Tolerated, Bulk
    <3>1. CASE xi.at = "cbw"
      <4>1. a = IF xi.reading THEN "data" ELSE "csw" BY <2>1, <3>1 DEF After
      <4> QED BY <3>0, <3>1, <4>1 DEF XStep, Bulk, MaybeDisk, OnSlot, Requests, Owed
    <3>2. CASE xi.at = "data"
      <4>1. a = "csw" BY <2>1, <3>2 DEF After
      <4> QED BY <3>0, <3>2, <4>1 DEF XStep, Bulk, MaybeDisk, OnSlot, Requests, Owed
    <3>3. CASE xi.at = "csw"
      <4>1. a = "status" BY <2>1, <3>3 DEF After
      <4> QED BY <3>0, <3>3, <4>1 DEF XStep, Bulk, MaybeDisk, OnSlot, Requests, Owed
    <3> QED BY <2>3, <3>1, <3>2, <3>3 DEF Bulk
  <2>4. CASE xi.at \notin Bulk
    <3>0. Parsed \in {"mset", "kset", "scan"} BY DEF Parsed
    <3>1. CASE xi.at = "kconf"
      <4>1. a = "kready" BY <2>1, <3>1 DEF After
      <4> QED BY <3>1, <4>1 DEF XStep, Bulk, MaybeDisk, OnSlot, Requests, Owed, Commands, ControlIn, ControlOut
    <3>2. CASE xi.at # "kconf"
      <4>1. a \in {"desc8", "address", "desc18", "conf4", "conf", "mset", "kset", "scan", "mout", "min", "cbw", "kproto", "kidle", "kconf"}
        BY <2>1, <2>2, <2>4, <3>0, <3>2 DEF After, Requests, Commands, ControlIn, ControlOut
      <4>2. a \in XStep \ {"handoff", "reset", "handoff2", "init"} BY <4>1 DEF XStep, Requests, Commands, ControlIn, ControlOut, Bulk
      <4>3. xi.at \in MaybeDisk /\ xi.at \in OnSlot \ (Bulk \cup {"status", "failed"})
        BY <2>2, <2>4, <3>2 DEF MaybeDisk, OnSlot, Requests, Commands, ControlIn, ControlOut, Bulk
      <4>4. Owed(a) = 0 BY <4>1 DEF Owed
      <4>5. xi.at # "cbw" /\ xi.at # "data" BY <2>4 DEF Bulk
      <4> QED BY <2>2, <2>4, <4>2, <4>3, <4>4, <4>5
    <3> QED BY <3>1, <3>2
  <2> QED BY <2>3, <2>4
<1> QED BY <1>1, <1>2

(* The wait is over, and the driver goes on.                               *)
LEMMA WaitOver ==
  ASSUME NEW K, XhciOk(K), xi.pushed, NEW ok \in BOOLEAN, xi.at = "enable" => ~ok, xi' = Answered(ok),
         UNCHANGED <<used, g_msc_slot, cmd, rings>>
  PROVE  /\ xi' \in XiType /\ ~xi'.pushed /\ StepInv' /\ KeyboardInv(K)'
         /\ Owed(xi'.at) = IF ~ok THEN 0
                           ELSE IF xi.at = "cbw" THEN IF xi.reading THEN 2 ELSE 1
                           ELSE IF xi.at = "data" THEN 1 ELSE 0
<1>1. xi.at \in Requests /\ xi \in XiType BY DEF XhciOk, StepInv, XhciTypes
<1>2. PICK a : a = IF ok \/ xi.at \in Tolerated THEN After(xi.at) ELSE GiveUp(xi.at) OBVIOUS
<1>3. /\ a \in XStep \ {"handoff", "reset", "handoff2", "init"}
      /\ xi.at = "enable" => a = "scan"
      /\ a \in MaybeDisk => xi.at \in MaybeDisk
      /\ a \in OnSlot => xi.at \in OnSlot
      /\ a \in OnSlot \ (Bulk \cup {"status", "failed"}) => xi.at \in OnSlot \ (Bulk \cup {"status", "failed"})
      /\ xi.at \in Bulk => a \in Bulk \cup {"status", "failed"}
      /\ Owed(a) = IF ~ok THEN 0
                   ELSE IF xi.at = "cbw" THEN IF xi.reading THEN 2 ELSE 1
                   ELSE IF xi.at = "data" THEN 1 ELSE 0
  BY <1>1, <1>2, AfterStep
<1>4. xi' = [xi EXCEPT !.pushed = FALSE, !.at = a] BY <1>2 DEF Answered
<1>5. xi' \in XiType BY <1>1, <1>3, <1>4 DEF XiType
<1>6. xi'.at = a /\ xi'.slot = xi.slot BY <1>1, <1>4 DEF XiType
<1>7. ~xi'.pushed BY <1>1, <1>4 DEF XiType
<1>8. xi'.reading = xi.reading BY <1>1, <1>4 DEF XiType
<1>9. xi.reading => xi.at \in Bulk
  <2>1. "status" \notin Requests /\ "failed" \notin Requests /\ "idle" \notin Requests
    BY DEF Requests, Commands, ControlIn, ControlOut, Bulk
  <2> QED BY <1>1, <2>1 DEF XhciOk, StepInv
<1>10. StepInv'
  <2>1. xi'.reading => xi'.at \in Bulk \cup {"status", "failed", "idle"} BY <1>3, <1>6, <1>8, <1>9
  <2> QED BY <1>3, <1>6, <1>7, <2>1 DEF XhciOk, StepInv
<1>11. KeyboardInv(K)' BY <1>3, <1>6 DEF XhciOk, KeyboardInv
<1> QED BY <1>3, <1>5, <1>6, <1>7, <1>10, <1>11

(* A wait is given up when no answer is to come any more.                  *)
LEMMA WaitTimeoutOk ==
  ASSUME NEW K \in SUBSET XSlot, XhciOk(K), wait_timeout, early = 0, early' = 0
  PROVE  XhciOk(K)'
<1>0. CMD_RING_SZ \in Nat /\ CMD_RING_SZ > 2 /\ XFER_RING_SZ \in Nat /\ XFER_RING_SZ > 2 BY XhciAssumption
<1>1. ~Coming /\ xi.pushed BY DEF wait_timeout
<1>2. UNCHANGED <<g_msc_slot, cmd, rings, ictx, evt, used, sends, bot, answer>> /\ xi' = Answered(FALSE)
  BY DEF wait_timeout, drv, dev
<1>3. xi' \in XiType /\ ~xi'.pushed /\ StepInv' /\ KeyboardInv(K)' /\ Owed(xi'.at) = 0
  BY <1>1, <1>2, WaitOver
<1>4. xi.at \in Requests BY <1>1 DEF XhciOk, StepInv
<1>5. \A i \in 1 .. Len(evt) : ~Accepts(evt[i]) BY <1>1 DEF Coming
<1>6. \A i \in 1 .. Len(evt) : FromKeyboard(K, evt[i]) BY <1>5 DEF XhciOk, EventInv, Own
<1>7. Drained(cmd, CMD_RING_SZ)
  <2>1. SUFFICES ASSUME CommandWaits PROVE Drained(cmd, CMD_RING_SZ) BY DEF XhciOk, CommandInv
  <2>2. Loaded(cmd, CMD_RING_SZ, 1, 1, xi.at, xi.slot) /\ xi.at \in Commands BY <2>1 DEF CommandWaits
  <2>3. cmd \in RingType(CMD_RING_SZ) /\ Cycled(cmd, CMD_RING_SZ) BY DEF XhciOk, XhciTypes, CommandInv
  <2>4. HasTrb(cmd) <=> cmd.on BY <2>2, <2>3, <1>0, SkipLoaded
  <2>5. ~HasTrb(cmd) BY <1>1, <2>2 DEF Coming
  <2> QED BY <2>3, <2>4, <2>5 DEF Drained
<1>8. ASSUME NEW s \in XSlot, NEW ep \in EpName \ {"kbd"} PROVE Drained(rings[s][ep], XFER_RING_SZ)
  <2>1. SUFFICES ASSUME TransferWaits(s, ep) PROVE Drained(rings[s][ep], XFER_RING_SZ) BY DEF XhciOk, TransferInv
  <2>2. PICK r : r = rings[s][ep] OBVIOUS
  <2>3. PICK n \in 1 .. 3 : n = Len(Trbs(xi.at)) BY TrbsShape
  <2>4. /\ Loaded(r, XFER_RING_SZ, n, n, xi.at, s) /\ xi.at \notin Commands /\ s = xi.slot /\ ep = EndpointOf(xi.at)
        /\ Len(sends) >= Owed(xi.at)
    BY <2>1, <2>2, <2>3 DEF TransferWaits
  <2>5. r \in RingType(XFER_RING_SZ) /\ Cycled(r, XFER_RING_SZ) BY <2>2 DEF XhciOk, XhciTypes, TransferInv
  <2>6. HasTrb(r) <=> r.on BY <2>3, <2>4, <2>5, <1>0, AtIocLoaded
  <2>7. Willing(ep)
    <3>1. ep = "in" => xi.at \in {"data", "csw"} BY <2>4 DEF EndpointOf, Bulk
    <3>2. ep = "in" => Len(sends) >= 1 BY <3>1, <2>4 DEF Owed
    <3>3. ep = "in" => sends # <<>> BY <3>2
    <3> QED BY <3>3 DEF Willing
  <2>8. ~HasTrb(r) BY <1>1, <2>2, <2>4, <2>7 DEF Coming
  <2> QED BY <2>2, <2>5, <2>6, <2>8 DEF Drained
<1>9. Quiet(K)'
  <2>1. Len(sends) >= 0 BY LenProperties DEF XhciOk, XhciTypes
  <2> QED BY <2>1, <1>2, <1>3, <1>6, <1>7, <1>8 DEF Quiet, FromKeyboard
<1>10. XhciTypes' BY <1>2, <1>3 DEF XhciOk, XhciTypes
<1>11. answer'.want = answer'.got BY <1>2 DEF XhciOk
<1> QED BY <1>3, <1>9, <1>10, <1>11, FromQuiet

(* cmd_wait or xfer_wait drops an event that it does not accept.           *)
LEMMA DropOk ==
  ASSUME NEW K \in SUBSET XSlot, XhciOk(K), evt # <<>>, evt' = Tail(evt), ~Accepts(Head(evt)),
         UNCHANGED <<xi, g_msc_slot, cmd, rings, ictx, used, sends, bot, answer>>
  PROVE  XhciOk(K)'
<1>1. /\ \E S : evt' \in Seq(S)
      /\ Len(evt) \in Nat /\ Len(evt) > 0 /\ Len(evt') = Len(evt) - 1 /\ Head(evt) = evt[1]
      /\ \A i \in 1 .. Len(evt') : evt'[i] = evt[i + 1]
  BY EvtTail DEF XhciOk, XhciTypes
<1>2. \A i \in 1 .. Len(evt') : i + 1 \in 1 .. Len(evt) /\ evt'[i] = evt[i + 1] BY <1>1
<1>3. \A e : Own(e)' <=> Own(e) BY DEF Own, Accepts
<1>4. XhciTypes' BY <1>1 DEF XhciOk, XhciTypes
<1>5. StepInv' BY DEF XhciOk, StepInv
<1>6. KeyboardInv(K)' BY DEF XhciOk, KeyboardInv
<1>7. Unanswered => Unanswered'
  <2> SUFFICES ASSUME Unanswered, NEW i \in 1 .. Len(evt') PROVE ~Own(evt[i])' BY DEF Unanswered
  <2>1. ~Own(evt[i + 1]) BY <1>2 DEF Unanswered
  <2>2. evt'[i] = evt[i + 1] BY <1>2
  <2> QED BY <2>1, <2>2 DEF Own, Accepts
<1>8. EventInv(K)'
  <2>1. ASSUME NEW i \in 1 .. Len(evt')
        PROVE  /\ Own(evt[i])' \/ FromKeyboard(K, evt[i])'
               /\ Own(evt[i])' /\ xi'.at = "enable" /\ evt'[i].ok /\ evt'[i].slot # 0 =>
                    evt'[i].slot \in 1 .. used' /\ evt'[i].slot \notin K /\ evt'[i].slot # g_msc_slot'
    <3>1. i + 1 \in 1 .. Len(evt) /\ evt'[i] = evt[i + 1] BY <1>2
    <3>2. /\ Own(evt[i + 1]) \/ FromKeyboard(K, evt[i + 1])
          /\ Own(evt[i + 1]) /\ xi.at = "enable" /\ evt[i + 1].ok /\ evt[i + 1].slot # 0 =>
               evt[i + 1].slot \in 1 .. used /\ evt[i + 1].slot \notin K /\ evt[i + 1].slot # g_msc_slot
      BY <3>1 DEF XhciOk, EventInv
    <3> QED BY <3>1, <3>2 DEF Own, Accepts, FromKeyboard
  <2>2. ASSUME NEW i \in 1 .. Len(evt'), NEW j \in 1 .. Len(evt'), Own(evt[i])', Own(evt[j])' PROVE i = j
    <3>1. i + 1 \in 1 .. Len(evt) /\ evt'[i] = evt[i + 1] /\ j + 1 \in 1 .. Len(evt) /\ evt'[j] = evt[j + 1] BY <1>2
    <3>2. Own(evt[i + 1]) /\ Own(evt[j + 1]) BY <2>2, <3>1 DEF Own, Accepts
    <3>3. i + 1 = j + 1 BY <3>1, <3>2 DEF XhciOk, EventInv
    <3> QED BY <3>3
  <2> QED BY <2>1, <2>2 DEF EventInv
<1>9. OwedInv'
  <2>1. ASSUME NEW i \in 1 .. Len(evt'), Own(evt[i])', evt'[i].ok
        PROVE  /\ xi.at = "cbw" => Len(sends) >= IF xi.reading THEN 2 ELSE 1
               /\ xi.at = "data" => Len(sends) >= 1
    <3>1. i + 1 \in 1 .. Len(evt) /\ evt'[i] = evt[i + 1] BY <1>2
    <3>2. Own(evt[i + 1]) /\ evt[i + 1].ok BY <2>1, <3>1 DEF Own, Accepts
    <3> QED BY <3>1, <3>2 DEF XhciOk, OwedInv
  <2> QED BY <2>1 DEF XhciOk, OwedInv
<1>10. CommandInv' BY <1>7 DEF XhciOk, CommandInv, CommandWaits
<1>11. TransferInv' BY <1>7 DEF XhciOk, TransferInv, TransferWaits
<1> QED BY <1>4, <1>5, <1>6, <1>8, <1>9, <1>10, <1>11 DEF XhciOk

(* The event a wait accepts is the answer to the request of the driver,    *)
(* and then there is nothing else but reports.                             *)
LEMMA AcceptedOwn ==
  ASSUME NEW K, XhciOk(K), xi.pushed, evt # <<>>, Accepts(Head(evt)), evt' = Tail(evt)
  PROVE  /\ Head(evt) = evt[1] /\ 1 \in 1 .. Len(evt) /\ Own(evt[1])
         /\ \E S : evt' \in Seq(S)
         /\ Drained(cmd, CMD_RING_SZ)
         /\ \A s \in XSlot, ep \in EpName \ {"kbd"} : Drained(rings[s][ep], XFER_RING_SZ)
         /\ \A i \in 1 .. Len(evt') : FromKeyboard(K, evt'[i])
<1>1. /\ \E S : evt' \in Seq(S)
      /\ Len(evt) \in Nat /\ Len(evt) > 0 /\ Len(evt') = Len(evt) - 1 /\ Head(evt) = evt[1]
      /\ \A i \in 1 .. Len(evt') : evt'[i] = evt[i + 1]
  BY EvtTail DEF XhciOk, XhciTypes
<1>2. 1 \in 1 .. Len(evt) BY <1>1
<1>3. xi.at \in Requests BY DEF XhciOk, StepInv
<1>4. Own(evt[1])
  <2>1. Own(evt[1]) \/ FromKeyboard(K, evt[1]) BY <1>2 DEF XhciOk, EventInv
  <2>2. ~FromKeyboard(K, evt[1]) BY <1>1, <1>3, ReportRefused
  <2> QED BY <2>1, <2>2
<1>5. ~Unanswered BY <1>2, <1>4 DEF Unanswered
<1>6. Drained(cmd, CMD_RING_SZ) BY <1>5 DEF XhciOk, CommandInv, CommandWaits
<1>7. \A s \in XSlot, ep \in EpName \ {"kbd"} : Drained(rings[s][ep], XFER_RING_SZ)
  BY <1>5 DEF XhciOk, TransferInv, TransferWaits
<1>8. ASSUME NEW i \in 1 .. Len(evt') PROVE FromKeyboard(K, evt'[i])
  <2>1. i + 1 \in 1 .. Len(evt) /\ i + 1 # 1 /\ evt'[i] = evt[i + 1] BY <1>1
  <2>2. ~Own(evt[i + 1]) BY <1>2, <1>4, <2>1 DEF XhciOk, EventInv
  <2>3. FromKeyboard(K, evt[i + 1]) BY <2>1, <2>2 DEF XhciOk, EventInv
  <2> QED BY <2>1, <2>3
<1> QED BY <1>1, <1>2, <1>4, <1>6, <1>7, <1>8

(* The wait accepts an answer.                                             *)
LEMMA AnswerOk ==
  ASSUME NEW K \in SUBSET XSlot, XhciOk(K), wait_event, Accepts(Head(evt)),
         ~(xi.at = "enable" /\ Head(evt).ok /\ Head(evt).slot # 0)
  PROVE  XhciOk(K)'
<1>1. xi.pushed /\ evt # <<>> /\ evt' = Tail(evt) BY DEF wait_event
<1>2. UNCHANGED <<g_msc_slot, cmd, rings, ictx, used, sends, bot>> BY DEF wait_event, drv, dev
<1>3. PICK e : e = Head(evt) OBVIOUS
<1>4. answer' = [answer EXCEPT !.want = xi.at, !.got = e.op] BY <1>3 DEF wait_event
<1>5. /\ e = evt[1] /\ 1 \in 1 .. Len(evt) /\ Own(evt[1])
      /\ \E S : evt' \in Seq(S)
      /\ Drained(cmd, CMD_RING_SZ)
      /\ \A s \in XSlot, ep \in EpName \ {"kbd"} : Drained(rings[s][ep], XFER_RING_SZ)
      /\ \A i \in 1 .. Len(evt') : FromKeyboard(K, evt'[i])
  BY <1>1, <1>3, AcceptedOwn
<1>6. DOMAIN answer' = {"want", "got", "read", "data"} /\ answer'.want = answer'.got
  <2>1. e.op = xi.at BY <1>5 DEF Own
  <2> QED BY <2>1, <1>4 DEF XhciOk, XhciTypes
<1>7. PICK ok \in BOOLEAN : ok <=> (e.ok /\ xi.at # "enable") OBVIOUS
<1>8. xi' = Answered(ok)
  <2>1. xi' = Answered(e.ok /\ xi.at # "enable") BY <1>3 DEF wait_event
  <2> QED BY <2>1, <1>7 DEF Answered
<1>9. /\ xi' \in XiType /\ ~xi'.pushed /\ StepInv' /\ KeyboardInv(K)'
      /\ Owed(xi'.at) = IF ~ok THEN 0
                        ELSE IF xi.at = "cbw" THEN IF xi.reading THEN 2 ELSE 1
                        ELSE IF xi.at = "data" THEN 1 ELSE 0
  BY <1>1, <1>2, <1>7, <1>8, WaitOver
<1>10. Len(sends') >= Owed(xi'.at)
  <2>1. Len(sends) >= 0 BY LenProperties DEF XhciOk, XhciTypes
  <2>2. ok => /\ xi.at = "cbw" => Len(sends) >= IF xi.reading THEN 2 ELSE 1
              /\ xi.at = "data" => Len(sends) >= 1
    BY <1>5, <1>7 DEF XhciOk, OwedInv
  <2> QED BY <2>1, <2>2, <1>2, <1>9
<1>11. XhciTypes' BY <1>2, <1>5, <1>6, <1>9 DEF XhciOk, XhciTypes
<1>12. Quiet(K)' BY <1>2, <1>5, <1>10 DEF Quiet, FromKeyboard
<1> QED BY <1>6, <1>9, <1>11, <1>12, FromQuiet

(* The answer to Enable Slot names a new slot.                             *)
LEMMA SlotGivenOk ==
  ASSUME NEW K \in SUBSET XSlot, XhciOk(K), wait_event, Accepts(Head(evt)),
         xi.at = "enable", Head(evt).ok, Head(evt).slot # 0
  PROVE  XhciOk(K)'
<1>0. XFER_RING_SZ \in Nat /\ XFER_RING_SZ > 2 /\ MAX_SLOTS \in Nat BY XhciAssumption
<1>1. xi.pushed /\ evt # <<>> /\ evt' = Tail(evt) /\ xi \in XiType BY DEF wait_event, XhciOk, XhciTypes
<1>2. UNCHANGED <<g_msc_slot, cmd, ictx, used, sends, bot>> BY DEF wait_event, drv, dev
<1>3. PICK e : e = Head(evt) OBVIOUS
<1>4. /\ answer' = [answer EXCEPT !.want = xi.at, !.got = e.op]
      /\ xi' = [Answered(TRUE) EXCEPT !.slot = e.slot] /\ AllocSlot(e.slot)
  BY <1>3 DEF wait_event
<1>5. /\ e = evt[1] /\ 1 \in 1 .. Len(evt) /\ Own(evt[1])
      /\ \E S : evt' \in Seq(S)
      /\ Drained(cmd, CMD_RING_SZ)
      /\ \A s \in XSlot, ep \in EpName \ {"kbd"} : Drained(rings[s][ep], XFER_RING_SZ)
      /\ \A i \in 1 .. Len(evt') : FromKeyboard(K, evt'[i])
  BY <1>1, <1>3, AcceptedOwn
<1>6. DOMAIN answer' = {"want", "got", "read", "data"} /\ answer'.want = answer'.got
  <2>1. e.op = xi.at BY <1>5 DEF Own
  <2> QED BY <2>1, <1>4 DEF XhciOk, XhciTypes
<1>7. e.slot \in 1 .. used /\ e.slot \notin K /\ e.slot # g_msc_slot BY <1>3, <1>5 DEF XhciOk, EventInv
<1>8. PICK s \in XSlot : s = e.slot
  <2>1. used \in 0 .. MAX_SLOTS BY DEF XhciOk, XhciTypes
  <2> QED BY <2>1, <1>0, <1>7 DEF XSlot
<1>9. s \in Int BY <1>0 DEF XSlot
<1>10. Answered(TRUE) = [xi EXCEPT !.pushed = FALSE, !.at = "bsr"]
  <2>1. After(xi.at) = "bsr" BY DEF After
  <2> QED BY <2>1 DEF Answered
<1>11. "bsr" \in XStep /\ "bsr" \notin {"handoff", "reset", "handoff2", "init"} BY DEF XStep, Requests, Commands
<1>12. PICK y : y = [xi EXCEPT !.pushed = FALSE, !.at = "bsr"] OBVIOUS
<1>13. y \in XiType BY <1>1, <1>11, <1>12 DEF XiType
<1>14. y.at = "bsr" BY <1>1, <1>12 DEF XiType
<1>15. ~y.pushed BY <1>1, <1>12 DEF XiType
<1>16. y.reading = xi.reading BY <1>1, <1>12 DEF XiType
<1>17. xi' = [y EXCEPT !.slot = s] BY <1>4, <1>8, <1>10, <1>12
<1>18. xi' \in XiType BY <1>9, <1>13, <1>17 DEF XiType
<1>19. xi'.at = "bsr" /\ xi'.slot = s BY <1>13, <1>14, <1>17 DEF XiType
<1>20. ~xi'.pushed /\ ~xi'.reading
  <2>1. xi'.pushed = y.pushed BY <1>13, <1>17 DEF XiType
  <2>2. xi'.reading = y.reading BY <1>13, <1>17 DEF XiType
  <2>3. ~xi.reading BY DEF XhciOk, StepInv, Bulk
  <2> QED BY <2>1, <2>2, <2>3, <1>15, <1>16
<1>21. PICK n : n = EmptyRing(XFER_RING_SZ) OBVIOUS
<1>22. n \in RingType(XFER_RING_SZ) /\ Cycled(n, XFER_RING_SZ) /\ n.on = FALSE BY <1>0, <1>21, NewRing
<1>23. rings \in [XSlot -> [EpName -> RingType(XFER_RING_SZ)]] BY DEF XhciOk, XhciTypes
<1>24. rings' = [rings EXCEPT ![s] = [x \in EpName |-> IF x \in {"ep0", "kbd"} THEN n ELSE rings[s][x]]]
  BY <1>4, <1>8, <1>21 DEF AllocSlot
<1>25. /\ rings' \in [XSlot -> [EpName -> RingType(XFER_RING_SZ)]]
       /\ \A u \in XSlot, x \in EpName : rings'[u][x] = IF u = s /\ x \in {"ep0", "kbd"} THEN n ELSE rings[u][x]
  <2>1. PICK f : f = [x \in EpName |-> IF x \in {"ep0", "kbd"} THEN n ELSE rings[s][x]] OBVIOUS
  <2>2. f \in [EpName -> RingType(XFER_RING_SZ)] BY <2>1, <1>22, <1>23
  <2>3. rings' = [rings EXCEPT ![s] = f] BY <2>1, <1>24
  <2>4. \A u \in XSlot : rings'[u] = IF u = s THEN f ELSE rings[u] BY <2>3, <1>23
  <2> QED BY <2>1, <2>2, <2>3, <2>4, <1>23
<1>26. XhciTypes' BY <1>2, <1>5, <1>6, <1>18, <1>25 DEF XhciOk, XhciTypes
<1>27. StepInv' BY <1>2, <1>7, <1>8, <1>11, <1>19, <1>20 DEF XhciOk, StepInv
<1>28. KeyboardInv(K)'
  <2>1. \A u \in XSlot : rings'[u]["kbd"] = n \/ rings'[u]["kbd"] = rings[u]["kbd"] BY <1>25 DEF EpName
  <2>2. \A u \in XSlot : rings'[u]["kbd"].on => u \in K BY <2>1, <1>22 DEF XhciOk, KeyboardInv
  <2> QED BY <2>2, <1>2, <1>7, <1>8, <1>19 DEF XhciOk, KeyboardInv
<1>29. Quiet(K)'
  <2>1. Drained(n, XFER_RING_SZ) BY <1>22 DEF Drained
  <2>2. \A u \in XSlot, x \in EpName \ {"kbd"} : Drained(rings'[u][x], XFER_RING_SZ) BY <2>1, <1>5, <1>25
  <2>3. Owed(xi'.at) = 0 BY <1>19 DEF Owed
  <2>4. Len(sends) >= 0 BY LenProperties DEF XhciOk, XhciTypes
  <2> QED BY <2>2, <2>3, <2>4, <1>2, <1>5 DEF Quiet, FromKeyboard
<1> QED BY <1>6, <1>20, <1>26, <1>27, <1>28, <1>29, FromQuiet

(* The answer of the controller or of a device is the only one.            *)
LEMMA AnswerArrives ==
  ASSUME NEW K, NEW L, XhciOk(K), K \subseteq L, Unanswered, NEW e, evt' = Append(evt, e), xi' = xi, Own(e),
         xi.at = "enable" /\ e.ok /\ e.slot # 0 => e.slot \in 1 .. used' /\ e.slot \notin L /\ e.slot # g_msc_slot'
  PROVE  /\ EventInv(L)' /\ \E S : evt' \in Seq(S)
         /\ \A i \in 1 .. Len(evt') : Own(evt[i])' => evt'[i] = e
<1>1. /\ \E S : evt' \in Seq(S)
      /\ Len(evt) \in Nat /\ Len(evt') = Len(evt) + 1 /\ evt'[Len(evt) + 1] = e
      /\ \A i \in 1 .. Len(evt) : evt'[i] = evt[i]
  <2>1. \E S : evt \in Seq(S) BY DEF XhciOk, XhciTypes
  <2> QED BY <2>1, EvtAppend
<1>2. \A x : Own(x)' <=> Own(x) BY DEF Own, Accepts
<1>3. ASSUME NEW i \in 1 .. Len(evt') PROVE (i = Len(evt) + 1 /\ evt'[i] = e) \/ (FromKeyboard(L, evt'[i]) /\ ~Own(evt[i])')
  <2>1. CASE i = Len(evt) + 1 BY <2>1, <1>1
  <2>2. CASE i # Len(evt) + 1
    <3>1. i \in 1 .. Len(evt) /\ evt'[i] = evt[i] BY <1>1, <2>2
    <3>2. ~Own(evt[i]) BY <3>1 DEF Unanswered
    <3>3. FromKeyboard(K, evt[i]) BY <3>1, <3>2 DEF XhciOk, EventInv
    <3>4. FromKeyboard(L, evt'[i]) BY <3>1, <3>3 DEF FromKeyboard
    <3>5. ~Own(evt[i])' BY <3>1, <3>2 DEF Own, Accepts
    <3> QED BY <3>4, <3>5
  <2> QED BY <2>1, <2>2
<1>4. ASSUME NEW i \in 1 .. Len(evt'), evt'[i] = e PROVE Own(evt[i])' BY <1>4 DEF Own, Accepts
<1>5. ASSUME NEW i \in 1 .. Len(evt') PROVE Own(evt[i])' \/ FromKeyboard(L, evt[i])'
  <2>1. CASE evt'[i] = e BY <2>1, <1>4
  <2>2. CASE FromKeyboard(L, evt'[i]) BY <2>2
  <2> QED BY <2>1, <2>2, <1>3
<1>6. ASSUME NEW i \in 1 .. Len(evt'), Own(evt[i])' PROVE i = Len(evt) + 1 /\ evt'[i] = e BY <1>3, <1>6
<1>7. ASSUME NEW i \in 1 .. Len(evt'), Own(evt[i])', xi'.at = "enable", evt'[i].ok, evt'[i].slot # 0
      PROVE  evt'[i].slot \in 1 .. used' /\ evt'[i].slot \notin L /\ evt'[i].slot # g_msc_slot'
  <2>1. evt'[i] = e BY <1>6, <1>7
  <2> QED BY <2>1, <1>7
<1>8. EventInv(L)' BY <1>5, <1>6, <1>7 DEF EventInv
<1> QED BY <1>1, <1>6, <1>8

(* The controller carries out a command.                                   *)
LEMMA HwCommandOk ==
  ASSUME NEW K \in SUBSET XSlot, XhciOk(K), NEW ok \in BOOLEAN, HwCommand(ok)
  PROVE  \E L \in SUBSET XSlot : XhciOk(L)'
<1>0. /\ CMD_RING_SZ \in Nat /\ CMD_RING_SZ > 2 /\ XFER_RING_SZ \in Nat /\ XFER_RING_SZ > 2 /\ MAX_SLOTS \in Nat
  BY XhciAssumption
<1>1. HasTrb(cmd) /\ cmd' = Skip(cmd) /\ UNCHANGED <<xi, g_msc_slot, ictx, bot, sends, answer>>
  BY DEF HwCommand, drv, hist
<1>2. cmd \in RingType(CMD_RING_SZ) /\ Cycled(cmd, CMD_RING_SZ) /\ cmd.on
  BY <1>1 DEF XhciOk, XhciTypes, CommandInv, HasTrb
<1>3. CommandWaits
  <2>1. ~Waits(cmd, CMD_RING_SZ, 0) BY <1>0, <1>1, <1>2, NoTrb
  <2> QED BY <1>2, <2>1 DEF XhciOk, CommandInv, Drained
<1>4. /\ xi.pushed /\ xi.at \in Commands /\ Unanswered /\ Loaded(cmd, CMD_RING_SZ, 1, 1, xi.at, xi.slot)
      /\ xi.at # "enable" => ictx.ep = ContextOf(xi.at)
      /\ xi.at \notin {"enable", "kconf"} =>
           ictx.deq = rings[xi.slot][ictx.ep].enq /\ ictx.ccs = rings[xi.slot][ictx.ep].pcs
  BY <1>3 DEF CommandWaits
<1>5. TrbOf(cmd).op = xi.at /\ TrbOf(cmd).slot = xi.slot
  <2>1. IsTrb(TrbOf(cmd), xi.at, xi.slot, 1 = 1) BY <1>0, <1>2, <1>4, SkipLoaded
  <2> QED BY <2>1 DEF IsTrb
<1>6. cmd' \in RingType(CMD_RING_SZ) /\ Drained(cmd', CMD_RING_SZ)
  <2>1. /\ cmd' \in RingType(CMD_RING_SZ) /\ Cycled(cmd', CMD_RING_SZ)
        /\ Loaded(cmd', CMD_RING_SZ, 1 - 1, 1 - 1, xi.at, xi.slot)
    BY <1>0, <1>1, <1>2, <1>4, SkipLoaded
  <2>2. 1 - 1 = 0 OBVIOUS
  <2> QED BY <2>1, <2>2 DEF Loaded, Drained
<1>7. PICK done \in BOOLEAN : done <=> (ok /\ (xi.at = "enable" => used < MAX_SLOTS)) OBVIOUS
<1>8. PICK s : s = IF xi.at = "enable" THEN IF done THEN used + 1 ELSE 0 ELSE xi.slot OBVIOUS
<1>9. /\ used' = IF xi.at = "enable" /\ done THEN used + 1 ELSE used
      /\ rings' = IF xi.at = "enable" \/ ~done THEN rings
                  ELSE [rings EXCEPT ![s][ictx.ep] = [@ EXCEPT !.deq = ictx.deq, !.ccs = ictx.ccs, !.on = TRUE]]
      /\ evt' = Append(evt, Event("cmd", s, "none", done, xi.at))
  BY <1>5, <1>7, <1>8 DEF HwCommand
<1>10. used \in 0 .. MAX_SLOTS /\ used' \in 0 .. MAX_SLOTS /\ used <= used'
  <2>1. used \in 0 .. MAX_SLOTS BY DEF XhciOk, XhciTypes
  <2> QED BY <2>1, <1>0, <1>7, <1>9
<1>11. PICK e : e = Event("cmd", s, "none", done, xi.at) OBVIOUS
<1>12. e.type = "cmd" /\ e.slot = s /\ e.op = xi.at /\ (e.ok <=> done) BY <1>11 DEF Event
<1>13. Own(e) BY <1>4, <1>12 DEF Own, Accepts
<1>14. PICK L : L = IF xi.at = "kconf" THEN K \cup {xi.slot} ELSE K OBVIOUS
<1>15. xi.at # "enable" => xi.slot \in XSlot /\ xi.slot \in 1 .. used /\ xi.slot # g_msc_slot /\ s = xi.slot
  <2>1. xi.at # "enable" => xi.at \in OnSlot \ (Bulk \cup {"status", "failed"})
    BY <1>4 DEF OnSlot, Requests, Commands, Bulk
  <2> QED BY <2>1, <1>8, SlotType DEF XhciOk, StepInv
<1>16. L \in SUBSET XSlot /\ K \subseteq L /\ L \subseteq 1 .. used' /\ g_msc_slot \notin L
  <2>1. K \subseteq 1 .. used /\ g_msc_slot \notin K BY DEF XhciOk, KeyboardInv
  <2>2. K \subseteq 1 .. used' BY <2>1, <1>0, <1>10
  <2>3. CASE xi.at = "kconf"
    <3>1. xi.slot \in XSlot /\ xi.slot \in 1 .. used' /\ xi.slot # g_msc_slot BY <2>3, <1>0, <1>10, <1>15
    <3>2. L = K \cup {xi.slot} BY <2>3, <1>14
    <3> QED BY <2>1, <2>2, <3>1, <3>2
  <2>4. CASE xi.at # "kconf"
    <3>1. L = K BY <2>4, <1>14
    <3> QED BY <2>1, <2>2, <3>1
  <2> QED BY <2>3, <2>4
<1>17. EventInv(L)' /\ \E S : evt' \in Seq(S)
  <2>1. xi.at = "enable" /\ e.ok /\ e.slot # 0 => e.slot \in 1 .. used' /\ e.slot \notin L /\ e.slot # g_msc_slot'
    <3> SUFFICES ASSUME xi.at = "enable", e.ok, e.slot # 0
                 PROVE  e.slot \in 1 .. used' /\ e.slot \notin L /\ e.slot # g_msc_slot'
      OBVIOUS
    <3>1. done BY <1>12
    <3>2. e.slot = used + 1 /\ used' = used + 1 BY <3>1, <1>8, <1>9, <1>12
    <3>3. L = K /\ K \subseteq 1 .. used /\ g_msc_slot \in 0 .. used BY <1>14 DEF XhciOk, KeyboardInv, StepInv
    <3> QED BY <3>2, <3>3, <1>1, <1>10
  <2>2. evt' = Append(evt, e) /\ xi' = xi BY <1>1, <1>9, <1>11
  <2> QED BY <2>1, <2>2, <1>4, <1>13, <1>16, AnswerArrives
<1>18. rings \in [XSlot -> [EpName -> RingType(XFER_RING_SZ)]] /\ ictx \in [ep: EpName, deq: Nat, ccs: Int]
  BY DEF XhciOk, XhciTypes
<1>19. /\ rings' \in [XSlot -> [EpName -> RingType(XFER_RING_SZ)]]
       /\ \A u \in XSlot, x \in EpName \ {"kbd"} : Drained(rings'[u][x], XFER_RING_SZ)
       /\ \A u \in XSlot : rings'[u]["kbd"].on => u \in L
  <2>0. \A u \in XSlot, x \in EpName \ {"kbd"} : Drained(rings[u][x], XFER_RING_SZ)
    BY <1>4 DEF XhciOk, TransferInv, TransferWaits
  <2>1. CASE xi.at = "enable" \/ ~done
    <3>1. rings' = rings BY <2>1, <1>9
    <3>2. \A u \in XSlot : rings[u]["kbd"].on => u \in K BY DEF XhciOk, KeyboardInv
    <3> QED BY <3>1, <3>2, <2>0, <1>16, <1>18
  <2>2. CASE xi.at # "enable" /\ done
    <3>1. PICK ep \in EpName : ep = ictx.ep BY <1>18
    <3>2. PICK r : r = rings[xi.slot][ep] OBVIOUS
    <3>3. r \in RingType(XFER_RING_SZ) BY <2>2, <3>2, <1>15, <1>18
    <3>4. PICK d \in Nat : d = ictx.deq BY <1>18
    <3>5. PICK c \in Int : c = ictx.ccs BY <1>18
    <3>6. PICK q : q = [r EXCEPT !.deq = d, !.ccs = c, !.on = TRUE] OBVIOUS
    <3>7. q \in RingType(XFER_RING_SZ) BY <3>3, <3>6 DEF RingType
    <3>8. q.mem = r.mem /\ q.enq = r.enq /\ q.pcs = r.pcs /\ q.deq = d /\ q.ccs = c BY <3>3, <3>6 DEF RingType
    <3>9. rings' = [rings EXCEPT ![xi.slot][ep] = q]
      <4>1. rings' = [rings EXCEPT ![xi.slot][ep] = [@ EXCEPT !.deq = d, !.ccs = c, !.on = TRUE]]
        BY <2>2, <3>1, <3>4, <3>5, <1>9, <1>15
      <4> QED BY <4>1, <3>2, <3>6
    <3>10. /\ rings' \in [XSlot -> [EpName -> RingType(XFER_RING_SZ)]]
           /\ \A u \in XSlot, x \in EpName : rings'[u][x] = IF u = xi.slot /\ x = ep THEN q ELSE rings[u][x]
      BY <2>2, <3>7, <3>9, <1>15, <1>18
    <3>11. ep # "kbd" => Drained(q, XFER_RING_SZ)
      <4> SUFFICES ASSUME ep # "kbd" PROVE Drained(q, XFER_RING_SZ) OBVIOUS
      <4>1. xi.at \notin {"enable", "kconf"} BY <2>2, <3>1, <1>4 DEF ContextOf
      <4>2. d = r.enq /\ c = r.pcs BY <4>1, <3>1, <3>2, <3>4, <3>5, <1>4
      <4>3. Waits(q, XFER_RING_SZ, 0)
        <5>1. q.deq + 0 = q.enq BY <4>2, <3>7, <3>8 DEF RingType
        <5> QED BY <5>1, <4>2, <3>8 DEF Waits, InRound
      <4>4. Cycled(r, XFER_RING_SZ) BY <2>2, <3>2, <2>0, <1>15 DEF Drained
      <4>5. Cycled(q, XFER_RING_SZ) BY <4>4, <3>8, CycledSame
      <4> QED BY <4>3, <4>5 DEF Drained
    <3>12. ep = "kbd" => xi.slot \in L
      <4>1. ep = "kbd" => xi.at = "kconf" BY <2>2, <3>1, <1>4 DEF ContextOf
      <4> QED BY <4>1, <1>14
    <3>13. ASSUME NEW u \in XSlot, rings'[u]["kbd"].on PROVE u \in L
      <4>1. CASE u = xi.slot /\ ep = "kbd" BY <4>1, <3>12
      <4>2. CASE ~(u = xi.slot /\ ep = "kbd")
        <5>1. rings'[u]["kbd"] = rings[u]["kbd"] BY <4>2, <3>10 DEF EpName
        <5>2. u \in K BY <5>1, <3>13 DEF XhciOk, KeyboardInv
        <5> QED BY <5>2, <1>16
      <4> QED BY <4>1, <4>2
    <3> QED BY <2>0, <3>10, <3>11, <3>13
  <2> QED BY <2>1, <2>2
<1>20. XhciTypes' BY <1>1, <1>6, <1>10, <1>17, <1>19 DEF XhciOk, XhciTypes
<1>21. StepInv'
  <2>1. xi.at \notin {"handoff2", "init", "handoff", "reset"} BY <1>4 DEF Commands
  <2>2. xi.at \in OnSlot => xi.slot \in 1 .. used' BY <1>10 DEF XhciOk, StepInv
  <2>3. g_msc_slot \in 0 .. used' BY <1>10 DEF XhciOk, StepInv
  <2> QED BY <1>1, <2>1, <2>2, <2>3 DEF XhciOk, StepInv
<1>22. KeyboardInv(L)'
  <2>1. xi.at \in MaybeDisk => xi.slot \notin L BY <1>14 DEF XhciOk, KeyboardInv, MaybeDisk
  <2> QED BY <2>1, <1>1, <1>16, <1>19 DEF KeyboardInv
<1>23. CommandInv' BY <1>6 DEF CommandInv, Drained
<1>24. TransferInv' BY <1>19 DEF TransferInv, Drained
<1>25. OwedInv'
  <2>1. xi.at # "cbw" /\ xi.at # "data" BY <1>4 DEF Commands
  <2> QED BY <2>1, <1>1, <1>4 DEF OwedInv
<1>26. answer'.want = answer'.got BY <1>1 DEF XhciOk
<1>27. XhciOk(L)' BY <1>17, <1>20, <1>21, <1>22, <1>23, <1>24, <1>25, <1>26 DEF XhciOk
<1> QED BY <1>16, <1>27

(* A keyboard's report.                                                    *)
LEMMA ReportOk ==
  ASSUME NEW K \in SUBSET XSlot, XhciOk(K), NEW s \in XSlot, NEW ok \in BOOLEAN, NEW report,
         HwTransfer(s, "kbd", ok, report)
  PROVE  XhciOk(K)'
<1>0. XFER_RING_SZ \in Nat /\ XFER_RING_SZ > 2 BY XhciAssumption
<1>1. UNCHANGED <<xi, g_msc_slot, cmd, ictx, used, bot, sends, answer>>
  <2>1. UNCHANGED <<xi, g_msc_slot, cmd, ictx, used, answer>> BY DEF HwTransfer, drv, hist
  <2>2. bot' = bot BY DEF HwTransfer
  <2>3. sends' = sends BY DEF HwTransfer
  <2> QED BY <2>1, <2>2, <2>3
<1>2. PICK r : r = rings[s]["kbd"] OBVIOUS
<1>3. rings \in [XSlot -> [EpName -> RingType(XFER_RING_SZ)]] /\ "kbd" \in EpName BY DEF XhciOk, XhciTypes, EpName
<1>4. r \in RingType(XFER_RING_SZ) /\ HasTrb(r) BY <1>2, <1>3 DEF HwTransfer
<1>5. s \in K BY <1>2, <1>4 DEF HasTrb, XhciOk, KeyboardInv
<1>6. PICK done \in BOOLEAN : /\ rings' = [rings EXCEPT ![s]["kbd"] = [Skip(AtIoc(r)) EXCEPT !.on = done]]
                              /\ \E op : evt' = Append(evt, Event("xfer", s, "kbd", done, op))
  <2>1. PICK done \in BOOLEAN : done <=> ok OBVIOUS
  <2>2. ok /\ ("kbd" = "in" => ~(Head(sends).kind = "data" /\ TrbOf(AtIoc(rings[s]["kbd"])).op = "csw")) <=> done BY <2>1
  <2>3. done = (ok /\ ("kbd" = "in" => ~(Head(sends).kind = "data" /\ TrbOf(AtIoc(rings[s]["kbd"])).op = "csw"))) BY <2>2
  <2>4. rings' = [rings EXCEPT ![s]["kbd"] = [Skip(AtIoc(r)) EXCEPT !.on = done]] BY <2>3, <1>2 DEF HwTransfer
  <2>5. evt' = Append(evt, Event("xfer", s, Dci("kbd"), done, TrbOf(AtIoc(r)).op)) BY <2>3, <1>2 DEF HwTransfer
  <2>6. Dci("kbd") = "kbd" BY DEF Dci
  <2> QED BY <2>4, <2>5, <2>6
<1>7. PICK q : q = [Skip(AtIoc(r)) EXCEPT !.on = done] OBVIOUS
<1>8. q \in RingType(XFER_RING_SZ)
  <2>1. PICK p : p = Skip(AtIoc(r)) OBVIOUS
  <2>2. p \in RingType(XFER_RING_SZ) BY <2>1, <1>0, <1>4, AtIocType
  <2>3. q = [p EXCEPT !.on = done] BY <2>1, <1>7
  <2> QED BY <2>2, <2>3 DEF RingType
<1>9. /\ rings' \in [XSlot -> [EpName -> RingType(XFER_RING_SZ)]]
      /\ \A u \in XSlot, x \in EpName : rings'[u][x] = IF u = s /\ x = "kbd" THEN q ELSE rings[u][x]
  BY <1>3, <1>6, <1>7, <1>8
<1>10. \A u \in XSlot, x \in EpName \ {"kbd"} : rings'[u][x] = rings[u][x] BY <1>9
<1>11. PICK e : evt' = Append(evt, e) /\ e.type = "xfer" /\ e.slot = s /\ e.dci = "kbd"
  <2>1. PICK op : evt' = Append(evt, Event("xfer", s, "kbd", done, op)) BY <1>6
  <2>2. PICK e : e = Event("xfer", s, "kbd", done, op) OBVIOUS
  <2>3. e.type = "xfer" /\ e.slot = s /\ e.dci = "kbd" BY <2>2 DEF Event
  <2> QED BY <2>1, <2>2, <2>3
<1>12. FromKeyboard(K, e) BY <1>5, <1>11 DEF FromKeyboard
<1>13. ~Own(e)
  <2>1. CASE xi.pushed
    <3>1. xi.at \in Requests BY <2>1 DEF XhciOk, StepInv
    <3>2. ~Accepts(e) BY <3>1, <1>12, ReportRefused
    <3> QED BY <3>2 DEF Own
  <2>2. CASE ~xi.pushed BY <2>2 DEF Own
  <2> QED BY <2>1, <2>2
<1>14. /\ \E S : evt' \in Seq(S)
       /\ Len(evt) \in Nat /\ Len(evt') = Len(evt) + 1 /\ evt'[Len(evt) + 1] = e
       /\ \A i \in 1 .. Len(evt) : evt'[i] = evt[i]
  <2>1. \E S : evt \in Seq(S) BY DEF XhciOk, XhciTypes
  <2> QED BY <2>1, <1>11, EvtAppend
<1>15. ASSUME NEW i \in 1 .. Len(evt'), Own(evt[i])' PROVE i \in 1 .. Len(evt) /\ evt'[i] = evt[i] /\ Own(evt[i])
  <2>1. CASE i = Len(evt) + 1
    <3>1. evt'[i] = e BY <2>1, <1>14
    <3>2. Own(e) BY <3>1, <1>1, <1>15 DEF Own, Accepts
    <3> QED BY <3>2, <1>13
  <2>2. CASE i # Len(evt) + 1
    <3>1. i \in 1 .. Len(evt) /\ evt'[i] = evt[i] BY <2>2, <1>14
    <3> QED BY <3>1, <1>1, <1>15 DEF Own, Accepts
  <2> QED BY <2>1, <2>2
<1>16. Unanswered => Unanswered' BY <1>15 DEF Unanswered
<1>17. EventInv(K)'
  <2>1. ASSUME NEW i \in 1 .. Len(evt') PROVE Own(evt[i])' \/ FromKeyboard(K, evt[i])'
    <3>1. CASE i = Len(evt) + 1
      <4>1. evt'[i] = e BY <3>1, <1>14
      <4> QED BY <4>1, <1>12 DEF FromKeyboard
    <3>2. CASE i # Len(evt) + 1
      <4>1. i \in 1 .. Len(evt) /\ evt'[i] = evt[i] BY <3>2, <1>14
      <4>2. Own(evt[i]) \/ FromKeyboard(K, evt[i]) BY <4>1 DEF XhciOk, EventInv
      <4> QED BY <4>1, <4>2, <1>1 DEF Own, Accepts, FromKeyboard
    <3> QED BY <3>1, <3>2
  <2>2. ASSUME NEW i \in 1 .. Len(evt'), NEW j \in 1 .. Len(evt'), Own(evt[i])', Own(evt[j])' PROVE i = j
    <3>1. i \in 1 .. Len(evt) /\ Own(evt[i]) BY <2>2, <1>15
    <3>2. j \in 1 .. Len(evt) /\ Own(evt[j]) BY <2>2, <1>15
    <3> QED BY <3>1, <3>2 DEF XhciOk, EventInv
  <2>3. ASSUME NEW i \in 1 .. Len(evt'), Own(evt[i])', xi'.at = "enable", evt'[i].ok, evt'[i].slot # 0
        PROVE  evt'[i].slot \in 1 .. used' /\ evt'[i].slot \notin K /\ evt'[i].slot # g_msc_slot'
    <3>1. i \in 1 .. Len(evt) /\ evt'[i] = evt[i] /\ Own(evt[i]) BY <2>3, <1>15
    <3> QED BY <3>1, <2>3, <1>1 DEF XhciOk, EventInv
  <2> QED BY <2>1, <2>2, <2>3 DEF EventInv
<1>18. XhciTypes' BY <1>1, <1>9, <1>14 DEF XhciOk, XhciTypes
<1>19. StepInv'
  <2>1. xi.at \in {"handoff2", "init"} => FALSE
    <3>1. rings[s]["kbd"].on BY <1>2, <1>4 DEF HasTrb
    <3> QED BY <3>1, <1>3 DEF XhciOk, StepInv
  <2> QED BY <2>1, <1>1 DEF XhciOk, StepInv
<1>20. KeyboardInv(K)'
  <2>1. \A u \in XSlot : u # s => rings'[u]["kbd"] = rings[u]["kbd"] BY <1>3, <1>9
  <2>2. \A u \in XSlot : rings'[u]["kbd"].on => u \in K BY <2>1, <1>5 DEF XhciOk, KeyboardInv
  <2> QED BY <2>2, <1>1 DEF XhciOk, KeyboardInv
<1>21. OwedInv'
  <2>1. ASSUME NEW i \in 1 .. Len(evt'), Own(evt[i])', evt'[i].ok
        PROVE  /\ xi.at = "cbw" => Len(sends) >= IF xi.reading THEN 2 ELSE 1
               /\ xi.at = "data" => Len(sends) >= 1
    <3>1. i \in 1 .. Len(evt) /\ evt'[i] = evt[i] /\ Own(evt[i]) BY <2>1, <1>15
    <3> QED BY <2>1, <3>1 DEF XhciOk, OwedInv
  <2> QED BY <2>1, <1>1 DEF XhciOk, OwedInv
<1>22. CommandInv'
  <2>1. CASE Drained(cmd, CMD_RING_SZ) BY <2>1, <1>1 DEF XhciOk, CommandInv
  <2>2. CASE CommandWaits
    <3>1. xi.at \notin {"enable", "kconf"} => rings'[xi.slot][ictx.ep] = rings[xi.slot][ictx.ep]
      <4>1. SUFFICES ASSUME xi.at \notin {"enable", "kconf"} PROVE rings'[xi.slot][ictx.ep] = rings[xi.slot][ictx.ep]
        OBVIOUS
      <4>2. ictx.ep \in EpName \ {"kbd"} BY <4>1, <2>2 DEF CommandWaits, ContextOf, EpName
      <4>3. xi.at \in OnSlot BY <4>1, <2>2 DEF CommandWaits, OnSlot, Requests
      <4>4. xi.slot \in XSlot BY <4>3, SlotType
      <4> QED BY <4>2, <4>4, <1>10
    <3>2. CommandWaits' BY <2>2, <3>1, <1>1, <1>16 DEF CommandWaits
    <3> QED BY <3>2, <1>1 DEF XhciOk, CommandInv
  <2> QED BY <2>1, <2>2 DEF XhciOk, CommandInv
<1>23. TransferInv'
  <2> SUFFICES ASSUME NEW u \in XSlot, NEW ep \in EpName \ {"kbd"}
               PROVE  (Cycled(rings[u][ep], XFER_RING_SZ) /\ (Drained(rings[u][ep], XFER_RING_SZ) \/ TransferWaits(u, ep)))'
    BY DEF TransferInv
  <2>1. Cycled(rings[u][ep], XFER_RING_SZ) /\ (Drained(rings[u][ep], XFER_RING_SZ) \/ TransferWaits(u, ep))
    BY DEF XhciOk, TransferInv
  <2>2. rings'[u][ep] = rings[u][ep] BY <1>10
  <2> QED BY <2>1, <2>2, <1>1, <1>16 DEF TransferWaits
<1>24. answer'.want = answer'.got BY <1>1 DEF XhciOk
<1> QED BY <1>17, <1>18, <1>19, <1>20, <1>21, <1>22, <1>23, <1>24 DEF XhciOk

\* What the disk sends for a command.
Item == [kind: {"data", "csw"}, tag: Nat]

(* The answer of the disk to a command is one item longer if it asks for   *)
(* sectors.                                                                *)
LEMMA AnswerLength ==
  ASSUME bot \in [cbw: Nat, asks: BOOLEAN, csw: Nat, data: Nat], NEW old \in Seq(Item)
  PROVE  old \o Answer \in Seq(Item) /\ Len(old \o Answer) >= IF bot.asks THEN 2 ELSE 1
<1>1. PICK x : x = [kind |-> "data", tag |-> bot.cbw] OBVIOUS
<1>2. PICK y : y = [kind |-> "csw", tag |-> bot.cbw] OBVIOUS
<1>3. x \in Item /\ y \in Item BY <1>1, <1>2 DEF Item
<1>4. Answer = (IF bot.asks THEN <<x>> ELSE <<>>) \o <<y>> BY <1>1, <1>2 DEF Answer
<1>5. PICK v : v = <<y>> OBVIOUS
<1>6. v \in Seq(Item) /\ Len(v) = 1 BY <1>3, <1>5
<1>7. PICK u : u = IF bot.asks THEN <<x>> ELSE <<>> OBVIOUS
<1>8. u \in Seq(Item) /\ Len(u) = IF bot.asks THEN 1 ELSE 0
  <2>1. CASE bot.asks
    <3>1. <<x>> \in Seq(Item) /\ Len(<<x>>) = 1 BY <1>3
    <3> QED BY <2>1, <3>1, <1>7
  <2>2. CASE ~bot.asks
    <3>1. <<>> \in Seq(Item) /\ Len(<<>>) = 0 BY EmptySeq
    <3> QED BY <2>2, <3>1, <1>7
  <2> QED BY <2>1, <2>2
<1>9. PICK a : a = u \o v OBVIOUS
<1>10. Answer = a BY <1>4, <1>5, <1>7, <1>9
<1>11. a \in Seq(Item) /\ Len(a) = Len(u) + Len(v) BY <1>6, <1>8, <1>9, ConcatProperties
<1>12. old \o a \in Seq(Item) /\ Len(old \o a) = Len(old) + Len(a) BY <1>11, ConcatProperties
<1>13. Len(old) \in Nat BY LenProperties
<1> QED BY <1>6, <1>8, <1>10, <1>11, <1>12, <1>13

(* A transfer on another endpoint is the one the driver waits for.         *)
LEMMA TransferOk ==
  ASSUME NEW K \in SUBSET XSlot, XhciOk(K), NEW s \in XSlot, NEW ep \in EpName \ {"kbd"}, NEW ok \in BOOLEAN, NEW report,
         HwTransfer(s, ep, ok, report)
  PROVE  XhciOk(K)'
<1>0. XFER_RING_SZ \in Nat /\ XFER_RING_SZ > 2 BY XhciAssumption
<1>1. UNCHANGED <<xi, g_msc_slot, cmd, ictx, used, answer>> BY DEF HwTransfer, drv, hist
<1>2. PICK r : r = rings[s][ep] OBVIOUS
<1>3. rings \in [XSlot -> [EpName -> RingType(XFER_RING_SZ)]] BY DEF XhciOk, XhciTypes
<1>4. r \in RingType(XFER_RING_SZ) /\ Cycled(r, XFER_RING_SZ) /\ HasTrb(r) /\ r.on
  BY <1>2, <1>3 DEF HwTransfer, HasTrb, XhciOk, TransferInv
<1>5. TransferWaits(s, ep)
  <2>1. ~Waits(r, XFER_RING_SZ, 0) BY <1>0, <1>4, NoTrb
  <2> QED BY <1>2, <1>4, <2>1 DEF XhciOk, TransferInv, Drained
<1>6. PICK n \in 1 .. 3 : n = Len(Trbs(xi.at)) BY TrbsShape
<1>7. /\ xi.pushed /\ xi.at \in Requests \ Commands /\ s = xi.slot /\ ep = EndpointOf(xi.at) /\ Unanswered
      /\ Loaded(r, XFER_RING_SZ, n, n, xi.at, s) /\ Len(sends) >= Owed(xi.at)
  BY <1>2, <1>5, <1>6 DEF TransferWaits
<1>8. PICK p : p = Skip(AtIoc(r)) OBVIOUS
<1>9. /\ TrbOf(AtIoc(r)).op = xi.at
      /\ p \in RingType(XFER_RING_SZ) /\ Cycled(p, XFER_RING_SZ) /\ Waits(p, XFER_RING_SZ, 0)
  BY <1>0, <1>4, <1>6, <1>7, <1>8, AtIocLoaded
<1>10. PICK done \in BOOLEAN : done <=> (ok /\ (ep = "in" => ~(Head(sends).kind = "data" /\ xi.at = "csw"))) OBVIOUS
<1>11. /\ rings' = [rings EXCEPT ![s][ep] = [p EXCEPT !.on = done]]
       /\ evt' = Append(evt, Event("xfer", s, Dci(ep), done, xi.at))
  <2>1. done = (ok /\ (ep = "in" => ~(Head(sends).kind = "data" /\ TrbOf(AtIoc(rings[s][ep])).op = "csw")))
    BY <1>2, <1>9, <1>10
  <2>2. rings' = [rings EXCEPT ![s][ep] = [Skip(AtIoc(rings[s][ep])) EXCEPT !.on = done]] BY <2>1 DEF HwTransfer
  <2>3. evt' = Append(evt, Event("xfer", s, Dci(ep), done, TrbOf(AtIoc(rings[s][ep])).op)) BY <2>1 DEF HwTransfer
  <2> QED BY <2>2, <2>3, <1>2, <1>8, <1>9
<1>12. PICK q : q = [p EXCEPT !.on = done] OBVIOUS
<1>13. q \in RingType(XFER_RING_SZ) BY <1>9, <1>12 DEF RingType
<1>14. Drained(q, XFER_RING_SZ)
  <2>1. q.mem = p.mem /\ q.enq = p.enq /\ q.pcs = p.pcs /\ q.deq = p.deq /\ q.ccs = p.ccs BY <1>9, <1>12 DEF RingType
  <2>2. Cycled(q, XFER_RING_SZ) BY <2>1, <1>9, CycledSame
  <2>3. Waits(q, XFER_RING_SZ, 0) BY <2>1, <1>9 DEF Waits, InRound, Behind
  <2> QED BY <2>2, <2>3 DEF Drained
<1>15. /\ rings' \in [XSlot -> [EpName -> RingType(XFER_RING_SZ)]]
       /\ \A u \in XSlot, x \in EpName : rings'[u][x] = IF u = s /\ x = ep THEN q ELSE rings[u][x]
  BY <1>3, <1>11, <1>12, <1>13
<1>16. \A u \in XSlot : rings'[u]["kbd"] = rings[u]["kbd"] BY <1>15 DEF EpName
<1>17. PICK e : e = Event("xfer", s, Dci(ep), done, xi.at) OBVIOUS
<1>18. e.type = "xfer" /\ e.slot = s /\ e.dci = Dci(ep) /\ e.op = xi.at /\ (e.ok <=> done) BY <1>17 DEF Event
<1>19. Own(e) BY <1>7, <1>18 DEF Own, Accepts
<1>20. xi.at # "enable" BY <1>7 DEF Commands
<1>21. /\ EventInv(K)' /\ \E S : evt' \in Seq(S)
       /\ \A i \in 1 .. Len(evt') : Own(evt[i])' => evt'[i] = e
  BY <1>1, <1>7, <1>11, <1>17, <1>19, <1>20, AnswerArrives
<1>22. bot \in [cbw: Nat, asks: BOOLEAN, csw: Nat, data: Nat] /\ sends \in Seq(Item) BY DEF XhciOk, XhciTypes, Item
<1>23. /\ sends' \in Seq(Item)
       /\ done /\ xi.at = "cbw" => Len(sends') >= IF bot.asks THEN 2 ELSE 1
       /\ done /\ xi.at = "data" => Len(sends') >= 1
  <2>0. done <=> (ok /\ (ep = "in" => ~(Head(sends).kind = "data" /\ TrbOf(AtIoc(rings[s][ep])).op = "csw")))
    BY <1>2, <1>9, <1>10
  <2>1. CASE ~done
    <3>1. sends' = sends BY <2>0, <2>1 DEF HwTransfer
    <3> QED BY <2>1, <3>1, <1>22
  <2>2. CASE done /\ ep = "out"
    <3>1. sends' \in {old \o Answer : old \in {<<>>, sends}} BY <2>0, <2>2 DEF HwTransfer
    <3>2. PICK old \in {<<>>, sends} : sends' = old \o Answer BY <3>1
    <3>3. old \in Seq(Item)
      <4>1. <<>> \in Seq(Item) BY EmptySeq
      <4> QED BY <4>1, <1>22
    <3>4. xi.at # "data" BY <2>2, <1>7 DEF EndpointOf, Bulk
    <3> QED BY <3>2, <3>3, <3>4, <1>22, AnswerLength
  <2>3. CASE done /\ ep = "in"
    <3>1. sends' = Tail(sends) BY <2>0, <2>3 DEF HwTransfer
    <3>2. sends # <<>> BY <2>3 DEF HwTransfer, Willing
    <3>3. sends' \in Seq(Item) /\ Len(sends') = Len(sends) - 1 BY <3>1, <3>2, <1>22, HeadTailProperties
    <3>4. xi.at = "data" => Len(sends) >= 2 BY <1>7 DEF Owed
    <3>5. xi.at # "cbw" BY <2>3, <1>7 DEF EndpointOf
    <3> QED BY <3>3, <3>4, <3>5
  <2>4. CASE done /\ ep # "out" /\ ep # "in"
    <3>1. sends' = sends BY <2>0, <2>4 DEF HwTransfer
    <3>2. xi.at # "cbw" /\ xi.at # "data" BY <2>4, <1>7 DEF EndpointOf, Bulk
    <3> QED BY <3>1, <3>2, <1>22
  <2> QED BY <2>1, <2>2, <2>3, <2>4
<1>24. bot' \in [cbw: Nat, asks: BOOLEAN, csw: Nat, data: Nat] /\ (bot'.asks <=> bot.asks)
  <2>1. PICK t \in Nat : bot' = bot \/ bot' = [bot EXCEPT !.csw = t] \/ bot' = [bot EXCEPT !.data = t]
    <3>1. CASE bot' = bot BY <3>1
    <3>2. CASE bot' # bot
      <4>1. ep = "in" BY <3>2 DEF HwTransfer
      <4>2. sends # <<>> BY <4>1 DEF HwTransfer, Willing
      <4>3. Head(sends) \in Item BY <4>2, <1>22, HeadTailProperties
      <4>4. Head(sends).tag \in Nat BY <4>3 DEF Item
      <4>5. PICK t \in Nat : t = Head(sends).tag BY <4>4
      <4>6. PICK z \in Nat : z = IF Head(sends).kind = "data" THEN t ELSE 0 OBVIOUS
      <4>7. bot' = [bot EXCEPT !.csw = t] \/ bot' = [bot EXCEPT !.data = z] BY <3>2, <4>5, <4>6 DEF HwTransfer
      <4> QED BY <4>5, <4>6, <4>7
    <3> QED BY <3>1, <3>2
  <2>2. bot' \in [cbw: Nat, asks: BOOLEAN, csw: Nat, data: Nat] BY <2>1, <1>22
  <2>3. bot'.asks = bot.asks BY <2>1, <1>22
  <2> QED BY <2>2, <2>3
<1>25. XhciTypes' BY <1>1, <1>15, <1>21, <1>23, <1>24 DEF XhciOk, XhciTypes, Item
<1>26. StepInv'
  <2>1. xi.at \notin {"handoff2", "init"} BY <1>7 DEF Requests, Commands, ControlIn, ControlOut, Bulk
  <2> QED BY <2>1, <1>1 DEF XhciOk, StepInv
<1>27. KeyboardInv(K)' BY <1>1, <1>16 DEF XhciOk, KeyboardInv
<1>28. CommandInv'
  <2>1. ~CommandWaits BY <1>7 DEF CommandWaits
  <2> QED BY <2>1, <1>1 DEF XhciOk, CommandInv
<1>29. TransferInv'
  <2> SUFFICES ASSUME NEW u \in XSlot, NEW x \in EpName \ {"kbd"} PROVE Drained(rings'[u][x], XFER_RING_SZ)
    BY DEF TransferInv, Drained
  <2>1. CASE u = s /\ x = ep BY <2>1, <1>14, <1>15
  <2>2. CASE ~(u = s /\ x = ep)
    <3>1. rings'[u][x] = rings[u][x] BY <2>2, <1>15
    <3>2. ~TransferWaits(u, x) BY <2>2, <1>7 DEF TransferWaits
    <3> QED BY <3>1, <3>2 DEF XhciOk, TransferInv
  <2> QED BY <2>1, <2>2
<1>30. OwedInv'
  <2>1. xi.at = "cbw" => (bot'.asks <=> xi.reading) BY <1>7, <1>24 DEF XhciOk, OwedInv
  <2>2. xi'.at = "cbw" /\ xi'.pushed => bot'.asks = xi'.reading
    <3>1. bot'.asks \in BOOLEAN /\ xi.reading \in BOOLEAN BY <1>24 DEF XhciOk, XhciTypes, XiType
    <3> QED BY <2>1, <3>1, <1>1
  <2>3. ASSUME NEW i \in 1 .. Len(evt'), Own(evt[i])', evt'[i].ok
        PROVE  /\ xi'.at = "cbw" => Len(sends') >= IF xi'.reading THEN 2 ELSE 1
               /\ xi'.at = "data" => Len(sends') >= 1
    <3>1. done BY <2>3, <1>18, <1>21
    <3>2. xi.at = "cbw" => Len(sends') >= IF bot.asks THEN 2 ELSE 1 BY <3>1, <1>23
    <3>3. xi.at = "cbw" => (bot.asks <=> xi.reading) BY <2>1, <1>24
    <3> QED BY <3>1, <3>2, <3>3, <1>1, <1>23
  <2> QED BY <2>2, <2>3, <1>1, <1>7 DEF OwedInv
<1>31. answer'.want = answer'.got BY <1>1 DEF XhciOk
<1> QED BY <1>21, <1>25, <1>26, <1>27, <1>28, <1>29, <1>30, <1>31 DEF XhciOk

(* Initially there is nothing in the rings.                                *)
LEMMA XhciStart ==
  ASSUME XhciInit
  PROVE  XhciInv
<1>0. /\ CMD_RING_SZ \in Nat /\ CMD_RING_SZ > 2 /\ XFER_RING_SZ \in Nat /\ XFER_RING_SZ > 2 /\ MAX_SLOTS \in Nat
  BY XhciAssumption
<1>1. PICK n : n = EmptyRing(XFER_RING_SZ) OBVIOUS
<1>2. n \in RingType(XFER_RING_SZ) /\ Cycled(n, XFER_RING_SZ) /\ ~n.on BY <1>0, <1>1, NewRing
<1>3. cmd \in RingType(CMD_RING_SZ) /\ Cycled(cmd, CMD_RING_SZ) /\ ~cmd.on BY <1>0, NewRing DEF XhciInit
<1>4. rings = [s \in XSlot |-> [e \in EpName |-> n]] BY <1>1 DEF XhciInit
<1>5. rings \in [XSlot -> [EpName -> RingType(XFER_RING_SZ)]] /\ \A s \in XSlot, ep \in EpName : rings[s][ep] = n
  BY <1>2, <1>4
<1>6. xi \in XiType
  <2>1. "handoff" \in XStep BY DEF XStep
  <2> QED BY <2>1 DEF XhciInit, XiType
<1>7. xi.at = "handoff" /\ ~xi.pushed /\ ~xi.reading BY DEF XhciInit
<1>8. evt \in Seq({}) /\ Len(evt) = 0 /\ sends \in Seq([kind: {"data", "csw"}, tag: Nat]) /\ Len(sends) = 0 BY DEF XhciInit
<1>9. bot \in [cbw: Nat, asks: BOOLEAN, csw: Nat, data: Nat] BY DEF XhciInit
<1>10. ictx \in [ep: EpName, deq: Nat, ccs: Int] BY DEF XhciInit, EpName
<1>11. g_msc_slot = 0 /\ used = 0 /\ early = 0 /\ DOMAIN answer = {"want", "got", "read", "data"} /\ answer.want = answer.got
  BY DEF XhciInit
<1>12. XhciTypes BY <1>0, <1>3, <1>5, <1>6, <1>8, <1>9, <1>10, <1>11 DEF XhciTypes
<1>13. "handoff" \notin OnSlot /\ Owed("handoff") = 0 BY DEF OnSlot, Requests, Commands, ControlIn, ControlOut, Bulk, Owed
<1>14. StepInv BY <1>7, <1>11, <1>13 DEF StepInv
<1>15. KeyboardInv({}) BY <1>2, <1>5, <1>7, <1>13 DEF KeyboardInv, MaybeDisk, EpName
<1>16. EventInv({}) BY <1>8 DEF EventInv
<1>17. OwedInv BY <1>7, <1>8, <1>13 DEF OwedInv
<1>18. CommandInv BY <1>3 DEF CommandInv, Drained
<1>19. TransferInv BY <1>2, <1>5 DEF TransferInv, Drained
<1>20. XhciOk({}) BY <1>11, <1>12, <1>14, <1>15, <1>16, <1>17, <1>18, <1>19 DEF XhciOk
<1> QED BY <1>11, <1>20 DEF XhciInv

(* Every step of the driver, the timer interrupt, the controller and the   *)
(* devices keeps the invariant.                                            *)
LEMMA XhciStep ==
  ASSUME XhciInv, [XhciNext]_xhciVars
  PROVE  XhciInv'
<1>1. CASE UNCHANGED xhciVars
  <2>1. UNCHANGED <<xi, g_msc_slot, cmd, rings, ictx, evt, used, sends, bot, early, answer>>
    BY <1>1 DEF xhciVars, drv, dev, hist
  <2>2. ASSUME NEW K, XhciOk(K) PROVE XhciOk(K)'
    <3>1. \A e : Own(e)' <=> Own(e) BY <2>1 DEF Own, Accepts
    <3>2. Unanswered' <=> Unanswered BY <2>1, <3>1 DEF Unanswered
    <3>3. XhciTypes' BY <2>1, <2>2 DEF XhciOk, XhciTypes
    <3>4. StepInv' BY <2>1, <2>2 DEF XhciOk, StepInv
    <3>5. CommandInv' BY <2>1, <2>2, <3>2 DEF XhciOk, CommandInv, CommandWaits
    <3>6. TransferInv' BY <2>1, <2>2, <3>2 DEF XhciOk, TransferInv, TransferWaits
    <3>7. OwedInv' BY <2>1, <2>2, <3>1 DEF XhciOk, OwedInv
    <3>8. KeyboardInv(K)' BY <2>1, <2>2 DEF XhciOk, KeyboardInv
    <3>9. EventInv(K)' BY <2>1, <2>2, <3>1 DEF XhciOk, EventInv, FromKeyboard
    <3>10. answer'.want = answer'.got BY <2>1, <2>2 DEF XhciOk
    <3> QED BY <3>3, <3>4, <3>5, <3>6, <3>7, <3>8, <3>9, <3>10 DEF XhciOk
  <2> QED BY <2>1, <2>2 DEF XhciInv
<1>2. CASE XhciNext
  <2>1. CASE wait_timeout
    <3>1. early \in Nat /\ (early' = early \/ early' = early + 1) BY <2>1 DEF XhciInv, wait_timeout
    <3>2. early' \in Nat /\ (early' = 0 => early = 0) BY <3>1
    <3>3. ASSUME early' = 0 PROVE \E K \in SUBSET XSlot : XhciOk(K)'
      <4>1. early = 0 BY <3>2, <3>3
      <4>2. PICK K \in SUBSET XSlot : XhciOk(K) BY <4>1 DEF XhciInv
      <4>3. XhciOk(K)' BY <2>1, <3>3, <4>1, <4>2, WaitTimeoutOk
      <4> QED BY <4>3
    <3> QED BY <3>2, <3>3 DEF XhciInv
  <2>2. CASE ~wait_timeout
    <3>1. early' = early
      <4>1. \/ bios_handoff \/ PushCommand \/ PushTransfer \/ keyboard_ready \/ usb_msc_read \/ xhci_poll => early' = early
        BY DEF bios_handoff, PushCommand, PushTransfer, keyboard_ready, usb_msc_read, xhci_poll, hist
      <4>2. wait_event \/ EndCommand => early' = early BY DEF wait_event, EndCommand
      <4>3. \A ok \in BOOLEAN : ctrl_reset(ok) \/ ctrl_init(ok) \/ scan(ok) \/ HwCommand(ok) => early' = early
        BY DEF ctrl_reset, ctrl_init, scan, HwCommand, hist
      <4>4. \A entry, waited, cycled, reset \in PortReading : port_reset(entry, waited, cycled, reset) => early' = early
        BY DEF port_reset, hist
      <4>5. \A s, ep, ok, report : HwTransfer(s, ep, ok, report) => early' = early BY DEF HwTransfer, hist
      <4> QED BY <1>2, <2>2, <4>1, <4>2, <4>3, <4>4, <4>5 DEF XhciNext
    <3>2. SUFFICES ASSUME NEW K \in SUBSET XSlot, XhciOk(K) PROVE \E L \in SUBSET XSlot : XhciOk(L)'
      BY <3>1 DEF XhciInv
    <3>3. CASE bios_handoff BY <3>2, <3>3, BiosHandoffOk
    <3>4. CASE \E ok \in BOOLEAN : ctrl_reset(ok) \/ ctrl_init(ok) \/ scan(ok)
      <4>1. PICK ok \in BOOLEAN : ctrl_reset(ok) \/ ctrl_init(ok) \/ scan(ok) BY <3>4
      <4>2. CASE ctrl_reset(ok) BY <3>2, <4>2, CtrlResetOk
      <4>3. CASE ctrl_init(ok) BY <3>2, <4>3, CtrlInitOk
      <4>4. CASE scan(ok) BY <3>2, <4>4, ScanOk
      <4> QED BY <4>1, <4>2, <4>3, <4>4
    <3>5. CASE \E entry, waited, cycled, reset \in PortReading : port_reset(entry, waited, cycled, reset)
      <4>1. PICK entry, waited, cycled, reset \in PortReading : port_reset(entry, waited, cycled, reset) BY <3>5
      <4> QED BY <3>2, <4>1, PortResetOk
    <3>6. CASE PushCommand BY <3>2, <3>6, PushCommandOk
    <3>7. CASE PushTransfer BY <3>2, <3>7, PushTransferOk
    <3>8. CASE wait_event
      <4>1. CASE ~Accepts(Head(evt))
        <5>1. evt # <<>> /\ evt' = Tail(evt) BY <3>8 DEF wait_event
        <5>2. UNCHANGED <<xi, rings, answer>> BY <3>8, <4>1 DEF wait_event
        <5>3. UNCHANGED <<g_msc_slot, cmd, ictx, used, sends, bot>> BY <3>8 DEF wait_event, drv, dev
        <5> QED BY <3>2, <4>1, <5>1, <5>2, <5>3, DropOk
      <4>2. CASE Accepts(Head(evt)) /\ xi.at = "enable" /\ Head(evt).ok /\ Head(evt).slot # 0
        BY <3>2, <3>8, <4>2, SlotGivenOk
      <4>3. CASE Accepts(Head(evt)) /\ ~(xi.at = "enable" /\ Head(evt).ok /\ Head(evt).slot # 0)
        BY <3>2, <3>8, <4>3, AnswerOk
      <4> QED BY <4>1, <4>2, <4>3
    <3>9. CASE keyboard_ready BY <3>2, <3>9, KeyboardReadyOk
    <3>10. CASE usb_msc_read BY <3>2, <3>10, ReadOk
    <3>11. CASE EndCommand BY <3>2, <3>11, EndCommandOk
    <3>12. CASE xhci_poll BY <3>2, <3>12, PollOk
    <3>13. CASE \E ok \in BOOLEAN : HwCommand(ok) BY <3>2, <3>13, HwCommandOk
    <3>14. CASE \E s \in XSlot, ok \in BOOLEAN :
                  \/ \E ep \in EpName \ {"kbd"} : HwTransfer(s, ep, ok, {})
                  \/ \E report \in SUBSET Keys : HwTransfer(s, "kbd", ok, report)
      <4>1. PICK s \in XSlot, ok \in BOOLEAN :
                  \/ \E ep \in EpName \ {"kbd"} : HwTransfer(s, ep, ok, {})
                  \/ \E report \in SUBSET Keys : HwTransfer(s, "kbd", ok, report)
        BY <3>14
      <4>2. CASE \E ep \in EpName \ {"kbd"} : HwTransfer(s, ep, ok, {}) BY <3>2, <4>2, TransferOk
      <4>3. CASE \E report \in SUBSET Keys : HwTransfer(s, "kbd", ok, report) BY <3>2, <4>3, ReportOk
      <4> QED BY <4>1, <4>2, <4>3
    <3> QED BY <1>2, <2>2, <3>3, <3>4, <3>5, <3>6, <3>7, <3>8, <3>9, <3>10, <3>11, <3>12, <3>13, <3>14 DEF XhciNext
  <2> QED BY <2>1, <2>2
<1> QED BY <1>1, <1>2

(* xhci.c: as long as no wait has been given up while its answer was to    *)
(* come, what cmd_wait or xfer_wait accepts is the answer to the driver's  *)
(* own request, with a command ring of three places or more and transfer   *)
(* rings of five or more, for any number of slots, controllers, ports and  *)
(* retries, and whatever xhci_poll takes away.                             *)
THEOREM WaitsAnswered == XhciSpec => []AnswersOwn
<1>1. XhciInit => XhciInv BY XhciStart
<1>2. XhciInv /\ [XhciNext]_xhciVars => XhciInv' BY XhciStep
<1>3. XhciInv => AnswersOwn BY DEF XhciInv, XhciOk, AnswersOwn
<1> QED BY <1>1, <1>2, <1>3, PTL DEF XhciSpec

-----------------------------------------------------------------------------
(* The keyboards.                                                          *)

\* An event, and a byte of the PS/2 keyboard.
KeyEvent == UsbKeys \cup PsEvents \cup {KEY_NONE, "garbage"}
KeyByte == [sc: {"E0", "1E", "1C", "48"}, released: BOOLEAN]

\* Types.
KeyTypes ==
  /\ wire \in Seq(KeyByte) /\ extended \in BOOLEAN /\ filled \in BOOLEAN
  /\ s_key_queue \in [0 .. MAX_KEYEVENTS - 1 -> KeyEvent] /\ s_key_queue_len \in 0 .. MAX_KEYEVENTS
  /\ s_reading_task \in Task \cup {NoTask}
  /\ state \in [Task -> {"READY", "BLOCKED", "DEAD"}]
  /\ pressed \in Seq(PsEvents) /\ injected \in Seq(UsbKeys) /\ delivered \in Seq(KeyEvent)
  /\ pc \in [Task -> {"user", "reading", "first", "counting"}] /\ ev_read \in [Task -> KeyEvent]
  /\ Waiting \in 0 .. MAX_KEYEVENTS

\* The bytes w on the wire, the last one taken having been a prefix if x: a prefix
\* is followed by the code of the arrow key.
Codes(w, x) ==
  /\ \A i \in 1 .. Len(w) : w[i].sc = "E0" => w[i] = Prefix /\ i < Len(w) /\ w[i + 1].sc = "48"
  /\ x => Len(w) > 0 /\ w[1].sc = "48"

\* The event that the i-th byte will make.
Extends(w, x, i) == IF i = 1 THEN x ELSE w[i - 1] = Prefix
EventAt(w, x, i) ==
  IF w[i] = Prefix \/ w[i].released THEN KEY_NONE
  ELSE IF Extends(w, x, i) THEN IF w[i].sc = "48" THEN "up" ELSE KEY_NONE
  ELSE IF w[i].sc = "1C" THEN "return" ELSE IF w[i].sc = "1E" THEN "a" ELSE KEY_NONE

\* The bytes make the events of p after the first m; f[i] of the events are made by
\* the time the i-th byte has been taken.
Makes(w, x, p, m, f) ==
  /\ f \in [0 .. Len(w) -> 0 .. Len(p)] /\ f[0] = m /\ f[Len(w)] = Len(p)
  /\ \A i \in 1 .. Len(w) :
       IF EventAt(w, x, i) = KEY_NONE THEN f[i] = f[i - 1]
       ELSE f[i] = f[i - 1] + 1 /\ p[f[i]] = EventAt(w, x, i)

\* The events that were read or wait.
Held == delivered \o KeyQueue

\* The queue is not full and has no entries beyond its length.
Trimmed ==
  /\ Waiting < MAX_KEYEVENTS
  /\ \A i \in 0 .. MAX_KEYEVENTS - 1 : s_key_queue[i] # KEY_NONE <=> i < Waiting

\* Until it was full: the events are those of the keyboards, and the bytes on the
\* wire will make the others of the PS/2 keyboard.
HeldInv ==
  /\ Trimmed
  /\ \A i \in 1 .. Len(Held) : Held[i] \in UsbKeys \cup PsEvents
  /\ AreFirst(Held, UsbKeys, injected, Len(injected))
  /\ \E m, f : m \in Nat /\ AreFirst(Held, PsEvents, pressed, m) /\ Makes(wire, extended, pressed, m, f)

\* A task that is blocked is the reader, and no event waits.
ReaderInv ==
  \A t \in Task : state[t] = "BLOCKED" => s_reading_task = t /\ (filled \/ Waiting = 0)

\* One task at most is in the keyboard_read that can be interrupted; what it took is
\* still the first entry until the others are moved up.
InsideInv ==
  /\ \A t, u \in Inside : t = u
  /\ \A t \in Task : pc[t] = "first" => ev_read[t] = s_key_queue[0]
  /\ \A t \in Task : pc[t] = "counting" => s_key_queue_len > 0

\* The inductive invariant, until nothing is promised any more.
KeysInv == KeyTypes /\ Codes(wire, extended) /\ (~filled => HeldInv) /\ ReaderInv /\ InsideInv
UnracedInv == raced \in BOOLEAN /\ (~raced => KeysInv)

(* With no task inside keyboard_read the events that wait are the queue.   *)
LEMMA NobodyInside ==
  ASSUME Inside = {}
  PROVE  Waiting = s_key_queue_len /\ InsideInv
<1>1. \A t \in Task : pc[t] # "first" /\ pc[t] # "counting" BY DEF Inside
<1> QED BY <1>1 DEF Waiting, InsideInv

(* Counting the events in a set, one by one.                               *)
LEMMA CountNext ==
  ASSUME NEW d, NEW S, NEW i \in Nat
  PROVE  /\ CountOf(d, S, i) \in Nat
         /\ CountOf(d, S, i + 1) = CountOf(d, S, i) + IF d[i + 1] \in S THEN 1 ELSE 0
<1> DEFINE A == {j \in 1 .. i : d[j] \in S}
           B == {j \in 1 .. i + 1 : d[j] \in S}
<1>1. IsFiniteSet(A) /\ Cardinality(A) \in Nat
  <2>1. IsFiniteSet(1 .. i) BY FS_Interval
  <2> QED BY <2>1, FS_Subset, FS_CardinalityType
<1>2. B = IF d[i + 1] \in S THEN A \cup {i + 1} ELSE A OBVIOUS
<1>3. i + 1 \notin A OBVIOUS
<1>4. Cardinality(A \cup {i + 1}) = Cardinality(A) + 1
  <2> HIDE DEF A
  <2> QED BY <1>1, <1>3, FS_AddElement
<1>5. CountOf(d, S, i) = Cardinality(A) /\ CountOf(d, S, i + 1) = Cardinality(B) BY DEF CountOf
<1> HIDE DEF A, B
<1> QED BY <1>1, <1>2, <1>4, <1>5

(* A count grows with the sequence, and an event in the set is counted.    *)
LEMMA CountGrows ==
  ASSUME NEW d, NEW S, NEW i \in Nat, NEW j \in 0 .. i
  PROVE  /\ CountOf(d, S, j) <= CountOf(d, S, i)
         /\ j > 0 /\ d[j] \in S => CountOf(d, S, j) > 0
<1> DEFINE A == {k \in 1 .. j : d[k] \in S}
           B == {k \in 1 .. i : d[k] \in S}
<1>1. IsFiniteSet(B) /\ A \subseteq B
  <2>1. IsFiniteSet(1 .. i) BY FS_Interval
  <2> QED BY <2>1, FS_Subset
<1>2. Cardinality(A) <= Cardinality(B)
  <2> HIDE DEF A, B
  <2> QED BY <1>1, FS_Subset
<1>3. ASSUME j > 0, d[j] \in S PROVE CountOf(d, S, j) > 0
  <2>1. PICK k \in Nat : j = k + 1 BY <1>3
  <2>2. CountOf(d, S, k) \in Nat /\ CountOf(d, S, k + 1) = CountOf(d, S, k) + 1 BY <1>3, <2>1, CountNext
  <2> QED BY <2>1, <2>2
<1> QED BY <1>2, <1>3 DEF CountOf

(* The events of a keyboard stay the first ones when it enters another.    *)
LEMMA AreFirstGrows ==
  ASSUME NEW X, NEW d \in Seq(X), NEW S, NEW T, NEW s \in Seq(T), NEW e \in T, NEW n \in Nat, n <= Len(s),
         AreFirst(d, S, s, n)
  PROVE  AreFirst(d, S, Append(s, e), n)
<1> SUFFICES ASSUME NEW i \in 1 .. Len(d), d[i] \in S
             PROVE  d[i] = Append(s, e)[CountOf(d, S, i)]
  BY DEF AreFirst
<1>1. d[i] = s[CountOf(d, S, i)] BY DEF AreFirst
<1>2. CountOf(d, S, i) <= n /\ CountOf(d, S, i) > 0
  <2>1. Len(d) \in Nat /\ i \in 0 .. Len(d) /\ i > 0 OBVIOUS
  <2>2. CountOf(d, S, i) <= CountOf(d, S, Len(d)) /\ CountOf(d, S, i) > 0 BY <2>1, CountGrows
  <2> QED BY <2>2 DEF AreFirst
<1>3. CountOf(d, S, i) \in Nat BY CountNext
<1>4. CountOf(d, S, i) \in 1 .. Len(s) BY <1>2, <1>3
<1> QED BY <1>1, <1>4

(* An event is put after the others.                                       *)
LEMMA AreFirstAppend ==
  ASSUME NEW X, NEW d \in Seq(X), NEW S, NEW s, NEW e \in X, NEW n \in Nat, AreFirst(d, S, s, n),
         e \in S => s[n + 1] = e, NEW m, m = IF e \in S THEN n + 1 ELSE n
  PROVE  AreFirst(Append(d, e), S, s, m)
<1>1. PICK c : c = Append(d, e) OBVIOUS
<1>2. PICK l \in Nat : l = Len(d) OBVIOUS
<1>3. Len(c) = l + 1 /\ c[l + 1] = e /\ \A i \in 1 .. l : c[i] = d[i] BY <1>1, <1>2
<1>4. ASSUME NEW i \in 0 .. l PROVE CountOf(c, S, i) = CountOf(d, S, i)
  <2>1. {j \in 1 .. i : c[j] \in S} = {j \in 1 .. i : d[j] \in S} BY <1>3
  <2> QED BY <2>1 DEF CountOf
<1>5. CountOf(c, S, l) = n BY <1>2, <1>4 DEF AreFirst
<1>6. CountOf(c, S, l + 1) = m
  <2>1. CountOf(c, S, l + 1) = CountOf(c, S, l) + IF c[l + 1] \in S THEN 1 ELSE 0 BY CountNext, SMTT(30)
  <2> QED BY <1>3, <1>5, <2>1
<1>7. ASSUME NEW i \in 1 .. l + 1, c[i] \in S PROVE c[i] = s[CountOf(c, S, i)]
  <2>1. CASE i = l + 1 BY <1>3, <1>6, <1>7, <2>1
  <2>2. CASE i # l + 1
    <3>1. i \in 1 .. l /\ i \in 0 .. l BY <2>2
    <3>2. c[i] = d[i] /\ CountOf(c, S, i) = CountOf(d, S, i) BY <1>3, <1>4, <3>1
    <3> QED BY <1>2, <1>7, <3>1, <3>2 DEF AreFirst
  <2> QED BY <2>1, <2>2
<1> QED BY <1>1, <1>3, <1>6, <1>7 DEF AreFirst

(* The keyboard sends a byte: what was on the wire makes the same events,  *)
(* and the byte makes the next one or none.                                *)
LEMMA SendByte ==
  ASSUME NEW w \in Seq(KeyByte), NEW x \in BOOLEAN, NEW p \in Seq(PsEvents), NEW m, NEW f, Makes(w, x, p, m, f),
         NEW b \in KeyByte, NEW v, v = Append(w, b),
         NEW e, e = EventAt(v, x, Len(w) + 1), NEW q, q = IF e = KEY_NONE THEN p ELSE Append(p, e)
  PROVE  q \in Seq(PsEvents) /\ \E g : Makes(v, x, q, m, g)
<1>1. e \in PsEvents \cup {KEY_NONE} BY DEF EventAt, PsEvents
<1>2. q \in Seq(PsEvents) /\ Len(q) = (IF e = KEY_NONE THEN Len(p) ELSE Len(p) + 1) /\ \A i \in 1 .. Len(p) : q[i] = p[i]
  BY <1>1
<1>3. PICK l \in Nat : l = Len(w) OBVIOUS
<1>4. v \in Seq(KeyByte) /\ Len(v) = l + 1 /\ v[l + 1] = b /\ \A i \in 1 .. l : v[i] = w[i] BY <1>3
<1>5. ASSUME NEW i \in 1 .. l PROVE EventAt(v, x, i) = EventAt(w, x, i)
  <2>1. v[i] = w[i] BY <1>4
  <2>2. i # 1 => i - 1 \in 1 .. l OBVIOUS
  <2>3. Extends(v, x, i) = Extends(w, x, i)
    <3>1. CASE i = 1 BY <3>1 DEF Extends
    <3>2. CASE i # 1 BY <1>4, <2>2, <3>2 DEF Extends
    <3> QED BY <3>1, <3>2
  <2> QED BY <2>1, <2>3 DEF EventAt
<1>6. PICK g : g = [i \in 0 .. l + 1 |-> IF i = l + 1 THEN Len(q) ELSE f[i]] OBVIOUS
<1>7. f \in [0 .. l -> 0 .. Len(p)] /\ f[0] = m /\ f[l] = Len(p) BY <1>3 DEF Makes
<1>8. g \in [0 .. l + 1 -> 0 .. Len(q)]
  <2>1. \A i \in 0 .. l + 1 : i # l + 1 => i \in 0 .. l OBVIOUS
  <2>2. Len(q) \in Nat /\ Len(p) \in Nat /\ Len(p) <= Len(q) BY <1>2
  <2>3. \A i \in 0 .. l : f[i] \in 0 .. Len(q) BY <1>7, <2>2
  <2> QED BY <1>6, <2>1, <2>2, <2>3
<1>9. g[0] = m /\ g[l + 1] = Len(q) /\ \A i \in 0 .. l : g[i] = f[i] BY <1>6, <1>7
<1>10. ASSUME NEW i \in 1 .. l + 1
       PROVE  IF EventAt(v, x, i) = KEY_NONE THEN g[i] = g[i - 1]
              ELSE g[i] = g[i - 1] + 1 /\ q[g[i]] = EventAt(v, x, i)
  <2>1. CASE i = l + 1
    <3>1. g[i] = Len(q) /\ g[i - 1] = Len(p) BY <1>7, <1>9, <2>1
    <3>2. EventAt(v, x, i) = e BY <1>3, <2>1
    <3>3. CASE e = KEY_NONE BY <1>2, <3>1, <3>2, <3>3
    <3>4. CASE e # KEY_NONE
      <4>1. q = Append(p, e) /\ Len(q) = Len(p) + 1 BY <1>2, <3>4
      <4>2. q[Len(q)] = e BY <4>1
      <4> QED BY <3>1, <3>2, <3>4, <4>1, <4>2
    <3> QED BY <3>3, <3>4
  <2>2. CASE i # l + 1
    <3>1. i \in 1 .. l /\ i \in 0 .. l /\ i - 1 \in 0 .. l BY <2>2
    <3>2. g[i] = f[i] /\ g[i - 1] = f[i - 1] /\ EventAt(v, x, i) = EventAt(w, x, i) BY <1>5, <1>9, <3>1
    <3>3. f[i] \in 0 .. Len(p) /\ f[i - 1] \in 0 .. Len(p) BY <1>7, <3>1
    <3>4. IF EventAt(w, x, i) = KEY_NONE THEN f[i] = f[i - 1]
          ELSE f[i] = f[i - 1] + 1 /\ p[f[i]] = EventAt(w, x, i)
      BY <1>3, <3>1 DEF Makes
    <3>5. EventAt(w, x, i) # KEY_NONE => q[f[i]] = p[f[i]] BY <1>2, <3>3, <3>4
    <3> QED BY <3>2, <3>4, <3>5
  <2> QED BY <2>1, <2>2
<1>11. Makes(v, x, q, m, g) BY <1>4, <1>8, <1>9, <1>10 DEF Makes
<1> QED BY <1>2, <1>11

\* v is left of the bytes w when an interrupt has taken one, y telling if it was a
\* prefix.
Taken(w, v, y) == w # <<>> /\ v = Tail(w) /\ (y <=> w[1] = Prefix)

(* An interrupt takes a byte.                                              *)
LEMMA TakeKeyByte ==
  ASSUME NEW w \in Seq(KeyByte), NEW x \in BOOLEAN, NEW p \in Seq(PsEvents), NEW m, NEW f, Makes(w, x, p, m, f),
         NEW v, NEW y \in BOOLEAN, Taken(w, v, y), NEW e, e = EventAt(w, x, 1)
  PROVE  /\ e \in PsEvents \cup {KEY_NONE}
         /\ m \in 0 .. Len(p)
         /\ e = KEY_NONE => \E g : Makes(v, y, p, m, g)
         /\ e # KEY_NONE => p[m + 1] = e /\ \E g : Makes(v, y, p, m + 1, g)
<1>0. w # <<>> /\ v = Tail(w) /\ (y <=> w[1] = Prefix) BY DEF Taken
<1>1. PICK l \in Nat : Len(w) = l + 1
  <2>1. Len(w) \in Nat /\ Len(w) # 0 BY <1>0
  <2>2. Len(w) - 1 \in Nat /\ Len(w) = (Len(w) - 1) + 1 BY <2>1
  <2> QED BY <2>2
<1>2. v \in Seq(KeyByte) /\ Len(v) = l /\ \A i \in 1 .. l : v[i] = w[i + 1] BY <1>0, <1>1
<1>3. ASSUME NEW i \in 1 .. l PROVE EventAt(v, y, i) = EventAt(w, x, i + 1)
  <2>1. v[i] = w[i + 1] BY <1>2
  <2>2. Extends(v, y, i) <=> Extends(w, x, i + 1)
    <3>1. CASE i = 1
      <4>1. i + 1 # 1 /\ i + 1 - 1 = 1 BY <3>1
      <4>2. Extends(v, y, i) <=> y BY <3>1 DEF Extends
      <4>3. Extends(w, x, i + 1) <=> w[1] = Prefix BY <4>1 DEF Extends
      <4> QED BY <1>0, <4>2, <4>3
    <3>2. CASE i # 1
      <4>1. i + 1 # 1 /\ i + 1 - 1 = i /\ i - 1 \in 1 .. l /\ i - 1 + 1 = i BY <3>2
      <4>2. v[i - 1] = w[i] BY <1>2, <4>1
      <4>3. Extends(v, y, i) <=> v[i - 1] = Prefix BY <3>2 DEF Extends
      <4>4. Extends(w, x, i + 1) <=> w[i] = Prefix BY <4>1 DEF Extends
      <4> QED BY <4>2, <4>3, <4>4
    <3> QED BY <3>1, <3>2
  <2> QED BY <2>1, <2>2 DEF EventAt
<1>4. PICK g : g = [i \in 0 .. l |-> f[i + 1]] OBVIOUS
<1>5. f \in [0 .. l + 1 -> 0 .. Len(p)] /\ f[0] = m /\ f[l + 1] = Len(p) BY <1>1 DEF Makes
<1>6. g \in [0 .. l -> 0 .. Len(p)]
  <2>1. \A i \in 0 .. l : i + 1 \in 0 .. l + 1 OBVIOUS
  <2> QED BY <1>4, <1>5, <2>1
<1>7. g[0] = f[1] /\ g[l] = Len(p) /\ \A i \in 0 .. l : g[i] = f[i + 1] BY <1>4, <1>5
<1>8. ASSUME NEW i \in 1 .. l
      PROVE  IF EventAt(v, y, i) = KEY_NONE THEN g[i] = g[i - 1]
             ELSE g[i] = g[i - 1] + 1 /\ p[g[i]] = EventAt(v, y, i)
  <2>1. i + 1 \in 1 .. l + 1 /\ i \in 0 .. l /\ i - 1 \in 0 .. l /\ i + 1 - 1 = i /\ i - 1 + 1 = i OBVIOUS
  <2>2. g[i] = f[i + 1] /\ g[i - 1] = f[i] BY <1>7, <2>1
  <2>3. IF EventAt(w, x, i + 1) = KEY_NONE THEN f[i + 1] = f[i]
        ELSE f[i + 1] = f[i] + 1 /\ p[f[i + 1]] = EventAt(w, x, i + 1)
    BY <1>1, <2>1 DEF Makes
  <2> QED BY <1>3, <2>2, <2>3
<1>9. Makes(v, y, p, f[1], g) BY <1>2, <1>6, <1>7, <1>8 DEF Makes
<1>10. IF e = KEY_NONE THEN f[1] = f[0] ELSE f[1] = f[0] + 1 /\ p[f[1]] = e
  <2>1. 1 \in 1 .. l + 1 /\ 1 - 1 = 0 OBVIOUS
  <2> QED BY <1>1, <2>1 DEF Makes
<1>11. f[1] \in 0 .. Len(p) /\ m \in 0 .. Len(p)
  <2>1. 0 \in 0 .. l + 1 /\ 1 \in 0 .. l + 1 OBVIOUS
  <2> QED BY <1>5, <2>1
<1>12. e \in PsEvents \cup {KEY_NONE} BY DEF EventAt, PsEvents
<1>13. CASE e = KEY_NONE BY <1>5, <1>9, <1>10, <1>11, <1>12, <1>13
<1>14. CASE e # KEY_NONE
  <2>1. f[1] = m + 1 /\ p[m + 1] = e BY <1>5, <1>10, <1>14
  <2>2. m + 1 \in 1 .. Len(p) BY <1>11, <2>1
  <2> QED BY <1>9, <1>11, <1>12, <1>14, <2>1, <2>2
<1> QED BY <1>13, <1>14

\* The events d and then the first n of the queue q.
IsHeld(h, d, n, q) == h = d \o [i \in 1 .. n |-> q[i - 1]]
HeldParts(h, d, n, q) ==
  /\ h \in Seq(KeyEvent) /\ Len(h) = Len(d) + n
  /\ \A i \in 1 .. Len(d) : h[i] = d[i]
  /\ \A i \in 1 .. n : h[Len(d) + i] = q[i - 1]

(* The events that were read and those that wait.                          *)
LEMMA HeldShape ==
  ASSUME NEW d \in Seq(KeyEvent), NEW n \in Nat, n <= MAX_KEYEVENTS, NEW q \in [0 .. MAX_KEYEVENTS - 1 -> KeyEvent],
         NEW h, IsHeld(h, d, n, q)
  PROVE  HeldParts(h, d, n, q)
<1>1. MAX_KEYEVENTS \in Nat BY KeyboardAssumption
<1>2. \A i \in 1 .. n : q[i - 1] \in KeyEvent
  <2>1. \A i \in 1 .. n : i - 1 \in 0 .. MAX_KEYEVENTS - 1 BY <1>1
  <2> QED BY <2>1
<1>3. PICK b : b = [i \in 1 .. n |-> q[i - 1]] OBVIOUS
<1>4. b \in [1 .. n -> KeyEvent] /\ n \in Nat BY <1>1, <1>2, <1>3
<1>5. b \in Seq(KeyEvent) /\ Len(b) = n BY <1>4, FunctionIsSeq
<1>6. \A i \in 1 .. n : b[i] = q[i - 1] BY <1>3
<1>7. /\ d \o b \in Seq(KeyEvent) /\ Len(d \o b) = Len(d) + Len(b)
      /\ \A i \in 1 .. Len(d) : (d \o b)[i] = d[i]
      /\ \A i \in 1 .. Len(b) : (d \o b)[Len(d) + i] = b[i]
  BY <1>5
<1>8. h = d \o b BY <1>3 DEF IsHeld
<1> QED BY <1>5, <1>6, <1>7, <1>8 DEF HeldParts

(* on_key_event: the types, and who is woken.                              *)
LEMMA EventTypes ==
  ASSUME KeyTypes, NEW ev \in UsbKeys \cup PsEvents, on_key_event(ev)
  PROVE  /\ s_key_queue' \in [0 .. MAX_KEYEVENTS - 1 -> KeyEvent] /\ s_key_queue_len' \in 0 .. MAX_KEYEVENTS
         /\ filled' \in BOOLEAN /\ (filled => filled')
         /\ s_reading_task' = NoTask /\ state' \in [Task -> {"READY", "BLOCKED", "DEAD"}]
         /\ ReaderInv => \A t \in Task : state'[t] # "BLOCKED"
<1>1. MAX_KEYEVENTS \in Nat /\ ev \in KeyEvent /\ NoTask \notin Task BY KeyboardAssumption DEF KeyEvent
<1>2. s_key_queue' \in [0 .. MAX_KEYEVENTS - 1 -> KeyEvent] /\ s_key_queue_len' \in 0 .. MAX_KEYEVENTS
  <2>1. CASE s_key_queue_len < MAX_KEYEVENTS
    <3>1. s_key_queue' = [s_key_queue EXCEPT ![s_key_queue_len] = ev] /\ s_key_queue_len' = s_key_queue_len + 1
      BY <2>1 DEF on_key_event
    <3>2. s_key_queue_len' \in 0 .. MAX_KEYEVENTS BY <1>1, <2>1, <3>1 DEF KeyTypes
    <3> QED BY <1>1, <3>1, <3>2 DEF KeyTypes
  <2>2. CASE ~(s_key_queue_len < MAX_KEYEVENTS) BY <2>2 DEF on_key_event, KeyTypes
  <2> QED BY <2>1, <2>2
<1>3. filled' \in BOOLEAN /\ (filled => filled') /\ s_reading_task' = NoTask BY DEF on_key_event
<1>4. CASE s_reading_task = NoTask
  <2>1. state' = state BY <1>4 DEF on_key_event
  <2>2. ReaderInv => \A t \in Task : state[t] # "BLOCKED" BY <1>1, <1>4 DEF ReaderInv
  <2> QED BY <1>2, <1>3, <2>1, <2>2 DEF KeyTypes
<1>5. CASE s_reading_task # NoTask
  <2>1. s_reading_task \in Task BY <1>5 DEF KeyTypes
  <2>2. state' = [state EXCEPT ![s_reading_task] = IF @ = "BLOCKED" THEN "READY" ELSE @]
    BY <1>5 DEF on_key_event, task_set_ready
  <2>3. state' \in [Task -> {"READY", "BLOCKED", "DEAD"}] BY <2>1, <2>2 DEF KeyTypes
  <2>4. ASSUME ReaderInv, NEW t \in Task PROVE state'[t] # "BLOCKED"
    <3>1. CASE t = s_reading_task BY <2>1, <2>2, <3>1 DEF KeyTypes
    <3>2. CASE t # s_reading_task
      <4>1. state'[t] = state[t] BY <2>1, <2>2, <3>2 DEF KeyTypes
      <4> QED BY <2>4, <3>2, <4>1 DEF ReaderInv
    <3> QED BY <3>1, <3>2
  <2> QED BY <1>2, <1>3, <2>3, <2>4
<1> QED BY <1>4, <1>5

(* on_key_event puts the event after the others.                           *)
LEMMA EventHeld ==
  ASSUME KeyTypes, KeyTypes', Trimmed, NEW ev \in UsbKeys \cup PsEvents, on_key_event(ev), ~filled', delivered' = delivered,
         Waiting = s_key_queue_len, Waiting' = s_key_queue_len'
  PROVE  Trimmed' /\ Held' = Append(Held, ev)
<1>1. MAX_KEYEVENTS \in Nat /\ s_key_queue_len \in Nat /\ ev \in KeyEvent /\ ev # KEY_NONE
  <2>1. ev \in KeyEvent BY DEF KeyEvent
  <2>2. ev # KEY_NONE BY KeyboardAssumption DEF PsEvents, KEY_NONE
  <2>3. MAX_KEYEVENTS \in Nat /\ s_key_queue_len \in Nat BY KeyboardAssumption DEF KeyTypes
  <2> QED BY <2>1, <2>2, <2>3
<1>2. PICK l \in Nat : l = s_key_queue_len BY <1>1
<1>3. l + 1 < MAX_KEYEVENTS
  <2>1. ~(s_key_queue_len >= MAX_KEYEVENTS - 1) BY DEF on_key_event
  <2> QED BY <1>1, <1>2, <2>1
<1>4. s_key_queue' = [s_key_queue EXCEPT ![l] = ev] /\ s_key_queue_len' = l + 1
  BY <1>2 DEF on_key_event, Trimmed
<1>5. s_key_queue'[l] = ev /\ \A i \in 0 .. MAX_KEYEVENTS - 1 : i # l => s_key_queue'[i] = s_key_queue[i]
  BY <1>1, <1>2, <1>3, <1>4 DEF KeyTypes
<1>6. Trimmed'
  <2>1. ASSUME NEW i \in 0 .. MAX_KEYEVENTS - 1 PROVE s_key_queue'[i] # KEY_NONE <=> i < l + 1
    <3>1. CASE i = l BY <1>1, <1>5, <3>1
    <3>2. CASE i # l
      <4>1. s_key_queue'[i] # KEY_NONE <=> i < l BY <1>2, <1>5, <3>2 DEF Trimmed
      <4> QED BY <3>2, <4>1
    <3> QED BY <3>1, <3>2
  <2> QED BY <1>3, <1>4, <2>1 DEF Trimmed
<1>7. PICK n \in Nat : n = Len(delivered) BY DEF KeyTypes
<1>8. PICK h : h = Held OBVIOUS
<1>9. PICK g : g = Held' OBVIOUS
<1>10. h \in Seq(KeyEvent) /\ Len(h) = n + l /\ (\A i \in 1 .. n : h[i] = delivered[i])
       /\ \A i \in 1 .. l : h[n + i] = s_key_queue[i - 1]
  <2>1. IsHeld(h, delivered, l, s_key_queue) BY <1>2, <1>8 DEF Held, KeyQueue, IsHeld
  <2>2. delivered \in Seq(KeyEvent) /\ l <= MAX_KEYEVENTS /\ s_key_queue \in [0 .. MAX_KEYEVENTS - 1 -> KeyEvent]
    BY <1>1, <1>2 DEF KeyTypes
  <2>3. HeldParts(h, delivered, l, s_key_queue) BY <1>1, <2>1, <2>2, HeldShape
  <2> QED BY <1>7, <2>3 DEF HeldParts
<1>11. g \in Seq(KeyEvent) /\ Len(g) = n + (l + 1) /\ (\A i \in 1 .. n : g[i] = delivered[i])
       /\ \A i \in 1 .. l + 1 : g[n + i] = s_key_queue'[i - 1]
  <2>1. IsHeld(g, delivered', l + 1, s_key_queue') BY <1>4, <1>9 DEF Held, KeyQueue, IsHeld
  <2>2. delivered' \in Seq(KeyEvent) /\ l + 1 <= MAX_KEYEVENTS /\ s_key_queue' \in [0 .. MAX_KEYEVENTS - 1 -> KeyEvent]
    BY <1>3, <1>4 DEF KeyTypes
  <2>3. HeldParts(g, delivered', l + 1, s_key_queue') BY <1>1, <2>1, <2>2, HeldShape
  <2> QED BY <1>7, <2>3 DEF HeldParts
<1>12. PICK a : a = Append(h, ev) OBVIOUS
<1>13. a \in Seq(KeyEvent) /\ Len(a) = n + l + 1 /\ a[n + l + 1] = ev /\ \A i \in 1 .. n + l : a[i] = h[i]
  BY <1>1, <1>10, <1>12
<1>14. ASSUME NEW i \in 1 .. n + l + 1 PROVE g[i] = a[i]
  <2>1. CASE i <= n
    <3>1. i \in 1 .. n /\ i \in 1 .. n + l BY <2>1
    <3> QED BY <1>10, <1>11, <1>13, <3>1
  <2>2. CASE n < i
    <3>1. PICK k \in 1 .. l + 1 : i = n + k
      <4>1. i - n \in 1 .. l + 1 /\ i = n + (i - n) BY <2>2
      <4> QED BY <4>1
    <3>2. g[i] = s_key_queue'[k - 1] BY <1>11, <3>1
    <3>3. CASE k = l + 1
      <4>1. k - 1 = l /\ i = n + l + 1 BY <3>1, <3>3
      <4> QED BY <1>5, <1>13, <3>2, <4>1
    <3>4. CASE k # l + 1
      <4>1. k \in 1 .. l /\ i \in 1 .. n + l /\ k - 1 \in 0 .. MAX_KEYEVENTS - 1 /\ k - 1 # l
        BY <1>1, <1>3, <3>1, <3>4
      <4>2. s_key_queue'[k - 1] = s_key_queue[k - 1] BY <1>5, <4>1
      <4>3. a[i] = h[n + k] /\ h[n + k] = s_key_queue[k - 1] BY <1>10, <1>13, <3>1, <4>1
      <4> QED BY <3>2, <4>2, <4>3
    <3> QED BY <3>3, <3>4
  <2> QED BY <2>1, <2>2
<1>15. g = a
  <2>1. Len(g) = Len(a) /\ \A i \in 1 .. Len(g) : g[i] = a[i] BY <1>11, <1>13, <1>14
  <2> QED BY <1>11, <1>13, <2>1, SeqEqual
<1> QED BY <1>6, <1>8, <1>9, <1>12, <1>15

\* What keyboard_read does to the events that wait.
ReadDone(e) ==
  /\ IF s_key_queue_len > 0
     THEN (\E beyond \in {KEY_NONE, "garbage"} : s_key_queue' = shifted(beyond)) /\ Waiting' = s_key_queue_len - 1
     ELSE s_key_queue' = s_key_queue /\ Waiting' = s_key_queue_len
  /\ Deliver(e)

(* keyboard_read: the types.                                               *)
LEMMA ReadTypes ==
  ASSUME KeyTypes, NEW e \in KeyEvent, ReadDone(e)
  PROVE  /\ s_key_queue' \in [0 .. MAX_KEYEVENTS - 1 -> KeyEvent] /\ Waiting' \in 0 .. MAX_KEYEVENTS
         /\ delivered' \in Seq(KeyEvent)
         /\ s_key_queue_len = 0 => Waiting' = 0
<1>1. MAX_KEYEVENTS \in Nat /\ MAX_KEYEVENTS > 0 BY KeyboardAssumption
<1>3. delivered' \in Seq(KeyEvent) BY DEF ReadDone, Deliver, KeyTypes
<1>4. CASE s_key_queue_len > 0
  <2>1. PICK beyond \in {KEY_NONE, "garbage"} : s_key_queue' = shifted(beyond) BY <1>4 DEF ReadDone
  <2>2. beyond \in KeyEvent /\ DOMAIN s_key_queue = 0 .. MAX_KEYEVENTS - 1 BY <2>1 DEF KeyEvent, KeyTypes
  <2>3. \A i \in 0 .. MAX_KEYEVENTS - 1 : s_key_queue[i] \in KeyEvent /\ (i # MAX_KEYEVENTS - 1 => s_key_queue[i + 1] \in KeyEvent)
    BY <1>1 DEF KeyTypes
  <2>4. s_key_queue' \in [0 .. MAX_KEYEVENTS - 1 -> KeyEvent] BY <2>1, <2>2, <2>3 DEF shifted
  <2>5. Waiting' = s_key_queue_len - 1 BY <1>4 DEF ReadDone
  <2> QED BY <1>1, <1>3, <1>4, <2>4, <2>5 DEF KeyTypes
<1>5. CASE ~(s_key_queue_len > 0) BY <1>3, <1>5 DEF ReadDone, KeyTypes
<1> QED BY <1>4, <1>5

(* keyboard_read moves the first event from the queue to the program.      *)
LEMMA ReadHeld ==
  ASSUME KeyTypes, KeyTypes', Trimmed, Waiting = s_key_queue_len, ReadDone(s_key_queue[0]), ~filled
  PROVE  Trimmed' /\ Held' = Held
<1>1. MAX_KEYEVENTS \in Nat /\ MAX_KEYEVENTS > 0 /\ s_key_queue_len \in Nat /\ s_key_queue_len < MAX_KEYEVENTS
  BY KeyboardAssumption DEF KeyTypes, Trimmed
<1>2. CASE s_key_queue_len = 0
  <2>1. s_key_queue[0] = KEY_NONE BY <1>1, <1>2 DEF Trimmed
  <2>2. UNCHANGED <<s_key_queue, delivered>> /\ Waiting' = Waiting BY <1>2, <2>1 DEF ReadDone, Deliver
  <2> QED BY <2>2 DEF Trimmed, Held, KeyQueue
<1>3. CASE s_key_queue_len # 0
  <2>1. PICK l \in Nat : s_key_queue_len = l + 1
    <3>1. s_key_queue_len - 1 \in Nat /\ s_key_queue_len = (s_key_queue_len - 1) + 1 BY <1>1, <1>3
    <3> QED BY <3>1
  <2>2. l + 1 < MAX_KEYEVENTS BY <1>1, <2>1
  <2>3. s_key_queue_len > 0 BY <2>1
  <2>4. PICK beyond : s_key_queue' = shifted(beyond) BY <2>3 DEF ReadDone
  <2>5. Waiting' = l BY <2>1, <2>3 DEF ReadDone
  <2>6. s_key_queue[0] # KEY_NONE BY <1>1, <2>3 DEF Trimmed
  <2>7. delivered' = Append(delivered, s_key_queue[0]) BY <2>6 DEF ReadDone, Deliver
  <2>8. ASSUME NEW i \in 0 .. MAX_KEYEVENTS - 1
        PROVE  s_key_queue'[i] = IF i > l THEN s_key_queue[i] ELSE s_key_queue[i + 1]
    <3>1. i \in DOMAIN s_key_queue BY DEF KeyTypes
    <3>2. s_key_queue'[i] = IF i >= s_key_queue_len THEN s_key_queue[i]
                            ELSE IF i = MAX_KEYEVENTS - 1 THEN beyond ELSE s_key_queue[i + 1]
      BY <2>4, <3>1 DEF shifted
    <3>3. CASE i > l
      <4>1. i >= s_key_queue_len BY <2>1, <3>3
      <4> QED BY <3>2, <3>3, <4>1
    <3>4. CASE ~(i > l)
      <4>1. ~(i >= s_key_queue_len) /\ i # MAX_KEYEVENTS - 1 BY <1>1, <2>1, <2>2, <3>4
      <4> QED BY <3>2, <3>4, <4>1
    <3> QED BY <3>3, <3>4
  <2>9. Trimmed'
    <3>1. ASSUME NEW i \in 0 .. MAX_KEYEVENTS - 1 PROVE s_key_queue'[i] # KEY_NONE <=> i < l
      <4>1. CASE i > l
        <5>1. s_key_queue[i] = KEY_NONE
          <6>1. ~(i < s_key_queue_len) BY <2>1, <4>1
          <6> QED BY <6>1 DEF Trimmed
        <5> QED BY <2>8, <4>1, <5>1
      <4>2. CASE ~(i > l)
        <5>1. i + 1 \in 0 .. MAX_KEYEVENTS - 1 BY <1>1, <2>2, <4>2
        <5>2. s_key_queue[i + 1] # KEY_NONE <=> i + 1 < l + 1 BY <2>1, <5>1 DEF Trimmed
        <5> QED BY <2>8, <4>2, <5>2
      <4> QED BY <4>1, <4>2
    <3> QED BY <1>1, <2>2, <2>5, <3>1 DEF Trimmed
  <2>10. PICK n \in Nat : n = Len(delivered) BY DEF KeyTypes
  <2>11. s_key_queue[0] \in KeyEvent BY <1>1 DEF KeyTypes
  <2>12. Len(delivered') = n + 1 /\ delivered'[n + 1] = s_key_queue[0] /\ \A i \in 1 .. n : delivered'[i] = delivered[i]
    BY <2>7, <2>10, <2>11 DEF KeyTypes
  <2>13. PICK h : h = Held OBVIOUS
  <2>14. PICK g : g = Held' OBVIOUS
  <2>15. h \in Seq(KeyEvent) /\ Len(h) = n + (l + 1) /\ (\A i \in 1 .. n : h[i] = delivered[i])
         /\ \A i \in 1 .. l + 1 : h[n + i] = s_key_queue[i - 1]
    <3>1. IsHeld(h, delivered, l + 1, s_key_queue) BY <2>1, <2>13 DEF Held, KeyQueue, IsHeld
    <3>2. delivered \in Seq(KeyEvent) /\ l + 1 <= MAX_KEYEVENTS /\ s_key_queue \in [0 .. MAX_KEYEVENTS - 1 -> KeyEvent]
      BY <2>1, <2>2 DEF KeyTypes
    <3>3. HeldParts(h, delivered, l + 1, s_key_queue) BY <1>1, <3>1, <3>2, HeldShape
    <3> QED BY <2>10, <3>3 DEF HeldParts
  <2>16. g \in Seq(KeyEvent) /\ Len(g) = n + 1 + l /\ (\A i \in 1 .. n + 1 : g[i] = delivered'[i])
         /\ \A i \in 1 .. l : g[n + 1 + i] = s_key_queue'[i - 1]
    <3>1. IsHeld(g, delivered', l, s_key_queue') BY <2>5, <2>14 DEF Held, KeyQueue, IsHeld
    <3>2. delivered' \in Seq(KeyEvent) /\ l <= MAX_KEYEVENTS /\ s_key_queue' \in [0 .. MAX_KEYEVENTS - 1 -> KeyEvent]
      BY <1>1, <2>2, <2>5 DEF KeyTypes
    <3>3. HeldParts(g, delivered', l, s_key_queue') BY <1>1, <3>1, <3>2, HeldShape
    <3> QED BY <2>12, <3>3 DEF HeldParts
  <2>17. ASSUME NEW i \in 1 .. n + l + 1 PROVE g[i] = h[i]
    <3>1. CASE i <= n
      <4>1. i \in 1 .. n /\ i \in 1 .. n + 1 BY <3>1
      <4> QED BY <2>12, <2>15, <2>16, <4>1
    <3>2. CASE i = n + 1
      <4>1. 1 \in 1 .. l + 1 /\ n + 1 \in 1 .. n + 1 /\ 1 - 1 = 0 OBVIOUS
      <4>2. h[n + 1] = s_key_queue[0] BY <2>15, <4>1
      <4>3. g[n + 1] = delivered'[n + 1] BY <2>16, <4>1
      <4> QED BY <2>12, <3>2, <4>2, <4>3
    <3>3. CASE i > n + 1
      <4>1. PICK k \in 1 .. l : i = n + 1 + k
        <5>1. i - n - 1 \in 1 .. l /\ i = n + 1 + (i - n - 1) BY <3>3
        <5> QED BY <5>1
      <4>2. k + 1 \in 1 .. l + 1 /\ i = n + (k + 1) /\ k + 1 - 1 = k /\ k - 1 + 1 = k BY <4>1
      <4>3. k - 1 \in 0 .. MAX_KEYEVENTS - 1 /\ ~(k - 1 > l) BY <1>1, <2>2
      <4>4. s_key_queue'[k - 1] = s_key_queue[k] BY <2>8, <4>2, <4>3
      <4>5. g[i] = s_key_queue'[k - 1] BY <2>16, <4>1
      <4>6. h[i] = s_key_queue[k]
        <5>1. h[n + (k + 1)] = s_key_queue[(k + 1) - 1] BY <2>15, <4>2
        <5> QED BY <4>2, <5>1
      <4> QED BY <4>4, <4>5, <4>6
    <3> QED BY <3>1, <3>2, <3>3
  <2>18. g = h
    <3>1. Len(g) = Len(h) /\ \A i \in 1 .. Len(g) : g[i] = h[i] BY <2>15, <2>16, <2>17
    <3> QED BY <2>15, <2>16, <3>1, SeqEqual
  <2> QED BY <2>9, <2>13, <2>14, <2>18
<1> QED BY <1>2, <1>3

(* The codes of a key that is pressed or released: an arrow key's prefix   *)
(* is followed by its code, and the event is the one that was meant.       *)
LEMMA SendOk ==
  ASSUME KeyTypes, Codes(wire, extended), NEW k \in PsKeys, NEW released \in BOOLEAN, SendCodes(k, released),
         NEW e, e = IF released THEN KEY_NONE ELSE Entered(k)
  PROVE  /\ wire' \in Seq(KeyByte) /\ Codes(wire', extended)
         /\ e \in PsEvents \cup {KEY_NONE}
         /\ \A p \in Seq(PsEvents) : \A m, f : Makes(wire, extended, p, m, f) =>
              \E g : Makes(wire', extended, IF e = KEY_NONE THEN p ELSE Append(p, e), m, g)
<1>1. wire \in Seq(KeyByte) /\ extended \in BOOLEAN BY DEF KeyTypes
<1>2. PICK b : b = [sc |-> ScanCode[k], released |-> released] OBVIOUS
<1>3. ScanCode[k] = (IF k = "a" THEN "1E" ELSE IF k = "return" THEN "1C" ELSE "48") BY DEF PsKeys, ScanCode
<1>4. b.sc = ScanCode[k] /\ (b.released <=> released) /\ b \in KeyByte /\ b # Prefix /\ b.sc # "E0"
  <2>1. b.sc = ScanCode[k] BY <1>2
  <2>2. b.released <=> released BY <1>2
  <2>3. b \in KeyByte BY <1>2, <1>3 DEF KeyByte
  <2>4. b.sc # "E0" BY <1>3, <2>1
  <2>5. b # Prefix BY <2>4 DEF Prefix
  <2> QED BY <2>1, <2>2, <2>3, <2>4, <2>5
<1>5. Prefix \in KeyByte /\ Prefix.sc = "E0" BY DEF Prefix, KeyByte
<1>6. Entered(k) = (IF k = "a" THEN "a" ELSE IF k = "return" THEN "return" ELSE IF k = "up" THEN "up" ELSE KEY_NONE)
  BY DEF PsKeys, Entered
<1>7. e \in PsEvents \cup {KEY_NONE} BY <1>6 DEF PsEvents
<1>8. PICK l \in Nat : l = Len(wire) BY <1>1
<1>9. CASE k = "up"
  <2>1. PICK u : u = Append(wire, Prefix) OBVIOUS
  <2>2. u \in Seq(KeyByte) /\ Len(u) = l + 1 /\ u[l + 1] = Prefix /\ \A i \in 1 .. l : u[i] = wire[i]
    BY <1>1, <1>5, <1>8, <2>1
  <2>3. PICK v : v = Append(u, b) OBVIOUS
  <2>4. v \in Seq(KeyByte) /\ Len(v) = l + 2 /\ v[l + 2] = b /\ v[l + 1] = Prefix /\ \A i \in 1 .. l : v[i] = wire[i]
    BY <1>4, <2>2, <2>3
  <2>5. wire' = v
    <3>1. wire' = wire \o <<Prefix>> \o <<b>> BY <1>2, <1>9 DEF SendCodes
    <3> QED BY <1>1, <1>4, <1>5, <2>1, <2>3, <3>1
  <2>6. Codes(v, extended)
    <3>1. ASSUME NEW i \in 1 .. l + 2, v[i].sc = "E0" PROVE v[i] = Prefix /\ i < l + 2 /\ v[i + 1].sc = "48"
      <4>1. CASE i = l + 2 BY <1>4, <2>4, <3>1, <4>1
      <4>2. CASE i = l + 1
        <5>1. i + 1 = l + 2 BY <4>2
        <5> QED BY <1>3, <1>4, <1>9, <2>4, <4>2, <5>1
      <4>3. CASE i # l + 1 /\ i # l + 2
        <5>1. i \in 1 .. l /\ v[i] = wire[i] BY <2>4, <4>3
        <5>2. wire[i] = Prefix /\ i < l /\ wire[i + 1].sc = "48" BY <1>8, <3>1, <5>1 DEF Codes
        <5>3. i + 1 \in 1 .. l BY <5>1, <5>2
        <5> QED BY <2>4, <5>1, <5>2, <5>3
      <4> QED BY <4>1, <4>2, <4>3
    <3>2. extended => v[1].sc = "48"
      <4>1. extended => 1 \in 1 .. l /\ wire[1].sc = "48" BY <1>8 DEF Codes
      <4> QED BY <2>4, <4>1
    <3>3. Len(v) > 0 BY <2>4
    <3> QED BY <2>4, <3>1, <3>2, <3>3 DEF Codes
  <2>7. ASSUME NEW p \in Seq(PsEvents), NEW m, NEW f, Makes(wire, extended, p, m, f)
        PROVE  \E g : Makes(v, extended, IF e = KEY_NONE THEN p ELSE Append(p, e), m, g)
    <3>1. EventAt(u, extended, Len(wire) + 1) = KEY_NONE BY <1>8, <2>2 DEF EventAt
    <3>2. PICK g : Makes(u, extended, p, m, g) BY <1>1, <1>5, <2>1, <2>7, <3>1, SendByte
    <3>3. EventAt(v, extended, Len(u) + 1) = e
      <4>1. Len(u) + 1 = l + 2 /\ l + 2 # 1 /\ l + 2 - 1 = l + 1 BY <2>2
      <4>2. Extends(v, extended, l + 2) <=> TRUE BY <2>4, <4>1 DEF Extends
      <4>3. e = IF released THEN KEY_NONE ELSE "up" BY <1>6, <1>9
      <4> QED BY <1>3, <1>4, <1>9, <2>4, <4>1, <4>2, <4>3 DEF EventAt
    <3> QED BY <1>1, <1>4, <2>2, <2>3, <2>7, <3>2, <3>3, SendByte
  <2> QED BY <1>7, <2>4, <2>5, <2>6, <2>7
<1>10. CASE k # "up"
  <2>1. PICK v : v = Append(wire, b) OBVIOUS
  <2>2. v \in Seq(KeyByte) /\ Len(v) = l + 1 /\ v[l + 1] = b /\ \A i \in 1 .. l : v[i] = wire[i]
    BY <1>1, <1>4, <1>8, <2>1
  <2>3. wire' = v
    <3>1. wire' = wire \o <<>> \o <<b>> BY <1>2, <1>10 DEF SendCodes
    <3> QED BY <1>1, <1>4, <2>1, <3>1
  <2>4. Codes(v, extended)
    <3>1. ASSUME NEW i \in 1 .. l + 1, v[i].sc = "E0" PROVE v[i] = Prefix /\ i < l + 1 /\ v[i + 1].sc = "48"
      <4>1. CASE i = l + 1 BY <1>4, <2>2, <3>1, <4>1
      <4>2. CASE i # l + 1
        <5>1. i \in 1 .. l /\ v[i] = wire[i] BY <2>2, <4>2
        <5>2. wire[i] = Prefix /\ i < l /\ wire[i + 1].sc = "48" BY <1>8, <3>1, <5>1 DEF Codes
        <5>3. i + 1 \in 1 .. l BY <5>1, <5>2
        <5> QED BY <2>2, <5>1, <5>2, <5>3
      <4> QED BY <4>1, <4>2
    <3>2. extended => v[1].sc = "48"
      <4>1. extended => 1 \in 1 .. l /\ wire[1].sc = "48" BY <1>8 DEF Codes
      <4> QED BY <2>2, <4>1
    <3>3. Len(v) > 0 BY <2>2
    <3> QED BY <2>2, <3>1, <3>2, <3>3 DEF Codes
  <2>5. Extends(v, extended, l + 1) <=> FALSE
    <3>1. CASE l = 0
      <4>1. ~extended BY <1>8, <3>1 DEF Codes
      <4>2. l + 1 = 1 BY <3>1
      <4> QED BY <4>1, <4>2 DEF Extends
    <3>2. CASE l # 0
      <4>1. l \in 1 .. l /\ l + 1 # 1 /\ l + 1 - 1 = l BY <3>2
      <4>2. wire[l].sc # "E0" BY <1>8, <4>1 DEF Codes
      <4>3. v[l] # Prefix BY <1>5, <2>2, <4>1, <4>2
      <4> QED BY <4>1, <4>3 DEF Extends
    <3> QED BY <3>1, <3>2
  <2>6. EventAt(v, extended, Len(wire) + 1) = e
    <3>1. e = IF released THEN KEY_NONE ELSE IF k = "a" THEN "a" ELSE IF k = "return" THEN "return" ELSE KEY_NONE
      BY <1>6, <1>10
    <3> QED BY <1>3, <1>4, <1>8, <1>10, <2>2, <2>5, <3>1 DEF EventAt
  <2>7. ASSUME NEW p \in Seq(PsEvents), NEW m, NEW f, Makes(wire, extended, p, m, f)
        PROVE  \E g : Makes(v, extended, IF e = KEY_NONE THEN p ELSE Append(p, e), m, g)
    BY <1>1, <1>4, <2>1, <2>6, <2>7, SendByte
  <2> QED BY <1>7, <2>2, <2>3, <2>4, <2>7
<1> QED BY <1>9, <1>10

(* A key is pressed or released.                                           *)
LEMMA KeyOk ==
  ASSUME KeysInv, NEW k \in PsKeys, Press(k) \/ Release(k)
  PROVE  KeysInv'
<1>1. PICK e \in PsEvents \cup {KEY_NONE} :
        /\ wire' \in Seq(KeyByte) /\ Codes(wire', extended)
        /\ pressed' = IF e = KEY_NONE THEN pressed ELSE Append(pressed, e)
        /\ \A p \in Seq(PsEvents) : \A m, f : Makes(wire, extended, p, m, f) =>
             \E g : Makes(wire', extended, IF e = KEY_NONE THEN p ELSE Append(p, e), m, g)
  <2>1. KeyTypes /\ Codes(wire, extended) BY DEF KeysInv
  <2>2. CASE Press(k)
    <3>1. SendCodes(k, FALSE) /\ pressed' = IF Entered(k) = KEY_NONE THEN pressed ELSE Append(pressed, Entered(k))
      BY <2>2 DEF Press
    <3>2. PICK e : e = Entered(k) OBVIOUS
    <3>3. PICK r \in BOOLEAN : r = FALSE OBVIOUS
    <3>4. SendCodes(k, r) /\ e = IF r THEN KEY_NONE ELSE Entered(k) BY <3>1, <3>2, <3>3
    <3>5. /\ wire' \in Seq(KeyByte) /\ Codes(wire', extended)
          /\ e \in PsEvents \cup {KEY_NONE}
          /\ \A p \in Seq(PsEvents) : \A m, f : Makes(wire, extended, p, m, f) =>
               \E g : Makes(wire', extended, IF e = KEY_NONE THEN p ELSE Append(p, e), m, g)
      BY <2>1, <3>4, SendOk
    <3> QED BY <3>1, <3>2, <3>5
  <2>3. CASE Release(k)
    <3>1. SendCodes(k, TRUE) /\ pressed' = pressed BY <2>3 DEF Release
    <3>2. PICK e : e = KEY_NONE OBVIOUS
    <3>3. PICK r \in BOOLEAN : r = TRUE OBVIOUS
    <3>4. SendCodes(k, r) /\ e = IF r THEN KEY_NONE ELSE Entered(k) BY <3>1, <3>2, <3>3
    <3> QED BY <2>1, <3>1, <3>2, <3>4, SendOk
  <2> QED BY <2>2, <2>3
<1>2. /\ UNCHANGED <<extended, s_key_queue, s_key_queue_len, s_reading_task, state, pc, ev_read, injected, delivered, filled>>
      /\ Waiting' = Waiting /\ (InsideInv => InsideInv')
  <2>1. UNCHANGED <<extended, s_key_queue, s_key_queue_len, s_reading_task, state, pc, ev_read, injected, delivered, filled>>
    BY DEF Press, Release
  <2> QED BY <2>1 DEF Waiting, InsideInv, Inside
<1>3. pressed \in Seq(PsEvents) BY DEF KeysInv, KeyTypes
<1>4. pressed' \in Seq(PsEvents) BY <1>1, <1>3
<1>5. KeyTypes' BY <1>1, <1>2, <1>4 DEF KeysInv, KeyTypes
<1>6. Codes(wire', extended') BY <1>1, <1>2
<1>7. ReaderInv' BY <1>2 DEF KeysInv, ReaderInv
<1>8. ASSUME ~filled PROVE HeldInv'
  <2>1. HeldInv BY <1>8 DEF KeysInv
  <2>2. Held' = Held /\ (Trimmed' <=> Trimmed) BY <1>2 DEF Held, KeyQueue, Trimmed
  <2>3. PICK m, f : m \in Nat /\ AreFirst(Held, PsEvents, pressed, m) /\ Makes(wire, extended, pressed, m, f)
    BY <2>1 DEF HeldInv
  <2>4. PICK g : Makes(wire', extended, pressed', m, g) BY <1>1, <1>3, <2>3
  <2>5. Makes(wire', extended', pressed', m, g) BY <1>2, <2>4
  <2>6. m <= Len(pressed)
    <3>1. f[0] \in 0 .. Len(pressed) /\ f[0] = m
      <4>1. 0 \in 0 .. Len(wire) BY DEF KeysInv, KeyTypes
      <4> QED BY <2>3, <4>1 DEF Makes
    <3> QED BY <1>3, <3>1
  <2>7. Held \in Seq(KeyEvent)
    <3>1. IsHeld(Held, delivered, Waiting, s_key_queue) BY DEF Held, KeyQueue, IsHeld
    <3>2. /\ delivered \in Seq(KeyEvent) /\ Waiting \in Nat /\ Waiting <= MAX_KEYEVENTS
          /\ s_key_queue \in [0 .. MAX_KEYEVENTS - 1 -> KeyEvent] /\ MAX_KEYEVENTS \in Nat
      BY KeyboardAssumption DEF KeysInv, KeyTypes
    <3>3. HeldParts(Held, delivered, Waiting, s_key_queue) BY <3>1, <3>2, HeldShape
    <3> QED BY <3>3 DEF HeldParts
  <2>8. AreFirst(Held, PsEvents, pressed', m)
    <3>1. CASE pressed' = pressed BY <2>3, <3>1
    <3>2. CASE pressed' # pressed
      <4>1. PICK v \in PsEvents : pressed' = Append(pressed, v) BY <1>1, <3>2
      <4> QED BY <1>3, <2>3, <2>6, <2>7, <4>1, AreFirstGrows
    <3> QED BY <3>1, <3>2
  <2> QED BY <1>2, <2>1, <2>2, <2>3, <2>5, <2>8 DEF HeldInv
<1> QED BY <1>2, <1>5, <1>6, <1>7, <1>8 DEF KeysInv

(* The events that were read or wait are events.                           *)
LEMMA HeldType ==
  ASSUME KeyTypes
  PROVE  Held \in Seq(KeyEvent)
<1>1. IsHeld(Held, delivered, Waiting, s_key_queue) BY DEF Held, KeyQueue, IsHeld
<1>2. /\ delivered \in Seq(KeyEvent) /\ Waiting \in Nat /\ Waiting <= MAX_KEYEVENTS
      /\ s_key_queue \in [0 .. MAX_KEYEVENTS - 1 -> KeyEvent] /\ MAX_KEYEVENTS \in Nat
  BY KeyboardAssumption DEF KeyTypes
<1>3. HeldParts(Held, delivered, Waiting, s_key_queue) BY <1>1, <1>2, HeldShape
<1> QED BY <1>3 DEF HeldParts

(* A new event is one of a keyboard, as the others are.                    *)
LEMMA AppendKeys ==
  ASSUME NEW h \in Seq(KeyEvent), \A i \in 1 .. Len(h) : h[i] \in UsbKeys \cup PsEvents,
         NEW ev \in UsbKeys \cup PsEvents, NEW g, g = Append(h, ev)
  PROVE  \A i \in 1 .. Len(g) : g[i] \in UsbKeys \cup PsEvents
<1>1. ev \in KeyEvent BY DEF KeyEvent
<1>2. PICK l \in Nat : l = Len(h) OBVIOUS
<1>3. Len(g) = l + 1 /\ g[l + 1] = ev /\ \A i \in 1 .. l : g[i] = h[i] BY <1>1, <1>2
<1>4. ASSUME NEW i \in 1 .. l + 1 PROVE g[i] \in UsbKeys \cup PsEvents
  <2>1. CASE i = l + 1 BY <1>3, <2>1
  <2>2. CASE i # l + 1
    <3>1. i \in 1 .. l BY <2>2
    <3> QED BY <1>2, <1>3, <3>1
  <2> QED BY <2>1, <2>2
<1> QED BY <1>3, <1>4

(* keyboard_inject: the event of a USB keyboard.                           *)
LEMMA InjectOk ==
  ASSUME KeysInv, NEW k \in UsbKeys, keyboard_inject(k), ~raced'
  PROVE  KeysInv'
<1>1. KeyTypes /\ Codes(wire, extended) /\ ReaderInv BY DEF KeysInv
<1>2. on_key_event(k) /\ injected' = Append(injected, k) /\ UNCHANGED <<wire, extended, pressed, delivered, pc, ev_read>>
  BY DEF keyboard_inject
<1>2a. Inside = {} /\ Inside' = {}
  <2>1. Inside = {} BY <1>2 DEF on_key_event
  <2> QED BY <1>2, <2>1 DEF Inside
<1>2b. Waiting = s_key_queue_len /\ Waiting' = s_key_queue_len' /\ InsideInv'
  <2>1. \A t \in Task : pc[t] # "first" /\ pc[t] # "counting" BY <1>2a DEF Inside
  <2>2. \A t \in Task : pc'[t] # "first" /\ pc'[t] # "counting" BY <1>2, <2>1
  <2> QED BY <1>2a, <2>1, <2>2 DEF Waiting, InsideInv
<1>3. k \in UsbKeys \cup PsEvents /\ k \in KeyEvent /\ k \notin PsEvents BY KeyboardAssumption DEF KeyEvent
<1>4. /\ s_key_queue' \in [0 .. MAX_KEYEVENTS - 1 -> KeyEvent] /\ s_key_queue_len' \in 0 .. MAX_KEYEVENTS
      /\ filled' \in BOOLEAN /\ (filled => filled')
      /\ s_reading_task' = NoTask /\ state' \in [Task -> {"READY", "BLOCKED", "DEAD"}]
      /\ \A t \in Task : state'[t] # "BLOCKED"
  BY <1>1, <1>2, <1>3, EventTypes
<1>5. injected \in Seq(UsbKeys) /\ injected' \in Seq(UsbKeys) BY <1>1, <1>2 DEF KeyTypes
<1>6. KeyTypes' BY <1>1, <1>2, <1>2b, <1>4, <1>5 DEF KeyTypes
<1>7. ReaderInv' BY <1>4 DEF ReaderInv
<1>8. Codes(wire', extended') BY <1>1, <1>2
<1>9. ASSUME ~filled' PROVE HeldInv'
  <2>1. HeldInv BY <1>4, <1>9 DEF KeysInv
  <2>2. Trimmed' /\ Held' = Append(Held, k) BY <1>1, <1>2, <1>2b, <1>3, <1>6, <1>9, <2>1, EventHeld DEF HeldInv
  <2>3. PICK h \in Seq(KeyEvent) : h = Held BY <1>1, HeldType
  <2>4. PICK g : g = Held' OBVIOUS
  <2>5. g = Append(h, k) BY <2>2, <2>3, <2>4
  <2>6. \A i \in 1 .. Len(g) : g[i] \in UsbKeys \cup PsEvents BY <1>3, <2>1, <2>3, <2>5, AppendKeys DEF HeldInv
  <2>7. PICK n \in Nat : n = Len(injected) BY <1>5
  <2>8. Len(injected') = n + 1 /\ injected'[n + 1] = k BY <1>2, <1>5, <2>7
  <2>9. AreFirst(g, UsbKeys, injected', n + 1)
    <3>1. AreFirst(h, UsbKeys, injected, n) BY <2>1, <2>3, <2>7 DEF HeldInv
    <3>2. AreFirst(h, UsbKeys, injected', n) BY <1>2, <1>5, <2>7, <3>1, AreFirstGrows
    <3> QED BY <1>3, <2>5, <2>8, <3>2, AreFirstAppend
  <2>10. PICK m, f : m \in Nat /\ AreFirst(h, PsEvents, pressed, m) /\ Makes(wire, extended, pressed, m, f)
    BY <2>1, <2>3 DEF HeldInv
  <2>11. AreFirst(g, PsEvents, pressed, m) BY <1>3, <2>5, <2>10, AreFirstAppend
  <2>12. AreFirst(g, PsEvents, pressed', m) /\ Makes(wire', extended', pressed', m, f) BY <1>2, <2>10, <2>11
  <2>13. m \in Nat BY <2>10
  <2> QED BY <2>2, <2>4, <2>6, <2>8, <2>9, <2>12, <2>13 DEF HeldInv
<1> QED BY <1>2b, <1>6, <1>7, <1>8, <1>9 DEF KeysInv

(* key_handler takes a byte: what extended says of the next one is right.  *)
LEMMA ByteTaken ==
  ASSUME KeyTypes, Codes(wire, extended), key_handler
  PROVE  /\ wire # <<>> /\ wire' = Tail(wire) /\ extended' \in BOOLEAN /\ (extended' <=> wire[1] = Prefix)
         /\ wire' \in Seq(KeyByte) /\ Codes(wire', extended')
         /\ IF EventAt(wire, extended, 1) = KEY_NONE
            THEN UNCHANGED <<s_key_queue, s_key_queue_len, s_reading_task, state, filled, raced>>
            ELSE on_key_event(EventAt(wire, extended, 1))
<1>1. wire \in Seq(KeyByte) /\ wire # <<>> /\ wire' = Tail(wire) /\ extended \in BOOLEAN BY DEF key_handler, KeyTypes
<1>2. PICK b \in KeyByte : b = wire[1] /\ b = Head(wire) BY <1>1
<1>3. PICK l \in Nat : Len(wire) = l + 1
  <2>1. Len(wire) \in Nat /\ Len(wire) # 0 BY <1>1
  <2>2. Len(wire) - 1 \in Nat /\ Len(wire) = (Len(wire) - 1) + 1 BY <2>1
  <2> QED BY <2>2
<1>4. wire' \in Seq(KeyByte) /\ Len(wire') = l /\ \A i \in 1 .. l : wire'[i] = wire[i + 1] BY <1>1, <1>3
<1>5. \/ b = Prefix /\ extended' = TRUE
         /\ UNCHANGED <<s_key_queue, s_key_queue_len, s_reading_task, state, filled, raced>>
      \/ b # Prefix /\ b.released /\ extended' = FALSE
         /\ UNCHANGED <<s_key_queue, s_key_queue_len, s_reading_task, state, filled, raced>>
      \/ b # Prefix /\ ~b.released /\ extended' = FALSE
         /\ IF Decoded(b.sc) # KEY_NONE THEN on_key_event(Decoded(b.sc))
            ELSE UNCHANGED <<s_key_queue, s_key_queue_len, s_reading_task, state, filled, raced>>
  BY <1>2 DEF key_handler, after_release
<1>6. extended' \in BOOLEAN /\ (extended' <=> wire[1] = Prefix) BY <1>2, <1>5
<1>7. 1 \in 1 .. Len(wire) BY <1>3
<1>8. Codes(wire', extended')
  <2>1. ASSUME NEW i \in 1 .. l, wire'[i].sc = "E0" PROVE wire'[i] = Prefix /\ i < l /\ wire'[i + 1].sc = "48"
    <3>1. wire'[i] = wire[i + 1] /\ i + 1 \in 1 .. Len(wire) BY <1>3, <1>4
    <3>2. wire[i + 1] = Prefix /\ i + 1 < l + 1 /\ wire[i + 1 + 1].sc = "48" BY <1>3, <2>1, <3>1 DEF Codes
    <3>3. i < l /\ i + 1 \in 1 .. l BY <3>2
    <3>4. wire'[i + 1] = wire[i + 1 + 1] BY <1>4, <3>3
    <3> QED BY <3>1, <3>2, <3>3, <3>4
  <2>2. ASSUME wire[1] = Prefix PROVE l > 0 /\ wire'[1].sc = "48"
    <3>1. wire[1].sc = "E0" BY <2>2 DEF Prefix
    <3>2. 1 < l + 1 /\ wire[1 + 1].sc = "48" BY <1>3, <1>7, <3>1 DEF Codes
    <3>3. 1 \in 1 .. l BY <3>2
    <3>4. wire'[1] = wire[1 + 1] BY <1>4, <3>3
    <3> QED BY <3>2, <3>3, <3>4
  <2> QED BY <1>4, <1>6, <2>1, <2>2 DEF Codes
<1>9. Extends(wire, extended, 1) <=> extended BY <1>1 DEF Extends
<1>10. IF EventAt(wire, extended, 1) = KEY_NONE
       THEN UNCHANGED <<s_key_queue, s_key_queue_len, s_reading_task, state, filled, raced>>
       ELSE on_key_event(EventAt(wire, extended, 1))
  <2>1. CASE b = Prefix \/ b.released
    <3>1. EventAt(wire, extended, 1) = KEY_NONE BY <1>2, <2>1 DEF EventAt
    <3> QED BY <1>5, <2>1, <3>1
  <2>2. CASE b # Prefix /\ ~b.released
    <3>1. b.sc # "E0" BY <1>2, <1>7, <2>2 DEF Codes
    <3>2. b.sc \in {"1E", "1C", "48"} BY <1>2, <3>1 DEF KeyByte
    <3>3. EventAt(wire, extended, 1) = IF extended THEN IF b.sc = "48" THEN "up" ELSE KEY_NONE
                                       ELSE IF b.sc = "1C" THEN "return" ELSE IF b.sc = "1E" THEN "a" ELSE KEY_NONE
      BY <1>2, <1>9, <2>2 DEF EventAt
    <3>4. kbd_US["1E"] = "a" /\ kbd_US["48"] = KEY_NONE BY DEF kbd_US
    <3>5. Decoded(b.sc) = EventAt(wire, extended, 1)
      BY <3>2, <3>3, <3>4 DEF Decoded, scancode_set1_to_ascii
    <3> QED BY <1>5, <2>2, <3>5
  <2> QED BY <2>1, <2>2
<1> QED BY <1>1, <1>4, <1>6, <1>8, <1>10

(* key_handler keeps the invariant.                                        *)
LEMMA HandlerOk ==
  ASSUME KeysInv, key_handler, ~raced'
  PROVE  KeysInv'
<1>1. KeyTypes /\ Codes(wire, extended) /\ ReaderInv BY DEF KeysInv
<1>2. PICK e : e = EventAt(wire, extended, 1) OBVIOUS
<1>3. /\ wire # <<>> /\ wire' = Tail(wire) /\ extended' \in BOOLEAN /\ (extended' <=> wire[1] = Prefix)
      /\ wire' \in Seq(KeyByte) /\ Codes(wire', extended')
      /\ IF e = KEY_NONE THEN UNCHANGED <<s_key_queue, s_key_queue_len, s_reading_task, state, filled, raced>> ELSE on_key_event(e)
  BY <1>1, <1>2, ByteTaken
<1>4. UNCHANGED <<pressed, injected, delivered, pc, ev_read>> BY DEF key_handler
<1>5. wire \in Seq(KeyByte) /\ extended \in BOOLEAN /\ pressed \in Seq(PsEvents) BY <1>1 DEF KeyTypes
<1>5a. ASSUME NEW m, NEW f, Makes(wire, extended, pressed, m, f)
       PROVE  IF e = KEY_NONE THEN \E g : Makes(wire', extended', pressed, m, g)
              ELSE pressed[m + 1] = e /\ \E g : Makes(wire', extended', pressed, m + 1, g)
  <2>1. PICK y \in BOOLEAN : y = extended' BY <1>3
  <2>2. y <=> wire[1] = Prefix BY <1>3, <2>1
  <2>3. PICK v : v = wire' OBVIOUS
  <2>4. v = Tail(wire) BY <1>3, <2>3
  <2>5. PICK w \in Seq(KeyByte), x \in BOOLEAN, p \in Seq(PsEvents) : w = wire /\ x = extended /\ p = pressed BY <1>5
  <2>6. Taken(w, v, y) /\ e = EventAt(w, x, 1) /\ Makes(w, x, p, m, f)
    BY <1>2, <1>3, <1>5a, <2>2, <2>4, <2>5 DEF Taken
  <2>7. /\ e = KEY_NONE => \E g : Makes(v, y, p, m, g)
        /\ e # KEY_NONE => p[m + 1] = e /\ \E g : Makes(v, y, p, m + 1, g)
    BY <2>6, TakeKeyByte
  <2> QED BY <2>1, <2>3, <2>5, <2>7
<1>6. CASE e = KEY_NONE
  <2>1. UNCHANGED <<s_key_queue, s_key_queue_len, s_reading_task, state, filled, raced>> BY <1>3, <1>6
  <2>1a. Waiting' = Waiting /\ InsideInv'
    <3>1. InsideInv BY DEF KeysInv
    <3> QED BY <1>4, <2>1, <3>1 DEF Waiting, InsideInv, Inside
  <2>2. KeyTypes' BY <1>1, <1>3, <1>4, <2>1, <2>1a DEF KeyTypes
  <2>3. ReaderInv' BY <1>1, <2>1, <2>1a DEF ReaderInv
  <2>4. ASSUME ~filled PROVE HeldInv'
    <3>1. HeldInv BY <2>4 DEF KeysInv
    <3>2. Held' = Held /\ (Trimmed' <=> Trimmed) BY <1>4, <2>1, <2>1a DEF Held, KeyQueue, Trimmed
    <3>3. PICK m, f : m \in Nat /\ AreFirst(Held, PsEvents, pressed, m) /\ Makes(wire, extended, pressed, m, f)
      BY <3>1 DEF HeldInv
    <3>4. \E g : Makes(wire', extended', pressed, m, g) BY <1>5a, <1>6, <3>3
    <3> QED BY <1>4, <3>1, <3>2, <3>3, <3>4 DEF HeldInv
  <2> QED BY <1>3, <2>1, <2>1a, <2>2, <2>3, <2>4 DEF KeysInv
<1>7. CASE e # KEY_NONE
  <2>1. on_key_event(e) BY <1>3, <1>7
  <2>2. e \in UsbKeys \cup PsEvents /\ e \in PsEvents /\ e \in KeyEvent /\ e \notin UsbKeys
    <3>1. e \in PsEvents BY <1>2, <1>7 DEF EventAt, PsEvents
    <3> QED BY <3>1, KeyboardAssumption DEF KeyEvent
  <2>3. /\ s_key_queue' \in [0 .. MAX_KEYEVENTS - 1 -> KeyEvent] /\ s_key_queue_len' \in 0 .. MAX_KEYEVENTS
        /\ filled' \in BOOLEAN /\ (filled => filled')
        /\ s_reading_task' = NoTask /\ state' \in [Task -> {"READY", "BLOCKED", "DEAD"}]
        /\ \A t \in Task : state'[t] # "BLOCKED"
    BY <1>1, <2>1, <2>2, EventTypes
  <2>3a. Waiting = s_key_queue_len /\ Waiting' = s_key_queue_len' /\ InsideInv'
    <3>1. Inside = {} BY <2>1 DEF on_key_event
    <3>2. \A t \in Task : pc[t] # "first" /\ pc[t] # "counting" BY <3>1 DEF Inside
    <3>3. \A t \in Task : pc'[t] # "first" /\ pc'[t] # "counting" BY <1>4, <3>2
    <3>4. Inside' = {} BY <3>3 DEF Inside
    <3> QED BY <3>2, <3>3, <3>4 DEF Waiting, InsideInv
  <2>4. KeyTypes' BY <1>1, <1>3, <1>4, <2>3, <2>3a DEF KeyTypes
  <2>5. ReaderInv' BY <2>3 DEF ReaderInv
  <2>6. ASSUME ~filled' PROVE HeldInv'
    <3>1. HeldInv BY <2>3, <2>6 DEF KeysInv
    <3>2. Trimmed' /\ Held' = Append(Held, e) BY <1>1, <1>4, <2>1, <2>2, <2>3a, <2>4, <2>6, <3>1, EventHeld DEF HeldInv
    <3>3. PICK h \in Seq(KeyEvent) : h = Held BY <1>1, HeldType
    <3>4. PICK g : g = Held' OBVIOUS
    <3>5. g = Append(h, e) BY <3>2, <3>3, <3>4
    <3>6. \A i \in 1 .. Len(g) : g[i] \in UsbKeys \cup PsEvents BY <2>2, <3>1, <3>3, <3>5, AppendKeys DEF HeldInv
    <3>7. PICK n \in Nat : n = Len(injected) BY <1>1 DEF KeyTypes
    <3>8. AreFirst(g, UsbKeys, injected, n)
      <4>1. AreFirst(h, UsbKeys, injected, n) BY <3>1, <3>3, <3>7 DEF HeldInv
      <4> QED BY <2>2, <3>5, <4>1, AreFirstAppend
    <3>9. PICK m, f : m \in Nat /\ AreFirst(h, PsEvents, pressed, m) /\ Makes(wire, extended, pressed, m, f)
      BY <3>1, <3>3 DEF HeldInv
    <3>10. pressed[m + 1] = e /\ \E c : Makes(wire', extended', pressed, m + 1, c)
      BY <1>5a, <1>7, <3>9
    <3>11. AreFirst(g, PsEvents, pressed, m + 1) BY <2>2, <3>5, <3>9, <3>10, AreFirstAppend
    <3>12. m + 1 \in Nat BY <3>9
    <3> QED BY <1>4, <3>2, <3>4, <3>6, <3>7, <3>8, <3>10, <3>11, <3>12 DEF HeldInv
  <2> QED BY <1>3, <2>3a, <2>4, <2>5, <2>6 DEF KeysInv
<1> QED BY <1>6, <1>7

(* The system calls that read a key, and the end of a task.                *)
LEMMA ReadKeyOk ==
  ASSUME KeysInv, NEW t \in Task, SYS_READ_KEY(t) \/ SYS_READ_KEY_block(t), ~raced'
  PROVE  KeysInv'
<1>1. KeyTypes /\ Codes(wire, extended) /\ ReaderInv BY DEF KeysInv
<1>2. keyboard_read /\ UNCHANGED <<wire, extended, pressed, injected, filled, ev_read>>
  BY DEF SYS_READ_KEY, SYS_READ_KEY_block
<1>2a. /\ \A u \in Task : pc[u] # "first" /\ pc[u] # "counting"
       /\ \A u \in Task : pc'[u] # "first" /\ pc'[u] # "counting"
       /\ pc' \in [Task -> {"user", "reading", "first", "counting"}]
  <2>1. pc[t] = "user" /\ ~(Inside \ {t} # {}) BY DEF SYS_READ_KEY, SYS_READ_KEY_block, InUser, Touch
  <2>2. \A u \in Task : pc[u] # "first" /\ pc[u] # "counting" BY <2>1 DEF Inside
  <2>3. pc' = pc \/ pc' = [pc EXCEPT ![t] = "reading"] BY DEF SYS_READ_KEY, SYS_READ_KEY_block
  <2> QED BY <1>1, <2>2, <2>3 DEF KeyTypes
<1>2b. Waiting = s_key_queue_len /\ Waiting' = s_key_queue_len' /\ InsideInv'
  <2>1. Inside' = {} BY <1>2a DEF Inside
  <2> QED BY <1>2a, <2>1 DEF Waiting, InsideInv
<1>2c. ReadDone(s_key_queue[0]) BY <1>2, <1>2b DEF ReadDone, keyboard_read
<1>3. /\ s_key_queue' \in [0 .. MAX_KEYEVENTS - 1 -> KeyEvent] /\ Waiting' \in 0 .. MAX_KEYEVENTS
      /\ delivered' \in Seq(KeyEvent)
      /\ s_key_queue_len = 0 => Waiting' = 0
  <2>1. s_key_queue[0] \in KeyEvent
    <3>1. MAX_KEYEVENTS \in Nat /\ MAX_KEYEVENTS > 0 BY KeyboardAssumption
    <3> QED BY <1>1, <3>1 DEF KeyTypes
  <2> QED BY <1>1, <1>2c, <2>1, ReadTypes
<1>4. /\ s_reading_task' \in Task \cup {NoTask} /\ state' \in [Task -> {"READY", "BLOCKED", "DEAD"}]
      /\ ReaderInv'
  <2>1. CASE UNCHANGED <<s_reading_task, state>>
    <3>1. Waiting = 0 => Waiting' = 0 BY <1>2b, <1>3
    <3> QED BY <1>1, <1>2, <2>1, <3>1 DEF KeyTypes, ReaderInv
  <2>2. CASE SYS_READ_KEY_block(t)
    <3>1. s_key_queue[0] = KEY_NONE /\ s_reading_task = NoTask /\ s_reading_task' = t /\ state' = [state EXCEPT ![t] = "BLOCKED"]
      BY <2>2 DEF SYS_READ_KEY_block
    <3>2. state' \in [Task -> {"READY", "BLOCKED", "DEAD"}] /\ \A u \in Task : u # t => state'[u] = state[u]
      BY <1>1, <3>1 DEF KeyTypes
    <3>3. filled \/ s_key_queue_len = 0
      <4> SUFFICES ASSUME ~filled PROVE s_key_queue_len = 0 BY DEF KeyTypes
      <4>1. Trimmed /\ MAX_KEYEVENTS \in Nat /\ MAX_KEYEVENTS > 0 BY KeyboardAssumption DEF KeysInv, HeldInv
      <4>2. ~(0 < s_key_queue_len) BY <1>2b, <3>1, <4>1 DEF Trimmed
      <4>3. s_key_queue_len \in 0 .. MAX_KEYEVENTS BY <1>1 DEF KeyTypes
      <4> QED BY <4>1, <4>2, <4>3
    <3>4. \A u \in Task : state[u] # "BLOCKED" BY <1>1, <3>1, KeyboardAssumption DEF ReaderInv
    <3>5. filled' \/ Waiting' = 0 BY <1>2, <1>3, <3>3
    <3>6. ReaderInv' BY <3>1, <3>2, <3>4, <3>5 DEF ReaderInv
    <3> QED BY <3>1, <3>2, <3>6
  <2> QED BY <2>1, <2>2 DEF SYS_READ_KEY
<1>5. KeyTypes' BY <1>1, <1>2, <1>2a, <1>2b, <1>3, <1>4 DEF KeyTypes
<1>6. Codes(wire', extended') BY <1>1, <1>2
<1>7. ASSUME ~filled PROVE HeldInv'
  <2>1. HeldInv BY <1>7 DEF KeysInv
  <2>2. Trimmed' /\ Held' = Held BY <1>1, <1>2b, <1>2c, <1>5, <1>7, <2>1, ReadHeld DEF HeldInv
  <2> QED BY <1>2, <2>1, <2>2 DEF HeldInv
<1> QED BY <1>2, <1>2b, <1>4, <1>5, <1>6, <1>7 DEF KeysInv

(* The keyboard_read of a woken reader, with no other step in between: it  *)
(* takes the first entry.                                                  *)
LEMMA ReadFirstOk ==
  ASSUME KeysInv, NEW t \in Task, SYS_READ_KEY_first(t), ~raced'
  PROVE  KeysInv'
<1>1. KeyTypes /\ Codes(wire, extended) /\ ReaderInv BY DEF KeysInv
<1>2. /\ UNCHANGED <<wire, extended, s_key_queue, s_key_queue_len, s_reading_task, state, pressed, injected, delivered, filled>>
      /\ pc' = [pc EXCEPT ![t] = "first"] /\ ev_read' = [ev_read EXCEPT ![t] = s_key_queue[0]] /\ pc[t] = "reading"
  BY DEF SYS_READ_KEY_first
<1>3. \A u \in Task : pc[u] # "first" /\ pc[u] # "counting"
  <2>1. ~(Inside \ {t} # {}) BY DEF SYS_READ_KEY_first, Touch
  <2> QED BY <1>2, <2>1 DEF Inside
<1>4. s_key_queue[0] \in KeyEvent
  <2>1. MAX_KEYEVENTS \in Nat /\ MAX_KEYEVENTS > 0 BY KeyboardAssumption
  <2> QED BY <1>1, <2>1 DEF KeyTypes
<1>5. /\ pc' \in [Task -> {"user", "reading", "first", "counting"}] /\ ev_read' \in [Task -> KeyEvent]
      /\ pc'[t] = "first" /\ ev_read'[t] = s_key_queue[0]
      /\ \A u \in Task : u # t => pc'[u] # "first" /\ pc'[u] # "counting"
  BY <1>1, <1>2, <1>3, <1>4 DEF KeyTypes
<1>6. Waiting' = Waiting
  <2>1. ~(\E u \in Task : pc'[u] = "counting") BY <1>5
  <2> QED BY <1>2, <1>3, <2>1 DEF Waiting
<1>7. InsideInv' BY <1>2, <1>5 DEF InsideInv, Inside
<1>8. KeyTypes' BY <1>1, <1>2, <1>5, <1>6 DEF KeyTypes
<1>9. ReaderInv' BY <1>1, <1>2, <1>6 DEF ReaderInv
<1>10. Held' = Held /\ (Trimmed' <=> Trimmed) BY <1>2, <1>6 DEF Held, KeyQueue, Trimmed
<1>11. HeldInv => HeldInv' BY <1>2, <1>10 DEF HeldInv
<1> QED BY <1>1, <1>2, <1>7, <1>8, <1>9, <1>11 DEF KeysInv

(* It moves up the others.                                                 *)
LEMMA ReadShiftOk ==
  ASSUME KeysInv, NEW t \in Task, SYS_READ_KEY_shift(t), ~raced'
  PROVE  KeysInv'
<1>1. KeyTypes /\ Codes(wire, extended) /\ ReaderInv /\ InsideInv BY DEF KeysInv
<1>2. /\ UNCHANGED <<wire, extended, s_key_queue_len, s_reading_task, state, pressed, injected, filled, ev_read>>
      /\ pc[t] = "first" /\ Deliver(ev_read[t])
  BY DEF SYS_READ_KEY_shift
<1>3. \A u \in Task : u # t => pc[u] # "first" /\ pc[u] # "counting"
  <2>1. ~(Inside \ {t} # {}) BY DEF SYS_READ_KEY_shift, Touch
  <2> QED BY <2>1 DEF Inside
<1>4. ev_read[t] = s_key_queue[0] /\ ev_read[t] \in KeyEvent BY <1>1, <1>2 DEF InsideInv, KeyTypes
<1>5. Waiting = s_key_queue_len BY <1>2, <1>3 DEF Waiting
<1>6. PICK at \in {"user", "counting"} :
        /\ pc' = [pc EXCEPT ![t] = at]
        /\ at = "counting" <=> s_key_queue_len > 0
  BY DEF SYS_READ_KEY_shift
<1>7. /\ pc' \in [Task -> {"user", "reading", "first", "counting"}] /\ pc'[t] = at
      /\ \A u \in Task : u # t => pc'[u] = pc[u]
  BY <1>1, <1>6 DEF KeyTypes
<1>8. Waiting' = IF s_key_queue_len > 0 THEN s_key_queue_len - 1 ELSE s_key_queue_len
  <2>1. CASE s_key_queue_len > 0
    <3>1. \E u \in Task : pc'[u] = "counting" BY <1>6, <1>7, <2>1
    <3> QED BY <1>2, <2>1, <3>1 DEF Waiting
  <2>2. CASE ~(s_key_queue_len > 0)
    <3>1. ~(\E u \in Task : pc'[u] = "counting") BY <1>3, <1>6, <1>7, <2>2
    <3> QED BY <1>2, <2>2, <3>1 DEF Waiting
  <2> QED BY <2>1, <2>2
<1>9. ReadDone(s_key_queue[0])
  <2>1. CASE s_key_queue_len > 0
    <3>1. \E beyond \in {KEY_NONE, "garbage"} : s_key_queue' = shifted(beyond) BY <2>1 DEF SYS_READ_KEY_shift
    <3> QED BY <1>2, <1>4, <1>8, <2>1, <3>1 DEF ReadDone
  <2>2. CASE ~(s_key_queue_len > 0)
    <3>1. s_key_queue' = s_key_queue BY <2>2 DEF SYS_READ_KEY_shift
    <3> QED BY <1>2, <1>4, <1>8, <2>2, <3>1 DEF ReadDone
  <2> QED BY <2>1, <2>2
<1>10. /\ s_key_queue' \in [0 .. MAX_KEYEVENTS - 1 -> KeyEvent] /\ Waiting' \in 0 .. MAX_KEYEVENTS
       /\ delivered' \in Seq(KeyEvent)
       /\ s_key_queue_len = 0 => Waiting' = 0
  BY <1>1, <1>4, <1>9, ReadTypes
<1>11. KeyTypes' BY <1>1, <1>2, <1>7, <1>10 DEF KeyTypes
<1>12. ReaderInv'
  <2>1. Waiting = 0 => Waiting' = 0 BY <1>5, <1>10
  <2> QED BY <1>1, <1>2, <2>1 DEF ReaderInv
<1>13. InsideInv'
  <2>1. \A u \in Task : u # t => pc'[u] # "first" /\ pc'[u] # "counting" BY <1>3, <1>7
  <2>2. pc'[t] # "first" BY <1>6, <1>7
  <2>3. pc'[t] = "counting" => s_key_queue_len' > 0 BY <1>2, <1>6, <1>7
  <2> QED BY <2>1, <2>2, <2>3 DEF InsideInv, Inside
<1>14. ASSUME ~filled PROVE HeldInv'
  <2>1. HeldInv BY <1>14 DEF KeysInv
  <2>2. Trimmed' /\ Held' = Held BY <1>1, <1>5, <1>9, <1>11, <1>14, <2>1, ReadHeld DEF HeldInv
  <2> QED BY <1>2, <2>1, <2>2 DEF HeldInv
<1> QED BY <1>1, <1>2, <1>11, <1>12, <1>13, <1>14 DEF KeysInv

(* It counts off what it took.                                             *)
LEMMA ReadCountOk ==
  ASSUME KeysInv, NEW t \in Task, SYS_READ_KEY_count(t), ~raced'
  PROVE  KeysInv'
<1>1. KeyTypes /\ Codes(wire, extended) /\ ReaderInv /\ InsideInv BY DEF KeysInv
<1>2. /\ UNCHANGED <<wire, extended, s_key_queue, s_reading_task, state, pressed, injected, delivered, filled, ev_read>>
      /\ pc[t] = "counting" /\ s_key_queue_len' = s_key_queue_len - 1 /\ pc' = [pc EXCEPT ![t] = "user"]
  BY DEF SYS_READ_KEY_count
<1>3. \A u \in Task : u # t => pc[u] # "first" /\ pc[u] # "counting"
  <2>1. ~(Inside \ {t} # {}) BY DEF SYS_READ_KEY_count, Touch
  <2> QED BY <2>1 DEF Inside
<1>4. pc' \in [Task -> {"user", "reading", "first", "counting"}] /\ \A u \in Task : pc'[u] # "first" /\ pc'[u] # "counting"
  BY <1>1, <1>2, <1>3 DEF KeyTypes
<1>5. Waiting' = Waiting
  <2>1. \E u \in Task : pc[u] = "counting" BY <1>2
  <2>2. ~(\E u \in Task : pc'[u] = "counting") BY <1>4
  <2> QED BY <1>2, <2>1, <2>2 DEF Waiting
<1>6. s_key_queue_len' \in 0 .. MAX_KEYEVENTS
  <2>1. MAX_KEYEVENTS \in Nat BY KeyboardAssumption
  <2> QED BY <1>1, <1>2, <2>1 DEF KeyTypes, InsideInv
<1>7. KeyTypes' BY <1>1, <1>2, <1>4, <1>5, <1>6 DEF KeyTypes
<1>8. ReaderInv' BY <1>1, <1>2, <1>5 DEF ReaderInv
<1>9. InsideInv' BY <1>4 DEF InsideInv, Inside
<1>10. Held' = Held /\ (Trimmed' <=> Trimmed) BY <1>2, <1>5 DEF Held, KeyQueue, Trimmed
<1>11. HeldInv => HeldInv' BY <1>2, <1>10 DEF HeldInv
<1> QED BY <1>1, <1>2, <1>7, <1>8, <1>9, <1>11 DEF KeysInv

(* Nothing is pressed at first.                                            *)
LEMMA KeyboardStart ==
  ASSUME KeyboardInit
  PROVE  KeysInv
<1>1. MAX_KEYEVENTS \in Nat /\ MAX_KEYEVENTS > 0 BY KeyboardAssumption
<1>2. KEY_NONE \in KeyEvent BY DEF KeyEvent
<1>2a. Inside = {} BY DEF KeyboardInit, Inside
<1>2b. Waiting = s_key_queue_len /\ InsideInv BY <1>2a, NobodyInside
<1>3. KeyTypes
  <2>1. wire \in Seq(KeyByte) /\ pressed \in Seq(PsEvents) /\ injected \in Seq(UsbKeys) /\ delivered \in Seq(KeyEvent)
    BY DEF KeyboardInit
  <2>2. extended \in BOOLEAN /\ filled \in BOOLEAN BY DEF KeyboardInit
  <2>3. s_key_queue \in [0 .. MAX_KEYEVENTS - 1 -> KeyEvent] BY <1>2 DEF KeyboardInit
  <2>4. s_key_queue_len \in 0 .. MAX_KEYEVENTS BY <1>1 DEF KeyboardInit
  <2>5. s_reading_task \in Task \cup {NoTask} /\ state \in [Task -> {"READY", "BLOCKED", "DEAD"}] BY DEF KeyboardInit
  <2>6. pc \in [Task -> {"user", "reading", "first", "counting"}] /\ ev_read \in [Task -> KeyEvent] BY <1>2 DEF KeyboardInit
  <2> QED BY <1>2b, <2>1, <2>2, <2>3, <2>4, <2>5, <2>6 DEF KeyTypes
<1>4. Len(wire) = 0 /\ ~extended BY DEF KeyboardInit
<1>5. Codes(wire, extended) BY <1>4 DEF Codes
<1>6. ReaderInv BY DEF KeyboardInit, ReaderInv
<1>7. Trimmed BY <1>1, <1>2b DEF KeyboardInit, Trimmed
<1>8. Len(Held) = 0
  <2>1. IsHeld(Held, delivered, 0, s_key_queue)
    BY <1>2b DEF KeyboardInit, Held, KeyQueue, IsHeld
  <2>2. delivered \in Seq(KeyEvent) /\ s_key_queue \in [0 .. MAX_KEYEVENTS - 1 -> KeyEvent] BY <1>3 DEF KeyTypes
  <2>3. HeldParts(Held, delivered, 0, s_key_queue) BY <1>1, <2>1, <2>2, HeldShape
  <2>4. Len(delivered) = 0 BY DEF KeyboardInit
  <2> QED BY <2>3, <2>4 DEF HeldParts
<1>9. ASSUME NEW S, NEW s PROVE AreFirst(Held, S, s, 0)
  <2>1. {j \in 1 .. 0 : Held[j] \in S} = {} OBVIOUS
  <2>2. CountOf(Held, S, 0) = 0 BY <2>1, FS_EmptySet DEF CountOf
  <2> QED BY <1>8, <2>2 DEF AreFirst
<1>10. PICK f : f = [i \in 0 .. 0 |-> 0] OBVIOUS
<1>11. Len(pressed) = 0 /\ Len(injected) = 0 BY DEF KeyboardInit
<1>12. Makes(wire, extended, pressed, 0, f) BY <1>4, <1>10, <1>11 DEF Makes
<1>13. HeldInv BY <1>7, <1>8, <1>9, <1>11, <1>12 DEF HeldInv
<1> QED BY <1>2b, <1>3, <1>5, <1>6, <1>13 DEF KeysInv

(* Nothing undoes a race.                                                  *)
LEMMA RacedStays ==
  ASSUME raced \in BOOLEAN, KeyboardNext
  PROVE  raced' \in BOOLEAN /\ (raced => raced')
<1>1. CASE \E k \in PsKeys : Press(k) \/ Release(k)
  <2>1. PICK k \in PsKeys : Press(k) \/ Release(k) BY <1>1
  <2>2. raced' = raced BY <2>1 DEF Press, Release
  <2> QED BY <2>2
<1>2. CASE key_handler BY <1>2 DEF key_handler, on_key_event
<1>3. CASE \E k \in UsbKeys : keyboard_inject(k) BY <1>3 DEF keyboard_inject, on_key_event
<1>4. CASE \E t \in Task : \/ SYS_READ_KEY(t) \/ SYS_READ_KEY_block(t)
                          \/ SYS_READ_KEY_first(t) \/ SYS_READ_KEY_shift(t) \/ SYS_READ_KEY_count(t)
  BY <1>4 DEF SYS_READ_KEY, SYS_READ_KEY_block, SYS_READ_KEY_first, SYS_READ_KEY_shift, SYS_READ_KEY_count, Touch
<1>5. CASE \E t \in Task : Kill(t) BY <1>5 DEF Kill
<1> QED BY <1>1, <1>2, <1>3, <1>4, <1>5 DEF KeyboardNext

(* Every step of keyboards, interrupts and programs keeps the invariant.   *)
LEMMA KeyboardStep ==
  ASSUME UnracedInv, [KeyboardNext]_keyboardVars
  PROVE  UnracedInv'
<1>1. CASE UNCHANGED keyboardVars
  <2>1. UNCHANGED <<wire, extended, s_key_queue, s_key_queue_len, s_reading_task, state, pc, ev_read, pressed, injected,
                    delivered, filled, raced>>
    BY <1>1 DEF keyboardVars
  <2>2. Waiting' = Waiting /\ (InsideInv => InsideInv') BY <2>1 DEF Waiting, InsideInv, Inside
  <2>3. Held' = Held /\ (Trimmed' <=> Trimmed) BY <2>1, <2>2 DEF Held, KeyQueue, Trimmed
  <2>4. HeldInv => HeldInv' BY <2>1, <2>3 DEF HeldInv
  <2>5. KeysInv => KeysInv' BY <2>1, <2>2, <2>4 DEF KeysInv, KeyTypes, ReaderInv
  <2> QED BY <2>1, <2>5 DEF UnracedInv
<1>2. CASE KeyboardNext
  <2>0. raced' \in BOOLEAN /\ (raced => raced') BY <1>2, RacedStays DEF UnracedInv
  <2> SUFFICES ASSUME ~raced' PROVE KeysInv' BY <2>0 DEF UnracedInv
  <2>a. KeysInv BY <2>0 DEF UnracedInv
  <2>1. CASE \E k \in PsKeys : Press(k) \/ Release(k) BY <2>a, <2>1, KeyOk
  <2>2. CASE key_handler BY <2>a, <2>2, HandlerOk
  <2>3. CASE \E k \in UsbKeys : keyboard_inject(k) BY <2>a, <2>3, InjectOk
  <2>4. CASE \E t \in Task : SYS_READ_KEY(t) \/ SYS_READ_KEY_block(t) BY <2>a, <2>4, ReadKeyOk
  <2>5. CASE \E t \in Task : SYS_READ_KEY_first(t) \/ SYS_READ_KEY_shift(t) \/ SYS_READ_KEY_count(t)
    BY <2>a, <2>5, ReadFirstOk, ReadShiftOk, ReadCountOk
  <2>6. CASE \E t \in Task : Kill(t)
    <3>1. PICK t \in Task : Kill(t) BY <2>6
    <3>2. UNCHANGED <<wire, extended, s_key_queue, s_key_queue_len, s_reading_task, pc, ev_read, pressed, injected, delivered, filled>>
      BY <3>1 DEF Kill
    <3>3. /\ state' \in [Task -> {"READY", "BLOCKED", "DEAD"}]
          /\ \A u \in Task : state'[u] = "BLOCKED" => state[u] = "BLOCKED"
      BY <2>a, <3>1 DEF Kill, KeysInv, KeyTypes
    <3>4. Waiting' = Waiting /\ (InsideInv => InsideInv') BY <3>2 DEF Waiting, InsideInv, Inside
    <3>5. KeyTypes' BY <2>a, <3>2, <3>3, <3>4 DEF KeysInv, KeyTypes
    <3>6. ReaderInv' BY <2>a, <3>2, <3>3, <3>4 DEF KeysInv, ReaderInv
    <3>7. Held' = Held /\ (Trimmed' <=> Trimmed) BY <3>2, <3>4 DEF Held, KeyQueue, Trimmed
    <3>8. HeldInv => HeldInv' BY <3>2, <3>7 DEF HeldInv
    <3> QED BY <2>a, <3>2, <3>4, <3>5, <3>6, <3>8 DEF KeysInv
  <2> QED BY <1>2, <2>1, <2>2, <2>3, <2>4, <2>5, <2>6 DEF KeyboardNext
<1> QED BY <1>1, <1>2

(* keyboard.c, syscall.c: until the queue was full, programs read the keys *)
(* of each keyboard in order, none twice and none made up, whichever way   *)
(* interrupts, reports, readers and kills follow each other, for a queue   *)
(* of any length and any number of tasks; a blocked reader is the one that *)
(* the next key wakes, and no key waits: until one of them comes into the  *)
(* keyboard_read of a woken reader, which interrupts can break up.         *)
THEOREM KeysReadInOrder == KeyboardSpec => []KeysInOrder
<1>1. KeyboardInit => UnracedInv
  <2>1. KeyboardInit => KeysInv BY KeyboardStart
  <2>2. KeyboardInit => raced \in BOOLEAN BY DEF KeyboardInit
  <2> QED BY <2>1, <2>2 DEF UnracedInv
<1>2. UnracedInv /\ [KeyboardNext]_keyboardVars => UnracedInv' BY KeyboardStep
<1>3. ASSUME UnracedInv PROVE KeysInOrder
  <2> SUFFICES ASSUME ~raced
               PROVE  /\ ~filled =>
                           /\ \A i \in 1 .. Len(Held) : Held[i] \in UsbKeys \cup PsEvents
                           /\ AreFirst(Held, UsbKeys, injected, Len(injected))
                           /\ wire = <<>> => AreFirst(Held, PsEvents, pressed, Len(pressed))
                      /\ \A t \in Task : state[t] = "BLOCKED" => s_reading_task = t /\ (filled \/ Waiting = 0)
    BY DEF KeysInOrder, Held
  <2>0. KeysInv BY <1>3 DEF UnracedInv
  <2>1. ASSUME ~filled, wire = <<>> PROVE AreFirst(Held, PsEvents, pressed, Len(pressed))
    <3>1. PICK m, f : m \in Nat /\ AreFirst(Held, PsEvents, pressed, m) /\ Makes(wire, extended, pressed, m, f)
      BY <2>0, <2>1 DEF KeysInv, HeldInv
    <3>2. Len(wire) = 0 BY <2>1
    <3>3. m = Len(pressed) BY <3>1, <3>2 DEF Makes
    <3> QED BY <3>1, <3>3
  <2>2. ASSUME ~filled
        PROVE  /\ \A i \in 1 .. Len(Held) : Held[i] \in UsbKeys \cup PsEvents
               /\ AreFirst(Held, UsbKeys, injected, Len(injected))
    BY <2>0, <2>2 DEF KeysInv, HeldInv
  <2>3. filled \in BOOLEAN /\ ReaderInv BY <2>0 DEF KeysInv, KeyTypes
  <2> QED BY <2>1, <2>2, <2>3 DEF ReaderInv
<1> QED BY <1>1, <1>2, <1>3, PTL DEF KeyboardSpec

=============================================================================
