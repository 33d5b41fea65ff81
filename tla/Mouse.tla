------------------------------- MODULE Mouse --------------------------------
(***************************************************************************)
(* The PS/2 mouse: the packets that the interrupt handler of               *)
(* kernel/io/mouse.c puts together byte by byte, and SYS_READ_MOUSE        *)
(* (kernel/cpu/syscall.c, user/lib/syscall.h).  Bytes have BYTE values     *)
(* instead of 256, a scroll field NIBBLE instead of 16.                    *)
(***************************************************************************)
EXTENDS Integers, Sequences

CONSTANTS
  BYTE, NIBBLE,
  CHAR,        \* values of a signed char, which carries the scroll to the program: 256
  g_fb_width, g_fb_height,
  MaxPackets   \* bound: packets of the mouse

ASSUME MouseAssumption ==
  /\ {BYTE, NIBBLE, CHAR, g_fb_width, g_fb_height, MaxPackets} \subseteq Nat \ {0}
  /\ BYTE >= 2 /\ NIBBLE >= 4

VARIABLES
  g_intellimouse, \* the mouse has a wheel and sends a fourth byte
  bytes,          \* bytes of the mouse that no interrupt has taken yet
  g_packet,       \* bytes of a packet that is not complete; its length is g_packet_idx
  g_mouse,        \* [x, y, buttons, scroll, pending]
  packets,        \* history: packets sent
  moved,          \* history: what the packets sent come to, [x, y, buttons, scroll]
  scrolled,       \* history: scroll that programs have been told
  wrapped,        \* history: a scroll did not fit into a char
  desync          \* history: a stray byte looked like the start of a packet

mouseVars == <<g_intellimouse, bytes, g_packet, g_mouse, packets, moved, scrolled, wrapped, desync>>

\* mouse_init: the cursor is in the middle, and the id of the mouse tells whether it has a wheel.
MouseInit ==
  /\ g_intellimouse \in BOOLEAN
  /\ bytes = <<>> /\ g_packet = <<>>
  /\ g_mouse = [x |-> g_fb_width \div 2, y |-> g_fb_height \div 2, buttons |-> 0, scroll |-> 0, pending |-> FALSE]
  /\ packets = 0 /\ scrolled = 0 /\ wrapped = FALSE /\ desync = FALSE
  /\ moved = [x |-> g_fb_width \div 2, y |-> g_fb_height \div 2, buttons |-> 0, scroll |-> 0]

-----------------------------------------------------------------------------
(* The device.  A byte is [sync, xneg, yneg, overflow, value]: the bits    *)
(* the first byte of a packet has beside its buttons, and the value.  A    *)
(* number has some of its own bits in their places.                        *)

Flags(sync, xneg, yneg, overflow, value) ==
  [sync |-> sync, xneg |-> xneg, yneg |-> yneg, overflow |-> overflow, value |-> value]
Number(value) == Flags(value % 2 = 1, value >= BYTE \div 2, FALSE, FALSE, value)

clamp(n, size) == IF n < 0 THEN 0 ELSE IF n >= size THEN size - 1 ELSE n

\* A movement to the right and up, with a turn of the wheel; too far a movement
\* is marked and carries nothing.
SendPacket(dx, dy, dz, buttons, overflow) ==
  /\ packets < MaxPackets /\ Len(bytes) < 4 /\ packets' = packets + 1
  /\ g_intellimouse \/ dz = 0
  /\ bytes' = bytes \o <<Flags(TRUE, dx < 0, dy < 0, overflow, buttons), Number(dx % BYTE), Number(dy % BYTE)>>
                    \o (IF g_intellimouse THEN <<Number(dz % NIBBLE)>> ELSE <<>>)
  /\ moved' = IF overflow THEN moved
              ELSE [x |-> clamp(moved.x + dx, g_fb_width), y |-> clamp(moved.y - dy, g_fb_height),
                    buttons |-> buttons, scroll |-> moved.scroll + dz]
  /\ UNCHANGED <<g_intellimouse, g_packet, g_mouse, scrolled, wrapped, desync>>

\* An answer that mouse_init no longer waited for (it polls 100000 times), between
\* packets: the number of a device, or an acknowledgement (0xFA) or the report of
\* a self-test (0xAA), which has the bit of a first byte set, and those of an overflow.
Stray(sync) ==
  /\ bytes = <<>> /\ g_packet = <<>> /\ bytes' = <<Flags(sync, sync, sync, sync, 0)>>
  /\ desync' = (desync \/ sync)
  /\ UNCHANGED <<g_intellimouse, g_packet, g_mouse, packets, moved, scrolled, wrapped>>

-----------------------------------------------------------------------------
(* The driver.                                                             *)

packet_size == IF g_intellimouse THEN 4 ELSE 3

\* Mutant: the sign of a movement is the top bit of its byte.
magnitude_byte(value, negative) == IF value >= BYTE \div 2 THEN value - BYTE ELSE value

\* A movement of nine bits, the sign among the flags.
magnitude(value, negative) == value - (IF negative THEN BYTE ELSE 0)

\* A scroll, sign-extended.
dz_of(value) == IF value >= NIBBLE \div 2 THEN value - NIBBLE ELSE value

\* The state of the mouse after a packet.
Moved(p) ==
  [x |-> clamp(g_mouse.x + magnitude(p[2].value, p[1].xneg), g_fb_width),
   y |-> clamp(g_mouse.y - magnitude(p[3].value, p[1].yneg), g_fb_height),
   buttons |-> p[1].value % 8,
   scroll |-> g_mouse.scroll + (IF g_intellimouse THEN dz_of(p[4].value) ELSE 0),
   pending |-> TRUE]

\* on_mouse_irq
on_mouse_irq ==
  LET p == Append(g_packet, Head(bytes))
  IN  /\ bytes # <<>> /\ bytes' = Tail(bytes)
      /\ \/ /\ g_packet = <<>> /\ ~Head(bytes).sync            \* not the start of a packet
            /\ UNCHANGED <<g_packet, g_mouse>>
         \/ /\ g_packet # <<>> \/ Head(bytes).sync
            /\ Len(p) < packet_size /\ g_packet' = p /\ UNCHANGED g_mouse
         \/ /\ Len(p) = packet_size /\ g_packet' = <<>>
            /\ g_mouse' = IF p[1].overflow THEN g_mouse ELSE Moved(p)
      /\ UNCHANGED <<g_intellimouse, packets, moved, scrolled, wrapped, desync>>

\* The scroll as a signed char.
Char(n) == ((n + CHAR \div 2) % CHAR) - CHAR \div 2

\* mouse_read_state and SYS_READ_MOUSE, which tells nothing unless a packet came.
SYS_READ_MOUSE ==
  /\ g_mouse' = [g_mouse EXCEPT !.pending = FALSE, !.scroll = 0]
  /\ scrolled' = IF g_mouse.pending THEN scrolled + Char(g_mouse.scroll) ELSE scrolled
  /\ wrapped' = (wrapped \/ Char(g_mouse.scroll) # g_mouse.scroll)
  /\ UNCHANGED <<g_intellimouse, bytes, g_packet, packets, moved, desync>>

MouseNext ==
  \/ \E dx \in {-BYTE, -1, BYTE - 1}, dy \in {-1, 0, 1}, dz \in {-(NIBBLE \div 2), 0, 1},
        buttons \in {0, 1}, overflow \in BOOLEAN :
       SendPacket(dx, dy, dz, buttons, overflow)
  \/ \E sync \in BOOLEAN : Stray(sync)
  \/ on_mouse_irq \/ SYS_READ_MOUSE

MouseSpec == MouseInit /\ [][MouseNext]_mouseVars

-----------------------------------------------------------------------------
(* Properties.                                                             *)

(* The cursor is always on the screen.  Once the interrupts have taken all *)
(* bytes, cursor and buttons are where the movements lead, and no turn of  *)
(* the wheel is lost or told twice however the reads of programs fall      *)
(* among the packets, unless more than a char holds comes together between *)
(* two of them.  Stray bytes do no harm as long as on_mouse_irq can tell   *)
(* them from the start of a packet; after an acknowledgement it cannot,    *)
(* and reads the packets that follow out of step.                          *)
MouseFollows ==
  /\ g_mouse.x \in 0 .. g_fb_width - 1 /\ g_mouse.y \in 0 .. g_fb_height - 1
  /\ ~desync /\ bytes = <<>> /\ g_packet = <<>> =>
       /\ <<g_mouse.x, g_mouse.y, g_mouse.buttons>> = <<moved.x, moved.y, moved.buttons>>
       /\ ~wrapped => scrolled + g_mouse.scroll = moved.scroll
=============================================================================
