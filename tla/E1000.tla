------------------------------- MODULE E1000 --------------------------------
(***************************************************************************)
(* The network card driver, kernel/io/e1000.c, and the frames ethernet.c   *)
(* gives it.  The card is external: it takes the descriptors from its head *)
(* register up to the tail register of each ring, receives into the        *)
(* buffers of the one and sends from the memory of the other.              *)
(*                                                                         *)
(* e1000_send returns as soon as the descriptor is written and             *)
(* ethernet_send frees the frame at once: its memory may be given out      *)
(* again and overwritten before the card has read it.  A tail register     *)
(* that has caught up with the head means an empty ring: with              *)
(* TX_DESC_COUNT frames waiting at once the card stops, and the next       *)
(* e1000_send spins for good on a descriptor that is never done.           *)
(***************************************************************************)
EXTENDS Integers, Sequences

CONSTANTS
  TX_DESC_COUNT,  \* 8
  RX_DESC_COUNT,  \* 64
  Memory,         \* blocks of the heap that frames to be sent are put into
  MaxFrames       \* bound: frames sent, and frames received

ASSUME E1000Assumption ==
  /\ {TX_DESC_COUNT, RX_DESC_COUNT} \subseteq Nat \ {0, 1}
  /\ MaxFrames \in Nat /\ Memory # {}

VARIABLES
  nic_state,  \* e1000_init: "absent", "reset", "up", "dead", "fault"
  tx_descs,   \* slot -> [addr, done, frame]: the frame's memory, status & DD; history: its number
  mem,        \* block -> the frame it holds, 0 for anything else
  tx_tail,
  TDH, TDT,
  rx_descs,   \* slot -> [frame, done]: the buffer's frame, status & DD
  rx_tail,
  RDH, RDT,
  came,       \* history: frames that reached the card
  kept,       \* history: the ones for which it had a descriptor
  up,         \* history: frames given to ethernet_receive
  given,      \* history: frames given to e1000_send
  sent_frames, \* history: what the card has put on the cable
  spoilt      \* history: frames whose memory was used again before the card read it

e1000Vars == <<nic_state, tx_descs, mem, tx_tail, TDH, TDT, rx_descs, rx_tail, RDH, RDT,
               came, kept, up, given, sent_frames, spoilt>>
rxVars == <<rx_descs, rx_tail, RDH, RDT, came, kept, up>>
txVars == <<tx_descs, mem, tx_tail, TDH, TDT, given, sent_frames, spoilt>>

Tx == 0 .. TX_DESC_COUNT - 1
Rx == 0 .. RX_DESC_COUNT - 1

E1000Init ==
  /\ nic_state = "absent"
  /\ tx_descs = [d \in Tx |-> [addr |-> CHOOSE b \in Memory : TRUE, done |-> FALSE, frame |-> 0]]
  /\ mem = [b \in Memory |-> 0] /\ spoilt = {} /\ tx_tail = 0 /\ TDH = 0 /\ TDT = 0
  /\ rx_descs = [d \in Rx |-> [frame |-> 0, done |-> FALSE]] /\ rx_tail = 0 /\ RDH = 0 /\ RDT = 0
  /\ came = 0 /\ kept = <<>> /\ up = <<>> /\ given = 0 /\ sent_frames = <<>>

\* e1000_init writes CTRL.RST and polls it a bounded number of times.
e1000_init ==
  /\ nic_state = "absent" /\ nic_state' = "reset"
  /\ UNCHANGED <<rxVars, txVars>>

\* The card does not come back: init returns without rings, and
\* register_nic still makes it an interface.
e1000_init_timeout ==
  /\ nic_state = "reset" /\ nic_state' = "dead"
  /\ UNCHANGED <<rxVars, txVars>>

e1000_init_rx ==
  /\ rx_descs' = [d \in Rx |-> [frame |-> 0, done |-> FALSE]]
  /\ RDH' = 0 /\ RDT' = RX_DESC_COUNT - 1
  /\ UNCHANGED <<rx_tail, came, kept, up>>

e1000_init_tx ==
  /\ tx_descs' = [d \in Tx |-> [tx_descs[d] EXCEPT !.done = TRUE]]
  /\ TDH' = 0 /\ TDT' = 0
  /\ UNCHANGED <<mem, tx_tail, given, sent_frames, spoilt>>

e1000_init_done ==
  /\ nic_state = "reset" /\ nic_state' = "up"
  /\ e1000_init_rx /\ e1000_init_tx

-----------------------------------------------------------------------------
(* The driver.                                                             *)

after_poll_stale(d) == (d + 1) % RX_DESC_COUNT
after_poll(d) == d

\* One turn of the loop of e1000_poll: the timer polls with interrupts off,
\* the card goes on between the turns.
e1000_poll ==
  /\ nic_state = "up" /\ rx_descs[rx_tail].done
  /\ up' = Append(up, rx_descs[rx_tail].frame)
  /\ rx_descs' = [rx_descs EXCEPT ![rx_tail].done = FALSE]
  /\ RDT' = after_poll(rx_tail)
  /\ rx_tail' = (rx_tail + 1) % RX_DESC_COUNT
  /\ UNCHANGED <<nic_state, txVars, RDH, came, kept>>

\* rx_descs is null then.
e1000_poll_dead ==
  /\ nic_state = "dead" /\ nic_state' = "fault"
  /\ UNCHANGED <<rxVars, txVars>>

\* The frames that the card has not sent, in block b.
NotSent(b) == {tx_descs[d].frame : d \in {e \in Tx : ~tx_descs[e].done /\ tx_descs[e].addr = b}}

\* ethernet_send, which puts a frame into a block of the heap and frees it after
\* e1000_send, which spins until the descriptor is done.
e1000_send(b) ==
  /\ nic_state = "up" /\ given < MaxFrames
  /\ tx_descs[tx_tail].done
  /\ given' = given + 1
  /\ mem' = [mem EXCEPT ![b] = given + 1] /\ spoilt' = spoilt \cup NotSent(b)
  /\ tx_descs' = [tx_descs EXCEPT ![tx_tail] = [addr |-> b, done |-> FALSE, frame |-> given + 1]]
  /\ tx_tail' = (tx_tail + 1) % TX_DESC_COUNT
  /\ TDT' = (tx_tail + 1) % TX_DESC_COUNT
  /\ UNCHANGED <<nic_state, rxVars, TDH, sent_frames>>

\* Another part of the kernel gets the block from kmalloc and writes to it.
Reuse(b) ==
  /\ nic_state = "up" /\ mem[b] # 0
  /\ mem' = [mem EXCEPT ![b] = 0] /\ spoilt' = spoilt \cup NotSent(b)
  /\ UNCHANGED <<nic_state, rxVars, tx_descs, tx_tail, TDH, TDT, given, sent_frames>>

-----------------------------------------------------------------------------
(* The card.                                                               *)

Transmit ==
  /\ nic_state = "up" /\ TDH # TDT
  /\ sent_frames' = Append(sent_frames, mem[tx_descs[TDH].addr])
  /\ tx_descs' = [tx_descs EXCEPT ![TDH].done = TRUE]
  /\ TDH' = (TDH + 1) % TX_DESC_COUNT
  /\ UNCHANGED <<nic_state, rxVars, mem, tx_tail, TDT, given, spoilt>>

\* A frame arrives; without a descriptor it is lost.
Arrive ==
  /\ nic_state = "up" /\ came < MaxFrames /\ came' = came + 1
  /\ IF RDH # RDT
     THEN /\ rx_descs' = [rx_descs EXCEPT ![RDH] = [frame |-> came + 1, done |-> TRUE]]
          /\ RDH' = (RDH + 1) % RX_DESC_COUNT
          /\ kept' = Append(kept, came + 1)
     ELSE UNCHANGED <<rx_descs, RDH, kept>>
  /\ UNCHANGED <<nic_state, txVars, rx_tail, RDT, up>>

E1000Next ==
  \/ e1000_init \/ e1000_init_timeout \/ e1000_init_done
  \/ e1000_poll \/ e1000_poll_dead
  \/ \E b \in Memory : e1000_send(b) \/ Reuse(b)
  \/ Transmit \/ Arrive

E1000Spec == E1000Init /\ [][E1000Next]_e1000Vars

-----------------------------------------------------------------------------
(* Properties.                                                             *)

(* Around both rings, and however the card and the driver alternate: the   *)
(* frames given up are the ones the card kept, in their order and each     *)
(* once, the card keeps a frame whenever fewer than RX_DESC_COUNT - 1 wait *)
(* and the driver always finds what the card kept (e1000_poll).  The cable *)
(* carries the frames of e1000_send in their order, each once and with its *)
(* own bytes unless its memory was used again before; no descriptor is     *)
(* overwritten that the card still needs, even with the ring full, and the *)
(* card knows of all frames it has not sent, except that a full ring looks *)
(* empty to it (e1000_send).                                               *)
FramesInOrder ==
  /\ Len(up) <= Len(kept) /\ up = SubSeq(kept, 1, Len(up))
  /\ nic_state = "up" =>
       /\ (RDT - RDH) % RX_DESC_COUNT = RX_DESC_COUNT - 1 - (Len(kept) - Len(up))
       /\ rx_descs[rx_tail].done <=> Len(up) < Len(kept)
       /\ \A k \in 1 .. Len(sent_frames) : k \in spoilt \/ sent_frames[k] = k
       /\ \A k \in Len(sent_frames) + 1 .. given : \E d \in Tx : tx_descs[d].frame = k /\ ~tx_descs[d].done
       /\ given - Len(sent_frames) \in 0 .. TX_DESC_COUNT
       /\ given - Len(sent_frames) < TX_DESC_COUNT => (TDT - TDH) % TX_DESC_COUNT = given - Len(sent_frames)
=============================================================================
