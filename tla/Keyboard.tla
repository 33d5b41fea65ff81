------------------------------ MODULE Keyboard ------------------------------
(***************************************************************************)
(* The keyboard: the interrupt handler of the PS/2 keyboard and the event  *)
(* queue of kernel/io/keyboard.c, which the driver of USB keyboards fills  *)
(* too, and SYS_READ_KEY and SYS_READ_KEY_NB (kernel/cpu/syscall.c).       *)
(*                                                                         *)
(* System calls and interrupt handlers run with interrupts disabled up to  *)
(* the schedule() of SYS_READ_KEY, which enables them: the keyboard_read   *)
(* of a reader that was blocked goes on in steps, and keys and other tasks *)
(* may come between them.                                                  *)
(***************************************************************************)
EXTENDS Integers, Sequences, FiniteSets

CONSTANTS
  MAX_KEYEVENTS, \* entries of s_key_queue: 8
  Task,          \* tasks that read keys
  NoTask,
  UsbKeys,       \* keys of a USB keyboard
  MaxKeys,       \* bound: keys pressed on each keyboard
  MaxBytes       \* bound: bytes that wait before another key is pressed or released

VARIABLES
  wire,            \* bytes of the PS/2 keyboard that no interrupt has taken yet
  extended,        \* a prefix 0xE0 came last
  s_key_queue,     \* index -> event, also beyond s_key_queue_len
  s_key_queue_len,
  s_reading_task,
  state,           \* task -> READY, BLOCKED or DEAD
  pc,              \* task -> "user", or behind the schedule() of SYS_READ_KEY "reading", and in
                   \* keyboard_read "first" with its first entry read, "counting" with the
                   \* others moved up
  ev_read,         \* task -> that first entry
  pressed,         \* history: events of the keys pressed on the PS/2 keyboard
  injected,        \* history: events of the USB keyboard
  delivered,       \* history: events the system calls have returned, until the queue was full
  filled,          \* history: the queue has been full
  raced            \* history: a key or another read came into such a keyboard_read, or a kill

keyboardVars == <<wire, extended, s_key_queue, s_key_queue_len, s_reading_task, state, pc,
                  ev_read, pressed, injected, delivered, filled, raced>>

KEY_NONE == "none"

KeyboardInit ==
  /\ wire = <<>> /\ extended = FALSE
  /\ s_key_queue = [i \in 0 .. MAX_KEYEVENTS - 1 |-> KEY_NONE] /\ s_key_queue_len = 0
  /\ s_reading_task = NoTask
  /\ state = [t \in Task |-> "READY"] /\ pc = [t \in Task |-> "user"]
  /\ ev_read = [t \in Task |-> KEY_NONE]
  /\ pressed = <<>> /\ injected = <<>> /\ delivered = <<>> /\ filled = FALSE /\ raced = FALSE

-----------------------------------------------------------------------------
(* Scan codes.  A byte is [sc, released]; a letter, the return key, the    *)
(* arrow up and the key on the number pad with the same code, which has    *)
(* no character, stand for all keys.                                       *)

PsKeys == {"a", "return", "up", "pad_up"}
Prefix == [sc |-> "E0", released |-> FALSE]

ScanCode == [a |-> "1E", return |-> "1C", up |-> "48", pad_up |-> "48"]

\* kbd_US
kbd_US == [sc \in {"1E", "1C", "48"} |-> CASE sc = "1E" -> "a" [] sc = "1C" -> "newline" [] OTHER -> KEY_NONE]

scancode_set1_to_ascii(sc) == kbd_US[sc]

\* What a press of a key is meant to enter.
Entered(k) == CASE k = "a" -> "a" [] k = "return" -> "return" [] k = "up" -> "up" [] OTHER -> KEY_NONE
PsEvents == {"a", "return", "up"}

\* The keyboards are told apart by the names of their events.
ASSUME KeyboardAssumption ==
  /\ MAX_KEYEVENTS \in Nat \ {0} /\ NoTask \notin Task
  /\ UsbKeys \cap (PsEvents \cup {KEY_NONE, "garbage"}) = {}

\* The event of a code.
Decoded(sc) ==
  IF extended THEN IF sc = "48" THEN "up" ELSE KEY_NONE
  ELSE IF sc = "1C" THEN "return" ELSE scancode_set1_to_ascii(sc)

\* The keyboard sends the codes of a key that is pressed or released.
SendCodes(k, released) ==
  wire' = wire \o (IF k = "up" THEN <<Prefix>> ELSE <<>>) \o <<[sc |-> ScanCode[k], released |-> released]>>

Press(k) ==
  /\ Len(pressed) < MaxKeys /\ Len(wire) < MaxBytes
  /\ SendCodes(k, FALSE)
  /\ pressed' = IF Entered(k) = KEY_NONE THEN pressed ELSE Append(pressed, Entered(k))
  /\ UNCHANGED <<extended, s_key_queue, s_key_queue_len, s_reading_task, state, pc, ev_read, injected, delivered, filled, raced>>

Release(k) ==
  /\ Len(wire) < MaxBytes /\ SendCodes(k, TRUE)
  /\ UNCHANGED <<extended, s_key_queue, s_key_queue_len, s_reading_task, state, pc, ev_read, pressed, injected, delivered, filled, raced>>

-----------------------------------------------------------------------------
(* The queue.                                                              *)

\* task_set_ready
task_set_ready(t) == [state EXCEPT ![t] = IF @ = "BLOCKED" THEN "READY" ELSE @]

\* Tasks in the keyboard_read that can be interrupted.
Inside == {t \in Task : pc[t] \in {"first", "counting"}}

\* on_key_event: a full queue drops the event; the reader is woken all the same.
on_key_event(ev) ==
  /\ IF s_key_queue_len < MAX_KEYEVENTS
     THEN s_key_queue' = [s_key_queue EXCEPT ![s_key_queue_len] = ev] /\ s_key_queue_len' = s_key_queue_len + 1
     ELSE UNCHANGED <<s_key_queue, s_key_queue_len>>
  /\ filled' = (filled \/ s_key_queue_len >= MAX_KEYEVENTS - 1)
  /\ IF s_reading_task = NoTask THEN UNCHANGED state ELSE state' = task_set_ready(s_reading_task)
  /\ s_reading_task' = NoTask
  /\ raced' = (raced \/ Inside # {})

\* extended after the release of a key.
after_release(b) == FALSE

\* key_handler
key_handler ==
  LET b == Head(wire)
  IN  /\ wire # <<>> /\ wire' = Tail(wire)
      /\ \/ /\ b = Prefix /\ extended' = TRUE
            /\ UNCHANGED <<s_key_queue, s_key_queue_len, s_reading_task, state, filled, raced>>
         \/ /\ b # Prefix /\ b.released /\ extended' = after_release(b)
            /\ UNCHANGED <<s_key_queue, s_key_queue_len, s_reading_task, state, filled, raced>>
         \/ /\ b # Prefix /\ ~b.released /\ extended' = FALSE
            /\ IF Decoded(b.sc) # KEY_NONE THEN on_key_event(Decoded(b.sc))
               ELSE UNCHANGED <<s_key_queue, s_key_queue_len, s_reading_task, state, filled, raced>>
      /\ UNCHANGED <<pc, ev_read, pressed, injected, delivered>>

\* keyboard_inject, from the report of a USB keyboard in the timer interrupt.
keyboard_inject(k) ==
  /\ Len(injected) < MaxKeys
  /\ injected' = Append(injected, k)
  /\ on_key_event(k)
  /\ UNCHANGED <<wire, extended, pc, ev_read, pressed, delivered>>

\* Mutant: the entries are not moved up.
shifted_not(beyond) == s_key_queue

\* The entries of keyboard_read moved up by one.  With a full queue the last one
\* is taken from what lies beyond the array.
shifted(beyond) ==
  [i \in DOMAIN s_key_queue |->
     IF i >= s_key_queue_len THEN s_key_queue[i]
     ELSE IF i = MAX_KEYEVENTS - 1 THEN beyond ELSE s_key_queue[i + 1]]

\* The program gets the event e.
Deliver(e) == delivered' = IF e = KEY_NONE \/ filled THEN delivered ELSE Append(delivered, e)

\* keyboard_read: the first entry, whether or not the queue is empty.
keyboard_read ==
  /\ IF s_key_queue_len > 0
     THEN /\ \E beyond \in {KEY_NONE, "garbage"} : s_key_queue' = shifted(beyond)
          /\ s_key_queue_len' = s_key_queue_len - 1
     ELSE UNCHANGED <<s_key_queue, s_key_queue_len>>
  /\ Deliver(s_key_queue[0])

InUser(t) == state[t] = "READY" /\ pc[t] = "user"

\* A step of task t in the queue while another task is inside keyboard_read.
Touch(t) == raced' = (raced \/ Inside \ {t} # {})

\* SYS_READ_KEY with an event, and SYS_READ_KEY_NB.
SYS_READ_KEY(t) ==
  /\ InUser(t) /\ keyboard_read /\ Touch(t)
  /\ UNCHANGED <<wire, extended, s_reading_task, state, pc, ev_read, pressed, injected, filled>>

\* SYS_READ_KEY without one: blocks, if no other task does already (keyboard_set_reader).
SYS_READ_KEY_block(t) ==
  /\ InUser(t) /\ s_key_queue[0] = KEY_NONE /\ s_reading_task = NoTask
  /\ keyboard_read /\ Touch(t)
  /\ s_reading_task' = t
  /\ state' = [state EXCEPT ![t] = "BLOCKED"] /\ pc' = [pc EXCEPT ![t] = "reading"]
  /\ UNCHANGED <<wire, extended, ev_read, pressed, injected, filled>>

\* SYS_READ_KEY goes on behind schedule(): keyboard_read takes the first entry,
SYS_READ_KEY_first(t) ==
  /\ state[t] = "READY" /\ pc[t] = "reading" /\ Touch(t)
  /\ ev_read' = [ev_read EXCEPT ![t] = s_key_queue[0]] /\ pc' = [pc EXCEPT ![t] = "first"]
  /\ UNCHANGED <<wire, extended, s_key_queue, s_key_queue_len, s_reading_task, state, pressed, injected, delivered, filled>>

\* moves up the others if the queue is not empty (a key that comes into the loop does
\* what one before or behind it does, as the length is read again or kept in a register),
SYS_READ_KEY_shift(t) ==
  /\ state[t] = "READY" /\ pc[t] = "first" /\ Touch(t)
  /\ IF s_key_queue_len > 0
     THEN /\ \E beyond \in {KEY_NONE, "garbage"} : s_key_queue' = shifted(beyond)
          /\ pc' = [pc EXCEPT ![t] = "counting"]
     ELSE pc' = [pc EXCEPT ![t] = "user"] /\ UNCHANGED s_key_queue
  /\ Deliver(ev_read[t])
  /\ UNCHANGED <<wire, extended, s_key_queue_len, s_reading_task, state, ev_read, pressed, injected, filled>>

\* and counts it off, so that a key that came behind the loop is lost.
SYS_READ_KEY_count(t) ==
  /\ state[t] = "READY" /\ pc[t] = "counting" /\ Touch(t)
  /\ s_key_queue_len' = s_key_queue_len - 1 /\ pc' = [pc EXCEPT ![t] = "user"]
  /\ UNCHANGED <<wire, extended, s_key_queue, s_reading_task, state, ev_read, pressed, injected, delivered, filled>>

\* task_kill: the slot of the reader keeps the task.
Kill(t) ==
  /\ state[t] # "DEAD" /\ state' = [state EXCEPT ![t] = "DEAD"]
  /\ raced' = (raced \/ t \in Inside)
  /\ UNCHANGED <<wire, extended, s_key_queue, s_key_queue_len, s_reading_task, pc, ev_read, pressed, injected, delivered, filled>>

KeyboardNext ==
  \/ \E k \in PsKeys : Press(k) \/ Release(k)
  \/ key_handler
  \/ \E k \in UsbKeys : keyboard_inject(k)
  \/ \E t \in Task : \/ SYS_READ_KEY(t) \/ SYS_READ_KEY_block(t)
                     \/ SYS_READ_KEY_first(t) \/ SYS_READ_KEY_shift(t) \/ SYS_READ_KEY_count(t)
                     \/ Kill(t)

KeyboardSpec == KeyboardInit /\ [][KeyboardNext]_keyboardVars

-----------------------------------------------------------------------------
(* Properties.                                                             *)

\* Events that wait: the one a reader has taken is not counted any more.
Waiting == IF \E t \in Task : pc[t] = "counting" THEN s_key_queue_len - 1 ELSE s_key_queue_len
KeyQueue == [i \in 1 .. Waiting |-> s_key_queue[i - 1]]

\* The events in S, among others, are the first n of seq, in order.
CountOf(events, S, i) == Cardinality({j \in 1 .. i : events[j] \in S})
AreFirst(events, S, seq, n) ==
  /\ CountOf(events, S, Len(events)) = n
  /\ \A i \in 1 .. Len(events) : events[i] \in S => events[i] = seq[CountOf(events, S, i)]

(* Until the queue is full, programs read the keys that were pressed on    *)
(* each keyboard, in order, none twice and none made up by a stale entry   *)
(* or by a prefix left over; those not read yet are in the queue.  And a   *)
(* task that blocks in SYS_READ_KEY is the one the next key wakes, with no *)
(* key waiting.  Both end when a key, another read or a kill comes into    *)
(* the keyboard_read of a woken reader, which runs with interrupts         *)
(* enabled: a key may then be lost or read twice.                          *)
KeysInOrder ==
  ~raced =>
    /\ ~filled =>
         LET events == delivered \o KeyQueue
         IN  /\ \A i \in 1 .. Len(events) : events[i] \in UsbKeys \cup PsEvents
             /\ AreFirst(events, UsbKeys, injected, Len(injected))
             /\ wire = <<>> => AreFirst(events, PsEvents, pressed, Len(pressed))
    /\ \A t \in Task : state[t] = "BLOCKED" => s_reading_task = t /\ (filled \/ Waiting = 0)
=============================================================================
