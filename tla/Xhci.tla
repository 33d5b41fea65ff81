-------------------------------- MODULE Xhci --------------------------------
(***************************************************************************)
(* The USB host controller driver, kernel/io/xhci.c: xhci_init brings up   *)
(* the controllers one after the other, enumerates their ports and, later, *)
(* usb_msc_read reads sectors.  The driver pushes requests (TRBs) into     *)
(* rings, spins until the event that answers appears (cmd_wait, xfer_wait) *)
(* and drops every other event it meets.  xhci_poll takes all events in    *)
(* the timer interrupt, between any two steps: it handles keyboard reports *)
(* and drops the rest, which may be what the driver spins for.             *)
(*                                                                         *)
(* A ring has the cycle bits of the code: the driver writes at enq with    *)
(* pcs, the controller reads at deq as long as the bit there is ccs, and   *)
(* the last place holds a link back to the first.  A TRB is known by the   *)
(* step of the driver that pushed it.  Events are a queue.  The controller *)
(* and the devices are external: they carry out the requests of each ring  *)
(* in order, well or with an error, after which the endpoint is halted.    *)
(* A device may do so after the driver has given up waiting (early counts  *)
(* how often); commands, which are the controller's own, are in time.      *)
(***************************************************************************)
EXTENDS Integers, Sequences, FiniteSets

CONSTANTS
  Controllers,    \* n_xhci, at most 4
  MaxPorts,       \* max_ports
  Attached,       \* controller -> port -> what is connected there
  MAX_SLOTS,      \* 8
  CMD_RING_SZ,    \* 64
  XFER_RING_SZ,   \* 32
  MaxRetries,     \* 20, the rounds after the first
  MaxReads,       \* bound: calls of usb_msc_read
  MaxEarly,       \* bound: waits that give up on an answer that is to come
  MaxReports,     \* bound: reports the keyboards send
  Keys            \* what a keyboard report may contain

XSlot == 1 .. MAX_SLOTS
EpName == {"ep0", "kbd", "out", "in"}

ASSUME XhciAssumption ==
  /\ {Controllers, MaxPorts, MAX_SLOTS} \subseteq Nat \ {0}
  /\ {MaxRetries, MaxReads, MaxEarly, MaxReports} \subseteq Nat
  /\ CMD_RING_SZ \in Nat /\ CMD_RING_SZ > 2 /\ XFER_RING_SZ \in Nat /\ XFER_RING_SZ > 4
  /\ \A c \in 1 .. Controllers, p \in 1 .. MaxPorts :
       Attached[c][p] \in {"kbd", "msc", "other", "none"}

VARIABLES
  xi,        \* where xhci_init or usb_msc_read is: at, ci, round, port, slot, tag
  port_done, \* ports of the controller that were enumerated
  smi,       \* the firmware intercepts the controller
  g_xhci_ok,
  g_msc_slot,
  g_slots,   \* slot -> what the driver knows of its device
  cmd,       \* the command ring
  rings,     \* slot -> endpoint -> transfer ring
  ictx,      \* the input context of the last command
  evt,       \* events not dequeued
  used,      \* slots the controller has given out
  bot,       \* the buffers of the storage protocol
  sends,     \* what the storage device is to send
  typed,     \* number of keyboard reports sent
  early,     \* history: waits given up although the answer was to come
  answer     \* history: the request and the answer of the last wait and read

drv == <<port_done, smi, g_xhci_ok, g_msc_slot>>   \* what xhci_init alone changes
dev == <<used, sends, typed>>                      \* what the devices alone change
hist == <<early, answer>>

xhciVars == <<xi, drv, g_slots, cmd, rings, ictx, evt, bot, dev, hist>>

-----------------------------------------------------------------------------
(* Rings.                                                                  *)

EmptyRing(sz) == [mem |-> [i \in 0 .. sz - 1 |-> [c |-> 0, op |-> "none", slot |-> 0, ioc |-> TRUE]],
                  enq |-> 0, pcs |-> 1, deq |-> 0, ccs |-> 1, on |-> FALSE]

\* cmd_push, ep0_push, kbd_push_one, bulk_out_push, bulk_in_push.
push(r, op, slot, ioc) ==
  LET last == Cardinality(DOMAIN r.mem) - 1
      m == [r.mem EXCEPT ![r.enq] = [c |-> r.pcs, op |-> op, slot |-> slot, ioc |-> ioc]]
  IN  IF r.enq + 1 < last THEN [r EXCEPT !.mem = m, !.enq = @ + 1]
      ELSE [r EXCEPT !.mem = [m EXCEPT ![last] = [c |-> r.pcs, op |-> "link", slot |-> 0, ioc |-> FALSE]],
                     !.enq = 0, !.pcs = 1 - @]

\* One TRB after the other; iocs says of each whether it asks for an event.
push_all(r, op, slot, iocs) ==
  LET p[k \in 0 .. Len(iocs)] == IF k = 0 THEN r ELSE push(p[k - 1], op, slot, iocs[k])
  IN  p[Len(iocs)]

\* The controller's end of a ring: the ring after the link has been followed,
\* whether there is a TRB to carry out, and the ring after it.
AtTrb(r) == IF r.mem[r.deq].op = "link" /\ r.mem[r.deq].c = r.ccs
            THEN [r EXCEPT !.deq = 0, !.ccs = 1 - @] ELSE r
HasTrb(r) == r.on /\ LET q == AtTrb(r) IN q.mem[q.deq].c = q.ccs
TrbOf(r) == LET q == AtTrb(r) IN q.mem[q.deq]
Skip(r) == [AtTrb(r) EXCEPT !.deq = @ + 1]

\* A control transfer ends with the TRB that asks for an event (IOC), at most its
\* third.
NextIoc(r) == IF TrbOf(r).ioc THEN r ELSE Skip(r)
AtIoc(r) == NextIoc(NextIoc(r))

-----------------------------------------------------------------------------
(* What the driver does: steps that push a request and wait for its answer *)

NoSlot == [kbd_ready |-> FALSE, kbd_dci |-> "none", msc_ready |-> FALSE, prev_report |-> {},
           kbd_buf |-> {}, injected |-> {}]

Commands == {"enable", "bsr", "address", "mout", "min", "kconf"}
ControlIn == {"desc8", "desc18", "conf4", "conf"}   \* with a data stage
ControlOut == {"mset", "kset", "kproto", "kidle"}
Bulk == {"cbw", "data", "csw"}
Requests == Commands \cup ControlIn \cup ControlOut \cup Bulk

\* The endpoint whose event a step waits for.
EndpointOf(step) == IF step = "cbw" THEN "out" ELSE IF step \in Bulk THEN "in" ELSE "ep0"

\* DCI of an endpoint: a keyboard and a storage device both use endpoint 1 IN.
Dci(ep) == IF ep = "in" THEN "kbd" ELSE ep

\* After a failure these go on as after a success.
Tolerated == {"desc8", "desc18", "kproto", "kidle"}

\* What the descriptors say: storage is preferred to a keyboard.
Parsed == CASE Attached[xi.ci][xi.port] = "msc" -> "mset"
            [] Attached[xi.ci][xi.port] = "kbd" -> "kset"
            [] OTHER -> "scan"

After(step) ==
  CASE step = "enable" -> "bsr"       [] step = "bsr" -> "desc8"
    [] step = "desc8" -> "address"    [] step = "address" -> "desc18"
    [] step = "desc18" -> "conf4"     [] step = "conf4" -> "conf"
    [] step = "conf" -> Parsed        [] step = "mset" -> "mout"
    [] step = "mout" -> "min"         [] step = "min" -> "cbw"
    [] step = "kset" -> "kproto"      [] step = "kproto" -> "kidle"
    [] step = "kidle" -> "kconf"      [] step = "kconf" -> "kready"
    [] step = "cbw" -> IF xi.reading THEN "data" ELSE "csw"
    [] step = "data" -> "csw"         [] step = "csw" -> "status"

\* enumerate_port returns false, bot_command -1.
GiveUp(step) == IF step \in Bulk THEN "failed" ELSE "scan"

XhciInit ==
  /\ xi = [at |-> "handoff", ci |-> 1, round |-> 0, port |-> 0, slot |-> 0, tag |-> 1,
           reading |-> FALSE, pushed |-> FALSE]
  /\ port_done = {} /\ smi = TRUE /\ g_xhci_ok = FALSE /\ g_msc_slot = 0
  /\ g_slots = [s \in XSlot |-> NoSlot]
  /\ cmd = EmptyRing(CMD_RING_SZ)
  /\ rings = [s \in XSlot |-> [e \in EpName |-> EmptyRing(XFER_RING_SZ)]]
  /\ ictx = [ep |-> "ep0", deq |-> 0, ccs |-> 1]
  /\ evt = <<>> /\ used = 0 /\ sends = <<>> /\ typed = 0
  /\ bot = [cbw |-> 0, asks |-> FALSE, csw |-> 0, data |-> 0]
  /\ early = 0
  /\ answer = [want |-> "none", got |-> "none", read |-> 0, data |-> 0]

\* The controller after this one, unless a storage device was found.
NextController(s) ==
  IF s.ci < Controllers /\ g_msc_slot = 0
  THEN [s EXCEPT !.at = "handoff", !.ci = @ + 1, !.round = 0, !.port = 0]
  ELSE [s EXCEPT !.at = "idle"]

\* The firmware's interception is switched off, before and after the reset.
bios_handoff ==
  /\ xi.at \in {"handoff", "handoff2"} /\ smi' = FALSE
  /\ xi' = [xi EXCEPT !.at = IF @ = "handoff" THEN "reset" ELSE "init"]
  /\ UNCHANGED <<port_done, g_xhci_ok, g_msc_slot, g_slots, cmd, rings, ictx, evt, dev, bot, hist>>

\* The reset stops everything on the controller; the firmware may take it back.
ctrl_reset(ok) ==
  /\ xi.at = "reset"
  /\ xi' = IF ok THEN [xi EXCEPT !.at = "handoff2"] ELSE NextController(xi)
  /\ smi' = TRUE
  /\ cmd' = [cmd EXCEPT !.on = FALSE]
  /\ rings' = [s \in XSlot |-> [e \in EpName |-> [rings[s][e] EXCEPT !.on = FALSE]]]
  /\ UNCHANGED <<port_done, g_xhci_ok, g_msc_slot, g_slots, ictx, evt, dev, bot, hist>>

\* New rings, contexts and registers; what g_slots says of devices of an earlier
\* controller stays.
ctrl_init(ok) ==
  /\ xi.at = "init"
  /\ cmd' = [EmptyRing(CMD_RING_SZ) EXCEPT !.on = ok]
  /\ evt' = <<>> /\ used' = 0
  /\ xi' = IF ok THEN [xi EXCEPT !.at = "scan"] ELSE NextController(xi)
  /\ g_xhci_ok' = (g_xhci_ok \/ ok) /\ port_done' = {}
  /\ UNCHANGED <<smi, g_msc_slot, g_slots, rings, ictx, bot, sends, typed, hist>>

\* The loops over ports and rounds: a port where a device is seen (CCS) and that
\* is not done is enumerated.
scan(ccs) ==
  LET p == xi.port + 1
      take == ccs /\ Attached[xi.ci][p] # "none" /\ (xi.round = 0 \/ p \notin port_done)
  IN  /\ xi.at = "scan"
      /\ xi' = IF p <= MaxPorts
               THEN [xi EXCEPT !.port = p, !.at = IF take THEN "port_reset" ELSE "scan"]
               ELSE IF xi.round < MaxRetries /\ g_msc_slot = 0
                    THEN [xi EXCEPT !.round = @ + 1, !.port = 0]
               ELSE NextController(xi)
      /\ UNCHANGED <<drv, g_slots, cmd, rings, ictx, evt, dev, bot, hist>>

\* What PORTSC shows at the entry, after the wait for a link in Polling, after
\* the power cycle and after PR was written: "enabled" (PED), "polling" or
\* "other".  Writes have no effect while the firmware intercepts them.
PortReading == {"enabled", "polling", "other"}
Enabled(entry, waited, cycled, reset) ==
  IF entry = "polling" /\ waited = "enabled" THEN TRUE
  ELSE IF entry = "polling" /\ waited = "polling" /\ cycled = "enabled" THEN ~smi
  ELSE reset = "enabled" /\ ~smi

port_reset(entry, waited, cycled, reset) ==
  /\ xi.at = "port_reset"
  /\ xi' = [xi EXCEPT !.at = IF Enabled(entry, waited, cycled, reset) THEN "enable" ELSE "scan"]
  /\ UNCHANGED <<drv, g_slots, cmd, rings, ictx, evt, dev, bot, hist>>

\* Mutant: the endpoint's ring starts over at its first place.
ep0_deq_base(r) == [ep |-> "ep0", deq |-> 0, ccs |-> 1]

\* The input context of Address Device: the ring goes on where the driver is.
ep0_deq(r) == [ep |-> "ep0", deq |-> r.enq, ccs |-> r.pcs]

\* The TRBs of a transfer, and whether each asks for an event.
Trbs(step) == IF step \in ControlIn THEN <<FALSE, FALSE, TRUE>>
              ELSE IF step \in ControlOut THEN <<FALSE, TRUE>> ELSE <<TRUE>>

\* configure_bulk_ep: the endpoint gets a new ring.
configure_bulk_ep(s, ep) == [rings EXCEPT ![s][ep] = EmptyRing(XFER_RING_SZ)]

\* A command: address_device, configure_endpoint, configure_bulk_ep and Enable Slot.
PushCommand ==
  LET s == xi.slot
      ep == CASE xi.at = "kconf" -> "kbd" [] xi.at = "mout" -> "out" [] xi.at = "min" -> "in"
              [] OTHER -> "ep0"
  IN  /\ xi.at \in Commands /\ ~xi.pushed /\ xi' = [xi EXCEPT !.pushed = TRUE]
      /\ cmd' = push(cmd, xi.at, s, TRUE)
      /\ ictx' = CASE xi.at = "enable" -> ictx
                   [] xi.at \in {"bsr", "address"} -> ep0_deq(rings[s]["ep0"])
                   [] OTHER -> [ep |-> ep, deq |-> 0, ccs |-> 1]
      /\ rings' = IF ep \in {"out", "in"} THEN configure_bulk_ep(s, ep) ELSE rings
      /\ g_slots' = IF ep = "kbd" THEN [g_slots EXCEPT ![s].kbd_dci = Dci("kbd")] ELSE g_slots
      /\ UNCHANGED <<drv, evt, dev, bot, hist>>

\* ctrl_xfer, and the transfers of bot_command; the first fills the CBW buffer.
PushTransfer ==
  /\ xi.at \in Requests \ Commands /\ ~xi.pushed /\ xi' = [xi EXCEPT !.pushed = TRUE]
  /\ rings' = [rings EXCEPT ![xi.slot][EndpointOf(xi.at)] =
                             push_all(@, xi.at, xi.slot, Trbs(xi.at))]
  /\ bot' = IF xi.at = "cbw" THEN [bot EXCEPT !.cbw = xi.tag, !.asks = xi.reading] ELSE bot
  /\ UNCHANGED <<drv, g_slots, cmd, ictx, evt, dev, hist>>

\* The event a wait accepts: any command completion, or any transfer event of the
\* slot and endpoint.
Accepts(e) == IF xi.at \in Commands THEN e.type = "cmd"
              ELSE e.type = "xfer" /\ e.slot = xi.slot /\ e.dci = Dci(EndpointOf(xi.at))

\* alloc_slot, when Enable Slot has answered.
AllocSlot(s) ==
  /\ rings' = [rings EXCEPT ![s] = [e \in EpName |-> IF e \in {"ep0", "kbd"} THEN EmptyRing(XFER_RING_SZ) ELSE rings[s][e]]]
  /\ g_slots' = [g_slots EXCEPT ![s].kbd_buf = {}]

Answered(ok) == [xi EXCEPT !.pushed = FALSE,
                           !.at = IF ok \/ xi.at \in Tolerated THEN After(xi.at) ELSE GiveUp(xi.at)]

\* One turn of cmd_wait or xfer_wait that finds an event.
wait_event ==
  LET e == Head(evt)
  IN  /\ xi.pushed /\ evt # <<>> /\ evt' = Tail(evt)
      /\ IF ~Accepts(e) THEN UNCHANGED <<xi, rings, g_slots, answer>>
         ELSE /\ answer' = [answer EXCEPT !.want = xi.at, !.got = e.op]
              /\ IF xi.at = "enable" /\ e.ok /\ e.slot # 0
                 THEN xi' = [Answered(TRUE) EXCEPT !.slot = e.slot] /\ AllocSlot(e.slot)
                 ELSE xi' = Answered(e.ok /\ xi.at # "enable") /\ UNCHANGED <<rings, g_slots>>
      /\ UNCHANGED <<drv, cmd, ictx, dev, bot, early>>

\* Whether the device has something for the next TRB of an endpoint.
Willing(ep) == (ep = "kbd" => typed < MaxReports) /\ (ep = "in" => sends # <<>>)

\* The answer is still to come.
Coming == \/ \E i \in 1 .. Len(evt) : Accepts(evt[i])
          \/ IF xi.at \in Commands THEN HasTrb(cmd)
             ELSE HasTrb(rings[xi.slot][EndpointOf(xi.at)]) /\ Willing(EndpointOf(xi.at))

\* The wait gives up: after five million turns.
wait_timeout ==
  /\ xi.pushed
  /\ IF ~Coming THEN UNCHANGED early
     ELSE xi.at \notin Commands /\ early < MaxEarly /\ early' = early + 1
  /\ xi' = Answered(FALSE)
  /\ UNCHANGED <<drv, g_slots, cmd, rings, ictx, evt, dev, bot, answer>>

\* kbd_push_one, and enumerate_port returns true.
keyboard_ready ==
  /\ xi.at = "kready" /\ xi' = [xi EXCEPT !.at = "scan"]
  /\ port_done' = port_done \cup {xi.port}
  /\ g_slots' = [g_slots EXCEPT ![xi.slot].kbd_ready = TRUE]
  /\ rings' = [rings EXCEPT ![xi.slot]["kbd"] = push(@, "report", xi.slot, TRUE)]
  /\ UNCHANGED <<smi, g_xhci_ok, g_msc_slot, cmd, ictx, evt, dev, bot, hist>>

\* usb_msc_read: READ(10).
usb_msc_read ==
  /\ xi.at = "idle" /\ g_msc_slot # 0 /\ xi.tag <= MaxReads + 1
  /\ g_slots[g_msc_slot].msc_ready
  /\ xi' = [xi EXCEPT !.at = "cbw", !.reading = TRUE, !.slot = g_msc_slot]
  /\ UNCHANGED <<drv, g_slots, cmd, rings, ictx, evt, bot, dev, hist>>

\* Mutant: the tag is not compared.
csw_ok_any(tag) == bot.csw # 0

\* Signature, tag and status of the CSW.
csw_ok(tag) == bot.csw = tag

\* The end of bot_command: the CSW is looked at, or a transfer failed.  A failed
\* TEST UNIT READY is not fatal.
EndCommand ==
  LET ok == xi.at = "status" /\ csw_ok(xi.tag)
  IN  /\ xi.at \in {"status", "failed"}
      /\ xi' = [xi EXCEPT !.at = IF xi.reading THEN "idle" ELSE "scan", !.tag = @ + 1]
      /\ IF xi.reading
         THEN /\ answer' = [answer EXCEPT !.read = IF ok THEN xi.tag ELSE 0,
                                          !.data = IF ok THEN bot.data ELSE 0]
              /\ UNCHANGED <<port_done, g_msc_slot, g_slots>>
         ELSE /\ port_done' = port_done \cup {xi.port} /\ g_msc_slot' = xi.slot
              /\ g_slots' = [g_slots EXCEPT ![xi.slot].msc_ready = TRUE]
              /\ UNCHANGED answer
      /\ UNCHANGED <<smi, g_xhci_ok, cmd, rings, ictx, evt, dev, bot, early>>

-----------------------------------------------------------------------------
(* The timer interrupt.                                                    *)

\* A keyboard's report that arrived.
IsReport(e) == e.type = "xfer" /\ e.ok /\ g_slots[e.slot].kbd_ready /\ e.dci = g_slots[e.slot].kbd_dci

\* The keys that were not down before go to keyboard_inject.
process_report(d) == [d EXCEPT !.injected = d.kbd_buf \ d.prev_report, !.prev_report = d.kbd_buf]

\* Every event is dequeued; a report is handled and its transfer queued again.
xhci_poll ==
  LET hit(s) == {i \in 1 .. Len(evt) : IsReport(evt[i]) /\ evt[i].slot = s}
  IN  /\ g_xhci_ok /\ evt # <<>> /\ evt' = <<>>
      /\ g_slots' = [s \in XSlot |-> IF hit(s) = {} THEN g_slots[s]
                                     ELSE process_report(g_slots[s])]
      /\ rings' = [s \in XSlot |-> [rings[s] EXCEPT !["kbd"] =
                              push_all(@, "report", s, [i \in 1 .. Cardinality(hit(s)) |-> TRUE])]]
      /\ UNCHANGED <<xi, drv, cmd, ictx, dev, bot, hist>>

-----------------------------------------------------------------------------
(* The controller and the devices (external).                              *)

Event(type, slot, dci, ok, op) == [type |-> type, slot |-> slot, dci |-> dci, ok |-> ok, op |-> op]

\* A command: a slot is given out while there is one; the contexts are read now.
HwCommand(ok) ==
  LET t == TrbOf(cmd)
      done == ok /\ (t.op = "enable" => used < MAX_SLOTS)
      s == IF t.op = "enable" THEN IF done THEN used + 1 ELSE 0 ELSE t.slot
  IN  /\ HasTrb(cmd) /\ cmd' = Skip(cmd)
      /\ used' = IF t.op = "enable" /\ done THEN used + 1 ELSE used
      /\ rings' = IF t.op = "enable" \/ ~done THEN rings
                  ELSE [rings EXCEPT ![s][ictx.ep] = [@ EXCEPT !.deq = ictx.deq, !.ccs = ictx.ccs, !.on = TRUE]]
      /\ evt' = Append(evt, Event("cmd", s, "none", done, t.op))
      /\ UNCHANGED <<xi, drv, g_slots, ictx, bot, sends, typed, hist>>

\* The answer to the command in the CBW buffer.
Answer == (IF bot.asks THEN <<[kind |-> "data", tag |-> bot.cbw]>> ELSE <<>>)
            \o <<[kind |-> "csw", tag |-> bot.cbw]>>

\* A transfer of endpoint ep of slot s.  A storage device that gets a command
\* before it has answered the last one goes on with its answer, or drops it.
HwTransfer(s, ep, ok, report) ==
  LET r == AtIoc(rings[s][ep])
      item == Head(sends)
      fits == ep = "in" => ~(item.kind = "data" /\ TrbOf(r).op = "csw")
      done == ok /\ fits
  IN  /\ HasTrb(rings[s][ep]) /\ Willing(ep)
      /\ rings' = [rings EXCEPT ![s][ep] = [Skip(r) EXCEPT !.on = done]]
      /\ evt' = Append(evt, Event("xfer", s, Dci(ep), done, TrbOf(r).op))
      /\ g_slots' = IF ep = "kbd" /\ done THEN [g_slots EXCEPT ![s].kbd_buf = report] ELSE g_slots
      /\ typed' = typed + (IF ep = "kbd" THEN 1 ELSE 0)
      /\ sends' \in IF ~done THEN {sends} ELSE
           CASE ep = "out" -> {old \o Answer : old \in {<<>>, sends}}
             [] ep = "in" -> {Tail(sends)}
             [] OTHER -> {sends}
      /\ bot' = IF ~done \/ ep # "in" THEN bot
                ELSE IF TrbOf(r).op = "csw" THEN [bot EXCEPT !.csw = item.tag]
                ELSE [bot EXCEPT !.data = IF item.kind = "data" THEN item.tag ELSE 0]
      /\ UNCHANGED <<xi, drv, cmd, ictx, used, hist>>

XhciNext ==
  \/ bios_handoff
  \/ \E ok \in BOOLEAN : ctrl_reset(ok) \/ ctrl_init(ok) \/ scan(ok)
  \/ \E entry, waited, cycled, reset \in PortReading : port_reset(entry, waited, cycled, reset)
  \/ PushCommand \/ PushTransfer \/ wait_event \/ wait_timeout
  \/ keyboard_ready \/ usb_msc_read \/ EndCommand
  \/ xhci_poll
  \/ \E ok \in BOOLEAN : HwCommand(ok)
  \/ \E s \in XSlot, ok \in BOOLEAN :
       \/ \E ep \in EpName \ {"kbd"} : HwTransfer(s, ep, ok, {})
       \/ \E report \in SUBSET Keys : HwTransfer(s, "kbd", ok, report)

XhciSpec == XhciInit /\ [][XhciNext]_xhciVars

-----------------------------------------------------------------------------
(* Properties.                                                             *)

(* As long as the devices answer before the driver gives up, an answer     *)
(* that a wait accepts is the answer to its own request, although cmd_wait *)
(* takes any command completion and xfer_wait any event of the endpoint,   *)
(* and whatever xhci_poll takes away: no TRB is carried out twice, not     *)
(* when a ring wraps and not after Address Device has moved the            *)
(* controller's place in the ring.                                         *)
AnswersOwn == early = 0 => answer.want = answer.got

(* A read of sectors that reports success returns the sectors it asked     *)
(* for, also when a transfer of an earlier command timed out and completed *)
(* later, or its event was taken by xhci_poll.  (Not after any number of   *)
(* such timeouts: four of them can leave requests for data, status, data   *)
(* and data in the ring, and the last one takes a CSW for sectors.)        *)
ReadsTrue == early <= 1 /\ answer.read # 0 => answer.data = answer.read
=============================================================================
