-------------------------------- MODULE Net --------------------------------
(***************************************************************************)
(* The way of an IP packet out of the machine: kernel/net/ip.c,            *)
(* routing.c, networking.c (configuration), arp.c, drivers/loopback.c and  *)
(* drivers/ethernet_driver.c.  Two cards: the loopback and an Ethernet     *)
(* card.                                                                   *)
(*                                                                         *)
(* An address is a number of Width bits, a netmask a prefix length (the    *)
(* code compares netmasks as numbers, which for netmasks of a prefix is    *)
(* the same order).  A null pointer is read in a process's address space,  *)
(* where page 0 is not mapped, and kfree(0) writes below the null pointer: *)
(* the kernel panics, halted is "fault".  Sends are system calls with      *)
(* interrupts off, replies and loopback_poll come in the timer interrupt:  *)
(* each is one step.                                                       *)
(***************************************************************************)
EXTENDS Integers, Sequences, FiniteSets

CONSTANTS
  Width,                      \* 32
  Lo, Eth, NoNic,             \* nic_id of the two cards; 0
  LoAddr, LoPrefix,           \* 127.0.0.1 and 8
  ROUTING_TABLE_MAX_ENTREIS,  \* 256
  ARP_TABLE_SIZE,             \* 16
  MAX_PENDING_FRAMES,         \* 128
  BUFFER_LEN,                 \* 32, frames of the loopback ring
  Addresses, Netmasks, Gateways,  \* what the Ethernet card is configured with
  Destinations,               \* where packets go
  MaxPackets                  \* bound: packets sent

Addr == 0 .. 2^Width - 1
Broadcast == 2^Width - 1
Nic == {Lo, Eth}

ASSUME NetAssumption ==
  /\ Width \in Nat \ {0} /\ Lo # Eth /\ NoNic \notin Nic
  /\ "fault" \notin {Lo, Eth, NoNic}
  /\ 0 \in Addr /\ LoAddr \in Addr \ {0} /\ LoPrefix \in 1 .. Width
  /\ {ROUTING_TABLE_MAX_ENTREIS, ARP_TABLE_SIZE, MAX_PENDING_FRAMES, BUFFER_LEN}
       \subseteq Nat \ {0}
  /\ ROUTING_TABLE_MAX_ENTREIS >= 3
  /\ Addresses \cup Gateways \cup Destinations \subseteq Addr \ {0}
  /\ Netmasks \subseteq 1 .. Width /\ MaxPackets \in Nat

VARIABLES
  s_routing_table,  \* the used routes: [destination, netmask, gateway, nic, metric]
  eth,              \* the Ethernet card: [addr, netmask], 0 when not set
  arp_table,        \* the resolved addresses, in the order of arp_table_add
  s_pending,        \* slot -> [waiting_for, frame]; waiting_for 0: never used
  s_buffer,         \* the loopback's frames
  packets,          \* number of packets handed to ip_send
  sent,             \* history: packet -> times it was transmitted
  done,             \* history: packets dropped, or delivered by the loopback
  halted            \* "no", or why the machine does not go on

netVars == <<s_routing_table, eth, arp_table, s_pending, s_buffer, packets,
             sent, done, halted>>

Route(dst, mask, gw, nic, m) ==
  [destination |-> dst, netmask |-> mask, gateway |-> gw, nic |-> nic, metric |-> m]
BroadcastRoute(nic) == Route(Broadcast, Width, 0, nic, 100)

\* The network of an address: its bits under the netmask.
Network(addr, mask) == addr \div 2^(Width - mask)

Slots == 1 .. MAX_PENDING_FRAMES
NeverUsed == [waiting_for |-> 0, frame |-> 0]

\* The address with its host bits cleared.
Base(addr, mask) == Network(addr, mask) * 2^(Width - mask)

\* After networking_init.
NetInit ==
  /\ s_routing_table = <<BroadcastRoute(Lo), Route(Base(LoAddr, LoPrefix), LoPrefix, 0, Lo, 10),
                         BroadcastRoute(Eth)>>
  /\ eth = [addr |-> 0, netmask |-> 0]
  /\ arp_table = <<>>
  /\ s_pending = [i \in Slots |-> NeverUsed]
  /\ s_buffer = <<>>
  /\ packets = 0 /\ sent = [n \in 1 .. MaxPackets |-> 0] /\ done = {}
  /\ halted = "no"

Running == halted = "no"

-----------------------------------------------------------------------------
(* Routes.                                                                 *)

NoRoute == Route(0, 0, 0, NoNic, 0)
Fault == Route(0, 0, 0, "fault", 0)

Matches(r, dst) ==
  Network(dst, r.netmask) = Network(r.destination, r.netmask)

\* Mutant: the metric does not count.
better_mask(r, best) == r.netmask > best.netmask

\* r replaces best.
better(r, best) ==
  \/ r.netmask > best.netmask
  \/ r.netmask = best.netmask /\ r.metric < best.metric

\* One turn of the loop of find_best_route, with route r, best route b.  A
\* default route met before any other match reads best->metric of a null best.
next_best(b, r, dst, only) ==
  IF b = Fault \/ only \notin {NoNic, r.nic} \/ ~Matches(r, dst) THEN b
  ELSE IF b = NoRoute /\ r.netmask = 0 THEN Fault
  ELSE IF b = NoRoute \/ better(r, b) THEN r ELSE b

\* find_best_route, and with only # NoNic find_best_route_for_nic: the loop
\* over the table.
find_best_route(dst, only) ==
  LET T == s_routing_table
      best[k \in 0 .. Len(T)] ==
        IF k = 0 THEN NoRoute ELSE next_best(best[k - 1], T[k], dst, only)
  IN  best[Len(T)]

\* The routes route_upsert replaces the first of.
Same(r) == {k \in 1 .. Len(s_routing_table) :
              /\ s_routing_table[k].destination = r.destination
              /\ s_routing_table[k].netmask = r.netmask
              /\ s_routing_table[k].nic = r.nic}

\* A full table loses the route.
route_upsert(r) ==
  s_routing_table' =
    IF Same(r) # {}
    THEN [s_routing_table EXCEPT ![CHOOSE k \in Same(r) : \A j \in Same(r) : k <= j] = r]
    ELSE IF Len(s_routing_table) < ROUTING_TABLE_MAX_ENTREIS
         THEN Append(s_routing_table, r) ELSE s_routing_table

\* The route to the card's own network, once it has an address and a netmask.
OwnNetwork(nic) ==
  IF nic.addr # 0 /\ nic.netmask # 0
  THEN route_upsert(Route(Base(nic.addr, nic.netmask), nic.netmask, 0, Eth, 0))
  ELSE UNCHANGED s_routing_table

configure_address(a) ==
  /\ Running /\ eth' = [eth EXCEPT !.addr = a] /\ OwnNetwork(eth')
  /\ UNCHANGED <<arp_table, s_pending, s_buffer, packets, sent, done, halted>>

\* The address alone: no route.
SYS_NET_SET_IP(a) ==
  /\ Running /\ eth' = [eth EXCEPT !.addr = a]
  /\ UNCHANGED <<s_routing_table, arp_table, s_pending, s_buffer, packets, sent, done,
                 halted>>

configure_netmask(mask) ==
  /\ Running /\ eth' = [eth EXCEPT !.netmask = mask] /\ OwnNetwork(eth')
  /\ UNCHANGED <<arp_table, s_pending, s_buffer, packets, sent, done, halted>>

configure_gateway(gw) ==
  /\ Running /\ route_upsert(Route(0, 0, gw, Eth, 100))
  /\ UNCHANGED <<eth, arp_table, s_pending, s_buffer, packets, sent, done, halted>>

-----------------------------------------------------------------------------
(* Sending.                                                                *)

Resolved(ip) == ip = Broadcast \/ \E k \in 1 .. Len(arp_table) : arp_table[k] = ip

FreeSlots == {i \in Slots : s_pending[i].frame = 0}

halt(why) ==
  /\ halted' = why
  /\ UNCHANGED <<s_routing_table, eth, arp_table, s_pending, s_buffer>>

\* Mutant: the last slot is used again and again.
get_pending_slot_last == MAX_PENDING_FRAMES

\* The slot a frame without a MAC address waits in.
get_pending_slot == CHOOSE i \in FreeSlots : \A j \in FreeSlots : i <= j

\* The packet goes to the card's transmit ring, or waits for the answer to an
\* ARP request.  With all slots taken the null pointer is written.
ethernet_driver_send(n, hop) ==
  /\ UNCHANGED <<s_routing_table, eth, arp_table, s_buffer>>
  /\ \/ /\ Resolved(hop)
        /\ sent' = [sent EXCEPT ![n] = @ + 1]
        /\ UNCHANGED <<s_pending, done, halted>>
     \/ /\ ~Resolved(hop) /\ FreeSlots # {}
        /\ s_pending' = [s_pending EXCEPT ![get_pending_slot] =
                           [waiting_for |-> hop, frame |-> n]]
        /\ UNCHANGED <<sent, done, halted>>
     \/ /\ ~Resolved(hop) /\ FreeSlots = {}
        /\ halted' = "fault" /\ done' = done \cup {n}
        /\ UNCHANGED <<s_pending, sent>>

\* loopback_buffer_write gives up.
loopback_full == Len(s_buffer) = BUFFER_LEN - 1

\* A full ring drops the frame.
loopback_send(n) ==
  /\ s_buffer' = IF loopback_full THEN s_buffer ELSE Append(s_buffer, n)
  /\ done' = IF loopback_full THEN done \cup {n} ELSE done
  /\ UNCHANGED <<s_routing_table, eth, arp_table, s_pending, sent, halted>>

\* ip_send of a socket bound to a card (the address does not count then) or to
\* an address (src); with neither, g_nics is indexed by the route's nic_id, a
\* random number, and what is read there is used as the driver's table.
ip_send(dst, nic_id, src) ==
  LET n == packets + 1
      nic == CASE nic_id # NoNic -> nic_id
               [] nic_id = NoNic /\ src = 0 -> NoNic
               [] nic_id = NoNic /\ src # 0 /\ src = LoAddr -> Lo
               [] nic_id = NoNic /\ src # 0 /\ src # LoAddr /\ src = eth.addr -> Eth
               [] OTHER -> "none"
      r == find_best_route(dst, nic)
      hop == IF r.gateway # 0 THEN r.gateway ELSE dst
  IN  /\ Running /\ packets < MaxPackets /\ packets' = n
      /\ \/ /\ nic = "none" \/ r = NoRoute
            /\ done' = done \cup {n}
            /\ UNCHANGED <<s_routing_table, eth, arp_table, s_pending, s_buffer, sent,
                           halted>>
         \/ /\ nic # "none" /\ (r = Fault \/ (nic = NoNic /\ r # NoRoute))
            /\ halt("fault") /\ done' = done \cup {n} /\ UNCHANGED sent
         \/ /\ nic = Eth /\ r \notin {NoRoute, Fault} /\ ethernet_driver_send(n, hop)
         \/ /\ nic = Lo /\ r \notin {NoRoute, Fault} /\ loopback_send(n)

-----------------------------------------------------------------------------
(* Receiving, in the timer interrupt.                                      *)

\* The slots ethernet_driver_flush_pending sends.  free_pending_slot leaves
\* len and waiting_for as they were: slots that were freed are among them.
flush_pending(ip) == {i \in Slots : s_pending[i].waiting_for = ip}

\* arp_receive of a reply, solicited or not, also a repeated one: a new
\* entry, then the frames that wait.  A freed slot is sent from, and given to
\* kfree as, a null pointer.
arp_reply(ip) ==
  LET full == Len(arp_table) = ARP_TABLE_SIZE
      slots == flush_pending(ip)
      stale == {i \in slots : s_pending[i].frame = 0}
      good == {i \in slots \ stale : \A j \in stale : i < j}
      frames == {s_pending[i].frame : i \in good}
  IN  /\ Running
      /\ \/ /\ full /\ ~Resolved(ip)
            /\ halted' = "panic"
            /\ UNCHANGED <<arp_table, s_pending, sent>>
         \/ /\ ~full \/ Resolved(ip)
            /\ arp_table' = IF full THEN arp_table ELSE Append(arp_table, ip)
            /\ s_pending' = [i \in Slots |-> IF i \in good
                               THEN [s_pending[i] EXCEPT !.frame = 0] ELSE s_pending[i]]
            /\ sent' = [n \in DOMAIN sent |-> IF n \in frames THEN sent[n] + 1 ELSE sent[n]]
            /\ halted' = IF stale = {} THEN "no" ELSE "fault"
      /\ UNCHANGED <<s_routing_table, eth, s_buffer, packets, done>>

\* loopback_send never sets the length: ip_receive takes or refuses the frame.
loopback_poll ==
  /\ Running /\ s_buffer # <<>>
  /\ s_buffer' = Tail(s_buffer) /\ done' = done \cup {Head(s_buffer)}
  /\ UNCHANGED <<s_routing_table, eth, arp_table, s_pending, packets, sent, halted>>

NetNext ==
  \/ \E a \in Addresses : configure_address(a) \/ SYS_NET_SET_IP(a)
  \/ \E mask \in Netmasks : configure_netmask(mask)
  \/ \E gw \in Gateways : configure_gateway(gw)
  \/ \E dst \in Destinations :
       \/ \E nic \in Nic : ip_send(dst, nic, 0)
       \/ \E src \in Addresses \cup {0, LoAddr} : ip_send(dst, NoNic, src)
  \/ \E ip \in Destinations \cup Gateways : ip # Broadcast /\ arp_reply(ip)
  \/ loopback_poll

NetSpec == NetInit /\ [][NetNext]_netVars

-----------------------------------------------------------------------------
(* Properties.                                                             *)

(* The tables stay in their bounds, the loopback's ring below its last     *)
(* place, which loopback_poll would take for an empty ring.                *)
NetTypeOK ==
  /\ Len(s_routing_table) <= ROUTING_TABLE_MAX_ENTREIS
  /\ Len(arp_table) <= ARP_TABLE_SIZE /\ Len(s_buffer) < BUFFER_LEN
  /\ s_pending \in [Slots -> [waiting_for: Addr, frame: 0 .. MaxPackets]]
  /\ sent \in [1 .. MaxPackets -> Nat] /\ done \subseteq 1 .. MaxPackets
  /\ halted \in {"no", "fault", "panic"}

(* Every packet handed to ip_send is in exactly one place: transmitted,    *)
(* once, or waiting in one slot or in the loopback, or done with.  No      *)
(* order of sends and ARP replies overwrites, repeats or forgets one, and  *)
(* a packet waits only for an address that is not resolved: the reply that *)
(* resolves one sends everything that waits for it.                        *)
PacketsConserved ==
  /\ NetTypeOK
  /\ \A n \in 1 .. packets :
       1 = sent[n] + Cardinality({i \in Slots : s_pending[i].frame = n})
           + Cardinality({k \in 1 .. Len(s_buffer) : s_buffer[k] = n})
           + (IF n \in done THEN 1 ELSE 0)
  /\ Running => \A i \in Slots : s_pending[i].frame # 0 => ~Resolved(s_pending[i].waiting_for)

(* The route found is the one a router must take: of the matching routes   *)
(* of the card, one with the longest prefix and of these the least metric. *)
RouteBest ==
  \A dst \in Destinations, nic \in Nic \cup {NoNic} :
    LET T == s_routing_table
        M == {k \in 1 .. Len(T) : nic \in {NoNic, T[k].nic} /\ Matches(T[k], dst)}
        r == find_best_route(dst, nic)
    IN  /\ r = NoRoute <=> M = {}
        /\ r \notin {NoRoute, Fault} =>
             \E k \in M : r = T[k] /\ \A j \in M :
               T[j].netmask < r.netmask
                 \/ (T[j].netmask = r.netmask /\ T[j].metric >= r.metric)
=============================================================================
