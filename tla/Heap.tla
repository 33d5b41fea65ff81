-------------------------------- MODULE Heap --------------------------------
(***************************************************************************)
(* The kernel heap, kernel/memory/heap.c: a doubly linked list of blocks,  *)
(* each a header followed by its payload, searched first fit.              *)
(*                                                                         *)
(* kmalloc is one step: it runs in system calls before they block and in   *)
(* interrupt handlers, with interrupts disabled.  kfree is the sequence of *)
(* its reads and writes of the list, because process_delete calls it after *)
(* the schedule() of process_wait, with interrupts enabled.  With Preempt  *)
(* other contexts use the heap between these steps.                        *)
(***************************************************************************)
EXTENDS Integers, Sequences, FiniteSets, FiniteSetsExt

CONSTANTS
  HEAP_ALIGN_SIZE,  \* 16
  HEADER,           \* sizeof(heap_block): 32
  PAGE_SIZE,        \* 4096
  InitialPages,     \* HEAP_INITAL_PAGES: 4
  HEAP_EXPAND_PAGES,\* 1
  MaxPages,         \* bound: pages the heap may grow to
  Sizes,            \* the sizes kmalloc is asked for
  Preempt           \* whether kfree is interrupted

ASSUME HeapAssumption ==
  /\ {HEAP_ALIGN_SIZE, HEADER, PAGE_SIZE, InitialPages, HEAP_EXPAND_PAGES, MaxPages}
       \subseteq Nat \ {0}
  /\ HEADER % HEAP_ALIGN_SIZE = 0 /\ PAGE_SIZE % HEAP_ALIGN_SIZE = 0
  /\ PAGE_SIZE > HEADER /\ InitialPages <= MaxPages
  /\ Sizes \subseteq Nat \ {0} /\ Preempt \in BOOLEAN

Null == -1

VARIABLES
  mem,    \* the headers: address -> [payload_size, next, prev, free]
  end,    \* g_heap.end; g_heap.start and first_block are address 0
  live,   \* history: the allocations handed out, [block, size]
  op      \* the kfree in progress, [at, block], at = "none" without one

heapVars == <<mem, end, live, op>>

Addr == {a \in 0 .. MaxPages * PAGE_SIZE - 1 : a % HEAP_ALIGN_SIZE = 0}
Idle == [at |-> "none", block |-> Null]

align_up(size) == ((size + HEAP_ALIGN_SIZE - 1) \div HEAP_ALIGN_SIZE) * HEAP_ALIGN_SIZE
HEAP_BLOCK_MIN_SIZE == align_up(HEADER + 1)
BLOCK_END(m, b) == b + HEADER + m[b].payload_size

\* What is in memory where there is no block, or no longer one: payload, which
\* nothing reads as a header.
Payload == [payload_size |-> 0, next |-> Null, prev |-> Null, free |-> FALSE]
forget(m, b) == [m EXCEPT ![b] = Payload]

Init ==
  /\ end = InitialPages * PAGE_SIZE
  /\ mem = [a \in Addr |->
       IF a = 0 THEN [Payload EXCEPT !.payload_size = end - HEADER, !.free = TRUE]
       ELSE Payload]
  /\ live = {}
  /\ op = Idle

\* The blocks a walk along next meets, Null from its end on.
Walk ==
  LET walk[k \in 0 .. Cardinality(Addr)] ==
        IF k = 0 THEN 0
        ELSE IF walk[k - 1] \in Addr THEN mem[walk[k - 1]].next ELSE Null
  IN  walk

Blocks == LET w == Walk IN {w[k] : k \in DOMAIN w} \ {Null}

\* Mutant: the header is counted as room.
find_free_block_header(size) ==
  LET w == Walk
      hits == {k \in DOMAIN w : /\ w[k] \in Addr
                                /\ mem[w[k]].free
                                /\ mem[w[k]].payload_size + HEADER >= size}
  IN  IF hits = {} THEN Null ELSE w[Min(hits)]

\* The first block with that many bytes free, Null when there is none.
find_free_block(size) ==
  LET w == Walk
      hits == {k \in DOMAIN w : /\ w[k] \in Addr
                                /\ mem[w[k]].free
                                /\ mem[w[k]].payload_size >= size}
  IN  IF hits = {} THEN Null ELSE w[Min(hits)]

find_last_block == LET all == Blocks IN CHOOSE b \in all : mem[b].next = Null

split_block(m, b, size) ==
  LET n == b + HEADER + size
      s == [m EXCEPT ![n] = [payload_size |-> m[b].payload_size - size - HEADER,
                             next |-> m[b].next, prev |-> b, free |-> TRUE],
                     ![b].payload_size = size, ![b].next = n]
  IN  IF m[b].next = Null THEN s ELSE [s EXCEPT ![m[b].next].prev = n]

ExpandPages(min_size) ==
  Max({(min_size + PAGE_SIZE - 1) \div PAGE_SIZE, HEAP_EXPAND_PAGES})

\* The list after the heap has grown by that many bytes.
expand_heap(bytes) ==
  LET last == find_last_block
      b == BLOCK_END(mem, last)
  IN  IF mem[last].free
      THEN [mem EXCEPT ![last].payload_size = @ + bytes]
      ELSE [mem EXCEPT ![b] = [payload_size |-> bytes - HEADER, next |-> Null,
                               prev |-> last, free |-> TRUE],
                       ![last].next = b]

\* The block expand_heap returns.
expand_block == IF mem[find_last_block].free THEN find_last_block
                ELSE BLOCK_END(mem, find_last_block)

\* Whether the rest of the block is worth a block of its own.
splits(m, b, size) == m[b].payload_size >= size + HEAP_BLOCK_MIN_SIZE

\* The end of kmalloc: b is cut to size when it is larger, and handed out.
take(m, b, size) ==
  LET s == IF splits(m, b, size) THEN split_block(m, b, size) ELSE m
  IN  [s EXCEPT ![b].free = FALSE]

Undisturbed == Preempt \/ op = Idle

kmalloc(n) ==
  LET size == align_up(n)
      b == find_free_block(size)
  IN  /\ Undisturbed /\ b # Null
      /\ mem' = take(mem, b, size)
      /\ live' = live \cup {[block |-> b, size |-> n]}
      /\ UNCHANGED <<end, op>>

\* kmalloc when no block is large enough.
kmalloc_expand(n) ==
  LET size == align_up(n)
      bytes == ExpandPages(HEADER + size) * PAGE_SIZE
  IN  /\ Undisturbed /\ find_free_block(size) = Null
      /\ end + bytes <= MaxPages * PAGE_SIZE
      /\ end' = end + bytes
      /\ mem' = take(expand_heap(bytes), expand_block, size)
      /\ live' = live \cup {[block |-> expand_block, size |-> n]}
      /\ UNCHANGED op

-----------------------------------------------------------------------------
(* kfree of what kmalloc has handed out.                                   *)

At(step) == op.at = step
Go(step) == op' = [op EXCEPT !.at = step]
blk == op.block

kfree(a) ==
  /\ op = Idle /\ a \in live
  /\ mem' = [mem EXCEPT ![a.block].free = TRUE]
  /\ live' = live \ {a}
  /\ op' = [at |-> "test_next", block |-> a.block]
  /\ UNCHANGED end

\* Whether the next block is free.
kfree_test_next ==
  /\ At("test_next")
  /\ Go(IF mem[blk].next # Null /\ mem[mem[blk].next].free
        THEN "grow" ELSE "test_prev")
  /\ UNCHANGED <<mem, end, live>>

kfree_grow ==
  /\ At("grow") /\ Go("unlink")
  /\ mem' = [mem EXCEPT ![blk].payload_size = @ + HEADER + mem[mem[blk].next].payload_size]
  /\ UNCHANGED <<end, live>>

kfree_unlink ==
  /\ At("unlink") /\ Go("relink")
  /\ mem' = forget([mem EXCEPT ![blk].next = mem[@].next], mem[blk].next)
  /\ UNCHANGED <<end, live>>

\* The next block's back pointer.
relink(b, to) ==
  IF mem[b].next = Null THEN mem ELSE [mem EXCEPT ![mem[b].next].prev = to]

kfree_relink ==
  /\ At("relink") /\ Go("test_prev")
  /\ mem' = relink(blk, blk)
  /\ UNCHANGED <<end, live>>

\* Mutant: the block is not merged with the one before it.
prev_free_never(b) == FALSE

\* Whether the previous block is free.
prev_free(b) == mem[b].prev # Null /\ mem[mem[b].prev].free

kfree_test_prev ==
  /\ At("test_prev")
  /\ op' = IF prev_free(blk) THEN [op EXCEPT !.at = "prev_grow"] ELSE Idle
  /\ UNCHANGED <<mem, end, live>>

kfree_prev_grow ==
  /\ At("prev_grow") /\ Go("prev_unlink")
  /\ mem' = [mem EXCEPT ![mem[blk].prev].payload_size = @ + HEADER + mem[blk].payload_size]
  /\ UNCHANGED <<end, live>>

kfree_prev_unlink ==
  /\ At("prev_unlink") /\ Go("prev_relink")
  /\ mem' = [mem EXCEPT ![mem[blk].prev].next = mem[blk].next]
  /\ UNCHANGED <<end, live>>

kfree_prev_relink ==
  /\ At("prev_relink") /\ op' = Idle
  /\ mem' = forget(relink(blk, mem[blk].prev), blk)
  /\ UNCHANGED <<end, live>>

Next ==
  \/ \E n \in Sizes : kmalloc(n) \/ kmalloc_expand(n)
  \/ \E a \in live : kfree(a)
  \/ kfree_test_next \/ kfree_grow \/ kfree_unlink \/ kfree_relink
  \/ kfree_test_prev \/ kfree_prev_grow \/ kfree_prev_unlink \/ kfree_prev_relink

Spec == Init /\ [][Next]_heapVars

-----------------------------------------------------------------------------
(* Properties.                                                             *)

(* Type invariant: headers are aligned and inside the heap.                *)
HeapTypeOK ==
  /\ mem \in [Addr -> [payload_size: Int, next: Addr \cup {Null},
                       prev: Addr \cup {Null}, free: BOOLEAN]]
  /\ end \in 1 .. MaxPages * PAGE_SIZE
  /\ \A a \in live : a.block \in Addr /\ a.size \in Sizes

(* Freeing merges completely: no two neighbours are both free, so memory   *)
(* that was freed can be had again in one piece.                           *)
Coalesced ==
  op = Idle => \A b \in Blocks :
    mem[b].free /\ mem[b].next # Null => ~mem[mem[b].next].free

(* Between calls the blocks tile the heap: each ends where the next one    *)
(* begins, the last at g_heap.end (what expand_heap asserts), the links    *)
(* back agree, every header and payload has its room and alignment, and no *)
(* two neighbours are free.                                                *)
Tiles ==
  /\ HeapTypeOK /\ Coalesced
  /\ op = Idle => \A b \in Blocks :
       LET n == mem[b].next
       IN  /\ mem[b].payload_size > 0
           /\ BLOCK_END(mem, b) = IF n = Null THEN end ELSE n
           /\ n # Null => mem[n].prev = b

(* What kmalloc handed out and kfree did not take back is a block of the   *)
(* list that is not free and holds the size asked for; every other block   *)
(* is free.  With Tiles: allocations never overlap and nothing leaks.      *)
LiveBlocks ==
  op = Idle =>
    /\ {b \in Blocks : ~mem[b].free} = {a.block : a \in live}
    /\ \A a \in live : mem[a.block].payload_size >= a.size

(* syscall.c: "Clear IF on syscall entry so we don't get preempted         *)
(* mid-handler".  So no allocation overlaps another one.                   *)
AllocationsDisjoint ==
  \A a, b \in live :
    a # b => \/ a.block + HEADER + mem[a.block].payload_size <= b.block
             \/ b.block + HEADER + mem[b.block].payload_size <= a.block

=============================================================================
