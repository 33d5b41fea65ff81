-------------------------------- MODULE Vmm ---------------------------------
(***************************************************************************)
(* Address spaces and the memory of processes: kernel/memory/vmm.c over    *)
(* module Pmm, elf_load (kernel/filesystem/elf.c), the user stack          *)
(* (kernel/scheduler/scheduler.c), the system calls SYS_ALLOC, SYS_FREE    *)
(* and SYS_ALLOC_SHARED (kernel/cpu/syscall.c) and malloc, malloc_shared   *)
(* and free of the user library (user/lib/memory.h).                       *)
(*                                                                         *)
(* Only the user half of a space is modelled: the kernel half is copied    *)
(* from the kernel's when a space is created.  The levels between the root *)
(* and the last table are one: a table of PT entries.  A frame's content   *)
(* is who wrote it, and for which of his pages.                            *)
(***************************************************************************)
EXTENDS Pmm, Sequences, SequencesExt

CONSTANTS
  Proc,        \* processes; Server serves the channels
  Server,
  PT,          \* entries of a page table
  Segments,    \* program headers: [type, vaddr, pages], in virtual pages
  HeapBase,    \* USER_HEAP_BASE, in virtual pages
  StackTop,    \* USER_STACK_TOP, in virtual pages
  USER_STACK_PAGES,
  UNIT,        \* units of a page, in which sizes are given; a malloc_hdr has one
  Sizes,       \* sizes malloc is called with
  SharedSizes, \* sizes malloc_shared is called with
  MaxTasks,    \* bound: threads of a process
  MaxHeapPages \* bound: pages of heap of a process

Virt == 0 .. StackTop - 1

ASSUME VmmAssumption ==
  /\ UNIT \in Nat \ {0} /\ PT \in Nat \ {0}
  /\ HeapBase \in Virt /\ Server \in Proc

VARIABLES
  spaces,      \* process -> [pml4, tables, entries]; pml4 is 0 if there is no process
  heap_next,   \* process -> its heap_next
  tasks,       \* process -> its next_task_index
  blocks,      \* process -> blocks of its program: [v, size, shared]
  content,     \* frame -> <<process, virtual page>> that was written last
  stored,      \* history: process -> virtual page -> what must be read there, or <<>>
  sharedFreed  \* history: a shared block has been freed

vmmOnly == <<spaces, heap_next, tasks, blocks, content, stored, sharedFreed>>
vmmVars == <<pmmVars, vmmOnly>>

NoSpace == [pml4 |-> 0, tables |-> [t \in 0 .. (StackTop - 1) \div PT |-> 0], entries |-> [v \in Virt |-> 0]]

VmmInit ==
  /\ PmmInit
  /\ spaces = [p \in Proc |-> NoSpace]
  /\ heap_next = [p \in Proc |-> HeapBase]
  /\ tasks = [p \in Proc |-> 0]
  /\ blocks = [p \in Proc |-> {}]
  /\ content = [i \in Page |-> <<>>]
  /\ stored = [p \in Proc |-> [v \in Virt |-> <<>>]]
  /\ sharedFreed = FALSE

-----------------------------------------------------------------------------
(* Operations on m = [pmm, space], a step of which may have found no       *)
(* memory: then pmm is <<>> and the machine has panicked.                  *)

Failed(m) == m.pmm = <<>>

\* get_or_create: a table where there is none.
get_or_create(m, t) ==
  IF Failed(m) \/ m.space.tables[t] # 0 THEN m
  ELSE LET i == ScanPage(m.pmm)
       IN  IF i = NoPage THEN [m EXCEPT !.pmm = <<>>]
           ELSE [m EXCEPT !.pmm = TakePage(@, i), !.space.tables[t] = i]

\* vmm_map_pages
vmm_map_pages(m, virt, phys, count) ==
  FoldLeft(LAMBDA a, i : LET b == get_or_create(a, (virt + i - 1) \div PT)
                         IN  IF Failed(b) THEN b ELSE [b EXCEPT !.space.entries[virt + i - 1] = phys + i - 1],
           m, [i \in 1 .. count |-> i])

\* pmm_alloc_pages and vmm_map_pages, as every caller does.
AllocAndMap(m, virt, count) ==
  IF Failed(m) THEN m
  ELSE LET f == ScanRun(m.pmm, count)
       IN  IF f = NoPage THEN [m EXCEPT !.pmm = <<>>]
           ELSE vmm_map_pages([m EXCEPT !.pmm = TakeRun(@, f, count)], virt, f, count)

\* vmm_unmap_and_free_pages: a page without a table is passed over, and an empty
\* entry gives page 0 to pmm_free_page.
vmm_unmap_and_free_pages(m, virt, count) ==
  FoldLeft(LAMBDA a, v : IF Failed(a) \/ a.space.tables[v \div PT] = 0 THEN a
                         ELSE IF a.space.entries[v] \notin a.pmm.bitmap THEN [a EXCEPT !.pmm = <<>>]
                         ELSE [a EXCEPT !.pmm = GivePage(@, a.space.entries[v]), !.space.entries[v] = 0],
           m, [i \in 1 .. count |-> virt + i - 1])

\* The frames that have changed hands between two states of the allocator.
Handed(before, after) ==
  [i \in Page |-> holders[i] + (IF i \in after \ before THEN 1 ELSE 0) - (IF i \in before \ after /\ holders[i] > 0 THEN 1 ELSE 0)]

\* The allocator's part of a step; the panic does not return.
Memory(m, why) ==
  IF Failed(m) THEN Panic(why, 0)
  ELSE /\ g_pmm' = m.pmm /\ UNCHANGED panicked
       /\ holders' = Handed(g_pmm.bitmap, m.pmm.bitmap)

\* The owner of pages fills them.
Filled(p, space, V) ==
  /\ content' = [i \in Page |-> IF \E v \in V : space.entries[v] = i
                                THEN <<p, CHOOSE v \in V : space.entries[v] = i>> ELSE content[i]]
  /\ stored' = [stored EXCEPT ![p] = [v \in Virt |-> IF v \in V THEN <<p, v>> ELSE stored[p][v]]]

Pages(size) == (size + UNIT - 1) \div UNIT

-----------------------------------------------------------------------------
(* Processes.                                                              *)

Stack(index) == StackTop - USER_STACK_PAGES * (index + 1)
Loaded == SelectSeq(Segments, LAMBDA s : s.type = 1)
LoadedPages == UNION {Loaded[i].vaddr .. Loaded[i].vaddr + Loaded[i].pages - 1 : i \in 1 .. Len(Loaded)}

\* process_exec: a space, the segments of the file in it and a stack.
process_exec(p) ==
  LET i == ScanPage(g_pmm)
      new == [pmm |-> IF i = NoPage THEN <<>> ELSE TakePage(g_pmm, i), space |-> [NoSpace EXCEPT !.pml4 = i]]
      image == FoldLeft(LAMBDA m, s : AllocAndMap(m, s.vaddr, s.pages), new, Loaded)
      m == AllocAndMap(image, Stack(0), USER_STACK_PAGES)
  IN  /\ Running /\ spaces[p].pml4 = 0
      /\ Memory(m, "out_of_memory")
      /\ IF Failed(m) THEN UNCHANGED vmmOnly
         ELSE /\ spaces' = [spaces EXCEPT ![p] = m.space]
              /\ tasks' = [tasks EXCEPT ![p] = 1]
              /\ Filled(p, m.space, LoadedPages \cup (Stack(0) .. Stack(0) + USER_STACK_PAGES - 1))
              /\ UNCHANGED <<heap_next, blocks, sharedFreed>>

\* SYS_THREAD_CREATE: a stack below the others.
thread_create(p) ==
  LET m == AllocAndMap([pmm |-> g_pmm, space |-> spaces[p]], Stack(tasks[p]), USER_STACK_PAGES)
  IN  /\ Running /\ spaces[p].pml4 # 0 /\ tasks[p] < MaxTasks
      /\ Memory(m, "out_of_memory")
      /\ IF Failed(m) THEN UNCHANGED vmmOnly
         ELSE /\ spaces' = [spaces EXCEPT ![p] = m.space]
              /\ tasks' = [tasks EXCEPT ![p] = @ + 1]
              /\ Filled(p, m.space, Stack(tasks[p]) .. Stack(tasks[p]) + USER_STACK_PAGES - 1)
              /\ UNCHANGED <<heap_next, blocks, sharedFreed>>

-----------------------------------------------------------------------------
(* The heap.                                                               *)

\* Mutant: heap_next goes on by one page.
Advance_one(v, pages) == v + 1

\* heap_next after an allocation.
Advance(v, pages) == v + pages

Room(p, pages) == heap_next[p] + pages <= HeapBase + MaxHeapPages

\* malloc, SYS_ALLOC
malloc(p, size) ==
  LET pages == Pages(size + 1)
      v == heap_next[p]
      m == AllocAndMap([pmm |-> g_pmm, space |-> spaces[p]], v, pages)
  IN  /\ Running /\ spaces[p].pml4 # 0 /\ Room(p, pages)
      /\ Memory(m, "out_of_memory")
      /\ IF Failed(m) THEN UNCHANGED vmmOnly
         ELSE /\ spaces' = [spaces EXCEPT ![p] = m.space]
              /\ heap_next' = [heap_next EXCEPT ![p] = Advance(v, pages)]
              /\ blocks' = [blocks EXCEPT ![p] = @ \cup {[v |-> v, size |-> size + 1, shared |-> FALSE]}]
              /\ Filled(p, m.space, v .. v + pages - 1)
              /\ UNCHANGED <<tasks, sharedFreed>>

\* malloc_shared, SYS_ALLOC_SHARED: the header is not asked for, but counted in
\* the size that free is to give back.
malloc_shared(client, size) ==
  LET pages == Pages(size)
      v == heap_next[Server]
      cv == heap_next[client]
      m == AllocAndMap([pmm |-> g_pmm, space |-> spaces[Server]], v, pages)
      c == IF Failed(m) THEN m
           ELSE vmm_map_pages([m EXCEPT !.space = spaces[client]], cv, m.space.entries[v], pages)
  IN  /\ Running /\ client # Server /\ spaces[Server].pml4 # 0 /\ spaces[client].pml4 # 0
      /\ Room(Server, pages) /\ Room(client, pages)
      /\ Memory(c, "out_of_memory")
      /\ IF Failed(c) THEN UNCHANGED vmmOnly
         ELSE /\ spaces' = [spaces EXCEPT ![Server] = m.space, ![client] = c.space]
              /\ heap_next' = [heap_next EXCEPT ![Server] = Advance(v, pages), ![client] = Advance(cv, pages)]
              /\ blocks' = [blocks EXCEPT ![Server] = @ \cup {[v |-> v, size |-> size + 1, shared |-> TRUE]}]
              /\ content' = [i \in Page |-> LET k == i - m.space.entries[v]
                                            IN  IF k \in 0 .. pages - 1 THEN <<Server, v + k>> ELSE content[i]]
              /\ stored' = [stored EXCEPT
                   ![Server] = [u \in Virt |-> IF u \in v .. v + pages - 1 THEN <<Server, u>> ELSE stored[Server][u]],
                   ![client] = [u \in Virt |-> IF u \in cv .. cv + pages - 1 THEN <<Server, v + u - cv>>
                                               ELSE stored[client][u]]]
              /\ UNCHANGED <<tasks, sharedFreed>>

\* free, SYS_FREE: of a block of the program's.
free(p, b) ==
  LET pages == Pages(b.size)
      m == vmm_unmap_and_free_pages([pmm |-> g_pmm, space |-> spaces[p]], b.v, pages)
  IN  /\ Running /\ b \in blocks[p]
      /\ Memory(m, "double_free")
      /\ IF Failed(m) THEN UNCHANGED vmmOnly
         ELSE /\ spaces' = [spaces EXCEPT ![p] = m.space]
              /\ blocks' = [blocks EXCEPT ![p] = @ \ {b}]
              /\ stored' = [stored EXCEPT ![p] = [v \in Virt |-> IF v \in b.v .. b.v + pages - 1 THEN <<>> ELSE stored[p][v]]]
              /\ sharedFreed' = (sharedFreed \/ b.shared)
              /\ UNCHANGED <<heap_next, tasks, content>>

VmmNext ==
  \E p \in Proc :
    \/ process_exec(p) \/ thread_create(p)
    \/ \E size \in Sizes : malloc(p, size)
    \/ \E size \in SharedSizes : malloc_shared(p, size)
    \/ \E b \in blocks[p] : free(p, b)

VmmSpec == VmmInit /\ [][VmmNext]_vmmVars

-----------------------------------------------------------------------------
(* Properties.                                                             *)

\* vmm_virt_to_phys
vmm_virt_to_phys(p, v) == IF spaces[p].tables[v \div PT] = 0 THEN 0 ELSE spaces[p].entries[v]

(* What a process has stored in its image, its stacks and its heap is what *)
(* it reads there, whatever other processes allocate, free and map, every  *)
(* page that it may touch is one the allocator counts as taken and holds   *)
(* no page table, and no frame has two holders: until memory runs out or   *)
(* somebody frees a shared block.  That free leaves the other process a    *)
(* mapping of a free frame, and may give back page 0 (NoDoubleFree).       *)
Isolation ==
  ~sharedFreed /\ Running =>
    /\ ExclusiveFrames
    /\ \A p \in Proc, v \in Virt : stored[p][v] # <<>> =>
         LET i == vmm_virt_to_phys(p, v)
         IN  /\ i \in g_pmm.bitmap \ Reserved
             /\ content[i] = stored[p][v]
             /\ \A q \in Proc : i # spaces[q].pml4 /\ \A t \in DOMAIN spaces[q].tables : spaces[q].tables[t] # i

(* pmm_free_page: "PMM double free or freeing free page" is what no call   *)
(* of malloc, malloc_shared and free in their proper order leads to.       *)
NoDoubleFree == panicked.why # "double_free"
=============================================================================
