-------------------------------- MODULE Pmm --------------------------------
(***************************************************************************)
(* The physical page-frame allocator, kernel/memory/pmm.c.                 *)
(*                                                                         *)
(* A page is identified by its frame number (addr_to_page and              *)
(* page_to_addr are shifts by 12 bits).  The bitmap is the set of pages    *)
(* whose bit is set.  panic() halts the machine: after it no step is       *)
(* taken.  The operators on a g_pmm value are pure so that the modules     *)
(* that compose the allocator with its callers can chain them.             *)
(***************************************************************************)
EXTENDS Integers, FiniteSets, FiniteSetsExt

CONSTANTS
  PageCount,     \* g_pmm.page_count: highest conventional page + 1
  Conventional,  \* pages of the EfiConventionalMemory descriptors
  BitmapRegion,  \* pages that hold the bitmap itself
  KernelImage,   \* pages from __kernel_phys_start to __kernel_phys_end
  PageSize,      \* 4096
  MaxRun,        \* the longest run a caller asks pmm_alloc_pages for
  UintRange,     \* 2^32: count * 4096 is computed in a 32-bit uint
  UlongRange     \* 2^64: used_memory is a 64-bit ulong

Page == 0 .. PageCount - 1

ASSUME PmmAssumption ==
  /\ PageCount \in Nat \ {0}
  /\ Conventional \subseteq Page
  /\ BitmapRegion \subseteq Page
  /\ KernelImage \subseteq Page
  /\ PageSize \in Nat \ {0}
  /\ UintRange \in Nat \ {0}
  /\ UlongRange \in Nat \ {0} /\ UlongRange % UintRange = 0
  /\ PageCount * PageSize < UlongRange
  /\ MaxRun \in 1 .. PageCount

NoPage == -1

\* What pmm_init leaves set in the bitmap.
Reserved == (Page \ Conventional) \cup {0} \cup BitmapRegion \cup KernelImage

VARIABLES
  g_pmm,    \* [bitmap, last_index, used_memory], the fields that change, and
            \* longest, a history: the longest run handed out so far
  holders,  \* history: how many callers each page is handed out to
  panicked  \* [why, count]: the panic that halted the machine, why = "no"
            \* while it runs; count is the number of pages asked for

pmmVars == <<g_pmm, holders, panicked>>

-----------------------------------------------------------------------------
(* Pure operators on a g_pmm value.                                        *)

Ulong(n) == n % UlongRange

FreeFrom(p, lo, hi) == {i \in lo .. hi : i \notin p.bitmap}

\* Mutant: the second scan is forgotten.
ScanPageNoWrap(p) ==
  LET up == FreeFrom(p, p.last_index, PageCount - 1)
  IN  IF up # {} THEN Min(up) ELSE NoPage

\* The page pmm_alloc_page's two scans stop at.
ScanPage(p) ==
  LET up  == FreeFrom(p, p.last_index, PageCount - 1)
      low == FreeFrom(p, 0, p.last_index - 1)
  IN  CASE up # {}              -> Min(up)
        [] up = {} /\ low # {}  -> Min(low)
        [] OTHER                -> NoPage

\* First pages of the runs of count free pages inside lo .. hi.
Runs(p, count, lo, hi) ==
  {f \in lo .. hi : /\ f + count - 1 <= hi
                    /\ \A k \in f .. f + count - 1 : k \notin p.bitmap}

\* The first page of the run pmm_alloc_pages's two scans stop at: a run is
\* looked for above last_index, then below it, never across it.
ScanRun(p, count) ==
  LET up  == Runs(p, count, p.last_index, PageCount - 1)
      low == Runs(p, count, 0, p.last_index - 1)
  IN  CASE up # {}              -> Min(up)
        [] up = {} /\ low # {}  -> Min(low)
        [] OTHER                -> NoPage

\* The bookkeeping of pmm_alloc_page once page i is found.
TakePage(p, i) ==
  [p EXCEPT !.bitmap = @ \cup {i}, !.used_memory = Ulong(@ + PageSize),
            !.last_index = i + 1]

Longer(m, n) == IF m < n THEN n ELSE m

\* Mutant: the last page of the run is not marked.
TakeRunShort(p, f, count) ==
  [p EXCEPT !.bitmap = @ \cup (f .. f + count - 2),
            !.used_memory = Ulong(@ + ((count * PageSize) % UintRange)),
            !.last_index = f + count, !.longest = Longer(@, count)]

\* The bookkeeping of pmm_alloc_pages once the run at f is found; the product
\* count * 4096 is a 32-bit uint.
TakeRun(p, f, count) ==
  [p EXCEPT !.bitmap = @ \cup (f .. f + count - 1),
            !.used_memory = Ulong(@ + ((count * PageSize) % UintRange)),
            !.last_index = f + count, !.longest = Longer(@, count)]

\* Mutant: the statistic is not adjusted.
GivePageNoStat(p, i) ==
  [p EXCEPT !.bitmap = @ \ {i}, !.last_index = IF i < @ THEN i ELSE @]

\* The bookkeeping of pmm_free_page.
GivePage(p, i) ==
  [p EXCEPT !.bitmap = @ \ {i}, !.used_memory = Ulong(@ - PageSize),
            !.last_index = IF i < @ THEN i ELSE @]

-----------------------------------------------------------------------------
PmmInit ==
  /\ g_pmm = [bitmap |-> Reserved, last_index |-> 0,
              used_memory |-> Cardinality(Reserved) * PageSize, longest |-> 0]
  /\ holders = [i \in Page |-> 0]
  /\ panicked = [why |-> "no", count |-> 0]

Running == panicked.why = "no"

Panic(reason, count) ==
  panicked' = [why |-> reason, count |-> count] /\ UNCHANGED <<g_pmm, holders>>

pmm_alloc_page ==
  /\ Running
  /\ LET i == ScanPage(g_pmm)
     IN  \/ /\ i # NoPage
            /\ g_pmm' = TakePage(g_pmm, i)
            /\ holders' = [holders EXCEPT ![i] = @ + 1]
            /\ UNCHANGED panicked
         \/ i = NoPage /\ Panic("out_of_memory", 1)

pmm_alloc_pages(count) ==
  /\ Running
  /\ LET f == ScanRun(g_pmm, count)
     IN  \/ /\ f # NoPage
            /\ g_pmm' = TakeRun(g_pmm, f, count)
            /\ holders' = [i \in Page |-> IF i \in f .. f + count - 1
                                          THEN holders[i] + 1 ELSE holders[i]]
            /\ UNCHANGED panicked
         \/ f = NoPage /\ Panic("out_of_memory", count)

\* Callers give back a page they hold, or one that is already free, or one
\* past the end of memory: the last two are the panics of pmm_free_page.
pmm_free_page(i) ==
  /\ Running
  /\ \/ i >= PageCount /\ Panic("free_out_of_range", 1)
     \/ /\ i \in Page /\ i \notin g_pmm.bitmap
        /\ Panic("double_free", 1)
     \/ /\ i \in Page /\ i \in g_pmm.bitmap /\ holders[i] > 0
        /\ g_pmm' = GivePage(g_pmm, i)
        /\ holders' = [holders EXCEPT ![i] = @ - 1]
        /\ UNCHANGED panicked

PmmNext ==
  \/ pmm_alloc_page
  \/ \E count \in 1 .. MaxRun : pmm_alloc_pages(count)
  \/ \E i \in 0 .. PageCount : pmm_free_page(i)

PmmSpec == PmmInit /\ [][PmmNext]_pmmVars

-----------------------------------------------------------------------------
PanicReasons == {"no", "out_of_memory", "free_out_of_range", "double_free"}

(* Type invariant: the allocator's fields stay in range, in particular     *)
(* last_index never exceeds page_count, so the scans stay in the bitmap.   *)
PmmTypeOK ==
  /\ g_pmm \in [bitmap: SUBSET Page, last_index: 0 .. PageCount,
                used_memory: 0 .. UlongRange - 1, longest: 0 .. MaxRun]
  /\ holders \in [Page -> Nat]
  /\ panicked \in [why: PanicReasons, count: 0 .. PageCount]

(* No frame is handed to two callers at once and no reserved frame (page   *)
(* 0, the bitmap, the kernel image, firmware memory) is handed out; a bit  *)
(* is set exactly for the reserved frames and the frames somebody holds:   *)
(* pmm_alloc_page and pmm_alloc_pages after any history of frees.          *)
ExclusiveFrames ==
  \A i \in Page : /\ holders[i] <= 1
                  /\ i \in Reserved => holders[i] = 0
                  /\ i \in g_pmm.bitmap <=> (i \in Reserved \/ holders[i] = 1)

(* used_memory, which pmm_get_stats reports, is the size of the frames     *)
(* whose bit is set, however pages were taken and given back, until a run  *)
(* of 4 GiB or more is handed out: count * 4096 then drops multiples of    *)
(* 2^32, and from there on used_memory is right modulo 2^32 only, also     *)
(* when later frees take it below zero and around 2^64.                    *)
UsedMemoryAccurate ==
  LET bytes == Cardinality(g_pmm.bitmap) * PageSize
  IN  /\ (g_pmm.used_memory - bytes) % UintRange = 0
      /\ g_pmm.longest * PageSize < UintRange => g_pmm.used_memory = bytes

(* A request for one page panics with "out_of_memory" only when no frame  *)
(* is free: the second scan covers what the first one skipped below        *)
(* last_index, wherever frees and allocations have left it.                *)
PagePanicMeansFull ==
  panicked.why = "out_of_memory" /\ panicked.count = 1 => g_pmm.bitmap = Page
=============================================================================
