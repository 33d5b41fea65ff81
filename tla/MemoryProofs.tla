--------------------------- MODULE MemoryProofs ---------------------------
(***************************************************************************)
(* Proofs about the two allocators of the kernel: the page frames, for     *)
(* every memory size, firmware map and bound on the length of a run, and   *)
(* the heap, for every alignment, page size and size of the heap.          *)
(***************************************************************************)
EXTENDS Pmm, Heap, OrderLemmas

-----------------------------------------------------------------------------
(* Facts about the scans.                                                  *)

(* The page ScanPage returns is free, and NoPage means every page is set:  *)
(* the two for loops of pmm_alloc_page together cover the bitmap.          *)
LEMMA ScanPageLemma ==
  ASSUME NEW p, p.last_index \in 0 .. PageCount
  PROVE  \/ ScanPage(p) \in Page /\ ScanPage(p) \notin p.bitmap
         \/ ScanPage(p) = NoPage /\ Page \subseteq p.bitmap
<1> DEFINE up  == FreeFrom(p, p.last_index, PageCount - 1)
           low == FreeFrom(p, 0, p.last_index - 1)
<1>0. PageCount \in Nat BY PmmAssumption
<1>1. up \in SUBSET Nat /\ low \in SUBSET Nat
  BY <1>0 DEF FreeFrom
<1>2. CASE up # {}
  <2>1. Min(up) \in up BY <1>1, <1>2, MinLemma
  <2>2. ScanPage(p) = Min(up) BY <1>2 DEF ScanPage
  <2> HIDE DEF up
  <2>3. ScanPage(p) \in up BY <2>1, <2>2
  <2> QED BY <1>0, <2>3 DEF FreeFrom, Page, up
<1>3. CASE up = {} /\ low # {}
  <2>1. Min(low) \in low BY <1>1, <1>3, MinLemma
  <2>2. ScanPage(p) = Min(low) BY <1>3 DEF ScanPage
  <2> HIDE DEF low
  <2>3. ScanPage(p) \in low BY <2>1, <2>2
  <2> QED BY <1>0, <2>3 DEF FreeFrom, Page, low
<1>4. CASE up = {} /\ low = {}
  <2>1. ScanPage(p) = NoPage BY <1>4 DEF ScanPage
  <2>2. \A i \in Page : i \in p.bitmap
    BY <1>0, <1>4 DEF FreeFrom, Page
  <2> QED BY <2>1, <2>2
<1> QED BY <1>2, <1>3, <1>4

(* The run ScanRun returns lies inside the bitmap and is free.             *)
LEMMA ScanRunLemma ==
  ASSUME NEW p, p.last_index \in 0 .. PageCount, NEW count \in 1 .. PageCount
  PROVE  \/ ScanRun(p, count) = NoPage
         \/ /\ ScanRun(p, count) \in Page
            /\ ScanRun(p, count) + count <= PageCount
            /\ \A k \in ScanRun(p, count) .. ScanRun(p, count) + count - 1 :
                 k \in Page /\ k \notin p.bitmap
<1> DEFINE up  == Runs(p, count, p.last_index, PageCount - 1)
           low == Runs(p, count, 0, p.last_index - 1)
<1>0. PageCount \in Nat BY PmmAssumption
<1>1. up \in SUBSET Nat /\ low \in SUBSET Nat
  BY <1>0 DEF Runs
<1>2. CASE up # {}
  <2>1. Min(up) \in up BY <1>1, <1>2, MinLemma
  <2>2. ScanRun(p, count) = Min(up) BY <1>2 DEF ScanRun
  <2> HIDE DEF up
  <2>3. ScanRun(p, count) \in up BY <2>1, <2>2
  <2> QED BY <1>0, <2>3 DEF Runs, Page, up
<1>3. CASE up = {} /\ low # {}
  <2>1. Min(low) \in low BY <1>1, <1>3, MinLemma
  <2>2. ScanRun(p, count) = Min(low) BY <1>3 DEF ScanRun
  <2> HIDE DEF low
  <2>3. ScanRun(p, count) \in low BY <2>1, <2>2
  <2> QED BY <1>0, <2>3 DEF Runs, Page, low
<1>4. CASE up = {} /\ low = {}
  BY <1>4 DEF ScanRun
<1> QED BY <1>2, <1>3, <1>4

-----------------------------------------------------------------------------
(* Cardinality of the bitmap.                                              *)

(* The bitmap has finitely many set bits, so they can be counted.          *)
LEMMA BitmapFinite ==
  ASSUME NEW S \in SUBSET Page
  PROVE  IsFiniteSet(S) /\ Cardinality(S) \in Nat
<1>1. IsFiniteSet(Page) BY PmmAssumption, FS_Interval DEF Page
<1> QED BY <1>1, FS_Subset, FS_CardinalityType

(* Setting the bits of a free run of count pages adds count to the number  *)
(* of set bits.                                                            *)
LEMMA RunCardinality ==
  ASSUME NEW S \in SUBSET Page, NEW f \in Nat, NEW count \in Nat \ {0},
         \A k \in f .. f + count - 1 : k \in Page /\ k \notin S
  PROVE  Cardinality(S \cup (f .. f + count - 1)) = Cardinality(S) + count
<1> DEFINE R == f .. f + count - 1
<1>1. IsFiniteSet(S) /\ Cardinality(S) \in Nat BY BitmapFinite
<1>2. IsFiniteSet(R) /\ Cardinality(R) = count BY FS_Interval
<1>3. S \cap R = {} OBVIOUS
<1>4. Cardinality(S \cap R) = 0 BY <1>3, FS_EmptySet
<1> HIDE DEF R
<1>5. Cardinality(S \cup R) = Cardinality(S) + Cardinality(R) - Cardinality(S \cap R)
  BY <1>1, <1>2, FS_Union
<1>6. Cardinality(S \cup R) = Cardinality(S) + count
  BY <1>1, <1>2, <1>4, <1>5
<1> QED BY <1>6 DEF R

(* A byte count of n + k pages is the sum of the two byte counts.          *)
LEMMA PagesDistribute ==
  ASSUME NEW n \in Int, NEW k \in Int
  PROVE  (n + k) * PageSize = n * PageSize + k * PageSize
BY PmmAssumption

(* The set bits are at most all pages, whose bytes a ulong can count.      *)
LEMMA BytesFit ==
  ASSUME NEW S \in SUBSET Page
  PROVE  Cardinality(S) * PageSize \in 0 .. UlongRange - 1
<1>0. PageCount \in Nat /\ PageSize \in Nat /\ UlongRange \in Nat /\ PageCount * PageSize < UlongRange
  BY PmmAssumption
<1>1. IsFiniteSet(Page) /\ Cardinality(Page) = PageCount BY <1>0, FS_Interval DEF Page
<1>2. PICK c \in Nat : c = Cardinality(S) BY BitmapFinite
<1>3. c <= PageCount BY <1>1, <1>2, FS_Subset
<1>4. PageCount - c \in Nat BY <1>0, <1>3
<1>5. (PageCount - c) * PageSize \in Nat /\ c * PageSize \in Nat BY <1>0, <1>4
<1>6. (c + (PageCount - c)) * PageSize = c * PageSize + (PageCount - c) * PageSize
  BY <1>4, PagesDistribute
<1>7. c + (PageCount - c) = PageCount BY <1>0
<1>8. c * PageSize + (PageCount - c) * PageSize < UlongRange BY <1>0, <1>6, <1>7
<1>9. c * PageSize < UlongRange
  <2>1. PICK x \in Nat, y \in Nat : x = c * PageSize /\ y = (PageCount - c) * PageSize BY <1>5
  <2> QED BY <1>0, <1>8, <2>1
<1> QED BY <1>0, <1>2, <1>5, <1>9

(* Reducing a number to a ulong changes it by a multiple of 2^32.          *)
LEMMA UlongClass ==
  ASSUME NEW x \in Int, NEW y \in Int, (x - y) % UintRange = 0
  PROVE  Ulong(x) \in 0 .. UlongRange - 1 /\ (Ulong(x) - y) % UintRange = 0
<1>0. /\ UintRange \in Nat \ {0} /\ UlongRange \in Nat \ {0} /\ UintRange > 0 /\ UlongRange > 0
      /\ UlongRange % UintRange = 0
  BY PmmAssumption
<1>1. PICK q \in Int, r \in Int : q = x \div UlongRange /\ r = x % UlongRange BY <1>0, DivLemma
<1>2. r \in 0 .. UlongRange - 1 BY <1>0, <1>1, ModRange
<1>3. PICK w \in Int : w = UlongRange * q BY <1>0
<1>4. r = x - w BY <1>0, <1>1, <1>3, DivLemma
<1>5. w % UintRange = 0
  <2>1. PICK k \in Int : k = UlongRange \div UintRange BY <1>0, DivLemma
  <2>2. UlongRange = UintRange * k BY <1>0, <2>1, DivLemma
  <2>3. PICK m \in Int : m = k * q OBVIOUS
  <2>4. w = m * UintRange BY <1>0, <1>3, <2>2, <2>3
  <2> QED BY <1>0, <2>4, MulMod
<1>6. PICK d \in Int : d = x - y OBVIOUS
<1>7. (d - w) % UintRange = 0 BY <1>0, <1>5, <1>6, AlignedSum
<1>8. r - y = d - w BY <1>4, <1>6
<1> QED BY <1>1, <1>2, <1>7, <1>8 DEF Ulong

\* Two byte counts agree modulo 2^32.
Agree(x, y) == (x - y) % UintRange = 0

(* The statistic after a change by d, next to the bytes after a change     *)
(* by e: they agree modulo 2^32 if d and e do, and exactly if both do.     *)
LEMMA StatStep ==
  ASSUME NEW u \in Int, NEW b \in Int, NEW d \in Int, NEW e \in Int,
         Agree(u, b), Agree(d, e), b + e \in 0 .. UlongRange - 1
  PROVE  /\ Ulong(u + d) \in 0 .. UlongRange - 1
         /\ Agree(Ulong(u + d), b + e)
         /\ u = b /\ d = e => Ulong(u + d) = b + e
<1>0. UintRange \in Nat \ {0} /\ UlongRange \in Nat \ {0} /\ UintRange > 0 BY PmmAssumption
<1>1. PICK x \in Int, y \in Int : x = u - b /\ y = d - e OBVIOUS
<1>2. (x + y) % UintRange = 0 BY <1>0, <1>1, AlignedSum DEF Agree
<1>3. (u + d) - (b + e) = x + y BY <1>1
<1>4. ((u + d) - (b + e)) % UintRange = 0 BY <1>2, <1>3
<1>5. /\ Ulong(u + d) \in 0 .. UlongRange - 1
      /\ (Ulong(u + d) - (b + e)) % UintRange = 0
  BY <1>4, UlongClass
<1>6. ASSUME u = b, d = e PROVE Ulong(u + d) = b + e
  <2>1. PICK z \in Int : z = b + e OBVIOUS
  <2>2. u + d = z /\ z \in 0 .. UlongRange - 1 BY <1>6, <2>1
  <2>3. z % UlongRange = z BY <1>0, <2>2
  <2> QED BY <2>1, <2>2, <2>3 DEF Ulong
<1> QED BY <1>5, <1>6 DEF Agree

(* The 32-bit product of a request differs from its bytes by a multiple    *)
(* of 2^32, and not at all below 4 GiB.                                    *)
LEMMA ProductClass ==
  ASSUME NEW x \in Nat
  PROVE  /\ x % UintRange \in Int /\ Agree(x % UintRange, x)
         /\ x < UintRange => x % UintRange = x
<1>0. UintRange \in Nat \ {0} /\ UintRange > 0 BY PmmAssumption
<1>1. PICK q \in Int, r \in Int : q = x \div UintRange /\ r = x % UintRange BY <1>0, DivLemma
<1>2. PICK k \in Int : k = -q OBVIOUS
<1>3. r - x = k * UintRange BY <1>0, <1>1, <1>2, DivLemma
<1>4. (k * UintRange) % UintRange = 0 BY <1>0, MulMod
<1>5. ASSUME x < UintRange PROVE x % UintRange = x BY <1>0, <1>5
<1> QED BY <1>1, <1>3, <1>4, <1>5 DEF Agree

-----------------------------------------------------------------------------
(* The inductive invariant.                                                *)

PmmInv == PmmTypeOK /\ ExclusiveFrames /\ UsedMemoryAccurate /\ PagePanicMeansFull

(* pmm_init reserves pages of the memory map only.                         *)
LEMMA ReservedPages == Reserved \in SUBSET Page
BY PmmAssumption DEF Reserved, Page

(* pmm_init establishes the inductive invariant.                           *)
LEMMA PmmInitInv == PmmInit => PmmInv
<1> SUFFICES ASSUME PmmInit PROVE PmmInv OBVIOUS
<1> USE DEF PmmInit
<1>1. Reserved \in SUBSET Page BY ReservedPages
<1>2. Cardinality(Reserved) \in Nat BY <1>1, BitmapFinite
<1>3. Cardinality(Reserved) * PageSize \in 0 .. UlongRange - 1 BY <1>1, BytesFit
<1>4. PmmTypeOK
  BY <1>1, <1>3, PmmAssumption DEF PmmTypeOK, PanicReasons
<1>5. ExclusiveFrames BY DEF ExclusiveFrames
<1>6. UsedMemoryAccurate
  <2>1. PICK b \in Int : b = Cardinality(Reserved) * PageSize BY <1>3
  <2>2. b - b = 0 /\ 0 % UintRange = 0 BY PmmAssumption
  <2>3. (b - b) % UintRange = 0 BY <2>2
  <2> QED BY <2>1, <2>3 DEF UsedMemoryAccurate
<1>7. PagePanicMeansFull BY DEF PagePanicMeansFull
<1> QED BY <1>4, <1>5, <1>6, <1>7 DEF PmmInv

(* pmm_alloc_page preserves the inductive invariant.                       *)
LEMMA PmmAllocPageInv ==
  ASSUME PmmInv, pmm_alloc_page PROVE PmmInv'
<1> DEFINE i == ScanPage(g_pmm)
<1>0. PageCount \in Nat /\ PageSize \in Nat /\ 1 \in 0 .. PageCount BY PmmAssumption
<1>1. /\ g_pmm.last_index \in 0 .. PageCount /\ g_pmm.bitmap \in SUBSET Page
      /\ g_pmm = [bitmap |-> g_pmm.bitmap, last_index |-> g_pmm.last_index,
                  used_memory |-> g_pmm.used_memory, longest |-> g_pmm.longest]
      /\ g_pmm.used_memory \in 0 .. UlongRange - 1 /\ g_pmm.longest \in 0 .. MaxRun
      /\ g_pmm.used_memory \in Int
  BY DEF PmmInv, PmmTypeOK
<1>2. \/ i \in Page /\ i \notin g_pmm.bitmap
      \/ i = NoPage /\ Page \subseteq g_pmm.bitmap
  BY <1>1, ScanPageLemma
<1>3. NoPage \notin Page BY <1>0 DEF NoPage, Page
<1> HIDE DEF i
<1>4. CASE /\ i # NoPage /\ g_pmm' = TakePage(g_pmm, i)
           /\ holders' = [holders EXCEPT ![i] = @ + 1] /\ UNCHANGED panicked
  <2>1. i \in Page /\ i \notin g_pmm.bitmap BY <1>2, <1>4
  <2>2. i \in 0 .. PageCount - 1 BY <2>1 DEF Page
  <2>3. g_pmm' = [bitmap |-> g_pmm.bitmap \cup {i}, last_index |-> i + 1,
                  used_memory |-> Ulong(g_pmm.used_memory + PageSize), longest |-> g_pmm.longest]
    BY <1>1, <1>4 DEF TakePage
  <2>s. /\ Ulong(g_pmm.used_memory + PageSize) \in 0 .. UlongRange - 1
        /\ UsedMemoryAccurate'
    <3>1. Cardinality(g_pmm.bitmap) \in Nat BY <1>1, BitmapFinite
    <3>2. Cardinality(g_pmm.bitmap \cup {i}) = Cardinality(g_pmm.bitmap) + 1
      BY <1>1, <2>1, BitmapFinite, FS_AddElement
    <3>3. (Cardinality(g_pmm.bitmap) + 1) * PageSize
            = Cardinality(g_pmm.bitmap) * PageSize + 1 * PageSize
      BY <3>1, PagesDistribute
    <3>4. PICK b \in Int : b = Cardinality(g_pmm.bitmap) * PageSize BY <1>0, <3>1
    <3>5. Cardinality(g_pmm.bitmap \cup {i}) * PageSize = b + PageSize BY <1>0, <3>2, <3>3, <3>4
    <3>6. b + PageSize \in 0 .. UlongRange - 1
      <4>1. g_pmm.bitmap \cup {i} \in SUBSET Page BY <1>1, <2>1
      <4> QED BY <3>5, <4>1, BytesFit
    <3>7. /\ Agree(g_pmm.used_memory, b)
          /\ g_pmm.longest * PageSize < UintRange => g_pmm.used_memory = b
      BY <3>4 DEF PmmInv, UsedMemoryAccurate, Agree
    <3>8. Agree(PageSize, PageSize) /\ PageSize \in Int
      <4>1. PageSize - PageSize = 0 /\ 0 % UintRange = 0 BY PmmAssumption
      <4> QED BY <1>0, <4>1 DEF Agree
    <3> DEFINE u == g_pmm.used_memory
    <3>9. /\ Ulong(u + PageSize) \in 0 .. UlongRange - 1
          /\ Agree(Ulong(u + PageSize), b + PageSize)
          /\ u = b /\ PageSize = PageSize => Ulong(u + PageSize) = b + PageSize
      <4> HIDE DEF u
      <4>1. u \in Int /\ Agree(u, b) BY <1>1, <3>7 DEF u
      <4> QED BY <3>6, <3>8, <4>1, StatStep
    <3>10. /\ g_pmm'.used_memory = Ulong(u + PageSize) /\ g_pmm'.longest = g_pmm.longest
           /\ g_pmm'.bitmap = g_pmm.bitmap \cup {i}
      BY <2>3
    <3> QED BY <3>5, <3>7, <3>9, <3>10 DEF UsedMemoryAccurate, Agree
  <2>4. PmmTypeOK'
    BY <1>0, <1>1, <1>4, <2>1, <2>2, <2>3, <2>s DEF PmmInv, PmmTypeOK
  <2>5. ExclusiveFrames'
    BY <1>4, <2>1, <2>3 DEF PmmInv, PmmTypeOK, ExclusiveFrames
  <2>6. UsedMemoryAccurate' BY <2>s
  <2>7. PagePanicMeansFull'
    BY <1>4 DEF pmm_alloc_page, Running, PagePanicMeansFull
  <2> QED BY <2>4, <2>5, <2>6, <2>7 DEF PmmInv
<1>5. CASE i = NoPage /\ Panic("out_of_memory", 1)
  <2>1. g_pmm.bitmap = Page BY <1>1, <1>2, <1>3, <1>5
  <2> QED BY <1>0, <1>5, <2>1 DEF Panic, PmmInv, PmmTypeOK, ExclusiveFrames,
            UsedMemoryAccurate, PagePanicMeansFull, PanicReasons
<1> QED BY <1>4, <1>5 DEF pmm_alloc_page, i

(* pmm_alloc_pages preserves the inductive invariant.                      *)
LEMMA PmmAllocPagesInv ==
  ASSUME PmmInv, NEW n \in 1 .. MaxRun, pmm_alloc_pages(n)
  PROVE  PmmInv'
<1> DEFINE f == ScanRun(g_pmm, n)
           R == f .. f + n - 1
<1>0. /\ PageCount \in Nat /\ PageSize \in Nat \ {0} /\ UintRange \in Nat \ {0}
      /\ MaxRun \in Nat /\ n \in 1 .. PageCount
  BY PmmAssumption
<1>1. /\ g_pmm.last_index \in 0 .. PageCount /\ g_pmm.bitmap \in SUBSET Page
      /\ g_pmm = [bitmap |-> g_pmm.bitmap, last_index |-> g_pmm.last_index,
                  used_memory |-> g_pmm.used_memory, longest |-> g_pmm.longest]
      /\ g_pmm.used_memory \in 0 .. UlongRange - 1 /\ g_pmm.longest \in 0 .. MaxRun
      /\ g_pmm.used_memory \in Int
  BY DEF PmmInv, PmmTypeOK
<1>2. \/ f = NoPage
      \/ f \in Page /\ f + n <= PageCount
         /\ \A k \in R : k \in Page /\ k \notin g_pmm.bitmap
  BY <1>0, <1>1, ScanRunLemma
<1> HIDE DEF f
<1>3. CASE /\ f # NoPage /\ g_pmm' = TakeRun(g_pmm, f, n)
           /\ holders' = [i \in Page |-> IF i \in R THEN holders[i] + 1
                                                    ELSE holders[i]]
           /\ UNCHANGED panicked
  <2>1. /\ f \in Page /\ f \in Nat /\ f + n \in 0 .. PageCount
        /\ \A k \in R : k \in Page /\ k \notin g_pmm.bitmap
    BY <1>0, <1>2, <1>3 DEF Page
  <2> DEFINE d == (n * PageSize) % UintRange
  <2>2. /\ n * PageSize \in Nat /\ d \in Int /\ Agree(d, n * PageSize)
        /\ n * PageSize < UintRange => d = n * PageSize
    <3>1. PICK x \in Nat : x = n * PageSize BY <1>0
    <3> QED BY <3>1, ProductClass
  <2> HIDE DEF d
  <2>3. g_pmm' = [bitmap |-> g_pmm.bitmap \cup R, last_index |-> f + n,
                  used_memory |-> Ulong(g_pmm.used_memory + d), longest |-> Longer(g_pmm.longest, n)]
    BY <1>1, <1>3 DEF TakeRun, d
  <2>l. /\ Longer(g_pmm.longest, n) \in 0 .. MaxRun
        /\ Longer(g_pmm.longest, n) * PageSize < UintRange
             => g_pmm.longest * PageSize < UintRange /\ n * PageSize < UintRange
    <3>1. PICK l \in Nat : l = g_pmm.longest BY <1>0, <1>1
    <3>2. PICK x \in Nat, y \in Nat : x = l * PageSize /\ y = n * PageSize BY <1>0, <2>2
    <3>3. CASE l < n
      <4>1. n - l \in Nat BY <1>0, <3>3
      <4>2. PICK z \in Nat : z = (n - l) * PageSize BY <1>0, <4>1
      <4>3. (l + (n - l)) * PageSize = l * PageSize + (n - l) * PageSize BY <4>1, PagesDistribute
      <4>4. l + (n - l) = n BY <1>0
      <4>5. y = x + z BY <3>2, <4>2, <4>3, <4>4
      <4> QED BY <1>0, <1>1, <3>1, <3>2, <3>3, <4>5 DEF Longer
    <3>4. CASE ~(l < n)
      <4>1. l - n \in Nat BY <1>0, <3>4
      <4>2. PICK z \in Nat : z = (l - n) * PageSize BY <1>0, <4>1
      <4>3. (n + (l - n)) * PageSize = n * PageSize + (l - n) * PageSize BY <1>0, <4>1, PagesDistribute
      <4>4. n + (l - n) = l BY <1>0
      <4>5. x = y + z BY <3>2, <4>2, <4>3, <4>4
      <4> QED BY <1>0, <1>1, <3>1, <3>2, <3>4, <4>5 DEF Longer
    <3> QED BY <3>3, <3>4
  <2>s. /\ Ulong(g_pmm.used_memory + d) \in 0 .. UlongRange - 1
        /\ UsedMemoryAccurate'
    <3>1. Cardinality(g_pmm.bitmap) \in Nat BY <1>1, BitmapFinite
    <3>2. Cardinality(g_pmm.bitmap \cup R) = Cardinality(g_pmm.bitmap) + n
      <4>1. g_pmm.bitmap \in SUBSET Page /\ n \in Nat \ {0} BY <1>0, <1>1
      <4> QED BY <2>1, <4>1, RunCardinality
    <3>3. (Cardinality(g_pmm.bitmap) + n) * PageSize
            = Cardinality(g_pmm.bitmap) * PageSize + n * PageSize
      BY <1>0, <3>1, PagesDistribute
    <3>0. g_pmm.bitmap \cup R \in SUBSET Page BY <1>1, <2>1
    <3> HIDE DEF R
    <3>4. PICK b \in Int, e \in Int, u \in Int : b = Cardinality(g_pmm.bitmap) * PageSize
                                 /\ e = n * PageSize /\ u = g_pmm.used_memory
      BY <1>0, <1>1, <2>2, <3>1
    <3>5. Cardinality(g_pmm.bitmap \cup R) * PageSize = b + e BY <3>2, <3>3, <3>4
    <3>6. b + e \in 0 .. UlongRange - 1 BY <3>0, <3>5, BytesFit
    <3>7. /\ Agree(u, b)
          /\ g_pmm.longest * PageSize < UintRange => u = b
      BY <3>4 DEF PmmInv, UsedMemoryAccurate, Agree
    <3>8. d \in Int /\ Agree(d, e) BY <2>2, <3>4
    <3>9. /\ Ulong(u + d) \in 0 .. UlongRange - 1
          /\ Agree(Ulong(u + d), b + e)
          /\ u = b /\ d = e => Ulong(u + d) = b + e
      BY <3>6, <3>7, <3>8, StatStep
    <3>10. /\ g_pmm'.used_memory = Ulong(u + d) /\ g_pmm'.longest = Longer(g_pmm.longest, n)
           /\ g_pmm'.bitmap = g_pmm.bitmap \cup R
      BY <2>3, <3>4
    <3>11. g_pmm'.longest * PageSize < UintRange => u = b /\ d = e
      BY <2>2, <2>l, <3>4, <3>7, <3>10
    <3>12. UsedMemoryAccurate'
      <4>1. Cardinality(g_pmm'.bitmap) * PageSize = b + e BY <3>5, <3>10
      <4>2. (g_pmm'.used_memory - (b + e)) % UintRange = 0 BY <3>9, <3>10 DEF Agree
      <4>3. g_pmm'.longest * PageSize < UintRange => g_pmm'.used_memory = b + e BY <3>9, <3>10, <3>11
      <4> QED BY <4>1, <4>2, <4>3 DEF UsedMemoryAccurate
    <3> QED BY <3>4, <3>9, <3>12
  <2>4. PmmTypeOK'
    <3>3. g_pmm.bitmap \cup R \in SUBSET Page BY <1>1, <2>1
    <3>4. holders' \in [Page -> Nat] BY <1>3 DEF PmmInv, PmmTypeOK
    <3> QED BY <1>3, <2>1, <2>3, <2>s, <2>l, <3>3, <3>4 DEF PmmInv, PmmTypeOK
  <2>5. ExclusiveFrames'
    <3> HIDE DEF R
    <3> SUFFICES ASSUME NEW i \in Page
                 PROVE  /\ holders'[i] <= 1
                        /\ i \in Reserved => holders'[i] = 0
                        /\ i \in g_pmm'.bitmap <=> (i \in Reserved \/ holders'[i] = 1)
      BY DEF ExclusiveFrames
    <3>1. g_pmm'.bitmap = g_pmm.bitmap \cup R BY <2>3
    <3>2. /\ holders[i] \in Nat /\ holders[i] <= 1
          /\ i \in Reserved => holders[i] = 0
          /\ i \in g_pmm.bitmap <=> (i \in Reserved \/ holders[i] = 1)
      BY DEF PmmInv, PmmTypeOK, ExclusiveFrames
    <3>3. CASE i \in R
      <4>1. i \notin g_pmm.bitmap BY <2>1, <3>3
      <4>2. holders'[i] = holders[i] + 1 BY <1>3, <3>3
      <4> QED BY <3>1, <3>2, <3>3, <4>1, <4>2
    <3>4. CASE i \notin R
      <4>1. holders'[i] = holders[i] BY <1>3, <3>4
      <4> QED BY <3>1, <3>2, <3>4, <4>1
    <3> QED BY <3>3, <3>4
  <2>6. UsedMemoryAccurate' BY <2>s
  <2>7. PagePanicMeansFull'
    BY <1>3 DEF pmm_alloc_pages, Running, PagePanicMeansFull
  <2> QED BY <2>4, <2>5, <2>6, <2>7 DEF PmmInv
<1>4. CASE f = NoPage /\ Panic("out_of_memory", n)
  <2>0. f = NoPage BY <1>4
  <2>a. /\ UNCHANGED <<g_pmm, holders>>
        /\ panicked' = [why |-> "out_of_memory", count |-> n]
    BY <1>4 DEF Panic
  <2>1. n = 1 => g_pmm.bitmap = Page
    <3> SUFFICES ASSUME n = 1, NEW j \in Page, j \notin g_pmm.bitmap
                 PROVE  FALSE
      BY <1>1
    <3>1. j \in 0 .. PageCount - 1 BY DEF Page
    <3>2. \A k \in j .. j + n - 1 : k = j BY <3>1
    <3>3. CASE j >= g_pmm.last_index
      <4>1. j \in Runs(g_pmm, n, g_pmm.last_index, PageCount - 1)
        BY <1>0, <1>1, <3>1, <3>2, <3>3 DEF Runs
      <4>2. Runs(g_pmm, n, g_pmm.last_index, PageCount - 1) \in SUBSET Nat
        BY <1>0, <1>1 DEF Runs
      <4> DEFINE U == Runs(g_pmm, n, g_pmm.last_index, PageCount - 1)
      <4>3. f = Min(U) BY <4>1 DEF ScanRun, f
      <4>4. Min(U) \in U BY <4>1, <4>2, MinLemma
      <4> HIDE DEF U
      <4>5. f \in Nat BY <4>2, <4>3, <4>4 DEF U
      <4> QED BY <2>0, <4>5 DEF NoPage
    <3>4. CASE j < g_pmm.last_index
      <4> DEFINE U == Runs(g_pmm, n, g_pmm.last_index, PageCount - 1)
                 L == Runs(g_pmm, n, 0, g_pmm.last_index - 1)
      <4>1. j \in L
        BY <1>0, <1>1, <3>1, <3>2, <3>4 DEF Runs
      <4>2. U \in SUBSET Nat /\ L \in SUBSET Nat BY <1>0, <1>1 DEF Runs
      <4>3. (f = Min(U) /\ U # {}) \/ f = Min(L) BY <4>1 DEF ScanRun, f
      <4>4. /\ U # {} => Min(U) \in U
            /\ Min(L) \in L
        BY <4>1, <4>2, MinLemma
      <4> HIDE DEF U, L
      <4>5. f \in Nat BY <4>2, <4>3, <4>4
      <4> QED BY <2>0, <4>5 DEF NoPage
    <3> QED BY <1>1, <3>1, <3>3, <3>4
  <2>2. n \in 0 .. PageCount BY <1>0
  <2>3. PmmTypeOK' BY <2>a, <2>2 DEF PmmInv, PmmTypeOK, PanicReasons
  <2>4. ExclusiveFrames' BY <2>a DEF PmmInv, ExclusiveFrames
  <2>5. UsedMemoryAccurate' BY <2>a DEF PmmInv, UsedMemoryAccurate
  <2>6. PagePanicMeansFull' BY <2>a, <2>1 DEF PagePanicMeansFull
  <2> QED BY <2>3, <2>4, <2>5, <2>6 DEF PmmInv
<1> QED BY <1>3, <1>4 DEF pmm_alloc_pages, f

(* pmm_free_page preserves the inductive invariant.                        *)
LEMMA PmmFreePageInv ==
  ASSUME PmmInv, NEW i \in 0 .. PageCount, pmm_free_page(i)
  PROVE  PmmInv'
<1>0. PageCount \in Nat /\ PageSize \in Nat /\ 1 \in 0 .. PageCount BY PmmAssumption
<1>1. /\ g_pmm.last_index \in 0 .. PageCount /\ g_pmm.bitmap \in SUBSET Page
      /\ g_pmm = [bitmap |-> g_pmm.bitmap, last_index |-> g_pmm.last_index,
                  used_memory |-> g_pmm.used_memory, longest |-> g_pmm.longest]
      /\ g_pmm.used_memory \in 0 .. UlongRange - 1 /\ g_pmm.longest \in 0 .. MaxRun
      /\ g_pmm.used_memory \in Int
  BY DEF PmmInv, PmmTypeOK
<1>2. ASSUME NEW why \in {"free_out_of_range",
                          "double_free"},
             Panic(why, 1)
      PROVE  PmmInv'
  BY <1>0, <1>2 DEF Panic, PmmInv, PmmTypeOK, ExclusiveFrames,
       UsedMemoryAccurate, PagePanicMeansFull, PanicReasons
<1>3. CASE /\ i \in Page /\ i \in g_pmm.bitmap /\ holders[i] > 0
           /\ g_pmm' = GivePage(g_pmm, i)
           /\ holders' = [holders EXCEPT ![i] = @ - 1] /\ UNCHANGED panicked
  <2> DEFINE last == IF i < g_pmm.last_index THEN i ELSE g_pmm.last_index
  <2>1. g_pmm' = [bitmap |-> g_pmm.bitmap \ {i}, last_index |-> last,
                  used_memory |-> Ulong(g_pmm.used_memory - PageSize), longest |-> g_pmm.longest]
    BY <1>1, <1>3 DEF GivePage
  <2>2. holders[i] = 1 BY <1>3 DEF PmmInv, PmmTypeOK, ExclusiveFrames
  <2>3. last \in 0 .. PageCount BY <1>1
  <2> HIDE DEF last
  <2>4. /\ Cardinality(g_pmm.bitmap \ {i}) \in Nat
        /\ Cardinality(g_pmm.bitmap) = Cardinality(g_pmm.bitmap \ {i}) + 1
    <3>1. Cardinality(g_pmm.bitmap \ {i}) \in Nat BY <1>1, BitmapFinite
    <3>2. Cardinality(g_pmm.bitmap \ {i}) = Cardinality(g_pmm.bitmap) - 1
      BY <1>1, <1>3, BitmapFinite, FS_RemoveElement
    <3>3. Cardinality(g_pmm.bitmap) \in Nat BY <1>1, BitmapFinite
    <3> QED BY <3>1, <3>2, <3>3
  <2>5. /\ Ulong(g_pmm.used_memory - PageSize) \in 0 .. UlongRange - 1
        /\ UsedMemoryAccurate'
    <3>1. PICK b \in Int, u \in Int : b = Cardinality(g_pmm.bitmap) * PageSize /\ u = g_pmm.used_memory
      BY <1>0, <1>1, <2>4
    <3>2. (Cardinality(g_pmm.bitmap \ {i}) + 1) * PageSize
            = Cardinality(g_pmm.bitmap \ {i}) * PageSize + 1 * PageSize
      BY <2>4, PagesDistribute
    <3>3. PICK e \in Int : e = -PageSize BY <1>0
    <3>4. Cardinality(g_pmm.bitmap \ {i}) * PageSize = b + e
      <4>1. PICK c \in Nat : c = Cardinality(g_pmm.bitmap \ {i}) * PageSize BY <1>0, <2>4
      <4>2. b = c + PageSize BY <1>0, <2>4, <3>1, <3>2, <4>1
      <4> QED BY <1>0, <3>3, <4>1, <4>2
    <3>5. b + e \in 0 .. UlongRange - 1
      <4>1. g_pmm.bitmap \ {i} \in SUBSET Page BY <1>1
      <4> QED BY <3>4, <4>1, BytesFit
    <3>6. /\ Agree(u, b)
          /\ g_pmm.longest * PageSize < UintRange => u = b
      BY <3>1 DEF PmmInv, UsedMemoryAccurate, Agree
    <3>7. Agree(e, e)
      <4>1. e - e = 0 /\ 0 % UintRange = 0 BY PmmAssumption
      <4> QED BY <4>1 DEF Agree
    <3>8. /\ Ulong(u + e) \in 0 .. UlongRange - 1
          /\ Agree(Ulong(u + e), b + e)
          /\ u = b /\ e = e => Ulong(u + e) = b + e
      BY <3>5, <3>6, <3>7, StatStep
    <3>9. u + e = g_pmm.used_memory - PageSize BY <1>0, <3>1, <3>3
    <3>10. /\ g_pmm'.used_memory = Ulong(u + e) /\ g_pmm'.longest = g_pmm.longest
           /\ g_pmm'.bitmap = g_pmm.bitmap \ {i}
      BY <2>1, <3>9
    <3>11. UsedMemoryAccurate' BY <3>4, <3>6, <3>8, <3>10 DEF UsedMemoryAccurate, Agree
    <3> QED BY <3>8, <3>9, <3>11
  <2>7. PmmTypeOK'
    <3>1. holders' \in [Page -> Nat]
      BY <1>3, <2>2 DEF PmmInv, PmmTypeOK
    <3> QED BY <1>1, <1>3, <2>1, <2>3, <2>5, <3>1 DEF PmmInv, PmmTypeOK
  <2>8. ExclusiveFrames'
    BY <1>3, <2>1, <2>2 DEF PmmInv, PmmTypeOK, ExclusiveFrames
  <2>9. UsedMemoryAccurate' BY <2>5
  <2>10. PagePanicMeansFull'
    BY <1>3 DEF pmm_free_page, Running, PagePanicMeansFull
  <2> QED BY <2>7, <2>8, <2>9, <2>10 DEF PmmInv
<1> QED BY <1>2, <1>3 DEF pmm_free_page

(* Every step of the allocator preserves the inductive invariant.          *)
LEMMA PmmNextInv == PmmInv /\ [PmmNext]_pmmVars => PmmInv'
<1> SUFFICES ASSUME PmmInv, [PmmNext]_pmmVars PROVE PmmInv' OBVIOUS
<1>1. CASE PmmNext
  BY <1>1, PmmAllocPageInv, PmmAllocPagesInv, PmmFreePageInv DEF PmmNext
<1>2. CASE UNCHANGED pmmVars
  BY <1>2 DEF pmmVars, PmmInv, PmmTypeOK, ExclusiveFrames,
       UsedMemoryAccurate, PagePanicMeansFull, Running
<1> QED BY <1>1, <1>2

-----------------------------------------------------------------------------
(* The allocator's fields stay in range for every memory size: last_index  *)
(* never passes page_count, so the scans stay in the bitmap.               *)
THEOREM PmmTypeCorrect == PmmSpec => []PmmTypeOK
<1>1. PmmInv => PmmTypeOK BY DEF PmmInv
<1> QED BY PmmInitInv, PmmNextInv, <1>1, PTL DEF PmmSpec

(* Frames are exclusive for every memory size: pmm_alloc_page and          *)
(* pmm_alloc_pages never hand out a reserved frame or one that is held.    *)
THEOREM PmmExclusive == PmmSpec => []ExclusiveFrames
<1>1. PmmInv => ExclusiveFrames BY DEF PmmInv
<1> QED BY PmmInitInv, PmmNextInv, <1>1, PTL DEF PmmSpec

(* used_memory, the figure pmm_get_stats reports, is exact for every       *)
(* memory size until a run of 4 GiB or more is handed out, and right       *)
(* modulo 2^32 from then on, whatever is allocated and freed afterwards.   *)
THEOREM PmmUsedMemory == PmmSpec => []UsedMemoryAccurate
<1>1. PmmInv => UsedMemoryAccurate BY DEF PmmInv
<1> QED BY PmmInitInv, PmmNextInv, <1>1, PTL DEF PmmSpec

(* pmm_alloc_page's wrap-around scan is complete for every memory size: it *)
(* panics only when no frame is free.                                      *)
THEOREM PmmPagePanic == PmmSpec => []PagePanicMeansFull
<1>1. PmmInv => PagePanicMeansFull BY DEF PmmInv
<1> QED BY PmmInitInv, PmmNextInv, <1>1, PTL DEF PmmSpec

-----------------------------------------------------------------------------
(* The kernel heap.                                                        *)

\* A multiple of the alignment, and the size the heap may grow to.
Al(x) == x % HEAP_ALIGN_SIZE = 0
Limit == MaxPages * PAGE_SIZE

\* What a header may hold.
Link == Addr \cup {Null}
Header == [payload_size: Nat, next: Link, prev: Link, free: BOOLEAN]
Headers == [Addr -> Header]

\* Where there is a block: forget leaves a payload_size of 0.  The blocks in use.
Heads(m) == {a \in Addr : m[a].payload_size > 0}
Used(m) == {a \in Heads(m) : ~m[a].free}

\* Block b ends where the next one begins, or at e, and its neighbours point to it.
BlockOK(m, e, b) ==
  /\ Al(m[b].payload_size) /\ BLOCK_END(m, b) <= e
  /\ m[b].next = Null => BLOCK_END(m, b) = e
  /\ m[b].next # Null => m[b].next \in Heads(m) /\ BLOCK_END(m, b) = m[b].next /\ m[m[b].next].prev = b
  /\ b # 0 => m[b].prev \in Heads(m) /\ m[m[b].prev].next = b

\* No block reaches into one behind it.
Apart(m) == \A a, b \in Heads(m) : a < b => BLOCK_END(m, a) <= b

\* The headers m describe a heap that ends at e.
HeapOf(m, e) ==
  /\ m \in Headers /\ 0 \in Heads(m) /\ m[0].prev = Null
  /\ e \in Nat /\ e <= Limit /\ Al(e)
  /\ \A b \in Heads(m) : BlockOK(m, e, b)
  /\ Apart(m)

\* A block of X that is free has no free block, other than those of Y, behind it.
NoneFree(m, X, Y) ==
  \A b \in X \cap Heads(m) : m[b].free /\ m[b].next # Null /\ m[b].next \notin Y => ~m[m[b].next].free

\* The allocations L are the blocks in use.
LiveOK(m, L) ==
  /\ L \in SUBSET [block: Addr, size: Sizes]
  /\ Used(m) = {a.block : a \in L}
  /\ \A a \in L : m[a.block].payload_size >= a.size
  /\ \A a, b \in L : a.block = b.block => a = b

\* b is a free block, and the block behind it is free as well.
FreeBlock(m, e, L, b) == HeapOf(m, e) /\ LiveOK(m, L) /\ b \in Heads(m) /\ m[b].free
FreePair(m, e, L, b) == FreeBlock(m, e, L, b) /\ m[b].next # Null /\ m[m[b].next].free

\* Block b is being merged with the one behind it: its size counts both, then its
\* next pointer skips the other one.
Grown(m, b) == [m EXCEPT ![b].payload_size = @ + HEADER + m[m[b].next].payload_size]
Skipped(m, b) == [Grown(m, b) EXCEPT ![b].next = m[m[b].next].next]

\* The heap m as kfree of block b found it before it merged b with the block behind
\* it, or, in the second half of kfree, with the one before it.
MergesNext(m, b) == FreePair(m, end, live, b) /\ NoneFree(m, Addr \ {b}, {b})
MergesPrev(m, b) == FreePair(m, end, live, m[b].prev) /\ m[m[b].prev].next = b /\ NoneFree(m, Addr, {b})

\* The steps of kfree.
KfreeStep == {"test_next", "grow", "unlink", "relink", "test_prev", "prev_grow", "prev_unlink", "prev_relink"}

(* A kfree in progress is in the middle of merging two blocks of a heap m  *)
(* that was in order, or about to look at a neighbour.                     *)
HeapInv ==
  /\ mem \in Headers
  /\ op = Idle \/ op \in [at: KfreeStep, block: Addr]
  /\ op.at = "none" => HeapOf(mem, end) /\ LiveOK(mem, live) /\ NoneFree(mem, Addr, {})
  /\ op.at = "test_next" => FreeBlock(mem, end, live, blk) /\ NoneFree(mem, Addr \ {blk}, {blk})
  /\ op.at = "grow" => MergesNext(mem, blk)
  /\ op.at = "unlink" => \E m \in Headers : MergesNext(m, blk) /\ mem = Grown(m, blk)
  /\ op.at = "relink" => \E m \in Headers : MergesNext(m, blk) /\ mem = forget(Skipped(m, blk), m[blk].next)
  /\ op.at = "test_prev" => FreeBlock(mem, end, live, blk) /\ NoneFree(mem, Addr, {blk})
  /\ op.at = "prev_grow" => MergesPrev(mem, blk)
  /\ op.at = "prev_unlink" => \E m \in Headers : MergesPrev(m, blk) /\ mem = Grown(m, m[blk].prev)
  /\ op.at = "prev_relink" => \E m \in Headers : MergesPrev(m, blk) /\ mem = Skipped(m, m[blk].prev)

(* What the assumptions say of the sizes.                                  *)
LEMMA HeapSizes ==
  /\ HEAP_ALIGN_SIZE \in Nat /\ HEAP_ALIGN_SIZE > 0
  /\ HEADER \in Nat /\ HEADER > 0 /\ Al(HEADER)
  /\ PAGE_SIZE \in Nat /\ PAGE_SIZE > HEADER /\ Al(PAGE_SIZE)
  /\ Limit \in Nat /\ Limit > 0
  /\ Null \notin Addr /\ Null = -1
<1>1. MaxPages \in Nat /\ MaxPages > 0 /\ PAGE_SIZE \in Nat /\ PAGE_SIZE > 0 BY HeapAssumption
<1>2. Limit \in Nat /\ Limit > 0 BY <1>1 DEF Limit
<1> QED BY <1>2, HeapAssumption DEF Al, Null, Addr, Limit

(* The addresses of headers.                                               *)
LEMMA AddrLemma == \A a : a \in Addr <=> a \in Nat /\ a < Limit /\ Al(a)
<1>1. PICK l \in Nat : l = Limit BY HeapSizes
<1>2. Addr = {a \in 0 .. l - 1 : Al(a)} BY <1>1 DEF Addr, Limit, Al
<1> QED BY <1>1, <1>2

(* Multiples of the alignment.                                             *)
LEMMA AlLemma ==
  ASSUME NEW x \in Int, NEW y \in Int, Al(x), Al(y)
  PROVE  Al(x + y) /\ Al(x - y)
BY HeapSizes, AlignedSum DEF Al

(* A number of pages.                                                      *)
LEMMA AlMultiple ==
  ASSUME NEW k \in Nat
  PROVE  Al(k * PAGE_SIZE)
<1>1. HEAP_ALIGN_SIZE \in Nat /\ HEAP_ALIGN_SIZE > 0 /\ PAGE_SIZE \in Nat /\ PAGE_SIZE % HEAP_ALIGN_SIZE = 0
  BY HeapSizes DEF Al
<1>2. PICK d \in Nat, p \in Nat : d = HEAP_ALIGN_SIZE /\ p = PAGE_SIZE /\ d > 0 /\ p % d = 0 BY <1>1
<1>3. PICK q \in Int : q = p \div d BY <1>2, DivLemma
<1>4. p = q * d BY <1>2, <1>3, DivLemma
<1>5. k * p = (k * q) * d BY <1>4
<1>6. PICK j \in Int : j = k * q OBVIOUS
<1>7. (j * d) % d = 0 BY <1>2, MulMod
<1> QED BY <1>2, <1>5, <1>6, <1>7 DEF Al

(* The fields of a header.                                                 *)
LEMMA HeaderFields ==
  ASSUME NEW m \in Headers, NEW a \in Addr
  PROVE  /\ m[a] \in Header
         /\ m[a].payload_size \in Nat /\ m[a].next \in Link /\ m[a].prev \in Link /\ m[a].free \in BOOLEAN
BY DEF Headers, Header

(* Facts about a block of a heap.                                          *)
LEMMA BlockFacts ==
  ASSUME NEW m, NEW e, HeapOf(m, e), NEW b \in Heads(m)
  PROVE  /\ b \in Addr /\ b \in Nat /\ b < Limit /\ Al(b)
         /\ m[b].payload_size \in Nat /\ m[b].payload_size > 0 /\ Al(m[b].payload_size)
         /\ m[b].next \in Link /\ m[b].prev \in Link /\ m[b].free \in BOOLEAN
         /\ BLOCK_END(m, b) = b + HEADER + m[b].payload_size
         /\ BLOCK_END(m, b) <= e
         /\ m[b].next = Null => BLOCK_END(m, b) = e
         /\ m[b].next # Null => m[b].next \in Heads(m) /\ BLOCK_END(m, b) = m[b].next /\ m[m[b].next].prev = b
         /\ b # 0 => m[b].prev \in Heads(m) /\ m[m[b].prev].next = b
<1>1. m \in Headers /\ b \in Addr /\ m[b].payload_size > 0 BY DEF HeapOf, Heads
<1>2. BlockOK(m, e, b) BY DEF HeapOf
<1>3. m[b].payload_size \in Nat /\ m[b].next \in Link /\ m[b].prev \in Link /\ m[b].free \in BOOLEAN
  BY <1>1, HeaderFields
<1>4. b \in Nat /\ b < Limit /\ Al(b) BY <1>1, AddrLemma
<1>5. BLOCK_END(m, b) = b + HEADER + m[b].payload_size BY DEF BLOCK_END
<1> QED BY <1>1, <1>2, <1>3, <1>4, <1>5 DEF BlockOK

\* The headers m2 are those of m with the block n behind b merged into b.
Merged(m, b, n, m2) ==
  /\ m2 \in Headers
  /\ \A a \in Addr : m2[a].payload_size = IF a = b THEN m[b].payload_size + HEADER + m[n].payload_size
                                          ELSE IF a = n THEN 0 ELSE m[a].payload_size
  /\ \A a \in Addr \ {n} : /\ m2[a].next = IF a = b THEN m[n].next ELSE m[a].next
                           /\ m2[a].prev = IF a = m[n].next THEN b ELSE m[a].prev
                           /\ m2[a].free = m[a].free

(* Merging two neighbours leaves a heap.                                   *)
LEMMA MergeLemma ==
  ASSUME NEW m, NEW e, HeapOf(m, e), NEW b \in Heads(m), NEW n, n = m[b].next, n # Null,
         NEW m2, Merged(m, b, n, m2)
  PROVE  HeapOf(m2, e) /\ Heads(m2) = Heads(m) \ {n}
<1>0. HEADER \in Nat /\ HEADER > 0 /\ Al(HEADER) /\ Null \notin Addr BY HeapSizes
<1>1. n \in Heads(m) /\ BLOCK_END(m, b) = n /\ m[n].prev = b BY BlockFacts
<1>2. /\ b \in Addr /\ b \in Nat /\ m[b].payload_size \in Nat /\ m[b].payload_size > 0
         /\ Al(m[b].payload_size)
      /\ n \in Addr /\ n \in Nat /\ m[n].payload_size \in Nat /\ m[n].payload_size > 0
         /\ Al(m[n].payload_size)
      /\ n = b + HEADER + m[b].payload_size
      /\ m \in Headers /\ m2 \in Headers
  BY <1>1, BlockFacts DEF HeapOf, Merged
<1>3. n > b /\ n # 0 BY <1>0, <1>2
<1>4. PICK p \in Nat : p = m[b].payload_size + HEADER + m[n].payload_size /\ p > 0 /\ Al(p)
  <2>1. PICK u \in Nat, v \in Nat, h \in Nat : u = m[b].payload_size /\ v = m[n].payload_size /\ h = HEADER
    BY <1>0, <1>2
  <2>2. u \in Int /\ v \in Int /\ h \in Int /\ u + h \in Int /\ Al(u) /\ Al(v) /\ Al(h) BY <1>0, <1>2, <2>1
  <2>3. Al(u + h) BY <2>2, AlLemma
  <2>4. Al((u + h) + v) BY <2>2, <2>3, AlLemma
  <2>5. u + h + v \in Nat /\ u + h + v > 0 BY <1>2, <2>1
  <2> QED BY <2>1, <2>4, <2>5
<1>5. /\ m2[b].payload_size = p /\ m2[n].payload_size = 0
      /\ \A a \in Addr \ {b, n} : m2[a].payload_size = m[a].payload_size
  BY <1>2, <1>3, <1>4 DEF Merged
<1>6. Heads(m2) = Heads(m) \ {n}
  <2>1. \A a \in Addr : m2[a].payload_size > 0 <=> m[a].payload_size > 0 /\ a # n BY <1>2, <1>3, <1>4, <1>5
  <2> QED BY <2>1 DEF Heads
<1>7. 0 \in Heads(m2) /\ m2[0].prev = Null
  <2>1. 0 \in Heads(m) /\ m[0].prev = Null /\ 0 \in Addr BY DEF HeapOf, Heads
  <2>2. m[n].next # 0
    <3> SUFFICES ASSUME m[n].next = 0 PROVE FALSE OBVIOUS
    <3>1. m[n].next # Null BY <1>0, <2>1
    <3> QED BY <1>0, <1>1, <1>2, <3>1, BlockFacts
  <2> QED BY <1>3, <1>6, <2>1, <2>2 DEF Merged
<1>8. \A a \in Heads(m2) : /\ a \in Addr /\ a # n /\ a \in Heads(m)
                           /\ BLOCK_END(m2, a) = IF a = b THEN BLOCK_END(m, n) ELSE BLOCK_END(m, a)
  <2>1. BLOCK_END(m2, b) = BLOCK_END(m, n) BY <1>0, <1>2, <1>4, <1>5 DEF BLOCK_END
  <2>2. \A a \in Addr \ {b, n} : BLOCK_END(m2, a) = BLOCK_END(m, a) BY <1>5 DEF BLOCK_END
  <2> QED BY <1>6, <2>1, <2>2 DEF Heads
<1>9. Apart(m2)
  <2> SUFFICES ASSUME NEW x \in Heads(m2), NEW y \in Heads(m2), x < y PROVE BLOCK_END(m2, x) <= y
    BY DEF Apart
  <2>1. x \in Heads(m) /\ y \in Heads(m) /\ x # n /\ y # n /\ x \in Nat /\ y \in Nat BY <1>8, BlockFacts
  <2>2. BLOCK_END(m, x) <= y BY <2>1 DEF HeapOf, Apart
  <2>3. CASE x = b
    <3>1. n < y BY <1>1, <1>2, <2>1, <2>2, <2>3
    <3>2. BLOCK_END(m, n) <= y BY <1>1, <2>1, <3>1 DEF HeapOf, Apart
    <3> QED BY <1>8, <2>3, <3>2
  <2> QED BY <1>8, <2>2, <2>3
<1>10. ASSUME NEW a \in Heads(m2) PROVE BlockOK(m2, e, a)
  <2>1. a \in Addr /\ a # n /\ a \in Heads(m) BY <1>8
  <2>2. Al(m2[a].payload_size) BY <1>4, <1>5, <2>1, BlockFacts
  <2>3. BLOCK_END(m2, a) <= e BY <1>1, <1>8, <2>1, BlockFacts
  <2>4. m2[a].next = IF a = b THEN m[n].next ELSE m[a].next BY <2>1 DEF Merged
  <2>5. m2[a].prev = IF a = m[n].next THEN b ELSE m[a].prev BY <2>1 DEF Merged
  <2>6. m2[a].next = Null => BLOCK_END(m2, a) = e BY <1>1, <1>8, <2>1, <2>4, BlockFacts
  <2>7. ASSUME m2[a].next # Null
        PROVE  m2[a].next \in Heads(m2) /\ BLOCK_END(m2, a) = m2[a].next /\ m2[m2[a].next].prev = a
    <3>1. CASE a = b
      <4>1. PICK k : k = m[n].next /\ m2[a].next = k BY <2>4, <3>1
      <4>2. k \in Heads(m) /\ BLOCK_END(m, n) = k BY <1>1, <2>7, <4>1, BlockFacts
      <4>3. k # n /\ k \in Addr
        <5>1. k > n BY <1>0, <1>1, <1>2, <4>2, BlockFacts
        <5> QED BY <1>2, <4>2, <5>1 DEF Heads
      <4>4. m2[k].prev = b BY <4>1, <4>3 DEF Merged
      <4> QED BY <1>6, <1>8, <3>1, <4>1, <4>2, <4>3, <4>4
    <3>2. CASE a # b
      <4>1. PICK k : k = m[a].next /\ m2[a].next = k BY <2>4, <3>2
      <4>2. k \in Heads(m) /\ BLOCK_END(m, a) = k /\ m[k].prev = a BY <2>1, <2>7, <4>1, BlockFacts
      <4>3. k # n /\ k \in Addr BY <1>1, <3>2, <4>2 DEF Heads
      <4>4. k # m[n].next
        <5> SUFFICES ASSUME k = m[n].next PROVE FALSE OBVIOUS
        <5>1. k # Null BY <1>0, <4>3
        <5>2. m[k].prev = n BY <1>1, <5>1, BlockFacts
        <5> QED BY <2>1, <4>2, <5>2
      <4>5. m2[k].prev = m[k].prev BY <4>3, <4>4 DEF Merged
      <4> QED BY <1>6, <1>8, <3>2, <4>1, <4>2, <4>3, <4>5
    <3> QED BY <3>1, <3>2
  <2>8. ASSUME a # 0 PROVE m2[a].prev \in Heads(m2) /\ m2[m2[a].prev].next = a
    <3>1. CASE a = m[n].next
      <4>1. m2[a].prev = b /\ m2[b].next = a BY <1>2, <1>3, <2>5, <3>1 DEF Merged
      <4> QED BY <1>3, <1>2, <1>6, <4>1
    <3>2. CASE a # m[n].next
      <4>1. PICK k : k = m[a].prev /\ m2[a].prev = k BY <2>5, <3>2
      <4>2. k \in Heads(m) /\ m[k].next = a BY <2>1, <2>8, <4>1, BlockFacts
      <4>3. k # n /\ k \in Addr BY <3>2, <4>2 DEF Heads
      <4>4. k # b BY <2>1, <4>2
      <4>5. m2[k].next = a BY <4>2, <4>3, <4>4 DEF Merged
      <4> QED BY <1>6, <4>1, <4>2, <4>3, <4>5
    <3> QED BY <3>1, <3>2
  <2> QED BY <2>2, <2>3, <2>6, <2>7, <2>8 DEF BlockOK
<1>11. e \in Nat /\ e <= Limit /\ Al(e) BY DEF HeapOf
<1> QED BY <1>2, <1>6, <1>7, <1>9, <1>10, <1>11 DEF HeapOf

(* A heap stays one when only the free marks of its headers change.        *)
LEMMA MarkLemma ==
  ASSUME NEW m, NEW e, HeapOf(m, e), NEW m2 \in Headers,
         \A a \in Addr : /\ m2[a].payload_size = m[a].payload_size
                         /\ m2[a].next = m[a].next /\ m2[a].prev = m[a].prev
  PROVE  HeapOf(m2, e) /\ Heads(m2) = Heads(m)
<1>1. Heads(m2) = Heads(m) BY DEF Heads
<1>2. \A a \in Addr : BLOCK_END(m2, a) = BLOCK_END(m, a) BY DEF BLOCK_END
<1>3. Apart(m2) BY <1>1, <1>2 DEF Apart, HeapOf, Heads
<1>4. ASSUME NEW b \in Heads(m) PROVE BlockOK(m2, e, b)
  <2>1. b \in Addr /\ m[b].next \in Link /\ m[b].prev \in Link BY BlockFacts
  <2>2. m[b].next # Null => m[b].next \in Addr BY <2>1 DEF Link
  <2>3. b # 0 => m[b].prev \in Addr BY BlockFacts DEF Heads
  <2>4. BlockOK(m, e, b) BY DEF HeapOf
  <2> QED BY <1>1, <1>2, <2>1, <2>2, <2>3, <2>4 DEF BlockOK
<1>5. 0 \in Heads(m2) /\ m2[0].prev = Null BY <1>1 DEF HeapOf, Heads
<1> QED BY <1>1, <1>3, <1>4, <1>5 DEF HeapOf

\* The headers m2 are those of m with block b cut to size, the rest a free block n.
Cut(m, b, n, size, m2) ==
  /\ m2 \in Headers
  /\ \A a \in Addr :
       /\ m2[a].payload_size = IF a = b THEN size
          ELSE IF a = n THEN m[b].payload_size - size - HEADER ELSE m[a].payload_size
       /\ m2[a].next = IF a = b THEN n ELSE IF a = n THEN m[b].next ELSE m[a].next
       /\ m2[a].prev = IF a = n THEN b ELSE IF a = m[b].next THEN n ELSE m[a].prev
       /\ m2[a].free = IF a = n THEN TRUE ELSE m[a].free

(* Where a block is cut there is room for a header and none yet.           *)
LEMMA CutPlace ==
  ASSUME NEW m, NEW e, HeapOf(m, e), NEW b \in Heads(m), NEW size \in Nat, size > 0, Al(size),
         m[b].payload_size > size + HEADER
  PROVE  /\ b + HEADER + size \in Addr /\ b + HEADER + size \notin Heads(m) /\ b + HEADER + size # 0
         /\ m[b].payload_size - size - HEADER \in Nat /\ Al(m[b].payload_size - size - HEADER)
<1>0. HEADER \in Nat /\ HEADER > 0 /\ Al(HEADER) /\ Limit \in Nat BY HeapSizes
<1>1. /\ b \in Nat /\ m[b].payload_size \in Nat /\ Al(b) /\ Al(m[b].payload_size)
      /\ b + HEADER + m[b].payload_size <= e /\ e <= Limit /\ e \in Nat
  BY BlockFacts DEF HeapOf
<1>2. PICK h \in Nat, p \in Nat : h = HEADER /\ p = m[b].payload_size BY <1>0, <1>1
<1>3. /\ h \in Int /\ p \in Int /\ size \in Int /\ b \in Int /\ b + h \in Int /\ p - size \in Int
      /\ Al(h) /\ Al(p) /\ Al(b)
  BY <1>0, <1>1, <1>2
<1>4. Al(b + h) /\ Al(p - size) BY <1>3, AlLemma
<1>5. Al((b + h) + size) /\ Al((p - size) - h) BY <1>3, <1>4, AlLemma
<1>6. PICK n \in Nat : n = b + h + size /\ Al(n) /\ n > b /\ n < b + h + p /\ n < Limit
  BY <1>0, <1>1, <1>2, <1>5
<1>7. n \in Addr BY <1>6, AddrLemma
<1>8. n \notin Heads(m)
  <2> SUFFICES ASSUME n \in Heads(m) PROVE FALSE OBVIOUS
  <2>1. BLOCK_END(m, b) <= n BY <1>6 DEF HeapOf, Apart
  <2>2. BLOCK_END(m, b) = b + h + p BY <1>2, BlockFacts
  <2> QED BY <1>1, <1>6, <2>1, <2>2
<1>9. p - size - h \in Nat BY <1>2
<1>10. (b + h) + size = b + HEADER + size /\ (p - size) - h = m[b].payload_size - size - HEADER BY <1>1, <1>2
<1>11. n = b + HEADER + size /\ n # 0 BY <1>1, <1>2, <1>6
<1> QED BY <1>2, <1>5, <1>7, <1>8, <1>9, <1>10, <1>11

(* Cutting a block leaves a heap.                                          *)
LEMMA CutLemma ==
  ASSUME NEW m, NEW e, HeapOf(m, e), NEW b \in Heads(m), NEW size \in Nat, size > 0, Al(size),
         m[b].payload_size > size + HEADER, NEW n, n = b + HEADER + size,
         NEW m2, Cut(m, b, n, size, m2)
  PROVE  HeapOf(m2, e) /\ Heads(m2) = Heads(m) \cup {n}
<1>0. HEADER \in Nat /\ HEADER > 0 /\ Al(HEADER) /\ Null \notin Addr BY HeapSizes
<1>1. /\ n \in Addr /\ n \notin Heads(m) /\ n # 0
      /\ m[b].payload_size - size - HEADER \in Nat /\ Al(m[b].payload_size - size - HEADER)
  BY CutPlace
<1>2. /\ b \in Addr /\ b \in Nat /\ m[b].payload_size \in Nat /\ m[b].next \in Link
      /\ m \in Headers /\ m2 \in Headers
      /\ BLOCK_END(m, b) = b + HEADER + m[b].payload_size
  BY BlockFacts DEF HeapOf, Cut
<1>3. n \in Nat /\ n > b BY <1>0, <1>2
<1>4. /\ m2[b].payload_size = size /\ m2[n].payload_size = m[b].payload_size - size - HEADER
      /\ \A a \in Addr \ {b, n} : m2[a].payload_size = m[a].payload_size
  BY <1>1, <1>2, <1>3 DEF Cut
<1>5. m2[n].payload_size > 0 BY <1>0, <1>2, <1>4
<1>6. Heads(m2) = Heads(m) \cup {n}
  <2>0. m[b].payload_size > 0 BY BlockFacts
  <2>1. ASSUME NEW a \in Addr PROVE m2[a].payload_size > 0 <=> (m[a].payload_size > 0 \/ a = n)
    <3>1. CASE a = b BY <1>4, <2>0, <3>1
    <3>2. CASE a = n BY <1>5, <3>2
    <3>3. CASE a # b /\ a # n BY <1>4, <3>3
    <3> QED BY <3>1, <3>2, <3>3
  <2> QED BY <1>1, <2>1 DEF Heads
<1>7. m[b].next # Null => m[b].next \in Heads(m) /\ BLOCK_END(m, b) = m[b].next /\ m[m[b].next].prev = b
  BY BlockFacts
<1>8. /\ BLOCK_END(m2, b) = n /\ BLOCK_END(m2, n) = BLOCK_END(m, b)
      /\ \A a \in Addr \ {b, n} : BLOCK_END(m2, a) = BLOCK_END(m, a)
  <2>1. BLOCK_END(m2, b) = n BY <1>4 DEF BLOCK_END
  <2>2. BLOCK_END(m2, n) = BLOCK_END(m, b) BY <1>0, <1>2, <1>4 DEF BLOCK_END
  <2>3. \A a \in Addr \ {b, n} : BLOCK_END(m2, a) = BLOCK_END(m, a) BY <1>4 DEF BLOCK_END
  <2> QED BY <2>1, <2>2, <2>3
<1>9. n < BLOCK_END(m, b) /\ BLOCK_END(m, b) \in Nat BY <1>0, <1>2
<1>10. 0 \in Heads(m2) /\ m2[0].prev = Null
  <2>1. 0 \in Heads(m) /\ m[0].prev = Null /\ 0 \in Addr BY DEF HeapOf, Heads
  <2>2. m[b].next # 0 BY <1>0, <1>7, <2>1, <1>2
  <2> QED BY <1>1, <1>6, <2>1, <2>2 DEF Cut
<1>11. Apart(m2)
  <2> SUFFICES ASSUME NEW x \in Heads(m2), NEW y \in Heads(m2), x < y PROVE BLOCK_END(m2, x) <= y
    BY DEF Apart
  <2>1. x \in Addr /\ y \in Addr /\ x \in Nat /\ y \in Nat BY AddrLemma DEF Heads
  <2>2. x # n => x \in Heads(m) BY <1>6
  <2>3. y # n => y \in Heads(m) BY <1>6
  <2>4. CASE x = b
    <3>1. CASE y = n BY <1>3, <1>8, <2>4, <3>1
    <3>2. CASE y # n
      <4>1. BLOCK_END(m, b) <= y BY <2>3, <2>4, <3>2 DEF HeapOf, Apart
      <4> QED BY <1>3, <1>8, <1>9, <2>1, <2>4, <4>1
    <3> QED BY <3>1, <3>2
  <2>5. CASE x = n
    <3>1. y # n /\ y > b BY <1>2, <1>3, <2>1, <2>5
    <3>2. BLOCK_END(m, b) <= y BY <2>3, <3>1 DEF HeapOf, Apart
    <3> QED BY <1>8, <2>5, <3>2
  <2>6. CASE x # b /\ x # n
    <3>1. CASE y # n
      <4>1. BLOCK_END(m, x) <= y BY <2>2, <2>3, <2>6, <3>1 DEF HeapOf, Apart
      <4> QED BY <1>8, <2>1, <2>6, <4>1
    <3>2. CASE y = n
      <4>1. x < b
        <5> SUFFICES ASSUME b < x PROVE FALSE BY <1>2, <2>1, <2>6
        <5>1. BLOCK_END(m, b) <= x BY <2>2, <2>6 DEF HeapOf, Apart
        <5> QED BY <1>9, <1>3, <2>1, <3>2, <5>1
      <4>2. BLOCK_END(m, x) <= b BY <2>2, <2>6, <4>1 DEF HeapOf, Apart
      <4>3. BLOCK_END(m, x) \in Nat BY <1>0, <2>2, <2>6, BlockFacts
      <4> QED BY <1>2, <1>3, <1>8, <2>1, <2>6, <3>2, <4>2, <4>3
    <3> QED BY <3>1, <3>2
  <2> QED BY <2>4, <2>5, <2>6
<1>12. ASSUME NEW a \in Heads(m2) PROVE BlockOK(m2, e, a)
  <2>1. a \in Addr /\ (a # n => a \in Heads(m)) /\ e \in Nat /\ BLOCK_END(m, b) <= e
    BY <1>6, BlockFacts DEF Heads, HeapOf
  <2>2. Al(m2[a].payload_size) BY <1>1, <1>4, <2>1, BlockFacts
  <2>3. BLOCK_END(m2, a) <= e
    <3>1. CASE a = b BY <1>3, <1>8, <1>9, <2>1, <3>1
    <3>2. CASE a = n BY <1>8, <2>1, <3>2
    <3>3. CASE a # b /\ a # n BY <1>8, <2>1, <3>3, BlockFacts
    <3> QED BY <3>1, <3>2, <3>3
  <2>4. m2[a].next = IF a = b THEN n ELSE IF a = n THEN m[b].next ELSE m[a].next BY <2>1 DEF Cut
  <2>5. m2[a].prev = IF a = n THEN b ELSE IF a = m[b].next THEN n ELSE m[a].prev BY <2>1 DEF Cut
  <2>6. ASSUME m2[a].next = Null PROVE BLOCK_END(m2, a) = e
    <3>1. a # b BY <1>0, <1>1, <2>4, <2>6
    <3>2. CASE a = n
      <4>1. m[b].next = Null BY <2>4, <2>6, <3>1, <3>2
      <4>2. BLOCK_END(m, b) = e BY <4>1, BlockFacts
      <4> QED BY <1>8, <3>2, <4>2
    <3>3. CASE a # n BY <1>8, <2>1, <2>4, <2>6, <3>1, <3>3, BlockFacts
    <3> QED BY <3>2, <3>3
  <2>7. ASSUME m2[a].next # Null
        PROVE  m2[a].next \in Heads(m2) /\ BLOCK_END(m2, a) = m2[a].next /\ m2[m2[a].next].prev = a
    <3>1. CASE a = b
      <4>1. m2[a].next = n BY <2>4, <3>1
      <4>2. m2[n].prev = b BY <1>1 DEF Cut
      <4> QED BY <1>6, <1>8, <3>1, <4>1, <4>2
    <3>2. CASE a = n
      <4>1. PICK k : k = m[b].next /\ m2[a].next = k BY <1>3, <2>4, <3>2
      <4>2. k \in Heads(m) /\ BLOCK_END(m, b) = k BY <1>7, <2>7, <4>1
      <4>3. k # n /\ k \in Addr BY <1>1, <4>2 DEF Heads
      <4>4. m2[k].prev = n BY <4>1, <4>3 DEF Cut
      <4> QED BY <1>6, <1>8, <3>2, <4>1, <4>2, <4>4
    <3>3. CASE a # b /\ a # n
      <4>1. PICK k : k = m[a].next /\ m2[a].next = k BY <2>4, <3>3
      <4>2. k \in Heads(m) /\ BLOCK_END(m, a) = k /\ m[k].prev = a BY <2>1, <2>7, <3>3, <4>1, BlockFacts
      <4>3. k # n /\ k \in Addr BY <1>1, <4>2 DEF Heads
      <4>4. k # m[b].next BY <1>0, <1>7, <3>3, <4>2, <4>3
      <4>5. m2[k].prev = a BY <4>2, <4>3, <4>4 DEF Cut
      <4> QED BY <1>6, <1>8, <2>1, <3>3, <4>1, <4>2, <4>5
    <3> QED BY <3>1, <3>2, <3>3
  <2>8. ASSUME a # 0 PROVE m2[a].prev \in Heads(m2) /\ m2[m2[a].prev].next = a
    <3>1. CASE a = n
      <4>1. m2[a].prev = b /\ m2[b].next = n BY <1>2, <2>5, <3>1 DEF Cut
      <4> QED BY <1>6, <3>1, <4>1
    <3>2. CASE a = m[b].next /\ a # n
      <4>1. m2[a].prev = n /\ m2[n].next = a BY <1>1, <1>3, <2>5, <3>2 DEF Cut
      <4> QED BY <1>6, <4>1
    <3>3. CASE a # m[b].next /\ a # n
      <4>1. PICK k : k = m[a].prev /\ m2[a].prev = k BY <2>5, <3>3
      <4>2. k \in Heads(m) /\ m[k].next = a BY <2>1, <2>8, <3>3, <4>1, BlockFacts
      <4>3. k # b /\ k # n /\ k \in Addr BY <1>1, <3>3, <4>2 DEF Heads
      <4>4. m2[k].next = a BY <4>2, <4>3 DEF Cut
      <4> QED BY <1>6, <4>1, <4>2, <4>4
    <3> QED BY <3>1, <3>2, <3>3
  <2> QED BY <2>2, <2>3, <2>6, <2>7, <2>8 DEF BlockOK
<1>13. e \in Nat /\ e <= Limit /\ Al(e) BY DEF HeapOf
<1> QED BY <1>2, <1>6, <1>10, <1>11, <1>12, <1>13 DEF HeapOf

(* A heap has a last block, and only one.                                  *)
LEMMA LastLemma ==
  ASSUME NEW m, NEW e, HeapOf(m, e)
  PROVE  \E l \in Heads(m) : m[l].next = Null /\ \A b \in Heads(m) : m[b].next = Null => b = l
<1>0. HEADER \in Nat /\ HEADER > 0 /\ Limit \in Nat BY HeapSizes
<1> DEFINE S == {Limit - a : a \in Heads(m)}
<1>1. S \in SUBSET Nat /\ S # {}
  <2>1. \A a \in Heads(m) : Limit - a \in Nat BY <1>0, BlockFacts
  <2>2. 0 \in Heads(m) BY DEF HeapOf
  <2> QED BY <2>1, <2>2
<1>2. PICK x \in S : \A y \in S : x <= y
  <2> HIDE DEF S
  <2> QED BY <1>1, MinLemma
<1>3. PICK l \in Heads(m) : x = Limit - l BY <1>2
<1>4. \A b \in Heads(m) : b <= l
  <2> SUFFICES ASSUME NEW b \in Heads(m) PROVE b <= l OBVIOUS
  <2>1. Limit - b \in S OBVIOUS
  <2>2. Limit - l <= Limit - b BY <1>2, <1>3, <2>1
  <2>3. b \in Nat /\ l \in Nat BY BlockFacts
  <2> HIDE DEF S
  <2> QED BY <1>0, <2>2, <2>3
<1>5. m[l].next = Null
  <2> SUFFICES ASSUME m[l].next # Null PROVE FALSE OBVIOUS
  <2>1. m[l].next \in Heads(m) /\ m[l].next = l + HEADER + m[l].payload_size BY BlockFacts
  <2>2. m[l].next <= l BY <1>4, <2>1
  <2>3. l \in Nat /\ m[l].payload_size \in Nat BY BlockFacts
  <2> HIDE DEF S
  <2> QED BY <1>0, <2>1, <2>2, <2>3
<1>6. ASSUME NEW b \in Heads(m), m[b].next = Null PROVE b = l
  <2>1. b <= l BY <1>4
  <2>2. b \in Nat /\ l \in Nat /\ m[l].payload_size \in Nat BY BlockFacts
  <2>3. BLOCK_END(m, b) = e /\ l + HEADER + m[l].payload_size <= e /\ e \in Nat BY <1>6, BlockFacts DEF HeapOf
  <2>4. CASE b < l
    <3>1. e <= l BY <2>3, <2>4 DEF HeapOf, Apart
    <3> HIDE DEF S
    <3> QED BY <1>0, <2>2, <2>3, <3>1
  <2> HIDE DEF S
  <2> QED BY <2>1, <2>2, <2>4
<1> QED BY <1>5, <1>6

(* The walk of find_free_block and find_last_block goes along next.        *)
LEMMA WalkLemma ==
  ASSUME HeapOf(mem, end)
  PROVE  /\ Cardinality(Addr) \in Nat /\ IsFiniteSet(Addr)
         /\ DOMAIN Walk = 0 .. Cardinality(Addr) /\ Walk[0] = 0
         /\ \A k \in 1 .. Cardinality(Addr) :
              Walk[k] = IF Walk[k - 1] \in Addr THEN mem[Walk[k - 1]].next ELSE Null
         /\ \A k \in 0 .. Cardinality(Addr) : Walk[k] \in Heads(mem) \cup {Null}
<1> DEFINE N == Cardinality(Addr)
<1>0. N \in Nat /\ IsFiniteSet(Addr)
  <2>1. PICK l \in Nat : l = Limit BY HeapSizes
  <2>2. IsFiniteSet(0 .. l - 1) BY FS_Interval
  <2>3. Addr \subseteq 0 .. l - 1 BY <2>1, AddrLemma
  <2>4. IsFiniteSet(Addr) BY <2>2, <2>3, FS_Subset
  <2> QED BY <2>4, FS_CardinalityType
<1> DEFINE next(a) == IF a \in Addr THEN mem[a].next ELSE Null
           Good == Heads(mem) \cup {Null}
           Steps(f, n) == f[0] = 0 /\ \A k \in 1 .. n : f[k] = next(f[k - 1])
           G == {n \in 0 .. N : \E f \in [0 .. n -> Good] : Steps(f, n)}
<1>1. 0 \in G
  <2>1. 0 \in Good BY DEF HeapOf
  <2>2. [k \in 0 .. 0 |-> 0] \in [0 .. 0 -> Good] BY <2>1
  <2>3. Steps([k \in 0 .. 0 |-> 0], 0) OBVIOUS
  <2>4. 0 \in 0 .. N BY <1>0
  <2> HIDE DEF Steps, Good, N
  <2> QED BY <2>2, <2>3, <2>4
<1>2. \A a \in Good : next(a) \in Good
  <2> SUFFICES ASSUME NEW a \in Good PROVE next(a) \in Good OBVIOUS
  <2>1. CASE a \in Addr
    <3>1. a \in Heads(mem) BY <2>1, HeapSizes
    <3>2. mem[a].next = Null \/ mem[a].next \in Heads(mem) BY <3>1, BlockFacts
    <3> QED BY <2>1, <3>2
  <2> QED BY <2>1
<1>3. \A n \in 0 .. N - 1 : n \in G => n + 1 \in G
  <2> SUFFICES ASSUME NEW n \in 0 .. N - 1, NEW f \in [0 .. n -> Good], Steps(f, n)
               PROVE  n + 1 \in G
    OBVIOUS
  <2> DEFINE g == [k \in 0 .. n + 1 |-> IF k = n + 1 THEN next(f[n]) ELSE f[k]]
  <2> HIDE DEF next, Good, N
  <2>1. f[n] \in Good OBVIOUS
  <2>2. g \in [0 .. n + 1 -> Good] BY <1>2, <2>1
  <2>3. g[0] = 0 BY <1>0
  <2>4. ASSUME NEW k \in 1 .. n + 1 PROVE g[k] = next(g[k - 1])
    <3>1. CASE k = n + 1
      <4>1. g[k] = next(f[n]) /\ g[k - 1] = f[n] BY <3>1
      <4> QED BY <4>1
    <3>2. CASE k \in 1 .. n
      <4>1. g[k] = f[k] /\ g[k - 1] = f[k - 1] BY <3>2
      <4> QED BY <3>2, <4>1
    <3> QED BY <3>1, <3>2
  <2>5. n + 1 \in 0 .. N BY <1>0
  <2> HIDE DEF g
  <2> QED BY <2>2, <2>3, <2>4, <2>5
<1>4. PICK f \in [0 .. N -> Good] : Steps(f, N)
  <2> HIDE DEF G, N
  <2>1. 0 .. N \subseteq G BY <1>0, <1>1, <1>3, IntervalInduction
  <2>2. N \in G BY <1>0, <2>1
  <2> QED BY <2>2 DEF G
<1> DEFINE Rec(h) == h = [k \in 0 .. N |-> IF k = 0 THEN 0
    ELSE IF h[k - 1] \in Addr THEN mem[h[k - 1]].next ELSE Null]
<1>5. Rec(f)
  <2>1. \A k \in 0 .. N : f[k] = IF k = 0 THEN 0 ELSE IF f[k - 1] \in Addr THEN mem[f[k - 1]].next ELSE Null
    <3> SUFFICES ASSUME NEW k \in 0 .. N
                 PROVE  f[k] = IF k = 0 THEN 0 ELSE IF f[k - 1] \in Addr THEN mem[f[k - 1]].next ELSE Null
      OBVIOUS
    <3>1. CASE k = 0 BY <1>4, <3>1
    <3>2. CASE k # 0
      <4>1. k \in 1 .. N BY <1>0, <3>2
      <4> QED BY <1>4, <3>2, <4>1
    <3> QED BY <3>1, <3>2
  <2> QED BY <1>4, <2>1
<1>6. Walk = CHOOSE h : Rec(h) BY DEF Walk
<1>7. Rec(Walk)
  <2> HIDE DEF Rec
  <2> QED BY <1>5, <1>6
<1> DEFINE w == Walk
<1>8. w = [k \in 0 .. N |-> IF k = 0 THEN 0 ELSE IF w[k - 1] \in Addr THEN mem[w[k - 1]].next ELSE Null]
  BY <1>7
<1> HIDE DEF w, N, Rec
<1>9. DOMAIN w = 0 .. N /\ w[0] = 0 BY <1>0, <1>8
<1>10. \A k \in 1 .. N : w[k] = IF w[k - 1] \in Addr THEN mem[w[k - 1]].next ELSE Null BY <1>0, <1>8
<1> DEFINE E == {k \in 0 .. N : w[k] \in Good}
<1>11. 0 \in E BY <1>0, <1>9 DEF HeapOf
<1>12. \A k \in 0 .. N - 1 : k \in E => k + 1 \in E
  <2> SUFFICES ASSUME NEW k \in 0 .. N - 1, w[k] \in Good PROVE k + 1 \in E OBVIOUS
  <2>1. k + 1 \in 1 .. N /\ k + 1 \in 0 .. N /\ (k + 1) - 1 = k BY <1>0
  <2>2. w[k + 1] = next(w[k]) BY <1>10, <2>1
  <2>3. next(w[k]) \in Good BY <1>2
  <2> HIDE DEF next, Good
  <2> QED BY <2>1, <2>2, <2>3
<1>13. 0 .. N \subseteq E
  <2> HIDE DEF E
  <2> QED BY <1>0, <1>11, <1>12, IntervalInduction
<1>14. \A k \in 0 .. N : w[k] \in Heads(mem) \cup {Null} BY <1>13
<1> QED BY <1>0, <1>9, <1>10, <1>14 DEF w, N

(* The walk meets every block: it goes upwards, from a block below another *)
(* to one that is not above it, and there are no more blocks than steps.   *)
LEMMA BlocksLemma ==
  ASSUME HeapOf(mem, end)
  PROVE  Blocks = Heads(mem)
<1> DEFINE N == Cardinality(Addr)
           w == Walk
<1>1. /\ N \in Nat /\ IsFiniteSet(Addr) /\ DOMAIN w = 0 .. N /\ w[0] = 0
      /\ \A k \in 1 .. N : w[k] = IF w[k - 1] \in Addr THEN mem[w[k - 1]].next ELSE Null
      /\ \A k \in 0 .. N : w[k] \in Heads(mem) \cup {Null}
  BY WalkLemma
<1>2. Blocks = {w[k] : k \in 0 .. N} \ {Null} BY <1>1 DEF Blocks
<1>3. Null \notin Heads(mem) BY HeapSizes DEF Heads
<1> HIDE DEF w, N
<1>4. ASSUME NEW b \in Heads(mem), \A k \in 0 .. N : w[k] # b PROVE FALSE
  <2>0. HEADER \in Nat /\ HEADER > 0 BY HeapSizes
  <2>1. b \in Nat /\ b < BLOCK_END(mem, b) /\ BLOCK_END(mem, b) <= end /\ BLOCK_END(mem, b) \in Nat
      /\ end \in Nat
    BY <2>0, BlockFacts DEF HeapOf
  <2> DEFINE G == {k \in 0 .. N : w[k] \in Heads(mem) /\ w[k] < b /\ \A i \in 0 .. k - 1 : w[i] < w[k]}
  <2>2. 0 \in G
    <3>1. 0 \in Heads(mem) BY DEF HeapOf
    <3>2. b # 0 BY <1>1, <1>4
    <3>3. 0 \in 0 .. N /\ 0 < b /\ \A i \in 0 .. 0 - 1 : FALSE BY <1>1, <2>1, <3>2
    <3> QED BY <1>1, <3>1, <3>3
  <2>3. \A k \in 0 .. N - 1 : k \in G => k + 1 \in G
    <3> SUFFICES ASSUME NEW k \in 0 .. N - 1, k \in G PROVE k + 1 \in G OBVIOUS
    <3>1. k + 1 \in 1 .. N /\ k + 1 \in 0 .. N /\ (k + 1) - 1 = k /\ k \in Nat BY <1>1
    <3>2. PICK a \in Heads(mem) : a = w[k] /\ a < b /\ \A i \in 0 .. k - 1 : w[i] < a OBVIOUS
    <3>3. a \in Addr /\ a \in Nat /\ BLOCK_END(mem, a) = a + HEADER + mem[a].payload_size
        /\ mem[a].payload_size \in Nat
      BY BlockFacts
    <3>4. w[k + 1] = mem[a].next BY <1>1, <3>1, <3>2, <3>3
    <3>5. BLOCK_END(mem, a) <= b BY <3>2 DEF HeapOf, Apart
    <3>6. mem[a].next # Null
      <4> SUFFICES ASSUME mem[a].next = Null PROVE FALSE OBVIOUS
      <4>1. BLOCK_END(mem, a) = end BY BlockFacts
      <4> HIDE DEF G
      <4> QED BY <2>1, <3>5, <4>1
    <3>7. PICK c \in Heads(mem) : c = w[k + 1] /\ c = BLOCK_END(mem, a) BY <3>4, <3>6, BlockFacts
    <3>8. c # b BY <1>4, <3>1, <3>7
    <3>9. c \in Nat /\ c < b /\ a < c
      <4>1. c \in Nat /\ c <= b /\ c = a + HEADER + mem[a].payload_size BY <3>3, <3>5, <3>7, BlockFacts
      <4> HIDE DEF G
      <4> QED BY <2>0, <2>1, <3>3, <3>8, <4>1
    <3>10. ASSUME NEW i \in 0 .. (k + 1) - 1 PROVE w[i] < c
      <4>1. CASE i = k BY <3>2, <3>9, <4>1
      <4>2. CASE i # k
        <5>1. i \in 0 .. k - 1 /\ i \in 0 .. N BY <3>1, <4>2, <1>1
        <5>2. w[i] < a /\ w[i] \in Heads(mem) \cup {Null} BY <1>1, <3>2, <5>1
        <5>3. w[i] \in Int
          <6>0. \A z \in Heads(mem) : z \in Int
            <7> HIDE DEF G
            <7> QED BY BlockFacts
          <6>1. CASE w[i] \in Heads(mem) BY <6>0, <6>1
          <6>2. CASE w[i] = Null BY <6>2 DEF Null
          <6> QED BY <5>2, <6>1, <6>2
        <5> HIDE DEF G
        <5> QED BY <3>3, <3>9, <5>2, <5>3
      <4> QED BY <4>1, <4>2
    <3> QED BY <3>1, <3>7, <3>9, <3>10
  <2>4. 0 .. N \subseteq G
    <3> HIDE DEF G
    <3> QED BY <1>1, <2>2, <2>3, IntervalInduction
  <2>5. \A x, y \in 0 .. N : x < y => w[x] < w[y]
    <3> SUFFICES ASSUME NEW x \in 0 .. N, NEW y \in 0 .. N, x < y PROVE w[x] < w[y] OBVIOUS
    <3>1. y \in G /\ x \in 0 .. y - 1 BY <1>1, <2>4
    <3> QED BY <3>1
  <2>6. \A x \in 0 .. N : w[x] \in Addr /\ w[x] \in Nat
    <3> SUFFICES ASSUME NEW x \in 0 .. N PROVE w[x] \in Addr /\ w[x] \in Nat OBVIOUS
    <3>1. w[x] \in Heads(mem) BY <2>4
    <3> QED BY <3>1, BlockFacts
  <2> HIDE DEF G
  <2> DEFINE D == 0 .. N
             v == [x \in D |-> w[x]]
  <2>7. IsFiniteSet(D) /\ v \in [D -> Addr] /\ Cardinality(Addr) < Cardinality(D)
    <3>1. IsFiniteSet(0 .. N) /\ Cardinality(0 .. N) = N + 1 BY <1>1, FS_Interval
    <3>2. N < N + 1 BY <1>1
    <3> QED BY <2>6, <3>1, <3>2 DEF N
  <2>8. \E x, y \in D : x # y /\ v[x] = v[y]
    <3>1. IsFiniteSet(Addr) BY <1>1
    <3> HIDE DEF D, v
    <3> QED BY ONLY <2>7, <3>1, FS_PigeonHole
  <2>9. PICK x \in 0 .. N, y \in 0 .. N : x # y /\ w[x] = w[y] BY <2>8
  <2>10. w[x] \in Nat /\ w[y] \in Nat BY <2>6
  <2>11. x < y \/ y < x BY <1>1, <2>9
  <2> QED BY <2>5, <2>9, <2>10, <2>11
<1> QED BY <1>1, <1>2, <1>3, <1>4

(* align_up, and what makes a block large enough to be cut.                *)
LEMMA AlignUp ==
  ASSUME NEW n \in Nat
  PROVE  align_up(n) \in Nat /\ align_up(n) >= n /\ Al(align_up(n))
<1>1. HEAP_ALIGN_SIZE \in Nat /\ HEAP_ALIGN_SIZE > 0 BY HeapSizes
<1>2. PICK d \in Nat : d = HEAP_ALIGN_SIZE /\ d > 0 BY <1>1
<1>3. PICK q \in Nat : q = (n + d - 1) \div d /\ q * d \in Nat /\ q * d >= n BY <1>2, RoundUp
<1>4. align_up(n) = q * d BY <1>2, <1>3 DEF align_up
<1>5. (q * d) % d = 0 BY <1>2, MulMod
<1> QED BY <1>2, <1>3, <1>4, <1>5 DEF Al

(* split_block cuts a block.                                               *)
LEMMA SplitLemma ==
  ASSUME NEW m, NEW e, HeapOf(m, e), NEW b \in Heads(m), NEW size \in Nat, size > 0, Al(size),
         splits(m, b, size)
  PROVE  /\ m[b].payload_size > size + HEADER
         /\ Cut(m, b, b + HEADER + size, size, split_block(m, b, size))
<1>0. HEADER \in Nat /\ HEADER > 0 /\ Null \notin Addr BY HeapSizes
<1>1. /\ b \in Addr /\ b \in Nat /\ m[b].payload_size \in Nat /\ m[b].next \in Link /\ m \in Headers
         /\ m[b] \in Header
  BY BlockFacts, HeaderFields DEF HeapOf
<1>2. HEAP_BLOCK_MIN_SIZE \in Nat /\ HEAP_BLOCK_MIN_SIZE > HEADER
  <2>1. PICK h \in Nat : h = HEADER + 1 BY <1>0
  <2>2. align_up(h) \in Nat /\ align_up(h) >= h BY AlignUp
  <2> QED BY <1>0, <2>1, <2>2 DEF HEAP_BLOCK_MIN_SIZE
<1>3. m[b].payload_size > size + HEADER BY <1>0, <1>1, <1>2 DEF splits
<1>4. PICK n \in Addr : n = b + HEADER + size /\ n \notin Heads(m) /\ n # b
    /\ m[b].payload_size - size - HEADER \in Nat
  BY <1>0, <1>1, <1>3, CutPlace
<1>5. PICK p \in Nat : p = m[b].payload_size - size - HEADER BY <1>4
<1>6. PICK R \in Header : R = [payload_size |-> p, next |-> m[b].next, prev |-> b, free |-> TRUE]
  BY <1>1, <1>5 DEF Header, Link
<1>7. PICK C \in Header : C = [m[b] EXCEPT !.payload_size = size, !.next = n]
  BY <1>1, <1>4 DEF Header, Link
<1>8. PICK s : s = [m EXCEPT ![n] = R, ![b].payload_size = size, ![b].next = n] OBVIOUS
<1>9. s \in Headers /\ s[n] = R /\ s[b] = C /\ \A a \in Addr \ {n, b} : s[a] = m[a]
  BY <1>1, <1>4, <1>6, <1>7, <1>8 DEF Headers
<1>10. R.payload_size = p /\ R.next = m[b].next /\ R.prev = b /\ R.free = TRUE BY <1>6
<1>11. C.payload_size = size /\ C.next = n /\ C.prev = m[b].prev /\ C.free = m[b].free
  BY <1>1, <1>7 DEF Header
<1>12. split_block(m, b, size) = IF m[b].next = Null THEN s ELSE [s EXCEPT ![m[b].next].prev = n]
  BY <1>4, <1>5, <1>6, <1>8 DEF split_block
<1>13. CASE m[b].next = Null
  <2>1. split_block(m, b, size) = s BY <1>12, <1>13
  <2> QED BY <1>0, <1>3, <1>4, <1>5, <1>9, <1>10, <1>11, <1>13, <2>1 DEF Cut
<1>14. CASE m[b].next # Null
  <2>1. PICK k \in Addr : k = m[b].next /\ k # n /\ k # b
    <3>1. m[b].next \in Heads(m) /\ m[b].next = b + HEADER + m[b].payload_size BY <1>14, BlockFacts
    <3> QED BY <1>0, <1>1, <1>4, <3>1 DEF Heads
  <2>2. PICK K \in Header : K = [m[k] EXCEPT !.prev = n]
    <3>1. m[k] \in Header BY <1>1, HeaderFields
    <3> QED BY <1>4, <3>1 DEF Header, Link
  <2>3. PICK t : t = [s EXCEPT ![k].prev = n] OBVIOUS
  <2>4. t \in Headers /\ t[k] = K /\ \A a \in Addr \ {k} : t[a] = s[a]
    BY <1>9, <2>1, <2>2, <2>3 DEF Headers
  <2>5. K.payload_size = m[k].payload_size /\ K.next = m[k].next /\ K.prev = n /\ K.free = m[k].free
    <3>1. m[k] \in Header BY <1>1, HeaderFields
    <3> QED BY <2>2, <3>1 DEF Header
  <2>6. split_block(m, b, size) = t BY <1>12, <1>14, <2>1, <2>3
  <2>7. ASSUME NEW a \in Addr
        PROVE  /\ t[a].payload_size = IF a = b THEN size ELSE IF a = n THEN p ELSE m[a].payload_size
               /\ t[a].next = IF a = b THEN n ELSE IF a = n THEN k ELSE m[a].next
               /\ t[a].prev = IF a = n THEN b ELSE IF a = k THEN n ELSE m[a].prev
               /\ t[a].free = IF a = n THEN TRUE ELSE m[a].free
    <3>1. CASE a = b BY <1>1, <1>4, <1>9, <1>11, <2>1, <2>4, <3>1
    <3>2. CASE a = n BY <1>4, <1>9, <1>10, <2>1, <2>4, <3>2
    <3>3. CASE a = k BY <2>1, <2>4, <2>5, <3>3
    <3>4. CASE a \notin {b, n, k}
      <4>1. t[a] = m[a] BY <1>9, <2>4, <3>4
      <4> QED BY <3>4, <4>1
    <3> QED BY <3>1, <3>2, <3>3, <3>4
  <2>8. Cut(m, b, n, size, t) BY <1>5, <2>1, <2>4, <2>7 DEF Cut
  <2> QED BY <1>3, <1>4, <2>6, <2>8
<1> QED BY <1>3, <1>13, <1>14

(* The end of kmalloc: the block is in use and large enough, the others    *)
(* are what they were, and what is left of it is not followed by a free    *)
(* block.                                                                  *)
LEMMA TakeLemma ==
  ASSUME NEW m, NEW e, HeapOf(m, e), NoneFree(m, Addr, {}), NEW b \in Heads(m), m[b].free,
         NEW size \in Nat, size > 0, Al(size), m[b].payload_size >= size
  PROVE  /\ HeapOf(take(m, b, size), e) /\ NoneFree(take(m, b, size), Addr, {})
         /\ Used(take(m, b, size)) = Used(m) \cup {b}
         /\ take(m, b, size)[b].payload_size >= size
         /\ \A a \in Used(m) : take(m, b, size)[a].payload_size = m[a].payload_size
<1>0. HEADER \in Nat /\ HEADER > 0 /\ Null \notin Addr BY HeapSizes
<1>1. b \in Addr /\ b \in Nat /\ m \in Headers BY BlockFacts DEF HeapOf
<1>2. PICK s : s = IF splits(m, b, size) THEN split_block(m, b, size) ELSE m OBVIOUS
<1>3. /\ HeapOf(s, e) /\ b \in Heads(s) /\ s[b].payload_size >= size
      /\ \A a \in Heads(s) \ {b} : s[a].free /\ s[a].next # Null => (s[s[a].next].free => s[a].next = b)
      /\ \A a \in Heads(s) \ {b} : a \in Heads(m) \/ s[a].free
      /\ \A a \in Heads(m) \ {b} : a \in Heads(s) /\ s[a].free = m[a].free
         /\ s[a].payload_size = m[a].payload_size
  <2>1. CASE splits(m, b, size)
    <3>1. PICK n : n = b + HEADER + size OBVIOUS
    <3>2. s = split_block(m, b, size) BY <1>2, <2>1
    <3>3. m[b].payload_size > size + HEADER /\ Cut(m, b, n, size, s) BY <2>1, <3>1, <3>2, SplitLemma
    <3>4. HeapOf(s, e) /\ Heads(s) = Heads(m) \cup {n} BY <3>1, <3>3, CutLemma
    <3>5. n \in Addr /\ n \notin Heads(m) BY <3>1, <3>3, CutPlace
    <3>6. \A a \in Heads(m) \ {b} : s[a].next = m[a].next /\ s[a].free = m[a].free
        /\ s[a].payload_size = m[a].payload_size
      <4>1. Heads(m) \ {b} \subseteq Addr \ {n, b} BY <3>5 DEF Heads
      <4> QED BY <3>3, <4>1 DEF Cut
    <3>7. s[b].payload_size = size /\ s[n].free /\ s[n].next = m[b].next /\ n # b BY <1>1, <3>3, <3>5 DEF Cut
    <3>8. ASSUME NEW a \in Heads(s) \ {b}, s[a].free, s[a].next # Null, s[s[a].next].free PROVE s[a].next = b
      <4>1. CASE a = n
        <5>1. m[b].next # Null /\ m[b].next \in Heads(m) /\ s[a].next = m[b].next
          BY <3>7, <3>8, <4>1, BlockFacts
        <5>2. ~m[m[b].next].free BY <1>1, <5>1 DEF NoneFree
        <5>3. m[b].next # b BY <5>2
        <5>4. s[m[b].next].free = m[m[b].next].free BY <3>6, <5>1, <5>3
        <5> QED BY <3>8, <5>1, <5>2, <5>4
      <4>2. CASE a # n
        <5>1. a \in Heads(m) \ {b} BY <3>4, <4>2
        <5>2. m[a].free /\ m[a].next # Null /\ s[a].next = m[a].next BY <3>6, <3>8, <5>1
        <5>3. m[a].next \in Heads(m) /\ a \in Addr BY <5>1, <5>2, BlockFacts
        <5>4. ~m[m[a].next].free BY <5>1, <5>2, <5>3 DEF NoneFree
        <5>5. CASE m[a].next # b
          <6>1. s[m[a].next].free = m[m[a].next].free BY <3>6, <5>3, <5>5
          <6> QED BY <3>8, <5>2, <5>4, <6>1
        <5> QED BY <5>2, <5>5
      <4> QED BY <4>1, <4>2
    <3>9. b \in Heads(s) BY <3>4
    <3> QED BY <3>4, <3>5, <3>6, <3>7, <3>8, <3>9
  <2>2. CASE ~splits(m, b, size)
    <3>1. s = m BY <1>2, <2>2
    <3>2. ASSUME NEW a \in Heads(m), m[a].free, m[a].next # Null PROVE ~m[m[a].next].free
      <4>1. a \in Addr BY DEF Heads
      <4> QED BY <3>2, <4>1 DEF NoneFree
    <3> QED BY <3>1, <3>2
  <2> QED BY <2>1, <2>2
<1>4. PICK t : t = [s EXCEPT ![b].free = FALSE] OBVIOUS
<1>5. take(m, b, size) = t BY <1>2, <1>4 DEF take
<1>6. s \in Headers /\ s[b] \in Header BY <1>1, <1>3, HeaderFields DEF HeapOf
<1>7. PICK B \in Header : B = [s[b] EXCEPT !.free = FALSE] BY <1>6 DEF Header
<1>8. B.payload_size = s[b].payload_size /\ B.next = s[b].next /\ B.prev = s[b].prev /\ B.free = FALSE
  BY <1>6, <1>7 DEF Header
<1>9. t \in Headers /\ t[b] = B /\ \A a \in Addr \ {b} : t[a] = s[a] BY <1>1, <1>4, <1>6, <1>7 DEF Headers
<1>10. HeapOf(t, e) /\ Heads(t) = Heads(s)
  <2>1. \A a \in Addr : t[a].payload_size = s[a].payload_size /\ t[a].next = s[a].next
      /\ t[a].prev = s[a].prev
    BY <1>8, <1>9
  <2> QED BY <1>3, <1>9, <2>1, MarkLemma
<1>11. NoneFree(t, Addr, {})
  <2> SUFFICES ASSUME NEW a \in Addr \cap Heads(t), t[a].free, t[a].next # Null PROVE ~t[t[a].next].free
    BY DEF NoneFree
  <2>1. a # b /\ a \in Heads(s) /\ t[a] = s[a] BY <1>8, <1>9, <1>10
  <2>2. t[a].next \in Addr BY <1>10, BlockFacts DEF Heads
  <2>3. CASE s[a].next = b BY <1>8, <1>9, <2>1, <2>3
  <2>4. CASE s[a].next # b BY <1>3, <1>9, <2>1, <2>2, <2>4
  <2> QED BY <2>3, <2>4
<1>12. Used(t) = Used(m) \cup {b}
  <2>1. ASSUME NEW a PROVE a \in Used(t) <=> a \in Used(m) \cup {b}
    <3>1. CASE a = b BY <1>3, <1>8, <1>9, <1>10, <3>1 DEF Used
    <3>2. CASE a # b
      <4>1. a \in Heads(t) => t[a] = s[a] BY <1>9, <3>2 DEF Heads
      <4>2. a \in Used(t) <=> (a \in Heads(s) /\ ~s[a].free) BY <1>10, <4>1 DEF Used
      <4>3. a \in Heads(s) /\ ~s[a].free => a \in Heads(m) BY <1>3, <3>2
      <4>4. a \in Heads(m) => a \in Heads(s) /\ s[a].free = m[a].free BY <1>3, <3>2
      <4> QED BY <3>2, <4>2, <4>3, <4>4 DEF Used
    <3> QED BY <3>1, <3>2
  <2> QED BY <2>1
<1>13. ASSUME NEW a \in Used(m) PROVE t[a].payload_size = m[a].payload_size
  <2>1. a \in Heads(m) /\ a # b /\ a \in Addr BY DEF Used, Heads
  <2> QED BY <1>3, <1>9, <2>1
<1> QED BY <1>3, <1>5, <1>8, <1>9, <1>10, <1>11, <1>12, <1>13

(* The last block grows with the heap.                                     *)
LEMMA GrowLast ==
  ASSUME NEW m, NEW e, HeapOf(m, e), NEW l \in Heads(m), m[l].next = Null, 
         \A b \in Heads(m) : m[b].next = Null => b = l,
         NEW bytes \in Nat, Al(bytes), e + bytes <= Limit,
         NEW m2 \in Headers, m2[l].payload_size = m[l].payload_size + bytes,
         \A a \in Addr \ {l} : m2[a] = m[a],
         m2[l].next = m[l].next, m2[l].prev = m[l].prev
  PROVE  HeapOf(m2, e + bytes) /\ Heads(m2) = Heads(m)
<1>0. HEADER \in Nat /\ HEADER > 0 /\ Null \notin Addr BY HeapSizes
<1>1. /\ l \in Addr /\ l \in Nat /\ m[l].payload_size \in Nat /\ m[l].payload_size > 0
         /\ Al(m[l].payload_size)
      /\ e \in Nat /\ Al(e) /\ BLOCK_END(m, l) = e
  BY BlockFacts DEF HeapOf
<1>2. Heads(m2) = Heads(m)
  <2>1. m[l].payload_size + bytes > 0
    <3>1. PICK p \in Nat : p = m[l].payload_size BY <1>1
    <3> QED BY <1>1, <3>1
  <2>2. \A a \in Addr : m2[a].payload_size > 0 <=> m[a].payload_size > 0 BY <1>1, <2>1
  <2> QED BY <2>2 DEF Heads
<1>3. BLOCK_END(m2, l) = e + bytes /\ \A a \in Addr \ {l} : BLOCK_END(m2, a) = BLOCK_END(m, a)
  <2>1. BLOCK_END(m2, l) = e + bytes BY <1>0, <1>1 DEF BLOCK_END
  <2>2. \A a \in Addr \ {l} : BLOCK_END(m2, a) = BLOCK_END(m, a) BY DEF BLOCK_END
  <2> QED BY <2>1, <2>2
<1>4. Al(e + bytes) /\ Al(m2[l].payload_size)
  <2>1. PICK p \in Nat : p = m[l].payload_size BY <1>1
  <2>1a. p \in Int /\ e \in Int /\ bytes \in Int /\ Al(p) BY <1>1, <2>1
  <2>2. Al(p + bytes) /\ Al(e + bytes) BY <1>1, <2>1a, AlLemma
  <2> QED BY <2>1, <2>2
<1>5. Apart(m2)
  <2> SUFFICES ASSUME NEW x \in Heads(m), NEW y \in Heads(m), x < y PROVE BLOCK_END(m2, x) <= y
    BY <1>2 DEF Apart
  <2>1. x \in Addr /\ BLOCK_END(m, x) <= y BY DEF HeapOf, Apart, Heads
  <2>2. x # l
    <3> SUFFICES ASSUME x = l PROVE FALSE OBVIOUS
    <3>1. y \in Nat /\ y + HEADER + m[y].payload_size <= e /\ m[y].payload_size \in Nat BY BlockFacts
    <3> QED BY <1>0, <1>1, <2>1, <3>1
  <2> QED BY <1>3, <2>1, <2>2
<1>6. ASSUME NEW a \in Heads(m) PROVE BlockOK(m2, e + bytes, a)
  <2>1. a \in Addr /\ BLOCK_END(m, a) <= e /\ BLOCK_END(m, a) \in Nat BY <1>0, BlockFacts
  <2>2. m2[a].next = m[a].next /\ m2[a].prev = m[a].prev /\ (m[a].next # Null => m[a].next \in Addr)
      /\ (a # 0 => m[a].prev \in Addr)
    BY <2>1, BlockFacts DEF Heads
  <2>3. Al(m2[a].payload_size) /\ BLOCK_END(m2, a) <= e + bytes
    <3>1. CASE a = l BY <1>1, <1>3, <1>4, <3>1
    <3>2. CASE a # l BY <1>1, <1>3, <2>1, <3>2, BlockFacts
    <3> QED BY <3>1, <3>2
  <2>4. m[a].next = Null => BLOCK_END(m2, a) = e + bytes BY <1>3
  <2>5. m[a].next # Null => m[a].next \in Heads(m) /\ BLOCK_END(m2, a) = m[a].next /\ m2[m[a].next].prev = a
    <3> SUFFICES ASSUME m[a].next # Null
                 PROVE  m[a].next \in Heads(m) /\ BLOCK_END(m2, a) = m[a].next /\ m2[m[a].next].prev = a
      OBVIOUS
    <3>1. a # l OBVIOUS
    <3>2. PICK k \in Heads(m) : k = m[a].next /\ BLOCK_END(m, a) = k /\ m[k].prev = a BY BlockFacts
    <3>3. m2[k].prev = m[k].prev BY <3>2 DEF Heads
    <3> QED BY <1>3, <2>1, <3>1, <3>2, <3>3
  <2>6. a # 0 => m[a].prev \in Heads(m) /\ m2[m[a].prev].next = a
    <3> SUFFICES ASSUME a # 0 PROVE m[a].prev \in Heads(m) /\ m2[m[a].prev].next = a OBVIOUS
    <3>1. PICK k \in Heads(m) : k = m[a].prev /\ m[k].next = a BY BlockFacts
    <3>2. m2[k].next = m[k].next BY DEF Heads
    <3> QED BY <3>1, <3>2
  <2> QED BY <1>2, <2>2, <2>3, <2>4, <2>5, <2>6 DEF BlockOK
<1>7. 0 \in Heads(m2) /\ m2[0].prev = Null BY <1>2 DEF HeapOf, Heads
<1> QED BY <1>1, <1>2, <1>4, <1>5, <1>6, <1>7 DEF HeapOf

(* A free block is added behind the last one.                              *)
LEMMA AddLast ==
  ASSUME NEW m, NEW e, HeapOf(m, e), NEW l \in Heads(m), m[l].next = Null,
         \A b \in Heads(m) : m[b].next = Null => b = l,
         NEW bytes \in Nat, Al(bytes), bytes > HEADER, e + bytes <= Limit,
         NEW m2 \in Headers, m2[e].payload_size = bytes - HEADER, m2[e].next = Null, m2[e].prev = l,
         m2[l].payload_size = m[l].payload_size, m2[l].next = e, m2[l].prev = m[l].prev,
         \A a \in Addr \ {e, l} : m2[a] = m[a]
  PROVE  HeapOf(m2, e + bytes) /\ Heads(m2) = Heads(m) \cup {e} /\ e \in Addr /\ e \notin Heads(m)
<1>0. HEADER \in Nat /\ HEADER > 0 /\ Al(HEADER) /\ Null \notin Addr /\ Limit \in Nat BY HeapSizes
<1>1. /\ l \in Addr /\ l \in Nat /\ m[l].payload_size \in Nat /\ m[l].payload_size > 0
         /\ Al(m[l].payload_size)
      /\ e \in Nat /\ Al(e) /\ BLOCK_END(m, l) = e /\ e = l + HEADER + m[l].payload_size
  BY BlockFacts DEF HeapOf
<1>2. e \in Addr /\ e > l /\ e # 0
  <2>1. e < Limit /\ e > l BY <1>0, <1>1
  <2> QED BY <1>1, <2>1, AddrLemma
<1>3. \A a \in Heads(m) : a \in Addr /\ a \in Nat /\ BLOCK_END(m, a) \in Nat /\ a < BLOCK_END(m, a)
    /\ BLOCK_END(m, a) <= e
  <2> SUFFICES ASSUME NEW a \in Heads(m)
               PROVE  a \in Addr /\ a \in Nat /\ BLOCK_END(m, a) \in Nat /\ a < BLOCK_END(m, a)
                   /\ BLOCK_END(m, a) <= e
    OBVIOUS
  <2>1. /\ a \in Addr /\ a \in Nat /\ m[a].payload_size \in Nat
           /\ BLOCK_END(m, a) = a + HEADER + m[a].payload_size
        /\ BLOCK_END(m, a) <= e
    BY BlockFacts
  <2> QED BY <1>0, <2>1
<1>4. e \notin Heads(m)
  <2> SUFFICES ASSUME e \in Heads(m) PROVE FALSE OBVIOUS
  <2>1. e < BLOCK_END(m, e) /\ BLOCK_END(m, e) <= e /\ BLOCK_END(m, e) \in Nat BY <1>3
  <2> QED BY <1>1, <2>1
<1>5. Heads(m2) = Heads(m) \cup {e}
  <2>1. m2[e].payload_size > 0 BY <1>0
  <2>2. ASSUME NEW a \in Addr PROVE m2[a].payload_size > 0 <=> (m[a].payload_size > 0 \/ a = e)
    <3>1. CASE a = e BY <2>1, <3>1
    <3>2. CASE a # e BY <3>2
    <3> QED BY <3>1, <3>2
  <2> QED BY <1>2, <2>2 DEF Heads
<1>6. BLOCK_END(m2, e) = e + bytes /\ \A a \in Addr \ {e} : BLOCK_END(m2, a) = BLOCK_END(m, a)
  <2>1. BLOCK_END(m2, e) = e + bytes BY <1>0, <1>1 DEF BLOCK_END
  <2>2. \A a \in Addr \ {e} : m2[a].payload_size = m[a].payload_size OBVIOUS
  <2> QED BY <2>1, <2>2 DEF BLOCK_END
<1>7. Al(e + bytes) /\ Al(bytes - HEADER)
  <2>1. PICK h \in Nat : h = HEADER BY <1>0
  <2>2. Al(bytes - h) /\ Al(e + bytes) BY <1>0, <1>1, <2>1, AlLemma
  <2> QED BY <2>1, <2>2
<1>8. Apart(m2)
  <2> SUFFICES ASSUME NEW x \in Heads(m2), NEW y \in Heads(m2), x < y PROVE BLOCK_END(m2, x) <= y
    BY DEF Apart
  <2>1. x # e
    <3> SUFFICES ASSUME x = e PROVE FALSE OBVIOUS
    <3>1. y \in Heads(m) \/ y = e BY <1>5
    <3>2. CASE y \in Heads(m)
      <4>1. y < BLOCK_END(m, y) /\ BLOCK_END(m, y) <= e /\ y \in Nat /\ BLOCK_END(m, y) \in Nat BY <1>3, <3>2
      <4> QED BY <1>1, <4>1
    <3> QED BY <1>1, <3>1, <3>2
  <2>2. x \in Heads(m) /\ x \in Addr BY <1>3, <1>5, <2>1
  <2>3. CASE y = e BY <1>3, <1>6, <2>1, <2>2, <2>3
  <2>4. CASE y # e
    <3>1. y \in Heads(m) BY <1>5, <2>4
    <3>2. BLOCK_END(m, x) <= y BY <2>2, <3>1 DEF HeapOf, Apart
    <3> QED BY <1>6, <2>1, <2>2, <3>2
  <2> QED BY <2>3, <2>4
<1>9. BlockOK(m2, e + bytes, e)
  <2>1. l \in Heads(m2) /\ Al(m2[e].payload_size) BY <1>5, <1>7
  <2>2. BLOCK_END(m2, e) <= e + bytes BY <1>1, <1>6
  <2> QED BY <1>6, <2>1, <2>2 DEF BlockOK
<1>10. ASSUME NEW a \in Heads(m) PROVE BlockOK(m2, e + bytes, a)
  <2>1. a \in Addr /\ a # e /\ BLOCK_END(m2, a) = BLOCK_END(m, a) /\ BLOCK_END(m, a) <= e
      /\ BLOCK_END(m, a) \in Nat
    BY <1>3, <1>4, <1>6
  <2>2. Al(m2[a].payload_size) BY <1>1, <2>1, BlockFacts
  <2>3. BLOCK_END(m2, a) <= e + bytes BY <1>1, <2>1
  <2>4. m2[a].prev = m[a].prev BY <2>1
  <2>5. a # 0 => m2[a].prev \in Heads(m2) /\ m2[m2[a].prev].next = a
    <3> SUFFICES ASSUME a # 0 PROVE m2[a].prev \in Heads(m2) /\ m2[m2[a].prev].next = a OBVIOUS
    <3>1. PICK k \in Heads(m) : k = m[a].prev /\ m[k].next = a BY BlockFacts
    <3>2. k # l /\ k # e /\ k \in Addr BY <1>0, <1>3, <1>4, <2>1, <3>1
    <3> QED BY <1>5, <2>4, <3>1, <3>2
  <2>6. CASE a = l
    <3>1. m2[a].next = e /\ e # Null BY <1>0, <1>2, <2>6
    <3> QED BY <1>1, <1>5, <2>1, <2>2, <2>3, <2>5, <2>6, <3>1 DEF BlockOK
  <2>7. CASE a # l
    <3>1. PICK k \in Heads(m) : k = m[a].next /\ BLOCK_END(m, a) = k /\ m[k].prev = a BY <2>7, BlockFacts
    <3>2. k \in Addr /\ k # e /\ m2[a].next = k BY <1>3, <1>4, <2>1, <2>7, <3>1
    <3>3. m2[k].prev = m[k].prev BY <3>2
    <3>4. k # Null BY <1>0, <3>2
    <3> QED BY <1>5, <2>1, <2>2, <2>3, <2>5, <3>1, <3>2, <3>3, <3>4 DEF BlockOK
  <2> QED BY <2>6, <2>7
<1>11. 0 \in Heads(m2) /\ m2[0].prev = Null BY <1>2, <1>5 DEF HeapOf, Heads
<1> QED BY <1>1, <1>2, <1>4, <1>5, <1>7, <1>8, <1>9, <1>10, <1>11 DEF HeapOf

(* expand_heap: the heap ends higher, the blocks in use are what they      *)
(* were, and the block it returns is free and has the room asked for.      *)
LEMMA ExpandLemma ==
  ASSUME HeapOf(mem, end), NoneFree(mem, Addr, {}),
         NEW bytes \in Nat, Al(bytes), bytes > HEADER, end + bytes <= Limit
  PROVE  /\ HeapOf(expand_heap(bytes), end + bytes) /\ NoneFree(expand_heap(bytes), Addr, {})
         /\ expand_block \in Heads(expand_heap(bytes)) /\ expand_heap(bytes)[expand_block].free
         /\ expand_heap(bytes)[expand_block].payload_size >= bytes - HEADER
         /\ Used(expand_heap(bytes)) = Used(mem)
         /\ \A a \in Used(mem) : expand_heap(bytes)[a].payload_size = mem[a].payload_size
<1>0. HEADER \in Nat /\ HEADER > 0 /\ Null \notin Addr BY HeapSizes
<1>1. PICK l \in Heads(mem) : mem[l].next = Null /\ \A b \in Heads(mem) : mem[b].next = Null => b = l
  BY LastLemma
<1>2. find_last_block = l
  <2>1. Blocks = Heads(mem) BY BlocksLemma
  <2> QED BY <1>1, <2>1 DEF find_last_block
<1>3. /\ l \in Addr /\ mem \in Headers /\ mem[l] \in Header /\ mem[l].payload_size \in Nat
      /\ BLOCK_END(mem, l) = end /\ end \in Nat
  BY <1>1, BlockFacts, HeaderFields DEF HeapOf
<1>4. CASE mem[l].free
  <2>1. PICK t : t = [mem EXCEPT ![l].payload_size = @ + bytes] OBVIOUS
  <2>2. expand_heap(bytes) = t /\ expand_block = l BY <1>2, <1>4, <2>1 DEF expand_heap, expand_block
  <2>3. PICK L \in Header : L = [mem[l] EXCEPT !.payload_size = mem[l].payload_size + bytes]
    <3>1. PICK p \in Nat : p = mem[l].payload_size + bytes BY <1>3
    <3>2. [mem[l] EXCEPT !.payload_size = p] \in Header BY <1>3 DEF Header
    <3> QED BY <3>1, <3>2
  <2>4. t \in Headers /\ t[l] = L /\ \A a \in Addr \ {l} : t[a] = mem[a] BY <1>3, <2>1, <2>3 DEF Headers
  <2>5. /\ L.payload_size = mem[l].payload_size + bytes /\ L.next = mem[l].next /\ L.prev = mem[l].prev
        /\ L.free = mem[l].free
    BY <1>3, <2>3 DEF Header
  <2>6. HeapOf(t, end + bytes) /\ Heads(t) = Heads(mem) BY <1>1, <2>4, <2>5, GrowLast
  <2>7. NoneFree(t, Addr, {})
    <3>1. \A a \in Addr : t[a].free = mem[a].free /\ t[a].next = mem[a].next BY <2>4, <2>5
    <3>2. \A a \in Heads(mem) : mem[a].next # Null => mem[a].next \in Addr BY BlockFacts DEF Heads
    <3> QED BY <2>6, <3>1, <3>2 DEF NoneFree
  <2>8. Used(t) = Used(mem) BY <2>4, <2>5, <2>6 DEF Used, Heads
  <2>9. \A a \in Used(mem) : t[a].payload_size = mem[a].payload_size BY <1>4, <2>4 DEF Used, Heads
  <2>10. t[l].payload_size >= bytes - HEADER BY <1>0, <1>3, <2>4, <2>5
  <2> QED BY <1>4, <2>2, <2>4, <2>5, <2>6, <2>7, <2>8, <2>9, <2>10
<1>5. CASE ~mem[l].free
  <2>0. PICK N \in Header : N = [payload_size |-> bytes - HEADER, next |-> Null, prev |-> l, free |-> TRUE]
    <3>1. bytes - HEADER \in Nat BY <1>0
    <3> QED BY <1>3, <3>1 DEF Header, Link
  <2>1. PICK t : t = [mem EXCEPT ![end] = N, ![l].next = end] OBVIOUS
  <2>2. expand_heap(bytes) = t /\ expand_block = end
    BY <1>2, <1>3, <1>5, <2>0, <2>1 DEF expand_heap, expand_block
  <2>3. end \in Addr /\ end # l
    <3>1. end < Limit /\ Limit \in Nat BY <1>0, <1>3, HeapSizes
    <3>2. Al(end) BY DEF HeapOf
    <3>3. end = l + HEADER + mem[l].payload_size /\ l \in Nat BY <1>3, BlockFacts
    <3> QED BY <1>0, <1>3, <3>1, <3>2, <3>3, AddrLemma
  <2>4. PICK L \in Header : L = [mem[l] EXCEPT !.next = end] BY <1>3, <2>3 DEF Header, Link
  <2>5. t \in Headers /\ t[end] = N /\ t[l] = L /\ \A a \in Addr \ {end, l} : t[a] = mem[a]
    BY <1>3, <2>0, <2>1, <2>3, <2>4 DEF Headers
  <2>6. /\ L.payload_size = mem[l].payload_size /\ L.next = end /\ L.prev = mem[l].prev
           /\ L.free = mem[l].free
        /\ N.payload_size = bytes - HEADER /\ N.next = Null /\ N.prev = l /\ N.free = TRUE
    BY <1>3, <2>0, <2>4 DEF Header
  <2>7. HeapOf(t, end + bytes) /\ Heads(t) = Heads(mem) \cup {end} /\ end \notin Heads(mem)
    BY <1>1, <2>5, <2>6, AddLast
  <2>8. NoneFree(t, Addr, {})
    <3> SUFFICES ASSUME NEW a \in Addr, a \in Heads(t), t[a].free, t[a].next # Null PROVE ~t[t[a].next].free
      BY DEF NoneFree
    <3>1. a # l /\ a # end BY <1>5, <2>5, <2>6
    <3>2. a \in Heads(mem) /\ t[a] = mem[a] BY <2>5, <2>7, <3>1
    <3>3. mem[a].next \in Heads(mem) /\ ~mem[mem[a].next].free BY <3>2, BlockFacts DEF NoneFree
    <3>4. mem[a].next \in Addr /\ mem[a].next # end BY <2>7, <3>3 DEF Heads
    <3> QED BY <2>5, <2>6, <3>2, <3>3, <3>4
  <2>9. Used(t) = Used(mem)
    <3>1. ASSUME NEW a PROVE a \in Used(t) <=> a \in Used(mem)
      <4>1. CASE a = end BY <2>5, <2>6, <2>7, <4>1 DEF Used
      <4>2. CASE a = l BY <1>3, <1>5, <2>3, <2>5, <2>6, <2>7, <4>2 DEF Used
      <4>3. CASE a # end /\ a # l BY <2>5, <2>7, <4>3 DEF Used, Heads
      <4> QED BY <4>1, <4>2, <4>3
    <3> QED BY <3>1
  <2>10. \A a \in Used(mem) : t[a].payload_size = mem[a].payload_size
    <3>1. \A a \in Used(mem) : a \in Addr /\ a # end BY <2>7 DEF Used, Heads
    <3> QED BY <2>5, <2>6, <3>1
  <2>11. t[end].payload_size >= bytes - HEADER BY <1>0, <2>5, <2>6
  <2> QED BY <2>2, <2>5, <2>6, <2>7, <2>8, <2>9, <2>10, <2>11
<1> QED BY <1>4, <1>5

(* The heap of heap_init: one free block.                                  *)
LEMMA HeapInitially == Init => HeapInv
<1> SUFFICES ASSUME Init PROVE HeapInv OBVIOUS
<1>0. /\ HEADER \in Nat /\ HEADER > 0 /\ Al(HEADER) /\ Null \notin Addr /\ PAGE_SIZE \in Nat
         /\ PAGE_SIZE > HEADER
      /\ Al(PAGE_SIZE) /\ Limit \in Nat /\ Limit > 0 /\ HEAP_ALIGN_SIZE \in Nat /\ HEAP_ALIGN_SIZE > 0
  BY HeapSizes
<1>1. PICK e \in Nat : e = InitialPages * PAGE_SIZE /\ e > HEADER /\ e <= Limit /\ Al(e)
  <2>1. InitialPages \in Nat /\ InitialPages > 0 /\ MaxPages \in Nat /\ InitialPages <= MaxPages
    BY HeapAssumption
  <2>2. PICK e \in Nat : e = InitialPages * PAGE_SIZE BY <1>0, <2>1
  <2>3. e >= PAGE_SIZE BY <1>0, <2>1, <2>2
  <2>4. e <= Limit BY <1>0, <2>1, <2>2 DEF Limit
  <2>5. Al(e) BY <1>0, <2>1, <2>2, AlMultiple
  <2>6. e > HEADER BY <1>0, <2>3
  <2> QED BY <2>2, <2>4, <2>5, <2>6
<1>2. end = e BY <1>1 DEF Init
<1>2a. PICK f \in Nat : f = e - HEADER BY <1>0, <1>1
<1>3. Payload \in Header /\ Payload.payload_size = 0 /\ Payload.next = Null /\ Payload.prev = Null
  BY DEF Payload, Header, Link
<1>4. PICK F \in Header : F = [Payload EXCEPT !.payload_size = f, !.free = TRUE] BY <1>3 DEF Header
<1>5. 0 \in Addr
  <2>1. 0 % HEAP_ALIGN_SIZE = 0 BY <1>0
  <2> QED BY <1>0, <2>1, AddrLemma DEF Al
<1>6. mem \in Headers /\ mem[0] = F /\ \A a \in Addr \ {0} : mem[a] = Payload
  <2>1. end - HEADER = f BY <1>2, <1>2a
  <2>2. mem = [a \in Addr |-> IF a = 0 THEN F ELSE Payload] BY <1>4, <2>1 DEF Init
  <2> QED BY <1>3, <1>4, <1>5, <2>2 DEF Headers
<1>7. F.payload_size = e - HEADER /\ F.next = Null /\ F.prev = Null /\ F.free BY <1>2a, <1>3, <1>4 DEF Header
<1>8. Heads(mem) = {0} BY <1>0, <1>1, <1>3, <1>5, <1>6, <1>7 DEF Heads
<1>9. HeapOf(mem, end)
  <2>1. Al(e - HEADER)
    <3>1. PICK h \in Int : h = HEADER BY <1>0
    <3>2. e \in Int /\ Al(h) BY <1>0, <3>1
    <3>3. Al(e - h) BY <1>1, <3>2, AlLemma
    <3> QED BY <3>1, <3>3
  <2>2. BLOCK_END(mem, 0) = e BY <1>0, <1>1, <1>6, <1>7 DEF BLOCK_END
  <2>3. BlockOK(mem, e, 0) BY <1>1, <1>6, <1>7, <2>1, <2>2 DEF BlockOK
  <2>4. Apart(mem) BY <1>8 DEF Apart
  <2> QED BY <1>1, <1>2, <1>6, <1>7, <1>8, <2>3, <2>4 DEF HeapOf
<1>10. NoneFree(mem, Addr, {}) BY <1>6, <1>7, <1>8 DEF NoneFree
<1>11. LiveOK(mem, live)
  <2>1. live = {} BY DEF Init
  <2>2. Used(mem) = {} BY <1>6, <1>7, <1>8 DEF Used
  <2> QED BY <2>1, <2>2 DEF LiveOK
<1>12. op = Idle /\ op.at = "none" BY DEF Init, Idle
<1> QED BY <1>6, <1>9, <1>10, <1>11, <1>12 DEF HeapInv

(* What find_free_block returns is a free block of that many bytes.        *)
LEMMA FindLemma ==
  ASSUME HeapOf(mem, end), NEW size \in Nat, size > 0, find_free_block(size) # Null
  PROVE  LET b == find_free_block(size)
         IN  b \in Heads(mem) /\ mem[b].free /\ mem[b].payload_size >= size
<1> DEFINE w == Walk
           hits == {k \in DOMAIN w : w[k] \in Addr /\ mem[w[k]].free /\ mem[w[k]].payload_size >= size}
<1>1. hits # {} /\ find_free_block(size) = w[Min(hits)] BY DEF find_free_block
<1>2. hits \in SUBSET Nat
  <2>1. DOMAIN w = 0 .. Cardinality(Addr) /\ Cardinality(Addr) \in Nat BY WalkLemma
  <2> QED BY <2>1
<1>3. Min(hits) \in hits
  <2> HIDE DEF hits
  <2> QED BY <1>1, <1>2, MinLemma
<1>4. PICK k \in hits : find_free_block(size) = w[k] BY <1>1, <1>3
<1>5. PICK b \in Addr : b = find_free_block(size) /\ mem[b].free /\ mem[b].payload_size >= size BY <1>4
<1>6. mem[b].payload_size \in Nat BY HeaderFields DEF HeapOf
<1> QED BY <1>5, <1>6 DEF Heads

(* One more allocation.                                                    *)
LEMMA LiveMore ==
  ASSUME NEW m, NEW L, LiveOK(m, L), NEW b \in Addr, b \notin Used(m), NEW n \in Sizes, NEW m2,
         Used(m2) = Used(m) \cup {b}, m2[b].payload_size >= n,
         \A a \in Used(m) : m2[a].payload_size = m[a].payload_size
  PROVE  LiveOK(m2, L \cup {[block |-> b, size |-> n]})
<1>1. PICK r \in [block: Addr, size: Sizes] : r = [block |-> b, size |-> n] OBVIOUS
<1>2. r.block = b /\ r.size = n BY <1>1
<1>3. \A a \in L : a.block \in Used(m) BY DEF LiveOK
<1>4. \A a \in L : a.block # b BY <1>3
<1>5. Used(m2) = {a.block : a \in L \cup {r}} BY <1>2 DEF LiveOK
<1>6. \A a \in L \cup {r} : m2[a.block].payload_size >= a.size BY <1>2, <1>3 DEF LiveOK
<1>7. \A a, c \in L \cup {r} : a.block = c.block => a = c BY <1>2, <1>4 DEF LiveOK
<1>8. L \cup {r} \in SUBSET [block: Addr, size: Sizes] BY DEF LiveOK
<1> QED BY <1>1, <1>5, <1>6, <1>7, <1>8 DEF LiveOK

(* kmalloc.                                                                *)
LEMMA KmallocKeeps ==
  ASSUME HeapInv, Preempt = FALSE, NEW n \in Sizes, kmalloc(n) \/ kmalloc_expand(n)
  PROVE  HeapInv'
<1>1. op = Idle /\ op' = op BY DEF kmalloc, kmalloc_expand, Undisturbed
<1>2. HeapOf(mem, end) /\ LiveOK(mem, live) /\ NoneFree(mem, Addr, {}) BY <1>1 DEF HeapInv, Idle
<1>3. n \in Nat /\ n > 0 BY HeapAssumption
<1>4. PICK size \in Nat : size = align_up(n) /\ size >= n /\ size > 0 /\ Al(size) BY <1>3, AlignUp
<1>5. ASSUME NEW m, NEW e, NEW b \in Heads(m), HeapOf(m, e), NoneFree(m, Addr, {}), m[b].free,
    m[b].payload_size >= size,
             LiveOK(m, live), mem' = take(m, b, size), end' = e, live' = live \cup {[block |-> b, size |-> n]}
      PROVE  HeapInv'
  <2>1. /\ HeapOf(mem', e) /\ NoneFree(mem', Addr, {}) /\ Used(mem') = Used(m) \cup {b}
        /\ mem'[b].payload_size >= size /\ \A a \in Used(m) : mem'[a].payload_size = m[a].payload_size
    BY <1>4, <1>5, TakeLemma
  <2>2. b \notin Used(m) /\ b \in Addr BY <1>5 DEF Used, Heads
  <2>3. mem'[b].payload_size >= n
    <3>1. mem' \in Headers BY <2>1 DEF HeapOf
    <3>2. mem'[b].payload_size \in Nat BY <2>2, <3>1, HeaderFields
    <3> QED BY <1>3, <1>4, <2>1, <3>2
  <2>4. LiveOK(mem', live') BY <1>5, <2>1, <2>2, <2>3, LiveMore
  <2>5. op'.at = "none" /\ op' = Idle BY <1>1 DEF Idle
  <2>6. mem' \in Headers BY <2>1 DEF HeapOf
  <2> QED BY <1>5, <2>1, <2>4, <2>5, <2>6 DEF HeapInv, Idle
<1>6. CASE kmalloc(n)
  <2>1. PICK b : b = find_free_block(size) OBVIOUS
  <2>2. /\ b # Null /\ mem' = take(mem, b, size) /\ live' = live \cup {[block |-> b, size |-> n]}
           /\ end' = end
    BY <1>4, <1>6, <2>1 DEF kmalloc
  <2>3. b \in Heads(mem) /\ mem[b].free /\ mem[b].payload_size >= size BY <1>2, <1>4, <2>1, <2>2, FindLemma
  <2> QED BY <1>2, <1>5, <2>2, <2>3
<1>7. CASE kmalloc_expand(n)
  <2>0. HEADER \in Nat /\ PAGE_SIZE \in Nat /\ PAGE_SIZE > HEADER /\ Al(PAGE_SIZE) /\ HEADER > 0 BY HeapSizes
  <2>1. PICK bytes \in Nat : /\ bytes = ExpandPages(HEADER + size) * PAGE_SIZE
                             /\ Al(bytes) /\ bytes >= HEADER + size
    <3>1. PICK x \in Nat : x = HEADER + size /\ x > 0 BY <1>4, <2>0
    <3>2. PICK q \in Nat : q = (x + PAGE_SIZE - 1) \div PAGE_SIZE /\ q * PAGE_SIZE >= x BY <2>0, RoundUp
    <3>3. PICK g \in Nat : g = HEAP_EXPAND_PAGES BY HeapAssumption
    <3>4. ExpandPages(x) = Max({q, g}) BY <3>2, <3>3 DEF ExpandPages
    <3>5. ExpandPages(x) \in {q, g} /\ ExpandPages(x) >= q BY <3>4, MaxOfTwo
    <3>6. PICK k \in Nat : k = ExpandPages(x) /\ k >= q BY <3>5
    <3>7. k * PAGE_SIZE >= q * PAGE_SIZE BY <2>0, <3>6
    <3>8. PICK y \in Nat, z \in Nat : y = k * PAGE_SIZE /\ z = q * PAGE_SIZE BY <2>0
    <3>9. y >= x BY <3>2, <3>7, <3>8
    <3>10. Al(y) BY <2>0, <3>8, AlMultiple
    <3> QED BY <3>1, <3>6, <3>8, <3>9, <3>10
  <2>2. /\ end + bytes <= Limit /\ end' = end + bytes
        /\ mem' = take(expand_heap(bytes), expand_block, size)
        /\ live' = live \cup {[block |-> expand_block, size |-> n]}
    BY <1>4, <1>7, <2>1 DEF kmalloc_expand, Limit
  <2>3. bytes > HEADER BY <1>4, <2>0, <2>1
  <2>4. PICK m : m = expand_heap(bytes) OBVIOUS
  <2>5. PICK b : b = expand_block OBVIOUS
  <2>6. /\ HeapOf(m, end + bytes) /\ NoneFree(m, Addr, {}) /\ b \in Heads(m) /\ m[b].free
        /\ m[b].payload_size >= bytes - HEADER /\ Used(m) = Used(mem)
        /\ \A a \in Used(mem) : m[a].payload_size = mem[a].payload_size
    BY <1>2, <2>1, <2>2, <2>3, <2>4, <2>5, ExpandLemma
  <2>7. m[b].payload_size >= size
    <3>1. m[b].payload_size \in Nat BY <2>6, BlockFacts
    <3> QED BY <1>4, <2>0, <2>1, <2>6, <3>1
  <2>8. LiveOK(m, live)
    <3>1. \A a \in live : a.block \in Used(mem) BY <1>2 DEF LiveOK
    <3> QED BY <1>2, <2>6, <3>1 DEF LiveOK
  <2> QED BY <1>5, <2>2, <2>4, <2>5, <2>6, <2>7, <2>8
<1> QED BY <1>6, <1>7

(* The headers while two blocks are merged.                                *)
LEMMA MergeStages ==
  ASSUME NEW m \in Headers, NEW b \in Addr, NEW n \in Addr, n = m[b].next, n # b
  PROVE  /\ Grown(m, b) \in Headers /\ Skipped(m, b) \in Headers /\ forget(Skipped(m, b), n) \in Headers
         /\ Grown(m, b)[b].payload_size = m[b].payload_size + HEADER + m[n].payload_size
         /\ Grown(m, b)[b].next = n /\ Grown(m, b)[b].prev = m[b].prev /\ Grown(m, b)[b].free = m[b].free
         /\ Skipped(m, b)[b].payload_size = m[b].payload_size + HEADER + m[n].payload_size
         /\ Skipped(m, b)[b].next = m[n].next /\ Skipped(m, b)[b].prev = m[b].prev
            /\ Skipped(m, b)[b].free = m[b].free
         /\ forget(Skipped(m, b), n)[n] = Payload /\ forget(Skipped(m, b), n)[b] = Skipped(m, b)[b]
         /\ \A a \in Addr \ {b} : Grown(m, b)[a] = m[a] /\ Skipped(m, b)[a] = m[a]
         /\ \A a \in Addr \ {b, n} : forget(Skipped(m, b), n)[a] = m[a]
<1>0. HEADER \in Nat BY HeapSizes
<1>1. m[b] \in Header /\ m[n] \in Header /\ m[b].payload_size \in Nat /\ m[n].payload_size \in Nat
    /\ m[n].next \in Link
  BY HeaderFields
<1>2. PICK p \in Nat : p = m[b].payload_size + HEADER + m[n].payload_size BY <1>0, <1>1
<1>3. PICK R \in Header : R = [m[b] EXCEPT !.payload_size = p] BY <1>1 DEF Header
<1>4. R.payload_size = p /\ R.next = n /\ R.prev = m[b].prev /\ R.free = m[b].free BY <1>1, <1>3 DEF Header
<1>5. PICK g : g = Grown(m, b) OBVIOUS
<1>6. g = [m EXCEPT ![b] = R] BY <1>2, <1>3, <1>5 DEF Grown
<1>7. g \in Headers /\ g[b] = R /\ \A a \in Addr \ {b} : g[a] = m[a] BY <1>6 DEF Headers
<1>8. PICK Q \in Header : Q = [R EXCEPT !.next = m[n].next] BY <1>1 DEF Header
<1>9. Q.payload_size = p /\ Q.next = m[n].next /\ Q.prev = m[b].prev /\ Q.free = m[b].free
  BY <1>4, <1>8 DEF Header
<1>10. PICK s : s = Skipped(m, b) OBVIOUS
<1>11. s = [g EXCEPT ![b] = Q] BY <1>5, <1>7, <1>8, <1>10 DEF Skipped
<1>12. s \in Headers /\ s[b] = Q /\ \A a \in Addr \ {b} : s[a] = m[a] BY <1>7, <1>11 DEF Headers
<1>13. Payload \in Header BY DEF Payload, Header, Link
<1>14. PICK f : f = forget(s, n) OBVIOUS
<1>15. f \in Headers /\ f[n] = Payload /\ \A a \in Addr \ {n} : f[a] = s[a]
  BY <1>12, <1>13, <1>14 DEF forget, Headers
<1> QED BY <1>2, <1>4, <1>5, <1>7, <1>9, <1>10, <1>12, <1>14, <1>15

(* Merging two free blocks leaves the allocations what they were.          *)
LEMMA MergeLive ==
  ASSUME NEW m, NEW e, NEW L, NEW b, FreePair(m, e, L, b), NEW n, n = m[b].next, NEW m2, Merged(m, b, n, m2)
  PROVE  FreeBlock(m2, e, L, b) /\ Heads(m2) = Heads(m) \ {n}
<1>1. HeapOf(m, e) /\ LiveOK(m, L) /\ b \in Heads(m) /\ m[b].free /\ n # Null /\ m[n].free
  BY DEF FreePair, FreeBlock
<1>2. HeapOf(m2, e) /\ Heads(m2) = Heads(m) \ {n} BY <1>1, MergeLemma
<1>3. n \in Heads(m) /\ n # b
  <2>1. n \in Heads(m) /\ n = b + HEADER + m[b].payload_size /\ b \in Nat /\ m[b].payload_size \in Nat
    BY <1>1, BlockFacts
  <2> QED BY <2>1, HeapSizes
<1>4. \A a \in Heads(m) \ {n} : m2[a].free = m[a].free BY DEF Merged, Heads
<1>5. Used(m2) = Used(m) BY <1>1, <1>2, <1>4 DEF Used
<1>6. \A a \in Used(m) : m2[a].payload_size = m[a].payload_size
  <2>1. \A a \in Used(m) : a \in Addr /\ a # b /\ a # n BY <1>1 DEF Used, Heads
  <2> QED BY <2>1 DEF Merged
<1>7. \A a \in L : a.block \in Used(m) BY <1>1 DEF LiveOK
<1>8. LiveOK(m2, L) BY <1>1, <1>5, <1>6, <1>7 DEF LiveOK
<1> QED BY <1>1, <1>2, <1>3, <1>4, <1>8 DEF FreeBlock

(* After the first half of kfree only the block before the freed one may   *)
(* still be free.                                                          *)
LEMMA NextMerged ==
  ASSUME NEW m, MergesNext(m, blk), NEW n, n = m[blk].next, NEW m2, Merged(m, blk, n, m2)
  PROVE  FreeBlock(m2, end, live, blk) /\ NoneFree(m2, Addr, {blk})
<1>1. FreePair(m, end, live, blk) /\ NoneFree(m, Addr \ {blk}, {blk}) BY DEF MergesNext
<1>2. FreeBlock(m2, end, live, blk) /\ Heads(m2) = Heads(m) \ {n} BY <1>1, MergeLive
<1>3. HeapOf(m, end) /\ blk \in Heads(m) /\ blk \in Addr /\ n # Null /\ m[n].free
  BY <1>1 DEF FreePair, FreeBlock, Heads
<1>4. n \in Heads(m) /\ n \in Addr /\ n # blk BY <1>2, <1>3, BlockFacts DEF Heads, FreeBlock
<1>5. ASSUME NEW a \in Addr, a \in Heads(m2), m2[a].free, m2[a].next # Null,
    m2[a].next # blk PROVE ~m2[m2[a].next].free
  <2>1. a \in Heads(m) /\ a # n BY <1>2, <1>5
  <2>2. m2[a].next \in Heads(m2) /\ m2[a].next \in Addr BY <1>2, <1>5, BlockFacts DEF FreeBlock, Heads
  <2>3. m2[m2[a].next].free = m[m2[a].next].free BY <1>2, <2>2 DEF Merged
  <2>4. CASE a = blk
    <3>1. m2[a].next = m[n].next BY <2>4, <1>3, <1>4 DEF Merged
    <3>2. ~m[m[n].next].free BY <1>1, <1>3, <1>4, <1>5, <3>1 DEF NoneFree
    <3> QED BY <2>3, <3>1, <3>2
  <2>5. CASE a # blk
    <3>1. m2[a].next = m[a].next /\ m2[a].free = m[a].free BY <2>1, <2>5 DEF Merged
    <3>2. ~m[m[a].next].free BY <1>1, <1>5, <2>1, <2>5, <3>1 DEF NoneFree
    <3> QED BY <2>3, <3>1, <3>2
  <2> QED BY <2>4, <2>5
<1> QED BY <1>2, <1>5 DEF NoneFree

(* After the second half no two neighbours are free.                       *)
LEMMA PrevMerged ==
  ASSUME NEW m, MergesPrev(m, blk), NEW p, p = m[blk].prev, NEW m2, Merged(m, p, blk, m2)
  PROVE  FreeBlock(m2, end, live, p) /\ NoneFree(m2, Addr, {})
<1>1. FreePair(m, end, live, p) /\ m[p].next = blk /\ NoneFree(m, Addr, {blk}) BY DEF MergesPrev
<1>2. FreeBlock(m2, end, live, p) /\ Heads(m2) = Heads(m) \ {blk} BY <1>1, MergeLive
<1>3. HeapOf(m, end) /\ p \in Heads(m) /\ p \in Addr /\ blk # Null /\ m[blk].free
  BY <1>1 DEF FreePair, FreeBlock, Heads
<1>4. blk \in Heads(m) /\ blk \in Addr /\ p # blk BY <1>1, <1>2, <1>3, BlockFacts DEF Heads, FreeBlock
<1>5. ASSUME NEW a \in Addr, a \in Heads(m2), m2[a].free, m2[a].next # Null PROVE ~m2[m2[a].next].free
  <2>1. a \in Heads(m) /\ a # blk BY <1>2, <1>5
  <2>2. m2[a].next \in Heads(m2) /\ m2[a].next \in Addr /\ m2[a].next # blk
    BY <1>2, <1>5, BlockFacts DEF FreeBlock, Heads
  <2>3. m2[m2[a].next].free = m[m2[a].next].free BY <2>2 DEF Merged
  <2>4. CASE a = p
    <3>1. m2[a].next = m[blk].next BY <2>4, <1>3, <1>4 DEF Merged
    <3>2. ~m[m[blk].next].free BY <1>1, <1>3, <1>4, <1>5, <2>2, <3>1 DEF NoneFree
    <3> QED BY <2>3, <3>1, <3>2
  <2>5. CASE a # p
    <3>1. m2[a].next = m[a].next /\ m2[a].free = m[a].free BY <2>1, <2>5 DEF Merged
    <3>2. ~m[m[a].next].free BY <1>1, <1>5, <2>1, <2>2, <3>1 DEF NoneFree
    <3> QED BY <2>3, <3>1, <3>2
  <2> QED BY <2>4, <2>5
<1> QED BY <1>2, <1>5 DEF NoneFree

(* Where a block that has one behind it ends.                              *)
LEMMA NextPlace ==
  ASSUME NEW m, NEW e, HeapOf(m, e), NEW b \in Heads(m), m[b].next # Null
  PROVE  b \in Nat /\ m[b].payload_size \in Nat /\ m[b].next = b + HEADER + m[b].payload_size
BY BlockFacts

(* The block behind the next one is never the block itself.               *)
LEMMA NotBack ==
  ASSUME NEW m, NEW e, HeapOf(m, e), NEW b \in Addr, b \in Heads(m), NEW n \in Addr, n \in Heads(m),
         n = m[b].next, n # Null
  PROVE  m[n].next # b
<1> SUFFICES ASSUME m[n].next = b PROVE FALSE OBVIOUS
<1>0. HEADER \in Nat /\ HEADER > 0 /\ Null \notin Addr BY HeapSizes
<1>1. m[n].next # Null BY <1>0
<1>2. PICK x \in Nat : n \in Nat /\ x = m[n].payload_size /\ b = n + HEADER + x
  BY <1>1, NextPlace
<1>3. PICK y \in Nat : b \in Nat /\ y = m[b].payload_size /\ n = b + HEADER + y
  BY NextPlace
<1>4. PICK h \in Nat : h = HEADER /\ h > 0 BY <1>0
<1>5. b = n + h + x /\ n = b + h + y BY <1>2, <1>3, <1>4
<1> QED BY <1>2, <1>3, <1>4, <1>5, NoRoundTrip

(* Setting the back pointer of the block behind completes a merge.         *)
LEMMA BackLink ==
  ASSUME NEW m, NEW e, HeapOf(m, e), NEW b \in Addr, b \in Heads(m), NEW n \in Addr, n = m[b].next,
         NEW m2 \in Headers,
         m2[b].payload_size = m[b].payload_size + HEADER + m[n].payload_size,
         m2[b].next = m[n].next, m2[b].prev = m[b].prev, m2[b].free = m[b].free, m2[n].payload_size = 0,
         \A a \in Addr \ {b, n} : m2[a].payload_size = m[a].payload_size /\ m2[a].next = m[a].next
             /\ m2[a].free = m[a].free,
         \A a \in Addr \ {b, n} : m2[a].prev = IF a = m[n].next THEN b ELSE m[a].prev
  PROVE  Merged(m, b, n, m2)
<1>0. HEADER \in Nat /\ HEADER > 0 /\ Null \notin Addr BY HeapSizes
<1>1. n # Null BY <1>0
<1>2. n \in Heads(m) /\ n = b + HEADER + m[b].payload_size /\ b \in Nat /\ m[b].payload_size \in Nat
  BY <1>1, BlockFacts
<1>3. n # b BY <1>0, <1>2
<1>4. m[n].next # b BY <1>1, <1>2, NotBack
<1>5. \A a \in Addr : m2[a].payload_size = IF a = b THEN m[b].payload_size + HEADER + m[n].payload_size
                                           ELSE IF a = n THEN 0 ELSE m[a].payload_size
  OBVIOUS
<1>6. \A a \in Addr \ {n} : /\ m2[a].next = IF a = b THEN m[n].next ELSE m[a].next
                            /\ m2[a].prev = IF a = m[n].next THEN b ELSE m[a].prev
                            /\ m2[a].free = m[a].free
  BY <1>4
<1> QED BY <1>5, <1>6 DEF Merged

(* The first half of kfree ends with a merged heap.                        *)
LEMMA RelinkNext ==
  ASSUME NEW m \in Headers, HeapOf(m, end), NEW b \in Addr, b \in Heads(m), NEW n \in Addr,
      n = m[b].next, n # b,
         mem = forget(Skipped(m, b), n)
  PROVE  Merged(m, b, n, relink(b, b))
<1>0. Null \notin Addr /\ HEADER \in Nat BY HeapSizes
<1>1. /\ mem \in Headers /\ mem[n] = Payload
         /\ mem[b].payload_size = m[b].payload_size + HEADER + m[n].payload_size
      /\ mem[b].next = m[n].next /\ mem[b].prev = m[b].prev /\ mem[b].free = m[b].free
      /\ \A a \in Addr \ {b, n} : mem[a] = m[a]
  BY MergeStages
<1>2. mem[n].payload_size = 0 BY <1>1 DEF Payload
<1>3. CASE m[n].next = Null
  <2>1. relink(b, b) = mem BY <1>1, <1>3 DEF relink
  <2>2. \A a \in Addr \ {b, n} : mem[a].prev = IF a = m[n].next THEN b ELSE m[a].prev BY <1>0, <1>1, <1>3
  <2> QED BY <1>1, <1>2, <2>1, <2>2, BackLink
<1>4. CASE m[n].next # Null
  <2>1. n # Null BY <1>0
  <2>2. n \in Heads(m) BY <2>1, BlockFacts
  <2>3. PICK k \in Heads(m) : k = m[n].next /\ k = n + HEADER + m[n].payload_size BY <1>4, <2>2, BlockFacts
  <2>4. k \in Addr /\ k # n /\ k # b
    <3>1. k \in Addr /\ n \in Nat /\ m[n].payload_size \in Nat /\ n = b + HEADER + m[b].payload_size
        /\ b \in Nat /\ m[b].payload_size \in Nat
      BY <2>1, <2>2, BlockFacts DEF Heads
    <3> QED BY <2>3, <3>1, HeapSizes
  <2>5. PICK t : t = relink(b, b) OBVIOUS
  <2>6. t = [mem EXCEPT ![k].prev = b] BY <1>1, <1>4, <2>3, <2>5 DEF relink
  <2>7. mem[k] \in Header BY <1>1, <2>4, HeaderFields
  <2>8. PICK K \in Header : K = [mem[k] EXCEPT !.prev = b] BY <2>7 DEF Header, Link
  <2>9. K.payload_size = mem[k].payload_size /\ K.next = mem[k].next /\ K.prev = b /\ K.free = mem[k].free
    BY <2>7, <2>8 DEF Header
  <2>10. t \in Headers /\ t[k] = K /\ \A a \in Addr \ {k} : t[a] = mem[a]
    BY <1>1, <2>4, <2>6, <2>8 DEF Headers
  <2>11. \A a \in Addr \ {b, n} : t[a].payload_size = m[a].payload_size /\ t[a].next = m[a].next
      /\ t[a].free = m[a].free
    BY <1>1, <2>4, <2>9, <2>10
  <2>12. \A a \in Addr \ {b, n} : t[a].prev = IF a = m[n].next THEN b ELSE m[a].prev
    <3>1. \A a \in Addr \ {b, n} : mem[a].prev = m[a].prev BY <1>1
    <3>2. \A a \in Addr \ {b, n} : a # k => t[a].prev = m[a].prev BY <2>10, <3>1
    <3> QED BY <2>3, <2>9, <2>10, <3>2
  <2>13. t[b] = mem[b] /\ t[n] = mem[n] BY <2>4, <2>10
  <2> QED BY <1>1, <1>2, <2>5, <2>10, <2>11, <2>12, <2>13, BackLink
<1> QED BY <1>3, <1>4

(* The second half ends with a merged heap.                                *)
LEMMA RelinkPrev ==
  ASSUME NEW m \in Headers, HeapOf(m, end), NEW b \in Addr, b \in Heads(m), NEW n \in Addr,
      n = m[b].next, n # b,
         mem = Skipped(m, b)
  PROVE  Merged(m, b, n, forget(relink(n, b), n))
<1>0. Null \notin Addr /\ HEADER \in Nat BY HeapSizes
<1>1. /\ mem \in Headers /\ mem[b].payload_size = m[b].payload_size + HEADER + m[n].payload_size
      /\ mem[b].next = m[n].next /\ mem[b].prev = m[b].prev /\ mem[b].free = m[b].free
      /\ \A a \in Addr \ {b} : mem[a] = m[a]
  BY MergeStages
<1>2. Payload \in Header /\ Payload.payload_size = 0 BY DEF Payload, Header, Link
<1>3. PICK r : r = relink(n, b) OBVIOUS
<1>4. PICK t : t = forget(r, n) OBVIOUS
<1>5. mem[n].next = m[n].next BY <1>1
<1>6. CASE m[n].next = Null
  <2>1. r = mem BY <1>3, <1>5, <1>6 DEF relink
  <2>2. t \in Headers /\ t[n] = Payload /\ \A a \in Addr \ {n} : t[a] = mem[a]
    BY <1>1, <1>2, <1>4, <2>1 DEF forget, Headers
  <2>3. \A a \in Addr \ {b, n} : t[a].prev = IF a = m[n].next THEN b ELSE m[a].prev BY <1>0, <1>1, <1>6, <2>2
  <2>4. t[b] = mem[b] /\ t[n].payload_size = 0 BY <1>2, <2>2
  <2>5. \A a \in Addr \ {b, n} : t[a].payload_size = m[a].payload_size /\ t[a].next = m[a].next
      /\ t[a].free = m[a].free
    BY <1>1, <2>2
  <2> QED BY <1>1, <1>3, <1>4, <2>2, <2>3, <2>4, <2>5, BackLink
<1>7. CASE m[n].next # Null
  <2>1. n # Null BY <1>0
  <2>2. n \in Heads(m) BY <2>1, BlockFacts
  <2>3. PICK k \in Heads(m) : k = m[n].next /\ k = n + HEADER + m[n].payload_size BY <1>7, <2>2, BlockFacts
  <2>4. k \in Addr /\ k # n /\ k # b
    <3>1. k \in Addr /\ n \in Nat /\ m[n].payload_size \in Nat /\ n = b + HEADER + m[b].payload_size
        /\ b \in Nat /\ m[b].payload_size \in Nat
      BY <2>1, <2>2, BlockFacts DEF Heads
    <3> QED BY <2>3, <3>1, HeapSizes
  <2>6. r = [mem EXCEPT ![k].prev = b] BY <1>3, <1>5, <1>7, <2>3 DEF relink
  <2>7. mem[k] \in Header BY <1>1, <2>4, HeaderFields
  <2>8. PICK K \in Header : K = [mem[k] EXCEPT !.prev = b] BY <2>7 DEF Header, Link
  <2>9. K.payload_size = mem[k].payload_size /\ K.next = mem[k].next /\ K.prev = b /\ K.free = mem[k].free
    BY <2>7, <2>8 DEF Header
  <2>10. r \in Headers /\ r[k] = K /\ \A a \in Addr \ {k} : r[a] = mem[a]
    BY <1>1, <2>4, <2>6, <2>8 DEF Headers
  <2>11. t \in Headers /\ t[n] = Payload /\ \A a \in Addr \ {n} : t[a] = r[a]
    BY <1>2, <1>4, <2>10 DEF forget, Headers
  <2>12. \A a \in Addr \ {b, n} : t[a].payload_size = m[a].payload_size /\ t[a].next = m[a].next
      /\ t[a].free = m[a].free
    BY <1>1, <2>4, <2>9, <2>10, <2>11
  <2>13. \A a \in Addr \ {b, n} : t[a].prev = IF a = m[n].next THEN b ELSE m[a].prev
    <3>1. \A a \in Addr \ {b, n} : mem[a].prev = m[a].prev BY <1>1
    <3>2. \A a \in Addr \ {b, n} : a # k => t[a].prev = m[a].prev BY <2>10, <2>11, <3>1
    <3>3. t[k].prev = b BY <2>4, <2>9, <2>10, <2>11
    <3> QED BY <2>3, <3>2, <3>3
  <2>14. t[b] = mem[b] /\ t[n].payload_size = 0 BY <1>2, <2>4, <2>10, <2>11
  <2> QED BY <1>1, <1>3, <1>4, <2>11, <2>12, <2>13, <2>14, BackLink
<1> QED BY <1>6, <1>7

(* kfree marks the block free.                                             *)
LEMMA KfreeKeeps ==
  ASSUME HeapInv, NEW a \in live, kfree(a)
  PROVE  HeapInv'
<1>1. op = Idle /\ end' = end /\ live' = live \ {a} /\ op' = [at |-> "test_next", block |-> a.block]
  BY DEF kfree
<1>2. HeapOf(mem, end) /\ LiveOK(mem, live) /\ NoneFree(mem, Addr, {}) BY <1>1 DEF HeapInv, Idle
<1>3. PICK b \in Addr : b = a.block /\ b \in Used(mem) /\ b \in Heads(mem) BY <1>2 DEF LiveOK, Used, Heads
<1>4. mem' = [mem EXCEPT ![b].free = TRUE] BY <1>3 DEF kfree
<1>5. mem \in Headers /\ mem[b] \in Header BY <1>2, HeaderFields DEF HeapOf
<1>6. PICK B \in Header : B = [mem[b] EXCEPT !.free = TRUE] BY <1>5 DEF Header
<1>7. B.payload_size = mem[b].payload_size /\ B.next = mem[b].next /\ B.prev = mem[b].prev /\ B.free = TRUE
  BY <1>5, <1>6 DEF Header
<1>8. mem' \in Headers /\ mem'[b] = B /\ \A x \in Addr \ {b} : mem'[x] = mem[x]
  BY <1>4, <1>5, <1>6 DEF Headers
<1>9. \A x \in Addr : mem'[x].payload_size = mem[x].payload_size /\ mem'[x].next = mem[x].next
    /\ mem'[x].prev = mem[x].prev
  BY <1>7, <1>8
<1>10. HeapOf(mem', end) /\ Heads(mem') = Heads(mem) BY <1>2, <1>8, <1>9, MarkLemma
<1>11. Used(mem') = Used(mem) \ {b}
  <2>1. \A x \in Heads(mem) \ {b} : mem'[x].free = mem[x].free BY <1>8 DEF Heads
  <2> QED BY <1>7, <1>8, <1>10, <2>1 DEF Used
<1>12. LiveOK(mem', live')
  <2>1. \A x \in live' : x \in live /\ x.block # b /\ x.block \in Used(mem) BY <1>1, <1>2, <1>3 DEF LiveOK
  <2>2. \A x \in live \ live' : x.block = b BY <1>1, <1>3
  <2>3. Used(mem') = {x.block : x \in live'} BY <1>1, <1>2, <1>11, <2>1, <2>2 DEF LiveOK
  <2>4. \A x \in live' : mem'[x.block].payload_size >= x.size BY <1>2, <1>9, <2>1 DEF LiveOK, Used, Heads
  <2> QED BY <1>1, <1>2, <2>1, <2>3, <2>4 DEF LiveOK
<1>13. NoneFree(mem', Addr \ {b}, {b})
  <2> SUFFICES ASSUME NEW x \in Addr, x # b, x \in Heads(mem'), mem'[x].free, mem'[x].next # Null,
      mem'[x].next # b
               PROVE  ~mem'[mem'[x].next].free
    BY DEF NoneFree
  <2>1. x \in Heads(mem) /\ mem'[x] = mem[x] BY <1>8, <1>10
  <2>2. mem[x].next \in Addr BY <1>2, <2>1, BlockFacts DEF Heads
  <2>3. ~mem[mem[x].next].free BY <1>2, <2>1 DEF NoneFree
  <2> QED BY <1>8, <2>1, <2>2, <2>3
<1>14. FreeBlock(mem', end, live', b) BY <1>3, <1>7, <1>8, <1>10, <1>12 DEF FreeBlock
<1>15. op'.at = "test_next" /\ blk' = b /\ op' \in [at: KfreeStep, block: Addr]
  BY <1>1, <1>3 DEF blk, KfreeStep
<1> QED BY <1>1, <1>8, <1>13, <1>14, <1>15 DEF HeapInv

(* The other steps of kfree: op names the block, and only at changes.      *)
LEMMA KfreeOp ==
  ASSUME HeapInv, NEW s \in KfreeStep, op.at = s
  PROVE  /\ op \in [at: KfreeStep, block: Addr] /\ blk \in Addr
         /\ \A t \in KfreeStep : Go(t) => op'.at = t /\ blk' = blk /\ op' \in [at: KfreeStep, block: Addr]
<1>1. op # Idle BY DEF Idle, KfreeStep
<1>2. op \in [at: KfreeStep, block: Addr] BY <1>1 DEF HeapInv
<1> QED BY <1>2 DEF Go, blk

(* The first half of kfree.                                                *)
LEMMA KfreeNextKeeps ==
  ASSUME HeapInv, kfree_test_next \/ kfree_grow \/ kfree_unlink \/ kfree_relink
  PROVE  HeapInv'
<1>0. end' = end /\ live' = live /\ mem \in Headers
  BY DEF HeapInv, kfree_test_next, kfree_grow, kfree_unlink, kfree_relink
<1>1. ASSUME NEW m \in Headers, MergesNext(m, blk), blk \in Addr
      PROVE  /\ m[blk].next \in Addr /\ m[blk].next # blk /\ m[blk].next # Null
             /\ HeapOf(m, end)
  <2>1. HeapOf(m, end) /\ blk \in Heads(m) /\ m[blk].next # Null BY <1>1 DEF MergesNext, FreePair, FreeBlock
  <2>2. /\ m[blk].next \in Heads(m) /\ m[blk].next = blk + HEADER + m[blk].payload_size /\ blk \in Nat
        /\ m[blk].payload_size \in Nat
    BY <2>1, BlockFacts
  <2> QED BY <2>1, <2>2, HeapSizes DEF Heads
<1>2. CASE kfree_test_next
  <2>1. op.at = "test_next" /\ mem' = mem BY <1>2 DEF kfree_test_next, At
  <2>2. "test_next" \in KfreeStep /\ "grow" \in KfreeStep /\ "test_prev" \in KfreeStep BY DEF KfreeStep
  <2>3. FreeBlock(mem, end, live, blk) /\ NoneFree(mem, Addr \ {blk}, {blk}) BY <2>1 DEF HeapInv
  <2>4. CASE mem[blk].next # Null /\ mem[mem[blk].next].free
    <3>1. Go("grow") BY <1>2, <2>4 DEF kfree_test_next
    <3>2. op'.at = "grow" /\ blk' = blk /\ op' \in [at: KfreeStep, block: Addr] BY <2>1, <2>2, <3>1, KfreeOp
    <3>3. MergesNext(mem, blk)' BY <1>0, <2>1, <2>3, <2>4, <3>2 DEF MergesNext, FreePair
    <3> QED BY <1>0, <2>1, <3>2, <3>3 DEF HeapInv
  <2>5. CASE ~(mem[blk].next # Null /\ mem[mem[blk].next].free)
    <3>1. Go("test_prev") BY <1>2, <2>5 DEF kfree_test_next
    <3>2. op'.at = "test_prev" /\ blk' = blk /\ op' \in [at: KfreeStep, block: Addr]
      BY <2>1, <2>2, <3>1, KfreeOp
    <3>3. NoneFree(mem, Addr, {blk}) BY <2>3, <2>5 DEF NoneFree
    <3> QED BY <1>0, <2>1, <2>3, <3>2, <3>3 DEF HeapInv
  <2> QED BY <2>4, <2>5
<1>3. CASE kfree_grow
  <2>1. op.at = "grow" /\ Go("unlink") BY <1>3 DEF kfree_grow, At
  <2>2. "grow" \in KfreeStep /\ "unlink" \in KfreeStep BY DEF KfreeStep
  <2>3. blk \in Addr /\ op'.at = "unlink" /\ blk' = blk /\ op' \in [at: KfreeStep, block: Addr]
    BY <2>1, <2>2, KfreeOp
  <2>4. MergesNext(mem, blk) BY <2>1 DEF HeapInv
  <2>5. mem' = Grown(mem, blk) BY <1>3 DEF kfree_grow, Grown
  <2>6. mem' \in Headers BY <1>0, <1>1, <2>3, <2>4, <2>5, MergeStages
  <2>7. \E m \in Headers : MergesNext(m, blk)' /\ mem' = Grown(m, blk') 
    <3>1. PICK m \in Headers : m = mem BY <1>0
    <3>2. MergesNext(m, blk)' BY <1>0, <2>3, <2>4, <3>1 DEF MergesNext
    <3> QED BY <2>3, <2>5, <3>1, <3>2
  <2>8. (\E m \in Headers : MergesNext(m, blk) /\ mem = Grown(m, blk))' BY <2>7
  <2> QED BY <2>3, <2>6, <2>8 DEF HeapInv
<1>4. CASE kfree_unlink
  <2>1. op.at = "unlink" /\ Go("relink") BY <1>4 DEF kfree_unlink, At
  <2>2. "relink" \in KfreeStep /\ "unlink" \in KfreeStep BY DEF KfreeStep
  <2>3. blk \in Addr /\ op'.at = "relink" /\ blk' = blk /\ op' \in [at: KfreeStep, block: Addr]
    BY <2>1, <2>2, KfreeOp
  <2>4. PICK m \in Headers : MergesNext(m, blk) /\ mem = Grown(m, blk) BY <2>1 DEF HeapInv
  <2>5. PICK n \in Addr : n = m[blk].next /\ n # blk BY <1>1, <2>3, <2>4
  <2>6. mem[blk].next = n /\ mem[n] = m[n] BY <2>3, <2>4, <2>5, MergeStages
  <2>7. mem' = forget([mem EXCEPT ![blk].next = mem[mem[blk].next].next], mem[blk].next)
    BY <1>4 DEF kfree_unlink
  <2>8. mem' = forget(Skipped(m, blk), n) BY <2>4, <2>5, <2>6, <2>7 DEF Skipped
  <2>9. mem' \in Headers BY <2>3, <2>5, <2>8, MergeStages
  <2>10. MergesNext(m, blk)' BY <1>0, <2>3, <2>4 DEF MergesNext
  <2>11. (\E m_1 \in Headers : MergesNext(m_1, blk) /\ mem = forget(Skipped(m_1, blk), m_1[blk].next))'
    BY <2>3, <2>5, <2>8, <2>10
  <2> QED BY <2>3, <2>9, <2>11 DEF HeapInv
<1>5. CASE kfree_relink
  <2>1. op.at = "relink" /\ Go("test_prev") BY <1>5 DEF kfree_relink, At
  <2>2. "relink" \in KfreeStep /\ "test_prev" \in KfreeStep BY DEF KfreeStep
  <2>3. blk \in Addr /\ op'.at = "test_prev" /\ blk' = blk /\ op' \in [at: KfreeStep, block: Addr]
    BY <2>1, <2>2, KfreeOp
  <2>4. PICK m \in Headers : MergesNext(m, blk) /\ mem = forget(Skipped(m, blk), m[blk].next)
    BY <2>1 DEF HeapInv
  <2>5. PICK n \in Addr : n = m[blk].next /\ n # blk /\ n # Null /\ HeapOf(m, end) BY <1>1, <2>3, <2>4
  <2>6. mem' = relink(blk, blk) BY <1>5 DEF kfree_relink
  <2>6a. blk \in Heads(m) BY <2>4 DEF MergesNext, FreePair, FreeBlock
  <2>6b. Merged(m, blk, n, relink(blk, blk)) BY <2>3, <2>4, <2>5, <2>6a, RelinkNext
  <2>7. Merged(m, blk, n, mem') BY <2>6, <2>6b
  <2>8. FreeBlock(mem', end, live, blk) /\ NoneFree(mem', Addr, {blk}) BY <2>4, <2>5, <2>7, NextMerged
  <2>9. mem' \in Headers BY <2>7 DEF Merged
  <2> QED BY <1>0, <2>3, <2>8, <2>9 DEF HeapInv
<1> QED BY <1>2, <1>3, <1>4, <1>5

(* The second half of kfree.                                               *)
LEMMA KfreePrevKeeps ==
  ASSUME HeapInv, kfree_test_prev \/ kfree_prev_grow \/ kfree_prev_unlink \/ kfree_prev_relink
  PROVE  HeapInv'
<1>0. end' = end /\ live' = live /\ mem \in Headers
  BY DEF HeapInv, kfree_test_prev, kfree_prev_grow, kfree_prev_unlink, kfree_prev_relink
<1>1. ASSUME NEW m \in Headers, MergesPrev(m, blk), blk \in Addr
      PROVE  /\ m[blk].prev \in Addr /\ m[blk].prev \in Heads(m) /\ m[blk].prev # blk
             /\ m[m[blk].prev].next = blk /\ HeapOf(m, end)
  <2>1. PICK p : p = m[blk].prev OBVIOUS
  <2>2. HeapOf(m, end) /\ p \in Heads(m) /\ m[p].next = blk /\ blk # Null
    BY <1>1, <2>1 DEF MergesPrev, FreePair, FreeBlock
  <2>3. blk = p + HEADER + m[p].payload_size /\ p \in Nat /\ p \in Addr /\ m[p].payload_size \in Nat
    BY <2>2, BlockFacts
  <2>4. blk # p BY <2>3, HeapSizes
  <2> QED BY <2>1, <2>2, <2>3, <2>4
<1>2. CASE kfree_test_prev
  <2>1. op.at = "test_prev" /\ mem' = mem BY <1>2 DEF kfree_test_prev, At
  <2>2. "test_prev" \in KfreeStep /\ "prev_grow" \in KfreeStep BY DEF KfreeStep
  <2>3. FreeBlock(mem, end, live, blk) /\ NoneFree(mem, Addr, {blk}) BY <2>1 DEF HeapInv
  <2>4. HeapOf(mem, end) /\ LiveOK(mem, live) /\ blk \in Heads(mem) /\ mem[blk].free /\ blk \in Addr
    BY <2>3 DEF FreeBlock, Heads
  <2>5. CASE prev_free(blk)
    <3>1. Go("prev_grow") BY <1>2, <2>5 DEF kfree_test_prev, Go
    <3>2. op'.at = "prev_grow" /\ blk' = blk /\ op' \in [at: KfreeStep, block: Addr]
      BY <2>1, <2>2, <3>1, KfreeOp
    <3>3. PICK p : p = mem[blk].prev OBVIOUS
    <3>4. p # Null /\ mem[p].free BY <2>5, <3>3 DEF prev_free
    <3>5. blk # 0 BY <2>4, <3>3, <3>4 DEF HeapOf
    <3>6. p \in Heads(mem) /\ mem[p].next = blk BY <2>4, <3>3, <3>5, BlockFacts
    <3>7. blk # Null BY <2>4, HeapSizes
    <3>8. FreePair(mem, end, live, p) BY <2>4, <3>4, <3>6, <3>7 DEF FreePair, FreeBlock
    <3>9. MergesPrev(mem, blk) BY <2>3, <3>3, <3>6, <3>8 DEF MergesPrev
    <3>10. MergesPrev(mem, blk)' BY <1>0, <2>1, <3>2, <3>9 DEF MergesPrev
    <3> QED BY <1>0, <2>1, <3>2, <3>10 DEF HeapInv
  <2>6. CASE ~prev_free(blk)
    <3>1. op' = Idle BY <1>2, <2>6 DEF kfree_test_prev
    <3>2. op'.at = "none" BY <3>1 DEF Idle
    <3>3. NoneFree(mem, Addr, {})
      <4> SUFFICES ASSUME NEW a \in Addr, a \in Heads(mem), mem[a].free,
          mem[a].next # Null PROVE ~mem[mem[a].next].free
        BY DEF NoneFree
      <4>1. CASE mem[a].next = blk
        <5>1. mem[blk].prev = a BY <2>4, <4>1, BlockFacts
        <5>2. a # Null BY HeapSizes
        <5> QED BY <2>6, <5>1, <5>2 DEF prev_free
      <4>2. CASE mem[a].next # blk BY <2>3, <4>2 DEF NoneFree
      <4> QED BY <4>1, <4>2
    <3> QED BY <1>0, <2>1, <2>4, <3>1, <3>2, <3>3 DEF HeapInv, Idle
  <2> QED BY <2>5, <2>6
<1>3. CASE kfree_prev_grow
  <2>1. op.at = "prev_grow" /\ Go("prev_unlink") BY <1>3 DEF kfree_prev_grow, At
  <2>2. "prev_grow" \in KfreeStep /\ "prev_unlink" \in KfreeStep BY DEF KfreeStep
  <2>3. blk \in Addr /\ op'.at = "prev_unlink" /\ blk' = blk /\ op' \in [at: KfreeStep, block: Addr]
    BY <2>1, <2>2, KfreeOp
  <2>4. MergesPrev(mem, blk) BY <2>1 DEF HeapInv
  <2>5. PICK p \in Addr : p = mem[blk].prev /\ p # blk /\ mem[p].next = blk BY <1>0, <1>1, <2>3, <2>4
  <2>6. mem' = [mem EXCEPT ![p].payload_size = @ + HEADER + mem[blk].payload_size]
    BY <1>3, <2>5 DEF kfree_prev_grow
  <2>7. mem' = Grown(mem, p) BY <2>5, <2>6 DEF Grown
  <2>8. mem' \in Headers BY <1>0, <2>3, <2>5, <2>7, MergeStages
  <2>9. PICK m \in Headers : m = mem BY <1>0
  <2>10. MergesPrev(m, blk)' BY <1>0, <2>3, <2>4, <2>9 DEF MergesPrev
  <2>11. mem' = Grown(m, m[blk'].prev) BY <2>3, <2>5, <2>7, <2>9
  <2>12. (\E m_1 \in Headers : MergesPrev(m_1, blk) /\ mem = Grown(m_1, m_1[blk].prev))' BY <2>10, <2>11
  <2> QED BY <2>3, <2>8, <2>12 DEF HeapInv
<1>4. CASE kfree_prev_unlink
  <2>1. op.at = "prev_unlink" /\ Go("prev_relink") BY <1>4 DEF kfree_prev_unlink, At
  <2>2. "prev_relink" \in KfreeStep /\ "prev_unlink" \in KfreeStep BY DEF KfreeStep
  <2>3. blk \in Addr /\ op'.at = "prev_relink" /\ blk' = blk /\ op' \in [at: KfreeStep, block: Addr]
    BY <2>1, <2>2, KfreeOp
  <2>4. PICK m \in Headers : MergesPrev(m, blk) /\ mem = Grown(m, m[blk].prev) BY <2>1 DEF HeapInv
  <2>5. PICK p \in Addr : p = m[blk].prev /\ p # blk /\ m[p].next = blk BY <1>1, <2>3, <2>4
  <2>6. mem[blk] = m[blk] BY <2>3, <2>4, <2>5, MergeStages
  <2>7. mem' = [mem EXCEPT ![p].next = m[blk].next] BY <1>4, <2>5, <2>6 DEF kfree_prev_unlink
  <2>8. mem' = Skipped(m, p) BY <2>4, <2>5, <2>7 DEF Skipped
  <2>9. mem' \in Headers BY <2>3, <2>5, <2>8, MergeStages
  <2>10. MergesPrev(m, blk)' BY <1>0, <2>3, <2>4 DEF MergesPrev
  <2>11. mem' = Skipped(m, m[blk'].prev) BY <2>3, <2>5, <2>8
  <2>12. (\E m_1 \in Headers : MergesPrev(m_1, blk) /\ mem = Skipped(m_1, m_1[blk].prev))' BY <2>10, <2>11
  <2> QED BY <2>3, <2>9, <2>12 DEF HeapInv
<1>5. CASE kfree_prev_relink
  <2>1. op.at = "prev_relink" /\ op' = Idle BY <1>5 DEF kfree_prev_relink, At
  <2>2. "prev_relink" \in KfreeStep BY DEF KfreeStep
  <2>3. blk \in Addr /\ op'.at = "none" BY <2>1, <2>2, KfreeOp DEF Idle
  <2>4. PICK m \in Headers : MergesPrev(m, blk) /\ mem = Skipped(m, m[blk].prev) BY <2>1 DEF HeapInv
  <2>5. PICK p \in Addr : p = m[blk].prev /\ p # blk /\ p \in Heads(m) /\ m[p].next = blk /\ HeapOf(m, end)
    BY <1>1, <2>3, <2>4
  <2>6. mem[blk] = m[blk] BY <2>3, <2>4, <2>5, MergeStages
  <2>7. mem' = forget(relink(blk, p), blk) BY <1>5, <2>5, <2>6 DEF kfree_prev_relink
  <2>8. Merged(m, p, blk, forget(relink(blk, p), blk)) BY <2>3, <2>4, <2>5, RelinkPrev
  <2>9. Merged(m, p, blk, mem') BY <2>7, <2>8
  <2>10. FreeBlock(mem', end, live, p) /\ NoneFree(mem', Addr, {}) BY <2>4, <2>5, <2>9, PrevMerged
  <2>11. mem' \in Headers BY <2>9 DEF Merged
  <2> QED BY <1>0, <2>1, <2>3, <2>10, <2>11 DEF HeapInv, FreeBlock, Idle
<1> QED BY <1>2, <1>3, <1>4, <1>5

(* Without preemption every step keeps the invariant.                      *)
LEMMA HeapStep ==
  ASSUME Preempt = FALSE
  PROVE  HeapInv /\ [Next]_heapVars => HeapInv'
<1> SUFFICES ASSUME HeapInv, [Next]_heapVars PROVE HeapInv' OBVIOUS
<1>1. CASE UNCHANGED heapVars
  <2>1. mem' = mem /\ end' = end /\ live' = live /\ op' = op /\ blk' = blk BY <1>1 DEF heapVars, blk
  <2>2. \A m : (MergesNext(m, blk)' <=> MergesNext(m, blk)) /\ (MergesPrev(m, blk)' <=> MergesPrev(m, blk))
    BY <2>1 DEF MergesNext, MergesPrev
  <2>3. (\E m \in Headers : MergesNext(m, blk) /\ mem = Grown(m, blk))'
          <=> \E m \in Headers : MergesNext(m, blk) /\ mem = Grown(m, blk)
    BY <2>1, <2>2
  <2>4. (\E m \in Headers : MergesNext(m, blk) /\ mem = forget(Skipped(m, blk), m[blk].next))'
          <=> \E m \in Headers : MergesNext(m, blk) /\ mem = forget(Skipped(m, blk), m[blk].next)
    BY <2>1, <2>2
  <2>5. (\E m \in Headers : MergesPrev(m, blk) /\ mem = Grown(m, m[blk].prev))'
          <=> \E m \in Headers : MergesPrev(m, blk) /\ mem = Grown(m, m[blk].prev)
    BY <2>1, <2>2
  <2>6. (\E m \in Headers : MergesPrev(m, blk) /\ mem = Skipped(m, m[blk].prev))'
          <=> \E m \in Headers : MergesPrev(m, blk) /\ mem = Skipped(m, m[blk].prev)
    BY <2>1, <2>2
  <2>7. (MergesNext(mem, blk)' <=> MergesNext(mem, blk)) /\ (MergesPrev(mem, blk)' <=> MergesPrev(mem, blk))
    BY <2>1 DEF MergesNext, MergesPrev
  <2> QED BY <2>1, <2>3, <2>4, <2>5, <2>6, <2>7 DEF HeapInv
<1>2. CASE \E n \in Sizes : kmalloc(n) \/ kmalloc_expand(n) BY <1>2, KmallocKeeps
<1>3. CASE \E a \in live : kfree(a) BY <1>3, KfreeKeeps
<1>4. CASE kfree_test_next \/ kfree_grow \/ kfree_unlink \/ kfree_relink BY <1>4, KfreeNextKeeps
<1>5. CASE kfree_test_prev \/ kfree_prev_grow \/ kfree_prev_unlink \/ kfree_prev_relink
  BY <1>5, KfreePrevKeeps
<1> QED BY <1>1, <1>2, <1>3, <1>4, <1>5 DEF Next

(* In the middle of a kfree too there is a heap in order whose blocks in   *)
(* use are those of memory.                                                *)
LEMMA SoundHeap ==
  ASSUME HeapInv
  PROVE  \E m \in Headers : HeapOf(m, end) /\ LiveOK(m, live) /\ \A a \in Used(m) : mem[a] = m[a]
<1>1. mem \in Headers BY DEF HeapInv
<1>2. CASE HeapOf(mem, end) /\ LiveOK(mem, live) BY <1>1, <1>2
<1>3. ASSUME NEW m \in Headers, NEW b, FreePair(m, end, live, b),
             \/ mem = Grown(m, b) \/ mem = Skipped(m, b) \/ mem = forget(Skipped(m, b), m[b].next)
      PROVE  HeapOf(m, end) /\ LiveOK(m, live) /\ \A a \in Used(m) : mem[a] = m[a]
  <2>1. HeapOf(m, end) /\ LiveOK(m, live) /\ b \in Heads(m) /\ m[b].free /\ m[b].next # Null
      /\ m[m[b].next].free
    BY <1>3 DEF FreePair, FreeBlock
  <2>2. PICK n \in Addr : n = m[b].next /\ n # b
    <3>1. /\ m[b].next \in Heads(m) /\ m[b].next = b + HEADER + m[b].payload_size /\ b \in Nat
          /\ m[b].payload_size \in Nat
      BY <2>1, BlockFacts
    <3> QED BY <3>1, HeapSizes DEF Heads
  <2>3. b \in Addr BY <2>1 DEF Heads
  <2>4. \A a \in Used(m) : a \in Addr \ {b, n} BY <2>1, <2>2 DEF Used, Heads
  <2>5. \A a \in Addr \ {b, n} : Grown(m, b)[a] = m[a] /\ Skipped(m, b)[a] = m[a]
      /\ forget(Skipped(m, b), n)[a] = m[a]
    BY <2>2, <2>3, MergeStages
  <2> QED BY <1>3, <2>1, <2>2, <2>4, <2>5
<1>4. CASE op.at \in {"none", "test_next", "grow", "test_prev", "prev_grow"}
  BY <1>2, <1>4 DEF HeapInv, MergesNext, MergesPrev, FreePair, FreeBlock
<1>5. CASE op.at \in {"unlink", "relink"} BY <1>3, <1>5 DEF HeapInv, MergesNext
<1>6. CASE op.at \in {"prev_unlink", "prev_relink"} BY <1>3, <1>6 DEF HeapInv, MergesPrev
<1>7. op.at \in KfreeStep \cup {"none"} BY DEF HeapInv, Idle
<1> QED BY <1>4, <1>5, <1>6, <1>7 DEF KfreeStep

(* The heap without preemption, for every sequence of kmalloc and kfree,   *)
(* all sizes and every step of a kfree: between calls the blocks tile the  *)
(* heap, their links agree, and no two neighbours are free.                *)
THEOREM HeapTiles ==
  ASSUME Preempt = FALSE
  PROVE  Spec => []Tiles
<1>1. HeapInv => Tiles
  <2> SUFFICES ASSUME HeapInv PROVE Tiles OBVIOUS
  <2>1. PICK m \in Headers : HeapOf(m, end) /\ LiveOK(m, live) BY SoundHeap
  <2>2. HeapTypeOK
    <3>1. mem \in [Addr -> [payload_size: Int, next: Addr \cup {Null}, prev: Addr \cup {Null}, free: BOOLEAN]]
      <4>1. Header \subseteq [payload_size: Int, next: Addr \cup {Null}, prev: Addr \cup {Null},
          free: BOOLEAN]
        BY DEF Header, Link
      <4> QED BY <4>1 DEF HeapInv, Headers
    <3>2. end \in 1 .. Limit
      <4>1. 0 \in Heads(m) /\ end \in Nat /\ end <= Limit BY <2>1 DEF HeapOf
      <4>2. 0 + HEADER + m[0].payload_size <= end /\ m[0].payload_size \in Nat BY <2>1, <4>1, BlockFacts
      <4> QED BY <4>1, <4>2, HeapSizes
    <3>3. \A a \in live : a.block \in Addr /\ a.size \in Sizes BY <2>1 DEF LiveOK
    <3> QED BY <3>1, <3>2, <3>3 DEF HeapTypeOK, Limit
  <2>3. CASE op = Idle
    <3>1. HeapOf(mem, end) /\ NoneFree(mem, Addr, {}) BY <2>3 DEF HeapInv, Idle
    <3>2. Blocks = Heads(mem) BY <3>1, BlocksLemma
    <3>3. Coalesced
      <4> SUFFICES ASSUME NEW b \in Heads(mem), mem[b].free, mem[b].next # Null PROVE ~mem[mem[b].next].free
        BY <3>2 DEF Coalesced
      <4>1. b \in Addr BY DEF Heads
      <4> QED BY <3>1, <4>1 DEF NoneFree
    <3>4. ASSUME NEW b \in Heads(mem)
          PROVE  /\ mem[b].payload_size > 0
                 /\ BLOCK_END(mem, b) = IF mem[b].next = Null THEN end ELSE mem[b].next
                 /\ mem[b].next # Null => mem[mem[b].next].prev = b
      BY <3>1, BlockFacts
    <3> QED BY <2>2, <3>2, <3>3, <3>4 DEF Tiles
  <2>4. CASE op # Idle BY <2>2, <2>4 DEF Tiles, Coalesced
  <2> QED BY <2>3, <2>4
<1> QED BY <1>1, HeapInitially, HeapStep, PTL DEF Spec

(* Without preemption what kmalloc handed out and kfree did not take back  *)
(* are exactly the blocks in use, each as large as asked for: nothing      *)
(* leaks, and no block is handed out twice.                                *)
THEOREM HeapLive ==
  ASSUME Preempt = FALSE
  PROVE  Spec => []LiveBlocks
<1>1. HeapInv => LiveBlocks
  <2> SUFFICES ASSUME HeapInv, op = Idle
               PROVE  /\ {b \in Blocks : ~mem[b].free} = {a.block : a \in live}
                      /\ \A a \in live : mem[a.block].payload_size >= a.size
    BY DEF LiveBlocks
  <2>1. HeapOf(mem, end) /\ LiveOK(mem, live) BY DEF HeapInv, Idle
  <2>2. Blocks = Heads(mem) BY <2>1, BlocksLemma
  <2>3. {b \in Blocks : ~mem[b].free} = Used(mem) BY <2>2 DEF Used
  <2> QED BY <2>1, <2>3 DEF LiveOK
<1> QED BY <1>1, HeapInitially, HeapStep, PTL DEF Spec

(* The promise that the run heap_race shows broken holds without           *)
(* preemption, at every step of a kfree too: allocations are disjoint.     *)
THEOREM HeapDisjoint ==
  ASSUME Preempt = FALSE
  PROVE  Spec => []AllocationsDisjoint
<1>1. HeapInv => AllocationsDisjoint
  <2> SUFFICES ASSUME HeapInv, NEW a \in live, NEW b \in live, a # b
               PROVE  \/ a.block + HEADER + mem[a.block].payload_size <= b.block
                      \/ b.block + HEADER + mem[b.block].payload_size <= a.block
    BY DEF AllocationsDisjoint
  <2>1. PICK m \in Headers : HeapOf(m, end) /\ LiveOK(m, live) /\ \A x \in Used(m) : mem[x] = m[x]
    BY SoundHeap
  <2>2. PICK x \in Used(m), y \in Used(m) : x = a.block /\ y = b.block /\ x # y BY <2>1 DEF LiveOK
  <2>3. x \in Heads(m) /\ y \in Heads(m) BY DEF Used
  <2>4. x \in Nat /\ y \in Nat BY <2>1, <2>3, BlockFacts
  <2>5. CASE x < y
    <3>1. BLOCK_END(m, x) <= y BY <2>1, <2>3, <2>5 DEF HeapOf, Apart
    <3> QED BY <2>1, <2>2, <3>1 DEF BLOCK_END
  <2>6. CASE y < x
    <3>1. BLOCK_END(m, y) <= x BY <2>1, <2>3, <2>6 DEF HeapOf, Apart
    <3> QED BY <2>1, <2>2, <3>1 DEF BLOCK_END
  <2> QED BY <2>2, <2>4, <2>5, <2>6
<1> QED BY <1>1, HeapInitially, HeapStep, PTL DEF Spec
=============================================================================
