------------------------------- MODULE MCPmm -------------------------------
(* A memory of nine pages: page 0, one page of bitmap, a firmware hole,    *)
(* one page of kernel image and five pages to allocate, so that a hole of  *)
(* one page can be left behind the next-fit hint by a longer request.      *)
EXTENDS Pmm

MCPageCount == 9
MCConventional == (0 .. 8) \ {2}
MCBitmapRegion == {1}
MCKernelImage == {3}
=============================================================================
