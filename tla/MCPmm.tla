-------------------------------- MODULE MCPmm --------------------------------
(* The page allocator on two small machines of pages of 2 bytes. *)
EXTENDS Pmm

(***************************************************************************)
(* Twelve pages: a reserved one, four usable ones the first of which is    *)
(* the bitmap's (2 bytes, exactly a page), a hole and reserved pages, and  *)
(* then four usable ones.                                                  *)
(***************************************************************************)
WholeMap == <<Entry(0, 2, FALSE), Entry(2, 8, TRUE), Entry(12, 4, FALSE),
              Entry(16, 8, TRUE)>>

(***************************************************************************)
(* Seven pages: the bitmap needs 1 byte, half a page, so pmm_init frees    *)
(* page 4, which is reserved, behind the entry that hosts the bitmap.      *)
(***************************************************************************)
RaggedMap == <<Entry(0, 2, FALSE), Entry(2, 6, TRUE), Entry(8, 2, FALSE),
               Entry(10, 4, TRUE)>>

MCCounts == {2, 3}
==============================================================================
