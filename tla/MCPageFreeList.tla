--------------------------- MODULE MCPageFreeList ---------------------------
(* Ten pages, eight of them in the first page table: page 0, two free      *)
(* ones, the hole, the first of extended memory, one of the kernel, one of *)
(* the array pages and a free one; and two further up.                     *)
EXTENDS PageFreeList

MCKernel == {5}

(* The PageInfos of a low and of a high page can be lost.                  *)
MCHolds == [p \in Pages |-> IF p = 6 THEN {1, 8} ELSE {}]

(* Every list of up to five pages.                                         *)
MCLists ==
  UNION {{l \in [1 .. k -> Pages] : Distinct(l)} : k \in 0 .. 5}
=============================================================================
