---------------------------- MODULE PageFreeList ----------------------------
(***************************************************************************)
(* The list of free pages of kern/pmap.c: page_init(), which builds it,    *)
(* and check_page_free_list(), which relinks it in place and then tries to *)
(* break it.  Nothing reaches them at this commit, mem_init() panics       *)
(* first; the array pages and the list that page_alloc() and page_free()   *)
(* leave are taken as their comments in pmap.c say.                        *)
(*                                                                         *)
(* A page is its number, and stands for its PageInfo too: a pointer to a   *)
(* PageInfo is a page number, a pointer to a pointer is a cell, the        *)
(* pp_link of a page or one of the locals pp1 and pp2.  pp_ref is left     *)
(* out, nothing here reads it.                                             *)
(***************************************************************************)
EXTENDS Integers, Sequences, FiniteSets

CONSTANTS
  npages,
  NPTENTRIES, NPDENTRIES,  \* 1024 and 1024
  IOPHYSMEM, EXTPHYSMEM, KERNBASE,  \* in pages: 0xA0, 0x100, 0xF0000
  end,       \* the first page behind the kernel, from KERNBASE on
  Kernel,    \* pages whose first 128 bytes the kernel cannot lose
  Holds,     \* the pages whose PageInfo is in the first 128 bytes of a page
  Lists,     \* the lists an allocator may have left
  NULL,
  Garbage,   \* a pointer not set, or four bytes of 0x97
  PP1, PP2   \* the cells &pp1 and &pp2

Pages    == 0 .. npages - 1
Cells    == Pages \cup {PP1, PP2}
Pointers == Pages \cup {NULL, Garbage}

Distinct(l) == \A j, k \in DOMAIN l : l[j] = l[k] => j = k

ASSUME PageAssumption ==
  /\ npages \in Nat /\ NPTENTRIES \in Nat \ {0} /\ NPDENTRIES \in Nat \ {0}
  /\ IOPHYSMEM \in Nat /\ EXTPHYSMEM \in Nat /\ KERNBASE \in Nat
  /\ end \in Nat
  /\ Kernel \subseteq Pages
  /\ Holds \in [Pages -> SUBSET Pages]
  /\ \A l \in Lists : l \in Seq(Pages) /\ Distinct(l)
  /\ {NULL, Garbage, PP1, PP2} \cap Int = {}
  /\ NULL # Garbage /\ PP1 # PP2

VARIABLES
  link,            \* what each cell points to
  page_free_list,
  i,               \* of page_init
  only_low_memory,
  pp, tp,          \* of check_page_free_list, with the count of each kind
  nfree_basemem, nfree_extmem,
  nextfree, first_free_page,
  before,          \* history: the list as the check found it
  marked,          \* history: the pages filled with 0x97
  pc

list  == <<link, page_free_list>>
boot  == <<nextfree, first_free_page>>
count == <<nfree_basemem, nfree_extmem>>
vars  == <<list, i, only_low_memory, pp, tp, count, boot, before, marked, pc>>

Listed == {before[k] : k \in DOMAIN before}

PageTypeOK ==
  /\ link \in [Cells -> Pointers]
  /\ page_free_list \in Pointers
  /\ i \in 0 .. npages
  /\ only_low_memory \in BOOLEAN
  /\ pp \in Pointers /\ tp \in [{0, 1} -> Cells]
  /\ before \in Seq(Pages)
  /\ pc \in {"page_init", "call", "relink", "scribble", "assert", "done",
             "panic", "fault", "lost"}

-----------------------------------------------------------------------------
(* The list before the check.                                              *)

Unlinked == [c \in Cells |-> IF c \in Pages THEN NULL ELSE Garbage]

Linked(l) ==
  [c \in Cells |->
     IF \E k \in DOMAIN l : l[k] = c
     THEN LET k == CHOOSE k \in DOMAIN l : l[k] = c IN
          IF k < Len(l) THEN l[k + 1] ELSE NULL
     ELSE Unlinked[c]]

(* A check follows page_init, or comes when pages have been allocated and  *)
(* freed.                                                                  *)
Init ==
  /\ \/ /\ pc = "page_init" /\ only_low_memory = TRUE
        /\ before = <<>>
     \/ /\ pc = "call" /\ only_low_memory \in BOOLEAN
        /\ before \in Lists
  /\ link = Linked(before)
  /\ page_free_list = IF before = <<>> THEN NULL ELSE before[1]
  /\ i = 0
  /\ pp = Garbage /\ tp = [t \in {0, 1} |-> IF t = 0 THEN PP1 ELSE PP2]
  /\ nfree_basemem = 0 /\ nfree_extmem = 0
  /\ nextfree = 0 /\ first_free_page = 0
  /\ marked = {}

page_init ==
  /\ pc = "page_init" /\ i < npages
  /\ link' = [link EXCEPT ![i] = page_free_list]
  /\ page_free_list' = i
  /\ before' = <<i>> \o before
  /\ i' = i + 1
  /\ UNCHANGED <<only_low_memory, pp, tp, count, boot, marked, pc>>

page_init_done ==
  /\ pc = "page_init" /\ i = npages
  /\ pc' = "call"
  /\ UNCHANGED <<list, i, only_low_memory, pp, tp, count, boot, before,
                 marked>>

-----------------------------------------------------------------------------
(* check_page_free_list.                                                   *)

PDX(p) == (p \div NPTENTRIES) % NPDENTRIES

pdx_limit_any == NPDENTRIES

pdx_limit == IF only_low_memory THEN 1 ELSE NPDENTRIES

call == <<i, only_low_memory, before>>

check_page_free_list ==
  /\ pc = "call"
  /\ IF page_free_list = NULL
       THEN pc' = "panic" /\ UNCHANGED pp
       ELSE /\ pp' = page_free_list
            /\ pc' = IF only_low_memory THEN "relink" ELSE "scribble"
  /\ UNCHANGED <<list, call, tp, count, boot, marked>>

pagetype(p) == IF PDX(p) >= pdx_limit THEN 1 ELSE 0

(* Hangs the page on the end of the list of its type.                      *)
Relink ==
  /\ pc = "relink" /\ pp # NULL
  /\ link' = [link EXCEPT ![tp[pagetype(pp)]] = pp]
  /\ tp' = [tp EXCEPT ![pagetype(pp)] = pp]
  /\ pp' = link'[pp]
  /\ UNCHANGED <<page_free_list, call, count, boot, marked, pc>>

JoinLists(terminated) ==
  /\ pc = "relink" /\ pp = NULL
  /\ link' = [terminated EXCEPT ![tp[0]] = terminated[PP2]]
  /\ page_free_list' = link'[PP1]
  /\ pp' = link'[PP1]
  /\ pc' = "scribble"
  /\ UNCHANGED <<call, tp, count, boot, marked>>

Join_unterminated == JoinLists(link)

(* *tp[1] = 0, *tp[0] = pp2 and page_free_list = pp1, in this order: with  *)
(* no page of a type its tp still points to pp1 or pp2.                    *)
Join == JoinLists([link EXCEPT ![tp[1]] = NULL])

(* entry_pgdir maps the first 4 MB, the finished kern_pgdir everything, up *)
(* to the 256 MB that this kernel is for.                                  *)
Mapped(p) == only_low_memory => PDX(p) = 0

(* memset(page2kva(pp), 0x97, 128), which destroys what the page holds.    *)
Scribble ==
  /\ pc = "scribble" /\ pp \in Pages /\ PDX(pp) < pdx_limit
  /\ IF Mapped(pp)
       THEN /\ marked' = marked \cup {pp}
            /\ link' = [c \in Cells |->
                          IF c \in Holds[pp] THEN Garbage ELSE link[c]]
            /\ pp' = link'[pp]
            /\ pc' = IF pp \in Kernel THEN "lost" ELSE pc
       ELSE /\ pc' = "fault"
            /\ UNCHANGED <<link, pp, marked>>
  /\ UNCHANGED <<page_free_list, call, tp, count, boot>>

Skip ==
  /\ pc = "scribble" /\ pp \in Pages /\ PDX(pp) >= pdx_limit
  /\ pp' = link[pp]
  /\ UNCHANGED <<list, call, tp, count, boot, marked, pc>>

(* The number of a page that is none is too large for KADDR, or its        *)
(* pp_link is at an address that is not mapped.                            *)
Wild ==
  /\ pc = "scribble" /\ pp = Garbage
  /\ pc' \in {"panic", "fault"}
  /\ UNCHANGED <<list, call, pp, tp, count, boot, marked>>

(* At this commit it returns NULL, whatever n.                             *)
boot_alloc(n) ==
  /\ nextfree' = IF nextfree = 0 THEN KERNBASE + end ELSE nextfree
  /\ first_free_page' = 0

FirstFree ==
  /\ pc = "scribble" /\ pp = NULL
  /\ boot_alloc(0)
  /\ pp' = page_free_list
  /\ pc' = "assert"
  /\ UNCHANGED <<list, call, tp, count, marked>>

page2kva(p) == KERNBASE + p

(* The pages the check knows to be in use.                                 *)
InUse(p) ==
  \/ p \in {0, IOPHYSMEM, EXTPHYSMEM - 1, EXTPHYSMEM}
  \/ p >= EXTPHYSMEM /\ page2kva(p) < first_free_page

AssertHolds ==
  /\ pc = "assert" /\ pp \in Pages /\ ~InUse(pp)
  /\ IF pp < EXTPHYSMEM
       THEN nfree_basemem' = nfree_basemem + 1 /\ UNCHANGED nfree_extmem
       ELSE nfree_extmem' = nfree_extmem + 1 /\ UNCHANGED nfree_basemem
  /\ pp' = link[pp]
  /\ UNCHANGED <<list, call, tp, boot, marked, pc>>

AssertFails ==
  /\ pc = "assert" /\ pp # NULL /\ (pp \in Pages => InUse(pp))
  /\ pc' = "panic"
  /\ UNCHANGED <<list, call, pp, tp, count, boot, marked>>

EndCheck ==
  /\ pc = "assert" /\ pp = NULL
  /\ pc' = IF nfree_basemem > 0 /\ nfree_extmem > 0 THEN "done" ELSE "panic"
  /\ UNCHANGED <<list, call, pp, tp, count, boot, marked>>

Next ==
  \/ page_init \/ page_init_done
  \/ check_page_free_list \/ Relink \/ Join
  \/ Scribble \/ Skip \/ Wild
  \/ FirstFree \/ AssertHolds \/ AssertFails \/ EndCheck

Spec == Init /\ [][Next]_vars

-----------------------------------------------------------------------------
(* Properties.                                                             *)

(* The order the relinked list is to have: low pages first, and those of   *)
(* one kind as they were.                                                  *)
Ahead(u, v) ==
  \/ pagetype(u) < pagetype(v)
  \/ /\ pagetype(u) = pagetype(v)
     /\ \E j, k \in DOMAIN before : j < k /\ before[j] = u /\ before[k] = v

Follows(u, v) ==
  IF v = NULL THEN \A w \in Listed : ~Ahead(u, w)
  ELSE /\ v \in Listed /\ Ahead(u, v)
       /\ \A w \in Listed : ~(Ahead(u, w) /\ Ahead(w, v))

(* The list comes back whole from being taken apart through the pointers   *)
(* to its two tails: it begins with its first low page, every page is      *)
(* followed by the next of its kind and the last low one by the first      *)
(* high one, also when there are no pages of one kind.  Only the marks     *)
(* destroy a link.                                                         *)
Relinked ==
  only_low_memory /\ pc \in {"scribble", "assert", "done"} =>
    /\ page_free_list \in Listed
    /\ \A w \in Listed : ~Ahead(w, page_free_list)
    /\ \A u \in Listed : link[u] = Garbage \/ Follows(u, link[u])

Low(p)    == p < EXTPHYSMEM
Markable  == {p \in Listed : only_low_memory => PDX(p) = 0}
BreaksList == \E p \in Markable : Holds[p] \cap Listed # {}

(* The check passes only a list that has pages of both kinds and none of   *)
(* those in use, after marking every page it can reach, and having counted *)
(* each page once; and it stops the kernel only over a list that is at     *)
(* fault, never by touching a page that is not mapped.                     *)
CheckIsRight ==
  /\ PageTypeOK
  /\ pc = "done" =>
       /\ Listed \cap {0, IOPHYSMEM, EXTPHYSMEM - 1, EXTPHYSMEM} = {}
       /\ marked = Markable /\ marked \cap Kernel = {}
       /\ \A p \in Listed : link[p] # Garbage
       /\ nfree_basemem = Cardinality({p \in Listed : Low(p)})
       /\ nfree_extmem = Cardinality({p \in Listed : ~Low(p)})
       /\ nfree_basemem > 0 /\ nfree_extmem > 0
  /\ pc = "panic" =>
       \/ Listed \cap {0, IOPHYSMEM, EXTPHYSMEM - 1, EXTPHYSMEM} # {}
       \/ \A p \in Listed : Low(p)
       \/ \A p \in Listed : ~Low(p)
       \/ BreaksList
  /\ pc = "fault" => BreaksList
  /\ pc = "lost" => Markable \cap Kernel # {}
=============================================================================
