----------------------------- MODULE KernelEntry ----------------------------
(***************************************************************************)
(* From the boot loader's jump to the prompt of the kernel monitor:        *)
(* kern/entry.S turns paging on with the page directory of entrypgdir.c,   *)
(* i386_init clears the BSS and starts the console, mem_init measures the  *)
(* memory and panics.  Every step is fetched through the page table in     *)
(* force at that moment, and so is everything it writes.                   *)
(*                                                                         *)
(* The unit of memory is the page: an address is a page number, and a page *)
(* holds a kind of contents.  Segmentation is left out: it is the identity *)
(* (boot.S).  The user bit is too: nothing runs in user mode.              *)
(***************************************************************************)
EXTENDS Naturals, Sequences, FiniteSetsExt

CONSTANTS
  NPDENTRIES, NPTENTRIES,  \* 1024 in the code
  KERNPDX,                 \* KERNBASE >> PDXSHIFT, 960
  CGA_BUF,                 \* the page of the screen, in the I/O hole
  EXTPHYSMEM,              \* the page the kernel is loaded at, 256
  Kernels,                 \* what ld made: the pages of the kernel in order
  RAMs                     \* sizes of memory, in kilobytes

Kinds == {"text", "pgdir", "pgtable", "stack", "bss"}

KERNBASE == KERNPDX * NPTENTRIES
Virtual  == 0 .. NPDENTRIES * NPTENTRIES - 1
Physical == 0 .. NPTENTRIES - 1       \* the 4MB the entry code knows of
MaxRAM   == 4 * 1024 * 1024           \* kilobytes that 32 bits address
MaxWord  == 65535                     \* what two bytes of the NVRAM hold

ASSUME EntryAssumption ==
  /\ NPDENTRIES \in Nat /\ NPTENTRIES \in Nat \ {0}
  /\ KERNPDX \in 1 .. NPDENTRIES - 1
  /\ CGA_BUF \in Nat \ {0} /\ EXTPHYSMEM \in Nat /\ CGA_BUF < EXTPHYSMEM
  /\ RAMs \subseteq 0 .. MaxRAM
  /\ \A kernel \in Kernels :
       /\ kernel \in Seq(Kinds)
       /\ EXTPHYSMEM + Len(kernel) <= NPTENTRIES
       /\ kernel[1] = "text"
       /\ \A kind \in {"pgdir", "pgtable", "stack"} :
            \E k \in DOMAIN kernel : kernel[k] = kind
       /\ \E k \in DOMAIN kernel : kernel[k] = "bss"

VARIABLES
  image,          \* the kernel that was loaded
  ram,            \* kilobytes of memory the machine has
  mem,            \* the contents of every physical page
  eip, esp,       \* the page executed, the page of the stack
  paging,         \* CR0_PG and CR0_WP
  cr3,            \* the physical page of the page directory
  cr4,            \* the page number in its high bits, the flags in its low
  panicstr,       \* "garbage" until the BSS is cleared, then "null" or "fmt"
  basemem, extmem, ext16mem, npages, npages_basemem,
  printed,        \* what has been shown on the console
  pc

memory == <<image, ram, mem>>
regs   == <<eip, esp, paging, cr3, cr4>>
sizes  == <<basemem, extmem, ext16mem, npages, npages_basemem>>
vars   == <<memory, regs, panicstr, sizes, printed, pc>>

-----------------------------------------------------------------------------
(* The image: link addresses are above KERNBASE, load addresses below.     *)

RELOC(v) == v - KERNBASE

Link(k) == KERNBASE + EXTPHYSMEM + k - 1

LinkOf(kind) == {Link(k) : k \in {j \in DOMAIN image : image[j] = kind}}

entry        == Link(1)
pgdir_page   == Min(LinkOf("pgdir"))
pgtable_page == Min(LinkOf("pgtable"))
bootstacktop == Max(LinkOf("stack"))
c_code       == Max(LinkOf("text"))
bss          == LinkOf("bss")
console_page == Min(bss)   \* where crt_buf, crt_pos and cons are

-----------------------------------------------------------------------------
(* entrypgdir.c, and the walk of the MMU.                                  *)

Entry(page, writable) == [page |-> page, PTE_W |-> writable]

entry_pgdir_no_low ==
  [d \in {KERNPDX} |-> Entry(RELOC(pgtable_page), TRUE)]

entry_pgdir ==
  [d \in {0, KERNPDX} |-> Entry(RELOC(pgtable_page), d = KERNPDX)]

entry_pgtable_shifted ==
  [t \in 0 .. NPTENTRIES - 1 |-> Entry((t + 1) % NPTENTRIES, TRUE)]

entry_pgtable == [t \in 0 .. NPTENTRIES - 1 |-> Entry(t, TRUE)]

PDX(v) == v \div NPTENTRIES
PTX(v) == v % NPTENTRIES

(* There is a translation as long as both tables are still in memory.      *)
Mapped(v) ==
  IF ~paging THEN v \in Physical
  ELSE /\ mem[cr3] = "pgdir"
       /\ PDX(v) \in DOMAIN entry_pgdir
       /\ mem[entry_pgdir[PDX(v)].page] = "pgtable"
       /\ PTX(v) \in DOMAIN entry_pgtable

Translate(v) == IF paging THEN entry_pgtable[PTX(v)].page ELSE v

(* With CR0_WP a page is written only if both entries allow it.            *)
Writable(v) ==
  /\ Mapped(v)
  /\ paging => entry_pgdir[PDX(v)].PTE_W /\ entry_pgtable[PTX(v)].PTE_W

(* An instruction is fetched from the page it was linked to be on.         *)
Fetched ==
  /\ Mapped(eip)
  /\ mem[Translate(eip)] = "text"
  /\ Translate(eip) = IF eip >= KERNBASE THEN RELOC(eip) ELSE eip

-----------------------------------------------------------------------------
(* What each step writes besides the stack, which it has from the call on. *)

BDA == 0   \* 0x472, the warm boot flag, is in the first page

Writes(step) ==
  CASE step = "entry"  -> {BDA}
    [] step = "memset" -> bss
    [] step \in {"cprintf", "cons_init", "memory", "panic"} ->
         {console_page, KERNBASE + CGA_BUF}
    [] OTHER -> {}

StacklessSteps == {"entry", "load_cr3", "load_cr4", "load_cr0", "set_cr4",
                   "jump", "relocated"}

Stacked ==
  pc \notin StacklessSteps =>
    Writable(esp) /\ mem[Translate(esp)] = "stack"

(* Nobody has set up an IDT: a step that cannot be fetched or cannot write *)
(* resets the machine, and is not taken.                                   *)
Executable ==
  Fetched /\ (\A v \in Writes(pc) : Writable(v)) /\ Stacked

Runs(step) == pc = step /\ Executable

-----------------------------------------------------------------------------
(* entry.S.                                                                *)

movw_warm_boot ==
  /\ Runs("entry")
  /\ pc' = "load_cr3"
  /\ UNCHANGED <<memory, regs, panicstr, sizes, printed>>

load_cr3 ==
  /\ Runs("load_cr3")
  /\ cr3' = RELOC(pgdir_page)
  /\ pc' = "load_cr4"
  /\ UNCHANGED <<memory, eip, esp, paging, cr4, panicstr, sizes, printed>>

(* The address of the page directory goes to cr4 too.  A processor that    *)
(* does not know the bits would reset here; this one takes them.           *)
load_cr4 ==
  /\ Runs("load_cr4")
  /\ cr4' = [page |-> RELOC(pgdir_page), flags |-> {}]
  /\ pc' = "load_cr0"
  /\ UNCHANGED <<memory, eip, esp, paging, cr3, panicstr, sizes, printed>>

load_cr0 ==
  /\ Runs("load_cr0")
  /\ paging' = TRUE
  /\ pc' = "set_cr4"
  /\ UNCHANGED <<memory, eip, esp, cr3, cr4, panicstr, sizes, printed>>

set_cr4 ==
  /\ Runs("set_cr4")
  /\ cr4' = [cr4 EXCEPT !.flags = @ \cup {"PVI", "PSE", "VME"}]
  /\ pc' = "jump"
  /\ UNCHANGED <<memory, eip, esp, paging, cr3, panicstr, sizes, printed>>

jump ==
  /\ Runs("jump")
  /\ eip' = entry
  /\ pc' = "relocated"
  /\ UNCHANGED <<memory, esp, paging, cr3, cr4, panicstr, sizes, printed>>

relocated ==
  /\ Runs("relocated")
  /\ esp' = bootstacktop
  /\ pc' = "call_i386_init"
  /\ UNCHANGED <<memory, eip, paging, cr3, cr4, panicstr, sizes, printed>>

call_i386_init ==
  /\ Runs("call_i386_init")
  /\ eip' = c_code
  /\ pc' = "memset"
  /\ UNCHANGED <<memory, esp, paging, cr3, cr4, panicstr, sizes, printed>>

-----------------------------------------------------------------------------
(* init.c.                                                                 *)

ClearsBss ==
  /\ mem' = [p \in Physical |->
               IF \E v \in bss : Translate(v) = p THEN "zero" ELSE mem[p]]
  /\ panicstr' = "null"

memset_forgotten ==
  /\ Runs("memset")
  /\ pc' = "cons_init"
  /\ UNCHANGED <<memory, regs, panicstr, sizes, printed>>

memset_late ==
  \/ /\ Runs("memset")
     /\ pc' = "cons_init"
     /\ UNCHANGED <<memory, regs, panicstr, sizes, printed>>
  \/ /\ Runs("cprintf")
     /\ ClearsBss
     /\ UNCHANGED <<image, ram, regs, sizes, printed, pc>>

memset ==
  /\ Runs("memset")
  /\ ClearsBss
  /\ pc' = "cons_init"
  /\ UNCHANGED <<image, ram, regs, sizes, printed>>

(* The hardware of the console is in ConsoleInput and ConsoleOutput.       *)
cons_init ==
  /\ Runs("cons_init")
  /\ mem' = [mem EXCEPT ![Translate(console_page)] = "console"]
  /\ pc' = "cprintf"
  /\ UNCHANGED <<image, ram, regs, panicstr, sizes, printed>>

cprintf_6828 ==
  /\ Runs("cprintf")
  /\ printed' = Append(printed, "6828_decimal")
  /\ pc' = "base"
  /\ UNCHANGED <<memory, regs, panicstr, sizes>>

-----------------------------------------------------------------------------
(* i386_detect_memory and the NVRAM of the real-time clock, which the      *)
(* firmware has filled with what fits into two bytes.                      *)

NVRAM_BASELO  == 21
NVRAM_EXTLO   == 23
NVRAM_EXT16LO == 52

Bytes(lo, n) ==
  [r \in {lo, lo + 1} |-> IF r = lo THEN n % 256 ELSE n \div 256]

AtMost(n, limit) == IF n > limit THEN limit ELSE n
Above(n, start)  == IF n > start THEN n - start ELSE 0

nvram(r) ==
  CASE r \in {NVRAM_BASELO, NVRAM_BASELO + 1} ->
         Bytes(NVRAM_BASELO, AtMost(ram, 640))[r]
    [] r \in {NVRAM_EXTLO, NVRAM_EXTLO + 1} ->
         Bytes(NVRAM_EXTLO, AtMost(Above(ram, 1024), MaxWord))[r]
    [] r \in {NVRAM_EXT16LO, NVRAM_EXT16LO + 1} ->
         Bytes(NVRAM_EXT16LO, AtMost(Above(ram, 16384) \div 64, MaxWord))[r]

mc146818_read(r) == nvram(r)

nvram_read(r) == mc146818_read(r) + 256 * mc146818_read(r + 1)

read_base ==
  /\ Runs("base")
  /\ basemem' = nvram_read(NVRAM_BASELO)
  /\ pc' = "ext"
  /\ UNCHANGED <<memory, regs, panicstr, extmem, ext16mem, npages,
                 npages_basemem, printed>>

read_ext ==
  /\ Runs("ext")
  /\ extmem' = nvram_read(NVRAM_EXTLO)
  /\ pc' = "ext16"
  /\ UNCHANGED <<memory, regs, panicstr, basemem, ext16mem, npages,
                 npages_basemem, printed>>

read_ext16 ==
  /\ Runs("ext16")
  /\ ext16mem' = nvram_read(NVRAM_EXT16LO) * 64
  /\ pc' = "memory"
  /\ UNCHANGED <<memory, regs, panicstr, basemem, extmem, npages,
                 npages_basemem, printed>>

totalmem_adds ==
  16 * 1024 + ext16mem + extmem

totalmem ==
  IF ext16mem # 0 THEN 16 * 1024 + ext16mem
  ELSE IF extmem # 0 THEN 1024 + extmem ELSE basemem

i386_detect_memory ==
  /\ Runs("memory")
  /\ npages' = totalmem \div 4
  /\ npages_basemem' = basemem \div 4
  /\ printed' = Append(printed, "Physical_memory")
  /\ pc' = "panic"
  /\ UNCHANGED <<memory, regs, panicstr, basemem, extmem, ext16mem>>

(* mem_init goes no further.                                               *)
_panic ==
  /\ Runs("panic")
  /\ IF panicstr # "null"
       THEN UNCHANGED <<panicstr, printed>>
       ELSE panicstr' = "fmt" /\ printed' = Append(printed, "kernel_panic")
  /\ pc' = "monitor"
  /\ UNCHANGED <<memory, regs, sizes>>

-----------------------------------------------------------------------------
(* The sizes stay in what the registers of the NVRAM and the address space *)
(* can hold.                                                               *)
TypeOK ==
  /\ image \in Kernels /\ ram \in RAMs
  /\ mem \in [Physical -> Kinds \cup {"free", "device", "zero", "console"}]
  /\ eip \in Virtual /\ esp \in Virtual
  /\ paging \in BOOLEAN
  /\ cr3 \in Physical
  /\ cr4 \in [page : Physical, flags : SUBSET {"PVI", "PSE", "VME"}]
  /\ panicstr \in {"garbage", "null", "fmt"}
  \* size_t counts of pages of a 32-bit machine
  /\ npages \in 0 .. MaxRAM \div 4 /\ npages_basemem \in 0 .. npages
  /\ basemem \in 0 .. 640 /\ extmem \in 0 .. MaxWord
  /\ ext16mem \in 0 .. 64 * MaxWord
  /\ printed \in Seq({"6828_decimal", "Physical_memory", "kernel_panic"})
  /\ pc \in StacklessSteps \cup
       {"call_i386_init", "memset", "cons_init", "cprintf", "base", "ext",
        "ext16", "memory", "panic", "monitor"}

(* The boot loader has copied the image to its load addresses and jumps to *)
(* the load address of entry.  The BSS holds what was on the disk, and the *)
(* stack is still the boot loader's.                                       *)
Init ==
  /\ image \in Kernels /\ ram \in RAMs
  /\ mem = [p \in Physical |->
              IF p = CGA_BUF THEN "device"
              ELSE IF p - EXTPHYSMEM + 1 \in DOMAIN image
              THEN image[p - EXTPHYSMEM + 1] ELSE "free"]
  /\ eip = RELOC(entry) /\ esp = BDA
  /\ paging = FALSE /\ cr3 = 0 /\ cr4 = [page |-> 0, flags |-> {}]
  /\ panicstr \in {"garbage", "null"}
  /\ basemem = 0 /\ extmem = 0 /\ ext16mem = 0
  /\ npages = 0 /\ npages_basemem = 0
  /\ printed = <<>>
  /\ pc = "entry"

Next ==
  \/ movw_warm_boot \/ load_cr3 \/ load_cr4 \/ load_cr0 \/ set_cr4
  \/ jump \/ relocated \/ call_i386_init
  \/ memset \/ cons_init \/ cprintf_6828
  \/ read_base \/ read_ext \/ read_ext16 \/ i386_detect_memory \/ _panic

Spec == Init /\ [][Next]_vars

-----------------------------------------------------------------------------
(* Properties.                                                             *)

(* Every instruction from entry to the monitor is fetched from where it    *)
(* was loaded, and every page it writes is mapped and writable, whichever  *)
(* pages ld put the tables and the stack on: in particular the two that    *)
(* run at a low address with paging on.                                    *)
NoFault == TypeOK /\ Executable

(* Nothing is printed before the console's variables are in place, and     *)
(* nothing erases them afterwards: the BSS is cleared before cons_init.    *)
ConsoleKept ==
  pc \in {"cprintf", "base", "ext", "ext16", "memory", "panic", "monitor"}
    => mem[RELOC(console_page)] = "console"

(* mem_init never counts memory the machine does not have, and misses less *)
(* than the 64K the NVRAM can express, unless memory ends inside or below  *)
(* the I/O hole.                                                           *)
MemoryMeasured ==
  pc \in {"panic", "monitor"} =>
    /\ npages * 4 <= ram
    /\ ram > 1024 => ram - npages * 4 < 64
    /\ npages_basemem * 4 <= 640
=============================================================================
