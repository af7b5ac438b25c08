----------------------------- MODULE BootLoader -----------------------------
(***************************************************************************)
(* The boot loader: boot/boot.S enables address line 20 through the        *)
(* keyboard controller, boot/main.c reads the ELF header of the kernel     *)
(* from the disk, loads its segments sector by sector and jumps to it.     *)
(* The keyboard controller and the disk work on their own between the      *)
(* polls of the processor, and while the line is off every address in an   *)
(* odd megabyte reaches the memory one megabyte below it.                  *)
(*                                                                         *)
(* Memory and disk hold no real bytes: a cell holds the offset, in the     *)
(* kernel image, of the byte that was copied there.  The segment registers *)
(* and the GDT of boot.S are left out.  Once a sector has wrapped onto the *)
(* loader itself nothing is known of what runs: the model stops there,     *)
(* which leaves nothing out of the properties, as they then claim nothing. *)
(***************************************************************************)
EXTENDS Integers, Sequences

CONSTANTS
  SECTSIZE,   \* 512 in the code
  HDRSECTS,   \* 8: sectors read for the ELF header
  ELFHDR,     \* 0x10000: where they go
  LINE20,     \* 2^20 in the code: what address line 20 stands for
  LoaderAt,   \* the sectors of memory with the loader's code and stack
  MemSize,    \* bytes of memory
  Images,     \* kernel images: a magic number and program headers
  Untouched   \* what a memory cell holds before the boot loader writes it

Cells == 0 .. MemSize - 1

Proghdr == [p_pa : Nat, p_offset : Nat, p_filesz : Nat, p_memsz : Nat]

ASSUME BootAssumption ==
  /\ SECTSIZE \in Nat \ {0} /\ HDRSECTS \in Nat \ {0}
  /\ ELFHDR \in Nat /\ ELFHDR % SECTSIZE = 0
  /\ LINE20 \in Nat \ {0} /\ LINE20 % SECTSIZE = 0
  /\ ELFHDR + HDRSECTS * SECTSIZE <= LINE20
  /\ MemSize \in Nat /\ MemSize % SECTSIZE = 0
  /\ Untouched \notin Int
  /\ \A elf \in Images :
       /\ elf.magic \in BOOLEAN
       /\ elf.ph \in Seq(Proghdr)
       /\ \A k \in DOMAIN elf.ph :
            \* the loader and the headers stay intact while the segments
            \* are loaded; a header like PT_GNU_STACK's asks for nothing
            /\ \/ elf.ph[k].p_pa >= ELFHDR + HDRSECTS * SECTSIZE
               \/ elf.ph[k].p_memsz = 0 /\ elf.ph[k].p_pa % SECTSIZE = 0
            /\ elf.ph[k].p_pa + elf.ph[k].p_memsz <= MemSize
            /\ elf.ph[k].p_filesz <= elf.ph[k].p_memsz

VARIABLES
  elf,        \* the kernel image on the disk, from sector 1 on
  kbc, a20,     \* the controller's input buffer and what it has been told
  disk, lba,    \* "ready" or "busy", and the sector last asked for
  contents,
  wrapped,      \* history: a sector went to the megabyte below its address
  seg,          \* 0 for the header, then the index of the program header
  pa, end_pa, offset,  \* the variables of readseg
  bpc

bvars == <<elf, kbc, a20, disk, lba, contents, wrapped, seg, pa, end_pa,
           offset, bpc>>

(* readseg's pointer stays on a sector boundary, and no other variable leaves*)
(* its type.                                                               *)
BootTypeOK ==
  /\ elf \in Images
  /\ kbc \in {"empty", "0xd1", "0xdf"}
  /\ a20 \in {"off", "expected", "on"}
  /\ disk \in {"ready", "busy"}
  /\ lba \in Nat
  /\ contents \in [Cells -> Int \cup {Untouched}]
  /\ wrapped \in BOOLEAN
  /\ seg \in 0 .. Len(elf.ph)
  /\ pa \in Nat /\ pa % SECTSIZE = 0 /\ end_pa \in Nat /\ offset \in Nat
  /\ bpc \in {"seta20.1", "0xd1", "seta20.2", "0xdf", "bootmain", "readseg",
             "waitdisk", "readsect", "insl", "overwritten", "entry", "bad"}

(* The BIOS may have left the controller and the disk busy.                *)
BootInit ==
  /\ elf \in Images
  /\ kbc \in {"empty", "0xdf"} /\ a20 = "off"
  /\ disk \in {"ready", "busy"} /\ lba = 0
  /\ contents = [c \in Cells |-> Untouched]
  /\ wrapped = FALSE
  /\ seg = 0 /\ pa = 0 /\ end_pa = 0 /\ offset = 0
  /\ bpc = "seta20.1"

-----------------------------------------------------------------------------
(* The devices.                                                            *)

(* 0xd1 announces that the next byte is for the output port, 0xdf for it   *)
(* turns the line on; a byte without its announcement goes elsewhere.      *)
KbcTakes ==
  /\ kbc # "empty"
  /\ kbc' = "empty"
  /\ a20' = CASE kbc = "0xd1" -> "expected"
              [] kbc = "0xdf" -> IF a20 = "off" THEN "off" ELSE "on"
  /\ UNCHANGED <<elf, disk, lba, contents, wrapped, seg, pa, end_pa, offset,
                 bpc>>

DiskReady ==
  /\ disk = "busy"
  /\ disk' = "ready"
  /\ UNCHANGED <<elf, kbc, a20, lba, contents, wrapped, seg, pa, end_pa,
                 offset, bpc>>

-----------------------------------------------------------------------------
(* boot.S.                                                                 *)

(* A byte written before the last one was taken replaces it.               *)
seta20_unpolled ==
  /\ bpc \in {"seta20.1", "seta20.2"}
  /\ bpc' = IF bpc = "seta20.1" THEN "0xd1" ELSE "0xdf"
  /\ UNCHANGED <<elf, kbc, a20, disk, lba, contents, wrapped, seg, pa, end_pa,
                 offset>>

seta20 ==
  /\ bpc \in {"seta20.1", "seta20.2"} /\ kbc = "empty"
  /\ bpc' = IF bpc = "seta20.1" THEN "0xd1" ELSE "0xdf"
  /\ UNCHANGED <<elf, kbc, a20, disk, lba, contents, wrapped, seg, pa, end_pa,
                 offset>>

outb_a20 ==
  /\ bpc \in {"0xd1", "0xdf"}
  /\ kbc' = bpc
  /\ bpc' = IF bpc = "0xd1" THEN "seta20.2" ELSE "bootmain"
  /\ UNCHANGED <<elf, a20, disk, lba, contents, wrapped, seg, pa, end_pa,
                 offset>>

-----------------------------------------------------------------------------
(* main.c.                                                                 *)

FirstSector_at_zero(off) == off \div SECTSIZE

(* "translate from bytes to sectors, and kernel starts at sector 1"        *)
FirstSector(off) == off \div SECTSIZE + 1

(* A call of readseg: it begins at the sector boundary below address.      *)
readseg(address, count, off) ==
  /\ end_pa' = address + count
  /\ pa' = address - (address % SECTSIZE)
  /\ offset' = FirstSector(off)
  /\ bpc' = "readseg"

(* The loop without its ph++.                                              *)
LoadSegment_again(k) ==
  LET j == IF k = 1 THEN 1 ELSE k - 1 IN
  IF j \in DOMAIN elf.ph
  THEN /\ seg' = j
       /\ readseg(elf.ph[j].p_pa, elf.ph[j].p_memsz, elf.ph[j].p_offset)
  ELSE /\ bpc' = "entry"
       /\ UNCHANGED <<seg, pa, end_pa, offset>>

(* The k-th segment, or the jump to the kernel when there is none.         *)
LoadSegment(k) ==
  IF k \in DOMAIN elf.ph
  THEN /\ seg' = k
       /\ readseg(elf.ph[k].p_pa, elf.ph[k].p_memsz, elf.ph[k].p_offset)
  ELSE /\ bpc' = "entry"
       /\ UNCHANGED <<seg, pa, end_pa, offset>>

bootmain ==
  /\ bpc = "bootmain"
  /\ readseg(ELFHDR, SECTSIZE * HDRSECTS, 0)
  /\ UNCHANGED <<elf, kbc, a20, disk, lba, contents, wrapped, seg>>

NextSector ==
  /\ bpc = "readseg" /\ pa < end_pa
  /\ bpc' = "waitdisk"
  /\ UNCHANGED <<elf, kbc, a20, disk, lba, contents, wrapped, seg, pa, end_pa,
                 offset>>

SegmentRead ==
  /\ bpc = "readseg" /\ pa >= end_pa
  /\ \/ /\ seg = 0 /\ ~elf.magic
        /\ bpc' = "bad"
        /\ UNCHANGED <<seg, pa, end_pa, offset>>
     \/ /\ seg = 0 => elf.magic
        /\ LoadSegment(seg + 1)
  /\ UNCHANGED <<elf, kbc, a20, disk, lba, contents, wrapped>>

(* readsect waits for the disk, asks for one sector, waits again and copies*)
(* it.                                                                     *)
waitdisk ==
  /\ bpc = "waitdisk" /\ disk = "ready"
  /\ bpc' = "readsect"
  /\ UNCHANGED <<elf, kbc, a20, disk, lba, contents, wrapped, seg, pa, end_pa,
                 offset>>

readsect ==
  /\ bpc = "readsect"
  /\ disk' = "busy" /\ lba' = offset
  /\ bpc' = "insl"
  /\ UNCHANGED <<elf, kbc, a20, contents, wrapped, seg, pa, end_pa, offset>>

(* The memory that address a reaches.                                      *)
Bus(a) ==
  IF a20 # "on" /\ (a \div LINE20) % 2 = 1 THEN a - LINE20 ELSE a

(* Sectors in memory that the rest of the loading depends on.              *)
Own == LoaderAt \cup {ELFHDR + k * SECTSIZE : k \in 0 .. HDRSECTS - 1}

(* insl copies the sector the disk holds: it has waited for the one asked  *)
(* for.  The line does not change within a sector.                         *)
insl ==
  /\ bpc = "insl" /\ disk = "ready"
  /\ contents' = [c \in Cells |->
               IF c \in Bus(pa) .. Bus(pa) + SECTSIZE - 1
               THEN (lba - 1) * SECTSIZE + (c - Bus(pa)) ELSE contents[c]]
  /\ wrapped' = (wrapped \/ Bus(pa) # pa)
  /\ pa' = pa + SECTSIZE
  /\ offset' = offset + 1
  /\ bpc' = IF Bus(pa) # pa /\ Bus(pa) \in Own THEN "overwritten"
                                              ELSE "readseg"
  /\ UNCHANGED <<elf, kbc, a20, disk, lba, seg, end_pa>>

Processor ==
  \/ seta20 \/ outb_a20 \/ bootmain \/ NextSector \/ SegmentRead
  \/ waitdisk \/ readsect \/ insl

BootNext == Processor \/ KbcTakes \/ DiskReady

BootSpec == BootInit /\ [][BootNext]_bvars

(* The polling loops have no limit: both devices have to get ready.        *)
FairBootSpec ==
  BootSpec /\ WF_bvars(Processor) /\ WF_bvars(KbcTakes) /\ WF_bvars(DiskReady)

-----------------------------------------------------------------------------
(* Properties.                                                             *)

(* Every byte of every segment that is in the file is where the processor  *)
(* looks for it.                                                           *)
AllLoaded ==
  \A k \in DOMAIN elf.ph : \A b \in 0 .. elf.ph[k].p_filesz - 1 :
    contents[Bus(elf.ph[k].p_pa + b)] = elf.ph[k].p_offset + b

(* The headers that readseg reads a sector for.                            *)
Loads ==
  {k \in DOMAIN elf.ph :
     elf.ph[k].p_memsz > 0 \/ elf.ph[k].p_pa % SECTSIZE # 0}

(* What ld makes of kern/kernel.ld: addresses and offsets agree modulo the *)
(* sector, addresses increase, and no two segments touch the same sector.  *)
Sector(a) == a \div SECTSIZE

Congruent ==
  \A k \in Loads : elf.ph[k].p_pa % SECTSIZE = elf.ph[k].p_offset % SECTSIZE

Apart ==
  \A j, k \in Loads :
    j < k => Sector(elf.ph[j].p_pa + elf.ph[j].p_memsz - 1)
               < Sector(elf.ph[k].p_pa)

(* The kernel is entered only with an ELF header, and then every segment   *)
(* is where it belongs, although readseg rounds both ends to sectors, and  *)
(* is seen there by the processor - unless a sector was copied before the  *)
(* controller had taken the byte that turns address line 20 on.            *)
KernelLoaded ==
  bpc = "entry" =>
    elf.magic /\ (~wrapped /\ Congruent /\ Apart => AllLoaded)

(* No command is lost in a busy controller: from bootmain on address line  *)
(* 20 is on, or the byte that turns it on waits in the controller, which   *)
(* has been told to expect it.  The code does not wait for the last byte.  *)
A20Enabled ==
  /\ BootTypeOK
  /\ bpc \notin {"seta20.1", "0xd1", "seta20.2", "0xdf"} =>
       a20 = "on" \/ (a20 = "expected" /\ kbc = "0xdf")

(* What boot.S says of its polls and bootmain relies on: addresses above   *)
(* 1MB do not wrap around any more.  They do if the controller is slower   *)
(* than the disk, as nothing waits for it behind the last byte.            *)
WrapUndone == ~wrapped

(* The loader comes to an end: it jumps or it gives up, if it has not      *)
(* overwritten itself.                                                     *)
BootEnds == <>(bpc \in {"entry", "bad", "overwritten"})
=============================================================================
