------------------------------ MODULE MCPowerOn -----------------------------
(* The loader.  A sector is three bytes and a megabyte four sectors, of    *)
(* which the second and third hold the loader and the ELF header.  Kernels *)
(* have no or two segments, in the fourth sector and the second megabyte,  *)
(* with or without a header for the stack among them.  As in an ELF file,  *)
(* offsets and addresses agree modulo the sector and addresses increase;   *)
(* segments may share a sector.                                            *)
(*                                                                         *)
(* The kernel.  Directories and tables of four and eight entries, two page *)
(* tables below KERNBASE; one or two pages of code, then the pages of      *)
(* .data in any order, then one or two pages of .bss.                      *)
EXTENDS PowerOn, SequencesExt

MCProghdr ==
  {h \in [p_pa : 10 .. 15, p_offset : 3 .. 5, p_filesz : 0 .. 4,
          p_memsz : {1, 4}] :
     /\ h.p_filesz \in {1, h.p_memsz}
     /\ h.p_pa + h.p_memsz <= 18
     /\ h.p_pa % 3 = h.p_offset % 3}

MCStack == [p_pa |-> 0, p_offset |-> 0, p_filesz |-> 0, p_memsz |-> 0]

MCPairs ==
  {<<g, h>> \in MCProghdr \X MCProghdr : g.p_pa + g.p_memsz <= h.p_pa}

MCTables ==
  {<<>>} \cup MCPairs
    \cup {InsertAt(p, k, MCStack) :
            k \in 1 .. 3, p \in {r \in MCPairs : r[1].p_memsz = 1}}

MCImages ==
  {[magic |-> p # <<>> \/ m, ph |-> p] : m \in BOOLEAN, p \in MCTables}

MCData == SetToSeqs({"pgdir", "pgtable", "stack"})

MCKernels ==
  {text \o data \o <<"bss">> :
     text \in {<<"text">>, <<"text", "text">>}, data \in MCData}
  \cup {<<"text">> \o data \o <<"bss", "bss">> : data \in MCData}

(* Around each limit: base memory, the hole, 16M, the largest 16 bits.     *)
MCRAMs ==
  {512, 639, 640, 1000, 1024, 1025, 1100, 16383, 16384, 16384 + 63,
   16384 + 64, 16384 + 129, 66559, 66560, 131072, 1048576, 4194303}

(* Loader and kernel share no variable: every image is loaded with one     *)
(* kernel, and every kernel entered with one image.                        *)
MCInit ==
  /\ PowerOnInit
  /\ \/ image = <<"text", "stack", "pgtable", "pgdir", "bss">> /\ ram = 131072
     \/ elf.ph = <<[p_pa |-> 10, p_offset |-> 4, p_filesz |-> 1,
                    p_memsz |-> 1],
                   [p_pa |-> 12, p_offset |-> 3, p_filesz |-> 1,
                    p_memsz |-> 4]>>

MCSpec ==
  /\ MCInit /\ [][PowerOnNext]_<<bvars, vars>>
  /\ WF_bvars(Processor) /\ WF_bvars(KbcTakes) /\ WF_bvars(DiskReady)
  /\ WF_vars(KernelStep)
=============================================================================
