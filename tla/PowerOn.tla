------------------------------- MODULE PowerOn ------------------------------
(***************************************************************************)
(* From the reset to the prompt of the monitor: the boot loader, and the   *)
(* kernel it jumps to.  What the kernel relies on is that the processor    *)
(* finds the segments where their headers say; without that nothing is     *)
(* known of what runs, and the machine takes no further step here.  The    *)
(* keyboard controller may still hold the byte for address line 20, and    *)
(* goes on by itself.                                                      *)
(*                                                                         *)
(* The loader counts memory in bytes and the kernel in pages: the two      *)
(* share no variable, and meet at the jump.                                *)
(***************************************************************************)
EXTENDS BootLoader, KernelEntry

PowerOnInit == BootInit /\ Init

(* bootmain has called the entry point, and the kernel is behind it.       *)
Started == bpc = "entry" /\ Loads # {} /\ AllLoaded

LoaderStep == BootNext /\ UNCHANGED vars
KernelStep == Started /\ Next /\ UNCHANGED bvars

PowerOnNext == LoaderStep \/ KernelStep

PowerOnSpec == PowerOnInit /\ [][PowerOnNext]_<<bvars, vars>>

(* Interrupts are off in loader and kernel, so the processor goes on, and  *)
(* both devices get ready.                                                 *)
FairPowerOnSpec ==
  /\ PowerOnSpec
  /\ WF_bvars(Processor) /\ WF_bvars(KbcTakes) /\ WF_bvars(DiskReady)
  /\ WF_vars(KernelStep)

-----------------------------------------------------------------------------
(* Properties.                                                             *)

(* A kernel that was entered where it was linked to be gets to its monitor,*)
(* and not without a word: the panic message is lost if the flag panicstr  *)
(* is set by garbage.  One that was read through addresses that wrap may   *)
(* disappear under its own feet when the line comes on.                    *)
PanicReported ==
  Started /\ ~wrapped ~>
    pc = "monitor" /\ printed = <<"6828_decimal", "Physical_memory",
                                  "kernel_panic">>
=============================================================================
