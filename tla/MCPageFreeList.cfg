\* Every short list of free pages, before and after the kernel's own page
\* directory.  A check ends.
SPECIFICATION Spec
CONSTANTS
  npages = 10
  NPTENTRIES = 8
  NPDENTRIES = 4
  IOPHYSMEM = 3
  EXTPHYSMEM = 4
  KERNBASE = 20
  end = 7
  Kernel <- MCKernel
  Holds <- MCHolds
  Lists <- MCLists
  NULL = NULL
  Garbage = Garbage
  PP1 = PP1
  PP2 = PP2
INVARIANTS Relinked CheckIsRight
CHECK_DEADLOCK FALSE
