\* A controller slower than the disk: the kernel is copied a megabyte below
\* its address.
\* As in MCPowerOn.cfg, the machine ends in a loop.
SPECIFICATION MCSpec
CONSTANTS
  SECTSIZE = 3
  HDRSECTS = 1
  ELFHDR = 6
  LINE20 = 12
  LoaderAt = {3}
  MemSize = 18
  Images <- MCImages
  Untouched = Untouched
  NPDENTRIES = 4
  NPTENTRIES = 8
  KERNPDX = 2
  CGA_BUF = 1
  EXTPHYSMEM = 2
  Kernels <- MCKernels
  RAMs <- MCRAMs
INVARIANT WrapUndone
CHECK_DEADLOCK FALSE
