\* Every kernel is loaded whole unless addresses wrap, and runs to its
\* monitor, for every layout of its data and size of memory.
\* The loader ends in a loop that does nothing, the kernel in its monitor,
\* which is another module.
SPECIFICATION MCSpec
CONSTANTS
  SECTSIZE = 3
  HDRSECTS = 1
  ELFHDR = 6
  LINE20 = 12
  LoaderAt = {3}
  MemSize = 18
  Images <- MCImages
  Untouched = Untouched
  NPDENTRIES = 4
  NPTENTRIES = 8
  KERNPDX = 2
  CGA_BUF = 1
  EXTPHYSMEM = 2
  Kernels <- MCKernels
  RAMs <- MCRAMs
INVARIANTS KernelLoaded A20Enabled NoFault ConsoleKept MemoryMeasured
PROPERTIES BootEnds PanicReported
CHECK_DEADLOCK FALSE
