\* Every order of verdicts, skips, exits and interrupts, and both runs of
\* QEMU.  A script that has exited stops.
SPECIFICATION GradeFairSpec
CONSTANTS
  None = None
  PipeSize = 1
INVARIANTS ReadsOpenReactors StopHeard OutputComplete
INVARIANTS JudgesOwnRun PortFree ScoreIsSum
PROPERTY ScriptEnds
CHECK_DEADLOCK FALSE
