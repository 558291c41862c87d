\* lx2160, ls1028, la1575: the boot core starts two others
SPECIFICATION FairSpec

CONSTANTS
  CPU_MAX_COUNT = 3
  CPU_PER_CLUSTER = 1
  CLUSTER_COUNT = 3
  PSCI_ABORT_CNT = 1
  Features <- BootFeatures
  Disabled = {}
  TaskCores = {}
  Callers = {0}
  Args = {1, 2}
  Misaligned = {}
  HwFaults = {}

INVARIANT EntryIsOneRequest

PROPERTY PendingCoreRuns
