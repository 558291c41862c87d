\* ls1043, ls1046 while nobody suspends: two callers of CPU_ON, one of them released
\* from the loop that _prep_ocram_init parks it in
SPECIFICATION FairSpec

CONSTANTS
  CPU_MAX_COUNT = 2
  CPU_PER_CLUSTER = 1
  CLUSTER_COUNT = 2
  PSCI_ABORT_CNT = 2
  Features <- HotplugFeatures
  Disabled = {}
  TaskCores = {1}
  Callers = {0, 1}
  Args = {1, 2}
  Misaligned = {2}
  HwFaults = {}

INVARIANT
  RoutingRestored

PROPERTIES
  CallsReturn
  AbortTakesEffect
  SleeperIsWoken
