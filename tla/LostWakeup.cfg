\* CPU_ON finds CORE_OFF before the target clears its SGIs
SPECIFICATION Spec

CONSTANTS
  CPU_MAX_COUNT = 2
  CPU_PER_CLUSTER = 2
  CLUSTER_COUNT = 1
  PSCI_ABORT_CNT = 1
  Features <- HotplugFeatures
  Disabled = {}
  TaskCores = {}
  Callers = {0}
  Args = {1}
  Misaligned = {}
  HwFaults = {}

INVARIANTS
  NoLostWakeup
