\* two cores count each other on and turn off
SPECIFICATION Spec

CONSTANTS
  CPU_MAX_COUNT = 2
  CPU_PER_CLUSTER = 2
  CLUSTER_COUNT = 1
  PSCI_ABORT_CNT = 1
  Features <- HotplugFeatures
  Disabled = {}
  TaskCores = {}
  Callers = {0}
  Args = {1}
  Misaligned = {}
  HwFaults = {}

INVARIANTS
  FinalCoreStays
