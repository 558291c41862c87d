\* ls1043: every service, a fused-off core and a DDR that may refuse self refresh
SPECIFICATION Spec

CONSTANTS
  CPU_MAX_COUNT = 3
  CPU_PER_CLUSTER = 1
  CLUSTER_COUNT = 3
  PSCI_ABORT_CNT = 1
  Features <- AllFeatures
  Disabled = {2}
  TaskCores = {}
  Callers = {0}
  Args = {1}
  Misaligned = {}
  HwFaults = {"DDR_SLEEP"}

INVARIANTS
  TypeOK
  StateIsHonest
  PendingIsNotRunning

PROPERTY
  PowerIsLegal
