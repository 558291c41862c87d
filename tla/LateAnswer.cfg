\* A call that gave up leaves its job to the next one
SPECIFICATION Spec

CONSTANTS
  Cores = {c1}
  SEC_JOB_RING_SIZE = 4
  POLLS = 1
  TRIES = 1
  Kinds = {"key"}
  Faults = {}

INVARIANTS
  KeyIsProduced
