\* Two cores ask for random numbers and the engine answers in time
SPECIFICATION Spec

CONSTANTS
  Cores = {c1, c2}
  SEC_JOB_RING_SIZE = 4
  POLLS = 2
  TRIES = 2
  Kinds = {"rng"}
  Faults = {}

INVARIANTS
  NumberIsNew
