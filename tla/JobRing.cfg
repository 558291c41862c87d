\* One core, every fault, polls that may give up
SPECIFICATION FairSpec

CONSTANTS
  Cores = {c1}
  SEC_JOB_RING_SIZE = 3
  POLLS = 2
  TRIES = 2
  Kinds = {"rng", "key"}
  Faults = {"error", "null", "jre", "halt"}

INVARIANTS
  TypeOK
  RingIsCounted
  LoneAnswerIsFresh

PROPERTIES
  RingIsQueue
  CallsReturn
  ReleaseEnds
