\* Two secondaries are started together
SPECIFICATION SpdSpec

CONSTANTS
  SpdCores = {1, 2}
  SpdCalls = 0
  SpdOffs = 0
  SpdOneByOne = FALSE

INVARIANT EntersThroughVector

CHECK_DEADLOCK FALSE
