\* An MMC card reports a refused switch in one status only
SPECIFICATION SdSpec

CONSTANTS
  SdCards <- MCRefusingCard
  SdDmaSupport = {FALSE}
  SdPolls = 1

INVARIANT ClockFitsCard

CHECK_DEADLOCK FALSE
