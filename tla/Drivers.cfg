SPECIFICATION DriversSpec
CONSTANTS
  TzcBuilds <- MCTzcBuilds
  MmdcRounds = 2
  DdrSetups <- MCSetups
  SpdBytes = 3
  I2cFaults = {FALSE, TRUE}
  HeapSizes = {95, 150, 210}
  SecCalls = 5
  SecEngines <- MCEngines
  SEC_TIMEOUT = 2
  SecLates = 1
  FuseScripts <- MCScripts
  OtpmkRandoms <- MCRandoms
  SfpFaults = {FALSE, TRUE}
  SfpCuts <- MCCuts
  SfpVersion34 = TRUE
  SfpBoots = 3
  SpdCores = {1}
  SpdCalls = 2
  SpdOffs = 1
  SpdOneByOne = TRUE
  SdCards <- MCCards
  SdDmaSupport = {FALSE, TRUE}
  SdPolls = 1
  DrbgCores = {1, 2}
  RESEED_MAX_SHORT = 2
  DrbgCalls = 5
  DrbgRaces = 3
  DrbgForms <- MCDrbgForms
  SelfTestMayFail = FALSE
  MaxMessage = 130
  UpdateSizes = {1, 4, 55, 64}
  AddBytes = {0, 1, 255}
INVARIANTS
  SecureWindow
  CalibrationMode
  MemoryIsBacked TimingsCovered ModesAgree BoundsAreRestored SuccessIsInitialised
  SpdIsWhole
  DescriptorsHoldTogether
  SecIsReady
  OtpmkIsCodeWord
  WorldsStayApart
  ReadIsRight ClockFitsStatus
  NumbersAreSeeded ErrorIsTransient SeedIsUsedUp
  BlocksAreFips HelpersAreExact
PROPERTIES
  InitUsesFinalSettings DdrEnds
  FusesSettle
  SdEnds
CHECK_DEADLOCK FALSE
