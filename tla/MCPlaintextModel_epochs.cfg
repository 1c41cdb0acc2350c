\* Roots, epochs, replay protection and the loop: one account, four epochs, seven roots.
CONSTANTS
  AccountIds = {a}
  Payloads = {p}
  PRFOutputs = {f, g}
  NoRoot = NoRoot
  AmountModulus = 4
  MaxEpoch = 3
  kInvalidIndexValue = 7
  CallerIds = {a, ""}
  CallerEpochs = {0}
  CallerTxIds = {"", "tx"}
  CallerIndices = {0, 7}
  CallerValues = {1}
  CallerReferences <- InventedReferences
  MaxRootVersion = 7
SPECIFICATION FairSpec
PROPERTIES
  LoopReachesGoal
INVARIANTS
  RootsRecorded
  RootsListed
  ListedRootsUsable
  EpochsHaveRoots
  PrfOutputsTracked
