\* Exceptions: two accounts, two epochs, four further roots, up to two exceptions.
CONSTANTS
  AccountIds = {a, b}
  Payloads = {p}
  PRFOutputs = {f}
  NoRoot = NoRoot
  NoPayload = NoPayload
  AmountModulus = 2
  MaxEpoch = 1
  kInvalidIndexValue = 7
  CallerIds = {a, b}
  CallerEpochs = {0}
  CallerTxIds = {"tx"}
  CallerIndices = {0, 1}
  CallerValues = {1}
  CallerReferences = {}
  MaxRootVersion = 5
  MaxFaults = 2
SPECIFICATION InterruptedSpec
INVARIANTS
  VersionsUnique
PROPERTIES
  RetriesPayOnce
  KnownIndicesStay
  NextRootHeals
