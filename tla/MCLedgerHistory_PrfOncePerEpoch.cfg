\* A sentence of docs/architecture.md that the code does not keep.
CONSTANTS
  AccountIds = {a}
  Payloads = {p}
  PRFOutputs = {f}
  NoRoot = NoRoot
  AmountModulus = 4
  MaxEpoch = 2
  kInvalidIndexValue = 7
  CallerIds = {a}
  CallerEpochs = {0}
  CallerTxIds = {"tx"}
  CallerIndices = {0}
  CallerValues = {1}
  CallerReferences <- NoReferences
  MaxRootVersion = 7
SPECIFICATION HistorySpec
INVARIANTS
  PrfOncePerEpoch
CHECK_DEADLOCK FALSE
