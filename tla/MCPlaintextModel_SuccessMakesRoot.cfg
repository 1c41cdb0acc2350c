\* A sentence of docs/architecture.md that the code does not keep.
CONSTANTS
  AccountIds = {a}
  Payloads = {p}
  PRFOutputs = {f}
  NoRoot = NoRoot
  AmountModulus = 4
  MaxEpoch = 1
  kInvalidIndexValue = 7
  CallerIds = {a, ""}
  CallerEpochs = {0}
  CallerTxIds = {"", "tx"}
  CallerIndices = {0, 7}
  CallerValues = {1, 3}
  CallerReferences <- InventedReferences
  MaxRootVersion = 5
SPECIFICATION Spec
PROPERTY
  SuccessMakesRoot
