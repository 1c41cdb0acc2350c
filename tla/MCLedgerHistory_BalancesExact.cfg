\* A sentence of docs/architecture.md that the code does not keep.
CONSTANTS
  AccountIds = {a}
  Payloads = {p}
  PRFOutputs = {f, g}
  NoRoot = NoRoot
  AmountModulus = 4
  MaxEpoch = 0
  kInvalidIndexValue = 7
  CallerIds = {a}
  CallerEpochs = {0}
  CallerTxIds = {"tx"}
  CallerIndices = {0}
  CallerValues = {1, 3}
  CallerReferences <- NoReferences
  MaxRootVersion = 4
SPECIFICATION HistorySpec
INVARIANTS
  BalancesExact
CHECK_DEADLOCK FALSE
