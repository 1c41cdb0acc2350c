\* One account, three epochs: which payments are accepted again or refused, and when.
CONSTANTS
  AccountIds = {a}
  Payloads = {p}
  PRFOutputs = {f, g}
  NoRoot = NoRoot
  AmountModulus = 4
  MaxEpoch = 2
  kInvalidIndexValue = 7
  CallerIds = {a}
  CallerEpochs = {0}
  CallerTxIds = {"tx"}
  CallerIndices = {0}
  CallerValues = {1}
  CallerReferences <- RedatedReferences
  MaxRootVersion = 6
SYMMETRY Symmetry
SPECIFICATION HistorySpec
INVARIANTS
  PrfOncePerEra
  ReplayBound
  BasisInWindow
  OutputsPaidFor
CHECK_DEADLOCK FALSE
