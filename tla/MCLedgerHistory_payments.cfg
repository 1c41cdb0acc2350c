\* Two accounts that pay each other and themselves over three epochs: sums, and the abstract ledger.
CONSTANTS
  AccountIds = {a, b}
  Payloads = {p}
  PRFOutputs = {f, g, h}
  NoRoot = NoRoot
  AmountModulus = 4
  MaxEpoch = 2
  kInvalidIndexValue = 7
  CallerIds = {a, b}
  CallerEpochs = {0}
  CallerTxIds = {"tx"}
  CallerIndices = {0, 1}
  CallerValues = {1, 3}
  CallerReferences <- OneRedatedReference
  MaxRootVersion = 4
SYMMETRY Symmetry
SPECIFICATION HistorySpec
INVARIANTS
  BalancesReplay
  NoOverdraft
PROPERTIES
  ImplementsLedger
CHECK_DEADLOCK FALSE
