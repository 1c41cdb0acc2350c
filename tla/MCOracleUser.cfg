\* A user of the oracle and the stubs: two accounts, three epochs, four roots.
CONSTANTS
  AccountIds = {a, b}
  Payloads <- EntryBytes
  PRFOutputs <- PRFOutput
  NoRoot = NoRoot
  AmountModulus = 2
  MaxEpoch = 2
  kInvalidIndexValue = 7
  CallerIds = {a, b, ""}
  CallerEpochs = {0}
  CallerTxIds = {"tx"}
  CallerIndices = {0, 1, 7}
  CallerValues = {1}
  CallerReferences = {}
  CallerMintTxs = {}
  CallerTransferTxs = {}
  MaxRootVersion = 4
SYMMETRY Symmetry
SPECIFICATION UserSpec
INVARIANTS
  QueriesAgree
  BookMatches
  ReceiptsUsable
  EntriesDated
  OnePaymentPerEra
