\* Accounts, entries and balances: two accounts, amounts modulo 4, two epochs.
CONSTANTS
  AccountIds = {a, b}
  Payloads = {p, q}
  PRFOutputs = {f, g}
  NoRoot = NoRoot
  AmountModulus = 4
  MaxEpoch = 1
  kInvalidIndexValue = 7
  CallerIds = {a, b, ""}
  CallerEpochs = {0}
  CallerTxIds = {"", "tx"}
  CallerIndices = {0, 1, 7}
  CallerValues = {1, 3}
  CallerReferences <- InventedReferences
  CallerMintTxs <- MintTxs
  CallerTransferTxs <- TransferTxs
  MaxRootVersion = 5
SYMMETRY Symmetry
SPECIFICATION ProtocolSpec
INVARIANTS
  TypeOK
  AccountsIndexed
  AccountsMirrored
PROPERTIES
  IndicesStable
  RootCommitsBalances
  EntriesFollowRoot
  ProtocolFailsClosed
