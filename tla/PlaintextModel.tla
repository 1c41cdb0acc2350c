--------------------------- MODULE PlaintextModel ---------------------------
(***************************************************************************)
(* The plaintext oracle of src/src/state/plaintext_model.{h,cpp}: accounts *)
(* with plaintext balances, root versions with a validity window, and      *)
(* replay protection by PRFOutput inside one epoch.                        *)
(*                                                                         *)
(* The class is single-threaded: a call is one step, except for the loop   *)
(* of AdvanceToEpoch, whose iterations are steps of their own and during   *)
(* which no other call runs.  A call's result is abstracted to Status::ok. *)
(*                                                                         *)
(* Definitions whose names start with Slip are plausible mistakes in the   *)
(* definition they precede.  No specification uses them: they exist to     *)
(* confirm that each property would notice the mistake (see README.md).    *)
(***************************************************************************)
EXTENDS Integers, Sequences

CONSTANTS
  AccountIds,         \* non-empty account ids
  Payloads,           \* what an entry carries that the oracle never reads:
                      \* public key, ciphertext and commitment
  PRFOutputs,
  NoRoot,             \* the empty MerkleRoot of an entry not yet refreshed
  AmountModulus,      \* 2^64: std::uint64_t amounts wrap here
  MaxEpoch,           \* std::numeric_limits<EpochNumber>::max()
  kInvalidIndexValue  \* static_cast<std::size_t>(-1)

CONSTANTS             \* the calls the environment makes, and one bound
  CallerIds,          \* account ids passed by callers; may contain ""
  CallerEpochs,       \* epochs in the entries passed to UpsertAccount
  CallerTxIds,        \* transaction ids; may contain ""
  CallerIndices,      \* account indices, valid or not
  CallerValues,       \* mint and transfer values
  CallerReferences,   \* root references that were never handed out
  MaxRootVersion      \* BOUND: calls that need a further root are not made

EpochNumber == 0 .. MaxEpoch
Amount == 0 .. AmountModulus - 1
RootVersion == 0 .. MaxRootVersion

ASSUME ConstantsAssumption ==
  /\ "" \notin AccountIds
  /\ AmountModulus \in Nat \ {0}
  /\ MaxEpoch \in Nat
  /\ MaxRootVersion \in Nat \ {0}
  /\ kInvalidIndexValue \in Nat
  /\ CallerIds \subseteq AccountIds \cup {""}
  /\ CallerEpochs \subseteq EpochNumber
  /\ CallerIndices \subseteq Nat
  /\ CallerValues \subseteq Amount

VARIABLES
  accounts,                               \* account id -> entry
  account_states,                         \* sequence of [entry, balance]
  account_indices,                        \* account id -> index from 0
  valid_roots,                            \* root -> reference, all ever made
  current_epoch_root_keys,                \* roots of this epoch, in order
  prf_outputs_in_current_epoch,
  accepted_prf_outputs_in_current_epoch,
  current_epoch,
  root_version,
  current_root,                           \* reference to the latest root
  goal,                                   \* epoch AdvanceToEpoch is heading to
  ok                                      \* FALSE iff the last call returned a
                                          \* Status that is not ok

accountVars == <<accounts, account_states, account_indices>>
rootVars == <<valid_roots, current_epoch_root_keys, root_version, current_root>>
prfVars == <<prf_outputs_in_current_epoch, accepted_prf_outputs_in_current_epoch>>
ledgerVars == <<accountVars, rootVars, prfVars, current_epoch>>
vars == <<ledgerVars, goal, ok>>

(* MakeRoot encodes "plaintext-root:e<epoch>:v<version>", which determines  *)
(* both numbers: a root is the pair it encodes, and no root is NoRoot.      *)
MakeRoot(epoch, version) == [e |-> epoch, v |-> version]
Root == [e : EpochNumber, v : RootVersion]
MerkleRoot == Root \cup {NoRoot}

RootReference == [root : MerkleRoot, epoch : EpochNumber, version : RootVersion]
PrivateAccountEntry ==
  [account_id : AccountIds, payload : Payloads,
   inclusion_root : MerkleRoot, epoch : EpochNumber]
AccountState == [entry : PrivateAccountEntry, balance : Amount]

ASSUME RootsAssumption ==
  /\ NoRoot \notin Root
  /\ CallerReferences \subseteq RootReference

AccountsTypeOK ==
  /\ DOMAIN accounts \subseteq AccountIds
  /\ accounts \in [DOMAIN accounts -> PrivateAccountEntry]
  /\ account_states \in Seq(AccountState)
  /\ DOMAIN account_indices \subseteq AccountIds
  /\ account_indices \in [DOMAIN account_indices -> Nat]

RootsTypeOK ==
  /\ DOMAIN valid_roots \subseteq Root
  /\ valid_roots \in [DOMAIN valid_roots -> RootReference]
  /\ current_epoch_root_keys \in Seq(Root)
  /\ root_version \in RootVersion
  /\ current_root \in RootReference

PrfTypeOK ==
  /\ prf_outputs_in_current_epoch \subseteq PRFOutputs
  /\ accepted_prf_outputs_in_current_epoch \in Seq(PRFOutputs)

(* The types of the state, and that a loop never passes its goal. *)
TypeOK ==
  /\ AccountsTypeOK
  /\ RootsTypeOK
  /\ PrfTypeOK
  /\ current_epoch \in EpochNumber
  /\ goal \in current_epoch .. MaxEpoch
  /\ ok \in BOOLEAN
-----------------------------------------------------------------------------
(* m[key] = value on a std::unordered_map: insert or overwrite. *)
Put(m, key, value) ==
  [k \in DOMAIN m \cup {key} |-> IF k = key THEN value ELSE m[k]]

(* std::uint64_t addition of two amounts. *)
Sum64(a, b) == (a + b) % AmountModulus

-----------------------------------------------------------------------------
(* Checks.  HasAccount and FindAccountIndex look in different maps. *)
ValidateAccountId(account_id) == account_id # ""

ValidateTransactionId(transaction_id) == transaction_id # ""

SlipNoDuplicateCheck(account_id) == FALSE

HasAccount(account_id) == account_id \in DOMAIN accounts

HasAccountIndex(account_id) == account_id \in DOMAIN account_indices

IsValidAccountIndex(index) ==
  /\ index # kInvalidIndexValue
  /\ index < Len(account_states)

SlipWideWindow == 2

kRootValidityWindow == 1

SlipNoFutureCheck(reference) ==
  current_epoch - reference.epoch <= kRootValidityWindow

IsRootAcceptableForCurrentEpoch(reference) ==
  /\ reference.epoch <= current_epoch
  /\ current_epoch - reference.epoch <= kRootValidityWindow

SlipNoMetadataCheck(reference) ==
  /\ reference.root \in DOMAIN valid_roots
  /\ IsRootAcceptableForCurrentEpoch(reference)

(* Known, unaltered, inside the window. *)
ValidateReferencedRoot(reference) ==
  /\ reference.root \in DOMAIN valid_roots
  /\ valid_roots[reference.root] = reference
  /\ IsRootAcceptableForCurrentEpoch(reference)

IsValidRoot(reference) == ValidateReferencedRoot(reference)

ValidateFreshPrfOutput(prf_output) == prf_output \notin prf_outputs_in_current_epoch

-----------------------------------------------------------------------------
(* State changes shared by the calls. *)

Reference(epoch, version) ==
  [root |-> MakeRoot(epoch, version), epoch |-> epoch, version |-> version]

(* The version counter has room for n more roots: the bound of the model.  *)
HasRoom(n) == root_version + n <= MaxRootVersion

SlipPostIncrement(epoch) == Reference(epoch, root_version)

NextRoot(epoch) == Reference(epoch, root_version + 1)

SlipPruneRoots(reference) ==
  Put([root \in {r \in DOMAIN valid_roots : r.e = reference.epoch} |-> valid_roots[root]],
      reference.root, reference)

RecordRoot(reference) == Put(valid_roots, reference.root, reference)

SlipUnlistedRoot(keys, root) == keys

ListRoot(keys, root) == Append(keys, root)

(* keys is current_epoch_root_keys_ as the caller has left it. *)
AllocateNextRoot(epoch, keys) ==
  /\ root_version' = root_version + 1
  /\ valid_roots' = RecordRoot(NextRoot(epoch))
  /\ current_epoch_root_keys' = ListRoot(keys, NextRoot(epoch).root)
  /\ current_root' = NextRoot(epoch)

SlipNoStamp(states, reference) == states

SlipStampRootOnly(states, reference) ==
  [i \in DOMAIN states |-> [states[i] EXCEPT !.entry.inclusion_root = reference.root]]

Stamped(states, reference) ==
  [i \in DOMAIN states |-> [states[i] EXCEPT !.entry.epoch = reference.epoch,
                                             !.entry.inclusion_root = reference.root]]

SlipNoMirror(states) == accounts

(* Copies every entry to accounts in index order: of two states with one   *)
(* id the later would win.                                                 *)
Mirrored(states) ==
  LET Slots(id) == {i \in DOMAIN states : states[i].entry.account_id = id}
      LastSlot(id) == CHOOSE i \in Slots(id) : \A j \in Slots(id) : j <= i
  IN  [id \in DOMAIN accounts \cup {states[i].entry.account_id : i \in DOMAIN states} |->
         IF Slots(id) = {} THEN accounts[id] ELSE states[LastSlot(id)].entry]

RefreshAllAccountRoots(states, reference) ==
  /\ account_states' = Stamped(states, reference)
  /\ accounts' = Mirrored(Stamped(states, reference))

(* A new root for the changed states, which then all carry it. *)
CommitStates(states) ==
  /\ HasRoom(1)
  /\ AllocateNextRoot(current_epoch, current_epoch_root_keys)
  /\ RefreshAllAccountRoots(states, NextRoot(current_epoch))

SlipNotMarked(prf_output) == prf_outputs_in_current_epoch

MarkUsed(prf_output) == prf_outputs_in_current_epoch \cup {prf_output}

(* The callers have checked that prf_output is fresh, so the second check  *)
(* here cannot fail.                                                       *)
RecordPrfOutput(prf_output) ==
  /\ prf_outputs_in_current_epoch' = MarkUsed(prf_output)
  /\ accepted_prf_outputs_in_current_epoch' =
       Append(accepted_prf_outputs_in_current_epoch, prf_output)

Accepted == ok' = TRUE
Rejected == ok' = FALSE /\ UNCHANGED <<ledgerVars, goal>>

(* No AdvanceToEpoch loop is running, so the next call may start. *)
Idle == goal = current_epoch
-----------------------------------------------------------------------------
Init ==
  /\ accounts = [id \in {} |-> NoRoot]
  /\ account_states = << >>
  /\ account_indices = [id \in {} |-> 0]
  /\ valid_roots = [root \in {MakeRoot(0, 1)} |-> Reference(0, 1)]
  /\ current_epoch_root_keys = <<MakeRoot(0, 1)>>
  /\ prf_outputs_in_current_epoch = {}
  /\ accepted_prf_outputs_in_current_epoch = << >>
  /\ current_epoch = 0
  /\ root_version = 1
  /\ current_root = Reference(0, 1)
  /\ goal = 0
  /\ ok = TRUE

SlipOneBasedIndex == Len(account_states) + 1

NewIndex == Len(account_states)

SlipReplaceState(index, entry) ==
  [account_states EXCEPT ![index + 1] = [entry |-> entry, balance |-> 0]]

ReplaceEntry(index, entry) == [account_states EXCEPT ![index + 1].entry = entry]

(* Overwrites a known entry, or appends a new account, without a new root. *)
UpsertAccount(entry) ==
  /\ Idle
  /\ \/ ~ValidateAccountId(entry.account_id) /\ Rejected
     \/ /\ HasAccountIndex(entry.account_id)
        /\ account_states' = ReplaceEntry(account_indices[entry.account_id], entry)
        /\ accounts' = Put(accounts, entry.account_id, entry)
        /\ Accepted
        /\ UNCHANGED <<account_indices, rootVars, prfVars, current_epoch, goal>>
     \/ /\ ValidateAccountId(entry.account_id)
        /\ ~HasAccountIndex(entry.account_id)
        /\ account_states' = Append(account_states, [entry |-> entry, balance |-> 0])
        /\ account_indices' = Put(account_indices, entry.account_id, NewIndex)
        /\ accounts' = Put(accounts, entry.account_id, entry)
        /\ Accepted
        /\ UNCHANGED <<rootVars, prfVars, current_epoch, goal>>

(* accounts gets the new entry from the refresh. *)
Register(request) ==
  LET entry == [account_id |-> request.account_id, payload |-> request.payload,
                inclusion_root |-> NoRoot, epoch |-> current_epoch]
  IN  /\ Idle
      /\ \/ /\ ~ValidateAccountId(request.account_id) \/ HasAccount(request.account_id)
            /\ Rejected
         \/ /\ ValidateAccountId(request.account_id)
            /\ ~HasAccount(request.account_id)
            /\ account_indices' = Put(account_indices, request.account_id, NewIndex)
            /\ CommitStates(Append(account_states, [entry |-> entry, balance |-> 0]))
            /\ Accepted
            /\ UNCHANGED <<prfVars, current_epoch, goal>>

(* A payment that has passed every check. *)
Settle(prf_output, states) ==
  /\ RecordPrfOutput(prf_output)
  /\ CommitStates(states)
  /\ Accepted
  /\ UNCHANGED <<account_indices, current_epoch, goal>>

MintAccepted(mint) ==
  /\ ValidateTransactionId(mint.transaction_id)
  /\ IsValidAccountIndex(mint.recipient_index)
  /\ ValidateReferencedRoot(mint.referenced_root)
  /\ ValidateFreshPrfOutput(mint.prf_output)

Mint(mint) ==
  /\ Idle
  /\ \/ ~MintAccepted(mint) /\ Rejected
     \/ /\ MintAccepted(mint)
        /\ Settle(mint.prf_output,
                  [account_states EXCEPT
                     ![mint.recipient_index + 1].balance = Sum64(@, mint.value)])

(* The checks that come before the balance is looked at. *)
TransferValid(transfer) ==
  /\ ValidateTransactionId(transfer.transaction_id)
  /\ IsValidAccountIndex(transfer.sender_index)
  /\ IsValidAccountIndex(transfer.receiver_index)
  /\ ValidateReferencedRoot(transfer.referenced_root)
  /\ ValidateFreshPrfOutput(transfer.prf_output)

SlipNoOverspendCheck(transfer) == TransferValid(transfer)

TransferAccepted(transfer) ==
  /\ TransferValid(transfer)
  /\ account_states[transfer.sender_index + 1].balance >= transfer.value

SlipMoveFromCopies(sender, receiver, value) ==
  [account_states EXCEPT
     ![sender + 1].balance = @ - value,
     ![receiver + 1].balance = Sum64(account_states[receiver + 1].balance, value)]

(* Debits, then credits: with one account in both roles the credit applies *)
(* to the debited balance.                                                 *)
MoveBalance(sender, receiver, value) ==
  LET debited == [account_states EXCEPT ![sender + 1].balance = @ - value]
  IN  [debited EXCEPT ![receiver + 1].balance = Sum64(@, value)]

SlipSpendBeforeOverspendCheck(transfer) ==
  /\ Idle
  /\ TransferValid(transfer)
  /\ IF TransferAccepted(transfer)
     THEN Settle(transfer.prf_output,
                 MoveBalance(transfer.sender_index, transfer.receiver_index, transfer.value))
     ELSE /\ RecordPrfOutput(transfer.prf_output)
          /\ ok' = FALSE
          /\ UNCHANGED <<accountVars, rootVars, current_epoch, goal>>

Transfer(transfer) ==
  /\ Idle
  /\ \/ ~TransferAccepted(transfer) /\ Rejected
     \/ /\ TransferAccepted(transfer)
        /\ Settle(transfer.prf_output,
                  MoveBalance(transfer.sender_index, transfer.receiver_index, transfer.value))
-----------------------------------------------------------------------------
SlipKeepAcceptedList ==
  prf_outputs_in_current_epoch' = {} /\ UNCHANGED accepted_prf_outputs_in_current_epoch

ForgetPrfOutputs ==
  /\ prf_outputs_in_current_epoch' = {}
  /\ accepted_prf_outputs_in_current_epoch' = << >>

SlipKeepRootKeys == current_epoch_root_keys

ClearedRootKeys == << >>

(* Also the body of set_current_epoch when it moves backwards. *)
ApplyEpochTransition(epoch) ==
  /\ current_epoch' = epoch
  /\ ForgetPrfOutputs
  /\ AllocateNextRoot(epoch, ClearedRootKeys)
  /\ RefreshAllAccountRoots(account_states, NextRoot(epoch))
  /\ UNCHANGED account_indices

AdvanceEpoch ==
  /\ Idle
  /\ \/ current_epoch = MaxEpoch /\ Rejected
     \/ /\ current_epoch < MaxEpoch
        /\ HasRoom(1)
        /\ ApplyEpochTransition(current_epoch + 1)
        /\ goal' = current_epoch + 1
        /\ Accepted

(* The loop of AdvanceToEpoch starts; its iterations are AdvanceStep. *)
StartLoop(epoch) ==
  /\ epoch > current_epoch
  /\ HasRoom(epoch - current_epoch)
  /\ goal' = epoch
  /\ ok' = TRUE
  /\ UNCHANGED ledgerVars

AdvanceToEpoch(epoch) ==
  /\ Idle
  /\ \/ epoch < current_epoch /\ Rejected
     \/ epoch = current_epoch /\ Accepted /\ UNCHANGED <<ledgerVars, goal>>
     \/ StartLoop(epoch)

SlipStopBelowMax == current_epoch < goal /\ goal < MaxEpoch

LoopRuns == current_epoch < goal

SlipJump == goal

StepEpoch == current_epoch + 1

(* One iteration.  AdvanceEpoch's overflow check cannot fail in the loop,  *)
(* since current_epoch < goal <= MaxEpoch.                                 *)
AdvanceStep ==
  /\ LoopRuns
  /\ ApplyEpochTransition(StepEpoch)
  /\ Accepted
  /\ UNCHANGED goal

(* Returns void, so it never fails.  Forwards it is AdvanceToEpoch, and its *)
(* fallback for a failed advance is dead for the reason above.             *)
set_current_epoch(epoch) ==
  /\ Idle
  /\ \/ /\ epoch < current_epoch
        /\ HasRoom(1)
        /\ ApplyEpochTransition(epoch)
        /\ goal' = epoch
        /\ Accepted
     \/ StartLoop(epoch)
-----------------------------------------------------------------------------
(* The calls.  A caller refers to a root it was handed, or to another one. *)
Entries ==
  [account_id : CallerIds, payload : Payloads,
   inclusion_root : {NoRoot}, epoch : CallerEpochs]

Requests == [account_id : CallerIds, payload : Payloads]

References == {valid_roots[root] : root \in DOMAIN valid_roots} \cup CallerReferences

Mints ==
  [transaction_id : CallerTxIds, recipient_index : CallerIndices,
   value : CallerValues, prf_output : PRFOutputs, referenced_root : References]

Transfers ==
  [transaction_id : CallerTxIds, sender_index : CallerIndices,
   receiver_index : CallerIndices, value : CallerValues,
   prf_output : PRFOutputs, referenced_root : References]

Next ==
  \/ \E entry \in Entries : UpsertAccount(entry)
  \/ \E request \in Requests : Register(request)
  \/ \E mint \in Mints : Mint(mint)
  \/ \E transfer \in Transfers : Transfer(transfer)
  \/ AdvanceEpoch
  \/ \E epoch \in EpochNumber : AdvanceToEpoch(epoch)
  \/ \E epoch \in EpochNumber : set_current_epoch(epoch)
  \/ AdvanceStep

Spec == Init /\ [][Next]_vars

(* A running loop is never abandoned; callers owe nothing. *)
FairSpec == Spec /\ WF_vars(AdvanceStep)
=============================================================================
