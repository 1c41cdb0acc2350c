--------------------------- MODULE OracleReplies ----------------------------
(***************************************************************************)
(* What callers of the plaintext oracle get to see: the result structs of  *)
(* Register, Mint and Transfer, and the queries of plaintext_model.h.      *)
(*                                                                         *)
(* A pointer that may be null and a std::optional are sets of at most one  *)
(* element.  Of a Status message only the one that changes what a reply    *)
(* means is kept apart from the others.                                    *)
(***************************************************************************)
EXTENDS PlaintextModelProperties, FiniteSets

AccountIndex == Nat

(* PrivateAccountEntry{}: the bytes of a default entry are not looked at.  *)
DefaultEntry == [account_id |-> "", inclusion_root |-> NoRoot, epoch |-> 0]

RegistrationResult(account_index, entry, root, status) ==
  [account_index |-> account_index, entry |-> entry, root |-> root, status |-> status]

MintResult(root, recipient_balance, status) ==
  [root |-> root, recipient_balance |-> recipient_balance, status |-> status]

TransferResult(root, sender_balance, receiver_balance, status) ==
  [root |-> root, sender_balance |-> sender_balance,
   receiver_balance |-> receiver_balance, status |-> status]

-----------------------------------------------------------------------------
(* The replies, which are built from the state that the call leaves.       *)

RegisterReply(request) ==
  IF ok' THEN RegistrationResult(NewIndex, account_states'[NewIndex + 1].entry, current_root', "ok")
  ELSE RegistrationResult(kInvalidIndexValue, DefaultEntry, current_root, "rejected")

MintReply(mint) ==
  IF ok' THEN MintResult(current_root', account_states'[mint.recipient_index + 1].balance, "ok")
  ELSE MintResult(current_root, 0, "rejected")

SlipCreditedCopy(transfer) ==
  Sum64(account_states[transfer.receiver_index + 1].balance, IF ok' THEN transfer.value ELSE 0)

ReceiverBalance(transfer) == account_states'[transfer.receiver_index + 1].balance

(* A refused overspend reports the balances it left alone; every earlier   *)
(* refusal reports zeros.                                                  *)
TransferReply(transfer) ==
  IF TransferValid(transfer)
  THEN TransferResult(current_root', account_states'[transfer.sender_index + 1].balance,
                      ReceiverBalance(transfer),
                      IF ok' THEN "ok" ELSE "overspend rejected")
  ELSE TransferResult(current_root, 0, 0, "rejected")

-----------------------------------------------------------------------------
(* The queries. *)

FindAccount(account_id) ==
  {accounts[id] : id \in {account_id} \cap DOMAIN accounts}

FindAccountAt(account_index) ==
  IF IsValidAccountIndex(account_index) THEN {account_states[account_index + 1].entry} ELSE {}

FindAccountIndex(account_id) ==
  {account_indices[id] : id \in {account_id} \cap DOMAIN account_indices}

(* No balance is negative. *)
NullPointer == -1

(* balance is what the pointer points to; an unsuccessful call leaves it.  *)
TryGetBalance(account_index, balance) ==
  IF IsValidAccountIndex(account_index) /\ balance # NullPointer
  THEN [found |-> TRUE, balance |-> account_states[account_index + 1].balance]
  ELSE [found |-> FALSE, balance |-> balance]

InspectBalance(account_index) ==
  IF IsValidAccountIndex(account_index) THEN {account_states[account_index + 1].balance} ELSE {}

account_count == Len(account_states)

(* current_root(), which shares its name with the variable here. *)
current_merkle_root == current_root.root

current_root_reference == current_root

HasSeenPrfOutputInCurrentEpoch(prf_output) == prf_output \in prf_outputs_in_current_epoch

accepted_prf_outputs == accepted_prf_outputs_in_current_epoch

(* A key without a record would be passed over. *)
current_root_versions ==
  LET keys == current_epoch_root_keys
      versions[n \in 0 .. Len(keys)] ==
        IF n = 0 THEN << >>
        ELSE IF keys[n] \in DOMAIN valid_roots
             THEN Append(versions[n - 1], valid_roots[keys[n]])
             ELSE versions[n - 1]
  IN  versions[Len(keys)]

EpochStateView(epoch, version, root, accepted, used) ==
  [current_epoch |-> epoch, current_root_version |-> version, current_root |-> root,
   accepted_prf_output_count |-> accepted, used_prf_output_count |-> used]

InspectEpochState ==
  EpochStateView(current_epoch, current_root.version, current_root,
                 Len(accepted_prf_outputs_in_current_epoch),
                 Cardinality(prf_outputs_in_current_epoch))
=============================================================================
