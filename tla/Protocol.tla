------------------------------ MODULE Protocol ------------------------------
(***************************************************************************)
(* The entry points of src/src/protocol on top of the oracle.  They are    *)
(* stubs that check the shape of their input and report that the paper's   *)
(* algorithm is not implemented, but Registration has stored the entry in  *)
(* the oracle by the time it reports that.                                 *)
(***************************************************************************)
EXTENDS PlaintextModelProperties, Placeholders

MintTx ==
  [transaction_id : CallerTxIds, recipient_account_id : CallerIds,
   value : CallerValues, recipient_ciphertext : CiphertextBytes,
   proof : ProofBytes, epoch : CallerEpochs]

TransferTx ==
  [transaction_id : CallerTxIds, sender_account_id : CallerIds,
   receiver_account_id : CallerIds, sender_ciphertext : CiphertextBytes,
   receiver_ciphertext : CiphertextBytes, proof : ProofBytes, epoch : CallerEpochs]

CONSTANTS
  CallerMintTxs,       \* the transactions that callers hand to the protocol
  CallerTransferTxs

ASSUME TransactionsAssumption ==
  /\ CallerMintTxs \subseteq MintTx
  /\ CallerTransferTxs \subseteq TransferTx

VARIABLE reported   \* the status of a protocol call, "none" after other calls

protocolVars == <<vars, reported>>

UnimplementedStatus == "unimplemented"

ProtocolInit == Init /\ reported = "none"

SlipRegisterInOracle(request) ==
  /\ Register([account_id |-> request.account_id, payload |-> request.payload])
  /\ reported' = UnimplementedStatus

(* UpsertAccount repeats the check for an empty id. *)
Registration(request) ==
  LET entry == [account_id |-> request.account_id, payload |-> request.payload,
                inclusion_root |-> NoRoot, epoch |-> request.epoch]
  IN  /\ Idle
      /\ \/ /\ request.account_id = ""
            /\ reported' = "malformed"
            /\ UNCHANGED vars
         \/ /\ request.account_id # ""
            /\ UpsertAccount(entry)
            /\ reported' = IF ok' THEN UnimplementedStatus ELSE "malformed"

(* What Mint and Transfer report; the model they are given is not used.    *)
MintStatus(transaction) ==
  IF transaction.recipient_account_id = "" THEN "malformed" ELSE UnimplementedStatus

TransferStatus(transaction) ==
  IF "" \in {transaction.sender_account_id, transaction.receiver_account_id}
  THEN "malformed"
  ELSE UnimplementedStatus

ProcessMintTransaction(transaction) ==
  /\ Idle
  /\ reported' = MintStatus(transaction)
  /\ UNCHANGED vars

ProcessTransferTransaction(transaction) ==
  /\ Idle
  /\ reported' = TransferStatus(transaction)
  /\ UNCHANGED vars

ProtocolRequests == [account_id : CallerIds, payload : Payloads, epoch : CallerEpochs]

ProtocolNext ==
  \/ Next /\ reported' = "none"
  \/ \E request \in ProtocolRequests : Registration(request)
  \/ \E transaction \in CallerMintTxs : ProcessMintTransaction(transaction)
  \/ \E transaction \in CallerTransferTxs : ProcessTransferTransaction(transaction)

ProtocolSpec == ProtocolInit /\ [][ProtocolNext]_protocolVars
-----------------------------------------------------------------------------
(* While the algorithms are stubs, no protocol call reports success, and   *)
(* what Registration leaves behind is no more than an entry: roots, replay *)
(* state, epoch and the balances of existing accounts stay as they were,   *)
(* an account it adds holds nothing, and a malformed call adds none.       *)
ProtocolFailsClosed ==
  [][reported' # "none"
       => /\ reported' \in {"malformed", UnimplementedStatus}
          /\ UNCHANGED <<rootVars, prfVars, current_epoch>>
          /\ reported' = "malformed" => UNCHANGED accountVars
          /\ \A i \in DOMAIN account_states' :
               account_states'[i].balance =
                 IF i \in DOMAIN account_states THEN account_states[i].balance ELSE 0]_protocolVars
=============================================================================
