----------------------------- MODULE MCProtocol -----------------------------
(***************************************************************************)
(* A small instance of the oracle under its own and the protocol's calls.  *)
(* The stubs read only the account ids of a transaction: the rest of it    *)
(* takes one value.                                                        *)
(***************************************************************************)
EXTENDS MCPlaintextModel, Protocol

MintTxs ==
  {tx \in MintTx : /\ tx.transaction_id = "tx" /\ tx.value = 1 /\ tx.epoch = 0
                   /\ {tx.recipient_ciphertext, tx.proof} = {EmptyBytes}}

TransferTxs ==
  {tx \in TransferTx : /\ tx.transaction_id = "tx" /\ tx.epoch = 0
                       /\ {tx.sender_ciphertext, tx.receiver_ciphertext, tx.proof} = {EmptyBytes}}
=============================================================================
