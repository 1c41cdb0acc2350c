----------------------------- MODULE OracleUser -----------------------------
(***************************************************************************)
(* A user of the whole library: accounts and money in the oracle, keys,    *)
(* ciphertexts, commitments, proofs and PRF outputs from the cryptography  *)
(* as it stands.  The user knows the oracle only by what calls return:     *)
(* account indices and balances go into a book, and a root reference and   *)
(* an entry are kept for later, also past changes of the epoch.            *)
(***************************************************************************)
EXTENDS OracleReplies, Protocol, SequencesExt

VARIABLES
  book,      \* account index -> balance, as far as the user knows
  receipt,   \* a root reference from some reply
  held       \* an entry from some reply: at most one

userVars == <<book, receipt, held>>

userSpecVars == <<protocolVars, userVars>>

(* What an entry carries besides its account id, root and epoch. *)
EntryBytes ==
  [public_key : PrivateAccountPK, ciphertext : CiphertextBytes, commitment : CommitmentBytes]

(* The oracle carries the bytes of this library.  There are fewer accounts *)
(* than kInvalidIndexValue, the largest std::size_t: a std::vector of      *)
(* account states has no room for more.                                    *)
ASSUME UserAssumption ==
  /\ Payloads = EntryBytes
  /\ PRFOutputs = PRFOutput
  /\ IsFiniteSet(AccountIds)
  /\ Cardinality(AccountIds) <= kInvalidIndexValue

UserInit ==
  /\ ProtocolInit
  /\ book = [index \in {} |-> 0]
  /\ receipt = current_root
  /\ held = {}

Keys == KeyGeneration

NewBytes ==
  [public_key |-> Keys.public_key, ciphertext |-> EmptyBytes, commitment |-> EmptyBytes]

Join(id) ==
  LET request == [account_id |-> id, payload |-> NewBytes]
      reply == RegisterReply(request)
  IN  /\ Register(request)
      /\ receipt' = reply.root
      /\ IF reply.status = "ok"
         THEN held' = {reply.entry} /\ book' = Put(book, reply.account_index, 0)
         ELSE UNCHANGED <<held, book>>
      /\ reported' = "none"

(* The protocol's Registration reports failure and returns no index. *)
JoinByProtocol(id) ==
  /\ Registration([account_id |-> id, payload |-> NewBytes, epoch |-> current_epoch])
  /\ UNCHANGED userVars

RTransferInstance(transaction, state_root) ==
  [transaction |-> transaction, state_root |-> state_root]

(* The PRF output of a payment comes from the user's key and any input.    *)
PrfOutput(input) == Evaluate(Keys.secret_key, input)

PayIn(index, value, input) ==
  LET mint == [transaction_id |-> "tx", recipient_index |-> index, value |-> value,
               prf_output |-> PrfOutput(input), referenced_root |-> receipt]
      reply == MintReply(mint)
  IN  /\ Mint(mint)
      /\ receipt' = reply.root
      /\ book' = IF reply.status = "ok" THEN Put(book, index, reply.recipient_balance) ELSE book
      /\ reported' = "none"
      /\ UNCHANGED held

Pay(from, to, value, input) ==
  LET transfer == [transaction_id |-> "tx", sender_index |-> from, receiver_index |-> to,
                   value |-> value, prf_output |-> PrfOutput(input), referenced_root |-> receipt]
      reply == TransferReply(transfer)
  IN  /\ Transfer(transfer)
      /\ receipt' = reply.root
      /\ book' = IF reply.status = "rejected" THEN book
                 ELSE Put(Put(book, from, reply.sender_balance), to, reply.receiver_balance)
      /\ reported' = "none"
      /\ UNCHANGED held

(* Queries: an account by id, its balance, and any root listed as current. *)
Look(id) ==
  LET Balance(index) == IF index \in DOMAIN book THEN TryGetBalance(index, book[index]).balance
                        ELSE CHOOSE balance \in InspectBalance(index) : TRUE
  IN  /\ Idle
      /\ held' = FindAccount(id)
      /\ book' = [index \in DOMAIN book \cup FindAccountIndex(id) |-> Balance(index)]
      /\ receipt' \in Range(current_root_versions)
      /\ UNCHANGED protocolVars

(* The held entry replaces the stored one, however old it is by now, with  *)
(* a ciphertext encrypted anew, updated or made elsewhere, and its         *)
(* commitment.                                                             *)
WriteBack(entry) ==
  LET Proof == ProveRTransfer(RTransferInstance(receipt, current_merkle_root))
      Updated == UpdateCiphertext(entry.payload.ciphertext, Proof, entry.epoch).ciphertext
  IN  /\ \E new \in {Encrypt("bytes", entry.payload.public_key), Updated, "bytes"} :
           UpsertAccount([entry EXCEPT !.payload.ciphertext = new,
                                       !.payload.commitment = Commit(new)])
      /\ reported' = "none"
      /\ UNCHANGED userVars

MoveTime ==
  /\ \/ AdvanceEpoch
     \/ \E epoch \in EpochNumber : AdvanceToEpoch(epoch) \/ set_current_epoch(epoch)
     \/ AdvanceStep
  /\ reported' = "none"
  /\ UNCHANGED userVars

UserNext ==
  \/ \E id \in CallerIds : Join(id) \/ JoinByProtocol(id) \/ Look(id)
  \/ \E index \in CallerIndices, value \in CallerValues, input \in ByteString :
       PayIn(index, value, input)
  \/ \E from, to \in CallerIndices, value \in CallerValues, input \in ByteString :
       Pay(from, to, value, input)
  \/ \E entry \in held : WriteBack(entry)
  \/ MoveTime

UserSpec == UserInit /\ [][UserNext]_userSpecVars
-----------------------------------------------------------------------------
(* Two ways to ask the oracle one question give one answer: an account by  *)
(* id, by the index of its id and by count; the current root by itself, in *)
(* the epoch's view and as the last of the listed versions; a PRF output   *)
(* in the set, in the list and by count.                                   *)
QueriesAgree ==
  LET view == InspectEpochState
  IN  /\ \A id \in AccountIds :
           /\ HasAccount(id) <=> FindAccountIndex(id) # {}
           /\ FindAccount(id) = UNION {FindAccountAt(index) : index \in FindAccountIndex(id)}
      /\ Cardinality({id \in AccountIds : HasAccount(id)}) = account_count
      /\ \A index \in CallerIndices : InspectBalance(index) = {} <=> FindAccountAt(index) = {}
      /\ Last(current_root_versions) = current_root_reference
      /\ view.current_root = current_root_reference
      /\ MakeRoot(view.current_epoch, view.current_root_version) = current_merkle_root
      /\ view.accepted_prf_output_count = view.used_prf_output_count
      /\ \A output \in PRFOutputs :
           HasSeenPrfOutputInCurrentEpoch(output) <=> output \in Range(accepted_prf_outputs)

(* A user who is the only one to pay, and who writes down what the replies *)
(* say, knows every balance: also after a transfer to oneself, an overspend*)
(* refused with balances in the reply, and refusals that report zeros.     *)
BookMatches ==
  \A index \in DOMAIN book : InspectBalance(index) = {book[index]}

(* A reference from any reply, a refusal included, is accepted exactly in  *)
(* the epoch it names and in the one after, whatever was called meanwhile: *)
(* no record is dropped, replaced or forgotten, though the epoch's list of *)
(* roots restarts and time may go back.                                    *)
ReceiptsUsable ==
  IsValidRoot(receipt) <=> receipt.epoch \in current_epoch - 1 .. current_epoch

(* The root and the epoch in an entry belong together, in the oracle and   *)
(* in what was handed out, also when an old entry is written back or the   *)
(* epoch has moved: an entry has no root yet, or a recorded one of exactly *)
(* the epoch it names.                                                     *)
EntriesDated ==
  \A entry \in held \cup {accounts[id] : id \in DOMAIN accounts}
                    \cup {account_states[i].entry : i \in DOMAIN account_states} :
    entry.inclusion_root # NoRoot
      => /\ entry.inclusion_root \in DOMAIN valid_roots
         /\ valid_roots[entry.inclusion_root].epoch = entry.epoch

(* All PRF outputs of the library are the same bytes: whatever keys and    *)
(* inputs its users take, the oracle accepts one payment between two epoch *)
(* changes and refuses the others, instead of replaying any.               *)
OnePaymentPerEra == InspectEpochState.accepted_prf_output_count <= 1
=============================================================================
