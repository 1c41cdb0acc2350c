-------------------------- MODULE OracleUserProofs --------------------------
(***************************************************************************)
(* Proofs about OracleUser: what replies and queries tell a user stays     *)
(* true, for any number of accounts, epochs and calls.                     *)
(***************************************************************************)
EXTENDS OracleUser, ProtocolProofs, FiniteSetTheorems

(* What the user passes. *)

LEMMA UserTypes ==
  /\ Payloads = EntryBytes
  /\ PRFOutputs = PRFOutput
  /\ IsFiniteSet(AccountIds)
  /\ Cardinality(AccountIds) <= kInvalidIndexValue
  /\ "" \notin AccountIds
  /\ kInvalidIndexValue \in Nat
  /\ CallerIds \subseteq AccountIds \cup {""}
  /\ CallerIndices \subseteq Nat
  /\ CallerValues \subseteq Amount
  /\ NoRoot \notin Root
BY UserAssumption, ConstantsAssumption, RootsAssumption, Zenon
   DEF UserAssumption, ConstantsAssumption, RootsAssumption

LEMMA NewBytesType == NewBytes \in Payloads
<1>1. NewBytes \in EntryBytes
  BY DEF NewBytes, EntryBytes, Keys, KeyGeneration, PrivateAccountPK, CiphertextBytes,
         CommitmentBytes, ByteString
<1> QED BY <1>1, UserTypes
-----------------------------------------------------------------------------
(* What the user knows, and what the oracle keeps of it. *)

Recorded(reference) ==
  reference.root \in DOMAIN valid_roots /\ valid_roots[reference.root] = reference

Dated(entry) ==
  entry.inclusion_root # NoRoot
    => /\ entry.inclusion_root \in DOMAIN valid_roots
       /\ valid_roots[entry.inclusion_root].epoch = entry.epoch

SlotsDated == \A i \in DOMAIN account_states : Dated(account_states[i].entry)

HeldDated == \A entry \in held : entry \in PrivateAccountEntry /\ Dated(entry)

BookKept ==
  \A index \in DOMAIN book :
    /\ index \in Nat
    /\ index + 1 \in DOMAIN account_states
    /\ book[index] = account_states[index + 1].balance

(* The only output of the placeholder PRF. *)
OneOutput == prf_outputs_in_current_epoch \subseteq {EmptyBytes}

UserInv ==
  /\ Inv /\ RootRoom
  /\ Recorded(receipt)
  /\ SlotsDated
  /\ HeldDated
  /\ BookKept
  /\ OneOutput

LEMMA CurrentRecorded == Inv => Recorded(current_root)
BY CurrentUsable DEF ListedRootsUsable, IsValidRoot, ValidateReferencedRoot, Recorded

LEMMA RecordedStays ==
  ASSUME RootsKept, NEW reference, Recorded(reference)
  PROVE  Recorded(reference)'
BY DEF RootsKept, Recorded

LEMMA DatedStays ==
  ASSUME RootsKept, NEW entry, Dated(entry)
  PROVE  Dated(entry)'
BY DEF RootsKept, Dated

(* The user keeps its reference, or takes one from a reply. *)
LEMMA ReceiptStep ==
  ASSUME Inv, Inv', RootsKept, Recorded(receipt),
         receipt' \in {receipt, current_root, current_root'}
  PROVE  Recorded(receipt)'
<1>1. CASE receipt' = receipt
  BY <1>1, RecordedStays DEF Recorded
<1>2. CASE receipt' = current_root
  BY <1>2, CurrentRecorded, RecordedStays DEF Recorded
<1>3. CASE receipt' = current_root'
  <2>1. Recorded(current_root)'
    BY CurrentRecorded, PTL
  <2> QED BY <1>3, <2>1 DEF Recorded
<1> QED BY <1>1, <1>2, <1>3

(* A new root stamps every entry. *)
LEMMA StampedDates ==
  ASSUME Inv, Inv', StampsEntries, root_version' # root_version
  PROVE  SlotsDated'
<1>1. Recorded(current_root)'
  BY CurrentRecorded, PTL
<1>2. current_root'.epoch = current_epoch'
  BY DEF Inv, RootsInv, RootsListed, Reference
<1> QED BY <1>1, <1>2 DEF StampsEntries, SlotsDated, Dated, Recorded

LEMMA SlotsUnchanged ==
  ASSUME RootsKept, SlotsDated, UNCHANGED account_states
  PROVE  SlotsDated'
<1> SUFFICES ASSUME NEW i \in DOMAIN account_states
             PROVE  Dated(account_states[i].entry)'
  BY DEF SlotsDated
<1> PICK entry : entry = account_states[i].entry
  OBVIOUS
<1>1. Dated(entry)'
  BY DatedStays DEF SlotsDated
<1> QED BY <1>1 DEF Dated

(* An entry that is stored is as good as the one passed. *)
LEMMA UpsertedSlots ==
  ASSUME Inv, RootsKept, SlotsDated,
         NEW entry, TypedEntry(entry), Dated(entry), UpsertAccount(entry)
  PROVE  SlotsDated'
<1>1. /\ account_states \in Seq(AccountState)
      /\ DOMAIN account_states = 1 .. Len(account_states)
      /\ Len(account_states) \in Nat
  BY DEF Inv, AccountsInv, AccountsTypeOK
<1>2. CASE Rejected
  BY <1>2, SlotsUnchanged DEF Rejected, ledgerVars, accountVars
<1>3. ASSUME NEW i \in DOMAIN account_states',
             \/ account_states'[i].entry = entry
             \/ i \in DOMAIN account_states /\ account_states'[i].entry = account_states[i].entry
      PROVE  Dated(account_states[i].entry)'
  <2> PICK stored : stored = account_states'[i].entry
    OBVIOUS
  <2>1. Dated(stored)
    BY <1>3 DEF SlotsDated
  <2>2. Dated(stored)'
    BY <2>1, DatedStays
  <2> QED BY <2>2 DEF Dated
<1>4. CASE /\ HasAccountIndex(entry.account_id)
           /\ account_states' = ReplaceEntry(account_indices[entry.account_id], entry)
  <2> DEFINE slot == account_indices[entry.account_id] + 1
  <2>1. account_states' = [account_states EXCEPT ![slot].entry = entry]
    BY <1>4 DEF ReplaceEntry
  <2>2. slot \in DOMAIN account_states
    BY <1>4 DEF Inv, AccountsInv, AccountsIndexed, HasAccountIndex
  <2>3. [account_states[slot] EXCEPT !.entry = entry].entry = entry
    <3>1. account_states[slot] \in AccountState
      BY <1>1, <2>2
    <3> QED BY <3>1 DEF AccountState
  <2> HIDE DEF slot
  <2>4. \A i \in DOMAIN account_states' :
          \/ account_states'[i].entry = entry
          \/ i \in DOMAIN account_states /\ account_states'[i].entry = account_states[i].entry
    BY <2>1, <2>2, <2>3
  <2> QED BY <2>4, <1>3 DEF SlotsDated
<1>5. CASE account_states' = Append(account_states, [entry |-> entry, balance |-> 0])
  <2>1. \A i \in DOMAIN account_states' :
          \/ account_states'[i].entry = entry
          \/ i \in DOMAIN account_states /\ account_states'[i].entry = account_states[i].entry
    BY <1>1, <1>5
  <2> QED BY <2>1, <1>3 DEF SlotsDated
<1> QED BY <1>2, <1>4, <1>5 DEF UpsertAccount

LEMMA HeldUnchanged ==
  ASSUME RootsKept, HeldDated, UNCHANGED held
  PROVE  HeldDated'
BY DatedStays DEF HeldDated

(* What the book says of an account is kept, or read off the new balance.  *)
LEMMA BookStep ==
  ASSUME BookKept, NEW changed, BalancesKept(changed),
         \A index \in DOMAIN book' :
           \/ /\ index \in DOMAIN book
              /\ index + 1 \notin changed
              /\ book'[index] = book[index]
           \/ /\ index \in Nat
              /\ index + 1 \in DOMAIN account_states'
              /\ book'[index] = account_states'[index + 1].balance
  PROVE  BookKept'
BY DEF BookKept, BalancesKept
-----------------------------------------------------------------------------
(* The user's steps. *)

(* Every step but the payments, in which the oracle does nothing.          *)
LEMMA QuietUserStep ==
  ASSUME UserInv, Inv', RootRoom', UNCHANGED ledgerVars,
         UNCHANGED <<book, held>>, receipt' \in {receipt, current_root}
  PROVE  UserInv'
<1>1. /\ UNCHANGED <<account_states, valid_roots, prf_outputs_in_current_epoch>>
      /\ RootsKept /\ BalancesKept({})
  BY DEF ledgerVars, accountVars, rootVars, prfVars, RootsKept, BalancesKept
<1>2. Recorded(receipt)'
  BY <1>1, ReceiptStep DEF UserInv
<1>3. SlotsDated' /\ HeldDated'
  BY <1>1, SlotsUnchanged, HeldUnchanged DEF UserInv
<1>4. BookKept' /\ OneOutput'
  BY <1>1 DEF UserInv, BookKept, OneOutput
<1> QED BY <1>2, <1>3, <1>4 DEF UserInv

LEMMA OracleStep ==
  ASSUME Inv, RootRoom, TypedCall
  PROVE  Inv' /\ RootRoom' /\ StampsEntries /\ RootsKept /\ root_version \in Nat
BY NextStep, RoomStep, RootsStay DEF StepOK, Inv, RootsInv, RootsTypeOK, RootVersion

LEMMA JoinStep ==
  ASSUME UserInv, NEW id \in CallerIds, Join(id)
  PROVE  UserInv'
<1> DEFINE request == [account_id |-> id, payload |-> NewBytes]
           reply == RegisterReply(request)
<1>1. /\ Register(request)
      /\ receipt' = reply.root
      /\ IF reply.status = "ok"
         THEN held' = {reply.entry} /\ book' = Put(book, reply.account_index, 0)
         ELSE UNCHANGED <<held, book>>
  BY DEF Join
<1>2. TypedRequest(request)
  BY NewBytesType, UserTypes DEF TypedRequest
<1>3. TypedCall
  BY <1>1, <1>2, Zenon DEF TypedCall
<1>4. Inv' /\ RootRoom' /\ StampsEntries /\ RootsKept /\ root_version \in Nat
  BY <1>3, OracleStep DEF UserInv
<1>5. CASE Rejected
  <2>1. receipt' = current_root /\ UNCHANGED <<held, book>>
    BY <1>1, <1>5 DEF Rejected, RegisterReply, RegistrationResult
  <2> QED BY <1>1, <1>4, <1>5, <2>1, QuietUserStep DEF Rejected
<1>6. CASE /\ ok' = TRUE
           /\ BalancesKept({})
           /\ DOMAIN account_states' = DOMAIN account_states \cup {NewIndex + 1}
           /\ account_states'[NewIndex + 1].balance = 0
           /\ NewIndex + 1 \notin DOMAIN account_states
           /\ NewIndex \in Nat
           /\ root_version' = root_version + 1
           /\ UNCHANGED <<prfVars, current_epoch>>
  <2>1. /\ receipt' = current_root'
        /\ held' = {account_states'[NewIndex + 1].entry}
        /\ book' = Put(book, NewIndex, 0)
    BY <1>1, <1>6 DEF RegisterReply, RegistrationResult
  <2>2. Recorded(receipt)'
    BY <1>4, <2>1, ReceiptStep DEF UserInv
  <2>3. SlotsDated'
    BY <1>4, <1>6, StampedDates DEF UserInv
  <2>4. HeldDated'
    <3>1. account_states' \in Seq(AccountState)
      BY <1>4 DEF Inv, AccountsInv, AccountsTypeOK
    <3>2. account_states'[NewIndex + 1] \in AccountState
      BY <1>6, <3>1
    <3> QED BY <1>6, <2>1, <2>3, <3>2 DEF HeldDated, SlotsDated, AccountState
  <2>5. BookKept'
    <3>1. \A index \in DOMAIN book' :
            \/ index \in DOMAIN book /\ index + 1 \notin {} /\ book'[index] = book[index]
            \/ /\ index \in Nat
               /\ index + 1 \in DOMAIN account_states'
               /\ book'[index] = account_states'[index + 1].balance
      BY <1>6, <2>1 DEF Put
    <3> QED BY <1>6, <3>1, BookStep DEF UserInv
  <2>6. OneOutput'
    BY <1>6 DEF UserInv, OneOutput, prfVars
  <2> QED BY <1>4, <2>2, <2>3, <2>4, <2>5, <2>6 DEF UserInv
<1> QED BY <1>1, <1>2, <1>5, <1>6, RegisterOpens DEF UserInv

(* An entry with a root of its own epoch, or with none, is stored.         *)
LEMMA StoreStep ==
  ASSUME UserInv, NEW entry, TypedEntry(entry), Dated(entry), UpsertAccount(entry),
         UNCHANGED userVars
  PROVE  UserInv'
<1>1. TypedCall
  BY Zenon DEF TypedCall
<1>2. Inv' /\ RootRoom' /\ RootsKept
  BY <1>1, OracleStep DEF UserInv
<1>3. /\ UNCHANGED <<rootVars, prfVars, current_epoch>>
      /\ \A i \in DOMAIN account_states' :
           account_states'[i].balance =
             IF i \in DOMAIN account_states THEN account_states[i].balance ELSE 0
  BY UpsertMovesNothing DEF UserInv
<1>4. \A i \in DOMAIN account_states : i \in DOMAIN account_states'
  <2>1. /\ account_states \in Seq(AccountState)
        /\ DOMAIN account_states = 1 .. Len(account_states)
        /\ Len(account_states) \in Nat
    BY DEF UserInv, Inv, AccountsInv, AccountsTypeOK
  <2>2. CASE Rejected
    BY <2>2 DEF Rejected, ledgerVars, accountVars
  <2>3. CASE account_states' = ReplaceEntry(account_indices[entry.account_id], entry)
    BY <2>3 DEF ReplaceEntry
  <2>4. CASE account_states' = Append(account_states, [entry |-> entry, balance |-> 0])
    BY <2>1, <2>4
  <2> QED BY <2>2, <2>3, <2>4 DEF UpsertAccount
<1>5. BalancesKept({})
  BY <1>3, <1>4 DEF BalancesKept
<1>6. Recorded(receipt)'
  BY <1>2, RecordedStays DEF UserInv, userVars, Recorded
<1>7. SlotsDated' /\ HeldDated'
  BY <1>2, UpsertedSlots, HeldUnchanged DEF UserInv, userVars
<1>8. BookKept'
  BY <1>5, BookStep DEF UserInv, userVars
<1>9. OneOutput'
  BY <1>3 DEF UserInv, OneOutput, prfVars, userVars
<1> QED BY <1>2, <1>6, <1>7, <1>8, <1>9 DEF UserInv

LEMMA JoinByProtocolStep ==
  ASSUME UserInv, NEW id \in CallerIds, JoinByProtocol(id)
  PROVE  UserInv'
<1> DEFINE entry == [account_id |-> id, payload |-> NewBytes,
                     inclusion_root |-> NoRoot, epoch |-> current_epoch]
<1>1. UNCHANGED userVars /\ (UNCHANGED vars \/ UpsertAccount(entry))
  BY DEF JoinByProtocol, Registration
<1>2. TypedEntry(entry) /\ Dated(entry)
  <2>1. current_epoch \in EpochNumber
    BY DEF UserInv, Inv, ControlInv
  <2> QED BY <2>1, NewBytesType, UserTypes
          DEF TypedEntry, Dated, PrivateAccountEntry, MerkleRoot
<1> HIDE DEF entry
<1>3. CASE UNCHANGED vars
  <2>1. Inv' /\ RootRoom'
    BY <1>3, StutterStep DEF UserInv
  <2> QED BY <1>1, <1>3, <2>1, QuietUserStep DEF vars, userVars
<1>4. CASE UpsertAccount(entry)
  BY <1>1, <1>2, <1>4, StoreStep
<1> QED BY <1>1, <1>3, <1>4

LEMMA WriteBackStep ==
  ASSUME UserInv, NEW entry \in held, WriteBack(entry)
  PROVE  UserInv'
<1> DEFINE Changed(new) == [entry EXCEPT !.payload.ciphertext = new,
                                         !.payload.commitment = Commit(new)]
<1>1. entry \in PrivateAccountEntry /\ Dated(entry) /\ entry.payload \in EntryBytes
  BY UserTypes DEF UserInv, HeldDated, PrivateAccountEntry
<1>2. PICK new \in CiphertextBytes : UpsertAccount(Changed(new))
  <2>1. /\ Encrypt("bytes", entry.payload.public_key) \in CiphertextBytes
        /\ "bytes" \in CiphertextBytes
        /\ \A proof, epoch :
             UpdateCiphertext(entry.payload.ciphertext, proof, epoch).ciphertext
               \in CiphertextBytes
    BY <1>1 DEF Encrypt, UpdateCiphertext, CiphertextBytes, ByteString, EmptyBytes, EntryBytes
  <2> QED BY <2>1 DEF WriteBack
<1>3. UNCHANGED userVars
  BY DEF WriteBack
<1>4. TypedEntry(Changed(new)) /\ Dated(Changed(new))
  <2>1. Commit(new) \in CommitmentBytes
    BY DEF Commit, CommitmentBytes, ByteString
  <2>2. Changed(new) = [entry EXCEPT !.payload =
                          [entry.payload EXCEPT !.ciphertext = new, !.commitment = Commit(new)]]
    BY <1>1 DEF PrivateAccountEntry, EntryBytes
  <2>3. [entry.payload EXCEPT !.ciphertext = new, !.commitment = Commit(new)] \in Payloads
    BY <1>1, <2>1, UserTypes DEF EntryBytes
  <2>4. /\ Changed(new) \in PrivateAccountEntry
        /\ Changed(new).inclusion_root = entry.inclusion_root
        /\ Changed(new).epoch = entry.epoch
    BY <1>1, <2>2, <2>3 DEF PrivateAccountEntry
  <2> QED BY <1>1, <2>4 DEF TypedEntry, Dated
<1> HIDE DEF Changed
<1> QED BY <1>2, <1>3, <1>4, StoreStep

(* What a payment of a user leaves, whatever it writes into the book.      *)
LEMMA PaymentKeeps ==
  ASSUME UserInv, Inv', RootRoom', StampsEntries, RootsKept, root_version \in Nat,
         UNCHANGED held,
         receipt' \in {current_root, current_root'},
         \/ UNCHANGED ledgerVars
         \/ /\ root_version' = root_version + 1
            /\ prf_outputs_in_current_epoch' = prf_outputs_in_current_epoch \cup {EmptyBytes},
         BookKept'
  PROVE  UserInv'
<1>1. Recorded(receipt)'
  BY ReceiptStep DEF UserInv
<1>2. SlotsDated'
  <2>1. CASE UNCHANGED ledgerVars
    BY <2>1, SlotsUnchanged DEF UserInv, ledgerVars, accountVars
  <2>2. CASE root_version' = root_version + 1
    BY <2>2, StampedDates DEF UserInv
  <2> QED BY <2>1, <2>2
<1>3. HeldDated'
  BY HeldUnchanged DEF UserInv
<1>4. OneOutput'
  BY DEF UserInv, OneOutput, ledgerVars, prfVars
<1> QED BY <1>1, <1>2, <1>3, <1>4 DEF UserInv

LEMMA PayInStep ==
  ASSUME UserInv, NEW index \in CallerIndices, NEW value \in CallerValues, NEW input,
         PayIn(index, value, input)
  PROVE  UserInv'
<1> DEFINE mint == [transaction_id |-> "tx", recipient_index |-> index, value |-> value,
                    prf_output |-> PrfOutput(input), referenced_root |-> receipt]
           reply == MintReply(mint)
<1>1. /\ Mint(mint)
      /\ receipt' = reply.root
      /\ book' = IF reply.status = "ok" THEN Put(book, index, reply.recipient_balance) ELSE book
      /\ UNCHANGED held
  BY DEF PayIn
<1>2. TypedMint(mint) /\ mint.prf_output = EmptyBytes
  <2>1. PrfOutput(input) = EmptyBytes /\ EmptyBytes \in PRFOutputs
    BY UserTypes DEF PrfOutput, Evaluate, PRFOutput, ByteString
  <2>2. index \in Nat /\ value \in Amount
    BY UserTypes
  <2> QED BY <2>1, <2>2 DEF TypedMint
<1>3. TypedCall
  BY <1>1, <1>2, Zenon DEF TypedCall
<1>4. Inv' /\ RootRoom' /\ StampsEntries /\ RootsKept /\ root_version \in Nat
  BY <1>3, OracleStep DEF UserInv
<1>5. CASE Rejected
  <2>1. receipt' = current_root /\ UNCHANGED book
    BY <1>1, <1>5 DEF Rejected, MintReply, MintResult
  <2> QED BY <1>1, <1>4, <1>5, <2>1, QuietUserStep DEF Rejected
<1>6. CASE /\ ok' = TRUE
           /\ mint.recipient_index + 1 \in DOMAIN account_states
           /\ BalancesKept({mint.recipient_index + 1})
           /\ DOMAIN account_states' = DOMAIN account_states
           /\ root_version' = root_version + 1
           /\ prf_outputs_in_current_epoch' =
                prf_outputs_in_current_epoch \cup {mint.prf_output}
  <2>1. /\ receipt' = current_root'
        /\ book' = Put(book, index, account_states'[index + 1].balance)
    BY <1>1, <1>6 DEF MintReply, MintResult
  <2>2. BookKept'
    <3>1. BookKept /\ index \in Nat
      BY UserTypes DEF UserInv
    <3>2. \A i \in DOMAIN book' :
            \/ i \in DOMAIN book /\ i + 1 \notin {index + 1} /\ book'[i] = book[i]
            \/ /\ i \in Nat
               /\ i + 1 \in DOMAIN account_states'
               /\ book'[i] = account_states'[i + 1].balance
      BY <1>6, <2>1, <3>1 DEF Put, BookKept
    <3> QED BY <1>6, <3>1, <3>2, BookStep
  <2>3. mint.prf_output = EmptyBytes
    BY <1>2
  <2> QED BY <1>1, <1>4, <1>6, <2>1, <2>2, <2>3, PaymentKeeps
<1> HIDE DEF mint
<1> QED BY <1>1, <1>2, <1>5, <1>6, MintCredits DEF UserInv

LEMMA PayStep ==
  ASSUME UserInv, NEW from \in CallerIndices, NEW to \in CallerIndices,
         NEW value \in CallerValues, NEW input, Pay(from, to, value, input)
  PROVE  UserInv'
<1> DEFINE transfer == [transaction_id |-> "tx", sender_index |-> from, receiver_index |-> to,
                        value |-> value, prf_output |-> PrfOutput(input),
                        referenced_root |-> receipt]
           reply == TransferReply(transfer)
           Told == Put(Put(book, from, account_states'[from + 1].balance),
                       to, account_states'[to + 1].balance)
<1>1. /\ Transfer(transfer)
      /\ receipt' = reply.root
      /\ book' = IF reply.status = "rejected" THEN book
                 ELSE Put(Put(book, from, reply.sender_balance), to, reply.receiver_balance)
      /\ UNCHANGED held
  BY DEF Pay
<1>2. /\ TypedTransfer(transfer) /\ transfer.prf_output = EmptyBytes
      /\ transfer.sender_index = from /\ transfer.receiver_index = to
      /\ from \in Nat /\ to \in Nat
  <2>1. PrfOutput(input) = EmptyBytes /\ EmptyBytes \in PRFOutputs
    BY UserTypes DEF PrfOutput, Evaluate, PRFOutput, ByteString
  <2>2. from \in Nat /\ to \in Nat /\ value \in Amount
    BY UserTypes
  <2> QED BY <2>1, <2>2 DEF TypedTransfer
<1>3. TypedCall
  BY <1>1, <1>2, Zenon DEF TypedCall
<1>4. Inv' /\ RootRoom' /\ StampsEntries /\ RootsKept /\ root_version \in Nat
  BY <1>3, OracleStep DEF UserInv
<1>5. TransferValid(transfer)
        => /\ receipt' = current_root' /\ book' = Told
           /\ from + 1 \in DOMAIN account_states /\ to + 1 \in DOMAIN account_states
  <2>1. ASSUME TransferValid(transfer)
        PROVE  /\ reply.root = current_root' /\ reply.status # "rejected"
               /\ reply.sender_balance = account_states'[from + 1].balance
               /\ reply.receiver_balance = account_states'[to + 1].balance
    BY <2>1 DEF TransferReply, TransferResult, ReceiverBalance
  <2>2. ASSUME TransferValid(transfer)
        PROVE  from + 1 \in DOMAIN account_states /\ to + 1 \in DOMAIN account_states
    <3>1. IsValidAccountIndex(from) /\ IsValidAccountIndex(to)
      BY <1>2, <2>2 DEF TransferValid
    <3> QED BY <1>2, <3>1, ValidIndex DEF UserInv, Inv, AccountsInv
  <2> HIDE DEF reply
  <2> QED BY <1>1, <2>1, <2>2
<1>6. ~TransferValid(transfer) => receipt' = current_root /\ book' = book
  BY <1>1 DEF TransferReply, TransferResult
<1>7. ASSUME TransferValid(transfer), BalancesKept({from + 1, to + 1}),
             DOMAIN account_states' = DOMAIN account_states
      PROVE  BookKept'
  <2>1. BookKept
    BY DEF UserInv
  <2>2. \A i \in DOMAIN book' :
          \/ i \in DOMAIN book /\ i + 1 \notin {from + 1, to + 1} /\ book'[i] = book[i]
          \/ /\ i \in Nat
             /\ i + 1 \in DOMAIN account_states'
             /\ book'[i] = account_states'[i + 1].balance
    <3>1. /\ DOMAIN Told = DOMAIN book \cup {from, to}
          /\ Told[from] = account_states'[from + 1].balance
          /\ Told[to] = account_states'[to + 1].balance
          /\ \A i \in DOMAIN book \ {from, to} : Told[i] = book[i]
      <4>1. PICK a, b : a = account_states'[from + 1].balance /\ b = account_states'[to + 1].balance
        OBVIOUS
      <4>2. from = to => a = b
        BY <4>1
      <4>3. Told = Put(Put(book, from, a), to, b)
        BY <4>1
      <4> HIDE DEF Told
      <4>4. /\ DOMAIN Told = DOMAIN book \cup {from, to}
            /\ Told[from] = a /\ Told[to] = b
            /\ \A i \in DOMAIN book \ {from, to} : Told[i] = book[i]
        BY <4>2, <4>3 DEF Put
      <4> QED BY <4>1, <4>4
    <3> HIDE DEF Told
    <3>2. book' = Told /\ from + 1 \in DOMAIN account_states /\ to + 1 \in DOMAIN account_states
      BY <1>5, <1>7
    <3>3. \A i \in DOMAIN book : i \in Nat
      BY <2>1 DEF BookKept
    <3> QED BY <1>2, <1>7, <3>1, <3>2, <3>3
  <2> QED BY <1>7, <2>1, <2>2, BookStep
<1> HIDE DEF transfer, reply, Told
<1>8. CASE Rejected /\ ~TransferValid(transfer)
  BY <1>1, <1>4, <1>6, <1>8, QuietUserStep DEF Rejected
<1>9. CASE Rejected /\ TransferValid(transfer)
  <2>1. /\ UNCHANGED ledgerVars
        /\ BalancesKept({from + 1, to + 1})
        /\ DOMAIN account_states' = DOMAIN account_states
    BY <1>9 DEF Rejected, ledgerVars, accountVars, BalancesKept
  <2>2. BookKept'
    BY <1>7, <1>9, <2>1
  <2> QED BY <1>1, <1>4, <1>5, <1>9, <2>1, <2>2, PaymentKeeps
<1>10. CASE /\ ok' = TRUE
            /\ TransferValid(transfer)
            /\ BalancesKept({transfer.sender_index + 1, transfer.receiver_index + 1})
            /\ DOMAIN account_states' = DOMAIN account_states
            /\ root_version' = root_version + 1
            /\ prf_outputs_in_current_epoch' =
                 prf_outputs_in_current_epoch \cup {transfer.prf_output}
  <2>1. BookKept'
    BY <1>2, <1>7, <1>10
  <2> QED BY <1>1, <1>2, <1>4, <1>5, <1>10, <2>1, PaymentKeeps
<1> QED BY <1>1, <1>2, <1>8, <1>9, <1>10, TransferMoves DEF UserInv

LEMMA EpochUserStep ==
  ASSUME UserInv, Inv', RootRoom', StampsEntries, RootsKept, root_version \in Nat,
         NEW epoch, ApplyEpochTransition(epoch), UNCHANGED userVars
  PROVE  UserInv'
<1>1. /\ BalancesKept({})
      /\ DOMAIN account_states' = DOMAIN account_states
      /\ root_version' = root_version + 1
      /\ prf_outputs_in_current_epoch' = {}
  BY TransitionKeeps DEF UserInv
<1>2. Recorded(receipt)'
  BY ReceiptStep DEF UserInv, userVars
<1>3. SlotsDated' /\ HeldDated'
  BY <1>1, StampedDates, HeldUnchanged DEF UserInv, userVars
<1>4. BookKept'
  BY <1>1, BookStep DEF UserInv, userVars
<1>5. OneOutput'
  BY <1>1 DEF UserInv, OneOutput, userVars
<1> QED BY <1>2, <1>3, <1>4, <1>5 DEF UserInv

LEMMA MoveTimeStep ==
  ASSUME UserInv, MoveTime
  PROVE  UserInv'
<1>1. UNCHANGED userVars
  BY DEF MoveTime
<1>2. TypedCall
  BY DEF MoveTime, TypedCall
<1>3. Inv' /\ RootRoom' /\ StampsEntries /\ RootsKept /\ root_version \in Nat
  BY <1>2, OracleStep DEF UserInv
<1>4. UNCHANGED ledgerVars \/ \E epoch : ApplyEpochTransition(epoch)
  BY DEF MoveTime, AdvanceEpoch, AdvanceToEpoch, set_current_epoch, AdvanceStep,
         StartLoop, Rejected
<1>5. CASE UNCHANGED ledgerVars
  BY <1>1, <1>3, <1>5, QuietUserStep DEF userVars
<1>6. CASE \E epoch : ApplyEpochTransition(epoch)
  <2> PICK epoch : ApplyEpochTransition(epoch)
    BY <1>6
  <2> QED BY <1>1, <1>3, EpochUserStep
<1> QED BY <1>4, <1>5, <1>6
-----------------------------------------------------------------------------
(* The queries. *)

(* There are no more accounts than ids, so every slot has a valid index.   *)
LEMMA IndexRoom ==
  ASSUME Inv
  PROVE  /\ Len(account_states) \in Nat
         /\ Len(account_states) <= kInvalidIndexValue
         /\ DOMAIN account_states = 1 .. Len(account_states)
         /\ \A index \in Nat :
              IsValidAccountIndex(index) <=> index + 1 \in DOMAIN account_states
<1>1. /\ account_states \in Seq(AccountState)
      /\ Len(account_states) \in Nat
      /\ DOMAIN account_states = 1 .. Len(account_states)
  BY DEF Inv, AccountsInv, AccountsTypeOK
<1>2. Len(account_states) <= Cardinality(AccountIds)
  <2> DEFINE ids == [i \in 1 .. Len(account_states) |-> account_states[i].entry.account_id]
  <2>1. \A i \in 1 .. Len(account_states) : account_states[i].entry.account_id \in AccountIds
    <3>1. \A i \in 1 .. Len(account_states) : account_states[i] \in AccountState
      BY <1>1
    <3> QED BY <3>1 DEF AccountState, PrivateAccountEntry
  <2>2. \A i \in 1 .. Len(account_states) : account_indices[ids[i]] = i - 1
    BY <1>1 DEF Inv, AccountsInv, AccountsIndexed
  <2>3. ids \in Injection(1 .. Len(account_states), AccountIds)
    <3>1. ids \in [1 .. Len(account_states) -> AccountIds]
      BY <2>1
    <3>2. \A i, j \in 1 .. Len(account_states) : ids[i] = ids[j] => i = j
      <4> HIDE DEF ids
      <4> QED BY <2>2, <1>1
    <3> QED BY <3>1, <3>2 DEF Injection, IsInjective
  <2>4. Cardinality(1 .. Len(account_states)) = Len(account_states)
    BY <1>1, FS_Interval
  <2> HIDE DEF ids
  <2>5. IsFiniteSet(AccountIds)
    BY UserTypes, Zenon
  <2>6. Cardinality(1 .. Len(account_states)) <= Cardinality(AccountIds)
    BY <2>3, <2>5, FS_Injection
  <2> QED BY <2>4, <2>6
<1>3. /\ Cardinality(AccountIds) \in Nat /\ kInvalidIndexValue \in Nat
      /\ Cardinality(AccountIds) <= kInvalidIndexValue
  BY UserTypes, FS_CardinalityType, Zenon
<1>4. Len(account_states) <= kInvalidIndexValue
  BY <1>1, <1>2, <1>3
<1> QED BY <1>1, <1>3, <1>4 DEF IsValidAccountIndex

(* The listed versions are the records of this epoch's roots, in order;    *)
(* none is passed over.                                                    *)
Listing(keys, versions) ==
  versions = [n \in 0 .. Len(keys) |->
    IF n = 0 THEN << >>
    ELSE IF keys[n] \in DOMAIN valid_roots
         THEN Append(versions[n - 1], valid_roots[keys[n]])
         ELSE versions[n - 1]]

LEMMA ListedVersions ==
  ASSUME Inv
  PROVE  current_root_versions =
           [i \in 1 .. Len(current_epoch_root_keys) |-> valid_roots[current_epoch_root_keys[i]]]
<1> DEFINE keys == current_epoch_root_keys
           records == [n \in 0 .. Len(keys) |-> [i \in 1 .. n |-> valid_roots[keys[i]]]]
           chosen == CHOOSE versions : Listing(keys, versions)
<1>1. /\ Len(keys) \in Nat
      /\ \A n \in 1 .. Len(keys) : keys[n] \in DOMAIN valid_roots
      /\ \A n \in 1 .. Len(keys) : valid_roots[keys[n]] \in RootReference
  <2>1. keys \in Seq(Root) /\ valid_roots \in [DOMAIN valid_roots -> RootReference]
    BY DEF Inv, RootsInv, RootsTypeOK
  <2>2. \A n \in DOMAIN keys : keys[n] \in DOMAIN valid_roots
    BY DEF Inv, RootsInv, RootsListed
  <2> QED BY <2>1, <2>2
<1>2. current_root_versions = chosen[Len(keys)]
  BY DEF current_root_versions, Listing
<1> HIDE DEF keys
<1>3. \A n \in 1 .. Len(keys) :
        Append([i \in 1 .. n - 1 |-> valid_roots[keys[i]]], valid_roots[keys[n]])
          = [i \in 1 .. n |-> valid_roots[keys[i]]]
  <2> SUFFICES ASSUME NEW n \in 1 .. Len(keys)
               PROVE  Append([i \in 1 .. n - 1 |-> valid_roots[keys[i]]], valid_roots[keys[n]])
                        = [i \in 1 .. n |-> valid_roots[keys[i]]]
    OBVIOUS
  <2> DEFINE front == [i \in 1 .. n - 1 |-> valid_roots[keys[i]]]
  <2>1. n \in Nat /\ n - 1 \in Nat
    BY <1>1
  <2>2. front \in Seq(RootReference) /\ Len(front) = n - 1
    BY <1>1, <2>1
  <2>3. \A i \in 1 .. n - 1 : front[i] = valid_roots[keys[i]]
    OBVIOUS
  <2> HIDE DEF front
  <2>4. /\ DOMAIN Append(front, valid_roots[keys[n]]) = 1 .. n
        /\ Append(front, valid_roots[keys[n]])[n] = valid_roots[keys[n]]
        /\ \A i \in 1 .. n - 1 : Append(front, valid_roots[keys[n]])[i] = front[i]
    BY <1>1, <2>1, <2>2
  <2>5. Append(front, valid_roots[keys[n]]) \in Seq(RootReference)
    BY <1>1, <2>2
  <2>6. \A i \in 1 .. n : i = n \/ i \in 1 .. n - 1
    BY <2>1
  <2>7. Append(front, valid_roots[keys[n]]) = [i \in 1 .. n |-> valid_roots[keys[i]]]
    BY <2>3, <2>4, <2>5, <2>6
  <2> QED BY <2>7 DEF front
<1>4. Listing(keys, records)
  <2>1. \A n \in 1 .. Len(keys) : records[n] = Append(records[n - 1], valid_roots[keys[n]])
    BY <1>1, <1>3
  <2>2. records[0] = << >>
    BY <1>1
  <2>3. DOMAIN records = 0 .. Len(keys) /\ records = [n \in 0 .. Len(keys) |-> records[n]]
    OBVIOUS
  <2> HIDE DEF records
  <2>4. \A n \in 0 .. Len(keys) : n = 0 \/ n \in 1 .. Len(keys)
    BY <1>1
  <2>5. \A n \in 0 .. Len(keys) :
          records[n] = IF n = 0 THEN << >>
                       ELSE IF keys[n] \in DOMAIN valid_roots
                            THEN Append(records[n - 1], valid_roots[keys[n]])
                            ELSE records[n - 1]
    BY <1>1, <2>1, <2>2, <2>4
  <2> QED BY <2>3, <2>5 DEF Listing
<1>5. Listing(keys, chosen)
  <2> HIDE DEF records
  <2> QED BY <1>4
<1> HIDE DEF chosen
<1>6. \A n \in Nat : n <= Len(keys) => chosen[n] = records[n]
  <2> DEFINE reached == {n \in Nat : n <= Len(keys) => chosen[n] = records[n]}
  <2> HIDE DEF records
  <2>1. 0 \in reached
    BY <1>1, <1>4, <1>5 DEF Listing
  <2>2. ASSUME NEW n \in Nat, n \in reached
        PROVE  n + 1 \in reached
    <3>1. SUFFICES ASSUME n + 1 <= Len(keys)
                   PROVE  chosen[n + 1] = records[n + 1]
      OBVIOUS
    <3>2. chosen[n] = records[n] /\ n + 1 \in 0 .. Len(keys) /\ n + 1 # 0 /\ (n + 1) - 1 = n
      BY <1>1, <2>2, <3>1
    <3>3. keys[n + 1] \in DOMAIN valid_roots
      BY <1>1, <3>1
    <3>4. chosen[n + 1] = Append(chosen[n], valid_roots[keys[n + 1]])
      BY <1>5, <3>2, <3>3 DEF Listing
    <3>5. records[n + 1] = Append(records[n], valid_roots[keys[n + 1]])
      BY <1>4, <3>2, <3>3 DEF Listing
    <3> QED BY <3>2, <3>4, <3>5
  <2> HIDE DEF reached
  <2>3. \A n \in Nat : n \in reached
    BY <2>1, <2>2, CountingUp
  <2> QED BY <2>3 DEF reached
<1>7. records[Len(keys)] = [i \in 1 .. Len(keys) |-> valid_roots[keys[i]]]
  BY <1>1
<1> QED BY <1>1, <1>2, <1>6, <1>7 DEF keys

LEMMA ListedRecorded ==
  ASSUME Inv, NEW reference \in Range(current_root_versions)
  PROVE  Recorded(reference)
<1>1. PICK i \in 1 .. Len(current_epoch_root_keys) :
        reference = valid_roots[current_epoch_root_keys[i]]
  BY ListedVersions DEF Range
<1>2. current_epoch_root_keys[i] \in DOMAIN valid_roots
  BY <1>1 DEF Inv, RootsInv, RootsTypeOK, RootsListed
<1>3. \A root \in DOMAIN valid_roots :
        valid_roots[root] = Reference(root.e, root.v) /\ root \in Root
  BY DEF Inv, RootsInv, RootsRecorded, RootsTypeOK
<1>4. \A root \in Root : Reference(root.e, root.v).root = root
  BY DEF Reference, MakeRoot, Root
<1> QED BY <1>1, <1>2, <1>3, <1>4 DEF Recorded

LEMMA LookStep ==
  ASSUME UserInv, NEW id \in CallerIds, Look(id)
  PROVE  UserInv'
<1> DEFINE Balance(index) ==
             IF index \in DOMAIN book THEN TryGetBalance(index, book[index]).balance
             ELSE CHOOSE balance \in InspectBalance(index) : TRUE
<1>1. /\ held' = FindAccount(id)
      /\ book' = [index \in DOMAIN book \cup FindAccountIndex(id) |-> Balance(index)]
      /\ receipt' \in Range(current_root_versions)
      /\ UNCHANGED vars
  BY DEF Look, protocolVars
<1>2. Inv' /\ RootRoom' /\ Inv
  BY <1>1, StutterStep DEF UserInv
<1>3. /\ UNCHANGED <<account_states, valid_roots, prf_outputs_in_current_epoch>>
      /\ RootsKept
  BY <1>1 DEF vars, ledgerVars, accountVars, rootVars, prfVars, RootsKept
<1>4. Recorded(receipt)'
  BY <1>1, <1>2, <1>3, ListedRecorded, RecordedStays DEF Recorded
<1>5. SlotsDated'
  BY <1>3, SlotsUnchanged DEF UserInv
<1>6. HeldDated'
  <2> SUFFICES ASSUME NEW entry \in held'
               PROVE  entry \in PrivateAccountEntry /\ Dated(entry)'
    BY DEF HeldDated
  <2>1. id \in DOMAIN accounts /\ entry = accounts[id]
    BY <1>1 DEF FindAccount
  <2>2. PICK i \in DOMAIN account_states : entry = account_states[i].entry
    BY <1>2, <2>1 DEF Inv, AccountsInv, AccountsMirrored, AccountsIndexed
  <2>3. entry \in PrivateAccountEntry
    BY <1>2, <2>1 DEF Inv, AccountsInv, AccountsTypeOK
  <2>4. Dated(entry)
    BY <2>2 DEF UserInv, SlotsDated
  <2> QED BY <1>3, <2>3, <2>4, DatedStays
<1>7. BookKept'
  <2>1. /\ account_states \in Seq(AccountState)
        /\ \A i \in DOMAIN account_states : account_states[i] \in AccountState
    BY <1>2 DEF Inv, AccountsInv, AccountsTypeOK
  <2>2. \A i \in DOMAIN account_states :
          account_states[i].balance \in Amount /\ account_states[i].balance # NullPointer
    BY <2>1, Bounds DEF AccountState, Amount, NullPointer
  <2>3. ASSUME NEW index \in DOMAIN book
        PROVE  /\ index \in Nat /\ index + 1 \in DOMAIN account_states
               /\ Balance(index) = account_states[index + 1].balance
    <3>1. /\ index \in Nat /\ index + 1 \in DOMAIN account_states
          /\ book[index] = account_states[index + 1].balance
      BY DEF UserInv, BookKept
    <3>2. IsValidAccountIndex(index) /\ book[index] # NullPointer
      BY <1>2, <2>2, <3>1, IndexRoom
    <3> QED BY <3>1, <3>2 DEF TryGetBalance
  <2>4. ASSUME NEW index \in FindAccountIndex(id), index \notin DOMAIN book
        PROVE  /\ index \in Nat /\ index + 1 \in DOMAIN account_states
               /\ Balance(index) = account_states[index + 1].balance
    <3>1. index \in Nat /\ index + 1 \in DOMAIN account_states
      BY <1>2 DEF FindAccountIndex, Inv, AccountsInv, AccountsTypeOK, AccountsIndexed
    <3>2. InspectBalance(index) = {account_states[index + 1].balance}
      BY <1>2, <3>1, IndexRoom DEF InspectBalance
    <3> QED BY <2>4, <3>1, <3>2
  <2> HIDE DEF Balance
  <2>5. \A index \in DOMAIN book' :
          /\ index \in Nat /\ index + 1 \in DOMAIN account_states
          /\ book'[index] = account_states[index + 1].balance
    BY <1>1, <2>3, <2>4
  <2> QED BY <1>3, <2>5 DEF BookKept
<1>8. OneOutput'
  BY <1>1, <1>3 DEF UserInv, OneOutput
<1> QED BY <1>2, <1>4, <1>5, <1>6, <1>7, <1>8 DEF UserInv
-----------------------------------------------------------------------------
LEMMA UserInitInv == UserInit => UserInv
<1> SUFFICES ASSUME UserInit
             PROVE  UserInv
  OBVIOUS
<1>1. Init
  BY DEF UserInit, ProtocolInit
<1>2. Inv /\ RootRoom
  BY <1>1, InitInv, InitRoom
<1>3. Recorded(receipt)
  BY <1>2, CurrentRecorded DEF UserInit
<1>4. account_states = << >> /\ prf_outputs_in_current_epoch = {}
  BY <1>1 DEF Init
<1>5. SlotsDated /\ OneOutput
  BY <1>4 DEF SlotsDated, OneOutput
<1>6. HeldDated /\ BookKept
  BY DEF UserInit, HeldDated, BookKept
<1> QED BY <1>2, <1>3, <1>5, <1>6 DEF UserInv

LEMMA UserNextInv == UserInv /\ [UserNext]_userSpecVars => UserInv'
<1> SUFFICES ASSUME UserInv, [UserNext]_userSpecVars
             PROVE  UserInv'
  OBVIOUS
<1>1. CASE UNCHANGED userSpecVars
  <2>1. UNCHANGED vars /\ UNCHANGED userVars
    BY <1>1 DEF userSpecVars, protocolVars
  <2>2. Inv' /\ RootRoom'
    BY <2>1, StutterStep DEF UserInv
  <2> QED BY <2>1, <2>2, QuietUserStep DEF vars, userVars
<1>2. CASE UserNext
  BY <1>2, JoinStep, JoinByProtocolStep, LookStep, PayInStep, PayStep, WriteBackStep,
     MoveTimeStep, Zenon DEF UserNext
<1> QED BY <1>1, <1>2

LEMMA UserAlways == UserSpec => []UserInv
BY UserInitInv, UserNextInv, PTL DEF UserSpec

(* A reference from any reply is accepted exactly in its own epoch and in  *)
(* the next one, however often time goes forth and back in between.        *)
THEOREM ReceiptsStayUsable == UserSpec => []ReceiptsUsable
<1>1. UserInv => ReceiptsUsable
  <2> SUFFICES ASSUME UserInv
               PROVE  ReceiptsUsable
    OBVIOUS
  <2>1. receipt.root \in DOMAIN valid_roots /\ valid_roots[receipt.root] = receipt
    BY DEF UserInv, Recorded
  <2>2. receipt.epoch \in Nat /\ current_epoch \in Nat
    <3>1. receipt \in RootReference
      BY <2>1 DEF UserInv, Inv, RootsInv, RootsTypeOK
    <3>2. \A epoch \in EpochNumber : epoch \in Nat
      BY Bounds DEF EpochNumber
    <3> QED BY <3>1, <3>2 DEF RootReference, UserInv, Inv, ControlInv
  <2> QED BY <2>1, <2>2 DEF ReceiptsUsable, IsValidRoot, ValidateReferencedRoot,
             IsRootAcceptableForCurrentEpoch, kRootValidityWindow
<1> QED BY <1>1, UserAlways, PTL

(* Wherever an entry is kept, by id, by index or by the user, its root, if *)
(* it has one, is a recorded root of the entry's epoch.                    *)
THEOREM EntriesStayDated == UserSpec => []EntriesDated
<1>1. UserInv => EntriesDated
  <2> SUFFICES ASSUME UserInv
               PROVE  EntriesDated
    OBVIOUS
  <2>1. \A entry \in held : Dated(entry)
    BY DEF UserInv, HeldDated
  <2>2. \A i \in DOMAIN account_states : Dated(account_states[i].entry)
    BY DEF UserInv, SlotsDated
  <2>3. \A id \in DOMAIN accounts :
          \E i \in DOMAIN account_states : accounts[id] = account_states[i].entry
    BY DEF UserInv, Inv, AccountsInv, AccountsMirrored, AccountsIndexed
  <2>4. \A entry \in held \cup {accounts[id] : id \in DOMAIN accounts}
                           \cup {account_states[i].entry : i \in DOMAIN account_states} :
          Dated(entry)
    BY <2>1, <2>2, <2>3
  <2> QED BY <2>4 DEF EntriesDated, Dated
<1> QED BY <1>1, UserAlways, PTL

(* Between two epoch changes, users of the placeholder PRF get one payment *)
(* accepted at most.                                                       *)
THEOREM PaymentsStaySingle == UserSpec => []OnePaymentPerEra
<1>1. UserInv => OnePaymentPerEra
  <2> SUFFICES ASSUME UserInv
               PROVE  OnePaymentPerEra
    OBVIOUS
  <2> DEFINE list == accepted_prf_outputs_in_current_epoch
  <2>1. /\ list \in Seq(PRFOutputs)
        /\ prf_outputs_in_current_epoch = {list[i] : i \in DOMAIN list}
        /\ \A i, j \in DOMAIN list : list[i] = list[j] => i = j
    BY DEF UserInv, Inv, PrfInv, PrfTypeOK, PrfOutputsTracked
  <2>2. \A i \in DOMAIN list : list[i] = EmptyBytes
    BY <2>1 DEF UserInv, OneOutput
  <2>3. DOMAIN list = 1 .. Len(list) /\ Len(list) \in Nat
    BY <2>1
  <2>4. \A i, j \in 1 .. Len(list) : i = j
    BY <2>1, <2>2, <2>3
  <2>5. Len(list) <= 1
    <3>1. Len(list) > 1 => 1 \in 1 .. Len(list) /\ 2 \in 1 .. Len(list)
      BY <2>3
    <3> QED BY <2>3, <2>4, <3>1
  <2> QED BY <2>5 DEF OnePaymentPerEra, InspectEpochState, EpochStateView
<1> QED BY <1>1, UserAlways, PTL

(* What a user writes down from replies and queries is the balance that    *)
(* the oracle holds, as long as nobody else pays.                          *)
THEOREM BookStaysRight == UserSpec => []BookMatches
<1>1. UserInv => BookMatches
  <2> SUFFICES ASSUME UserInv, NEW index \in DOMAIN book
               PROVE  InspectBalance(index) = {book[index]}
    BY DEF BookMatches
  <2>1. /\ index \in Nat /\ index + 1 \in DOMAIN account_states
        /\ book[index] = account_states[index + 1].balance
    BY DEF UserInv, BookKept
  <2>2. IsValidAccountIndex(index)
    BY <2>1, IndexRoom DEF UserInv
  <2> QED BY <2>1, <2>2 DEF InspectBalance
<1> QED BY <1>1, UserAlways, PTL

(* An account is found by its id where it is found by the id's index.      *)
LEMMA LookupsAgree ==
  ASSUME Inv, NEW id
  PROVE  /\ HasAccount(id) <=> FindAccountIndex(id) # {}
         /\ FindAccount(id) = UNION {FindAccountAt(index) : index \in FindAccountIndex(id)}
<1>1. /\ DOMAIN accounts = DOMAIN account_indices
      /\ account_indices \in [DOMAIN account_indices -> Nat]
      /\ \A other \in DOMAIN accounts :
           /\ accounts[other] = account_states[account_indices[other] + 1].entry
           /\ account_indices[other] + 1 \in DOMAIN account_states
  BY DEF Inv, AccountsInv, AccountsTypeOK, AccountsMirrored, AccountsIndexed
<1>2. CASE id \in DOMAIN accounts
  <2>1. /\ FindAccountIndex(id) = {account_indices[id]}
        /\ FindAccount(id) = {accounts[id]}
    BY <1>1, <1>2 DEF FindAccountIndex, FindAccount
  <2>2. FindAccountAt(account_indices[id]) = {accounts[id]}
    BY <1>1, <1>2, IndexRoom DEF FindAccountAt
  <2> QED BY <1>2, <2>1, <2>2 DEF HasAccount
<1>3. CASE id \notin DOMAIN accounts
  <2>1. FindAccountIndex(id) = {} /\ FindAccount(id) = {}
    BY <1>1, <1>3 DEF FindAccountIndex, FindAccount
  <2> QED BY <1>3, <2>1 DEF HasAccount
<1> QED BY <1>2, <1>3

(* A sequence without repetitions is as long as the set of its elements.   *)
LEMMA DistinctCount ==
  ASSUME NEW S, NEW s \in Seq(S), NEW T,
         T = {s[i] : i \in DOMAIN s},
         \A i, j \in DOMAIN s : s[i] = s[j] => i = j
  PROVE  Cardinality(T) = Len(s)
<1>1. DOMAIN s = 1 .. Len(s) /\ Len(s) \in Nat
  OBVIOUS
<1>2. s \in Bijection(1 .. Len(s), T)
  <2>1. s \in [1 .. Len(s) -> T]
    BY <1>1
  <2> QED BY <1>1, <2>1 DEF Bijection, Injection, Surjection, IsInjective
<1>3. IsFiniteSet(1 .. Len(s)) /\ Cardinality(1 .. Len(s)) = Len(s)
  BY <1>1, FS_Interval
<1> QED BY <1>2, <1>3, FS_Bijection DEF ExistsBijection

LEMMA AccountsCounted ==
  ASSUME Inv
  PROVE  Cardinality({id \in AccountIds : HasAccount(id)}) = account_count
<1> DEFINE ids == [i \in 1 .. Len(account_states) |-> account_states[i].entry.account_id]
           known == {id \in AccountIds : HasAccount(id)}
<1>1. /\ Len(account_states) \in Nat
      /\ DOMAIN account_states = 1 .. Len(account_states)
  BY IndexRoom
<1>2. /\ known = DOMAIN account_indices
      /\ \A i \in 1 .. Len(account_states) : ids[i] \in known /\ account_indices[ids[i]] = i - 1
      /\ \A id \in known : \E i \in 1 .. Len(account_states) : ids[i] = id
  <2>1. known = DOMAIN account_indices
    BY DEF HasAccount, Inv, AccountsInv, AccountsTypeOK, AccountsMirrored
  <2> HIDE DEF known
  <2> QED BY <1>1, <2>1 DEF Inv, AccountsInv, AccountsIndexed
<1> HIDE DEF known
<1>3. ids \in Seq(known) /\ Len(ids) = Len(account_states)
  BY <1>1, <1>2
<1>4. DOMAIN ids = 1 .. Len(account_states)
  OBVIOUS
<1> HIDE DEF ids
<1>5. known = {ids[i] : i \in DOMAIN ids}
  BY <1>2, <1>4
<1>6. \A i, j \in DOMAIN ids : ids[i] = ids[j] => i = j
  BY <1>1, <1>2, <1>4
<1>7. Cardinality(known) = Len(ids)
  BY <1>3, <1>5, <1>6, DistinctCount
<1> QED BY <1>3, <1>7 DEF known, account_count

(* The queries of the oracle tell one story.                               *)
THEOREM QueriesStayAgreed == UserSpec => []QueriesAgree
<1>1. UserInv => QueriesAgree
  <2> SUFFICES ASSUME Inv
               PROVE  QueriesAgree
    BY DEF UserInv
  <2> DEFINE keys == current_epoch_root_keys
             list == accepted_prf_outputs_in_current_epoch
  <2>1. \A id \in AccountIds :
          /\ HasAccount(id) <=> FindAccountIndex(id) # {}
          /\ FindAccount(id) = UNION {FindAccountAt(index) : index \in FindAccountIndex(id)}
    BY LookupsAgree
  <2>2. Cardinality({id \in AccountIds : HasAccount(id)}) = account_count
    BY AccountsCounted
  <2>3. \A index \in CallerIndices : InspectBalance(index) = {} <=> FindAccountAt(index) = {}
    BY DEF InspectBalance, FindAccountAt
  <2>4. Last(current_root_versions) = current_root_reference
    <3>1. keys \in Seq(Root) /\ Len(keys) \in Nat /\ Len(keys) \in 1 .. Len(keys)
          /\ root_version \in Nat
      BY DEF Inv, RootsInv, RootsTypeOK, RootsListed, RootVersion
    <3>2. /\ keys[Len(keys)] \in DOMAIN valid_roots
          /\ keys[Len(keys)] = MakeRoot(current_epoch, root_version)
      <4>1. root_version - Len(keys) + Len(keys) = root_version
        BY <3>1
      <4> QED BY <3>1, <4>1 DEF Inv, RootsInv, RootsListed
    <3>3. valid_roots[keys[Len(keys)]] = current_root
      BY <3>2 DEF Inv, RootsInv, RootsRecorded, RootsListed, MakeRoot
    <3>4. current_root_versions = [i \in 1 .. Len(keys) |-> valid_roots[keys[i]]]
      BY ListedVersions
    <3>5. Len(current_root_versions) = Len(keys)
      BY <3>1, <3>4
    <3>6. current_root_versions[Len(keys)] = valid_roots[keys[Len(keys)]]
      BY <3>1, <3>4
    <3> QED BY <3>3, <3>5, <3>6 DEF Last, current_root_reference
  <2>5. /\ InspectEpochState.current_root = current_root_reference
        /\ MakeRoot(InspectEpochState.current_epoch, InspectEpochState.current_root_version)
              = current_merkle_root
    BY DEF InspectEpochState, EpochStateView, current_root_reference, current_merkle_root,
           Inv, RootsInv, RootsListed, Reference
  <2>6. InspectEpochState.accepted_prf_output_count = InspectEpochState.used_prf_output_count
    <3>1. /\ list \in Seq(PRFOutputs)
          /\ prf_outputs_in_current_epoch = {list[i] : i \in DOMAIN list}
          /\ \A i, j \in DOMAIN list : list[i] = list[j] => i = j
      BY DEF Inv, PrfInv, PrfTypeOK, PrfOutputsTracked
    <3>2. Cardinality(prf_outputs_in_current_epoch) = Len(list)
      BY <3>1, DistinctCount
    <3> QED BY <3>2 DEF InspectEpochState, EpochStateView
  <2>7. \A output \in PRFOutputs :
          HasSeenPrfOutputInCurrentEpoch(output) <=> output \in Range(accepted_prf_outputs)
    BY DEF HasSeenPrfOutputInCurrentEpoch, accepted_prf_outputs, Range, Inv, PrfInv,
           PrfOutputsTracked
  <2> QED BY <2>1, <2>2, <2>3, <2>4, <2>5, <2>6, <2>7, Zenon DEF QueriesAgree
<1> QED BY <1>1, UserAlways, PTL
=============================================================================
