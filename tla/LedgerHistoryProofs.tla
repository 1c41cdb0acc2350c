------------------------ MODULE LedgerHistoryProofs -------------------------
(***************************************************************************)
(* Proofs about LedgerHistory.  The oracle implements OracleLedger, step   *)
(* by step; what was accepted when, and what balances add up to, follows   *)
(* from the steps of the ledger.                                           *)
(***************************************************************************)
EXTENDS LedgerHistory, PlaintextModelProofs

(* Without the journal, a journaled call is the call itself. *)
LEMMA HistoryStepIsOracleStep ==
  ASSUME [HistoryNext]_historyVars
  PROVE  [Next]_vars
<1>1. ASSUME NEW mint \in Mints, JournaledMint(mint)
      PROVE  Next
  BY <1>1, Zenon DEF JournaledMint, Next
<1>2. ASSUME NEW transfer \in Transfers, JournaledTransfer(transfer)
      PROVE  Next
  BY <1>2, Zenon DEF JournaledTransfer, Next
<1>3. UnpaidNext => Next
  BY Zenon DEF UnpaidNext, Next
<1>4. UNCHANGED historyVars => UNCHANGED vars
  BY DEF historyVars
<1> QED BY <1>1, <1>2, <1>3, <1>4, Zenon DEF HistoryNext

(* What is proved of Spec may be used of HistorySpec: the calls that the   *)
(* journal records are the oracle's own.                                   *)
LEMMA HistoryIsOracle == HistorySpec => Spec
<1>1. HistoryInit => Init
  BY DEF HistoryInit
<1>2. [HistoryNext]_historyVars => [Next]_vars
  BY HistoryStepIsOracleStep
<1> QED BY <1>1, <1>2, PTL DEF HistorySpec, Spec
-----------------------------------------------------------------------------
(* The record of when each version was made. *)

IssuedOK ==
  /\ Issued \in Seq(EpochNumber)
  /\ Len(Issued) = root_version
  /\ DOMAIN Issued = 1 .. root_version
  /\ root_version \in Nat \ {0}
  /\ \A root \in DOMAIN valid_roots :
       root.v \in 1 .. root_version /\ Issued[root.v] = root.e
  /\ Issued[root_version] = current_epoch

LEMMA IssuedFacts == Inv => IssuedOK
<1> SUFFICES ASSUME Inv PROVE IssuedOK
  OBVIOUS
<1>1. /\ RootsTypeOK /\ RootsRecorded /\ RootsListed
      /\ root_version \in Nat
  BY DEF Inv, RootsInv, RootsTypeOK, RootVersion
<1>2. ASSUME NEW version \in 1 .. root_version
      PROVE  LET made == CHOOSE root \in DOMAIN valid_roots : root.v = version
             IN  made \in DOMAIN valid_roots /\ made.v = version
  BY <1>1 DEF RootsRecorded
<1>3. DOMAIN Issued = 1 .. root_version
  BY DEF Issued
<1>4. ASSUME NEW root \in DOMAIN valid_roots
      PROVE  root.v \in 1 .. root_version /\ Issued[root.v] = root.e
  <2>1. root.v \in 1 .. root_version
    BY <1>1 DEF RootsRecorded
  <2>2. (CHOOSE r \in DOMAIN valid_roots : r.v = root.v) = root
    BY <2>1, <1>1, <1>2 DEF RootsRecorded
  <2> QED BY <2>1, <2>2 DEF Issued
<1>5. \A version \in 1 .. root_version : Issued[version] \in EpochNumber
  BY <1>1, <1>2 DEF Issued, RootsTypeOK, Root
<1>6. Issued \in [1 .. root_version -> EpochNumber]
  <2>1. Issued = [version \in 1 .. root_version |-> Issued[version]]
    BY DEF Issued
  <2> HIDE DEF Issued
  <2> QED BY <2>1, <1>5
<1>7. Issued \in Seq(EpochNumber) /\ Len(Issued) = root_version
  BY <1>1, <1>6
<1>8. root_version # 0 /\ Issued[root_version] = current_epoch
  <2> DEFINE keys == current_epoch_root_keys
  <2>1. /\ Len(keys) \in Nat /\ Len(keys) # 0
        /\ Len(keys) \in DOMAIN keys
    BY <1>1 DEF RootsTypeOK, RootsListed
  <2>2. root_version - Len(keys) + Len(keys) = root_version
    BY <1>1, <2>1
  <2>3. MakeRoot(current_epoch, root_version) \in DOMAIN valid_roots
    BY <1>1, <2>1, <2>2 DEF RootsListed
  <2>4. /\ MakeRoot(current_epoch, root_version).v = root_version
        /\ MakeRoot(current_epoch, root_version).e = current_epoch
    BY DEF MakeRoot
  <2> QED BY <1>4, <2>3, <2>4
<1> QED BY <1>1, <1>3, <1>4, <1>7, <1>8 DEF IssuedOK

(* A new root is issued in its epoch, and the record keeps the others.     *)
LEMMA IssuedGrows ==
  ASSUME Inv, Inv', NEW epoch,
         root_version' = root_version + 1,
         valid_roots' = RecordRoot(NextRoot(epoch))
  PROVE  Issued' = Append(Issued, epoch)
<1>1. IssuedOK'
  BY IssuedFacts, PTL
<1>2. IssuedOK
  BY IssuedFacts
<1>3. /\ DOMAIN valid_roots' = DOMAIN valid_roots \cup {MakeRoot(epoch, root_version + 1)}
      /\ MakeRoot(epoch, root_version + 1).v = root_version + 1
      /\ MakeRoot(epoch, root_version + 1).e = epoch
  BY DEF RecordRoot, NextRoot, Reference, Put, MakeRoot
<1> HIDE DEF Issued
<1>4. ASSUME NEW version \in 1 .. root_version
      PROVE  Issued'[version] = Issued[version]
  <2>1. PICK root \in DOMAIN valid_roots : root.v = version
    BY DEF Inv, RootsInv, RootsRecorded
  <2> QED BY <2>1, <1>1, <1>2, <1>3 DEF IssuedOK
<1>5. Issued'[root_version + 1] = epoch
  BY <1>1, <1>3 DEF IssuedOK
<1>6. epoch \in EpochNumber
  BY <1>1, <1>2, <1>5 DEF IssuedOK
<1>7. ASSUME NEW old \in Seq(EpochNumber), NEW new \in Seq(EpochNumber),
             Len(new) = Len(old) + 1, new[Len(old) + 1] = epoch,
             \A i \in 1 .. Len(old) : new[i] = old[i]
      PROVE  new = Append(old, epoch)
  BY <1>6, <1>7
<1> QED BY <1>1, <1>2, <1>4, <1>5, <1>7 DEF IssuedOK
-----------------------------------------------------------------------------
(* Balances. *)

LEMMA SmallRemainder ==
  ASSUME NEW amount \in Amount
  PROVE  amount % AmountModulus = amount
<1>1. \A m \in Nat : \A k \in 0 .. m - 1 : k % m = k
  OBVIOUS
<1> QED BY <1>1, Bounds DEF Amount

LEMMA BalancesType ==
  ASSUME Inv
  PROVE  /\ account_states \in Seq(AccountState)
         /\ DOMAIN account_states = 1 .. Len(account_states)
         /\ Len(account_states) \in Nat
         /\ DOMAIN Balances = DOMAIN account_states
         /\ \A i \in DOMAIN Balances :
              Balances[i] = account_states[i].balance /\ Balances[i] \in Amount
         /\ Balances \in Seq(Amount)
         /\ Len(Balances) = Len(account_states)
<1>1. /\ account_states \in Seq(AccountState)
      /\ DOMAIN account_states = 1 .. Len(account_states)
      /\ Len(account_states) \in Nat
  BY DEF Inv, AccountsInv, AccountsTypeOK
<1>2. \A i \in DOMAIN account_states : account_states[i].balance \in Amount
  <2> TAKE i \in DOMAIN account_states
  <2>1. account_states[i] \in AccountState
    BY <1>1
  <2> QED BY <2>1 DEF AccountState
<1>3. Balances \in [1 .. Len(account_states) -> Amount]
  BY <1>1, <1>2 DEF Balances
<1> QED BY <1>1, <1>2, <1>3 DEF Balances

(* The refresh that follows a new root keeps the balances it is given.     *)
LEMMA StampsKeepBalances ==
  ASSUME NEW states \in Seq(AccountState), NEW reference,
         account_states' = Stamped(states, reference)
  PROVE  Balances' = [i \in DOMAIN states |-> states[i].balance]
BY StampedBalances DEF Balances

(* A payment debits and credits as the ledger does, in one addition for    *)
(* each account.                                                           *)
LEMMA MintPays ==
  ASSUME Inv, NEW slot \in DOMAIN account_states, NEW value \in Amount,
         NEW i \in DOMAIN account_states
  PROVE  (account_states[i].balance - 0 + (IF i = slot THEN value ELSE 0)) % AmountModulus
           = IF i = slot THEN Sum64(account_states[i].balance, value)
             ELSE account_states[i].balance
<1>1. /\ account_states[i].balance \in Amount /\ account_states[i].balance \in Nat
      /\ value \in Nat
  BY BalancesType, Bounds DEF Amount
<1> QED BY <1>1, SmallRemainder DEF Sum64

LEMMA TransferPays ==
  ASSUME Inv, NEW sender \in DOMAIN account_states, NEW receiver \in DOMAIN account_states,
         NEW value \in Amount, account_states[sender].balance >= value,
         NEW i \in DOMAIN account_states
  PROVE  LET debited == IF i = sender THEN account_states[i].balance - value
                        ELSE account_states[i].balance
         IN  (account_states[i].balance - (IF i = sender THEN value ELSE 0)
                + (IF i = receiver THEN value ELSE 0)) % AmountModulus
               = IF i = receiver THEN Sum64(debited, value) ELSE debited
<1>1. /\ account_states[i].balance \in Amount /\ account_states[i].balance \in Nat
      /\ value \in Nat
  BY BalancesType, Bounds DEF Amount
<1>2. i = sender => account_states[i].balance - value \in Amount
  BY <1>1, Bounds DEF Amount
<1> QED BY <1>1, <1>2, SmallRemainder DEF Sum64
-----------------------------------------------------------------------------
(* Each step of the oracle is a step of the ledger, or none. *)

LEMMA QuietStep ==
  ASSUME UNCHANGED ledgerVars, UNCHANGED journal
  PROVE  UNCHANGED Ledger!vars
<1>1. UNCHANGED <<account_states, valid_roots, root_version>>
  BY DEF ledgerVars, accountVars, rootVars
<1>2. Balances' = Balances /\ Issued' = Issued
  BY <1>1 DEF Balances, Issued
<1> QED BY <1>2 DEF Ledger!vars, ledgerVars, prfVars

(* A commit in the current epoch issues a root. *)
LEMMA CommitIssues ==
  ASSUME Inv, Inv', NEW states \in Seq(AccountState), CommitStates(states),
         current_epoch' = current_epoch
  PROVE  /\ Issued' = Append(Issued, current_epoch')
         /\ root_version' = root_version + 1
         /\ Balances' = [i \in DOMAIN states |-> states[i].balance]
<1>1. /\ root_version' = root_version + 1
      /\ valid_roots' = RecordRoot(NextRoot(current_epoch))
      /\ account_states' = Stamped(states, NextRoot(current_epoch))
  BY DEF CommitStates, AllocateNextRoot, RefreshAllAccountRoots
<1> QED BY <1>1, IssuedGrows, StampsKeepBalances

(* A new account opens with nothing. *)
LEMMA AppendOpens ==
  ASSUME Inv, NEW entry, NEW states,
         states = Append(account_states, [entry |-> entry, balance |-> 0])
  PROVE  [i \in DOMAIN states |-> states[i].balance] = Append(Balances, 0)
<1> DEFINE state == [entry |-> entry, balance |-> 0]
<1>1. state.balance = 0
  OBVIOUS
<1> HIDE DEF state
<1>2. /\ DOMAIN states = 1 .. Len(account_states) + 1
      /\ states[Len(account_states) + 1] = state
      /\ \A i \in 1 .. Len(account_states) : states[i] = account_states[i]
  BY BalancesType DEF state
<1> DEFINE grown == Append(Balances, 0)
<1>3. /\ Balances \in Seq(Amount) /\ 0 \in Amount
      /\ Len(Balances) = Len(account_states) /\ Len(Balances) \in Nat
      /\ \A i \in 1 .. Len(account_states) : Balances[i] = account_states[i].balance
  BY BalancesType, Bounds DEF Amount
<1>4. /\ grown \in Seq(Amount)
      /\ Len(grown) = Len(account_states) + 1
      /\ grown[Len(account_states) + 1] = 0
      /\ \A i \in 1 .. Len(account_states) : grown[i] = account_states[i].balance
  <2> HIDE DEF Balances
  <2> QED BY <1>3
<1> HIDE DEF grown
<1>5. DOMAIN grown = 1 .. Len(account_states) + 1 /\ grown = [i \in DOMAIN grown |-> grown[i]]
  BY <1>3, <1>4
<1>6. \A i \in DOMAIN grown : grown[i] = states[i].balance
  BY <1>1, <1>2, <1>3, <1>4, <1>5
<1>7. grown = [i \in DOMAIN states |-> states[i].balance]
  BY <1>2, <1>5, <1>6
<1> QED BY <1>7 DEF grown

LEMMA UpsertIsLedgerStep ==
  ASSUME Inv, NEW entry \in Entries, UpsertAccount(entry), UNCHANGED journal
  PROVE  Ledger!Open \/ UNCHANGED Ledger!vars
<1>1. CASE Rejected
  BY <1>1, QuietStep DEF Rejected
<1>2. CASE /\ UNCHANGED <<rootVars, prfVars, current_epoch>>
           /\ HasAccountIndex(entry.account_id)
           /\ account_states' = ReplaceEntry(account_indices[entry.account_id], entry)
  <2>1. /\ UNCHANGED <<valid_roots, root_version>>
        /\ UNCHANGED prf_outputs_in_current_epoch
    BY <1>2 DEF rootVars, prfVars
  <2>2. DOMAIN account_states' = DOMAIN account_states
    BY <1>2 DEF ReplaceEntry
  <2>3. CommitsBalances
    BY UpsertStep, CallerTypes DEF StepOK
  <2>4. Balances' = Balances
    BY <2>1, <2>2, <2>3 DEF CommitsBalances, Balances
  <2>5. Issued' = Issued
    BY <2>1 DEF Issued
  <2> QED BY <1>2, <2>1, <2>4, <2>5 DEF Ledger!vars
<1>3. CASE /\ UNCHANGED <<rootVars, prfVars, current_epoch>>
           /\ account_states' = Append(account_states, [entry |-> entry, balance |-> 0])
  <2>1. Balances' = Append(Balances, 0)
    BY <1>3, AppendOpens DEF Balances
  <2>2. Issued' = Issued
    BY <1>3 DEF Issued, rootVars
  <2> QED BY <1>3, <2>1, <2>2 DEF Ledger!Open, prfVars
<1> QED BY <1>1, <1>2, <1>3 DEF UpsertAccount

LEMMA RegisterIsLedgerStep ==
  ASSUME Inv, Inv', NEW request \in Requests, Register(request), UNCHANGED journal
  PROVE  Ledger!Open \/ UNCHANGED Ledger!vars
<1> DEFINE entry == [account_id |-> request.account_id, payload |-> request.payload,
                     inclusion_root |-> NoRoot, epoch |-> current_epoch]
           states == Append(account_states, [entry |-> entry, balance |-> 0])
<1>1. CASE Rejected
  BY <1>1, QuietStep DEF Rejected
<1>2. CASE /\ ValidateAccountId(request.account_id)
           /\ CommitStates(states)
           /\ UNCHANGED <<prfVars, current_epoch>>
  <2>1. entry \in PrivateAccountEntry
    <3>1. request.account_id \in AccountIds /\ request.payload \in Payloads
      BY <1>2, CallerTypes DEF ValidateAccountId, TypedRequest
    <3> QED BY <3>1 DEF PrivateAccountEntry, MerkleRoot, Inv, ControlInv
  <2> HIDE DEF entry
  <2>2. states \in Seq(AccountState)
    <3>1. [entry |-> entry, balance |-> 0] \in AccountState
      BY <2>1, Bounds DEF AccountState, Amount
    <3> QED BY <3>1, BalancesType
  <2>3. [i \in DOMAIN states |-> states[i].balance] = Append(Balances, 0)
    BY AppendOpens
  <2> HIDE DEF states
  <2>4. /\ Issued' = Append(Issued, current_epoch')
        /\ Balances' = Append(Balances, 0)
    BY <1>2, <2>2, <2>3, CommitIssues
  <2> QED BY <1>2, <2>4 DEF Ledger!Open, Ledger!IssueRoot, prfVars
<1> QED BY <1>1, <1>2 DEF Register

(* A valid reference names the epoch in which its root was made.           *)
LEMMA ValidReference ==
  ASSUME Inv, NEW reference, ValidateReferencedRoot(reference)
  PROVE  /\ reference.root.v \in DOMAIN Issued
         /\ Issued[reference.root.v] \in current_epoch - 1 .. current_epoch
<1>1. /\ reference.root \in DOMAIN valid_roots
      /\ reference = Reference(reference.root.e, reference.root.v)
      /\ reference.root.e \in EpochNumber
      /\ reference.epoch <= current_epoch
      /\ current_epoch - reference.epoch <= 1
  BY DEF ValidateReferencedRoot, IsRootAcceptableForCurrentEpoch, kRootValidityWindow,
         Inv, RootsInv, RootsRecorded, RootsTypeOK, Root
<1>2. reference.epoch = reference.root.e
  BY <1>1 DEF Reference
<1>3. /\ reference.root.v \in DOMAIN Issued
      /\ Issued[reference.root.v] = reference.root.e
  BY <1>1, IssuedFacts DEF IssuedOK
<1> QED BY <1>1, <1>2, <1>3, Bounds DEF EpochNumber, Inv, ControlInv

(* An accepted payment with the balances it leaves.                        *)
LEMMA SettleIsPay ==
  ASSUME Inv, Inv', NEW call, ValidateReferencedRoot(call.referenced_root),
         ValidateFreshPrfOutput(call.prf_output),
         NEW from \in DOMAIN account_states \cup {Outside}, NEW to \in DOMAIN account_states,
         from # Outside => account_states[from].balance >= call.value,
         NEW states \in Seq(AccountState), DOMAIN states = DOMAIN account_states,
         \A i \in DOMAIN states :
           states[i].balance =
             (account_states[i].balance - (IF i = from THEN call.value ELSE 0)
                + (IF i = to THEN call.value ELSE 0)) % AmountModulus,
         Settle(call.prf_output, states),
         Record(Payment(from, to, call))
  PROVE  Ledger!Pay(from, to, call.value, call.prf_output, call.referenced_root.root.v)
<1>1. /\ Issued' = Append(Issued, current_epoch')
      /\ root_version' = root_version + 1
      /\ Balances' = [i \in DOMAIN states |-> states[i].balance]
      /\ current_epoch' = current_epoch
      /\ prf_outputs_in_current_epoch' = prf_outputs_in_current_epoch \cup {call.prf_output}
      /\ ok' = TRUE
  BY CommitIssues DEF Settle, RecordPrfOutput, MarkUsed, Accepted
<1>2. Len(Issued') = root_version + 1
  BY <1>1, IssuedFacts DEF IssuedOK
<1>3. journal' = Append(journal, Payment(from, to, call))
  BY <1>1 DEF Record
<1>4. /\ DOMAIN Balances = DOMAIN account_states
      /\ \A i \in DOMAIN Balances : Balances[i] = account_states[i].balance
  BY BalancesType
<1>5. Balances' = [i \in DOMAIN Balances |->
                    (Balances[i] - (IF i = from THEN call.value ELSE 0)
                       + (IF i = to THEN call.value ELSE 0)) % AmountModulus]
  BY <1>1, <1>4
<1>6. from # Ledger!Outside => Balances[from] >= call.value
  BY <1>4 DEF Ledger!Outside, Outside
<1>7. Issued[call.referenced_root.root.v] \in current_epoch - 1 .. current_epoch
  BY ValidReference
<1>8. call.prf_output \notin prf_outputs_in_current_epoch
  BY DEF ValidateFreshPrfOutput
<1> HIDE DEF Issued, Balances
<1> QED BY <1>1, <1>2, <1>3, <1>5, <1>6, <1>7, <1>8
        DEF Ledger!Pay, Ledger!IssueRoot, Payment

(* What a call accepts is in the range of the ledger's payments.           *)
PaysOnce ==
  \E prf \in PRFOutputs, value \in 0 .. AmountModulus - 1, basis \in DOMAIN Issued,
     from \in DOMAIN Balances \cup {Ledger!Outside}, to \in DOMAIN Balances :
    Ledger!Pay(from, to, value, prf, basis)

LEMMA MintIsLedgerStep ==
  ASSUME Inv, Inv', NEW mint \in Mints, JournaledMint(mint)
  PROVE  PaysOnce \/ UNCHANGED Ledger!vars
<1> DEFINE slot == mint.recipient_index + 1
           amount == Sum64(account_states[slot].balance, mint.value)
           states == [account_states EXCEPT ![slot].balance = amount]
<1>1. CASE Rejected
  <2>1. UNCHANGED journal
    BY <1>1 DEF JournaledMint, Record, Rejected
  <2> QED BY <1>1, <2>1, QuietStep DEF Rejected
<1>2. CASE MintAccepted(mint) /\ Settle(mint.prf_output, states)
  <2>1. /\ mint.recipient_index \in Nat /\ mint.value \in Amount
        /\ mint.prf_output \in PRFOutputs
        /\ AccountsTypeOK /\ account_states \in Seq(AccountState)
        /\ Indexed(account_states, account_indices)
    BY CallerTypes DEF TypedMint, Inv, AccountsInv, AccountsTypeOK, AccountsIndexed, Indexed
  <2>2. slot \in DOMAIN account_states
    BY <1>2, <2>1, ValidIndex DEF MintAccepted
  <2>3. amount \in Amount
    <3>1. account_states[slot].balance \in Nat /\ mint.value \in Nat
      BY <2>1, <2>2, BalancesType, Bounds DEF Amount
    <3> QED BY <3>1, Sum64Type
  <2>4. \A i \in DOMAIN account_states :
          (account_states[i].balance - 0 + (IF i = slot THEN mint.value ELSE 0)) % AmountModulus
            = IF i = slot THEN amount ELSE account_states[i].balance
    BY <2>1, <2>2, MintPays
  <2>5. /\ Record(Payment(Outside, slot, mint))
        /\ \A i \in DOMAIN account_states : i # Outside
    BY BalancesType DEF JournaledMint, Outside
  <2> HIDE DEF amount, slot
  <2>6. /\ states \in Seq(AccountState)
        /\ DOMAIN states = DOMAIN account_states
        /\ \A i \in DOMAIN account_states :
             states[i].balance = IF i = slot THEN amount ELSE account_states[i].balance
    BY <2>1, <2>2, <2>3, Rebalanced
  <2> HIDE DEF states
  <2>7. Ledger!Pay(Outside, slot, mint.value, mint.prf_output, mint.referenced_root.root.v)
    <3>1. \A i \in DOMAIN states :
            states[i].balance =
              (account_states[i].balance - (IF i = Outside THEN mint.value ELSE 0)
                 + (IF i = slot THEN mint.value ELSE 0)) % AmountModulus
      BY <2>4, <2>5, <2>6
    <3> QED BY <1>2, <2>2, <2>5, <2>6, <3>1, SettleIsPay DEF MintAccepted
  <2>8. mint.referenced_root.root.v \in DOMAIN Issued
    BY <1>2, ValidReference DEF MintAccepted
  <2>9. slot \in DOMAIN Balances /\ Outside = Ledger!Outside /\ mint.value \in 0 .. AmountModulus - 1
    BY <2>1, <2>2, BalancesType DEF Outside, Ledger!Outside, Amount
  <2> QED BY <2>1, <2>7, <2>8, <2>9 DEF PaysOnce
<1> QED BY <1>1, <1>2, Zenon DEF JournaledMint, Mint

LEMMA TransferIsLedgerStep ==
  ASSUME Inv, Inv', NEW transfer \in Transfers, JournaledTransfer(transfer)
  PROVE  PaysOnce \/ UNCHANGED Ledger!vars
<1> DEFINE from == transfer.sender_index + 1
           to == transfer.receiver_index + 1
           states == MoveBalance(transfer.sender_index, transfer.receiver_index, transfer.value)
<1>1. CASE Rejected
  <2>1. UNCHANGED journal
    BY <1>1 DEF JournaledTransfer, Record, Rejected
  <2> QED BY <1>1, <2>1, QuietStep DEF Rejected
<1>2. CASE TransferAccepted(transfer) /\ Settle(transfer.prf_output, states)
  <2>1. /\ transfer.sender_index \in Nat /\ transfer.receiver_index \in Nat
        /\ transfer.value \in Amount /\ transfer.prf_output \in PRFOutputs
        /\ AccountsTypeOK /\ AccountsIndexed
    BY CallerTypes DEF TypedTransfer, Inv, AccountsInv
  <2>2. /\ from \in DOMAIN account_states /\ to \in DOMAIN account_states
        /\ account_states[from].balance >= transfer.value
    BY <1>2, <2>1, ValidIndex DEF TransferAccepted, TransferValid
  <2>3. /\ states \in Seq(AccountState)
        /\ DOMAIN states = DOMAIN account_states
        /\ \A i \in DOMAIN account_states :
             LET debited == IF i = from THEN account_states[i].balance - transfer.value
                            ELSE account_states[i].balance
             IN  states[i].balance = IF i = to THEN Sum64(debited, transfer.value) ELSE debited
    BY <2>1, <2>2, Moved
  <2>4. Record(Payment(from, to, transfer))
    BY DEF JournaledTransfer
  <2> HIDE DEF states, from, to
  <2>5. \A i \in DOMAIN states :
          states[i].balance =
            (account_states[i].balance - (IF i = from THEN transfer.value ELSE 0)
               + (IF i = to THEN transfer.value ELSE 0)) % AmountModulus
    BY <2>1, <2>2, <2>3, TransferPays
  <2>6. Ledger!Pay(from, to, transfer.value, transfer.prf_output,
                   transfer.referenced_root.root.v)
    <3>1. ValidateReferencedRoot(transfer.referenced_root) /\ ValidateFreshPrfOutput(transfer.prf_output)
      BY <1>2 DEF TransferAccepted, TransferValid
    <3> QED BY <1>2, <2>2, <2>3, <2>4, <2>5, <3>1, SettleIsPay
  <2>7. transfer.referenced_root.root.v \in DOMAIN Issued
    BY <1>2, ValidReference DEF TransferAccepted, TransferValid
  <2>8. from \in DOMAIN Balances /\ to \in DOMAIN Balances /\ transfer.value \in 0 .. AmountModulus - 1
    BY <2>1, <2>2, BalancesType DEF Amount
  <2> QED BY <2>1, <2>6, <2>7, <2>8 DEF PaysOnce
<1> QED BY <1>1, <1>2, Zenon DEF JournaledTransfer, Transfer

(* An epoch transition.                                                    *)
LEMMA TransitionIsTurn ==
  ASSUME Inv, Inv', NEW epoch \in EpochNumber, epoch # current_epoch, epoch <= current_epoch + 1,
         ApplyEpochTransition(epoch), UNCHANGED journal
  PROVE  Ledger!Turn
<1>1. /\ current_epoch' = epoch
      /\ prf_outputs_in_current_epoch' = {}
      /\ root_version' = root_version + 1
      /\ valid_roots' = RecordRoot(NextRoot(epoch))
      /\ account_states' = Stamped(account_states, NextRoot(epoch))
  BY DEF ApplyEpochTransition, ForgetPrfOutputs, AllocateNextRoot, RefreshAllAccountRoots
<1>2. Issued' = Append(Issued, current_epoch')
  BY <1>1, IssuedGrows
<1>3. Balances' = Balances
  BY <1>1, BalancesType, StampsKeepBalances DEF Balances
<1> QED BY <1>1, <1>2, <1>3 DEF Ledger!Turn, Ledger!IssueRoot

LEMMA HistoryStepIsLedgerStep ==
  ASSUME Inv, Inv', HistoryNext
  PROVE  [Ledger!Next]_(Ledger!vars)
<1>1. PaysOnce => Ledger!Next
  BY DEF PaysOnce, Ledger!Next
<1>2. ASSUME NEW mint \in Mints, JournaledMint(mint)
      PROVE  [Ledger!Next]_(Ledger!vars)
  BY <1>1, <1>2, MintIsLedgerStep
<1>3. ASSUME NEW transfer \in Transfers, JournaledTransfer(transfer)
      PROVE  [Ledger!Next]_(Ledger!vars)
  BY <1>1, <1>3, TransferIsLedgerStep
<1>4. ASSUME UnpaidNext, UNCHANGED journal
      PROVE  [Ledger!Next]_(Ledger!vars)
  <2>1. Ledger!Open \/ Ledger!Turn => Ledger!Next
    BY DEF Ledger!Next
  <2>2. UNCHANGED ledgerVars => UNCHANGED Ledger!vars
    BY <1>4, QuietStep
  <2>3. current_epoch \in EpochNumber /\ current_epoch \in Nat
    BY Bounds DEF Inv, ControlInv, EpochNumber
  <2>4. ASSUME NEW epoch \in EpochNumber, epoch # current_epoch, epoch <= current_epoch + 1,
               ApplyEpochTransition(epoch)
        PROVE  Ledger!Next
    BY <1>4, <2>1, <2>4, TransitionIsTurn
  <2>5. ASSUME NEW entry \in Entries, UpsertAccount(entry)
        PROVE  [Ledger!Next]_(Ledger!vars)
    BY <1>4, <2>1, <2>5, UpsertIsLedgerStep
  <2>6. ASSUME NEW request \in Requests, Register(request)
        PROVE  [Ledger!Next]_(Ledger!vars)
    BY <1>4, <2>1, <2>6, RegisterIsLedgerStep
  <2>7. CASE AdvanceEpoch
    <3>1. CASE Rejected
      BY <3>1, <2>2 DEF Rejected
    <3>2. CASE current_epoch < MaxEpoch /\ ApplyEpochTransition(current_epoch + 1)
      <4>1. current_epoch + 1 \in EpochNumber
        BY <2>3, <3>2, Bounds DEF EpochNumber
      <4>2. current_epoch + 1 # current_epoch /\ current_epoch + 1 <= current_epoch + 1
        BY <2>3
      <4> QED BY <2>4, <3>2, <4>1, <4>2
    <3> QED BY <2>7, <3>1, <3>2 DEF AdvanceEpoch
  <2>8. ASSUME NEW epoch \in EpochNumber, AdvanceToEpoch(epoch)
        PROVE  [Ledger!Next]_(Ledger!vars)
    BY <2>2, <2>8 DEF AdvanceToEpoch, StartLoop, Rejected
  <2>9. ASSUME NEW epoch \in EpochNumber, set_current_epoch(epoch)
        PROVE  [Ledger!Next]_(Ledger!vars)
    <3>1. CASE StartLoop(epoch)
      BY <2>2, <3>1 DEF StartLoop
    <3>2. CASE epoch < current_epoch /\ ApplyEpochTransition(epoch)
      <4>1. epoch # current_epoch /\ epoch <= current_epoch + 1
        BY <2>3, <3>2, Bounds DEF EpochNumber
      <4> QED BY <2>4, <3>2, <4>1
    <3> QED BY <2>9, <3>1, <3>2 DEF set_current_epoch
  <2>10. CASE AdvanceStep
    <3>1. current_epoch < goal /\ ApplyEpochTransition(current_epoch + 1)
      BY <2>10 DEF AdvanceStep, LoopRuns, StepEpoch
    <3>2. /\ current_epoch + 1 \in EpochNumber
          /\ current_epoch + 1 # current_epoch /\ current_epoch + 1 <= current_epoch + 1
      BY <2>3, <3>1, Bounds DEF EpochNumber, Inv, ControlInv
    <3> QED BY <2>4, <3>1, <3>2
  <2> QED BY <1>4, <2>5, <2>6, <2>7, <2>8, <2>9, <2>10, Zenon DEF UnpaidNext
<1> QED BY <1>2, <1>3, <1>4, Zenon DEF HistoryNext

(* At the start nothing is held, and the first root is of epoch 0. *)
LEMMA HistoryInitIsLedgerInit == HistoryInit => Ledger!Init
<1> SUFFICES ASSUME HistoryInit PROVE Ledger!Init
  OBVIOUS
<1>1. Balances = << >>
  BY DEF HistoryInit, Init, Balances
<1>2. /\ Issued \in Seq(EpochNumber) /\ Len(Issued) = 1 /\ Issued[1] = 0
  BY InitInv, IssuedFacts DEF HistoryInit, Init, IssuedOK
<1>3. Issued = <<0>>
  BY <1>2
<1> QED BY <1>1, <1>3 DEF HistoryInit, Init, Ledger!Init

(* The oracle with its journal implements the abstract ledger: accounts    *)
(* are numbered and keep their balances but for payments, each payment is  *)
(* fresh, covered and based on a recent root, and each issues one.         *)
THEOREM OracleImplementsLedger == HistorySpec => ImplementsLedger
<1>1. HistoryInit => Ledger!Init
  BY HistoryInitIsLedgerInit
<1>2. Inv /\ Inv' /\ [HistoryNext]_historyVars => [Ledger!Next]_(Ledger!vars)
  <2>1. UNCHANGED historyVars => UNCHANGED Ledger!vars
    BY QuietStep DEF historyVars, vars
  <2> QED BY <2>1, HistoryStepIsLedgerStep
<1>3. HistorySpec => []Inv
  BY HistoryIsOracle, Invariance, PTL
<1> QED BY <1>1, <1>2, <1>3, PTL DEF HistorySpec, ImplementsLedger, Ledger!Spec
-----------------------------------------------------------------------------
(* When payments were accepted.  What the invariant adds to the properties *)
(* is what a new payment is compared with: an output that is no longer in  *)
(* the replay set left it in an epoch change, one that is in it came from  *)
(* a payment since the last one, and unless time was set back between two  *)
(* versions the later one is of no earlier epoch.                          *)

Payments ==
  [from : Nat, to : Nat, value : Amount, prf : PRFOutputs, basis : Nat, version : Nat]

JournalDated ==
  /\ journal \in Seq(Payments)
  /\ \A n \in DOMAIN journal :
       /\ journal[n].version \in 2 .. Len(Issued)
       /\ journal[n].basis \in 1 .. journal[n].version - 1
  /\ \A m, n \in DOMAIN journal : m < n => journal[m].version < journal[n].version

SpentOrTurned ==
  \A n \in DOMAIN journal :
    \/ journal[n].prf \in prf_outputs_in_current_epoch
    \/ TurnedBetween(journal[n].version, Len(Issued))

SpentWasPaid ==
  \A prf \in prf_outputs_in_current_epoch :
    \E n \in DOMAIN journal :
      journal[n].prf = prf /\ ~TurnedBetween(journal[n].version, Len(Issued))

EpochsClimb ==
  \A first, last \in DOMAIN Issued :
    first <= last => Issued[first] <= Issued[last] \/ RewoundBetween(first, last)

DatesInv ==
  /\ JournalDated
  /\ SpentOrTurned
  /\ SpentWasPaid
  /\ EpochsClimb
  /\ PrfOncePerEra
  /\ BasisInWindow

LEMMA EpochNumbers == EpochNumber \subseteq Nat
BY Bounds DEF EpochNumber

(* A new root leaves the record of the others alone. *)
LEMMA RecordGrows ==
  ASSUME IssuedOK, NEW epoch \in Nat, Issued' = Append(Issued, epoch)
  PROVE  /\ Len(Issued) \in Nat \ {0}
         /\ Len(Issued') = Len(Issued) + 1
         /\ DOMAIN Issued = 1 .. Len(Issued)
         /\ DOMAIN Issued' = 1 .. Len(Issued) + 1
         /\ Issued'[Len(Issued) + 1] = epoch
         /\ \A version \in 1 .. Len(Issued) :
              Issued[version] \in Nat /\ Issued'[version] = Issued[version]
<1>1. Issued \in Seq(EpochNumber) /\ Len(Issued) \in Nat \ {0}
  BY DEF IssuedOK
<1>2. ASSUME NEW list \in Seq(EpochNumber)
      PROVE  list \in Seq(Nat)
  <2>1. Len(list) \in Nat /\ list \in [1 .. Len(list) -> EpochNumber]
    OBVIOUS
  <2>2. list \in [1 .. Len(list) -> Nat]
    BY <2>1, EpochNumbers
  <2> QED BY <2>1, <2>2
<1>3. ASSUME NEW list \in Seq(Nat)
      PROVE  /\ DOMAIN list = 1 .. Len(list)
             /\ Len(Append(list, epoch)) = Len(list) + 1
             /\ DOMAIN Append(list, epoch) = 1 .. Len(list) + 1
             /\ Append(list, epoch)[Len(list) + 1] = epoch
             /\ \A i \in 1 .. Len(list) :
                  list[i] \in Nat /\ Append(list, epoch)[i] = list[i]
  BY <1>3
<1> QED BY <1>1, <1>2, <1>3

LEMMA TurnsStay ==
  ASSUME IssuedOK, NEW epoch \in Nat, Issued' = Append(Issued, epoch),
         NEW first \in Nat \ {0}, NEW last \in 1 .. Len(Issued)
  PROVE  /\ TurnedBetween(first, last) => TurnedBetween(first, last)'
         /\ TurnedBetween(first, last) => TurnedBetween(first, last + 1)'
         /\ RewoundBetween(first, last) => RewoundBetween(first, last + 1)'
         /\ RewoundBetween(first, last) => RewoundBetween(first, last)'
<1>1. \A version \in first + 1 .. last :
        /\ Issued'[version] = Issued[version]
        /\ Issued'[version - 1] = Issued[version - 1]
        /\ version \in first + 1 .. last + 1
  BY RecordGrows
<1> QED BY <1>1 DEF TurnedBetween, RewoundBetween

(* A root of the same epoch does not make an epoch change. *)
LEMMA NoTurnYet ==
  ASSUME IssuedOK, NEW len \in Nat \ {0}, len = Len(Issued),
         Issued' = Append(Issued, Issued[len]),
         NEW first \in 1 .. len, ~TurnedBetween(first, len)
  PROVE  ~TurnedBetween(first, len + 1)'
<1>1. /\ Issued[len] \in Nat
      /\ Issued'[len + 1] = Issued[len]
      /\ \A version \in 1 .. len : Issued'[version] = Issued[version]
  <2>1. Issued[len] \in EpochNumber
    BY DEF IssuedOK
  <2> QED BY <2>1, EpochNumbers, RecordGrows
<1>2. ASSUME NEW version \in first + 1 .. len + 1
      PROVE  Issued'[version] = Issued'[version - 1]
  <2>1. CASE version = len + 1
    BY <1>1, <2>1
  <2>2. CASE version \in first + 1 .. len
    BY <1>1, <2>2 DEF TurnedBetween
  <2> QED BY <2>1, <2>2
<1> QED BY <1>2 DEF TurnedBetween

LEMMA EpochsKeepClimbing ==
  ASSUME IssuedOK, EpochsClimb, NEW epoch \in Nat, Issued' = Append(Issued, epoch)
  PROVE  EpochsClimb'
<1> PICK len \in Nat \ {0} : len = Len(Issued)
  BY RecordGrows
<1>1. /\ len = Len(Issued) /\ len \in Nat \ {0}
      /\ DOMAIN Issued = 1 .. len /\ DOMAIN Issued' = 1 .. len + 1
      /\ Issued'[len + 1] = epoch
      /\ \A version \in 1 .. len : Issued[version] \in Nat /\ Issued'[version] = Issued[version]
  BY RecordGrows
<1> SUFFICES ASSUME NEW first \in 1 .. len + 1, NEW last \in 1 .. len + 1, first <= last
             PROVE  (Issued[first] <= Issued[last] \/ RewoundBetween(first, last))'
  BY <1>1 DEF EpochsClimb
<1>2. CASE last \in 1 .. len
  <2>1. first \in 1 .. len
    BY <1>2
  <2>2. Issued[first] <= Issued[last] \/ RewoundBetween(first, last)
    BY <1>1, <1>2, <2>1 DEF EpochsClimb
  <2> QED BY <1>1, <1>2, <2>1, <2>2, TurnsStay
<1>3. CASE first = len + 1 /\ last = len + 1
  BY <1>1, <1>3
<1>4. CASE first \in 1 .. len /\ last = len + 1
  <2>1. Issued[first] <= Issued[len] \/ RewoundBetween(first, len)
    BY <1>1, <1>4 DEF EpochsClimb
  <2>2. CASE RewoundBetween(first, len)
    BY <1>1, <1>4, <2>2, TurnsStay
  <2>3. CASE Issued[first] <= Issued[len] /\ Issued[len] <= epoch
    BY <1>1, <1>4, <2>3
  <2>4. CASE epoch < Issued[len]
    <3>1. /\ len + 1 \in first + 1 .. last
          /\ Issued'[len + 1] < Issued'[len + 1 - 1]
      BY <1>1, <1>4, <2>4
    <3> QED BY <3>1 DEF RewoundBetween
  <2> QED BY <1>1, <1>4, <2>1, <2>2, <2>3, <2>4
<1> QED BY <1>1, <1>2, <1>3, <1>4

(* Payments made before a step that issues a root and records none.        *)
LEMMA UnpaidDates ==
  ASSUME Inv, Inv', DatesInv, UNCHANGED journal, Issued' = Append(Issued, current_epoch'),
         \/ UNCHANGED <<prf_outputs_in_current_epoch, current_epoch>>
         \/ prf_outputs_in_current_epoch' = {} /\ current_epoch' # current_epoch
  PROVE  DatesInv'
<1> PICK len \in Nat \ {0} : len = Len(Issued)
  BY IssuedFacts DEF IssuedOK
<1>1. /\ IssuedOK /\ current_epoch' \in Nat
      /\ Issued[len] = current_epoch
  BY IssuedFacts, EpochNumbers DEF IssuedOK, Inv, ControlInv
<1>2. /\ len = Len(Issued) /\ Len(Issued') = len + 1
      /\ Issued'[len + 1] = current_epoch'
      /\ \A version \in 1 .. len : Issued'[version] = Issued[version]
  BY <1>1, RecordGrows
<1>3. \A n \in DOMAIN journal : /\ journal[n].version \in 2 .. len
                                /\ journal[n].basis \in 1 .. journal[n].version - 1
                                /\ journal[n].basis \in 1 .. len
  BY <1>2 DEF DatesInv, JournalDated
<1>4. JournalDated'
  BY <1>2, <1>3 DEF DatesInv, JournalDated
<1>5. SpentOrTurned'
  <2> SUFFICES ASSUME NEW n \in DOMAIN journal, NEW version \in 2 .. len,
                      version = journal[n].version,
                      journal[n].prf \notin prf_outputs_in_current_epoch'
               PROVE  TurnedBetween(version, len + 1)'
    BY <1>2, <1>3 DEF SpentOrTurned
  <2>1. CASE current_epoch' # current_epoch
    <3>1. /\ len + 1 \in version + 1 .. len + 1
          /\ Issued'[len + 1] # Issued'[len + 1 - 1]
      BY <1>1, <1>2, <1>3, <2>1
    <3> QED BY <3>1 DEF TurnedBetween
  <2>2. CASE UNCHANGED prf_outputs_in_current_epoch
    <3>1. TurnedBetween(version, len)
      BY <1>2, <2>2 DEF DatesInv, SpentOrTurned
    <3> QED BY <3>1, <1>1, <1>2, <1>3, TurnsStay
  <2> QED BY <2>1, <2>2
<1>6. EpochsClimb'
  BY <1>1, EpochsKeepClimbing DEF DatesInv
<1>7. PrfOncePerEra'
  BY <1>1, <1>3, TurnsStay DEF DatesInv, PrfOncePerEra
<1>8. BasisInWindow'
  BY <1>2, <1>3 DEF DatesInv, BasisInWindow
<1>9. SpentWasPaid'
  <2>1. CASE prf_outputs_in_current_epoch' = {}
    BY <2>1 DEF SpentWasPaid
  <2>2. CASE UNCHANGED <<prf_outputs_in_current_epoch, current_epoch>>
    <3>1. ASSUME NEW prf \in prf_outputs_in_current_epoch
          PROVE  \E n \in DOMAIN journal' :
                   journal'[n].prf = prf /\ ~TurnedBetween(journal[n].version, Len(Issued))'
      <4>1. PICK n \in DOMAIN journal :
              journal[n].prf = prf /\ ~TurnedBetween(journal[n].version, len)
        BY <1>2 DEF DatesInv, SpentWasPaid
      <4>2. PICK version \in 1 .. len : version = journal[n].version
        BY <1>3
      <4>3. ~TurnedBetween(version, len + 1)'
        BY <1>1, <1>2, <2>2, <4>1, <4>2, NoTurnYet
      <4> QED BY <1>2, <4>1, <4>2, <4>3
    <3> QED BY <2>2, <3>1 DEF SpentWasPaid
  <2> QED BY <2>1, <2>2
<1> QED BY <1>4, <1>5, <1>6, <1>7, <1>8, <1>9 DEF DatesInv

(* A payment is compared with all that was accepted before it.             *)
LEMMA PaidDates ==
  ASSUME Inv, DatesInv, NEW from \in Nat, NEW to \in Nat, NEW value \in Amount,
         NEW prf \in PRFOutputs, NEW basis \in DOMAIN Issued,
         Ledger!Pay(from, to, value, prf, basis)
  PROVE  DatesInv'
<1> PICK len \in Nat \ {0} : len = Len(Issued)
  BY IssuedFacts DEF IssuedOK
<1> PICK count \in Nat : count = Len(journal)
  BY DEF DatesInv, JournalDated
<1> DEFINE payment == [from |-> from, to |-> to, value |-> value, prf |-> prf,
                       basis |-> basis, version |-> len + 1]
<1>1. /\ IssuedOK /\ current_epoch \in Nat
      /\ Issued[len] = current_epoch
  BY IssuedFacts, EpochNumbers DEF IssuedOK, Inv, ControlInv
<1>2. /\ prf \notin prf_outputs_in_current_epoch
      /\ prf_outputs_in_current_epoch' = prf_outputs_in_current_epoch \cup {prf}
      /\ Issued' = Append(Issued, current_epoch)
      /\ Issued[basis] \in current_epoch - 1 .. current_epoch
  BY DEF Ledger!Pay, Ledger!IssueRoot
<1>3. /\ Len(Issued') = len + 1
      /\ basis \in 1 .. len
      /\ Issued'[len + 1] = current_epoch
      /\ \A version \in 1 .. len :
           Issued[version] \in Nat /\ Issued'[version] = Issued[version]
  BY <1>1, <1>2, RecordGrows
<1>4. journal' = Append(journal, payment) /\ payment \in Payments
  BY <1>3 DEF Ledger!Pay, Payments
<1>5. /\ DOMAIN journal = 1 .. count /\ DOMAIN journal' = 1 .. count + 1
      /\ journal' \in Seq(Payments)
      /\ journal'[count + 1] = payment
      /\ \A n \in 1 .. count : journal'[n] = journal[n]
  <2> HIDE DEF payment
  <2> QED BY <1>4 DEF DatesInv, JournalDated
<1>6. /\ payment.version = len + 1 /\ payment.basis = basis /\ payment.prf = prf
  OBVIOUS
<1> HIDE DEF payment
<1>7. \A n \in 1 .. count : /\ journal[n].version \in 2 .. len
                            /\ journal[n].basis \in 1 .. journal[n].version - 1
                            /\ journal[n].basis \in 1 .. len
  BY <1>5 DEF DatesInv, JournalDated
<1>8. ASSUME NEW n \in 1 .. count + 1
      PROVE  /\ journal'[n].version \in Nat
             /\ journal'[n].version \in 2 .. len + 1
             /\ journal'[n].basis \in 1 .. journal'[n].version - 1
  <2>1. CASE n = count + 1
    BY <2>1, <1>3, <1>5, <1>6
  <2>2. CASE n \in 1 .. count
    BY <2>2, <1>5, <1>7
  <2> QED BY <2>1, <2>2
<1>9. JournalDated'
  <2>1. ASSUME NEW m \in 1 .. count + 1, NEW n \in 1 .. count + 1, m < n
        PROVE  journal'[m].version < journal'[n].version
    <3>1. m \in 1 .. count
      BY <2>1
    <3>2. CASE n = count + 1
      BY <3>1, <3>2, <1>5, <1>6, <1>7
    <3>3. CASE n \in 1 .. count
      BY <2>1, <3>1, <3>3, <1>5 DEF DatesInv, JournalDated
    <3> QED BY <3>2, <3>3
  <2> QED BY <1>3, <1>5, <1>8, <2>1 DEF JournalDated
<1>10. ASSUME NEW n \in 1 .. count, NEW version \in 2 .. len, version = journal[n].version,
             journal[n].prf \notin prf_outputs_in_current_epoch
      PROVE  TurnedBetween(version, len + 1)'
  <2>1. TurnedBetween(version, len)
    BY <1>5, <1>10 DEF DatesInv, SpentOrTurned
  <2> QED BY <2>1, <1>1, <1>2, TurnsStay
<1>11. SpentOrTurned'
  <2> SUFFICES ASSUME NEW n \in 1 .. count + 1, NEW version \in Nat,
                      version = journal'[n].version,
                      journal'[n].prf \notin prf_outputs_in_current_epoch'
               PROVE  TurnedBetween(version, len + 1)'
    BY <1>3, <1>5, <1>8 DEF SpentOrTurned
  <2>1. n \in 1 .. count
    BY <1>2, <1>5, <1>6
  <2> QED BY <2>1, <1>2, <1>5, <1>7, <1>10
<1>12. EpochsClimb'
  BY <1>1, <1>2, EpochsKeepClimbing DEF DatesInv
<1>13. PrfOncePerEra'
  <2> SUFFICES ASSUME NEW m \in 1 .. count + 1, NEW n \in 1 .. count + 1, m < n,
                      journal'[m].prf = journal'[n].prf,
                      NEW first \in Nat, first = journal'[m].version,
                      NEW last \in Nat, last = journal'[n].version
               PROVE  TurnedBetween(first, last)'
    BY <1>5, <1>8 DEF PrfOncePerEra
  <2>1. m \in 1 .. count /\ first = journal[m].version /\ first \in 2 .. len
    BY <1>5, <1>7
  <2>2. CASE n = count + 1
    <3>1. last = len + 1 /\ journal[m].prf \notin prf_outputs_in_current_epoch
      BY <1>2, <1>5, <1>6, <2>1, <2>2
    <3> QED BY <2>1, <3>1, <1>10
  <2>3. CASE n \in 1 .. count
    <3>1. last = journal[n].version /\ last \in 2 .. len
      BY <1>5, <1>7, <2>3
    <3>2. m \in DOMAIN journal /\ n \in DOMAIN journal /\ journal[m].prf = journal[n].prf
      BY <1>5, <2>1, <2>3
    <3>3. TurnedBetween(first, last)
      BY <2>1, <3>1, <3>2 DEF DatesInv, PrfOncePerEra
    <3>4. first \in Nat \ {0} /\ last \in 1 .. Len(Issued)
      BY <2>1, <3>1
    <3> QED BY <3>3, <3>4, <1>1, <1>2, TurnsStay
  <2> QED BY <2>2, <2>3
<1>14. BasisInWindow'
  <2> SUFFICES ASSUME NEW n \in 1 .. count + 1
               PROVE  Issued'[journal'[n].version] - Issued'[journal'[n].basis] \in 0 .. 1
    BY <1>5 DEF BasisInWindow
  <2>1. CASE n = count + 1
    <3>1. /\ Issued'[journal'[n].version] = current_epoch
          /\ Issued'[journal'[n].basis] = Issued[basis]
      BY <2>1, <1>3, <1>5, <1>6
    <3> QED BY <3>1, <1>1, <1>2
  <2>2. CASE n \in 1 .. count
    <3>1. /\ Issued'[journal'[n].version] = Issued[journal[n].version]
          /\ Issued'[journal'[n].basis] = Issued[journal[n].basis]
      <4>1. journal'[n] = journal[n]
        BY <2>2, <1>5
      <4>2. journal[n].version \in 1 .. len /\ journal[n].basis \in 1 .. len
        BY <2>2, <1>7
      <4> QED BY <4>1, <4>2, <1>3
    <3> QED BY <2>2, <3>1, <1>5 DEF DatesInv, BasisInWindow
  <2> QED BY <2>1, <2>2
<1>15. SpentWasPaid'
  <2>1. ASSUME NEW n \in 1 .. count + 1, NEW version \in Nat, version = journal'[n].version,
               ~TurnedBetween(version, len + 1)'
        PROVE  n \in DOMAIN journal' /\ ~TurnedBetween(journal[n].version, Len(Issued))'
    BY <2>1, <1>3, <1>5
  <2>2. \E n \in DOMAIN journal' :
          journal'[n].prf = prf /\ ~TurnedBetween(journal[n].version, Len(Issued))'
    <3>1. ~TurnedBetween(len + 1, len + 1)'
      BY DEF TurnedBetween
    <3>2. journal'[count + 1].version = len + 1 /\ journal'[count + 1].prf = prf
      BY <1>5, <1>6
    <3> QED BY <2>1, <3>1, <3>2
  <2>3. ASSUME NEW output \in prf_outputs_in_current_epoch
        PROVE  \E n \in DOMAIN journal' :
                 journal'[n].prf = output /\ ~TurnedBetween(journal[n].version, Len(Issued))'
    <3>1. PICK n \in 1 .. count :
            journal[n].prf = output /\ ~TurnedBetween(journal[n].version, len)
      BY <1>5 DEF DatesInv, SpentWasPaid
    <3>2. PICK version \in 1 .. len : version = journal[n].version
      BY <1>7
    <3>3. ~TurnedBetween(version, len + 1)'
      BY <1>1, <1>2, <3>1, <3>2, NoTurnYet
    <3>4. n \in 1 .. count + 1 /\ journal'[n] = journal[n] /\ version \in Nat
      BY <1>5
    <3> QED BY <2>1, <3>1, <3>2, <3>3, <3>4
  <2> QED BY <1>2, <2>2, <2>3 DEF SpentWasPaid
<1> QED BY <1>9, <1>11, <1>12, <1>13, <1>14, <1>15 DEF DatesInv

LEMMA DatesUnchanged ==
  ASSUME DatesInv, Issued' = Issued, UNCHANGED <<journal, prf_outputs_in_current_epoch>>
  PROVE  DatesInv'
<1>1. JournalDated'
  BY DEF DatesInv, JournalDated
<1>2. SpentOrTurned'
  BY DEF DatesInv, SpentOrTurned, TurnedBetween
<1>3. EpochsClimb'
  BY DEF DatesInv, EpochsClimb, RewoundBetween
<1>4. PrfOncePerEra'
  BY DEF DatesInv, PrfOncePerEra, TurnedBetween
<1>5. BasisInWindow'
  BY DEF DatesInv, BasisInWindow
<1>6. SpentWasPaid'
  BY DEF DatesInv, SpentWasPaid, TurnedBetween
<1> QED BY <1>1, <1>2, <1>3, <1>4, <1>5, <1>6 DEF DatesInv

LEMMA DatesStep ==
  ASSUME Inv, Inv', DatesInv, [Ledger!Next]_(Ledger!vars)
  PROVE  DatesInv'
<1>1. CASE UNCHANGED Ledger!vars
  <2>1. Issued' = Issued /\ UNCHANGED <<journal, prf_outputs_in_current_epoch>>
    BY <1>1 DEF Ledger!vars
  <2> QED BY <2>1, DatesUnchanged
<1>2. CASE Ledger!Open /\ UNCHANGED Issued
  <2>1. Issued' = Issued /\ UNCHANGED <<journal, prf_outputs_in_current_epoch>>
    BY <1>2 DEF Ledger!Open
  <2> QED BY <2>1, DatesUnchanged
<1>3. CASE Ledger!Open /\ Ledger!IssueRoot
  BY <1>3, UnpaidDates DEF Ledger!Open, Ledger!IssueRoot
<1>4. CASE Ledger!Turn
  BY <1>4, UnpaidDates DEF Ledger!Turn, Ledger!IssueRoot
<1>5. ASSUME NEW prf \in PRFOutputs, NEW value \in 0 .. AmountModulus - 1,
             NEW basis \in DOMAIN Issued,
             NEW from \in DOMAIN Balances \cup {Ledger!Outside}, NEW to \in DOMAIN Balances,
             Ledger!Pay(from, to, value, prf, basis)
      PROVE  DatesInv'
  <2>1. from \in Nat /\ to \in Nat /\ value \in Amount
    BY BalancesType DEF Ledger!Outside, Amount
  <2> QED BY <1>5, <2>1, PaidDates
<1>6. Ledger!Open => Ledger!IssueRoot \/ UNCHANGED Issued
  BY DEF Ledger!Open
<1> QED BY <1>1, <1>2, <1>3, <1>4, <1>5, <1>6 DEF Ledger!Next

(* Three uses of one payment are two epoch changes apart, but the root of  *)
(* the payment leaves the window after one, unless time was set back.      *)
LEMMA ReplaysNeedRewind ==
  ASSUME Inv, DatesInv
  PROVE  ReplayBound
<1> SUFFICES ASSUME NEW m \in DOMAIN journal, NEW n \in DOMAIN journal,
                    NEW o \in DOMAIN journal, m < n, n < o,
                    journal[m].prf = journal[n].prf, journal[n].prf = journal[o].prf,
                    journal[m].basis = journal[n].basis, journal[n].basis = journal[o].basis,
                    ~RewoundBetween(journal[m].version, journal[o].version)
             PROVE  FALSE
  BY DEF ReplayBound
<1> DEFINE first == journal[m].version
           middle == journal[n].version
           last == journal[o].version
<1>1. /\ DOMAIN Issued = 1 .. Len(Issued)
      /\ Len(Issued) \in Nat
      /\ \A version \in 1 .. Len(Issued) : Issued[version] \in Nat
  <2>1. IssuedOK
    BY IssuedFacts
  <2>2. DOMAIN Issued = 1 .. Len(Issued) /\ Len(Issued) \in Nat
    BY <2>1 DEF IssuedOK
  <2>3. \A version \in DOMAIN Issued : Issued[version] \in EpochNumber
    BY <2>1 DEF IssuedOK
  <2> QED BY <2>2, <2>3, EpochNumbers
<1>2. /\ first \in 2 .. Len(Issued) /\ middle \in 2 .. Len(Issued) /\ last \in 2 .. Len(Issued)
      /\ first < middle /\ middle < last
      /\ journal[m].basis \in 1 .. Len(Issued)
  BY <1>1 DEF DatesInv, JournalDated
<1>3. TurnedBetween(first, middle) /\ TurnedBetween(middle, last)
  BY DEF DatesInv, PrfOncePerEra
<1>4. /\ Issued[first] - Issued[journal[m].basis] \in 0 .. 1
      /\ Issued[last] - Issued[journal[m].basis] \in 0 .. 1
  BY DEF DatesInv, BasisInWindow
<1> HIDE DEF first, middle, last
<1>5. ASSUME NEW v \in 1 .. Len(Issued), NEW w \in 1 .. Len(Issued),
             first <= v, v <= w, w <= last
      PROVE  Issued[v] <= Issued[w]
  <2>1. RewoundBetween(v, w) => RewoundBetween(first, last)
    BY <1>2, <1>5 DEF RewoundBetween
  <2>2. ~RewoundBetween(first, last)
    BY DEF first, last
  <2> QED BY <2>1, <2>2, <1>1, <1>5 DEF DatesInv, EpochsClimb
<1>6. ASSUME NEW v \in 1 .. Len(Issued), NEW w \in 1 .. Len(Issued),
             first <= v, v <= w, w <= last, TurnedBetween(v, w)
      PROVE  Issued[v] < Issued[w]
  <2>1. PICK turn \in v + 1 .. w : Issued[turn] # Issued[turn - 1]
    BY <1>6 DEF TurnedBetween
  <2>2. /\ turn - 1 \in 1 .. Len(Issued) /\ turn \in 1 .. Len(Issued)
        /\ v <= turn - 1 /\ turn - 1 <= turn /\ turn <= w /\ first <= turn /\ first <= turn - 1
        /\ turn <= last /\ turn - 1 <= last
    BY <1>2, <1>6
  <2>3. /\ Issued[v] <= Issued[turn - 1]
        /\ Issued[turn - 1] <= Issued[turn]
        /\ Issued[turn] <= Issued[w]
    BY <1>5, <1>6, <2>2
  <2>4. /\ Issued[v] \in Nat /\ Issued[w] \in Nat
        /\ Issued[turn] \in Nat /\ Issued[turn - 1] \in Nat
    BY <1>1, <2>2
  <2> QED BY <2>1, <2>3, <2>4
<1>7. Issued[first] < Issued[middle] /\ Issued[middle] < Issued[last]
  BY <1>2, <1>3, <1>6
<1>8. /\ Issued[first] \in Nat /\ Issued[middle] \in Nat /\ Issued[last] \in Nat
      /\ Issued[journal[m].basis] \in Nat
  BY <1>1, <1>2
<1> QED BY <1>4, <1>7, <1>8 DEF first, last
-----------------------------------------------------------------------------
(* What balances add up to.  Total is defined by a recursive function;     *)
(* that it exists and has one value is part of the invariant, since each   *)
(* payment extends it by one step.                                         *)

After(account, held, payment) ==
  held - (IF account = payment.from THEN payment.value ELSE 0)
       + (IF account = payment.to THEN payment.value ELSE 0)

(* held is the course of an account's total over the first n payments.     *)
Course(payments, account, n, held) ==
  held = [k \in 0 .. n |-> IF k = 0 THEN 0 ELSE After(account, held[k - 1], payments[k])]

OneCourse(payments, account, held) ==
  /\ Course(payments, account, Len(payments), held)
  /\ \A n \in 0 .. Len(payments) :
       \A other : Course(payments, account, n, other) => other[n] = held[n]

BalanceOf(account) == IF account \in DOMAIN Balances THEN Balances[account] ELSE 0

Totals(account, held) ==
  /\ OneCourse(journal, account, held)
  /\ held[Len(journal)] \in Int
  /\ held[Len(journal)] % AmountModulus = BalanceOf(account)
  /\ \A n \in DOMAIN journal :
       journal[n].from = account => held[n - 1] % AmountModulus >= journal[n].value

TotalsInv == \A account \in Nat \ {Outside} : \E held : Totals(account, held)

(* Division with remainder, and its uniqueness.                            *)
LEMMA Division ==
  ASSUME NEW m \in Nat \ {0}, NEW y \in Int
  PROVE  \E q \in Int : \E r \in 0 .. m - 1 : r = y % m /\ y = m * q + r
<1>1. y \div m \in Int
  OBVIOUS
<1>2. y % m \in 0 .. m - 1
  OBVIOUS
<1>3. y = m * (y \div m) + (y % m)
  OBVIOUS
<1> QED BY <1>1, <1>2, <1>3

LEMMA OnlyZeroMultiple ==
  ASSUME NEW m \in Nat \ {0}, NEW k \in Int, m * k \in -(m - 1) .. m - 1
  PROVE  k = 0
<1> SUFFICES ASSUME k # 0
             PROVE  FALSE
  OBVIOUS
<1>1. CASE k >= 1
  <2>1. m * k >= m
    BY <1>1
  <2> QED BY <2>1
<1>2. CASE k <= -1
  <2>1. m * k <= -m
    BY <1>2
  <2> QED BY <2>1
<1> QED BY <1>1, <1>2

(* Multiples of the modulus are invisible in a remainder, also when        *)
(* something is added to it.                                               *)
LEMMA RemainderShift ==
  ASSUME NEW m \in Nat \ {0}, NEW x \in Int, NEW d \in Int
  PROVE  (x + d) % m = ((x % m) + d) % m
<1>1. PICK q \in Int, r \in 0 .. m - 1 : r = x % m /\ x = m * q + r
  BY Division
<1>2. PICK p \in Int, s \in 0 .. m - 1 : s = (r + d) % m /\ r + d = m * p + s
  <2>1. r + d \in Int
    OBVIOUS
  <2> QED BY <2>1, Division
<1>3. PICK o \in Int, t \in 0 .. m - 1 : t = (x + d) % m /\ x + d = m * o + t
  <2>1. x + d \in Int
    OBVIOUS
  <2> QED BY <2>1, Division
<1>4. t - s = m * (q + p - o)
  <2>1. PICK a \in Int, b \in Int, c \in Int : a = m * q /\ b = m * p /\ c = m * o
    OBVIOUS
  <2>2. m * (q + p - o) = a + b - c
    BY <2>1
  <2>3. x = a + r /\ r + d = b + s /\ x + d = c + t
    BY <1>1, <1>2, <1>3, <2>1
  <2>4. t - s = a + b - c
    BY <2>3
  <2> QED BY <2>2, <2>4
<1>5. t - s \in -(m - 1) .. m - 1
  OBVIOUS
<1>6. q + p - o = 0
  <2>1. q + p - o \in Int
    OBVIOUS
  <2> QED BY <1>4, <1>5, <2>1, OnlyZeroMultiple
<1>7. t = s
  <2>1. t - s = m * 0
    BY <1>4, <1>6
  <2> QED BY <2>1
<1> QED BY <1>1, <1>2, <1>3, <1>7

LEMMA CourseStarts ==
  ASSUME NEW payments, NEW account, NEW m \in Nat, NEW n \in 0 .. m, NEW held,
         Course(payments, account, m, held)
  PROVE  LET start == [k \in 0 .. n |-> held[k]]
         IN  Course(payments, account, n, start) /\ start[n] = held[n]
<1> DEFINE start == [k \in 0 .. n |-> held[k]]
<1>1. \A k \in 0 .. n :
        start[k] = IF k = 0 THEN 0 ELSE After(account, start[k - 1], payments[k])
  <2> TAKE k \in 0 .. n
  <2>1. k \in 0 .. m /\ (k # 0 => k - 1 \in 0 .. n)
    OBVIOUS
  <2>2. held[k] = IF k = 0 THEN 0 ELSE After(account, held[k - 1], payments[k])
    BY <2>1 DEF Course
  <2> QED BY <2>1, <2>2
<1>2. start = [k \in 0 .. n |-> start[k]] /\ start[n] = held[n]
  OBVIOUS
<1> HIDE DEF start
<1>3. Course(payments, account, n, start)
  BY <1>1, <1>2 DEF Course
<1> QED BY <1>2, <1>3 DEF start

LEMMA CourseExtends ==
  ASSUME NEW Type, NEW payments \in Seq(Type), NEW payment \in Type, NEW account, NEW held,
         OneCourse(payments, account, held),
         NEW count \in Nat, count = Len(payments),
         NEW next,
         next = [k \in 0 .. count + 1 |->
                   IF k = count + 1 THEN After(account, held[count], payment) ELSE held[k]]
  PROVE  OneCourse(Append(payments, payment), account, next)
<1> PICK longer : longer = Append(payments, payment)
  OBVIOUS
<1>1. /\ Len(longer) = count + 1
      /\ longer[count + 1] = payment
      /\ \A k \in 1 .. count : longer[k] = payments[k]
  OBVIOUS
<1>2. Course(longer, account, count + 1, next)
  <2>1. \A k \in 0 .. count + 1 :
          next[k] = IF k = 0 THEN 0 ELSE After(account, next[k - 1], longer[k])
    <3> TAKE k \in 0 .. count + 1
    <3>1. CASE k = count + 1
      BY <3>1, <1>1
    <3>2. CASE k \in 1 .. count
      <4>1. held[k] = After(account, held[k - 1], payments[k])
        BY <3>2 DEF OneCourse, Course
      <4> QED BY <4>1, <3>2, <1>1
    <3>3. CASE k = 0
      BY <3>3 DEF OneCourse, Course
    <3> QED BY <3>1, <3>2, <3>3
  <2>2. next = [k \in 0 .. count + 1 |-> next[k]]
    OBVIOUS
  <2> QED BY <2>1, <2>2 DEF Course
<1>3. ASSUME NEW n \in 0 .. count, NEW other, Course(longer, account, n, other)
      PROVE  other[n] = next[n]
  <2>1. Course(payments, account, n, other)
    <3>1. \A k \in 0 .. n : k # 0 => longer[k] = payments[k]
      BY <1>1
    <3>2. [k \in 0 .. n |-> IF k = 0 THEN 0 ELSE After(account, other[k - 1], longer[k])]
            = [k \in 0 .. n |-> IF k = 0 THEN 0 ELSE After(account, other[k - 1], payments[k])]
      BY <3>1
    <3> QED BY <3>2, <1>3 DEF Course
  <2>2. other[n] = held[n]
    BY <2>1 DEF OneCourse
  <2> QED BY <2>2
<1>4. ASSUME NEW other, Course(longer, account, count + 1, other)
      PROVE  other[count + 1] = next[count + 1]
  <2>1. other[count] = next[count]
    <3> DEFINE start == [k \in 0 .. count |-> other[k]]
    <3>1. Course(longer, account, count, start) /\ start[count] = other[count]
      BY <1>4, CourseStarts
    <3> HIDE DEF start
    <3> QED BY <3>1, <1>3
  <2>2. other[count + 1] = After(account, other[count], payment)
    BY <1>1, <1>4 DEF Course
  <2> QED BY <2>1, <2>2
<1> QED BY <1>1, <1>2, <1>3, <1>4 DEF OneCourse

LEMMA CourseIsTotal ==
  ASSUME JournalDated, NEW account, NEW held, Totals(account, held),
         NEW n \in 0 .. Len(journal)
  PROVE  Total(account, n) = held[n]
<1>1. Len(journal) \in Nat
  BY DEF JournalDated
<1> DEFINE start == [k \in 0 .. n |-> held[k]]
<1>2. Course(journal, account, n, start)
  BY <1>1, CourseStarts DEF Totals, OneCourse
<1> DEFINE chosen == CHOOSE other : Course(journal, account, n, other)
<1>3. Course(journal, account, n, chosen)
  <2> HIDE DEF start
  <2> QED BY <1>2
<1>4. Total(account, n) = chosen[n]
  BY DEF Total, Course, After
<1> QED BY <1>3, <1>4 DEF Totals, OneCourse

LEMMA TotalsKept ==
  ASSUME TotalsInv, UNCHANGED journal,
         \A account \in Nat \ {Outside} : BalanceOf(account)' = BalanceOf(account)
  PROVE  TotalsInv'
<1> SUFFICES ASSUME NEW account \in Nat \ {Outside}
             PROVE  \E held : Totals(account, held)'
  BY DEF TotalsInv
<1>1. PICK held : Totals(account, held)
  BY DEF TotalsInv
<1>2. BalanceOf(account)' = BalanceOf(account)
  OBVIOUS
<1>3. Totals(account, held)'
  BY <1>1, <1>2 DEF Totals
<1> QED BY <1>3

(* A new account has been paid nothing so far.                             *)
LEMMA TotalsOpened ==
  ASSUME Inv, TotalsInv, UNCHANGED journal, Balances' = Append(Balances, 0)
  PROVE  TotalsInv'
<1>1. Balances \in Seq(Amount)
  BY BalancesType
<1>2. \A account \in Nat \ {Outside} : BalanceOf(account)' = BalanceOf(account)
  BY <1>1 DEF BalanceOf
<1> QED BY <1>2, TotalsKept

(* A payment moves what it says, and its sender had it.                    *)
LEMMA TotalsPaid ==
  ASSUME Inv, TotalsInv, JournalDated,
         NEW from \in DOMAIN Balances \cup {Outside}, NEW to \in DOMAIN Balances,
         NEW value \in Amount, NEW prf \in PRFOutputs, NEW basis \in DOMAIN Issued,
         Ledger!Pay(from, to, value, prf, basis)
  PROVE  TotalsInv'
<1> SUFFICES ASSUME NEW account \in Nat \ {Outside}
             PROVE  \E next : Totals(account, next)'
  BY DEF TotalsInv
<1>1. PICK held : Totals(account, held)
  BY DEF TotalsInv
<1> PICK count \in Nat : count = Len(journal)
  BY DEF JournalDated
<1> PICK payment \in Payments :
      /\ journal' = Append(journal, payment)
      /\ payment.from = from /\ payment.to = to /\ payment.value = value
  <2>1. from \in Nat /\ to \in Nat /\ basis \in Nat /\ Len(Issued') \in Nat
    BY BalancesType, IssuedFacts, RecordGrows, EpochNumbers
       DEF Ledger!Pay, Ledger!IssueRoot, IssuedOK, Inv, ControlInv, Outside
  <2> QED BY <2>1 DEF Ledger!Pay, Payments
<1> PICK next : next = [k \in 0 .. count + 1 |->
                   IF k = count + 1 THEN After(account, held[count], payment) ELSE held[k]]
  OBVIOUS
<1>2. journal \in Seq(Payments) /\ DOMAIN journal = 1 .. count
  BY DEF JournalDated
<1>3. OneCourse(journal', account, next)
  BY <1>1, <1>2, CourseExtends DEF Totals
<1>4. /\ Len(journal') = count + 1 /\ DOMAIN journal' = 1 .. count + 1
      /\ journal'[count + 1] = payment
      /\ \A n \in 1 .. count : journal'[n] = journal[n]
  BY <1>2
<1>5. /\ DOMAIN Balances \subseteq Nat \ {0}
      /\ Balances' = [a \in DOMAIN Balances |->
                        (Balances[a] - (IF a = from THEN value ELSE 0)
                                     + (IF a = to THEN value ELSE 0)) % AmountModulus]
      /\ from # Outside => Balances[from] >= value
  BY BalancesType DEF Ledger!Pay, Ledger!Outside, Outside
<1>6. held[count] \in Int /\ held[count] % AmountModulus = BalanceOf(account)
  BY <1>1 DEF Totals
<1> DEFINE moved == (IF account = to THEN value ELSE 0) - (IF account = from THEN value ELSE 0)
<1>10. value \in Int /\ moved \in Int
  BY Bounds DEF Amount
<1>7. /\ After(account, held[count], payment) \in Int
      /\ After(account, held[count], payment) % AmountModulus = BalanceOf(account)'
  <2>1. After(account, held[count], payment) = held[count] + moved
    BY <1>6, <1>10 DEF After
  <2>2. (held[count] + moved) % AmountModulus = (BalanceOf(account) + moved) % AmountModulus
    <3> HIDE DEF moved
    <3>1. AmountModulus \in Nat \ {0}
      BY Bounds
    <3>2. PICK x \in Int : x = held[count]
      BY <1>6
    <3>3. (x + moved) % AmountModulus = ((x % AmountModulus) + moved) % AmountModulus
      BY <1>10, <3>1, RemainderShift
    <3> QED BY <1>6, <3>2, <3>3
  <2>3. (BalanceOf(account) + moved) % AmountModulus = BalanceOf(account)'
    <3>1. CASE account \in DOMAIN Balances
      <4>1. Balances[account] \in Int /\ value \in Int
        BY <3>1, BalancesType, Bounds DEF Amount
      <4>2. Balances[account] + moved
              = Balances[account] - (IF account = from THEN value ELSE 0)
                                  + (IF account = to THEN value ELSE 0)
        BY <4>1
      <4> QED BY <3>1, <4>2, <1>5 DEF BalanceOf
    <3>2. CASE account \notin DOMAIN Balances
      <4>1. account # from /\ account # to
        BY <3>2
      <4>2. moved = 0 /\ 0 % AmountModulus = 0
        BY <4>1, SmallRemainder, Bounds DEF Amount
      <4> QED BY <3>2, <4>2, <1>5 DEF BalanceOf
    <3> QED BY <3>1, <3>2
  <2>4. held[count] + moved \in Int
    BY <1>6, <1>10
  <2> QED BY <2>1, <2>2, <2>3, <2>4
<1>8. ASSUME NEW n \in 1 .. count + 1, journal'[n].from = account
      PROVE  next[n - 1] % AmountModulus >= journal'[n].value
  <2>1. n - 1 \in 0 .. count /\ next[n - 1] = held[n - 1]
    OBVIOUS
  <2>2. CASE n = count + 1
    <3>1. BalanceOf(account) >= value
      BY <2>2, <1>4, <1>5, <1>8 DEF BalanceOf, Outside
    <3> QED BY <2>1, <2>2, <3>1, <1>4, <1>6
  <2>3. CASE n \in 1 .. count
    BY <2>1, <2>3, <1>1, <1>2, <1>4, <1>8 DEF Totals
  <2> QED BY <2>2, <2>3
<1>9. Totals(account, next)'
  BY <1>3, <1>4, <1>7, <1>8 DEF Totals
<1> QED BY <1>9

LEMMA TotalsStep ==
  ASSUME Inv, TotalsInv, JournalDated, [Ledger!Next]_(Ledger!vars)
  PROVE  TotalsInv'
<1>1. ASSUME UNCHANGED <<journal, Balances>>
      PROVE  TotalsInv'
  <2>1. \A account \in Nat \ {Outside} : BalanceOf(account)' = BalanceOf(account)
    BY <1>1 DEF BalanceOf
  <2> QED BY <2>1, <1>1, TotalsKept
<1>2. UNCHANGED Ledger!vars => UNCHANGED <<journal, Balances>>
  BY DEF Ledger!vars
<1>3. Ledger!Turn => UNCHANGED <<journal, Balances>>
  BY DEF Ledger!Turn
<1>4. Ledger!Open => TotalsInv'
  BY TotalsOpened DEF Ledger!Open
<1>5. ASSUME NEW prf \in PRFOutputs, NEW value \in 0 .. AmountModulus - 1,
             NEW basis \in DOMAIN Issued,
             NEW from \in DOMAIN Balances \cup {Ledger!Outside}, NEW to \in DOMAIN Balances,
             Ledger!Pay(from, to, value, prf, basis)
      PROVE  TotalsInv'
  BY <1>5, TotalsPaid DEF Ledger!Outside, Outside, Amount
<1> QED BY <1>1, <1>2, <1>3, <1>4, <1>5 DEF Ledger!Next

LEMMA BalancesAddUp ==
  ASSUME Inv, JournalDated, TotalsInv
  PROVE  BalancesReplay /\ NoOverdraft
<1>1. Len(journal) \in Nat /\ DOMAIN journal = 1 .. Len(journal)
  BY DEF JournalDated
<1>2. ASSUME NEW i \in DOMAIN account_states
      PROVE  account_states[i].balance = Total(i, Len(journal)) % AmountModulus
  <2>1. i \in Nat \ {Outside} /\ i \in DOMAIN Balances
    BY BalancesType DEF Outside
  <2>2. PICK held : Totals(i, held)
    BY <2>1 DEF TotalsInv
  <2>3. Total(i, Len(journal)) = held[Len(journal)]
    BY <2>2, <1>1, CourseIsTotal
  <2>4. held[Len(journal)] % AmountModulus = Balances[i]
    BY <2>1, <2>2 DEF Totals, BalanceOf
  <2> QED BY <2>3, <2>4 DEF Balances
<1>3. ASSUME NEW n \in DOMAIN journal, journal[n].from # Outside
      PROVE  Total(journal[n].from, n - 1) % AmountModulus >= journal[n].value
  <2> PICK account : account = journal[n].from
    OBVIOUS
  <2>1. account \in Nat \ {Outside}
    <3>1. journal \in Seq(Payments)
      BY DEF JournalDated
    <3>2. journal[n] \in Payments
      BY <3>1
    <3> QED BY <3>2, <1>3 DEF Payments
  <2>2. PICK held : Totals(account, held)
    BY <2>1 DEF TotalsInv
  <2>3. Total(account, n - 1) = held[n - 1]
    BY <2>2, <1>1, CourseIsTotal
  <2> QED BY <2>2, <2>3 DEF Totals
<1> QED BY <1>2, <1>3 DEF BalancesReplay, NoOverdraft
-----------------------------------------------------------------------------
HistoryInv == DatesInv /\ TotalsInv

LEMMA HistoryInvInit ==
  ASSUME Ledger!Init
  PROVE  HistoryInv
<1>1. /\ Balances = << >> /\ Issued = <<0>> /\ journal = << >>
      /\ Len(Issued) = 1 /\ DOMAIN Issued = {1} /\ Issued[1] = 0
      /\ Len(journal) = 0 /\ DOMAIN journal = {}
  BY DEF Ledger!Init
<1>2. DatesInv
  <2>1. prf_outputs_in_current_epoch = {}
    BY DEF Ledger!Init
  <2>2. SpentWasPaid
    BY <2>1 DEF SpentWasPaid
  <2> QED BY <1>1, <2>2
          DEF DatesInv, JournalDated, SpentOrTurned, EpochsClimb, PrfOncePerEra, BasisInWindow
<1>3. ASSUME NEW account \in Nat \ {Outside}
      PROVE  \E held : Totals(account, held)
  <2> DEFINE held == [k \in 0 .. 0 |-> 0]
  <2>1. Course(journal, account, 0, held)
    <3>1. held = [k \in 0 .. 0 |->
                    IF k = 0 THEN 0 ELSE After(account, held[k - 1], journal[k])]
      OBVIOUS
    <3> QED BY <3>1 DEF Course
  <2>2. ASSUME NEW other, Course(journal, account, 0, other)
        PROVE  other[0] = 0
    BY <2>2 DEF Course
  <2>3. held[0] = 0 /\ BalanceOf(account) = 0 /\ 0 % AmountModulus = 0
    BY <1>1, SmallRemainder, Bounds DEF BalanceOf, Amount
  <2> HIDE DEF held
  <2>4. \A n \in 0 .. Len(journal) :
          \A other : Course(journal, account, n, other) => other[n] = held[n]
    BY <1>1, <2>2, <2>3
  <2> QED BY <1>1, <2>1, <2>3, <2>4 DEF Totals, OneCourse
<1> QED BY <1>2, <1>3 DEF HistoryInv, TotalsInv

LEMMA HistoryAlways == HistorySpec => [](Inv /\ HistoryInv)
<1>1. HistorySpec => []Inv
  BY HistoryIsOracle, Invariance, PTL
<1>2. HistorySpec => ImplementsLedger
  BY OracleImplementsLedger
<1>3. Ledger!Init => HistoryInv
  BY HistoryInvInit
<1>4. Inv /\ Inv' /\ HistoryInv /\ [Ledger!Next]_(Ledger!vars) => HistoryInv'
  BY DatesStep, TotalsStep DEF HistoryInv, DatesInv
<1> QED BY <1>1, <1>2, <1>3, <1>4, PTL DEF ImplementsLedger, Ledger!Spec

(* Between two accepted uses of one PRF output the replay set has been     *)
(* cleared, which ApplyEpochTransition and set_current_epoch do, and only  *)
(* with a change of the epoch.                                             *)
THEOREM OutputsOncePerEra == HistorySpec => []PrfOncePerEra
<1>1. HistoryInv => PrfOncePerEra
  BY DEF HistoryInv, DatesInv
<1> QED BY <1>1, HistoryAlways, PTL

(* ValidateReferencedRoot accepts a root in the epoch in which it was made *)
(* and in the next one only, whatever epoch the reference claims.          *)
THEOREM PaymentsInWindow == HistorySpec => []BasisInWindow
<1>1. HistoryInv => BasisInWindow
  BY DEF HistoryInv, DatesInv
<1> QED BY <1>1, HistoryAlways, PTL

(* The validity window and the replay set together: one payment is         *)
(* accepted at most twice, unless set_current_epoch went back.             *)
THEOREM ReplaysBounded == HistorySpec => []ReplayBound
<1>1. Inv /\ HistoryInv => ReplayBound
  BY ReplaysNeedRewind DEF HistoryInv
<1> QED BY <1>1, HistoryAlways, PTL

(* A refused payment leaves the replay set alone, an accepted one stays in *)
(* it until an epoch transition clears it, and nothing else is in it.      *)
THEOREM OutputsArePaidFor == HistorySpec => []OutputsPaidFor
<1>1. Inv /\ HistoryInv => OutputsPaidFor
  <2> SUFFICES ASSUME Inv, HistoryInv
               PROVE  OutputsPaidFor
    OBVIOUS
  <2>1. Len(Issued) = root_version
    BY IssuedFacts DEF IssuedOK
  <2> QED BY <2>1 DEF HistoryInv, DatesInv, SpentOrTurned, SpentWasPaid, OutputsPaidFor
<1> QED BY <1>1, HistoryAlways, PTL

(* Every balance is the sum of the payments accepted, modulo 2^64, however *)
(* many there were and whatever happened between them.                     *)
THEOREM BalancesAreSums == HistorySpec => []BalancesReplay
<1>1. Inv /\ HistoryInv => BalancesReplay
  BY BalancesAddUp DEF HistoryInv, DatesInv
<1> QED BY <1>1, HistoryAlways, PTL

(* Transfer takes from an account only what earlier payments left it.      *)
THEOREM SendersHadTheMoney == HistorySpec => []NoOverdraft
<1>1. Inv /\ HistoryInv => NoOverdraft
  BY BalancesAddUp DEF HistoryInv, DatesInv
<1> QED BY <1>1, HistoryAlways, PTL
=============================================================================
