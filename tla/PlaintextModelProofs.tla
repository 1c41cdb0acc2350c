------------------------ MODULE PlaintextModelProofs ------------------------
(***************************************************************************)
(* Proofs that the invariants of PlaintextModelProperties hold for every   *)
(* set of accounts, amounts and epochs.  They are inductive together: an   *)
(* entry is stored twice and its index a third time, so the types of the   *)
(* state alone do not say that a refresh writes back the right entry.      *)
(***************************************************************************)
EXTENDS PlaintextModelProperties, FiniteSetTheorems, TLAPS

(* The slots hold each id at the index recorded for it. *)
Indexed(states, indices) ==
  /\ \A i \in DOMAIN states :
       LET id == states[i].entry.account_id
       IN  /\ id \in DOMAIN indices
           /\ indices[id] = i - 1
  /\ \A id \in DOMAIN indices :
       /\ indices[id] + 1 \in DOMAIN states
       /\ states[indices[id] + 1].entry.account_id = id

AccountsInv == AccountsTypeOK /\ AccountsIndexed /\ AccountsMirrored

RootsInv == RootsTypeOK /\ RootsRecorded /\ RootsListed /\ EpochsHaveRoots

PrfInv == PrfTypeOK /\ PrfOutputsTracked

ControlInv ==
  /\ current_epoch \in EpochNumber
  /\ goal \in current_epoch .. MaxEpoch
  /\ ok \in BOOLEAN

Inv == AccountsInv /\ RootsInv /\ PrfInv /\ ControlInv

(* The bound of the model leaves room for the rest of a running loop.      *)
RootRoom == root_version + (goal - current_epoch) <= MaxRootVersion
-----------------------------------------------------------------------------
(* Counting up reaches every number: of the ranges 1 .. k that end outside *)
(* the set, none is least.                                                 *)
LEMMA CountingUp ==
  ASSUME NEW reached, 0 \in reached, \A n \in Nat : n \in reached => n + 1 \in reached
  PROVE  \A n \in Nat : n \in reached
<1> SUFFICES ASSUME NEW n \in Nat, n \notin reached
             PROVE  FALSE
  OBVIOUS
<1> DEFINE missed == {1 .. k : k \in {k \in 0 .. n : k \notin reached}}
<1>1. IsWellFoundedOn(StrictSubsetOrdering(1 .. n), SUBSET (1 .. n))
  <2>1. IsFiniteSet(1 .. n)
    BY FS_Interval
  <2>2. FiniteSubsetsOf(1 .. n) = SUBSET (1 .. n)
    BY <2>1, FS_FiniteSubsetsOfFinite
  <2> QED BY <2>2, FS_StrictSubsetOrderingWellFounded
<1>2. missed \subseteq SUBSET (1 .. n) /\ missed # {}
  <2>1. \A k \in 0 .. n : 1 .. k \subseteq 1 .. n
    OBVIOUS
  <2>2. 1 .. n \in missed
    OBVIOUS
  <2> QED BY <2>1, <2>2
<1>3. PICK least \in missed :
        \A other \in missed : <<other, least>> \notin StrictSubsetOrdering(1 .. n)
  <2> HIDE DEF missed
  <2> QED BY <1>1, <1>2, WFMin
<1>4. PICK k \in 0 .. n : k \notin reached /\ least = 1 .. k
  OBVIOUS
<1>5. k # 0 /\ k - 1 \in 0 .. n /\ k - 1 \notin reached
  BY <1>4
<1>6. <<1 .. k - 1, 1 .. k>> \in StrictSubsetOrdering(1 .. n)
  <2>1. k \in 1 .. k /\ k \notin 1 .. k - 1
    BY <1>5
  <2>2. 1 .. k - 1 \subseteq 1 .. k /\ 1 .. k - 1 \subseteq 1 .. n /\ 1 .. k \subseteq 1 .. n
    BY <1>5
  <2> QED BY <2>1, <2>2 DEF StrictSubsetOrdering
<1> QED BY <1>3, <1>4, <1>5, <1>6
-----------------------------------------------------------------------------
(* Accounts. *)

(* The numeric constants; SMT does not read the assumption as a whole. *)
LEMMA Bounds ==
  /\ AmountModulus \in Nat /\ AmountModulus > 0
  /\ MaxEpoch \in Nat
  /\ MaxRootVersion \in Nat /\ MaxRootVersion > 0
<1>1. /\ AmountModulus \in Nat \ {0}
      /\ MaxEpoch \in Nat
      /\ MaxRootVersion \in Nat \ {0}
  BY ConstantsAssumption, Zenon DEF ConstantsAssumption
<1> QED BY <1>1

(* Sum64 stays within the amounts. *)
LEMMA Sum64Type ==
  ASSUME NEW a \in Nat, NEW b \in Nat
  PROVE  Sum64(a, b) \in Amount
<1>1. \A m \in Nat : m > 0 => (a + b) % m \in 0 .. m - 1
  OBVIOUS
<1> QED BY <1>1, Bounds DEF Sum64, Amount

(* A new slot for a new id keeps slots and indices in step. *)
LEMMA AppendIndexed ==
  ASSUME NEW states \in Seq(AccountState), NEW indices, Indexed(states, indices),
         NEW state \in AccountState,
         state.entry.account_id \notin DOMAIN indices
  PROVE  Indexed(Append(states, state),
                 Put(indices, state.entry.account_id, Len(states)))
<1> DEFINE id == state.entry.account_id
           grown == Append(states, state)
           put == Put(indices, id, Len(states))
<1>1. /\ DOMAIN grown = 1 .. Len(states) + 1
      /\ DOMAIN states = 1 .. Len(states)
      /\ Len(states) \in Nat
      /\ \A i \in 1 .. Len(states) : grown[i] = states[i]
      /\ grown[Len(states) + 1] = state
  OBVIOUS
<1>2. /\ DOMAIN put = DOMAIN indices \cup {id}
      /\ put[id] = Len(states)
      /\ \A k \in DOMAIN indices : put[k] = indices[k]
  BY DEF Put
<1> HIDE DEF grown, put
<1>3. ASSUME NEW i \in DOMAIN grown
      PROVE  /\ grown[i].entry.account_id \in DOMAIN put
             /\ put[grown[i].entry.account_id] = i - 1
  <2>1. CASE i = Len(states) + 1
    BY <2>1, <1>1, <1>2
  <2>2. CASE i \in 1 .. Len(states)
    BY <2>2, <1>1, <1>2 DEF Indexed
  <2> QED BY <2>1, <2>2, <1>1
<1>4. ASSUME NEW k \in DOMAIN put
      PROVE  /\ put[k] + 1 \in DOMAIN grown
             /\ grown[put[k] + 1].entry.account_id = k
  <2>1. CASE k = id
    BY <2>1, <1>1, <1>2
  <2>2. CASE k \in DOMAIN indices
    BY <2>2, <1>1, <1>2 DEF Indexed
  <2> QED BY <2>1, <2>2, <1>2
<1> QED BY <1>3, <1>4 DEF Indexed, grown, put

(* A stamp changes the root and the epoch of every entry and nothing else. *)
LEMMA StampedSlots ==
  ASSUME NEW states \in Seq(AccountState), NEW reference \in RootReference
  PROVE  /\ Stamped(states, reference) \in Seq(AccountState)
         /\ DOMAIN Stamped(states, reference) = DOMAIN states
         /\ \A i \in DOMAIN states :
              LET slot == Stamped(states, reference)[i]
              IN  /\ slot \in AccountState
                  /\ slot.balance = states[i].balance
                  /\ slot.entry.account_id = states[i].entry.account_id
                  /\ slot.entry.epoch = reference.epoch
                  /\ slot.entry.inclusion_root = reference.root
<1> DEFINE Stamp(state) == [state EXCEPT !.entry.epoch = reference.epoch,
                                         !.entry.inclusion_root = reference.root]
<1>1. ASSUME NEW state \in AccountState
      PROVE  /\ Stamp(state) \in AccountState
             /\ Stamp(state).balance = state.balance
             /\ Stamp(state).entry.account_id = state.entry.account_id
             /\ Stamp(state).entry.epoch = reference.epoch
             /\ Stamp(state).entry.inclusion_root = reference.root
  BY DEF AccountState, PrivateAccountEntry, RootReference
<1>2. Stamped(states, reference) = [i \in DOMAIN states |-> Stamp(states[i])]
  BY DEF Stamped
<1>3. /\ DOMAIN states = 1 .. Len(states)
      /\ Len(states) \in Nat
      /\ \A i \in DOMAIN states : states[i] \in AccountState
  OBVIOUS
<1> HIDE DEF Stamp
<1> QED BY <1>1, <1>2, <1>3

(* RefreshAllAccountRoots keeps slots, indices and balances, stamps every  *)
(* entry and brings accounts back in line with the slots.                  *)
LEMMA RefreshAccounts ==
  ASSUME AccountsTypeOK,
         NEW states \in Seq(AccountState), NEW reference \in RootReference,
         DOMAIN account_indices' \subseteq AccountIds,
         account_indices' \in [DOMAIN account_indices' -> Nat],
         Indexed(states, account_indices'),
         DOMAIN accounts \subseteq DOMAIN account_indices',
         RefreshAllAccountRoots(states, reference)
  PROVE  /\ AccountsInv'
         /\ DOMAIN account_states' = DOMAIN states
         /\ \A i \in DOMAIN states :
              /\ account_states'[i].balance = states[i].balance
              /\ account_states'[i].entry.epoch = reference.epoch
              /\ account_states'[i].entry.inclusion_root = reference.root
<1> DEFINE refreshed == Stamped(states, reference)
           Slots(id) == {i \in DOMAIN refreshed : refreshed[i].entry.account_id = id}
           LastSlot(id) == CHOOSE i \in Slots(id) : \A j \in Slots(id) : j <= i
           ids == {refreshed[i].entry.account_id : i \in DOMAIN refreshed}
<1>1. /\ account_states' = refreshed
      /\ accounts' = [id \in DOMAIN accounts \cup ids |->
                        IF Slots(id) = {} THEN accounts[id]
                        ELSE refreshed[LastSlot(id)].entry]
  BY Zenon DEF RefreshAllAccountRoots, Mirrored
<1>2. /\ DOMAIN states = 1 .. Len(states)
      /\ Len(states) \in Nat
  OBVIOUS
<1>3. /\ refreshed \in Seq(AccountState)
      /\ DOMAIN refreshed = DOMAIN states
      /\ \A i \in DOMAIN states :
           /\ refreshed[i].balance = states[i].balance
           /\ refreshed[i].entry.account_id = states[i].entry.account_id
           /\ refreshed[i].entry.epoch = reference.epoch
           /\ refreshed[i].entry.inclusion_root = reference.root
  BY StampedSlots
<1> HIDE DEF refreshed
<1>4. Indexed(refreshed, account_indices')
  BY <1>3 DEF Indexed
<1>5. ASSUME NEW i \in DOMAIN refreshed
      PROVE  /\ Slots(refreshed[i].entry.account_id) = {i}
             /\ LastSlot(refreshed[i].entry.account_id) = i
  <2>1. \A j \in DOMAIN refreshed :
          refreshed[j].entry.account_id = refreshed[i].entry.account_id => j = i
    <3>1. \A j \in DOMAIN refreshed :
            j \in Int /\ account_indices'[refreshed[j].entry.account_id] = j - 1
      BY <1>2, <1>3, <1>4 DEF Indexed
    <3>2. \A j, k \in Int : j - 1 = k - 1 => j = k
      OBVIOUS
    <3> QED BY <3>1, <3>2
  <2>2. Slots(refreshed[i].entry.account_id) = {i}
    BY <2>1
  <2>3. i <= i
    BY <1>2, <1>3
  <2> QED BY <2>2, <2>3
<1>6. DOMAIN accounts' = DOMAIN account_indices'
  <2>1. DOMAIN accounts' = DOMAIN accounts \cup ids
    <3> HIDE DEF Slots, LastSlot, ids
    <3> QED BY <1>1
  <2>2. \A id \in ids : id \in DOMAIN account_indices'
    BY <1>4 DEF Indexed
  <2>3. \A id \in DOMAIN account_indices' : id \in ids
    BY <1>4 DEF Indexed
  <2> HIDE DEF ids
  <2> QED BY <2>1, <2>2, <2>3
<1>7. ASSUME NEW id \in DOMAIN account_indices'
      PROVE  accounts'[id] = account_states'[account_indices'[id] + 1].entry
  <2> DEFINE i == account_indices'[id] + 1
  <2>1. i \in DOMAIN refreshed /\ refreshed[i].entry.account_id = id
    BY <1>4 DEF Indexed
  <2>2. Slots(id) = {i} /\ LastSlot(id) = i
    BY <2>1, <1>5
  <2>3. id \in DOMAIN accounts \cup ids
    BY <2>1
  <2> HIDE DEF i, Slots, LastSlot, ids
  <2>4. accounts'[id] = refreshed[i].entry
    BY <2>2, <2>3, <1>1
  <2> QED BY <2>4, <1>1 DEF i
<1>8. AccountsTypeOK'
  <2>1. \A id \in DOMAIN accounts' : accounts'[id] \in PrivateAccountEntry
    <3> TAKE id \in DOMAIN accounts'
    <3>1. account_indices'[id] + 1 \in DOMAIN account_states'
      BY <1>1, <1>4, <1>6 DEF Indexed
    <3>2. account_states'[account_indices'[id] + 1] \in AccountState
      BY <3>1, <1>1, <1>3
    <3> QED BY <3>2, <1>6, <1>7 DEF AccountState
  <2>2. accounts' \in [DOMAIN accounts' -> PrivateAccountEntry]
    <3> HIDE DEF Slots, LastSlot, ids
    <3> QED BY <2>1, <1>1
  <2> QED BY <2>2, <1>1, <1>3, <1>6 DEF AccountsTypeOK
<1>9. AccountsIndexed' /\ AccountsMirrored'
  BY <1>1, <1>4, <1>6, <1>7 DEF Indexed, AccountsIndexed, AccountsMirrored
<1> QED BY <1>1, <1>3, <1>8, <1>9 DEF AccountsInv

(* A changed balance leaves every entry where it is. *)
LEMMA BalanceSet ==
  ASSUME NEW states \in Seq(AccountState), NEW i \in DOMAIN states, NEW amount \in Amount
  PROVE  LET changed == [states EXCEPT ![i].balance = amount]
         IN  /\ changed \in Seq(AccountState)
             /\ DOMAIN changed = DOMAIN states
             /\ \A j \in DOMAIN states :
                  /\ changed[j].entry = states[j].entry
                  /\ changed[j].balance = IF j = i THEN amount ELSE states[j].balance
<1> DEFINE slot == [states[i] EXCEPT !.balance = amount]
           changed == [states EXCEPT ![i].balance = amount]
<1>1. slot \in AccountState /\ slot.entry = states[i].entry /\ slot.balance = amount
  <2>1. states[i] \in AccountState
    OBVIOUS
  <2> QED BY <2>1 DEF AccountState
<1>2. changed = [states EXCEPT ![i] = slot]
  OBVIOUS
<1> HIDE DEF slot, changed
<1>3. /\ changed \in Seq(AccountState)
      /\ DOMAIN changed = DOMAIN states
      /\ \A j \in DOMAIN states : changed[j] = IF j = i THEN slot ELSE states[j]
  BY <1>1, <1>2
<1> QED BY <1>1, <1>3 DEF changed

LEMMA Rebalanced ==
  ASSUME NEW states \in Seq(AccountState), NEW i \in DOMAIN states,
         NEW amount \in Amount, NEW indices, Indexed(states, indices)
  PROVE  LET changed == [states EXCEPT ![i].balance = amount]
         IN  /\ changed \in Seq(AccountState)
             /\ DOMAIN changed = DOMAIN states
             /\ Indexed(changed, indices)
             /\ \A j \in DOMAIN states :
                  changed[j].balance = IF j = i THEN amount ELSE states[j].balance
<1> DEFINE changed == [states EXCEPT ![i].balance = amount]
<1>1. /\ changed \in Seq(AccountState)
      /\ DOMAIN changed = DOMAIN states
      /\ \A j \in DOMAIN states :
           /\ changed[j].entry = states[j].entry
           /\ changed[j].balance = IF j = i THEN amount ELSE states[j].balance
  BY BalanceSet
<1> HIDE DEF changed
<1>2. Indexed(changed, indices)
  BY <1>1 DEF Indexed
<1> QED BY <1>1, <1>2 DEF changed

(* So does a transfer, between two accounts or from one to itself. *)
LEMMA Moved ==
  ASSUME NEW sender \in Nat, NEW receiver \in Nat, NEW value \in Amount,
         AccountsTypeOK, AccountsIndexed,
         sender + 1 \in DOMAIN account_states,
         receiver + 1 \in DOMAIN account_states,
         account_states[sender + 1].balance >= value
  PROVE  /\ MoveBalance(sender, receiver, value) \in Seq(AccountState)
         /\ Indexed(MoveBalance(sender, receiver, value), account_indices)
         /\ DOMAIN MoveBalance(sender, receiver, value) = DOMAIN account_states
         /\ \A i \in DOMAIN account_states :
              LET debited == IF i = sender + 1 THEN account_states[i].balance - value
                             ELSE account_states[i].balance
              IN  MoveBalance(sender, receiver, value)[i].balance =
                    IF i = receiver + 1 THEN Sum64(debited, value) ELSE debited
<1> DEFINE debited ==
             [account_states EXCEPT
                ![sender + 1].balance = account_states[sender + 1].balance - value]
           amount == Sum64(debited[receiver + 1].balance, value)
           credited == [debited EXCEPT ![receiver + 1].balance = amount]
<1>1. /\ account_states \in Seq(AccountState)
      /\ account_states[sender + 1] \in AccountState
      /\ Indexed(account_states, account_indices)
  BY DEF AccountsTypeOK, AccountsIndexed, Indexed
<1>2. account_states[sender + 1].balance - value \in Amount
  BY <1>1, Bounds DEF AccountState, Amount
<1>3. /\ debited \in Seq(AccountState)
      /\ DOMAIN debited = DOMAIN account_states
      /\ Indexed(debited, account_indices)
      /\ \A i \in DOMAIN account_states :
           debited[i].balance = IF i = sender + 1 THEN account_states[sender + 1].balance - value
                                ELSE account_states[i].balance
  BY <1>1, <1>2, Rebalanced
<1>4. MoveBalance(sender, receiver, value) = credited
  BY Zenon DEF MoveBalance
<1> HIDE DEF debited
<1>5. debited[receiver + 1].balance \in Nat
  <2>1. debited[receiver + 1] \in AccountState
    BY <1>3
  <2> QED BY <2>1, Bounds DEF AccountState, Amount
<1>6. value \in Nat
  BY Bounds DEF Amount
<1>7. amount \in Amount
  BY <1>5, <1>6, Sum64Type
<1> HIDE DEF amount
<1>8. /\ credited \in Seq(AccountState)
      /\ DOMAIN credited = DOMAIN debited
      /\ Indexed(credited, account_indices)
      /\ \A i \in DOMAIN debited :
           credited[i].balance = IF i = receiver + 1 THEN amount ELSE debited[i].balance
  <2>1. receiver + 1 \in DOMAIN debited
    BY <1>3
  <2> QED BY <2>1, <1>3, <1>7, Rebalanced
<1> QED BY <1>3, <1>4, <1>8 DEF amount
-----------------------------------------------------------------------------
(* Roots. *)

LEMMA ReferenceType ==
  ASSUME NEW epoch \in EpochNumber, NEW version \in RootVersion
  PROVE  /\ MakeRoot(epoch, version) \in Root
         /\ Reference(epoch, version) \in RootReference
BY DEF MakeRoot, Root, Reference, RootReference, MerkleRoot

(* AllocateNextRoot keeps the roots in order, in the epoch it leaves the   *)
(* oracle in: the current one with its list, or another with an empty list.*)
LEMMA AllocateRoot ==
  ASSUME RootsInv, current_epoch \in EpochNumber, HasRoom(1),
         NEW epoch \in EpochNumber, epoch <= current_epoch + 1,
         NEW keys,
         keys = << >> \/ (keys = current_epoch_root_keys /\ epoch = current_epoch),
         AllocateNextRoot(epoch, keys),
         current_epoch' = epoch
  PROVE  /\ RootsInv'
         /\ Reference(epoch, root_version + 1) \in RootReference
         /\ root_version' = root_version + 1
         /\ current_root' = Reference(epoch, root_version + 1)
<1> DEFINE next == Reference(epoch, root_version + 1)
<1>1. /\ root_version' = root_version + 1
      /\ valid_roots' = Put(valid_roots, next.root, next)
      /\ current_epoch_root_keys' = Append(keys, next.root)
      /\ current_root' = next
  BY DEF AllocateNextRoot, NextRoot, RecordRoot, ListRoot
<1>2. root_version \in Nat /\ root_version + 1 \in RootVersion
  BY Bounds DEF RootsInv, RootsTypeOK, RootVersion, HasRoom
<1>3. /\ next \in RootReference
      /\ next.root \in Root
      /\ next.root = MakeRoot(epoch, root_version + 1)
      /\ next.root.e = epoch
      /\ next.root.v = root_version + 1
      /\ next = Reference(next.root.e, next.root.v)
  BY <1>2, ReferenceType DEF Reference, MakeRoot
<1> HIDE DEF next
<1>4. next.root \notin DOMAIN valid_roots
  BY <1>2, <1>3 DEF RootsInv, RootsRecorded
<1>5. /\ DOMAIN valid_roots' = DOMAIN valid_roots \cup {next.root}
      /\ valid_roots'[next.root] = next
      /\ \A root \in DOMAIN valid_roots : valid_roots'[root] = valid_roots[root]
      /\ valid_roots' \in [DOMAIN valid_roots' -> RootReference]
  BY <1>1, <1>3, <1>4 DEF Put, RootsInv, RootsTypeOK
<1>6. keys \in Seq(Root) /\ Len(keys) \in Nat /\ DOMAIN keys = 1 .. Len(keys)
  <2>1. current_epoch_root_keys \in Seq(Root) /\ << >> \in Seq(Root)
    BY DEF RootsInv, RootsTypeOK
  <2>2. keys \in Seq(Root)
    BY <2>1
  <2> QED BY <2>2
<1>7. RootsTypeOK'
  BY <1>1, <1>2, <1>3, <1>5, <1>6 DEF RootsInv, RootsTypeOK
<1>8. RootsRecorded'
  <2>1. ASSUME NEW root \in DOMAIN valid_roots'
        PROVE  valid_roots'[root] = Reference(root.e, root.v) /\ root.v \in 1 .. root_version'
    BY <1>1, <1>2, <1>3, <1>5 DEF RootsInv, RootsRecorded
  <2>2. ASSUME NEW version \in 1 .. root_version'
        PROVE  \E root \in DOMAIN valid_roots' : root.v = version
    BY <1>1, <1>2, <1>3, <1>5 DEF RootsInv, RootsRecorded
  <2>3. ASSUME NEW r1 \in DOMAIN valid_roots', NEW r2 \in DOMAIN valid_roots', r1.v = r2.v
        PROVE  r1 = r2
    BY <2>3, <1>1, <1>2, <1>3, <1>5 DEF RootsInv, RootsRecorded
  <2> QED BY <2>1, <2>2, <2>3 DEF RootsRecorded
<1>9. RootsListed'
  <2>1. /\ Len(current_epoch_root_keys') = Len(keys) + 1
        /\ DOMAIN current_epoch_root_keys' = 1 .. Len(keys) + 1
        /\ current_epoch_root_keys'[Len(keys) + 1] = next.root
        /\ \A i \in 1 .. Len(keys) : current_epoch_root_keys'[i] = keys[i]
    BY <1>1, <1>3, <1>6
  <2>2. Len(keys) <= root_version
    BY <1>2, <1>6 DEF RootsInv, RootsListed
  <2>3. \A i \in 1 .. Len(keys) :
          /\ keys[i] \in DOMAIN valid_roots
          /\ keys[i] = MakeRoot(epoch, root_version - Len(keys) + i)
    BY <1>6 DEF RootsInv, RootsListed
  <2>4. ASSUME NEW i \in DOMAIN current_epoch_root_keys'
        PROVE  /\ current_epoch_root_keys'[i] \in DOMAIN valid_roots'
               /\ current_epoch_root_keys'[i] =
                    MakeRoot(current_epoch', root_version' - Len(current_epoch_root_keys') + i)
    <3>1. root_version' - Len(current_epoch_root_keys') + i = root_version - Len(keys) + i
      BY <1>1, <1>2, <1>6, <2>1
    <3>2. CASE i = Len(keys) + 1
      <4>1. root_version - Len(keys) + i = root_version + 1
        BY <3>2, <1>2, <1>6
      <4> QED BY <3>1, <3>2, <4>1, <2>1, <1>3, <1>5
    <3>3. CASE i \in 1 .. Len(keys)
      BY <3>1, <3>3, <2>1, <2>3, <1>5
    <3> QED BY <3>2, <3>3, <2>1, <1>6
  <2>5. current_epoch_root_keys' # << >>
    BY <2>1, <1>6
  <2> QED BY <1>1, <1>2, <1>6, <2>1, <2>2, <2>4, <2>5 DEF RootsListed, next
<1>10. EpochsHaveRoots'
  <2>1. ASSUME NEW e \in 0 .. epoch
        PROVE  \E root \in DOMAIN valid_roots' : root.e = e
    <3>1. CASE e = epoch
      BY <3>1, <1>3, <1>5
    <3>2. CASE e # epoch
      <4>1. e \in 0 .. current_epoch
        BY <3>2, Bounds DEF EpochNumber
      <4> QED BY <4>1, <1>5 DEF RootsInv, EpochsHaveRoots
    <3> QED BY <3>1, <3>2
  <2> QED BY <2>1 DEF EpochsHaveRoots
<1> QED BY <1>1, <1>3, <1>7, <1>8, <1>9, <1>10 DEF RootsInv, next
-----------------------------------------------------------------------------
(* The calls. *)

(* What the action properties ask of a step. *)
StepOK ==
  /\ KeepsIndices
  /\ CommitsBalances
  /\ StampsEntries
  /\ ~ok' => UNCHANGED ledgerVars

LEMMA InitInv == Init => Inv
<1> SUFFICES ASSUME Init PROVE Inv
  OBVIOUS
<1>1. /\ 0 \in EpochNumber /\ 1 \in RootVersion
      /\ MakeRoot(0, 1) \in Root /\ Reference(0, 1) \in RootReference
      /\ MakeRoot(0, 1).e = 0 /\ MakeRoot(0, 1).v = 1
  <2>1. 0 \in EpochNumber /\ 1 \in RootVersion
    BY Bounds DEF EpochNumber, RootVersion
  <2> QED BY <2>1, ReferenceType DEF MakeRoot
<1>2. AccountsInv
  <2>1. /\ DOMAIN accounts = {} /\ accounts \in [{} -> PrivateAccountEntry]
        /\ DOMAIN account_indices = {} /\ account_indices \in [{} -> Nat]
    BY DEF Init
  <2>2. account_states \in Seq(AccountState) /\ DOMAIN account_states = {}
    BY DEF Init
  <2> QED BY <2>1, <2>2 DEF AccountsInv, AccountsTypeOK, AccountsIndexed, AccountsMirrored
<1>3. RootsInv
  <2>1. /\ DOMAIN valid_roots = {MakeRoot(0, 1)}
        /\ valid_roots[MakeRoot(0, 1)] = Reference(0, 1)
        /\ valid_roots \in [{MakeRoot(0, 1)} -> RootReference]
    BY <1>1 DEF Init
  <2>2. /\ current_epoch_root_keys \in Seq(Root)
        /\ DOMAIN current_epoch_root_keys = 1 .. 1
        /\ Len(current_epoch_root_keys) = 1
        /\ current_epoch_root_keys[1] = MakeRoot(0, 1)
        /\ current_epoch_root_keys # << >>
    BY <1>1 DEF Init
  <2>3. root_version = 1 /\ current_epoch = 0 /\ current_root = Reference(0, 1)
    BY DEF Init
  <2>4. RootsTypeOK
    BY <1>1, <2>1, <2>2, <2>3 DEF RootsTypeOK
  <2>5. RootsRecorded
    BY <1>1, <2>1, <2>3 DEF RootsRecorded
  <2>6. RootsListed
    BY <1>1, <2>1, <2>2, <2>3 DEF RootsListed
  <2>7. EpochsHaveRoots
    BY <1>1, <2>1, <2>3 DEF EpochsHaveRoots
  <2> QED BY <2>4, <2>5, <2>6, <2>7 DEF RootsInv
<1>4. PrfInv
  BY DEF Init, PrfInv, PrfTypeOK, PrfOutputsTracked
<1>5. ControlInv
  BY <1>1, Bounds DEF Init, ControlInv
<1> QED BY <1>2, <1>3, <1>4, <1>5 DEF Inv

(* A step that leaves the ledger alone. *)
LEMMA LedgerUnchanged ==
  ASSUME Inv, UNCHANGED ledgerVars
  PROVE  AccountsInv' /\ RootsInv' /\ PrfInv' /\ KeepsIndices /\ CommitsBalances /\ StampsEntries
<1>1. AccountsInv' /\ KeepsIndices /\ CommitsBalances
  BY DEF Inv, ledgerVars, accountVars, AccountsInv, AccountsTypeOK, AccountsIndexed,
         AccountsMirrored, KeepsIndices, CommitsBalances
<1>2. RootsInv' /\ StampsEntries
  BY DEF Inv, ledgerVars, rootVars, RootsInv, RootsTypeOK, RootsRecorded, RootsListed,
         EpochsHaveRoots, StampsEntries
<1>3. PrfInv'
  BY DEF Inv, ledgerVars, prfVars, PrfInv, PrfTypeOK, PrfOutputsTracked
<1> QED BY <1>1, <1>2, <1>3

(* A rejected call. *)
LEMMA RejectedStep ==
  ASSUME Inv, Rejected
  PROVE  Inv' /\ StepOK
<1>1. UNCHANGED ledgerVars /\ UNCHANGED goal /\ ok' = FALSE
  BY DEF Rejected
<1>2. ControlInv'
  BY <1>1 DEF Inv, ControlInv, ledgerVars
<1> QED BY <1>1, <1>2, LedgerUnchanged DEF Inv, StepOK

(* The loop starts: only the goal is set. *)
LEMMA StartLoopStep ==
  ASSUME Inv, NEW epoch \in EpochNumber, StartLoop(epoch)
  PROVE  Inv' /\ StepOK
<1>1. UNCHANGED ledgerVars /\ goal' = epoch /\ epoch > current_epoch /\ ok' = TRUE
  BY DEF StartLoop
<1>2. ControlInv'
  BY <1>1, Bounds DEF Inv, ControlInv, ledgerVars, EpochNumber
<1> QED BY <1>1, <1>2, LedgerUnchanged DEF Inv, StepOK

(* A commit of new or changed states, by Register, Mint and Transfer. *)
LEMMA CommitStep ==
  ASSUME AccountsInv, RootsInv, current_epoch \in EpochNumber,
         NEW states \in Seq(AccountState),
         DOMAIN account_indices' \subseteq AccountIds,
         account_indices' \in [DOMAIN account_indices' -> Nat],
         \A id \in DOMAIN account_indices :
           id \in DOMAIN account_indices' /\ account_indices'[id] = account_indices[id],
         Indexed(states, account_indices'),
         CommitStates(states),
         current_epoch' = current_epoch
  PROVE  AccountsInv' /\ RootsInv' /\ KeepsIndices /\ CommitsBalances /\ StampsEntries
<1> DEFINE next == Reference(current_epoch, root_version + 1)
<1>1. /\ RootsInv'
      /\ next \in RootReference
      /\ root_version' = root_version + 1
      /\ current_root' = next
  <2>1. /\ HasRoom(1)
        /\ AllocateNextRoot(current_epoch, current_epoch_root_keys)
    BY DEF CommitStates
  <2>2. current_epoch <= current_epoch + 1
    BY Bounds DEF EpochNumber
  <2> QED BY <2>1, <2>2, AllocateRoot
<1>2. RefreshAllAccountRoots(states, next)
  BY DEF CommitStates, NextRoot
<1>3. next.epoch = current_epoch
  BY DEF Reference
<1> HIDE DEF next
<1>4. DOMAIN accounts \subseteq DOMAIN account_indices'
  BY DEF AccountsInv, AccountsMirrored
<1>5. /\ AccountsInv'
      /\ DOMAIN account_states' = DOMAIN states
      /\ \A i \in DOMAIN states :
           /\ account_states'[i].entry.epoch = next.epoch
           /\ account_states'[i].entry.inclusion_root = next.root
  BY <1>1, <1>2, <1>4, RefreshAccounts DEF AccountsInv
<1>6. StampsEntries
  BY <1>1, <1>3, <1>5 DEF StampsEntries, AccountsInv, AccountsMirrored
<1>7. KeepsIndices
  BY <1>5 DEF KeepsIndices, AccountsInv, AccountsIndexed
<1>8. root_version' # root_version
  BY <1>1 DEF RootsInv, RootsTypeOK, RootVersion
<1> QED BY <1>1, <1>5, <1>6, <1>7, <1>8 DEF CommitsBalances

(* An epoch transition, forwards by one or backwards. *)
LEMMA TransitionStep ==
  ASSUME Inv, NEW epoch \in EpochNumber, epoch <= current_epoch + 1, HasRoom(1),
         ApplyEpochTransition(epoch)
  PROVE  /\ AccountsInv' /\ RootsInv' /\ PrfInv'
         /\ KeepsIndices /\ CommitsBalances /\ StampsEntries
<1> DEFINE next == Reference(epoch, root_version + 1)
<1>1. /\ current_epoch' = epoch
      /\ AllocateNextRoot(epoch, << >>)
      /\ RefreshAllAccountRoots(account_states, next)
      /\ UNCHANGED account_indices
  BY DEF ApplyEpochTransition, NextRoot, ClearedRootKeys
<1>2. /\ RootsInv'
      /\ next \in RootReference
      /\ root_version' = root_version + 1
      /\ current_root' = next
  <2>1. RootsInv /\ current_epoch \in EpochNumber
    BY DEF Inv, ControlInv
  <2> QED BY <1>1, <2>1, AllocateRoot
<1>3. next.epoch = epoch
  BY DEF Reference
<1> HIDE DEF next
<1>4. /\ AccountsTypeOK
      /\ account_states \in Seq(AccountState)
      /\ DOMAIN account_indices \subseteq AccountIds
      /\ account_indices \in [DOMAIN account_indices -> Nat]
      /\ Indexed(account_states, account_indices)
      /\ DOMAIN accounts = DOMAIN account_indices
  BY DEF Inv, AccountsInv, AccountsTypeOK, AccountsIndexed, AccountsMirrored, Indexed
<1>5. /\ AccountsInv'
      /\ DOMAIN account_states' = DOMAIN account_states
      /\ \A i \in DOMAIN account_states :
           /\ account_states'[i].entry.epoch = next.epoch
           /\ account_states'[i].entry.inclusion_root = next.root
  BY <1>1, <1>2, <1>4, RefreshAccounts
<1>6. StampsEntries
  BY <1>1, <1>2, <1>3, <1>5 DEF StampsEntries, AccountsInv, AccountsMirrored
<1>7. KeepsIndices
  BY <1>1, <1>5 DEF KeepsIndices, AccountsInv, AccountsIndexed
<1>8. CommitsBalances
  BY <1>2 DEF CommitsBalances, Inv, RootsInv, RootsTypeOK, RootVersion
<1>9. PrfInv'
  BY DEF ApplyEpochTransition, ForgetPrfOutputs, PrfInv, PrfTypeOK, PrfOutputsTracked
<1> QED BY <1>2, <1>5, <1>6, <1>7, <1>8, <1>9

(* Arguments with the types of the state they end up in. *)
TypedEntry(entry) ==
  entry.account_id # "" \/ entry.account_id \in AccountIds => entry \in PrivateAccountEntry

TypedRequest(request) ==
  request.account_id # "" => request.account_id \in AccountIds /\ request.payload \in Payloads

TypedMint(mint) ==
  mint.recipient_index \in Nat /\ mint.value \in Amount /\ mint.prf_output \in PRFOutputs

TypedTransfer(transfer) ==
  /\ transfer.sender_index \in Nat /\ transfer.receiver_index \in Nat
  /\ transfer.value \in Amount /\ transfer.prf_output \in PRFOutputs

(* Any such call: what is proved of these holds for the callers of Next,   *)
(* and for callers who pass something else.                                *)
TypedCall ==
  \/ \E entry : TypedEntry(entry) /\ UpsertAccount(entry)
  \/ \E request : TypedRequest(request) /\ Register(request)
  \/ \E mint : TypedMint(mint) /\ Mint(mint)
  \/ \E transfer : TypedTransfer(transfer) /\ Transfer(transfer)
  \/ AdvanceEpoch
  \/ \E epoch \in EpochNumber : AdvanceToEpoch(epoch)
  \/ \E epoch \in EpochNumber : set_current_epoch(epoch)
  \/ AdvanceStep

LEMMA CallerTypes ==
  /\ \A entry \in Entries : TypedEntry(entry)
  /\ \A request \in Requests : TypedRequest(request)
  /\ \A mint \in Mints : TypedMint(mint)
  /\ \A transfer \in Transfers : TypedTransfer(transfer)
<1>1. /\ CallerIds \subseteq AccountIds \cup {""}
      /\ CallerEpochs \subseteq EpochNumber
      /\ CallerIndices \subseteq Nat
      /\ CallerValues \subseteq Amount
  BY ConstantsAssumption, Zenon DEF ConstantsAssumption
<1>2. ASSUME NEW entry \in Entries,
             entry.account_id # "" \/ entry.account_id \in AccountIds
      PROVE  entry \in PrivateAccountEntry
  <2>1. entry.account_id \in AccountIds
    BY <1>1, <1>2 DEF Entries
  <2> QED BY <1>1, <2>1 DEF Entries, PrivateAccountEntry, MerkleRoot
<1>3. ASSUME NEW request \in Requests
      PROVE  TypedRequest(request)
  BY <1>1 DEF Requests, TypedRequest
<1>4. ASSUME NEW mint \in Mints
      PROVE  TypedMint(mint)
  BY <1>1 DEF Mints, TypedMint
<1>5. ASSUME NEW transfer \in Transfers
      PROVE  TypedTransfer(transfer)
  BY <1>1 DEF Transfers, TypedTransfer
<1> QED BY <1>2, <1>3, <1>4, <1>5 DEF TypedEntry

LEMMA CallsAreTyped == Next => TypedCall
<1>1. CASE \E entry \in Entries : UpsertAccount(entry)
  BY <1>1, CallerTypes, Zenon DEF TypedCall
<1>2. CASE \E request \in Requests : Register(request)
  BY <1>2, CallerTypes, Zenon DEF TypedCall
<1>3. CASE \E mint \in Mints : Mint(mint)
  BY <1>3, CallerTypes, Zenon DEF TypedCall
<1>4. CASE \E transfer \in Transfers : Transfer(transfer)
  BY <1>4, CallerTypes, Zenon DEF TypedCall
<1> QED BY <1>1, <1>2, <1>3, <1>4, Zenon DEF Next, TypedCall

(* A new account, as UpsertAccount and Register append it. *)
LEMMA NewAccount ==
  ASSUME AccountsTypeOK, AccountsIndexed,
         NEW entry \in PrivateAccountEntry, entry.account_id \notin DOMAIN account_indices,
         account_indices' = Put(account_indices, entry.account_id, NewIndex)
  PROVE  LET states == Append(account_states, [entry |-> entry, balance |-> 0])
         IN  /\ states \in Seq(AccountState)
             /\ DOMAIN states = 1 .. Len(account_states) + 1
             /\ \A i \in DOMAIN account_states : i \in DOMAIN states /\ states[i] = account_states[i]
             /\ states[Len(account_states) + 1].entry = entry
             /\ Indexed(states, account_indices')
             /\ DOMAIN account_indices' = DOMAIN account_indices \cup {entry.account_id}
             /\ DOMAIN account_indices' \subseteq AccountIds
             /\ account_indices' \in [DOMAIN account_indices' -> Nat]
             /\ account_indices'[entry.account_id] = Len(account_states)
             /\ \A id \in DOMAIN account_indices : account_indices'[id] = account_indices[id]
<1> DEFINE state == [entry |-> entry, balance |-> 0]
<1>1. state \in AccountState /\ state.entry = entry
  BY Bounds DEF AccountState, Amount
<1> HIDE DEF state
<1>2. account_states \in Seq(AccountState) /\ Indexed(account_states, account_indices)
  BY DEF AccountsTypeOK, AccountsIndexed, Indexed
<1>3. Indexed(Append(account_states, state),
              Put(account_indices, state.entry.account_id, Len(account_states)))
  BY <1>1, <1>2, AppendIndexed
<1>4. account_indices' = Put(account_indices, state.entry.account_id, Len(account_states))
  BY <1>1 DEF NewIndex
<1>5. /\ Append(account_states, state) \in Seq(AccountState)
      /\ DOMAIN Append(account_states, state) = 1 .. Len(account_states) + 1
      /\ DOMAIN account_states = 1 .. Len(account_states)
      /\ Len(account_states) \in Nat
      /\ \A i \in DOMAIN account_states : Append(account_states, state)[i] = account_states[i]
      /\ Append(account_states, state)[Len(account_states) + 1] = state
  BY <1>1, <1>2
<1>6. /\ DOMAIN account_indices' = DOMAIN account_indices \cup {entry.account_id}
      /\ account_indices'[entry.account_id] = Len(account_states)
      /\ \A id \in DOMAIN account_indices : account_indices'[id] = account_indices[id]
      /\ account_indices' \in [DOMAIN account_indices' -> Nat]
  BY <1>1, <1>4, <1>5 DEF Put, AccountsTypeOK
<1>7. DOMAIN account_indices' \subseteq AccountIds
  BY <1>6 DEF AccountsTypeOK, PrivateAccountEntry
<1> QED BY <1>1, <1>3, <1>4, <1>5, <1>6, <1>7 DEF state

LEMMA UpsertStep ==
  ASSUME Inv, NEW entry, TypedEntry(entry), UpsertAccount(entry)
  PROVE  Inv' /\ StepOK
<1> DEFINE id == entry.account_id
<1>1. CASE entry.account_id = "" /\ Rejected
  BY <1>1, RejectedStep
<1>2. CASE /\ Accepted
           /\ accounts' = Put(accounts, id, entry)
           /\ UNCHANGED <<rootVars, prfVars, current_epoch, goal>>
           /\ entry \in PrivateAccountEntry
           /\ \/ /\ HasAccountIndex(id)
                 /\ account_states' = ReplaceEntry(account_indices[id], entry)
                 /\ UNCHANGED account_indices
              \/ /\ ~HasAccountIndex(id)
                 /\ account_states' = Append(account_states, [entry |-> entry, balance |-> 0])
                 /\ account_indices' = Put(account_indices, id, NewIndex)
  <2>1. RootsInv' /\ StampsEntries
    BY <1>2 DEF Inv, rootVars, RootsInv, RootsTypeOK, RootsRecorded, RootsListed,
                EpochsHaveRoots, StampsEntries
  <2>2. PrfInv'
    BY <1>2 DEF Inv, prfVars, PrfInv, PrfTypeOK, PrfOutputsTracked
  <2>3. ControlInv' /\ ok' = TRUE
    BY <1>2 DEF Inv, ControlInv, Accepted
  <2>4. /\ AccountsTypeOK /\ AccountsIndexed /\ AccountsMirrored
        /\ account_states \in Seq(AccountState)
        /\ DOMAIN account_states = 1 .. Len(account_states)
        /\ Len(account_states) \in Nat
    BY DEF Inv, AccountsInv, AccountsTypeOK
  <2>5. /\ DOMAIN accounts' = DOMAIN accounts \cup {id}
        /\ accounts'[id] = entry
        /\ \A k \in DOMAIN accounts : k # id => accounts'[k] = accounts[k]
        /\ accounts' \in [DOMAIN accounts' -> PrivateAccountEntry]
        /\ DOMAIN accounts' \subseteq AccountIds
    BY <1>2, <2>4 DEF Put, AccountsTypeOK, PrivateAccountEntry
  <2>6. AccountsInv' /\ KeepsIndices /\ CommitsBalances
    <3>1. CASE /\ HasAccountIndex(id)
               /\ account_states' = ReplaceEntry(account_indices[id], entry)
               /\ UNCHANGED account_indices
      <4> DEFINE slot == account_indices[id] + 1
      <4>1. /\ slot \in DOMAIN account_states
            /\ account_states[slot].entry.account_id = id
            /\ account_states[slot] \in AccountState
        BY <3>1, <2>4 DEF HasAccountIndex, AccountsIndexed
      <4>2. account_states' = [account_states EXCEPT ![slot].entry = entry]
        BY <3>1 DEF ReplaceEntry
      <4>3. /\ DOMAIN account_states' = DOMAIN account_states
            /\ account_states'[slot] = [account_states[slot] EXCEPT !.entry = entry]
            /\ \A i \in DOMAIN account_states : i # slot => account_states'[i] = account_states[i]
        BY <4>1, <4>2
      <4>4. /\ [account_states[slot] EXCEPT !.entry = entry] \in AccountState
            /\ [account_states[slot] EXCEPT !.entry = entry].entry = entry
            /\ [account_states[slot] EXCEPT !.entry = entry].balance = account_states[slot].balance
        BY <1>2, <4>1 DEF AccountState
      <4>5. account_states' \in Seq(AccountState)
        BY <4>1, <4>2, <4>4, <2>4
      <4> HIDE DEF slot
      <4>6. AccountsTypeOK'
        BY <3>1, <2>4, <2>5, <4>5 DEF AccountsTypeOK
      <4>7. \A i \in DOMAIN account_states :
              /\ account_states'[i].entry.account_id = account_states[i].entry.account_id
              /\ account_states'[i].balance = account_states[i].balance
        BY <4>1, <4>3, <4>4
      <4>8. AccountsIndexed'
        BY <3>1, <4>3, <4>7, <2>4 DEF AccountsIndexed
      <4>9. AccountsMirrored'
        <5>1. DOMAIN accounts' = DOMAIN account_indices'
          BY <3>1, <2>4, <2>5 DEF AccountsMirrored, HasAccountIndex
        <5>2. ASSUME NEW k \in DOMAIN accounts'
              PROVE  accounts'[k] = account_states'[account_indices'[k] + 1].entry
          <6>1. CASE k = id
            BY <6>1, <3>1, <2>5, <4>3, <4>4 DEF slot
          <6>2. CASE k # id
            <7>1. k \in DOMAIN accounts /\ k \in DOMAIN account_indices
              BY <6>2, <5>1, <2>5, <3>1
            <7>2. /\ account_indices[k] + 1 \in DOMAIN account_states
                  /\ account_states[account_indices[k] + 1].entry.account_id = k
              BY <7>1, <2>4 DEF AccountsIndexed
            <7>3. account_indices[k] + 1 # slot
              BY <7>2, <4>1, <6>2
            <7> QED BY <6>2, <7>1, <7>2, <7>3, <3>1, <2>4, <2>5, <4>3 DEF AccountsMirrored
          <6> QED BY <6>1, <6>2
        <5> QED BY <5>1, <5>2 DEF AccountsMirrored
      <4>10. KeepsIndices
        BY <3>1, <4>8 DEF KeepsIndices, AccountsIndexed
      <4> QED BY <4>6, <4>7, <4>8, <4>9, <4>10 DEF AccountsInv, CommitsBalances
    <3>2. CASE /\ ~HasAccountIndex(id)
               /\ account_states' = Append(account_states, [entry |-> entry, balance |-> 0])
               /\ account_indices' = Put(account_indices, id, NewIndex)
      <4>1. /\ account_states' \in Seq(AccountState)
            /\ DOMAIN account_states' = 1 .. Len(account_states) + 1
            /\ \A i \in DOMAIN account_states :
                 i \in DOMAIN account_states' /\ account_states'[i] = account_states[i]
            /\ account_states'[Len(account_states) + 1].entry = entry
            /\ Indexed(account_states', account_indices')
            /\ DOMAIN account_indices' = DOMAIN account_indices \cup {id}
            /\ DOMAIN account_indices' \subseteq AccountIds
            /\ account_indices' \in [DOMAIN account_indices' -> Nat]
            /\ account_indices'[id] = Len(account_states)
            /\ \A k \in DOMAIN account_indices : account_indices'[k] = account_indices[k]
        BY <3>2, <1>2, <2>4, NewAccount DEF HasAccountIndex
      <4>2. AccountsTypeOK'
        BY <4>1, <2>5 DEF AccountsTypeOK
      <4>3. AccountsIndexed'
        BY <4>1 DEF Indexed, AccountsIndexed
      <4>4. AccountsMirrored'
        <5>1. DOMAIN accounts' = DOMAIN account_indices'
          BY <4>1, <2>4, <2>5 DEF AccountsMirrored
        <5>2. ASSUME NEW k \in DOMAIN accounts'
              PROVE  accounts'[k] = account_states'[account_indices'[k] + 1].entry
          <6>1. CASE k = id
            BY <6>1, <4>1, <2>5
          <6>2. CASE k # id
            <7>1. k \in DOMAIN accounts /\ k \in DOMAIN account_indices
              BY <6>2, <5>1, <2>5, <4>1
            <7>2. account_indices[k] + 1 \in DOMAIN account_states
              BY <7>1, <2>4 DEF AccountsIndexed
            <7> QED BY <6>2, <7>1, <7>2, <4>1, <2>4, <2>5 DEF AccountsMirrored
          <6> QED BY <6>1, <6>2
        <5> QED BY <5>1, <5>2 DEF AccountsMirrored
      <4>5. KeepsIndices
        BY <4>1, <4>3 DEF KeepsIndices, AccountsIndexed
      <4> QED BY <4>1, <4>2, <4>3, <4>4, <4>5 DEF AccountsInv, CommitsBalances
    <3> QED BY <3>1, <3>2, <1>2
  <2> QED BY <2>1, <2>2, <2>3, <2>6 DEF Inv, StepOK
<1>3. HasAccountIndex(id) => id \in AccountIds
  BY DEF HasAccountIndex, Inv, AccountsInv, AccountsTypeOK
<1> QED BY <1>1, <1>2, <1>3 DEF UpsertAccount, ValidateAccountId, TypedEntry

LEMMA RegisterStep ==
  ASSUME Inv, NEW request, TypedRequest(request), Register(request)
  PROVE  Inv' /\ StepOK
<1> DEFINE id == request.account_id
           entry == [account_id |-> request.account_id, payload |-> request.payload,
                     inclusion_root |-> NoRoot, epoch |-> current_epoch]
           states == Append(account_states, [entry |-> entry, balance |-> 0])
<1>1. CASE Rejected
  BY <1>1, RejectedStep
<1>2. CASE /\ id # ""
           /\ ~HasAccount(id)
           /\ account_indices' = Put(account_indices, id, NewIndex)
           /\ CommitStates(states)
           /\ Accepted
           /\ UNCHANGED <<prfVars, current_epoch, goal>>
  <2>1. /\ AccountsTypeOK /\ AccountsIndexed /\ AccountsInv /\ RootsInv
        /\ current_epoch \in EpochNumber
        /\ id \notin DOMAIN account_indices
    BY <1>2 DEF Inv, AccountsInv, AccountsMirrored, HasAccount, ControlInv
  <2>2. entry \in PrivateAccountEntry /\ entry.account_id = id
    <3>1. id \in AccountIds /\ request.payload \in Payloads
      BY <1>2 DEF TypedRequest
    <3> QED BY <3>1, <2>1 DEF PrivateAccountEntry, MerkleRoot
  <2> HIDE DEF entry, id
  <2>3. /\ states \in Seq(AccountState)
        /\ Indexed(states, account_indices')
        /\ DOMAIN account_indices' = DOMAIN account_indices \cup {id}
        /\ DOMAIN account_indices' \subseteq AccountIds
        /\ account_indices' \in [DOMAIN account_indices' -> Nat]
        /\ \A k \in DOMAIN account_indices : account_indices'[k] = account_indices[k]
    BY <1>2, <2>1, <2>2, NewAccount
  <2> HIDE DEF states
  <2>4. AccountsInv' /\ RootsInv' /\ KeepsIndices /\ CommitsBalances /\ StampsEntries
    BY <1>2, <2>1, <2>3, CommitStep
  <2>5. PrfInv' /\ ControlInv' /\ ok' = TRUE
    BY <1>2 DEF Inv, prfVars, PrfInv, PrfTypeOK, PrfOutputsTracked, ControlInv, Accepted
  <2> QED BY <2>4, <2>5 DEF Inv, StepOK
<1> QED BY <1>1, <1>2 DEF Register, ValidateAccountId

(* A fresh PRF output joins the replay set and the list. *)
LEMMA RecordPrf ==
  ASSUME PrfInv, NEW prf \in PRFOutputs, ValidateFreshPrfOutput(prf),
         RecordPrfOutput(prf)
  PROVE  PrfInv'
<1> DEFINE list == accepted_prf_outputs_in_current_epoch
<1>1. /\ list \in Seq(PRFOutputs) /\ Len(list) \in Nat /\ DOMAIN list = 1 .. Len(list)
      /\ prf \notin prf_outputs_in_current_epoch
      /\ prf_outputs_in_current_epoch' = prf_outputs_in_current_epoch \cup {prf}
  BY DEF PrfInv, PrfTypeOK, ValidateFreshPrfOutput, RecordPrfOutput, MarkUsed
<1>2. /\ list' \in Seq(PRFOutputs)
      /\ DOMAIN list' = 1 .. Len(list) + 1
      /\ list'[Len(list) + 1] = prf
      /\ \A i \in 1 .. Len(list) : list'[i] = list[i]
  BY <1>1 DEF RecordPrfOutput
<1>3. \A i \in 1 .. Len(list) : list[i] # prf
  BY <1>1 DEF PrfInv, PrfOutputsTracked
<1>4. prf_outputs_in_current_epoch' = {list'[i] : i \in DOMAIN list'}
  <2>1. prf_outputs_in_current_epoch = {list[i] : i \in 1 .. Len(list)}
    BY <1>1 DEF PrfInv, PrfOutputsTracked
  <2> HIDE DEF list
  <2>2. DOMAIN list' = 1 .. Len(list) \cup {Len(list) + 1}
    BY <1>1, <1>2
  <2> QED BY <1>1, <1>2, <2>1, <2>2
<1>5. \A i, j \in DOMAIN list' : list'[i] = list'[j] => i = j
  <2>1. \A i, j \in 1 .. Len(list) : list[i] = list[j] => i = j
    BY <1>1 DEF PrfInv, PrfOutputsTracked
  <2> HIDE DEF list
  <2> QED BY <1>1, <1>2, <1>3, <2>1
<1> QED BY <1>1, <1>2, <1>4, <1>5 DEF PrfInv, PrfTypeOK, PrfOutputsTracked

(* An accepted payment: the PRF output is recorded, balances are committed.*)
LEMMA PaymentStep ==
  ASSUME Inv, NEW prf \in PRFOutputs, ValidateFreshPrfOutput(prf),
         NEW states \in Seq(AccountState), Indexed(states, account_indices),
         Settle(prf, states)
  PROVE  Inv' /\ StepOK
<1>1. /\ AccountsInv /\ RootsInv /\ PrfInv
      /\ current_epoch \in EpochNumber
      /\ DOMAIN account_indices \subseteq AccountIds
      /\ account_indices \in [DOMAIN account_indices -> Nat]
  BY DEF Inv, AccountsInv, AccountsTypeOK, ControlInv
<1>2. AccountsInv' /\ RootsInv' /\ KeepsIndices /\ CommitsBalances /\ StampsEntries
  BY <1>1, CommitStep DEF Settle
<1>3. PrfInv'
  BY <1>1, RecordPrf DEF Settle
<1>4. ControlInv' /\ ok' = TRUE
  BY DEF Inv, ControlInv, Settle, Accepted
<1> QED BY <1>2, <1>3, <1>4 DEF Inv, StepOK

(* A valid index names a slot. *)
LEMMA ValidIndex ==
  ASSUME AccountsTypeOK, NEW index \in Nat, IsValidAccountIndex(index)
  PROVE  index + 1 \in DOMAIN account_states
<1>1. Len(account_states) \in Nat /\ DOMAIN account_states = 1 .. Len(account_states)
  BY DEF AccountsTypeOK
<1> QED BY <1>1 DEF IsValidAccountIndex

LEMMA MintStep ==
  ASSUME Inv, NEW mint, TypedMint(mint), Mint(mint)
  PROVE  Inv' /\ StepOK
<1> DEFINE slot == mint.recipient_index + 1
           amount == Sum64(account_states[slot].balance, mint.value)
           states == [account_states EXCEPT ![slot].balance = amount]
<1>1. CASE Rejected
  BY <1>1, RejectedStep
<1>2. CASE MintAccepted(mint) /\ Settle(mint.prf_output, states)
  <2>1. /\ mint.recipient_index \in Nat /\ mint.value \in Amount
        /\ mint.prf_output \in PRFOutputs
    BY DEF TypedMint
  <2>2. /\ AccountsTypeOK
        /\ account_states \in Seq(AccountState)
        /\ Indexed(account_states, account_indices)
    BY DEF Inv, AccountsInv, AccountsTypeOK, AccountsIndexed, Indexed
  <2>3. slot \in DOMAIN account_states
    BY <1>2, <2>1, <2>2, ValidIndex DEF MintAccepted
  <2>4. account_states[slot].balance \in Nat /\ mint.value \in Nat
    <3>1. account_states[slot] \in AccountState
      BY <2>2, <2>3
    <3> QED BY <3>1, <2>1, Bounds DEF AccountState, Amount
  <2>5. amount \in Amount
    BY <2>4, Sum64Type
  <2> HIDE DEF amount, slot
  <2>6. states \in Seq(AccountState) /\ Indexed(states, account_indices)
    BY <2>2, <2>3, <2>5, Rebalanced
  <2> HIDE DEF states
  <2>7. ValidateFreshPrfOutput(mint.prf_output)
    BY <1>2 DEF MintAccepted
  <2> QED BY <1>2, <2>1, <2>6, <2>7, PaymentStep
<1> QED BY <1>1, <1>2, Zenon DEF Mint

LEMMA TransferStep ==
  ASSUME Inv, NEW transfer, TypedTransfer(transfer), Transfer(transfer)
  PROVE  Inv' /\ StepOK
<1> DEFINE states == MoveBalance(transfer.sender_index, transfer.receiver_index, transfer.value)
<1>1. CASE Rejected
  BY <1>1, RejectedStep
<1>2. CASE TransferAccepted(transfer) /\ Settle(transfer.prf_output, states)
  <2>1. /\ transfer.sender_index \in Nat /\ transfer.receiver_index \in Nat
        /\ transfer.value \in Amount /\ transfer.prf_output \in PRFOutputs
    BY DEF TypedTransfer
  <2>2. AccountsTypeOK /\ AccountsIndexed
    BY DEF Inv, AccountsInv
  <2>3. /\ transfer.sender_index + 1 \in DOMAIN account_states
        /\ transfer.receiver_index + 1 \in DOMAIN account_states
        /\ account_states[transfer.sender_index + 1].balance >= transfer.value
        /\ ValidateFreshPrfOutput(transfer.prf_output)
    BY <1>2, <2>1, <2>2, ValidIndex DEF TransferAccepted, TransferValid
  <2>4. states \in Seq(AccountState) /\ Indexed(states, account_indices)
    BY <2>1, <2>2, <2>3, Moved
  <2> HIDE DEF states
  <2> QED BY <1>2, <2>1, <2>3, <2>4, PaymentStep
<1> QED BY <1>1, <1>2 DEF Transfer

LEMMA AdvanceEpochStep ==
  ASSUME Inv, AdvanceEpoch
  PROVE  Inv' /\ StepOK
<1>1. CASE Rejected
  BY <1>1, RejectedStep
<1>2. CASE /\ current_epoch < MaxEpoch
           /\ HasRoom(1)
           /\ ApplyEpochTransition(current_epoch + 1)
           /\ goal' = current_epoch + 1
           /\ Accepted
  <2>1. current_epoch + 1 \in EpochNumber /\ current_epoch + 1 <= current_epoch + 1
    BY <1>2, Bounds DEF Inv, ControlInv, EpochNumber
  <2>2. /\ AccountsInv' /\ RootsInv' /\ PrfInv'
        /\ KeepsIndices /\ CommitsBalances /\ StampsEntries
    BY <1>2, <2>1, TransitionStep
  <2>3. current_epoch' = current_epoch + 1
    BY <1>2 DEF ApplyEpochTransition
  <2>4. ControlInv' /\ ok' = TRUE
    BY <1>2, <2>1, <2>3, Bounds DEF ControlInv, Accepted, EpochNumber
  <2> QED BY <2>2, <2>4 DEF Inv, StepOK
<1> QED BY <1>1, <1>2 DEF AdvanceEpoch

LEMMA AdvanceToEpochStep ==
  ASSUME Inv, NEW epoch \in EpochNumber, AdvanceToEpoch(epoch)
  PROVE  Inv' /\ StepOK
<1>1. CASE Rejected
  BY <1>1, RejectedStep
<1>2. CASE Accepted /\ UNCHANGED <<ledgerVars, goal>>
  <2>1. ControlInv' /\ ok' = TRUE
    BY <1>2 DEF Inv, ControlInv, Accepted, ledgerVars
  <2> QED BY <1>2, <2>1, LedgerUnchanged DEF Inv, StepOK
<1>3. CASE StartLoop(epoch)
  BY <1>3, StartLoopStep
<1> QED BY <1>1, <1>2, <1>3 DEF AdvanceToEpoch

(* HasRoom was checked for the whole loop when it started. *)
LEMMA AdvanceStepStep ==
  ASSUME Inv, RootRoom, AdvanceStep
  PROVE  Inv' /\ StepOK
<1>1. /\ current_epoch < goal /\ goal' = goal
      /\ ApplyEpochTransition(current_epoch + 1)
      /\ ok' = TRUE
  BY DEF AdvanceStep, LoopRuns, StepEpoch, Accepted
<1>2. /\ current_epoch \in EpochNumber /\ goal \in current_epoch .. MaxEpoch
      /\ root_version \in RootVersion
  BY DEF Inv, ControlInv, RootsInv, RootsTypeOK
<1>3. /\ current_epoch + 1 \in EpochNumber /\ current_epoch + 1 <= current_epoch + 1
      /\ HasRoom(1)
  BY <1>1, <1>2, Bounds DEF EpochNumber, RootVersion, RootRoom, HasRoom
<1>4. /\ AccountsInv' /\ RootsInv' /\ PrfInv'
      /\ KeepsIndices /\ CommitsBalances /\ StampsEntries
  BY <1>1, <1>3, TransitionStep
<1>5. ControlInv'
  BY <1>1, <1>2, <1>3, Bounds DEF ControlInv, ApplyEpochTransition, EpochNumber
<1> QED BY <1>1, <1>4, <1>5 DEF Inv, StepOK

LEMMA SetCurrentEpochStep ==
  ASSUME Inv, NEW epoch \in EpochNumber, set_current_epoch(epoch)
  PROVE  Inv' /\ StepOK
<1>1. CASE StartLoop(epoch)
  BY <1>1, StartLoopStep
<1>2. CASE /\ epoch < current_epoch
           /\ HasRoom(1)
           /\ ApplyEpochTransition(epoch)
           /\ goal' = epoch
           /\ Accepted
  <2>1. epoch <= current_epoch + 1
    BY <1>2, Bounds DEF Inv, ControlInv, EpochNumber
  <2>2. /\ AccountsInv' /\ RootsInv' /\ PrfInv'
        /\ KeepsIndices /\ CommitsBalances /\ StampsEntries
    BY <1>2, <2>1, TransitionStep
  <2>3. ControlInv' /\ ok' = TRUE
    BY <1>2, Bounds DEF ControlInv, Accepted, ApplyEpochTransition, EpochNumber
  <2> QED BY <2>2, <2>3 DEF Inv, StepOK
<1> QED BY <1>1, <1>2 DEF set_current_epoch

LEMMA NextStep ==
  ASSUME Inv, RootRoom, TypedCall
  PROVE  Inv' /\ StepOK
<1>1. CASE \E entry : TypedEntry(entry) /\ UpsertAccount(entry)
  BY <1>1, UpsertStep
<1>2. CASE \E request : TypedRequest(request) /\ Register(request)
  BY <1>2, RegisterStep
<1>3. CASE \E mint : TypedMint(mint) /\ Mint(mint)
  BY <1>3, MintStep
<1>4. CASE \E transfer : TypedTransfer(transfer) /\ Transfer(transfer)
  BY <1>4, TransferStep
<1>5. CASE AdvanceEpoch
  BY <1>5, AdvanceEpochStep
<1>6. CASE \E epoch \in EpochNumber : AdvanceToEpoch(epoch)
  BY <1>6, AdvanceToEpochStep
<1>7. CASE \E epoch \in EpochNumber : set_current_epoch(epoch)
  BY <1>7, SetCurrentEpochStep
<1>8. CASE AdvanceStep
  BY <1>8, AdvanceStepStep
<1> QED BY <1>1, <1>2, <1>3, <1>4, <1>5, <1>6, <1>7, <1>8, Zenon DEF TypedCall

(* Every root made was reckoned with when the call started. *)
(* A call uses one version, and a loop has set aside what it needs.        *)
LEMMA RoomKept ==
  ASSUME root_version \in RootVersion, ControlInv, RootRoom, TypedCall
  PROVE  RootRoom'
<1>1. /\ root_version \in Nat /\ goal \in Nat /\ current_epoch \in Nat
      /\ MaxRootVersion \in Nat /\ MaxEpoch \in Nat
      /\ EpochNumber \subseteq Nat
  BY Bounds DEF RootVersion, ControlInv, EpochNumber
<1>2. CASE Rejected
  BY <1>2 DEF Rejected, RootRoom, ledgerVars, rootVars
<1>3. CASE UNCHANGED <<rootVars, current_epoch, goal>>
  BY <1>3 DEF RootRoom, rootVars
<1>4. CASE \E epoch \in EpochNumber : StartLoop(epoch)
  BY <1>4, <1>1 DEF StartLoop, HasRoom, RootRoom, ledgerVars, rootVars
<1>5. CASE Idle /\ UNCHANGED <<current_epoch, goal>> /\ \E states : CommitStates(states)
  BY <1>5, <1>1 DEF Idle, CommitStates, AllocateNextRoot, HasRoom, RootRoom
<1>6. CASE /\ HasRoom(1)
           /\ \E epoch \in EpochNumber : ApplyEpochTransition(epoch) /\ goal' = epoch
  BY <1>6, <1>1 DEF ApplyEpochTransition, AllocateNextRoot, HasRoom, RootRoom
<1>7. CASE AdvanceStep
  BY <1>7, <1>1 DEF AdvanceStep, LoopRuns, StepEpoch, ApplyEpochTransition, AllocateNextRoot, RootRoom
<1>8. CASE \E entry : TypedEntry(entry) /\ UpsertAccount(entry)
  BY <1>8, <1>2, <1>3 DEF UpsertAccount
<1>9. CASE \E request : TypedRequest(request) /\ Register(request)
  BY <1>9, <1>2, <1>5 DEF Register
<1>10. CASE \E mint : TypedMint(mint) /\ Mint(mint)
  BY <1>10, <1>2, <1>5, Zenon DEF Mint, Settle
<1>11. CASE \E transfer : TypedTransfer(transfer) /\ Transfer(transfer)
  BY <1>11, <1>2, <1>5, Zenon DEF Transfer, Settle
<1>12. CASE AdvanceEpoch
  <2>1. current_epoch < MaxEpoch => current_epoch + 1 \in EpochNumber
    BY <1>1 DEF EpochNumber
  <2> QED BY <1>12, <2>1, <1>2, <1>6 DEF AdvanceEpoch
<1>13. CASE \E epoch \in EpochNumber : AdvanceToEpoch(epoch)
  BY <1>13, <1>2, <1>3, <1>4 DEF AdvanceToEpoch, ledgerVars, rootVars
<1>14. CASE \E epoch \in EpochNumber : set_current_epoch(epoch)
  BY <1>14, <1>4, <1>6 DEF set_current_epoch
<1> QED BY <1>7, <1>8, <1>9, <1>10, <1>11, <1>12, <1>13, <1>14, Zenon DEF TypedCall

LEMMA RoomStep ==
  ASSUME Inv, RootRoom, TypedCall
  PROVE  RootRoom'
BY RoomKept DEF Inv, RootsInv, RootsTypeOK

LEMMA StutterStep ==
  ASSUME Inv, RootRoom, UNCHANGED vars
  PROVE  Inv' /\ RootRoom' /\ KeepsIndices /\ CommitsBalances /\ StampsEntries
<1>1. UNCHANGED ledgerVars /\ UNCHANGED <<goal, ok>>
  BY DEF vars
<1>2. ControlInv' /\ RootRoom'
  BY <1>1 DEF Inv, ControlInv, ledgerVars, RootRoom, rootVars
<1> QED BY <1>1, <1>2, LedgerUnchanged DEF Inv

LEMMA InitRoom == Init => RootRoom
BY Bounds DEF Init, RootRoom
(* What the oracle hands out as current passes its validation. *)
LEMMA CurrentUsable == Inv => ListedRootsUsable
<1> SUFFICES ASSUME Inv PROVE ListedRootsUsable
  OBVIOUS
<1> DEFINE keys == current_epoch_root_keys
<1>1. /\ current_epoch \in EpochNumber /\ current_epoch \in Nat
      /\ keys \in Seq(Root) /\ Len(keys) \in Nat /\ DOMAIN keys = 1 .. Len(keys)
      /\ Len(keys) > 0
  BY Bounds DEF Inv, ControlInv, RootsInv, RootsTypeOK, RootsListed, EpochNumber
<1>2. ASSUME NEW root \in DOMAIN valid_roots, root.e = current_epoch
      PROVE  IsValidRoot(valid_roots[root])
  <2>1. /\ valid_roots[root] = Reference(root.e, root.v)
        /\ root \in Root
    BY DEF Inv, RootsInv, RootsRecorded, RootsTypeOK
  <2>2. /\ valid_roots[root].root = root
        /\ valid_roots[root].epoch = current_epoch
    BY <1>2, <2>1 DEF Reference, MakeRoot, Root
  <2>3. current_epoch <= current_epoch /\ current_epoch - current_epoch <= kRootValidityWindow
    BY <1>1 DEF kRootValidityWindow
  <2> QED BY <2>2, <2>3 DEF IsValidRoot, ValidateReferencedRoot, IsRootAcceptableForCurrentEpoch
<1>3. \A i \in DOMAIN keys : keys[i] \in DOMAIN valid_roots /\ keys[i].e = current_epoch
  BY DEF Inv, RootsInv, RootsListed, MakeRoot
<1>4. current_root = valid_roots[keys[Len(keys)]]
  <2>1. Len(keys) \in DOMAIN keys
    BY <1>1
  <2>2. root_version - Len(keys) + Len(keys) = root_version
    BY <1>1 DEF Inv, RootsInv, RootsTypeOK, RootVersion
  <2>3. /\ keys[Len(keys)] \in DOMAIN valid_roots
        /\ keys[Len(keys)] = MakeRoot(current_epoch, root_version)
        /\ current_root = Reference(current_epoch, root_version)
    BY <2>1, <2>2 DEF Inv, RootsInv, RootsListed
  <2>4. valid_roots[keys[Len(keys)]] = Reference(keys[Len(keys)].e, keys[Len(keys)].v)
    BY <2>3 DEF Inv, RootsInv, RootsRecorded
  <2> QED BY <2>3, <2>4 DEF MakeRoot
<1>5. Len(keys) \in DOMAIN keys
  BY <1>1
<1> HIDE DEF keys
<1>6. \A i \in DOMAIN keys : IsValidRoot(valid_roots[keys[i]])
  BY <1>2, <1>3
<1>7. IsValidRoot(current_root)
  BY <1>4, <1>5, <1>6
<1> QED BY <1>6, <1>7 DEF ListedRootsUsable, keys

-----------------------------------------------------------------------------
(* What a call does to the balances and to the roots. *)

(* UpsertAccount moves no money, makes no root and touches no replay       *)
(* state: an existing slot keeps its balance and a new one has none.       *)
LEMMA UpsertMovesNothing ==
  ASSUME Inv, NEW entry, TypedEntry(entry), UpsertAccount(entry)
  PROVE  /\ UNCHANGED <<rootVars, prfVars, current_epoch>>
         /\ ok' \in BOOLEAN
         /\ ~ok' => UNCHANGED accountVars
         /\ \A i \in DOMAIN account_states' :
              account_states'[i].balance =
                IF i \in DOMAIN account_states THEN account_states[i].balance ELSE 0
<1>1. CASE Rejected
  BY <1>1 DEF Rejected, ledgerVars, accountVars
<1>2. CASE /\ Accepted /\ UNCHANGED <<rootVars, prfVars, current_epoch>>
           /\ HasAccountIndex(entry.account_id)
           /\ account_states' = ReplaceEntry(account_indices[entry.account_id], entry)
  <2>1. DOMAIN account_states' = DOMAIN account_states
    BY <1>2 DEF ReplaceEntry
  <2>2. UNCHANGED root_version
    BY <1>2 DEF rootVars
  <2>3. CommitsBalances
    BY UpsertStep DEF StepOK
  <2> QED BY <1>2, <2>1, <2>2, <2>3 DEF Accepted, CommitsBalances
<1>3. CASE /\ Accepted /\ UNCHANGED <<rootVars, prfVars, current_epoch>>
           /\ account_states' = Append(account_states, [entry |-> entry, balance |-> 0])
  <2>1. account_states \in Seq(AccountState)
    BY DEF Inv, AccountsInv, AccountsTypeOK
  <2>2. Len(account_states) \in Nat /\ DOMAIN account_states = 1 .. Len(account_states)
    BY <2>1
  <2>3. /\ DOMAIN account_states' = 1 .. Len(account_states) + 1
        /\ \A i \in DOMAIN account_states' :
             account_states'[i] = IF i \in DOMAIN account_states THEN account_states[i]
                                  ELSE [entry |-> entry, balance |-> 0]
    BY <1>3, <2>1, <2>2
  <2> QED BY <1>3, <2>3 DEF Accepted
<1> QED BY <1>1, <1>2, <1>3 DEF UpsertAccount

(* Balances other than those in the given slots stay as they are.          *)
BalancesKept(changed) ==
  \A i \in DOMAIN account_states :
    /\ i \in DOMAIN account_states'
    /\ i \notin changed => account_states'[i].balance = account_states[i].balance

LEMMA StampedBalances ==
  ASSUME NEW states \in Seq(AccountState), NEW reference,
         account_states' = Stamped(states, reference)
  PROVE  /\ DOMAIN account_states' = DOMAIN states
         /\ \A i \in DOMAIN states : account_states'[i].balance = states[i].balance
<1>1. \A state \in AccountState :
        [state EXCEPT !.entry.epoch = reference.epoch,
                      !.entry.inclusion_root = reference.root].balance = state.balance
  BY DEF AccountState, PrivateAccountEntry
<1>2. \A i \in DOMAIN states : states[i] \in AccountState
  OBVIOUS
<1> QED BY <1>1, <1>2 DEF Stamped

LEMMA RegisterOpens ==
  ASSUME Inv, NEW request, TypedRequest(request), Register(request)
  PROVE  \/ Rejected
         \/ /\ ok' = TRUE
            /\ BalancesKept({})
            /\ DOMAIN account_states' = DOMAIN account_states \cup {NewIndex + 1}
            /\ account_states'[NewIndex + 1].balance = 0
            /\ NewIndex + 1 \notin DOMAIN account_states
            /\ NewIndex \in Nat
            /\ root_version' = root_version + 1
            /\ UNCHANGED <<prfVars, current_epoch>>
<1> DEFINE entry == [account_id |-> request.account_id, payload |-> request.payload,
                     inclusion_root |-> NoRoot, epoch |-> current_epoch]
           states == Append(account_states, [entry |-> entry, balance |-> 0])
<1>1. CASE /\ ValidateAccountId(request.account_id)
           /\ CommitStates(states)
           /\ Accepted
           /\ UNCHANGED <<prfVars, current_epoch>>
  <2>1. [entry |-> entry, balance |-> 0] \in AccountState
    <3>1. entry \in PrivateAccountEntry
      BY <1>1 DEF TypedRequest, ValidateAccountId, PrivateAccountEntry, MerkleRoot, Inv, ControlInv
    <3> QED BY <3>1, Bounds DEF AccountState, Amount
  <2>2. /\ account_states \in Seq(AccountState)
        /\ DOMAIN account_states = 1 .. Len(account_states)
        /\ Len(account_states) \in Nat
    BY DEF Inv, AccountsInv, AccountsTypeOK
  <2>3. /\ states \in Seq(AccountState)
        /\ DOMAIN states = 1 .. Len(account_states) + 1
        /\ \A i \in 1 .. Len(account_states) : states[i] = account_states[i]
        /\ states[Len(account_states) + 1].balance = 0
    BY <2>1, <2>2
  <2> HIDE DEF states
  <2>4. /\ account_states' = Stamped(states, NextRoot(current_epoch))
        /\ root_version' = root_version + 1
    BY <1>1 DEF CommitStates, RefreshAllAccountRoots, AllocateNextRoot
  <2>5. /\ DOMAIN account_states' = DOMAIN states
        /\ \A i \in DOMAIN states : account_states'[i].balance = states[i].balance
    BY <2>3, <2>4, StampedBalances
  <2> QED BY <1>1, <2>2, <2>3, <2>4, <2>5 DEF BalancesKept, NewIndex, Accepted
<1> QED BY <1>1 DEF Register

(* A payment changes the balances it names and no others.                  *)
LEMMA SettledBalances ==
  ASSUME NEW prf, NEW states \in Seq(AccountState), Settle(prf, states),
         DOMAIN states = DOMAIN account_states,
         NEW changed,
         \A i \in DOMAIN states \ changed : states[i].balance = account_states[i].balance
  PROVE  /\ ok' = TRUE
         /\ BalancesKept(changed)
         /\ DOMAIN account_states' = DOMAIN account_states
         /\ root_version' = root_version + 1
         /\ prf_outputs_in_current_epoch' = prf_outputs_in_current_epoch \cup {prf}
<1>1. /\ account_states' = Stamped(states, NextRoot(current_epoch))
      /\ root_version' = root_version + 1
  BY DEF Settle, CommitStates, RefreshAllAccountRoots, AllocateNextRoot
<1>2. /\ DOMAIN account_states' = DOMAIN states
      /\ \A i \in DOMAIN states : account_states'[i].balance = states[i].balance
  BY <1>1, StampedBalances
<1> QED BY <1>1, <1>2 DEF Settle, BalancesKept, Accepted, RecordPrfOutput, MarkUsed

LEMMA MintCredits ==
  ASSUME Inv, NEW mint, TypedMint(mint), Mint(mint)
  PROVE  \/ Rejected
         \/ /\ ok' = TRUE
            /\ mint.recipient_index + 1 \in DOMAIN account_states
            /\ BalancesKept({mint.recipient_index + 1})
            /\ DOMAIN account_states' = DOMAIN account_states
            /\ root_version' = root_version + 1
            /\ prf_outputs_in_current_epoch' =
                 prf_outputs_in_current_epoch \cup {mint.prf_output}
<1> DEFINE slot == mint.recipient_index + 1
           amount == Sum64(account_states[slot].balance, mint.value)
           states == [account_states EXCEPT ![slot].balance = amount]
<1>1. CASE MintAccepted(mint) /\ Settle(mint.prf_output, states)
  <2>1. /\ AccountsTypeOK /\ account_states \in Seq(AccountState)
        /\ Indexed(account_states, account_indices)
        /\ mint.recipient_index \in Nat /\ mint.value \in Amount
    BY DEF Inv, AccountsInv, AccountsTypeOK, AccountsIndexed, Indexed, TypedMint
  <2>2. slot \in DOMAIN account_states
    BY <1>1, <2>1, ValidIndex DEF MintAccepted
  <2>3. amount \in Amount
    <3>1. account_states[slot] \in AccountState
      BY <2>1, <2>2
    <3>2. account_states[slot].balance \in Nat /\ mint.value \in Nat
      BY <3>1, <2>1, Bounds DEF AccountState, Amount
    <3> QED BY <3>2, Sum64Type
  <2> HIDE DEF amount, slot
  <2>4. /\ states \in Seq(AccountState)
        /\ DOMAIN states = DOMAIN account_states
        /\ \A i \in DOMAIN account_states \ {slot} : states[i].balance = account_states[i].balance
    BY <2>1, <2>2, <2>3, Rebalanced
  <2> HIDE DEF states
  <2> QED BY <1>1, <2>2, <2>4, SettledBalances DEF slot
<1> QED BY <1>1 DEF Mint

LEMMA TransferMoves ==
  ASSUME Inv, NEW transfer, TypedTransfer(transfer), Transfer(transfer)
  PROVE  \/ Rejected
         \/ /\ ok' = TRUE
            /\ TransferValid(transfer)
            /\ BalancesKept({transfer.sender_index + 1, transfer.receiver_index + 1})
            /\ DOMAIN account_states' = DOMAIN account_states
            /\ root_version' = root_version + 1
            /\ prf_outputs_in_current_epoch' =
                 prf_outputs_in_current_epoch \cup {transfer.prf_output}
<1> DEFINE states == MoveBalance(transfer.sender_index, transfer.receiver_index, transfer.value)
<1>1. CASE TransferAccepted(transfer) /\ Settle(transfer.prf_output, states)
  <2>1. /\ AccountsTypeOK /\ AccountsIndexed
        /\ transfer.sender_index \in Nat /\ transfer.receiver_index \in Nat
        /\ transfer.value \in Amount
    BY DEF Inv, AccountsInv, TypedTransfer
  <2>2. /\ transfer.sender_index + 1 \in DOMAIN account_states
        /\ transfer.receiver_index + 1 \in DOMAIN account_states
        /\ account_states[transfer.sender_index + 1].balance >= transfer.value
        /\ TransferValid(transfer)
    BY <1>1, <2>1, ValidIndex DEF TransferAccepted, TransferValid
  <2> DEFINE changed == {transfer.sender_index + 1, transfer.receiver_index + 1}
  <2>3. /\ states \in Seq(AccountState)
        /\ DOMAIN states = DOMAIN account_states
        /\ \A i \in DOMAIN account_states \ changed :
             states[i].balance = account_states[i].balance
    BY <2>1, <2>2, Moved
  <2> HIDE DEF states
  <2> QED BY <1>1, <2>2, <2>3, SettledBalances
<1> QED BY <1>1 DEF Transfer

LEMMA TransitionKeeps ==
  ASSUME Inv, NEW epoch, ApplyEpochTransition(epoch)
  PROVE  /\ BalancesKept({})
         /\ DOMAIN account_states' = DOMAIN account_states
         /\ root_version' = root_version + 1
         /\ prf_outputs_in_current_epoch' = {}
<1>1. /\ account_states' = Stamped(account_states, NextRoot(epoch))
      /\ root_version' = root_version + 1
  BY DEF ApplyEpochTransition, RefreshAllAccountRoots, AllocateNextRoot
<1>2. account_states \in Seq(AccountState)
  BY DEF Inv, AccountsInv, AccountsTypeOK
<1>3. /\ DOMAIN account_states' = DOMAIN account_states
      /\ \A i \in DOMAIN account_states : account_states'[i].balance = account_states[i].balance
  BY <1>1, <1>2, StampedBalances
<1> QED BY <1>1, <1>3 DEF BalancesKept, ApplyEpochTransition, ForgetPrfOutputs

RootsKept ==
  \A root \in DOMAIN valid_roots :
    root \in DOMAIN valid_roots' /\ valid_roots'[root] = valid_roots[root]

(* No call forgets a root or changes its record.                           *)
LEMMA RootsStay ==
  ASSUME Inv, TypedCall
  PROVE  RootsKept
<1>1. CASE UNCHANGED valid_roots
  BY <1>1 DEF RootsKept
<1>2. ASSUME NEW epoch, valid_roots' = RecordRoot(NextRoot(epoch))
      PROVE  RootsKept
  <2>1. root_version \in Nat /\ root_version + 1 > root_version
    BY DEF Inv, RootsInv, RootsTypeOK, RootVersion
  <2>2. MakeRoot(epoch, root_version + 1) \notin DOMAIN valid_roots
    BY <2>1 DEF Inv, RootsInv, RootsRecorded, MakeRoot
  <2> QED BY <1>2, <2>2 DEF RecordRoot, NextRoot, Reference, Put, RootsKept
<1>3. CASE Rejected \/ \E epoch \in EpochNumber : StartLoop(epoch)
  BY <1>3, <1>1 DEF Rejected, StartLoop, ledgerVars, rootVars
<1>4. CASE \E states : CommitStates(states)
  BY <1>4, <1>2 DEF CommitStates, AllocateNextRoot
<1>5. CASE \E epoch : ApplyEpochTransition(epoch)
  BY <1>5, <1>2 DEF ApplyEpochTransition, AllocateNextRoot
<1>6. CASE \E entry : TypedEntry(entry) /\ UpsertAccount(entry)
  BY <1>6, <1>1, <1>3 DEF UpsertAccount, rootVars
<1>7. CASE \E request : TypedRequest(request) /\ Register(request)
  BY <1>7, <1>3, <1>4 DEF Register
<1>8. CASE \E mint : TypedMint(mint) /\ Mint(mint)
  BY <1>8, <1>3, <1>4, Zenon DEF Mint, Settle
<1>9. CASE \E transfer : TypedTransfer(transfer) /\ Transfer(transfer)
  BY <1>9, <1>3, <1>4, Zenon DEF Transfer, Settle
<1>10. CASE AdvanceEpoch
  BY <1>10, <1>3, <1>5, Zenon DEF AdvanceEpoch
<1>11. CASE \E epoch \in EpochNumber : AdvanceToEpoch(epoch)
  BY <1>11, <1>1, <1>3 DEF AdvanceToEpoch, ledgerVars, rootVars
<1>12. CASE \E epoch \in EpochNumber : set_current_epoch(epoch)
  BY <1>12, <1>3, <1>5, Zenon DEF set_current_epoch
<1>13. CASE AdvanceStep
  BY <1>13, <1>5, Zenon DEF AdvanceStep
<1> QED BY <1>6, <1>7, <1>8, <1>9, <1>10, <1>11, <1>12, <1>13, Zenon DEF TypedCall
-----------------------------------------------------------------------------
(* The theorems. *)

(* Inv is an invariant, whatever the accounts, amounts and epochs are. *)
LEMMA Invariance == Spec => [](Inv /\ RootRoom)
<1>1. Init => Inv /\ RootRoom
  BY InitInv, InitRoom
<1>2. Inv /\ RootRoom /\ [Next]_vars => (Inv /\ RootRoom)'
  BY CallsAreTyped, NextStep, RoomStep, StutterStep
<1> QED BY <1>1, <1>2, PTL DEF Spec

(* The state keeps its types; balances stay below 2^64, a transfer never   *)
(* takes one below zero, and a loop never passes its goal.                 *)
THEOREM TypeCorrect == Spec => []TypeOK
<1>1. Inv => TypeOK
  BY DEF Inv, TypeOK, AccountsInv, RootsInv, PrfInv, ControlInv
<1> QED BY <1>1, Invariance, PTL

(* Indices, slots and ids agree, however accounts were added. *)
THEOREM AccountsStayIndexed == Spec => []AccountsIndexed
<1>1. Inv => AccountsIndexed
  BY DEF Inv, AccountsInv
<1> QED BY <1>1, Invariance, PTL

(* The copy of an entry found by id is the one found by index. *)
THEOREM AccountsStayMirrored == Spec => []AccountsMirrored
<1>1. Inv => AccountsMirrored
  BY DEF Inv, AccountsInv
<1> QED BY <1>1, Invariance, PTL

(* Each root version is recorded once, under its own epoch. *)
THEOREM RootsStayRecorded == Spec => []RootsRecorded
<1>1. Inv => RootsRecorded
  BY DEF Inv, RootsInv
<1> QED BY <1>1, Invariance, PTL

(* The list of this epoch's roots is the latest run of versions. *)
THEOREM RootsStayListed == Spec => []RootsListed
<1>1. Inv => RootsListed
  BY DEF Inv, RootsInv
<1> QED BY <1>1, Invariance, PTL

(* No root that the oracle hands out as current is rejected by it. *)
THEOREM ListedRootsStayUsable == Spec => []ListedRootsUsable
<1> QED BY CurrentUsable, Invariance, PTL

(* No epoch is passed over without a root. *)
THEOREM EpochsKeepRoots == Spec => []EpochsHaveRoots
<1>1. Inv => EpochsHaveRoots
  BY DEF Inv, RootsInv
<1> QED BY <1>1, Invariance, PTL

(* The replay set and the list of accepted outputs are the same outputs. *)
THEOREM PrfOutputsStayTracked == Spec => []PrfOutputsTracked
<1>1. Inv => PrfOutputsTracked
  BY DEF Inv, PrfInv
<1> QED BY <1>1, Invariance, PTL

(* What each call leaves alone, for every step of every behaviour. *)
LEMMA StepsOK ==
  Spec => /\ IndicesStable
          /\ RootCommitsBalances
          /\ EntriesFollowRoot
<1>1. Inv /\ RootRoom /\ [Next]_vars
        => /\ [KeepsIndices]_vars
           /\ [CommitsBalances]_vars
           /\ [StampsEntries]_vars
  BY CallsAreTyped, NextStep DEF StepOK
<1> QED BY <1>1, Invariance, PTL DEF Spec, IndicesStable, RootCommitsBalances,
           EntriesFollowRoot

(* An account's index and id never change. *)
THEOREM IndicesStayStable == Spec => IndicesStable
BY StepsOK

(* No balance changes without a new root version. *)
THEOREM BalancesNeedRoots == Spec => RootCommitsBalances
BY StepsOK

(* A new root reaches every entry, by id and by index. *)
THEOREM EntriesAreStamped == Spec => EntriesFollowRoot
BY StepsOK
=============================================================================
