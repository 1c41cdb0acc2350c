----------------------- MODULE InterruptedCallsProofs -----------------------
(***************************************************************************)
(* Proofs about InterruptedCalls, however many calls are cut off by        *)
(* exceptions: versions stay unique, a payment is made at most once per    *)
(* epoch, indices that both lookups know stay, and the next root heals.    *)
(*                                                                         *)
(* What PlaintextModelProofs shows of the accounts does not survive an     *)
(* exception: the lookups may disagree, an id may have two slots, and the  *)
(* list of roots may miss the current one.  CutInv is what does survive.   *)
(***************************************************************************)
EXTENDS InterruptedCalls, PlaintextModelProofs

VersionsInv ==
  /\ root_version \in Nat
  /\ \A root \in DOMAIN valid_roots : root.v \in Nat
  /\ VersionsUnique

(* All that a step may do to the records: nothing, a version used up, or a *)
(* version used up and recorded.                                           *)
AddsVersion ==
  /\ root_version' = root_version + 1
  /\ \/ UNCHANGED valid_roots
     \/ \E epoch : valid_roots' = RecordRoot(NextRoot(epoch))

VersionStep == UNCHANGED <<valid_roots, root_version>> \/ AddsVersion

LEMMA VersionStepKeepsInv ==
  ASSUME VersionsInv, VersionStep
  PROVE  VersionsInv'
<1>1. CASE UNCHANGED <<valid_roots, root_version>>
  BY <1>1 DEF VersionsInv, VersionsUnique
<1>2. CASE root_version' = root_version + 1 /\ UNCHANGED valid_roots
  BY <1>2 DEF VersionsInv, VersionsUnique
<1>3. CASE root_version' = root_version + 1
             /\ \E epoch : valid_roots' = RecordRoot(NextRoot(epoch))
  <2>1. PICK epoch : valid_roots' = RecordRoot(NextRoot(epoch))
    BY <1>3
  <2> DEFINE new == MakeRoot(epoch, root_version + 1)
  <2>2. /\ new.e = epoch /\ new.v = root_version + 1
        /\ NextRoot(epoch) = Reference(new.e, new.v)
        /\ NextRoot(epoch).root = new
    BY DEF MakeRoot, NextRoot, Reference
  <2> HIDE DEF new
  <2>3. /\ DOMAIN valid_roots' = DOMAIN valid_roots \cup {new}
        /\ \A root \in DOMAIN valid_roots' :
             valid_roots'[root] = IF root = new THEN NextRoot(epoch) ELSE valid_roots[root]
    BY <2>1, <2>2 DEF RecordRoot, Put
  <2>4. \A root \in DOMAIN valid_roots : root # new
    BY <2>2 DEF VersionsInv, VersionsUnique
  <2> QED
    BY <1>3, <2>2, <2>3, <2>4 DEF VersionsInv, VersionsUnique
<1> QED
  BY <1>1, <1>2, <1>3 DEF VersionStep, AddsVersion

LEMMA AllocationAddsVersion ==
  ASSUME NEW epoch, NEW keys, AllocateNextRoot(epoch, keys)
  PROVE  VersionStep
BY DEF AllocateNextRoot, VersionStep, AddsVersion

LEMMA CommitAddsVersion ==
  ASSUME NEW states, CommitStates(states)
  PROVE  VersionStep
BY AllocationAddsVersion DEF CommitStates

(* The counter is the first to change: a root is only recorded with it.    *)
LEMMA CutCommitAddsVersion ==
  ASSUME NEW epoch, NEW keys, NEW states, CommitThrows(epoch, keys, states)
  PROVE  VersionStep
<1>1. PICK n \in DOMAIN RootOrder :
        /\ root_version' = IF Done(RootOrder, n, "bump") THEN root_version + 1 ELSE root_version
        /\ valid_roots' = IF Done(RootOrder, n, "record") THEN RecordRoot(NextRoot(epoch))
                          ELSE valid_roots
  BY DEF CommitThrows
<1>2. n \in 1 .. 4
  BY DEF RootOrder
<1>3. Done(RootOrder, n, "bump")
  <2>1. 1 \in 1 .. n /\ RootOrder[1] = "bump"
    BY <1>2 DEF RootOrder
  <2> QED
    BY <2>1 DEF Done
<1> QED
  BY <1>1, <1>3 DEF VersionStep, AddsVersion

LEMMA CallAddsVersion ==
  ASSUME Next
  PROVE  VersionStep
<1>1. ASSUME NEW entry \in Entries, UpsertAccount(entry)
      PROVE  VersionStep
  BY <1>1 DEF UpsertAccount, Rejected, ledgerVars, rootVars, VersionStep
<1>2. ASSUME NEW request \in Requests, Register(request)
      PROVE  VersionStep
  BY <1>2, CommitAddsVersion DEF Register, Rejected, ledgerVars, rootVars, VersionStep
<1>3. ASSUME NEW mint \in Mints, Mint(mint)
      PROVE  VersionStep
  BY <1>3, CommitAddsVersion DEF Mint, Settle, Rejected, ledgerVars, rootVars, VersionStep
<1>4. ASSUME NEW transfer \in Transfers, Transfer(transfer)
      PROVE  VersionStep
  BY <1>4, CommitAddsVersion DEF Transfer, Settle, Rejected, ledgerVars, rootVars, VersionStep
<1>5. ASSUME NEW epoch, ApplyEpochTransition(epoch)
      PROVE  VersionStep
  BY <1>5, AllocationAddsVersion DEF ApplyEpochTransition
<1>6. CASE AdvanceEpoch
  BY <1>5, <1>6 DEF AdvanceEpoch, Rejected, ledgerVars, rootVars, VersionStep
<1>7. ASSUME NEW epoch \in EpochNumber, AdvanceToEpoch(epoch) \/ set_current_epoch(epoch)
      PROVE  VersionStep
  BY <1>5, <1>7 DEF AdvanceToEpoch, set_current_epoch, StartLoop, Rejected,
                    ledgerVars, rootVars, VersionStep
<1>8. CASE AdvanceStep
  BY <1>5, <1>8 DEF AdvanceStep
<1> QED
  BY <1>1, <1>2, <1>3, <1>4, <1>6, <1>7, <1>8 DEF Next

LEMMA ThrowAddsVersion ==
  ASSUME InterruptedNext
  PROVE  VersionStep
<1>1. ASSUME NEW entry \in Entries, UpsertThrows(entry)
      PROVE  VersionStep
  BY <1>1 DEF UpsertThrows, rootVars, VersionStep
<1>2. ASSUME NEW states, CommitOrReplyThrows(states)
      PROVE  VersionStep
  BY <1>2, CommitAddsVersion, CutCommitAddsVersion DEF CommitOrReplyThrows
<1>3. ASSUME NEW request \in Requests, RegisterThrows(request)
      PROVE  VersionStep
  BY <1>2, <1>3 DEF RegisterThrows, rootVars, VersionStep
<1>4. ASSUME NEW prf_output, NEW states, PaymentThrows(prf_output, states)
      PROVE  VersionStep
  BY <1>2, <1>4 DEF PaymentThrows, rootVars, VersionStep
<1>5. ASSUME NEW mint \in Mints, MintThrows(mint)
      PROVE  VersionStep
  BY <1>4, <1>5 DEF MintThrows
<1>6. ASSUME NEW transfer \in Transfers, TransferThrows(transfer)
      PROVE  VersionStep
  BY <1>4, <1>6 DEF TransferThrows
<1>7. ASSUME NEW epoch \in EpochNumber, TurnThrows(epoch)
      PROVE  VersionStep
  BY <1>7, CutCommitAddsVersion DEF TurnThrows
<1> QED
  BY <1>1, <1>3, <1>5, <1>6, <1>7, CallAddsVersion DEF InterruptedNext

(* No exception, retry or step back in time gives one version to two roots *)
(* or changes a recorded root: the counter moves before anything in        *)
(* AllocateNextRoot that can throw.                                        *)
THEOREM VersionsStayUnique == InterruptedSpec => []VersionsUnique
<1>1. InterruptedInit => VersionsInv
  BY DEF InterruptedInit, Init, VersionsInv, VersionsUnique, MakeRoot, Reference
<1>2. VersionsInv /\ [InterruptedNext]_interruptedVars => VersionsInv'
  BY ThrowAddsVersion, VersionStepKeepsInv
     DEF interruptedVars, vars, ledgerVars, rootVars, VersionStep
<1>3. VersionsInv => VersionsUnique
  BY DEF VersionsInv
<1> QED
  BY <1>1, <1>2, <1>3, PTL DEF InterruptedSpec
-----------------------------------------------------------------------------
HasSlot(states, id) == \E i \in DOMAIN states : states[i].entry.account_id = id

(* An index leads to a slot of its id, and an id that accounts knows has a *)
(* slot.  An id with a slot may be unknown to one lookup or to both.       *)
SlotsInv ==
  /\ account_states \in Seq(AccountState)
  /\ DOMAIN account_indices \subseteq AccountIds
  /\ \A id \in DOMAIN account_indices :
       /\ account_indices[id] \in Nat
       /\ account_indices[id] + 1 \in DOMAIN account_states
       /\ account_states[account_indices[id] + 1].entry.account_id = id
  /\ \A id \in DOMAIN accounts : HasSlot(account_states, id)

CountersInv ==
  /\ root_version \in RootVersion
  /\ current_epoch_root_keys \in Seq(Root)
  /\ ControlInv
  /\ RootRoom

CutInv == SlotsInv /\ CountersInv

(* The slots there were, each still of its account, and perhaps a new one. *)
Grown(states) ==
  /\ states \in Seq(AccountState)
  /\ \A i \in DOMAIN account_states :
       /\ i \in DOMAIN states
       /\ states[i].entry.account_id = account_states[i].entry.account_id

SameMoney(states) ==
  \A i \in DOMAIN account_states : states[i].balance = account_states[i].balance

(* The step ends with these slots, but for what their entries carry, and   *)
(* accounts has learnt no id without a slot.                               *)
EndsWith(states) ==
  /\ account_states' \in Seq(AccountState)
  /\ DOMAIN account_states' = DOMAIN states
  /\ \A i \in DOMAIN states :
       /\ account_states'[i].entry.account_id = states[i].entry.account_id
       /\ account_states'[i].balance = states[i].balance
  /\ DOMAIN accounts \subseteq DOMAIN accounts'
  /\ \A id \in DOMAIN accounts' : id \in DOMAIN accounts \/ HasSlot(states, id)

(* Only an id that one of the lookups did not know gets an index.          *)
IndexesNew(states) ==
  \/ UNCHANGED account_indices
  \/ \E id \in AccountIds :
       /\ id \notin DOMAIN accounts \cap DOMAIN account_indices
       /\ account_indices' = Put(account_indices, id, NewIndex)
       /\ NewIndex + 1 \in DOMAIN states
       /\ states[NewIndex + 1].entry.account_id = id

(* A payment is marked in the call that makes it. *)
MarksFresh ==
  /\ current_epoch' = current_epoch
  /\ \E prf_output : /\ prf_output \notin prf_outputs_in_current_epoch
                     /\ prf_outputs_in_current_epoch' = MarkUsed(prf_output)

(* Every step, interrupted or not, is one of these. *)
AccountsStep ==
  \E states : /\ Grown(states) /\ EndsWith(states) /\ IndexesNew(states)
              /\ (SameMoney(states) /\ KeepsMarks) \/ MarksFresh

LEMMA AccountsStepKeeps ==
  ASSUME SlotsInv, AccountsStep
  PROVE  SlotsInv' /\ MarksMoves /\ KeepsMarks /\ KeepsKnown
<1>1. PICK states : /\ Grown(states) /\ EndsWith(states) /\ IndexesNew(states)
                    /\ (SameMoney(states) /\ KeepsMarks) \/ MarksFresh
  BY DEF AccountsStep
<1>2. /\ account_states' \in Seq(AccountState)
      /\ DOMAIN account_states' = DOMAIN states
      /\ \A i \in DOMAIN account_states :
           /\ i \in DOMAIN account_states'
           /\ account_states'[i].entry.account_id = account_states[i].entry.account_id
           /\ SameMoney(states) => account_states'[i].balance = account_states[i].balance
  BY <1>1 DEF Grown, EndsWith, SameMoney
<1>3. \A id : HasSlot(account_states, id) => HasSlot(account_states', id)
  BY <1>2 DEF HasSlot
<1>4. \A id : HasSlot(states, id) => HasSlot(account_states', id)
  BY <1>1 DEF HasSlot, EndsWith
<1>5. \A id \in DOMAIN accounts' : HasSlot(account_states', id)
  BY <1>1, <1>3, <1>4 DEF EndsWith, SlotsInv
<1>6. ASSUME NEW id \in DOMAIN account_indices, account_indices'[id] = account_indices[id]
      PROVE  /\ account_indices'[id] \in Nat
             /\ account_indices'[id] + 1 \in DOMAIN account_states'
             /\ account_states'[account_indices'[id] + 1].entry.account_id = id
  BY <1>2, <1>6 DEF SlotsInv
<1>7. ASSUME UNCHANGED account_indices
      PROVE  SlotsInv' /\ KeepsKnown
  <2>1. SlotsInv'
    BY <1>2, <1>5, <1>6, <1>7 DEF SlotsInv
  <2>2. KeepsKnown
    <3>1. ASSUME NEW id \in DOMAIN accounts \cap DOMAIN account_indices
          PROVE  /\ id \in DOMAIN accounts' \cap DOMAIN account_indices'
                 /\ account_indices'[id] = account_indices[id]
      BY <1>1, <1>7 DEF EndsWith
    <3> QED BY <3>1, <1>6 DEF KeepsKnown
  <2> QED BY <2>1, <2>2
<1>8. ASSUME NEW new \in AccountIds,
             new \notin DOMAIN accounts \cap DOMAIN account_indices,
             account_indices' = Put(account_indices, new, NewIndex),
             NewIndex + 1 \in DOMAIN states,
             states[NewIndex + 1].entry.account_id = new
      PROVE  SlotsInv' /\ KeepsKnown
  <2>1. /\ DOMAIN account_indices' = DOMAIN account_indices \cup {new}
        /\ account_indices'[new] = NewIndex
        /\ \A id \in DOMAIN account_indices \ {new} : account_indices'[id] = account_indices[id]
    BY <1>8 DEF Put
  <2>2. NewIndex \in Nat
    BY DEF NewIndex, SlotsInv
  <2>3. /\ NewIndex + 1 \in DOMAIN account_states'
        /\ account_states'[NewIndex + 1].entry.account_id = new
    BY <1>1, <1>8 DEF EndsWith
  <2>4. SlotsInv'
    <3>1. ASSUME NEW id \in DOMAIN account_indices'
          PROVE  /\ account_indices'[id] \in Nat
                 /\ account_indices'[id] + 1 \in DOMAIN account_states'
                 /\ account_states'[account_indices'[id] + 1].entry.account_id = id
      BY <1>6, <2>1, <2>2, <2>3
    <3>2. DOMAIN account_indices' \subseteq AccountIds
      BY <2>1 DEF SlotsInv
    <3> QED BY <3>1, <3>2, <1>2, <1>5 DEF SlotsInv
  <2>5. KeepsKnown
    BY <1>1, <1>6, <1>8, <2>1 DEF KeepsKnown, EndsWith
  <2> QED BY <2>4, <2>5
<1>9. MarksMoves /\ KeepsMarks
  BY <1>1, <1>2 DEF MarksMoves, KeepsMarks, MarksFresh, MarkUsed
<1> QED BY <1>1, <1>7, <1>8, <1>9 DEF IndexesNew
-----------------------------------------------------------------------------
(* What a refresh does to the slots, complete or cut off. *)

LEMMA MirroredIds ==
  ASSUME NEW states
  PROVE  /\ DOMAIN accounts \subseteq DOMAIN Mirrored(states)
         /\ \A id \in DOMAIN Mirrored(states) : id \in DOMAIN accounts \/ HasSlot(states, id)
BY DEF Mirrored, HasSlot

LEMMA RefreshEnds ==
  ASSUME NEW states \in Seq(AccountState), NEW reference \in RootReference,
         RefreshAllAccountRoots(states, reference)
  PROVE  EndsWith(states)
<1>1. account_states' = Stamped(states, reference) /\ accounts' = Mirrored(account_states')
  BY DEF RefreshAllAccountRoots
<1>2. \A id : HasSlot(account_states', id) => HasSlot(states, id)
  BY <1>1, StampedSlots DEF HasSlot
<1> QED BY <1>1, <1>2, StampedSlots, MirroredIds DEF EndsWith

LEMMA TornIds ==
  \A m, key, new : \A result \in TornPuts(m, key, new) :
    DOMAIN result = DOMAIN m \/ DOMAIN result = DOMAIN m \cup {key}
BY DEF TornPuts, Put

LEMMA CutRefreshEnds ==
  ASSUME NEW states \in Seq(AccountState), NEW reference \in RootReference,
         RefreshThrows(states, reference)
  PROVE  EndsWith(states)
<1> DEFINE stamped == Stamped(states, reference)
<1>1. PICK n \in DOMAIN states :
        LET copied == Mirrored(SubSeq(stamped, 1, n - 1))
            Slots(nth) == [i \in DOMAIN states |->
                             IF i < n THEN stamped[i] ELSE IF i = n THEN nth ELSE states[i]]
        IN  \/ /\ account_states' = Slots([states[n] EXCEPT !.entry.epoch = reference.epoch])
               /\ accounts' = copied
            \/ /\ account_states' = Slots(stamped[n])
               /\ accounts' \in TornPuts(copied, stamped[n].entry.account_id, stamped[n].entry)
  BY Zenon DEF RefreshThrows
<1> DEFINE copied == Mirrored(SubSeq(stamped, 1, n - 1))
           part == [states[n] EXCEPT !.entry.epoch = reference.epoch]
<1>2. /\ DOMAIN states = 1 .. Len(states)
      /\ Len(states) \in Nat
      /\ \A i \in DOMAIN states : states[i] \in AccountState
  OBVIOUS
<1>3. /\ stamped \in Seq(AccountState)
      /\ DOMAIN stamped = DOMAIN states
      /\ \A i \in DOMAIN states :
           /\ stamped[i] \in AccountState
           /\ stamped[i].balance = states[i].balance
           /\ stamped[i].entry.account_id = states[i].entry.account_id
  BY StampedSlots
<1>4. /\ part \in AccountState
      /\ part.balance = states[n].balance
      /\ part.entry.account_id = states[n].entry.account_id
  BY <1>2 DEF AccountState, PrivateAccountEntry, RootReference
<1> HIDE DEF stamped, part
<1>5. /\ DOMAIN accounts \subseteq DOMAIN copied
      /\ \A id \in DOMAIN copied : id \in DOMAIN accounts \/ HasSlot(states, id)
  <2>1. \A i \in DOMAIN SubSeq(stamped, 1, n - 1) :
          i \in DOMAIN stamped /\ SubSeq(stamped, 1, n - 1)[i] = stamped[i]
    BY <1>2, <1>3
  <2>2. \A id : HasSlot(SubSeq(stamped, 1, n - 1), id) => HasSlot(states, id)
    BY <1>3, <2>1 DEF HasSlot
  <2> QED BY <2>2, MirroredIds
<1> HIDE DEF copied
<1>6. ASSUME NEW nth \in AccountState,
             nth.balance = states[n].balance,
             nth.entry.account_id = states[n].entry.account_id,
             account_states' = [i \in DOMAIN states |->
                                  IF i < n THEN stamped[i]
                                  ELSE IF i = n THEN nth ELSE states[i]]
      PROVE  /\ account_states' \in Seq(AccountState)
             /\ DOMAIN account_states' = DOMAIN states
             /\ \A i \in DOMAIN states :
                  /\ account_states'[i].entry.account_id = states[i].entry.account_id
                  /\ account_states'[i].balance = states[i].balance
  <2>1. DOMAIN account_states' = DOMAIN states
    BY <1>6
  <2>2. ASSUME NEW i \in DOMAIN states
        PROVE  /\ account_states'[i] \in AccountState
               /\ account_states'[i].entry.account_id = states[i].entry.account_id
               /\ account_states'[i].balance = states[i].balance
    BY <1>2, <1>3, <1>6
  <2>3. account_states' \in [1 .. Len(states) -> AccountState]
    BY <1>2, <1>6, <2>2
  <2>4. account_states' \in Seq(AccountState)
    BY <1>2, <2>3
  <2> QED BY <2>1, <2>2, <2>4
<1>7. CASE /\ account_states' = [i \in DOMAIN states |->
                                   IF i < n THEN stamped[i]
                                   ELSE IF i = n THEN part ELSE states[i]]
           /\ accounts' = copied
  BY <1>4, <1>5, <1>6, <1>7 DEF EndsWith
<1>8. CASE /\ account_states' = [i \in DOMAIN states |->
                                   IF i < n THEN stamped[i]
                                   ELSE IF i = n THEN stamped[n] ELSE states[i]]
           /\ accounts' \in TornPuts(copied, stamped[n].entry.account_id, stamped[n].entry)
  <2>1. \/ DOMAIN accounts' = DOMAIN copied
        \/ DOMAIN accounts' = DOMAIN copied \cup {states[n].entry.account_id}
    <3>1. stamped[n].entry.account_id = states[n].entry.account_id
      BY <1>3
    <3>2. \/ DOMAIN accounts' = DOMAIN copied
          \/ DOMAIN accounts' = DOMAIN copied \cup {stamped[n].entry.account_id}
      BY <1>8 DEF TornPuts, Put
    <3> QED BY <3>1, <3>2, Zenon
  <2>2. HasSlot(states, states[n].entry.account_id)
    BY DEF HasSlot
  <2> QED BY <1>3, <1>5, <1>6, <1>8, <2>1, <2>2 DEF EndsWith
<1> QED BY <1>1, <1>7, <1>8, Zenon DEF copied, part
-----------------------------------------------------------------------------
(* Roots and counters. *)

LEMMA NextRootTyped ==
  ASSUME CountersInv, HasRoom(1), NEW epoch \in EpochNumber
  PROVE  /\ NextRoot(epoch) \in RootReference
         /\ NextRoot(epoch).root \in Root
         /\ NextRoot(epoch).epoch = epoch
<1>1. root_version + 1 \in RootVersion
  BY Bounds DEF CountersInv, HasRoom, RootVersion
<1> QED BY <1>1, ReferenceType DEF NextRoot, Reference

(* What a commit, complete or cut off, leaves in the slots and the list. *)
CommitEnds(states) == EndsWith(states) /\ current_epoch_root_keys' \in Seq(Root)

LEMMA AllocationEnds ==
  ASSUME CountersInv, HasRoom(1), NEW epoch \in EpochNumber, NEW keys \in Seq(Root),
         NEW states \in Seq(AccountState),
         AllocateNextRoot(epoch, keys), RefreshAllAccountRoots(states, NextRoot(epoch))
  PROVE  CommitEnds(states)
<1>1. NextRoot(epoch) \in RootReference /\ NextRoot(epoch).root \in Root
  BY NextRootTyped
<1>2. current_epoch_root_keys' = Append(keys, NextRoot(epoch).root)
  BY DEF AllocateNextRoot, ListRoot
<1>3. current_epoch_root_keys' \in Seq(Root)
  BY <1>1, <1>2
<1> QED BY <1>1, <1>3, RefreshEnds DEF CommitEnds

LEMMA CutCommitEnds ==
  ASSUME CountersInv, HasRoom(1), NEW epoch \in EpochNumber, NEW keys \in Seq(Root),
         NEW states \in Seq(AccountState), CommitThrows(epoch, keys, states)
  PROVE  CommitEnds(states)
<1>1. NextRoot(epoch) \in RootReference /\ NextRoot(epoch).root \in Root
  BY NextRootTyped
<1>2. PICK n \in DOMAIN RootOrder :
        /\ current_epoch_root_keys' = IF Done(RootOrder, n, "list")
                                      THEN ListRoot(keys, NextRoot(epoch).root) ELSE keys
        /\ IF n = Len(RootOrder) THEN RefreshThrows(states, NextRoot(epoch))
           ELSE account_states' = states /\ UNCHANGED accounts
  BY DEF CommitThrows
<1>3. current_epoch_root_keys' \in Seq(Root)
  <2>1. Append(keys, NextRoot(epoch).root) \in Seq(Root)
    BY <1>1
  <2> QED BY <1>2, <2>1 DEF ListRoot
<1>4. EndsWith(states)
  <2>1. CASE RefreshThrows(states, NextRoot(epoch))
    BY <1>1, <2>1, CutRefreshEnds
  <2>2. CASE account_states' = states /\ UNCHANGED accounts
    BY <2>2 DEF EndsWith
  <2> QED BY <1>2, <2>1, <2>2
<1> QED BY <1>3, <1>4 DEF CommitEnds

LEMMA CommitStatesEnds ==
  ASSUME CountersInv, NEW states \in Seq(AccountState), CommitStates(states)
  PROVE  CommitEnds(states)
<1>1. current_epoch \in EpochNumber /\ current_epoch_root_keys \in Seq(Root)
  BY DEF CountersInv, ControlInv
<1> QED BY <1>1, AllocationEnds DEF CommitStates

LEMMA CommitOrReplyEnds ==
  ASSUME CountersInv, HasRoom(1), NEW states \in Seq(AccountState), CommitOrReplyThrows(states)
  PROVE  CommitEnds(states)
<1>1. current_epoch \in EpochNumber /\ current_epoch_root_keys \in Seq(Root)
  BY DEF CountersInv, ControlInv
<1> QED BY <1>1, CutCommitEnds, CommitStatesEnds DEF CommitOrReplyThrows
-----------------------------------------------------------------------------
(* A commit that is not cut off heals. *)

(* A set of indices that is not empty has a last one. *)
LEMMA LastOf ==
  ASSUME NEW n \in Nat, NEW S, S \subseteq 1 .. n, S # {}
  PROVE  \E i \in S : \A j \in S : j <= i
<1> DEFINE HasLast(T) == \E i \in T : \A j \in T : j <= i
           reached == {k \in Nat : \A T \in SUBSET (1 .. k) : T # {} => HasLast(T)}
<1>1. 0 \in reached
  <2>1. 1 .. 0 = {}
    OBVIOUS
  <2> QED BY <2>1
<1>2. ASSUME NEW k \in Nat, k \in reached
      PROVE  k + 1 \in reached
  <2> SUFFICES ASSUME NEW T \in SUBSET (1 .. k + 1), T # {}
               PROVE  HasLast(T)
    OBVIOUS
  <2>1. CASE k + 1 \in T
    <3>1. \A j \in T : j <= k + 1
      OBVIOUS
    <3> QED BY <2>1, <3>1
  <2>2. CASE k + 1 \notin T
    <3>1. T \in SUBSET (1 .. k)
      BY <2>2
    <3> QED BY <1>2, <3>1
  <2> QED BY <2>1, <2>2
<1>3. n \in reached
  <2> HIDE DEF reached
  <2> QED BY <1>1, <1>2, CountingUp
<1> QED BY <1>3

LEMMA MirroredEntry ==
  ASSUME NEW states \in Seq(AccountState), NEW id, HasSlot(states, id)
  PROVE  \E i \in DOMAIN states : /\ states[i].entry.account_id = id
                                  /\ Mirrored(states)[id] = states[i].entry
<1> DEFINE Slots(k) == {i \in DOMAIN states : states[i].entry.account_id = k}
           LastSlot(k) == CHOOSE i \in Slots(k) : \A j \in Slots(k) : j <= i
<1>1. Slots(id) # {} /\ Slots(id) \subseteq 1 .. Len(states) /\ Len(states) \in Nat
  BY DEF HasSlot
<1>2. \E i \in Slots(id) : \A j \in Slots(id) : j <= i
  <2> HIDE DEF Slots
  <2> QED BY <1>1, LastOf
<1>3. LastSlot(id) \in Slots(id)
  <2> HIDE DEF Slots
  <2> QED BY <1>2, Zenon
<1>4. id \in DOMAIN accounts \cup {states[i].entry.account_id : i \in DOMAIN states}
  BY DEF HasSlot
<1>5. Mirrored(states) =
        [k \in DOMAIN accounts \cup {states[i].entry.account_id : i \in DOMAIN states} |->
           IF Slots(k) = {} THEN accounts[k] ELSE states[LastSlot(k)].entry]
  BY Zenon DEF Mirrored
<1>6. Mirrored(states)[id] = states[LastSlot(id)].entry
  <2> HIDE DEF Slots, LastSlot
  <2> QED BY <1>1, <1>4, <1>5
<1> HIDE DEF LastSlot
<1> QED BY <1>3, <1>6

LEMMA CommitHeals ==
  ASSUME SlotsInv, CountersInv, HasRoom(1),
         NEW epoch \in EpochNumber, NEW keys \in Seq(Root),
         NEW states, Grown(states), current_epoch' = epoch,
         AllocateNextRoot(epoch, keys), RefreshAllAccountRoots(states, NextRoot(epoch))
  PROVE  Healed'
<1> DEFINE reference == NextRoot(epoch)
<1>1. /\ reference \in RootReference /\ reference.root \in Root /\ reference.epoch = epoch
      /\ current_root' = reference
      /\ states \in Seq(AccountState)
  BY NextRootTyped DEF AllocateNextRoot, Grown
<1>2. IsValidRoot(current_root)' /\ current_root'.epoch = current_epoch'
  <2>1. /\ reference.root \in DOMAIN valid_roots'
        /\ valid_roots'[reference.root] = reference
    BY DEF AllocateNextRoot, RecordRoot, Put
  <2>2. epoch <= epoch /\ epoch - epoch <= 1
    BY Bounds DEF EpochNumber
  <2> HIDE DEF reference
  <2> QED BY <1>1, <2>1, <2>2
          DEF IsValidRoot, ValidateReferencedRoot, IsRootAcceptableForCurrentEpoch, kRootValidityWindow
<1>3. current_epoch_root_keys'[Len(current_epoch_root_keys')] = current_root'.root
  <2>1. current_epoch_root_keys' = Append(keys, reference.root)
    BY DEF AllocateNextRoot, ListRoot
  <2> HIDE DEF reference
  <2> QED BY <1>1, <2>1
<1>4. /\ account_states' = Stamped(states, reference)
      /\ accounts' = Mirrored(account_states')
  BY DEF RefreshAllAccountRoots
<1> HIDE DEF reference
<1>5. /\ account_states' \in Seq(AccountState)
      /\ \A i \in DOMAIN account_states' :
           /\ account_states'[i].entry.account_id = states[i].entry.account_id
           /\ account_states'[i].entry.epoch = epoch
           /\ account_states'[i].entry.inclusion_root = current_root'.root
      /\ DOMAIN account_states' = DOMAIN states
  BY <1>1, <1>4, StampedSlots
<1>6. \A i \in DOMAIN account_states' :
        account_states'[i].entry.account_id \in DOMAIN accounts'
  <2>1. DOMAIN accounts' = DOMAIN accounts
          \cup {account_states'[i].entry.account_id : i \in DOMAIN account_states'}
    BY <1>4 DEF Mirrored
  <2> QED BY <2>1
<1>7. \A i \in DOMAIN account_states' : CarriesRoot(account_states[i].entry)'
  BY <1>5 DEF CarriesRoot
<1>8. ASSUME NEW id \in DOMAIN accounts'
      PROVE  accounts'[id].account_id = id /\ CarriesRoot(accounts[id])'
  <2>1. HasSlot(account_states', id)
    <3>1. HasSlot(states, id)
      BY <1>1, <1>4, RefreshEnds DEF EndsWith, SlotsInv, Grown, HasSlot, reference
    <3> QED BY <3>1, <1>5 DEF HasSlot
  <2>2. PICK i \in DOMAIN account_states' :
          /\ account_states'[i].entry.account_id = id
          /\ accounts'[id] = account_states'[i].entry
    BY <1>4, <1>5, <2>1, MirroredEntry
  <2> QED BY <1>5, <2>2 DEF CarriesRoot
<1> QED BY <1>2, <1>3, <1>6, <1>7, <1>8 DEF Healed
-----------------------------------------------------------------------------
(* The slots that calls change or add, complete or cut off. *)

LEMMA SlotDomain ==
  ASSUME SlotsInv
  PROVE  /\ DOMAIN account_states = 1 .. Len(account_states)
         /\ Len(account_states) \in Nat
         /\ \A i \in DOMAIN account_states : account_states[i] \in AccountState
BY DEF SlotsInv

LEMMA SameSlots ==
  ASSUME SlotsInv
  PROVE  Grown(account_states) /\ SameMoney(account_states)
BY DEF SlotsInv, Grown, SameMoney

LEMMA AppendedSlot ==
  ASSUME SlotsInv, NEW entry \in PrivateAccountEntry
  PROVE  LET states == Append(account_states, [entry |-> entry, balance |-> 0])
         IN  /\ Grown(states) /\ SameMoney(states)
             /\ NewIndex + 1 \in DOMAIN states
             /\ states[NewIndex + 1].entry.account_id = entry.account_id
<1> DEFINE state == [entry |-> entry, balance |-> 0]
           states == Append(account_states, state)
<1>1. state \in AccountState
  BY Bounds DEF AccountState, Amount
<1>2. state.entry = entry
  OBVIOUS
<1> HIDE DEF state
<1>3. /\ states \in Seq(AccountState)
      /\ DOMAIN states = 1 .. Len(account_states) + 1
      /\ \A i \in DOMAIN account_states : i \in DOMAIN states /\ states[i] = account_states[i]
      /\ states[Len(account_states) + 1] = state
  BY <1>1, SlotDomain DEF SlotsInv
<1> HIDE DEF states
<1>4. Grown(states) /\ SameMoney(states)
  BY <1>3 DEF Grown, SameMoney
<1>5. /\ NewIndex + 1 \in DOMAIN states
      /\ states[NewIndex + 1].entry.account_id = entry.account_id
  BY <1>2, <1>3, SlotDomain DEF NewIndex
<1> QED BY <1>4, <1>5 DEF states, state

LEMMA ReplacedSlot ==
  ASSUME SlotsInv, NEW id \in DOMAIN account_indices,
         NEW entry \in PrivateAccountEntry, entry.account_id = id
  PROVE  LET states == ReplaceEntry(account_indices[id], entry)
         IN  Grown(states) /\ SameMoney(states) /\ HasSlot(states, id)
<1> DEFINE slot == account_indices[id] + 1
           states == ReplaceEntry(account_indices[id], entry)
           changed == [account_states[slot] EXCEPT !.entry = entry]
<1>1. /\ slot \in DOMAIN account_states
      /\ account_states[slot].entry.account_id = id
  BY DEF SlotsInv
<1>2. /\ changed \in AccountState
      /\ changed.entry = entry
      /\ changed.balance = account_states[slot].balance
  BY <1>1, SlotDomain DEF AccountState
<1> HIDE DEF slot
<1>3. states = [account_states EXCEPT ![slot] = changed]
  BY DEF ReplaceEntry, slot
<1> HIDE DEF changed, states
<1>4. /\ DOMAIN states = DOMAIN account_states
      /\ states[slot] = changed
      /\ \A i \in DOMAIN account_states : i # slot => states[i] = account_states[i]
  BY <1>1, <1>3
<1>5. states \in Seq(AccountState)
  <2>1. states \in [1 .. Len(account_states) -> AccountState]
    BY <1>2, <1>3, SlotDomain
  <2> QED BY <2>1, SlotDomain
<1>6. Grown(states) /\ SameMoney(states)
  BY <1>1, <1>2, <1>4, <1>5 DEF Grown, SameMoney
<1>7. HasSlot(states, id)
  BY <1>1, <1>2, <1>4 DEF HasSlot
<1> QED BY <1>6, <1>7 DEF states

LEMMA PaidSlot ==
  ASSUME SlotsInv, NEW index \in Nat, IsValidAccountIndex(index)
  PROVE  index + 1 \in DOMAIN account_states /\ account_states[index + 1] \in AccountState
BY SlotDomain DEF IsValidAccountIndex

LEMMA MintedSlots ==
  ASSUME SlotsInv, NEW mint, TypedMint(mint), MintAccepted(mint)
  PROVE  Grown([account_states EXCEPT
                  ![mint.recipient_index + 1].balance = Sum64(@, mint.value)])
<1> DEFINE slot == mint.recipient_index + 1
           amount == Sum64(account_states[slot].balance, mint.value)
<1>1. slot \in DOMAIN account_states /\ account_states[slot] \in AccountState
  BY PaidSlot DEF TypedMint, MintAccepted
<1>2. amount \in Amount
  <2>1. account_states[slot].balance \in Nat /\ mint.value \in Nat
    BY <1>1, Bounds DEF AccountState, Amount, TypedMint
  <2> QED BY <2>1, Sum64Type
<1> HIDE DEF slot, amount
<1>3. Grown([account_states EXCEPT ![slot].balance = amount])
  <2>1. account_states \in Seq(AccountState)
    BY DEF SlotsInv
  <2> QED BY <1>1, <1>2, <2>1, BalanceSet DEF Grown
<1> QED BY <1>3, Zenon DEF slot, amount

LEMMA TransferredSlots ==
  ASSUME SlotsInv, NEW transfer, TypedTransfer(transfer), TransferAccepted(transfer)
  PROVE  Grown(MoveBalance(transfer.sender_index, transfer.receiver_index, transfer.value))
<1> DEFINE sender == transfer.sender_index + 1
           receiver == transfer.receiver_index + 1
           left == account_states[sender].balance - transfer.value
           debited == [account_states EXCEPT ![sender].balance = left]
           amount == Sum64(debited[receiver].balance, transfer.value)
           credited == [debited EXCEPT ![receiver].balance = amount]
<1>1. /\ sender \in DOMAIN account_states /\ account_states[sender] \in AccountState
      /\ receiver \in DOMAIN account_states
      /\ account_states \in Seq(AccountState)
  BY PaidSlot DEF SlotsInv, TypedTransfer, TransferAccepted, TransferValid
<1>2. transfer.value \in Nat
  BY Bounds DEF TypedTransfer, Amount
<1>3. left \in Amount
  <2>1. account_states[sender].balance \in Amount
    BY <1>1 DEF AccountState
  <2>2. account_states[sender].balance >= transfer.value
    BY DEF TransferAccepted
  <2> HIDE DEF sender
  <2> QED BY <1>2, <2>1, <2>2, Bounds DEF Amount
<1>4. MoveBalance(transfer.sender_index, transfer.receiver_index, transfer.value) = credited
  BY Zenon DEF MoveBalance
<1> HIDE DEF sender, receiver, left
<1>5. /\ debited \in Seq(AccountState)
      /\ DOMAIN debited = DOMAIN account_states
      /\ \A j \in DOMAIN account_states : debited[j].entry = account_states[j].entry
  BY <1>1, <1>3, BalanceSet
<1> HIDE DEF debited
<1>6. amount \in Amount
  <2>1. debited[receiver] \in AccountState
    BY <1>1, <1>5
  <2>2. debited[receiver].balance \in Nat
    BY <2>1, Bounds DEF AccountState, Amount
  <2> QED BY <1>2, <2>2, Sum64Type
<1> HIDE DEF amount
<1>7. /\ credited \in Seq(AccountState)
      /\ DOMAIN credited = DOMAIN debited
      /\ \A j \in DOMAIN debited : credited[j].entry = debited[j].entry
  <2>1. receiver \in DOMAIN debited
    BY <1>1, <1>5
  <2> QED BY <1>5, <1>6, <2>1, BalanceSet
<1> HIDE DEF credited
<1> QED BY <1>4, <1>5, <1>7 DEF Grown
-----------------------------------------------------------------------------
(* The calls. *)

CutStepOK == AccountsStep /\ RootHeals /\ current_epoch_root_keys' \in Seq(Root)

(* A step that leaves accounts and roots alone, and forgets no mark.       *)
LEMMA QuietStep ==
  ASSUME CutInv, UNCHANGED <<accountVars, rootVars>>, KeepsMarks
  PROVE  CutStepOK
<1>1. EndsWith(account_states) /\ IndexesNew(account_states)
  BY DEF accountVars, EndsWith, IndexesNew, CutInv, SlotsInv
<1>2. AccountsStep
  BY <1>1, SameSlots DEF AccountsStep, CutInv
<1> QED BY <1>2 DEF CutStepOK, RootHeals, rootVars, CutInv, CountersInv

LEMMA CutRejected ==
  ASSUME CutInv, Rejected
  PROVE  CutStepOK
<1>1. UNCHANGED <<accountVars, rootVars, prfVars>>
  BY DEF Rejected, ledgerVars
<1>2. KeepsMarks
  BY <1>1 DEF prfVars, KeepsMarks
<1> QED BY <1>1, <1>2, QuietStep

(* A step of the slots and the lookups that makes no root. *)
LEMMA RootlessStep ==
  ASSUME CutInv, NEW states, Grown(states), SameMoney(states), EndsWith(states),
         IndexesNew(states), UNCHANGED <<rootVars, prfVars>>
  PROVE  CutStepOK
<1>1. KeepsMarks
  BY DEF prfVars, KeepsMarks
<1>2. AccountsStep
  BY <1>1 DEF AccountsStep
<1> QED BY <1>2 DEF CutStepOK, RootHeals, rootVars, CutInv, CountersInv

LEMMA CutUpsert ==
  ASSUME CutInv, NEW entry, TypedEntry(entry), UpsertAccount(entry)
  PROVE  CutStepOK
<1>1. CASE Rejected
  BY <1>1, CutRejected, Zenon
<1>2. CASE /\ HasAccountIndex(entry.account_id)
           /\ account_states' = ReplaceEntry(account_indices[entry.account_id], entry)
           /\ accounts' = Put(accounts, entry.account_id, entry)
           /\ UNCHANGED <<account_indices, rootVars, prfVars>>
  <2>1. entry \in PrivateAccountEntry /\ entry.account_id \in DOMAIN account_indices
    BY <1>2 DEF HasAccountIndex, CutInv, SlotsInv, TypedEntry
  <2>2. /\ Grown(account_states') /\ SameMoney(account_states')
        /\ HasSlot(account_states', entry.account_id)
    BY <1>2, <2>1, ReplacedSlot DEF CutInv
  <2>3. EndsWith(account_states')
    BY <1>2, <2>2 DEF EndsWith, Grown, Put
  <2> QED BY <1>2, <2>2, <2>3, RootlessStep DEF IndexesNew
<1>3. CASE /\ ValidateAccountId(entry.account_id) /\ ~HasAccountIndex(entry.account_id)
           /\ account_states' = Append(account_states, [entry |-> entry, balance |-> 0])
           /\ account_indices' = Put(account_indices, entry.account_id, NewIndex)
           /\ accounts' = Put(accounts, entry.account_id, entry)
           /\ UNCHANGED <<rootVars, prfVars>>
  <2>1. entry \in PrivateAccountEntry /\ entry.account_id \in AccountIds
    BY <1>3 DEF ValidateAccountId, TypedEntry, PrivateAccountEntry
  <2>2. /\ Grown(account_states') /\ SameMoney(account_states')
        /\ NewIndex + 1 \in DOMAIN account_states'
        /\ account_states'[NewIndex + 1].entry.account_id = entry.account_id
    BY <1>3, <2>1, AppendedSlot DEF CutInv
  <2>3. EndsWith(account_states')
    BY <1>3, <2>2 DEF EndsWith, Grown, Put, HasSlot
  <2>4. IndexesNew(account_states')
    BY <1>3, <2>1, <2>2 DEF IndexesNew, HasAccountIndex
  <2> QED BY <1>3, <2>2, <2>3, <2>4, RootlessStep
<1> QED BY <1>1, <1>2, <1>3 DEF UpsertAccount

(* A commit, complete or cut off, of slots that are typed. *)
LEMMA CommittedStep ==
  ASSUME CutInv, NEW states, Grown(states), IndexesNew(states), CommitEnds(states),
         (SameMoney(states) /\ KeepsMarks) \/ MarksFresh,
         RootHeals
  PROVE  CutStepOK
BY DEF CutStepOK, AccountsStep, CommitEnds

LEMMA CommitStatesHeals ==
  ASSUME CutInv, NEW states, Grown(states), CommitStates(states), UNCHANGED current_epoch
  PROVE  RootHeals
<1>1. current_epoch \in EpochNumber /\ current_epoch_root_keys \in Seq(Root)
  BY DEF CutInv, CountersInv, ControlInv
<1> QED BY <1>1, CommitHeals DEF CommitStates, CutInv, RootHeals

(* The slots of a registration, from the entry it makes. *)
LEMMA RegisteredSlots ==
  ASSUME CutInv, NEW request, TypedRequest(request), ValidateAccountId(request.account_id)
  PROVE  LET entry == [account_id |-> request.account_id, payload |-> request.payload,
                       inclusion_root |-> NoRoot, epoch |-> current_epoch]
             states == Append(account_states, [entry |-> entry, balance |-> 0])
         IN  /\ request.account_id \in AccountIds
             /\ Grown(states) /\ SameMoney(states)
             /\ NewIndex + 1 \in DOMAIN states
             /\ states[NewIndex + 1].entry.account_id = request.account_id
<1> DEFINE entry == [account_id |-> request.account_id, payload |-> request.payload,
                     inclusion_root |-> NoRoot, epoch |-> current_epoch]
<1>1. request.account_id \in AccountIds
  BY DEF TypedRequest, ValidateAccountId
<1>2. entry \in PrivateAccountEntry /\ entry.account_id = request.account_id
  BY <1>1 DEF TypedRequest, ValidateAccountId, PrivateAccountEntry, MerkleRoot,
              CutInv, CountersInv, ControlInv
<1> HIDE DEF entry
<1>3. LET states == Append(account_states, [entry |-> entry, balance |-> 0])
      IN  /\ Grown(states) /\ SameMoney(states)
          /\ NewIndex + 1 \in DOMAIN states
          /\ states[NewIndex + 1].entry.account_id = entry.account_id
  BY <1>2, AppendedSlot DEF CutInv
<1> QED BY <1>1, <1>2, <1>3, Zenon DEF entry

LEMMA CutRegister ==
  ASSUME CutInv, NEW request, TypedRequest(request), Register(request)
  PROVE  CutStepOK
<1> DEFINE entry == [account_id |-> request.account_id, payload |-> request.payload,
                     inclusion_root |-> NoRoot, epoch |-> current_epoch]
           states == Append(account_states, [entry |-> entry, balance |-> 0])
<1>1. CASE Rejected
  BY <1>1, CutRejected, Zenon
<1>2. CASE /\ ValidateAccountId(request.account_id) /\ ~HasAccount(request.account_id)
           /\ account_indices' = Put(account_indices, request.account_id, NewIndex)
           /\ CommitStates(states)
           /\ UNCHANGED <<prfVars, current_epoch>>
  <2>1. /\ request.account_id \in AccountIds
        /\ Grown(states) /\ SameMoney(states)
        /\ NewIndex + 1 \in DOMAIN states
        /\ states[NewIndex + 1].entry.account_id = request.account_id
    BY <1>2, RegisteredSlots, Zenon
  <2> HIDE DEF states
  <2>2. IndexesNew(states)
    BY <1>2, <2>1 DEF IndexesNew, HasAccount
  <2>3. CommitEnds(states)
    BY <1>2, <2>1, CommitStatesEnds DEF Grown, CutInv
  <2>4. KeepsMarks
    BY <1>2 DEF prfVars, KeepsMarks
  <2>5. RootHeals
    BY <1>2, <2>1, CommitStatesHeals
  <2> QED BY <2>1, <2>2, <2>3, <2>4, <2>5, CommittedStep
<1> QED BY <1>1, <1>2, Zenon DEF Register

LEMMA CutSettle ==
  ASSUME CutInv, NEW prf, ValidateFreshPrfOutput(prf),
         NEW states, Grown(states), Settle(prf, states)
  PROVE  CutStepOK
<1>1. MarksFresh /\ IndexesNew(states) /\ CommitStates(states) /\ UNCHANGED current_epoch
  BY DEF Settle, RecordPrfOutput, MarksFresh, ValidateFreshPrfOutput, IndexesNew
<1>2. CommitEnds(states) /\ RootHeals
  BY <1>1, CommitStatesEnds, CommitStatesHeals DEF Grown, CutInv
<1> QED BY <1>1, <1>2, CommittedStep

LEMMA CutMint ==
  ASSUME CutInv, NEW mint, TypedMint(mint), Mint(mint)
  PROVE  CutStepOK
<1>1. CASE Rejected
  BY <1>1, CutRejected, Zenon
<1>2. CASE /\ MintAccepted(mint)
           /\ Settle(mint.prf_output,
                     [account_states EXCEPT
                        ![mint.recipient_index + 1].balance = Sum64(@, mint.value)])
  <2>1. ValidateFreshPrfOutput(mint.prf_output)
    BY <1>2 DEF MintAccepted
  <2>2. Grown([account_states EXCEPT
                 ![mint.recipient_index + 1].balance = Sum64(@, mint.value)])
    BY <1>2, MintedSlots, Zenon DEF CutInv
  <2> QED BY <1>2, <2>1, <2>2, CutSettle, Zenon
<1> QED BY <1>1, <1>2, Zenon DEF Mint

LEMMA CutTransfer ==
  ASSUME CutInv, NEW transfer, TypedTransfer(transfer), Transfer(transfer)
  PROVE  CutStepOK
<1> DEFINE states == MoveBalance(transfer.sender_index, transfer.receiver_index, transfer.value)
<1>1. CASE Rejected
  BY <1>1, CutRejected, Zenon
<1>2. CASE TransferAccepted(transfer) /\ Settle(transfer.prf_output, states)
  <2>1. ValidateFreshPrfOutput(transfer.prf_output)
    BY <1>2 DEF TransferAccepted, TransferValid
  <2>2. Grown(states)
    BY <1>2, TransferredSlots, Zenon DEF CutInv
  <2> QED BY <1>2, <2>1, <2>2, CutSettle, Zenon
<1> QED BY <1>1, <1>2, Zenon DEF Transfer

(* Leaving an epoch forgets its marks, but then the epoch has changed.     *)
LEMMA CutTransition ==
  ASSUME CutInv, HasRoom(1), NEW epoch \in EpochNumber, epoch # current_epoch,
         ApplyEpochTransition(epoch)
  PROVE  CutStepOK
<1>1. Grown(account_states) /\ SameMoney(account_states)
  BY SameSlots DEF CutInv
<1>2. KeepsMarks /\ IndexesNew(account_states)
  BY DEF ApplyEpochTransition, KeepsMarks, IndexesNew
<1>3. ClearedRootKeys \in Seq(Root)
  BY DEF ClearedRootKeys
<1>4. CommitEnds(account_states)
  BY <1>3, AllocationEnds DEF ApplyEpochTransition, CutInv, SlotsInv
<1>5. Healed'
  BY <1>1, <1>3, CommitHeals DEF ApplyEpochTransition, CutInv
<1> QED BY <1>1, <1>2, <1>4, <1>5, CommittedStep DEF RootHeals

LEMMA CutEpochCalls ==
  ASSUME CutInv,
         \/ AdvanceEpoch
         \/ \E epoch \in EpochNumber : AdvanceToEpoch(epoch) \/ set_current_epoch(epoch)
         \/ AdvanceStep
  PROVE  CutStepOK
<1>1. /\ current_epoch \in Nat /\ goal \in Nat /\ root_version \in Nat
      /\ MaxEpoch \in Nat /\ MaxRootVersion \in Nat
      /\ goal <= MaxEpoch
  BY Bounds DEF CutInv, CountersInv, ControlInv, EpochNumber, RootVersion
<1>2. CASE UNCHANGED ledgerVars
  BY <1>2, QuietStep DEF ledgerVars, prfVars, KeepsMarks
<1>3. CASE HasRoom(1) /\ \E epoch \in EpochNumber : epoch # current_epoch /\ ApplyEpochTransition(epoch)
  BY <1>3, CutTransition
<1>4. CASE AdvanceEpoch
  <2>1. current_epoch < MaxEpoch
          => current_epoch + 1 \in EpochNumber /\ current_epoch + 1 # current_epoch
    BY <1>1 DEF EpochNumber
  <2> QED BY <1>2, <1>3, <1>4, <2>1 DEF AdvanceEpoch, Rejected
<1>5. CASE \E epoch \in EpochNumber : AdvanceToEpoch(epoch) \/ set_current_epoch(epoch)
  <2>1. \A epoch \in EpochNumber : epoch < current_epoch => epoch # current_epoch
    BY <1>1 DEF EpochNumber
  <2> QED BY <1>2, <1>3, <1>5, <2>1 DEF AdvanceToEpoch, set_current_epoch, StartLoop, Rejected
<1>6. CASE AdvanceStep
  <2>1. /\ StepEpoch \in EpochNumber /\ StepEpoch # current_epoch
        /\ HasRoom(1)
    BY <1>1, <1>6 DEF AdvanceStep, LoopRuns, StepEpoch, EpochNumber, HasRoom,
                      CutInv, CountersInv, RootRoom
  <2> QED BY <1>3, <1>6, <2>1 DEF AdvanceStep
<1> QED BY <1>4, <1>5, <1>6

LEMMA CutCalls ==
  ASSUME CutInv, Next
  PROVE  CutStepOK
<1>1. TypedCall
  BY CallsAreTyped
<1> QED BY <1>1, CutUpsert, CutRegister, CutMint, CutTransfer, CutEpochCalls, Zenon DEF TypedCall
-----------------------------------------------------------------------------
(* The calls that are cut off.  A call that throws reports nothing, so the *)
(* promise of NextRootHeals is not about it.                               *)

LEMMA CutOrders ==
  /\ ~Done(AccountOrder, 0, "push") /\ ~Done(AccountOrder, 0, "index")
  /\ Done(AccountOrder, 1, "push") /\ ~Done(AccountOrder, 1, "index")
  /\ Done(AccountOrder, 2, "push") /\ Done(AccountOrder, 2, "index")
  /\ \A n \in 0 .. 2 : ~Done(PaymentOrder, n, "move")
<1>1. /\ AccountOrder[1] = "push" /\ AccountOrder[2] = "index"
      /\ PaymentOrder[1] = "mark" /\ PaymentOrder[2] = "list"
  BY DEF AccountOrder, PaymentOrder
<1>2. /\ 1 .. 0 = {} /\ 1 .. 1 = {1} /\ 1 .. 2 = {1, 2}
      /\ \A n \in 0 .. 2 : 1 .. n \subseteq {1, 2}
  OBVIOUS
<1> QED BY <1>1, <1>2 DEF Done

(* A new account cut off before its index is recorded: nothing happened,   *)
(* or there is a slot that no lookup knows.                                *)
LEMMA OrphanSlot ==
  ASSUME CutInv, NEW entry \in PrivateAccountEntry, NEW n \in {0, 1},
         NewAccountCut(entry, n), UNCHANGED <<accounts, rootVars, prfVars>>
  PROVE  CutStepOK
<1>1. UNCHANGED account_indices
  BY CutOrders DEF NewAccountCut
<1>2. CASE n = 0
  <2>1. UNCHANGED account_states
    BY <1>2, CutOrders DEF NewAccountCut
  <2>2. EndsWith(account_states)
    BY <2>1 DEF EndsWith, CutInv, SlotsInv
  <2> QED BY <1>1, <2>2, SameSlots, RootlessStep DEF CutInv, IndexesNew
<1>3. CASE n = 1
  <2>1. account_states' = Append(account_states, [entry |-> entry, balance |-> 0])
    BY <1>3, CutOrders DEF NewAccountCut
  <2>2. Grown(account_states') /\ SameMoney(account_states')
    BY <2>1, AppendedSlot DEF CutInv
  <2>3. EndsWith(account_states')
    BY <2>2 DEF EndsWith, Grown
  <2> QED BY <1>1, <2>2, <2>3, RootlessStep DEF IndexesNew
<1> QED BY <1>2, <1>3

LEMMA TornEntry ==
  ASSUME NEW old \in PrivateAccountEntry, NEW new \in PrivateAccountEntry,
         old.account_id = new.account_id, NEW torn \in Torn(old, new)
  PROVE  torn \in PrivateAccountEntry /\ torn.account_id = new.account_id
BY DEF Torn, PrivateAccountEntry

LEMMA CutOverwrite ==
  ASSUME CutInv, NEW entry \in PrivateAccountEntry, HasAccountIndex(entry.account_id),
         OverwriteThrows(entry, account_indices[entry.account_id]),
         UNCHANGED <<account_indices, rootVars, prfVars>>
  PROVE  CutStepOK
<1> DEFINE id == entry.account_id
           index == account_indices[id]
           old == account_states[index + 1].entry
<1>1. id \in DOMAIN account_indices
  BY DEF HasAccountIndex
<1>2. old \in PrivateAccountEntry /\ old.account_id = id
  <2>1. index + 1 \in DOMAIN account_states /\ old.account_id = id
    BY <1>1 DEF CutInv, SlotsInv
  <2>2. account_states[index + 1] \in AccountState
    BY <2>1, SlotDomain DEF CutInv
  <2> QED BY <2>1, <2>2 DEF AccountState
<1>3. PICK kept \in PrivateAccountEntry :
        /\ kept.account_id = id
        /\ account_states' = ReplaceEntry(index, kept)
        /\ UNCHANGED accounts \/ accounts' \in TornPuts(accounts, id, entry)
  <2>1. CASE /\ \E torn \in Torn(old, entry) : account_states' = ReplaceEntry(index, torn)
             /\ UNCHANGED accounts
    <3> HIDE DEF old, index
    <3> QED BY <1>2, <2>1, TornEntry
  <2>2. CASE /\ account_states' = ReplaceEntry(index, entry)
             /\ accounts' \in TornPuts(accounts, id, entry)
    BY <2>2
  <2> QED BY <2>1, <2>2 DEF OverwriteThrows
<1>4. /\ Grown(account_states') /\ SameMoney(account_states')
      /\ HasSlot(account_states', id)
  BY <1>1, <1>3, ReplacedSlot DEF CutInv
<1>5. DOMAIN accounts' = DOMAIN accounts \/ DOMAIN accounts' = DOMAIN accounts \cup {id}
  <2>1. CASE UNCHANGED accounts
    BY <2>1
  <2>2. CASE accounts' \in TornPuts(accounts, id, entry)
    BY <2>2, TornIds, Zenon
  <2> QED BY <1>3, <2>1, <2>2
<1>6. EndsWith(account_states')
  BY <1>4, <1>5 DEF EndsWith, Grown
<1> QED BY <1>4, <1>6, RootlessStep DEF IndexesNew

LEMMA ThrownUpsert ==
  ASSUME CutInv, NEW entry, TypedEntry(entry), UpsertThrows(entry)
  PROVE  CutStepOK
<1>1. entry \in PrivateAccountEntry /\ entry.account_id \in AccountIds
  BY DEF UpsertThrows, ValidateAccountId, TypedEntry, PrivateAccountEntry
<1>2. UNCHANGED <<rootVars, prfVars>>
  BY DEF UpsertThrows
<1>3. CASE /\ HasAccountIndex(entry.account_id)
           /\ OverwriteThrows(entry, account_indices[entry.account_id])
           /\ UNCHANGED account_indices
  BY <1>1, <1>2, <1>3, CutOverwrite
<1>4. CASE \E n \in {0, 1} : NewAccountCut(entry, n) /\ UNCHANGED accounts
  BY <1>1, <1>2, <1>4, OrphanSlot
<1>5. CASE /\ ~HasAccountIndex(entry.account_id)
           /\ NewAccountCut(entry, 2)
           /\ accounts' \in TornPuts(accounts, entry.account_id, entry)
  <2>1. /\ account_states' = Append(account_states, [entry |-> entry, balance |-> 0])
        /\ account_indices' = Put(account_indices, entry.account_id, NewIndex)
    BY <1>5, CutOrders DEF NewAccountCut
  <2>2. /\ Grown(account_states') /\ SameMoney(account_states')
        /\ NewIndex + 1 \in DOMAIN account_states'
        /\ account_states'[NewIndex + 1].entry.account_id = entry.account_id
    BY <1>1, <2>1, AppendedSlot DEF CutInv
  <2>3. \/ DOMAIN accounts' = DOMAIN accounts
        \/ DOMAIN accounts' = DOMAIN accounts \cup {entry.account_id}
    BY <1>5, TornIds, Zenon
  <2>4. EndsWith(account_states')
    BY <2>2, <2>3 DEF EndsWith, Grown, HasSlot
  <2>5. IndexesNew(account_states')
    BY <1>1, <1>5, <2>1, <2>2 DEF IndexesNew, HasAccountIndex
  <2> QED BY <1>2, <2>2, <2>4, <2>5, RootlessStep
<1> QED BY <1>3, <1>4, <1>5 DEF UpsertThrows

LEMMA ThrownRegister ==
  ASSUME CutInv, NEW request, TypedRequest(request), RegisterThrows(request)
  PROVE  CutStepOK
<1> DEFINE entry == [account_id |-> request.account_id, payload |-> request.payload,
                     inclusion_root |-> NoRoot, epoch |-> current_epoch]
           states == Append(account_states, [entry |-> entry, balance |-> 0])
<1>1. /\ HasRoom(1) /\ ValidateAccountId(request.account_id) /\ ~HasAccount(request.account_id)
      /\ ok' = FALSE /\ UNCHANGED prfVars
      /\ \/ \E n \in {0, 1} : NewAccountCut(entry, n) /\ UNCHANGED <<accounts, rootVars>>
         \/ /\ account_indices' = Put(account_indices, request.account_id, NewIndex)
            /\ CommitOrReplyThrows(states)
  BY Zenon DEF RegisterThrows, Throw
<1>2. /\ request.account_id \in AccountIds
      /\ Grown(states) /\ SameMoney(states)
      /\ NewIndex + 1 \in DOMAIN states
      /\ states[NewIndex + 1].entry.account_id = request.account_id
  BY <1>1, RegisteredSlots, Zenon
<1>3. entry \in PrivateAccountEntry
  BY <1>1 DEF TypedRequest, ValidateAccountId, PrivateAccountEntry, MerkleRoot,
              CutInv, CountersInv, ControlInv
<1> HIDE DEF states, entry
<1>4. CASE \E n \in {0, 1} : NewAccountCut(entry, n) /\ UNCHANGED <<accounts, rootVars>>
  BY <1>1, <1>3, <1>4, OrphanSlot
<1>5. CASE /\ account_indices' = Put(account_indices, request.account_id, NewIndex)
           /\ CommitOrReplyThrows(states)
  <2>1. IndexesNew(states)
    BY <1>1, <1>2, <1>5 DEF IndexesNew, HasAccount
  <2>2. CommitEnds(states)
    BY <1>1, <1>2, <1>5, CommitOrReplyEnds DEF Grown, CutInv
  <2>3. KeepsMarks /\ RootHeals
    BY <1>1 DEF prfVars, KeepsMarks, RootHeals
  <2> QED BY <1>2, <2>1, <2>2, <2>3, CommittedStep
<1> QED BY <1>1, <1>4, <1>5

(* The output is marked before the money moves. *)
LEMMA ThrownPayment ==
  ASSUME CutInv, NEW prf, ValidateFreshPrfOutput(prf),
         NEW states, Grown(states), PaymentThrows(prf, states)
  PROVE  CutStepOK
<1>1. /\ HasRoom(1) /\ ok' = FALSE
      /\ UNCHANGED <<account_indices, current_epoch>>
      /\ \/ \E n \in 0 .. 2 :
              /\ prf_outputs_in_current_epoch' =
                   IF Done(PaymentOrder, n, "mark") THEN MarkUsed(prf)
                   ELSE prf_outputs_in_current_epoch
              /\ account_states' = IF Done(PaymentOrder, n, "move") THEN states
                                   ELSE account_states
              /\ UNCHANGED <<accounts, rootVars>>
         \/ /\ RecordPrfOutput(prf)
            /\ CommitOrReplyThrows(states)
  BY DEF PaymentThrows, Throw
<1>2. CASE \E n \in 0 .. 2 :
             /\ prf_outputs_in_current_epoch' =
                  IF Done(PaymentOrder, n, "mark") THEN MarkUsed(prf)
                  ELSE prf_outputs_in_current_epoch
             /\ account_states' = IF Done(PaymentOrder, n, "move") THEN states
                                  ELSE account_states
             /\ UNCHANGED <<accounts, rootVars>>
  <2>1. UNCHANGED <<account_states, accounts, rootVars>>
    BY <1>2, CutOrders
  <2>2. KeepsMarks
    BY <1>2 DEF KeepsMarks, MarkUsed
  <2> QED BY <1>1, <2>1, <2>2, QuietStep DEF accountVars
<1>3. CASE RecordPrfOutput(prf) /\ CommitOrReplyThrows(states)
  <2>1. MarksFresh /\ IndexesNew(states) /\ RootHeals
    BY <1>1, <1>3 DEF RecordPrfOutput, MarksFresh, ValidateFreshPrfOutput, IndexesNew, RootHeals
  <2>2. CommitEnds(states)
    BY <1>1, <1>3, CommitOrReplyEnds DEF Grown, CutInv
  <2> QED BY <2>1, <2>2, CommittedStep
<1> QED BY <1>1, <1>2, <1>3

LEMMA ThrownMint ==
  ASSUME CutInv, NEW mint, TypedMint(mint), MintThrows(mint)
  PROVE  CutStepOK
<1> DEFINE states == [account_states EXCEPT
                        ![mint.recipient_index + 1].balance = Sum64(@, mint.value)]
<1>1. MintAccepted(mint) /\ PaymentThrows(mint.prf_output, states)
  BY Zenon DEF MintThrows
<1>2. ValidateFreshPrfOutput(mint.prf_output)
  BY <1>1 DEF MintAccepted
<1>3. Grown(states)
  BY <1>1, MintedSlots, Zenon DEF CutInv
<1> QED BY <1>1, <1>2, <1>3, ThrownPayment, Zenon

LEMMA ThrownTransfer ==
  ASSUME CutInv, NEW transfer, TypedTransfer(transfer), TransferThrows(transfer)
  PROVE  CutStepOK
<1> DEFINE states == MoveBalance(transfer.sender_index, transfer.receiver_index, transfer.value)
<1>1. TransferAccepted(transfer) /\ PaymentThrows(transfer.prf_output, states)
  BY Zenon DEF TransferThrows
<1>2. ValidateFreshPrfOutput(transfer.prf_output)
  BY <1>1 DEF TransferAccepted, TransferValid
<1>3. Grown(states)
  BY <1>1, TransferredSlots, Zenon DEF CutInv
<1> QED BY <1>1, <1>2, <1>3, ThrownPayment, Zenon

(* A transition that throws has turned the epoch, and there was room. *)
LEMMA ThrownTurnTurns ==
  ASSUME CutInv, NEW epoch \in EpochNumber, TurnThrows(epoch)
  PROVE  HasRoom(1) /\ epoch # current_epoch /\ current_epoch' = epoch /\ goal' = epoch
<1>1. /\ current_epoch \in Nat /\ goal \in Nat /\ root_version \in Nat
      /\ MaxEpoch \in Nat /\ MaxRootVersion \in Nat
  BY Bounds DEF CutInv, CountersInv, ControlInv, EpochNumber, RootVersion
<1>2. current_epoch' = epoch /\ goal' = epoch
  BY DEF TurnThrows
<1>3. CASE LoopRuns /\ epoch = StepEpoch
  BY <1>1, <1>2, <1>3 DEF LoopRuns, StepEpoch, HasRoom, CutInv, CountersInv, RootRoom
<1>4. CASE HasRoom(1) /\ epoch # current_epoch
  BY <1>2, <1>4
<1> QED BY <1>3, <1>4 DEF TurnThrows

LEMMA ThrownTurn ==
  ASSUME CutInv, NEW epoch \in EpochNumber, TurnThrows(epoch)
  PROVE  CutStepOK
<1>1. /\ ok' = FALSE
      /\ CommitThrows(epoch, ClearedRootKeys, account_states)
      /\ UNCHANGED account_indices
  BY DEF TurnThrows, Throw
<1>2. Grown(account_states) /\ SameMoney(account_states)
  BY SameSlots DEF CutInv
<1>3. ClearedRootKeys \in Seq(Root) /\ account_states \in Seq(AccountState)
  BY DEF ClearedRootKeys, CutInv, SlotsInv
<1>4. CommitEnds(account_states)
  BY <1>1, <1>3, ThrownTurnTurns, CutCommitEnds DEF CutInv
<1>5. KeepsMarks /\ RootHeals /\ IndexesNew(account_states)
  BY <1>1, ThrownTurnTurns DEF KeepsMarks, RootHeals, IndexesNew
<1> QED BY <1>2, <1>4, <1>5, CommittedStep

LEMMA CutSteps ==
  ASSUME CutInv, InterruptedNext
  PROVE  CutStepOK
BY CutCalls, CallerTypes, ThrownUpsert, ThrownRegister, ThrownMint, ThrownTransfer, ThrownTurn,
   Zenon DEF InterruptedNext
-----------------------------------------------------------------------------
(* The counters, and the theorems. *)

LEMMA ControlKept ==
  ASSUME CutInv, InterruptedNext
  PROVE  ControlInv'
<1>1. /\ current_epoch \in Nat /\ goal \in Nat /\ MaxEpoch \in Nat
      /\ current_epoch <= goal /\ goal <= MaxEpoch
      /\ EpochNumber = 0 .. MaxEpoch
  BY Bounds DEF CutInv, CountersInv, ControlInv, EpochNumber
<1>2. CASE UNCHANGED <<current_epoch, goal>> /\ ok' \in BOOLEAN
  BY <1>2 DEF CutInv, CountersInv, ControlInv
<1>3. CASE \E epoch \in EpochNumber : current_epoch' = epoch /\ goal' = epoch /\ ok' \in BOOLEAN
  BY <1>1, <1>3 DEF ControlInv
<1>4. CASE \E epoch \in EpochNumber : StartLoop(epoch)
  BY <1>1, <1>4 DEF StartLoop, ledgerVars, ControlInv
<1>5. CASE \/ \E entry \in Entries : UpsertAccount(entry)
           \/ \E request \in Requests : Register(request)
           \/ \E mint \in Mints : Mint(mint)
           \/ \E transfer \in Transfers : Transfer(transfer)
  BY <1>2, <1>5 DEF UpsertAccount, Register, Mint, Transfer, Settle, Accepted, Rejected, ledgerVars
<1>6. CASE AdvanceEpoch
  <2>1. current_epoch < MaxEpoch => current_epoch + 1 \in EpochNumber
    BY <1>1
  <2> QED BY <1>2, <1>3, <1>6, <2>1
          DEF AdvanceEpoch, ApplyEpochTransition, Accepted, Rejected, ledgerVars
<1>7. CASE \E epoch \in EpochNumber : AdvanceToEpoch(epoch) \/ set_current_epoch(epoch)
  BY <1>2, <1>3, <1>4, <1>7
     DEF AdvanceToEpoch, set_current_epoch, ApplyEpochTransition, Accepted, Rejected, ledgerVars
<1>8. CASE AdvanceStep
  BY <1>1, <1>8 DEF AdvanceStep, LoopRuns, StepEpoch, ApplyEpochTransition, Accepted, ControlInv
<1>9. CASE \/ \E entry \in Entries : UpsertThrows(entry)
           \/ \E request \in Requests : RegisterThrows(request)
           \/ \E mint \in Mints : MintThrows(mint)
           \/ \E transfer \in Transfers : TransferThrows(transfer)
  BY <1>2, <1>9 DEF UpsertThrows, RegisterThrows, MintThrows, TransferThrows, PaymentThrows, Throw
<1>10. CASE \E epoch \in EpochNumber : TurnThrows(epoch)
  BY <1>3, <1>10 DEF TurnThrows, Throw
<1> QED BY <1>5, <1>6, <1>7, <1>8, <1>9, <1>10, Zenon DEF InterruptedNext, Next

LEMMA RoomAfterThrow ==
  ASSUME CutInv, InterruptedNext
  PROVE  RootRoom'
<1>1. /\ root_version \in RootVersion /\ ControlInv /\ RootRoom
      /\ current_epoch \in Nat /\ goal \in Nat /\ root_version \in Nat
      /\ MaxRootVersion \in Nat
  BY Bounds DEF CutInv, CountersInv, ControlInv, EpochNumber, RootVersion
<1>2. CASE Next
  BY <1>1, <1>2, CallsAreTyped, RoomKept
<1>3. root_version' = root_version \/ root_version' = root_version + 1
  BY ThrowAddsVersion DEF VersionStep, AddsVersion
<1>4. CASE UNCHANGED <<root_version, current_epoch, goal>>
  BY <1>1, <1>4 DEF RootRoom
<1>5. CASE Idle /\ HasRoom(1) /\ UNCHANGED <<current_epoch, goal>>
  BY <1>1, <1>3, <1>5 DEF Idle, HasRoom, RootRoom
<1>6. CASE \E epoch \in EpochNumber : TurnThrows(epoch)
  <2>1. PICK epoch \in EpochNumber : TurnThrows(epoch)
    BY <1>6
  <2>2. HasRoom(1) /\ current_epoch' = epoch /\ goal' = epoch
    BY <2>1, ThrownTurnTurns
  <2>3. epoch \in Nat
    BY Bounds DEF EpochNumber
  <2> QED BY <1>1, <1>3, <2>2, <2>3 DEF HasRoom, RootRoom
<1>7. CASE \E entry \in Entries : UpsertThrows(entry)
  BY <1>4, <1>7 DEF UpsertThrows, rootVars
<1>8. CASE \/ \E request \in Requests : RegisterThrows(request)
           \/ \E mint \in Mints : MintThrows(mint)
           \/ \E transfer \in Transfers : TransferThrows(transfer)
  BY <1>5, <1>8 DEF RegisterThrows, MintThrows, TransferThrows, PaymentThrows
<1> QED BY <1>2, <1>6, <1>7, <1>8, Zenon DEF InterruptedNext

LEMMA CutStepKeepsInv ==
  ASSUME CutInv, InterruptedNext
  PROVE  CutInv'
<1>1. SlotsInv' /\ current_epoch_root_keys' \in Seq(Root)
  BY CutSteps, AccountsStepKeeps DEF CutStepOK, CutInv
<1>2. ControlInv' /\ RootRoom'
  BY ControlKept, RoomAfterThrow
<1>3. root_version' \in RootVersion
  <2>1. /\ root_version \in Nat /\ MaxRootVersion \in Nat
        /\ root_version' = root_version \/ root_version' = root_version + 1
    BY Bounds, ThrowAddsVersion DEF CutInv, CountersInv, RootVersion, VersionStep, AddsVersion
  <2>2. current_epoch' \in Nat /\ goal' \in Nat /\ goal' >= current_epoch'
    BY <1>2, Bounds DEF ControlInv, EpochNumber
  <2> QED BY <1>2, <2>1, <2>2 DEF RootRoom, RootVersion
<1> QED BY <1>1, <1>2, <1>3 DEF CutInv, CountersInv

LEMMA InitCut == InterruptedInit => CutInv
<1> SUFFICES ASSUME InterruptedInit
             PROVE  CutInv
  OBVIOUS
<1>1. SlotsInv
  BY DEF InterruptedInit, Init, SlotsInv
<1>2. CountersInv
  <2>1. Inv /\ RootRoom
    BY InitInv, InitRoom DEF InterruptedInit
  <2> QED BY <2>1 DEF Inv, RootsInv, RootsTypeOK, CountersInv
<1> QED BY <1>1, <1>2 DEF CutInv

LEMMA CutInvariance == InterruptedSpec => []CutInv
<1>1. CutInv /\ [InterruptedNext]_interruptedVars => CutInv'
  <2>1. CutInv /\ UNCHANGED interruptedVars => CutInv'
    BY DEF interruptedVars, vars, ledgerVars, accountVars, rootVars,
           CutInv, SlotsInv, HasSlot, CountersInv, ControlInv, RootRoom
  <2> QED BY <2>1, CutStepKeepsInv
<1> QED BY <1>1, InitCut, PTL DEF InterruptedSpec

(* What every step does, complete or cut off. *)
LEMMA CutStepsOK == InterruptedSpec => [][MarksMoves /\ KeepsMarks /\ KeepsKnown /\ RootHeals]_interruptedVars
<1>1. CutInv /\ InterruptedNext => MarksMoves /\ KeepsMarks /\ KeepsKnown /\ RootHeals
  BY CutSteps, AccountsStepKeeps DEF CutStepOK, CutInv
<1> QED BY <1>1, CutInvariance, PTL DEF InterruptedSpec

(* Money moves only in a call that marks a fresh PRF output, and the mark  *)
(* stays for the epoch: a caller who retries after exceptions pays once.   *)
THEOREM RetriesStaySingle == InterruptedSpec => RetriesPayOnce
BY CutStepsOK, PTL DEF RetriesPayOnce

(* Once both lookups know an id, no exception, retry or overwritten entry  *)
(* moves its index or gives its slot to another id.                        *)
THEOREM KnownIndicesAreKept == InterruptedSpec => KnownIndicesStay
BY CutStepsOK, PTL DEF KnownIndicesStay

(* A call that succeeds and makes a root leaves the root usable and every  *)
(* entry whole, whatever exceptions had left torn or stale.                *)
THEOREM RootsHeal == InterruptedSpec => NextRootHeals
BY CutStepsOK, PTL DEF NextRootHeals
=============================================================================
