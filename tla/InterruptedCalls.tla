-------------------------- MODULE InterruptedCalls --------------------------
(***************************************************************************)
(* The oracle when memory runs out.  UpsertAccount, Register, Mint,        *)
(* Transfer and an epoch transition change several containers one after    *)
(* the other; each insertion and each copy of a string or byte vector may  *)
(* throw std::bad_alloc, and nothing is rolled back.  The exception leaves *)
(* the oracle as far as the call had got, and the caller may retry or call *)
(* anything else.                                                          *)
(*                                                                         *)
(* One thread runs the oracle, so nobody sees it in the middle of a call:  *)
(* a call that throws is one step, from which the first n of its changes   *)
(* remain.  ok is then FALSE, as no result was returned.                   *)
(***************************************************************************)
EXTENDS PlaintextModel

CONSTANTS
  NoPayload,   \* the payload of a default-constructed entry
  MaxFaults    \* BOUND: exceptions in a behaviour

ASSUME FaultsAssumption == MaxFaults \in Nat

VARIABLE faults   \* exceptions so far

interruptedVars == <<vars, faults>>

(* The order in which each kind of call makes its changes. *)
AccountOrder == <<"push", "index">>

SlipPayFirst == <<"move", "mark", "list">>

PaymentOrder == <<"mark", "list", "move">>

SlipBumpLate == <<"record", "bump", "list", "current">>

RootOrder == <<"bump", "record", "list", "current">>

Done(order, n, change) == \E i \in 1 .. n : order[i] = change

Throw ==
  /\ faults < MaxFaults
  /\ faults' = faults + 1
  /\ ok' = FALSE

-----------------------------------------------------------------------------
DefaultEntry ==
  [account_id |-> "", payload |-> NoPayload, inclusion_root |-> NoRoot, epoch |-> 0]

(* What a copy assignment of entries leaves that throws: the members are   *)
(* assigned in their order, and the last one cannot throw.                 *)
Torn(old, new) ==
  {old, [old EXCEPT !.account_id = new.account_id],
        [old EXCEPT !.account_id = new.account_id, !.payload = new.payload]}

(* m[key] = new, when it throws: perhaps key got a default entry first. *)
TornPuts(m, key, new) ==
  {m} \cup {Put(m, key, torn) :
              torn \in Torn(IF key \in DOMAIN m THEN m[key] ELSE DefaultEntry, new)}

(* RefreshAllAccountRoots throws at slot n: with only the epoch of the     *)
(* entry assigned, or in the copy of the entry to accounts.                *)
RefreshThrows(states, reference) ==
  \E n \in DOMAIN states :
    LET stamped == Stamped(states, reference)
        copied == Mirrored(SubSeq(stamped, 1, n - 1))
        Slots(nth) == [i \in DOMAIN states |->
                         IF i < n THEN stamped[i] ELSE IF i = n THEN nth ELSE states[i]]
    IN  \/ /\ account_states' = Slots([states[n] EXCEPT !.entry.epoch = reference.epoch])
           /\ accounts' = copied
        \/ /\ account_states' = Slots(stamped[n])
           /\ accounts' \in TornPuts(copied, stamped[n].entry.account_id, stamped[n].entry)

(* AllocateNextRoot or the refresh after it throws. *)
CommitThrows(epoch, keys, states) ==
  \E n \in DOMAIN RootOrder :
    /\ root_version' = IF Done(RootOrder, n, "bump") THEN root_version + 1 ELSE root_version
    /\ valid_roots' = IF Done(RootOrder, n, "record") THEN RecordRoot(NextRoot(epoch))
                      ELSE valid_roots
    /\ current_epoch_root_keys' = IF Done(RootOrder, n, "list")
                                  THEN ListRoot(keys, NextRoot(epoch).root) ELSE keys
    /\ current_root' = IF Done(RootOrder, n, "current") THEN NextRoot(epoch) ELSE current_root
    /\ IF n = Len(RootOrder) THEN RefreshThrows(states, NextRoot(epoch))
       ELSE account_states' = states /\ UNCHANGED accounts

(* A call throws in the commit of its states, or after it, in the copy of  *)
(* the reply.                                                              *)
CommitOrReplyThrows(states) ==
  \/ CommitThrows(current_epoch, current_epoch_root_keys, states)
  \/ CommitStates(states)

(* The changes of AccountOrder that are left when a new account is cut off *)
(* after the first n of them.                                              *)
NewAccountCut(entry, n) ==
  /\ account_states' = IF Done(AccountOrder, n, "push")
                       THEN Append(account_states, [entry |-> entry, balance |-> 0])
                       ELSE account_states
  /\ account_indices' = IF Done(AccountOrder, n, "index")
                        THEN Put(account_indices, entry.account_id, NewIndex)
                        ELSE account_indices

(* The entry is copied to its slot first, then to accounts. *)
OverwriteThrows(entry, index) ==
  \/ /\ \E torn \in Torn(account_states[index + 1].entry, entry) :
            account_states' = ReplaceEntry(index, torn)
     /\ UNCHANGED accounts
  \/ /\ account_states' = ReplaceEntry(index, entry)
     /\ accounts' \in TornPuts(accounts, entry.account_id, entry)

UpsertThrows(entry) ==
  /\ Idle /\ ValidateAccountId(entry.account_id)
  /\ Throw
  /\ \/ /\ HasAccountIndex(entry.account_id)
        /\ OverwriteThrows(entry, account_indices[entry.account_id])
        /\ UNCHANGED account_indices
     \/ /\ ~HasAccountIndex(entry.account_id)
        /\ \/ \E n \in {0, 1} : NewAccountCut(entry, n) /\ UNCHANGED accounts
           \/ NewAccountCut(entry, 2) /\ accounts' \in TornPuts(accounts, entry.account_id, entry)
  /\ UNCHANGED <<rootVars, prfVars, current_epoch, goal>>

RegisterThrows(request) ==
  LET entry == [account_id |-> request.account_id, payload |-> request.payload,
                inclusion_root |-> NoRoot, epoch |-> current_epoch]
  IN  /\ Idle /\ HasRoom(1)
      /\ ValidateAccountId(request.account_id) /\ ~HasAccount(request.account_id)
      /\ Throw
      /\ \/ \E n \in {0, 1} : NewAccountCut(entry, n) /\ UNCHANGED <<accounts, rootVars>>
         \/ /\ account_indices' = Put(account_indices, request.account_id, NewIndex)
            /\ CommitOrReplyThrows(Append(account_states, [entry |-> entry, balance |-> 0]))
      /\ UNCHANGED <<prfVars, current_epoch, goal>>

PaymentThrows(prf_output, states) ==
  /\ Idle /\ HasRoom(1)
  /\ Throw
  /\ \/ \E n \in 0 .. 2 :
          /\ prf_outputs_in_current_epoch' =
               IF Done(PaymentOrder, n, "mark") THEN MarkUsed(prf_output)
               ELSE prf_outputs_in_current_epoch
          /\ accepted_prf_outputs_in_current_epoch' =
               IF Done(PaymentOrder, n, "list")
               THEN Append(accepted_prf_outputs_in_current_epoch, prf_output)
               ELSE accepted_prf_outputs_in_current_epoch
          /\ account_states' = IF Done(PaymentOrder, n, "move") THEN states ELSE account_states
          /\ UNCHANGED <<accounts, rootVars>>
     \/ /\ RecordPrfOutput(prf_output)
        /\ CommitOrReplyThrows(states)
  /\ UNCHANGED <<account_indices, current_epoch, goal>>

MintThrows(mint) ==
  /\ MintAccepted(mint)
  /\ PaymentThrows(mint.prf_output,
       [account_states EXCEPT ![mint.recipient_index + 1].balance = Sum64(@, mint.value)])

TransferThrows(transfer) ==
  /\ TransferAccepted(transfer)
  /\ PaymentThrows(transfer.prf_output,
       MoveBalance(transfer.sender_index, transfer.receiver_index, transfer.value))

(* A transition forward, in the loop of AdvanceToEpoch (which it leaves) or *)
(* by itself, or back: what it clears and assigns first cannot throw.      *)
TurnThrows(epoch) ==
  /\ \/ LoopRuns /\ epoch = StepEpoch
     \/ Idle /\ HasRoom(1) /\ epoch \in (0 .. current_epoch + 1) \ {current_epoch}
  /\ Throw
  /\ current_epoch' = epoch
  /\ goal' = epoch
  /\ ForgetPrfOutputs
  /\ CommitThrows(epoch, ClearedRootKeys, account_states)
  /\ UNCHANGED account_indices
-----------------------------------------------------------------------------
InterruptedInit == Init /\ faults = 0

InterruptedNext ==
  \/ Next /\ UNCHANGED faults
  \/ \E entry \in Entries : UpsertThrows(entry)
  \/ \E request \in Requests : RegisterThrows(request)
  \/ \E mint \in Mints : MintThrows(mint)
  \/ \E transfer \in Transfers : TransferThrows(transfer)
  \/ \E epoch \in EpochNumber : TurnThrows(epoch)

InterruptedSpec == InterruptedInit /\ [][InterruptedNext]_interruptedVars
-----------------------------------------------------------------------------
MarksMoves ==
  (\E i \in DOMAIN account_states : account_states'[i].balance # account_states[i].balance)
    => /\ current_epoch' = current_epoch
       /\ prf_outputs_in_current_epoch' # prf_outputs_in_current_epoch

KeepsMarks ==
  prf_outputs_in_current_epoch \subseteq prf_outputs_in_current_epoch'
    \/ current_epoch' # current_epoch

(* A payment is made at most once per visit to an epoch, however often the *)
(* caller retries after an exception: money moves only in a call that adds *)
(* a PRF output to the replay set, where it stays until the epoch changes. *)
(* A payment that threw may be lost for the epoch; it is never doubled.    *)
RetriesPayOnce == [][MarksMoves /\ KeepsMarks]_interruptedVars

KeepsKnown ==
  \A id \in DOMAIN accounts \cap DOMAIN account_indices :
    /\ id \in DOMAIN accounts' \cap DOMAIN account_indices'
    /\ account_indices'[id] = account_indices[id]
    /\ account_indices[id] + 1 \in DOMAIN account_states'
    /\ account_states'[account_indices[id] + 1].entry.account_id = id

(* An index returned by a call keeps standing for its account after any    *)
(* exception, retry or overwritten entry: once both lookups know an id,    *)
(* its index does not move and the slot there is of that id.               *)
KnownIndicesStay == [][KeepsKnown]_interruptedVars

CarriesRoot(entry) ==
  entry.inclusion_root = current_root.root /\ entry.epoch = current_epoch

Healed ==
  /\ IsValidRoot(current_root)
  /\ current_root.epoch = current_epoch
  /\ current_epoch_root_keys[Len(current_epoch_root_keys)] = current_root.root
  /\ \A i \in DOMAIN account_states :
       /\ CarriesRoot(account_states[i].entry)
       /\ account_states[i].entry.account_id \in DOMAIN accounts
  /\ \A id \in DOMAIN accounts :
       accounts[id].account_id = id /\ CarriesRoot(accounts[id])

RootHeals == ok' /\ root_version' # root_version => Healed'

(* One call that succeeds and makes a root repairs what exceptions left    *)
(* stale or torn: the current root is listed and usable, and every entry   *)
(* of either container is whole and carries it, also those of accounts     *)
(* whose registration was cut off.                                         *)
NextRootHeals == [][RootHeals]_interruptedVars

(* No two roots ever share a version, and a recorded root keeps its own    *)
(* epoch and version: the counter moves before anything that can throw, so *)
(* a version given out in a call that threw is not given out again.        *)
VersionsUnique ==
  /\ \A r1, r2 \in DOMAIN valid_roots : r1.v = r2.v => r1 = r2
  /\ \A root \in DOMAIN valid_roots :
       root.v <= root_version /\ valid_roots[root] = Reference(root.e, root.v)
=============================================================================
