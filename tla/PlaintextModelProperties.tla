---------------------- MODULE PlaintextModelProperties ----------------------
(***************************************************************************)
(* What the plaintext oracle promises about its own state.  The invariants *)
(* are conjunctions that are inductive together: see PlaintextModelProofs. *)
(***************************************************************************)
EXTENDS PlaintextModel

(* account_states and account_indices describe the same accounts: the slot *)
(* of every account is the index its id maps to, and no id has two slots.  *)
AccountsIndexed ==
  /\ \A i \in DOMAIN account_states :
       LET id == account_states[i].entry.account_id
       IN  /\ id \in DOMAIN account_indices
           /\ account_indices[id] = i - 1
  /\ \A id \in DOMAIN account_indices :
       /\ account_indices[id] + 1 \in DOMAIN account_states
       /\ account_states[account_indices[id] + 1].entry.account_id = id

(* Lookup by id and lookup by index agree: accounts_ holds exactly the     *)
(* registered ids, each with the entry stored in its slot.  Register asks  *)
(* one map and UpsertAccount another whether an id is known.               *)
AccountsMirrored ==
  /\ DOMAIN accounts = DOMAIN account_indices
  /\ \A id \in DOMAIN accounts :
       accounts[id] = account_states[account_indices[id] + 1].entry

(* valid_roots_ records each version up to root_version_ under exactly one *)
(* key, and the stored reference carries the epoch and version of its key. *)
RootsRecorded ==
  /\ \A root \in DOMAIN valid_roots :
       /\ valid_roots[root] = Reference(root.e, root.v)
       /\ root.v \in 1 .. root_version
  /\ \A version \in 1 .. root_version :
       \E root \in DOMAIN valid_roots : root.v = version
  /\ \A r1, r2 \in DOMAIN valid_roots : r1.v = r2.v => r1 = r2

(* current_epoch_root_keys_ lists a run of consecutive versions, all made  *)
(* in the current epoch, that ends in the current root: the list restarts  *)
(* at every epoch transition and grows with every state change.            *)
RootsListed ==
  /\ current_epoch_root_keys # << >>
  /\ Len(current_epoch_root_keys) <= root_version
  /\ \A i \in DOMAIN current_epoch_root_keys :
       /\ current_epoch_root_keys[i] \in DOMAIN valid_roots
       /\ current_epoch_root_keys[i] =
            MakeRoot(current_epoch, root_version - Len(current_epoch_root_keys) + i)
  /\ current_root = Reference(current_epoch, root_version)

(* A reference returned by current_root_reference() or listed by           *)
(* current_root_versions() is accepted by ValidateReferencedRoot as long   *)
(* as it is current, also after set_current_epoch has moved backwards.     *)
ListedRootsUsable ==
  /\ IsValidRoot(current_root)
  /\ \A i \in DOMAIN current_epoch_root_keys :
       IsValidRoot(valid_roots[current_epoch_root_keys[i]])

(* No epoch up to the current one is without a root, so the validity       *)
(* window never hangs over an epoch that was skipped: AdvanceToEpoch makes *)
(* a root for every epoch it passes.                                       *)
EpochsHaveRoots ==
  \A epoch \in 0 .. current_epoch :
    \E root \in DOMAIN valid_roots : root.e = epoch

(* The replay set and the list of accepted outputs agree: the list is      *)
(* duplicate-free and holds what the set holds (used_prf_output_count and  *)
(* accepted_prf_output_count of InspectEpochState are equal).              *)
PrfOutputsTracked ==
  /\ prf_outputs_in_current_epoch =
       {accepted_prf_outputs_in_current_epoch[i] :
          i \in DOMAIN accepted_prf_outputs_in_current_epoch}
  /\ \A i, j \in DOMAIN accepted_prf_outputs_in_current_epoch :
       accepted_prf_outputs_in_current_epoch[i] = accepted_prf_outputs_in_current_epoch[j]
         => i = j

-----------------------------------------------------------------------------
KeepsIndices ==
  \A id \in DOMAIN account_indices :
    /\ id \in DOMAIN account_indices'
    /\ account_indices'[id] = account_indices[id]
    /\ account_states'[account_indices[id] + 1].entry.account_id = id

CommitsBalances ==
  root_version' = root_version
    => \A i \in DOMAIN account_states :
         account_states'[i].balance = account_states[i].balance

StampsEntries ==
  root_version' # root_version
    => /\ \A i \in DOMAIN account_states' :
            /\ account_states'[i].entry.epoch = current_epoch'
            /\ account_states'[i].entry.inclusion_root = current_root'.root
       /\ \A id \in DOMAIN account_indices' :
            accounts'[id] = account_states'[account_indices'[id] + 1].entry

(* An account keeps its index and its id for good ("each registered        *)
(* account receives a stable AccountIndex", docs/architecture.md:58), also *)
(* when UpsertAccount replaces its entry.                                  *)
IndicesStable == [][KeepsIndices]_vars

(* A root version stands for one balance vector: no existing balance       *)
(* changes unless the version grows.  UpsertAccount, which makes no root,  *)
(* must keep the balance of the entry it replaces.                         *)
RootCommitsBalances == [][CommitsBalances]_vars

(* With every new root, every entry reachable by id or by index carries    *)
(* that root and the epoch of it, however stale UpsertAccount had left it. *)
EntriesFollowRoot == [][StampsEntries]_vars

(* AdvanceToEpoch and a forward set_current_epoch come to an end, at the   *)
(* epoch they were asked for.                                              *)
LoopReachesGoal ==
  \A epoch \in EpochNumber :
    (goal = epoch /\ current_epoch < epoch) ~> (current_epoch = epoch /\ Idle)
-----------------------------------------------------------------------------
(* Statements of docs/architecture.md that the code does not keep: the     *)
(* runs that check them end in a violation (see README.md).                *)

(* "Every successful state transition, including epoch advance, produces a *)
(* new placeholder root version." (line 60)                                *)
SuccessMakesRoot ==
  [][ok' /\ ledgerVars' # ledgerVars => root_version' > root_version]_vars

(* "The oracle tracks every root generated in the current epoch" (line 62) *)
EveryCurrentRootListed ==
  \A root \in DOMAIN valid_roots :
    root.e = current_epoch
      => \E i \in DOMAIN current_epoch_root_keys : current_epoch_root_keys[i] = root
=============================================================================
