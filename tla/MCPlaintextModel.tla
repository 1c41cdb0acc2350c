-------------------------- MODULE MCPlaintextModel --------------------------
(***************************************************************************)
(* A small instance of the oracle for TLC.                                 *)
(***************************************************************************)
EXTENDS PlaintextModelProperties, TLC

(* The kinds of reference a caller can invent: the default-constructed     *)
(* one, a root that may not exist, and existing roots with altered epoch   *)
(* or version.                                                             *)
InventedReferences ==
  {[root |-> NoRoot, epoch |-> 0, version |-> 0],
   [root |-> MakeRoot(0, MaxRootVersion), epoch |-> 0, version |-> MaxRootVersion],
   [root |-> MakeRoot(0, 1), epoch |-> MaxEpoch, version |-> 1],
   [root |-> MakeRoot(0, 1), epoch |-> 0, version |-> 2]}

(* Account ids, payloads and PRF outputs are only compared for equality.   *)
Symmetry ==
  Permutations(AccountIds) \cup Permutations(Payloads) \cup Permutations(PRFOutputs)
=============================================================================
