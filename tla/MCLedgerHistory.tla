-------------------------- MODULE MCLedgerHistory ---------------------------
(***************************************************************************)
(* Small instances of the journaled oracle for TLC.                        *)
(***************************************************************************)
EXTENDS LedgerHistory, TLC

(* An existing root whose epoch was altered to one that the window may     *)
(* accept when the real one has left it.                                   *)
RedatedReferences ==
  {[root |-> MakeRoot(0, 1), epoch |-> epoch, version |-> 1] : epoch \in EpochNumber \ {0}}

(* One of them is enough where two accounts make runs long. *)
OneRedatedReference == {[root |-> MakeRoot(0, 1), epoch |-> 1, version |-> 1]}

NoReferences == {}

Symmetry == Permutations(AccountIds) \cup Permutations(PRFOutputs)
=============================================================================
