---------------------------- MODULE MCOracleUser ----------------------------
(***************************************************************************)
(* A small instance of the library and its user.                           *)
(***************************************************************************)
EXTENDS OracleUser

Symmetry == Permutations(AccountIds)
=============================================================================
