---------------------------- MODULE OracleLedger ----------------------------
(***************************************************************************)
(* What a user of the plaintext oracle may rely on, without the maps, the  *)
(* entries and the root encodings that keep it: numbered accounts with     *)
(* balances, a journal of payments, root versions issued in some epoch,    *)
(* and PRF outputs that are spent until the epoch changes.  LedgerHistory  *)
(* shows that PlaintextModel implements it.                                *)
(***************************************************************************)
EXTENDS Integers, Sequences

CONSTANTS PRFs, Modulus, Epochs, Window

VARIABLES
  balance,   \* account number -> amount
  spent,     \* PRF outputs used since the epoch last changed
  epoch,
  issued,    \* root version -> epoch in which it was issued
  journal    \* accepted payments, in order

vars == <<balance, spent, epoch, issued, journal>>

(* The number of the account that mints come from. *)
Outside == 0

Init ==
  /\ balance = << >>
  /\ spent = {}
  /\ epoch = 0
  /\ issued = <<0>>
  /\ journal = << >>

IssueRoot == issued' = Append(issued, epoch')

(* A new, empty account, with or without a root of its own. *)
Open ==
  /\ balance' = Append(balance, 0)
  /\ IssueRoot \/ UNCHANGED issued
  /\ UNCHANGED <<spent, epoch, journal>>

(* A payment is based on a root issued inside the window, spends a fresh   *)
(* PRF output, issues the next root and moves the value in one step.  An   *)
(* account that pays itself keeps its balance.                             *)
Pay(from, to, value, prf, basis) ==
  /\ prf \notin spent
  /\ spent' = spent \cup {prf}
  /\ journal' = Append(journal, [from |-> from, to |-> to, value |-> value, prf |-> prf,
                                 basis |-> basis, version |-> Len(issued')])
  /\ from # Outside => balance[from] >= value
  /\ balance' = [a \in DOMAIN balance |->
                   (balance[a] - (IF a = from THEN value ELSE 0)
                               + (IF a = to THEN value ELSE 0)) % Modulus]
  /\ issued[basis] \in epoch - Window .. epoch
  /\ IssueRoot
  /\ UNCHANGED epoch

(* Time moves by one epoch, or is set back. *)
Turn ==
  /\ epoch' \in Epochs
  /\ epoch' # epoch
  /\ epoch' <= epoch + 1
  /\ spent' = {}
  /\ IssueRoot
  /\ UNCHANGED <<balance, journal>>

Next ==
  \/ Open
  \/ \E prf \in PRFs, value \in 0 .. Modulus - 1, basis \in DOMAIN issued,
        from \in DOMAIN balance \cup {Outside}, to \in DOMAIN balance :
       Pay(from, to, value, prf, basis)
  \/ Turn

Spec == Init /\ [][Next]_vars
=============================================================================
