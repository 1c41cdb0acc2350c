--------------------------- MODULE LedgerHistory ----------------------------
(***************************************************************************)
(* PlaintextModel with a journal of the payments it has accepted.  The     *)
(* journal is a history variable: it restricts no call, and it lets the    *)
(* properties relate what is held now, and what is accepted now, to what   *)
(* was accepted before.                                                    *)
(***************************************************************************)
EXTENDS PlaintextModel

VARIABLE journal   \* sequence of payments; accounts are numbered from 1

historyVars == <<vars, journal>>

(* The number of the account that mints come from. *)
Outside == 0

Payment(from, to, call) ==
  [from |-> from, to |-> to, value |-> call.value, prf |-> call.prf_output,
   basis |-> call.referenced_root.root.v, version |-> root_version + 1]

Record(payment) == journal' = IF ok' THEN Append(journal, payment) ELSE journal

HistoryInit == Init /\ journal = << >>

JournaledMint(mint) ==
  /\ Mint(mint)
  /\ Record(Payment(Outside, mint.recipient_index + 1, mint))

JournaledTransfer(transfer) ==
  /\ Transfer(transfer)
  /\ Record(Payment(transfer.sender_index + 1, transfer.receiver_index + 1, transfer))

UnpaidNext ==
  \/ \E entry \in Entries : UpsertAccount(entry)
  \/ \E request \in Requests : Register(request)
  \/ AdvanceEpoch
  \/ \E epoch \in EpochNumber : AdvanceToEpoch(epoch)
  \/ \E epoch \in EpochNumber : set_current_epoch(epoch)
  \/ AdvanceStep

HistoryNext ==
  \/ \E mint \in Mints : JournaledMint(mint)
  \/ \E transfer \in Transfers : JournaledTransfer(transfer)
  \/ UnpaidNext /\ UNCHANGED journal

HistorySpec == HistoryInit /\ [][HistoryNext]_historyVars
-----------------------------------------------------------------------------
(* The epoch in which each version was made, as valid_roots has it.  The   *)
(* epoch changes between two consecutive versions exactly when a transition*)
(* made the later one, so this is also the record of the transitions.      *)
Issued ==
  [version \in 1 .. root_version |->
     (CHOOSE root \in DOMAIN valid_roots : root.v = version).e]

(* The balances alone, by account number. *)
Balances == [i \in DOMAIN account_states |-> account_states[i].balance]

TurnedBetween(first, last) ==
  \E version \in first + 1 .. last : Issued[version] # Issued[version - 1]

RewoundBetween(first, last) ==
  \E version \in first + 1 .. last : Issued[version] < Issued[version - 1]

(* What the first n payments add up to for an account, in whole numbers.   *)
Total(account, n) ==
  LET total[k \in 0 .. n] ==
        IF k = 0 THEN 0
        ELSE total[k - 1] - (IF account = journal[k].from THEN journal[k].value ELSE 0)
                          + (IF account = journal[k].to THEN journal[k].value ELSE 0)
  IN  total[n]

(* No payment is lost, applied twice or applied to the wrong account: each *)
(* balance is what the journal adds up to, whatever entries UpsertAccount  *)
(* replaced and epochs passed meanwhile, and a transfer to oneself counts  *)
(* as nothing.  This is as far as balances are exact: std::uint64_t drops  *)
(* multiples of 2^64 without an error (see BalancesExact).                 *)
BalancesReplay ==
  \A i \in DOMAIN account_states :
    account_states[i].balance = Total(i, Len(journal)) % AmountModulus

(* Whoever sent a transfer had the money at that moment, counted from the  *)
(* payments before it, and without what a wrap-around had taken from it.   *)
NoOverdraft ==
  \A n \in DOMAIN journal :
    journal[n].from # Outside
      => Total(journal[n].from, n - 1) % AmountModulus >= journal[n].value

(* The outputs refused as used are exactly those of the payments accepted  *)
(* since the epoch last changed: a refused payment burns none, however     *)
(* late it fails, and an accepted one is remembered until the epoch turns  *)
(* and no longer ("failed transactions do not mutate [...] PRFOutput       *)
(* replay state", docs/architecture.md:66).                                *)
OutputsPaidFor ==
  prf_outputs_in_current_epoch =
    {journal[n].prf :
       n \in {m \in DOMAIN journal : ~TurnedBetween(journal[m].version, root_version)}}

(* Between two accepted uses of one PRF output there is an epoch change.   *)
PrfOncePerEra ==
  \A m, n \in DOMAIN journal :
    m < n /\ journal[m].prf = journal[n].prf
      => TurnedBetween(journal[m].version, journal[n].version)

(* The validity window bounds how often one payment, with its PRF output   *)
(* and root reference, can be accepted again: unless time was set back, in *)
(* the epoch of its root and in the next one only.                         *)
ReplayBound ==
  \A m, n, o \in DOMAIN journal :
    /\ m < n /\ n < o
    /\ journal[m].prf = journal[n].prf /\ journal[n].prf = journal[o].prf
    /\ journal[m].basis = journal[n].basis /\ journal[n].basis = journal[o].basis
    => RewoundBetween(journal[m].version, journal[o].version)

(* A payment is accepted only in the epoch in which the root it refers to  *)
(* was really made or in the next, whatever epoch the reference claims.    *)
BasisInWindow ==
  \A n \in DOMAIN journal :
    Issued[journal[n].version] - Issued[journal[n].basis] \in 0 .. 1

(* The oracle implements the abstract ledger. *)
Ledger == INSTANCE OracleLedger WITH
  PRFs <- PRFOutputs,
  Modulus <- AmountModulus,
  Epochs <- EpochNumber,
  Window <- 1,
  balance <- Balances,
  spent <- prf_outputs_in_current_epoch,
  epoch <- current_epoch,
  issued <- Issued

ImplementsLedger == Ledger!Spec
-----------------------------------------------------------------------------
(* Statements of docs/architecture.md that the code does not keep: the     *)
(* runs that check them end in a violation (see README.md).                *)

(* "Balances are stored in plaintext and updated exactly by mint and       *)
(* transfer." (line 59)                                                    *)
BalancesExact ==
  \A i \in DOMAIN account_states :
    account_states[i].balance = Total(i, Len(journal))

(* "A PRFOutput may be used at most once per epoch." (line 65)             *)
PrfOncePerEpoch ==
  \A m, n \in DOMAIN journal :
    m # n /\ journal[m].prf = journal[n].prf
      => Issued[journal[m].version] # Issued[journal[n].version]
=============================================================================
