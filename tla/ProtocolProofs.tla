--------------------------- MODULE ProtocolProofs ---------------------------
(***************************************************************************)
(* Proofs about Protocol: its entry points do to the oracle what calls of  *)
(* the oracle do, so what is proved of the oracle holds under them too;    *)
(* and they fail closed.                                                   *)
(***************************************************************************)
EXTENDS Protocol, PlaintextModelProofs

(* Registration calls UpsertAccount with an entry callers could pass.      *)
LEMMA RegistrationUpserts ==
  ASSUME NEW request \in ProtocolRequests, Registration(request)
  PROVE  \/ UNCHANGED vars /\ reported' = "malformed"
         \/ /\ \E entry \in Entries : UpsertAccount(entry)
            /\ reported' = IF ok' THEN UnimplementedStatus ELSE "malformed"
<1> DEFINE entry == [account_id |-> request.account_id, payload |-> request.payload,
                     inclusion_root |-> NoRoot, epoch |-> request.epoch]
<1>1. entry \in Entries
  BY DEF ProtocolRequests, Entries
<1> QED BY <1>1 DEF Registration

(* Every step of the composition is a step of the oracle or none.          *)
LEMMA ProtocolStepIsOracleStep ==
  ASSUME [ProtocolNext]_protocolVars
  PROVE  [Next]_vars
<1>1. ASSUME NEW request \in ProtocolRequests, Registration(request)
      PROVE  [Next]_vars
  BY <1>1, RegistrationUpserts DEF Next
<1>2. ASSUME NEW transaction \in CallerMintTxs, ProcessMintTransaction(transaction)
      PROVE  [Next]_vars
  BY <1>2 DEF ProcessMintTransaction
<1>3. ASSUME NEW transaction \in CallerTransferTxs, ProcessTransferTransaction(transaction)
      PROVE  [Next]_vars
  BY <1>3 DEF ProcessTransferTransaction
<1>4. CASE UNCHANGED protocolVars
  BY <1>4 DEF protocolVars
<1> QED BY <1>1, <1>2, <1>3, <1>4, Zenon DEF ProtocolNext

FailsClosed ==
  reported' # "none"
    => /\ reported' \in {"malformed", UnimplementedStatus}
       /\ UNCHANGED <<rootVars, prfVars, current_epoch>>
       /\ reported' = "malformed" => UNCHANGED accountVars
       /\ \A i \in DOMAIN account_states' :
            account_states'[i].balance =
              IF i \in DOMAIN account_states THEN account_states[i].balance ELSE 0

LEMMA QuietCallFailsClosed ==
  ASSUME UNCHANGED vars, reported' \in {"malformed", UnimplementedStatus}
  PROVE  FailsClosed
BY DEF vars, ledgerVars, accountVars, FailsClosed

LEMMA ProtocolStepFailsClosed ==
  ASSUME Inv, ProtocolNext
  PROVE  FailsClosed
<1>1. CASE Next /\ reported' = "none"
  BY <1>1 DEF FailsClosed
<1>2. ASSUME NEW request \in ProtocolRequests, Registration(request)
      PROVE  FailsClosed
  <2>1. CASE UNCHANGED vars /\ reported' = "malformed"
    BY <2>1, QuietCallFailsClosed
  <2>2. CASE /\ \E entry \in Entries : UpsertAccount(entry)
             /\ reported' = IF ok' THEN UnimplementedStatus ELSE "malformed"
    BY <2>2, UpsertMovesNothing, CallerTypes DEF FailsClosed, UnimplementedStatus
  <2> QED BY <1>2, <2>1, <2>2, RegistrationUpserts
<1>3. ASSUME NEW transaction \in CallerMintTxs, ProcessMintTransaction(transaction)
      PROVE  FailsClosed
  BY <1>3, QuietCallFailsClosed DEF ProcessMintTransaction, MintStatus
<1>4. ASSUME NEW transaction \in CallerTransferTxs, ProcessTransferTransaction(transaction)
      PROVE  FailsClosed
  BY <1>4, QuietCallFailsClosed DEF ProcessTransferTransaction, TransferStatus
<1> QED BY <1>1, <1>2, <1>3, <1>4 DEF ProtocolNext

-----------------------------------------------------------------------------
(* The oracle under the protocol's calls and its own behaves as an oracle  *)
(* under its own calls only: every theorem about Spec carries over.        *)
THEOREM ProtocolImplementsOracle == ProtocolSpec => Spec
<1>1. ProtocolInit => Init
  BY DEF ProtocolInit
<1>2. [ProtocolNext]_protocolVars => [Next]_vars
  BY ProtocolStepIsOracleStep
<1> QED BY <1>1, <1>2, PTL DEF ProtocolSpec, Spec

(* No protocol call reports success, and none moves money, makes a root or *)
(* touches the replay state; malformed calls change nothing.               *)
THEOREM ProtocolStaysClosed == ProtocolSpec => ProtocolFailsClosed
<1>1. Inv /\ [ProtocolNext]_protocolVars => [FailsClosed]_protocolVars
  BY ProtocolStepFailsClosed
<1>2. ProtocolSpec => []Inv
  BY ProtocolImplementsOracle, Invariance, PTL
<1>3. ProtocolFailsClosed <=> [][FailsClosed]_protocolVars
  BY PTL DEF ProtocolFailsClosed, FailsClosed
<1> QED BY <1>1, <1>2, <1>3, PTL DEF ProtocolSpec
=============================================================================
