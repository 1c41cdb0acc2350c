--------------------------- MODULE VectorCircuits ---------------------------
(***************************************************************************)
(* EqualBitVectors and ReduceAnd of src/src/fhe/circuits.cpp, whose loops  *)
(* run over vectors of any length: one step per iteration.  A behaviour is *)
(* one call, on any vectors, bits of the wrong backend included.           *)
(***************************************************************************)
EXTENDS BitCircuits, Sequences

CONSTANT Vectors   \* the bit vectors callers pass

ASSUME VectorsAssumption == Vectors \subseteq Seq(BitValue)

VARIABLES
  call,          \* the circuit called
  context,       \* the backend it is called with
  lhs, rhs,      \* the operands of EqualBitVectors
  bits,          \* equal_bits while it grows, then the operand of ReduceAnd
  i,             \* iterations of the current loop that are done
  accumulated,
  pc             \* "compare" and "reduce" are the loops

operands == <<call, context, lhs, rhs>>
vars == <<operands, bits, i, accumulated, pc>>

AllOfBackend(vector) == \A n \in DOMAIN vector : vector[n].backend = context.kind

Init ==
  /\ context \in Contexts
  /\ context.enabled => context.openfhe
  /\ i = 0
  /\ accumulated = Fake(FALSE)
  /\ \/ /\ call = "EqualBitVectors"
        /\ lhs \in Vectors /\ rhs \in Vectors
        /\ bits = << >>
        /\ pc = "enter"
     \/ /\ call = "ReduceAnd"
        /\ lhs = << >> /\ rhs = << >>
        /\ bits \in Vectors
        /\ pc = "enter reduce"

SlipUnnoticed(bit) == FALSE

Failed(bit) == bit = Aborted

(* The program is gone, or the call returns bit. *)
Abort == pc' = "aborted" /\ UNCHANGED <<operands, bits, i, accumulated>>

Result(bit) ==
  /\ accumulated' = bit
  /\ pc' = "done"
  /\ UNCHANGED <<operands, bits, i>>

SlipAssertSizes == AllOfBackend(lhs) /\ AllOfBackend(rhs) /\ Len(lhs) = Len(rhs)

OperandsAsserted == AllOfBackend(lhs) /\ AllOfBackend(rhs)

EnterEqual ==
  /\ pc = "enter"
  /\ \/ /\ ~OperandsAsserted \/ (Len(lhs) # Len(rhs) /\ Failed(Constant(context, FALSE)))
        /\ Abort
     \/ /\ OperandsAsserted
        /\ Len(lhs) # Len(rhs)
        /\ ~Failed(Constant(context, FALSE))
        /\ Result(Constant(context, FALSE))
     \/ /\ OperandsAsserted
        /\ Len(lhs) = Len(rhs)
        /\ pc' = "compare"
        /\ UNCHANGED <<operands, bits, i, accumulated>>

CompareBit ==
  LET equal == Not(context, Xor(context, lhs[i + 1], rhs[i + 1]))
  IN  /\ pc = "compare"
      /\ i < Len(lhs)
      /\ \/ Failed(equal) /\ Abort
         \/ /\ ~Failed(equal)
            /\ bits' = Append(bits, equal)
            /\ i' = i + 1
            /\ UNCHANGED <<operands, accumulated, pc>>

CallReduceAnd ==
  /\ pc = "compare"
  /\ i = Len(lhs)
  /\ pc' = "enter reduce"
  /\ UNCHANGED <<operands, bits, i, accumulated>>

SlipStartFromFalse == Constant(context, FALSE)

Seed == Constant(context, TRUE)

EnterReduce ==
  /\ pc = "enter reduce"
  /\ \/ /\ ~AllOfBackend(bits) \/ Failed(Seed)
        /\ Abort
     \/ /\ AllOfBackend(bits)
        /\ ~Failed(Seed)
        /\ accumulated' = Seed
        /\ i' = 0
        /\ pc' = "reduce"
        /\ UNCHANGED <<operands, bits>>

SlipStayOnBit == i

NextBit == i + 1

ReduceBit ==
  LET next == And(context, accumulated, bits[i + 1])
  IN  /\ pc = "reduce"
      /\ i < Len(bits)
      /\ \/ Failed(next) /\ Abort
         \/ /\ ~Failed(next)
            /\ accumulated' = next
            /\ i' = NextBit
            /\ UNCHANGED <<operands, bits, pc>>

ReturnReduced ==
  /\ pc = "reduce"
  /\ i = Len(bits)
  /\ Result(accumulated)

Next ==
  \/ EnterEqual
  \/ CompareBit
  \/ CallReduceAnd
  \/ EnterReduce
  \/ ReduceBit
  \/ ReturnReduced

Spec == Init /\ [][Next]_vars

FairSpec == Spec /\ WF_vars(Next)
-----------------------------------------------------------------------------
TypeOK ==
  /\ call \in {"EqualBitVectors", "ReduceAnd"}
  /\ context \in Contexts
  /\ lhs \in Seq(BitValue) /\ rhs \in Seq(BitValue) /\ bits \in Seq(BitValue)
  /\ i \in Nat
  /\ accumulated \in BitValue
  /\ pc \in {"enter", "compare", "enter reduce", "reduce", "done", "aborted"}

AllTrue(vector) == \A n \in DOMAIN vector : vector[n].fake_value

(* On plain bits EqualBitVectors is equality of the vectors, of any two    *)
(* lengths, and ReduceAnd is conjunction, TRUE for the empty vector.       *)
LoopsCompute ==
  pc = "done" /\ context.kind = "kFake"
    => accumulated = Fake(IF call = "EqualBitVectors" THEN lhs = rhs ELSE AllTrue(bits))

(* A bit that the context's gates accept. *)
Usable(bit) ==
  /\ bit.backend = context.kind
  /\ context.kind = "kBinFHE" => bit.opaque_payload # NoPayload

Operands == IF call = "EqualBitVectors" THEN {lhs, rhs} ELSE {bits}

(* A call aborts only for a reason its caller can see: a bit of another    *)
(* backend or without a payload, or a BinFHE context not initialised.      *)
OnlyMisuseAborts ==
  pc = "aborted"
    => \/ context.kind = "kBinFHE" /\ ~context.enabled
       \/ \E vector \in Operands : \E n \in DOMAIN vector : ~Usable(vector[n])

(* What a call returns can be fed to the gates of the same backend. *)
ResultUsable == pc = "done" => Usable(accumulated)

(* Every call returns or aborts. *)
CallsEnd == <>(pc \in {"done", "aborted"})
=============================================================================
