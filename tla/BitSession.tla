----------------------------- MODULE BitSession -----------------------------
(***************************************************************************)
(* A program that uses a FakeBitContext and a BinFHEContext in any order:  *)
(* it makes bits, initialises the BinFHE context or forgets to, and feeds  *)
(* bits to the gates and circuits of either backend.                       *)
(***************************************************************************)
EXTENDS BitCircuits, FiniteSets

VARIABLES
  openfhe,   \* PRIFHETE_ENABLE_OPENFHE, fixed when the program was built
  enabled,   \* enabled_ of the BinFHE context; impl_ is set exactly then
  results,   \* bits returned by gates and circuits
  last,      \* inputs and outputs of the last full adder or subtracter
  aborted    \* an assertion has failed

vars == <<openfhe, enabled, results, last, aborted>>

(* Bits the program makes without a backend. *)
CallerBits ==
  {Fake(FALSE), Fake(TRUE), BinFHEPlaceholder(NoPayload), BinFHEPlaceholder(Handle)}

Bits == CallerBits \cup results

Context(kind) == [kind |-> kind, openfhe |-> openfhe, enabled |-> enabled]

NoCall == [circuit |-> "none"]

Init ==
  /\ openfhe \in BOOLEAN
  /\ enabled = FALSE
  /\ results = {}
  /\ last = NoCall
  /\ aborted = FALSE

SlipUnnoticed(outputs) == FALSE

Failed(outputs) == Aborted \in outputs

Return(outputs) ==
  /\ IF Failed(outputs)
     THEN aborted' = TRUE /\ UNCHANGED results
     ELSE results' = results \cup outputs /\ UNCHANGED aborted
  /\ UNCHANGED <<openfhe, enabled>>

(* Without OpenFHE support it fails and leaves the context disabled. *)
Initialize ==
  /\ ~aborted
  /\ enabled' = openfhe
  /\ UNCHANGED <<openfhe, results, last, aborted>>

Gate(kind) ==
  /\ ~aborted
  /\ \/ \E value \in BOOLEAN : Return({Constant(Context(kind), value)})
     \/ \E bit \in Bits : Return({Not(Context(kind), bit)})
     \/ \E lhs, rhs \in Bits :
          \/ Return({Xor(Context(kind), lhs, rhs)})
          \/ Return({And(Context(kind), lhs, rhs)})
          \/ Return({Or(Context(kind), lhs, rhs)})
  /\ UNCHANGED last

Add(kind, lhs, rhs, carry_in) ==
  LET out == FullAdder(Context(kind), lhs, rhs, carry_in)
  IN  /\ ~aborted
      /\ Return({out.sum, out.carry_out})
      /\ last' = [circuit |-> "FullAdder", inputs |-> <<lhs, rhs, carry_in>>,
                  output |-> out.sum, carry |-> out.carry_out]

Subtract(kind, lhs, rhs, borrow_in) ==
  LET out == FullSubtracter(Context(kind), lhs, rhs, borrow_in)
  IN  /\ ~aborted
      /\ Return({out.difference, out.borrow_out})
      /\ last' = [circuit |-> "FullSubtracter", inputs |-> <<lhs, rhs, borrow_in>>,
                  output |-> out.difference, carry |-> out.borrow_out]

Next ==
  \/ Initialize
  \/ \E kind \in Backends : Gate(kind)
  \/ \E kind \in Backends, lhs, rhs, carry \in Bits :
       Add(kind, lhs, rhs, carry) \/ Subtract(kind, lhs, rhs, carry)

Spec == Init /\ [][Next]_vars
-----------------------------------------------------------------------------
TypeOK ==
  /\ openfhe \in BOOLEAN
  /\ enabled \in BOOLEAN
  /\ results \subseteq BitValue
  /\ aborted \in BOOLEAN

Number(bit) == IF bit.fake_value THEN 1 ELSE 0

(* On plain bits the circuits do arithmetic: sum and carry are the binary  *)
(* sum of the three inputs, difference and borrow their difference, also   *)
(* when the inputs came out of other circuits.                             *)
CircuitsCompute ==
  ~aborted /\ last # NoCall /\ last.output.backend = "kFake"
    => LET Input(i) == Number(last.inputs[i])
       IN  IF last.circuit = "FullAdder"
           THEN Number(last.output) + 2 * Number(last.carry) = Input(1) + Input(2) + Input(3)
           ELSE Number(last.output) - 2 * Number(last.carry) = Input(1) - Input(2) - Input(3)

(* What a backend returned, the same backend accepts: no chain of gates    *)
(* and circuits over its own results ever fails an assertion.              *)
ResultsCompose ==
  \A kind \in Backends : \A b1, b2, b3 \in {bit \in results : bit.backend = kind} :
    LET sum == FullAdder(Context(kind), b1, b2, b3)
        difference == FullSubtracter(Context(kind), b1, b2, b3)
    IN  Aborted \notin {sum.sum, sum.carry_out, difference.difference, difference.borrow_out}

(* BinFHE bits come out of gates only in a build with OpenFHE support and  *)
(* after Initialize: a program cannot compute on placeholders unawares.    *)
BinFHEBitsNeedOpenFHE ==
  (\E bit \in results : bit.backend = "kBinFHE") => openfhe /\ enabled
=============================================================================
