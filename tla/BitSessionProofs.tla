-------------------------- MODULE BitSessionProofs --------------------------
(***************************************************************************)
(* Proofs about BitSession: in either build, whatever a program feeds to   *)
(* the two backends and in whatever order, chains of circuits over plain   *)
(* bits of any length compute, and BinFHE bits come only from a context    *)
(* that is able to make them.                                              *)
(***************************************************************************)
EXTENDS BitSession, TLAPS

(* Bits that a gate of a backend returns. *)
Plain == {Fake(TRUE), Fake(FALSE)}

Able(context) == context.openfhe /\ context.enabled

Produced(context, bit) ==
  \/ bit = Aborted
  \/ context.kind = "kFake" /\ bit \in Plain
  \/ context.kind = "kBinFHE" /\ Able(context) /\ bit = BinFHEPlaceholder(Handle)

(* Initialize enables a BinFHE context only in a build with OpenFHE.       *)
Honest(context) ==
  /\ context.kind \in Backends
  /\ context.enabled \in BOOLEAN
  /\ context.enabled => context.openfhe

LEMMA Kinds ==
  /\ Aborted.backend = "abort"
  /\ \A value : Fake(value).backend = "kFake" /\ Fake(value).fake_value = value
  /\ \A payload : /\ BinFHEPlaceholder(payload).backend = "kBinFHE"
                  /\ BinFHEPlaceholder(payload).opaque_payload = payload
BY DEF Aborted, Fake, BinFHEPlaceholder

LEMMA PlainBits ==
  ASSUME NEW bit \in BitValue, bit.backend = "kFake"
  PROVE  \E value \in BOOLEAN : bit = Fake(value)
BY Kinds DEF BitValue

(* The truth tables of the fake backend. *)
LEMMA PlainGates ==
  ASSUME NEW context, context.kind = "kFake", NEW a \in BOOLEAN, NEW b \in BOOLEAN
  PROVE  /\ Not(context, Fake(a)) = Fake(~a)
         /\ Xor(context, Fake(a), Fake(b)) = Fake(a # b)
         /\ And(context, Fake(a), Fake(b)) = Fake(a /\ b)
         /\ Or(context, Fake(a), Fake(b)) = Fake(a \/ b)
<1>1. Fake(a).backend = "kFake" /\ Fake(b).backend = "kFake"
  BY Kinds
<1>2. Fake(a).fake_value = a /\ Fake(b).fake_value = b
  BY Kinds
<1>3. \A value : /\ FakeGate({Fake(a)}, value) = Fake(value)
                 /\ FakeGate({Fake(a), Fake(b)}, value) = Fake(value)
  BY <1>1 DEF FakeGate
<1> QED BY <1>2, <1>3, Zenon DEF Not, Xor, And, Or

(* A bit of no or of the other backend ends in an assertion there.         *)
LEMMA ForeignBits ==
  ASSUME NEW context, context.kind = "kFake", NEW lhs, NEW rhs,
         lhs.backend # "kFake" \/ rhs.backend # "kFake"
  PROVE  /\ Xor(context, lhs, rhs) = Aborted
         /\ And(context, lhs, rhs) = Aborted
         /\ Or(context, lhs, rhs) = Aborted
BY DEF Xor, And, Or, FakeGate

LEMMA BinFHEGates ==
  ASSUME NEW context, Honest(context), NEW inputs
  PROVE  /\ BinFHEGate(context, inputs) \in {Aborted, BinFHEPlaceholder(Handle)}
         /\ BinFHEGate(context, inputs) # Aborted => Able(context)
         /\ Able(context) /\ (\A bit \in inputs : AssertBinFHEBit(bit))
              => BinFHEGate(context, inputs) = BinFHEPlaceholder(Handle)
BY DEF BinFHEGate, Honest, Able, AssertEnabled, MakePlaceholderHandle

LEMMA HandleAccepted == AssertBinFHEBit(BinFHEPlaceholder(Handle))
BY DEF AssertBinFHEBit, BinFHEPlaceholder, Handle, NoPayload

LEMMA GatesProduce ==
  ASSUME NEW context, Honest(context), NEW value \in BOOLEAN,
         NEW lhs \in BitValue \cup {Aborted}, NEW rhs \in BitValue \cup {Aborted}
  PROVE  \A bit \in {Constant(context, value), Not(context, lhs), Xor(context, lhs, rhs),
                     And(context, lhs, rhs), Or(context, lhs, rhs)} : Produced(context, bit)
<1>1. CASE context.kind = "kFake"
  <2>1. Constant(context, value) \in Plain
    BY <1>1 DEF Constant, Plain
  <2>2. Not(context, lhs) \in Plain \cup {Aborted}
    <3>1. CASE lhs.backend = "kFake"
      <4>1. PICK a \in BOOLEAN : lhs = Fake(a)
        BY <3>1, PlainBits, Kinds
      <4> QED BY <1>1, <4>1, PlainGates DEF Plain
    <3>2. CASE lhs.backend # "kFake"
      BY <1>1, <3>2 DEF Not, FakeGate
    <3> QED BY <3>1, <3>2
  <2>3. {Xor(context, lhs, rhs), And(context, lhs, rhs), Or(context, lhs, rhs)}
          \subseteq Plain \cup {Aborted}
    <3>1. CASE lhs.backend = "kFake" /\ rhs.backend = "kFake"
      <4>1. PICK a \in BOOLEAN : lhs = Fake(a)
        BY <3>1, PlainBits, Kinds
      <4>2. PICK b \in BOOLEAN : rhs = Fake(b)
        BY <3>1, PlainBits, Kinds
      <4> QED BY <1>1, <4>1, <4>2, PlainGates DEF Plain
    <3>2. CASE lhs.backend # "kFake" \/ rhs.backend # "kFake"
      BY <1>1, <3>2, ForeignBits
    <3> QED BY <3>1, <3>2
  <2> QED BY <1>1, <2>1, <2>2, <2>3 DEF Produced
<1>2. CASE context.kind = "kBinFHE"
  <2>1. context.kind # "kFake"
    BY <1>2
  <2>2. \A bit \in {Constant(context, value), Not(context, lhs), Xor(context, lhs, rhs),
                    And(context, lhs, rhs), Or(context, lhs, rhs)} :
          \E inputs : bit = BinFHEGate(context, inputs)
    BY <2>1 DEF Constant, Not, Xor, And, Or
  <2> QED BY <1>2, <2>2, BinFHEGates DEF Produced
<1> QED BY <1>1, <1>2 DEF Honest, Backends

LEMMA ProducedBits ==
  ASSUME NEW context, NEW bit, Produced(context, bit)
  PROVE  bit \in BitValue \cup {Aborted}
BY DEF Produced, Plain, BitValue, OpaquePayloads

(* Every wire of a circuit carries what a gate produced.                   *)
LEMMA CircuitsProduce ==
  ASSUME NEW context, Honest(context),
         NEW b1 \in BitValue, NEW b2 \in BitValue, NEW b3 \in BitValue
  PROVE  /\ Produced(context, FullAdder(context, b1, b2, b3).sum)
         /\ Produced(context, FullAdder(context, b1, b2, b3).carry_out)
         /\ Produced(context, FullSubtracter(context, b1, b2, b3).difference)
         /\ Produced(context, FullSubtracter(context, b1, b2, b3).borrow_out)
<1> DEFINE Wire == BitValue \cup {Aborted}
<1>1. \A lhs, rhs \in Wire :
        /\ Not(context, lhs) \in Wire
        /\ Xor(context, lhs, rhs) \in Wire /\ Produced(context, Xor(context, lhs, rhs))
        /\ And(context, lhs, rhs) \in Wire /\ Produced(context, And(context, lhs, rhs))
        /\ Or(context, lhs, rhs) \in Wire /\ Produced(context, Or(context, lhs, rhs))
  BY GatesProduce, ProducedBits
<1>2. b1 \in Wire /\ b2 \in Wire /\ b3 \in Wire
  OBVIOUS
<1> HIDE DEF Wire
<1> QED BY <1>1, <1>2 DEF FullAdder, FullSubtracter, FullAdderResult, FullSubtracterResult,
           CarryFromInputs

-----------------------------------------------------------------------------
(* What the circuits compute. *)

LEMMA PlainCircuits ==
  ASSUME NEW context, context.kind = "kFake",
         NEW a \in BOOLEAN, NEW b \in BOOLEAN, NEW c \in BOOLEAN
  PROVE  /\ FullAdder(context, Fake(a), Fake(b), Fake(c))
              = FullAdderResult(Fake((a # b) # c), Fake((a /\ b) \/ ((a # b) /\ c)))
         /\ FullSubtracter(context, Fake(a), Fake(b), Fake(c))
              = FullSubtracterResult(Fake((a # b) # c), Fake((~a /\ (b \/ c)) \/ (b /\ c)))
<1>1. \A x, y \in BOOLEAN :
        /\ Not(context, Fake(x)) = Fake(~x)
        /\ Xor(context, Fake(x), Fake(y)) = Fake(x # y)
        /\ And(context, Fake(x), Fake(y)) = Fake(x /\ y)
        /\ Or(context, Fake(x), Fake(y)) = Fake(x \/ y)
  BY PlainGates
<1>2. FullAdder(context, Fake(a), Fake(b), Fake(c))
        = FullAdderResult(Fake((a # b) # c), Fake((a /\ b) \/ ((a # b) /\ c)))
  BY <1>1 DEF FullAdder, CarryFromInputs
<1>3. FullSubtracter(context, Fake(a), Fake(b), Fake(c))
        = FullSubtracterResult(Fake((a # b) # c), Fake((~a /\ (b \/ c)) \/ (b /\ c)))
  BY <1>1 DEF FullSubtracter
<1> QED BY <1>2, <1>3

(* A circuit of the fake backend that got any other bit aborts.            *)
LEMMA ForeignCircuits ==
  ASSUME NEW context, context.kind = "kFake", NEW b1, NEW b2, NEW b3,
         b1.backend # "kFake" \/ b2.backend # "kFake" \/ b3.backend # "kFake"
  PROVE  /\ FullAdder(context, b1, b2, b3).sum = Aborted
         /\ FullSubtracter(context, b1, b2, b3).difference = Aborted
<1>1. Xor(context, Xor(context, b1, b2), b3) = Aborted
  <2>1. CASE b3.backend # "kFake"
    BY <2>1, ForeignBits
  <2>2. CASE b1.backend # "kFake" \/ b2.backend # "kFake"
    <3>1. Xor(context, b1, b2) = Aborted
      BY <2>2, ForeignBits
    <3> QED BY <3>1, ForeignBits, Kinds
  <2> QED BY <2>1, <2>2
<1> QED BY <1>1 DEF FullAdder, FullSubtracter, FullAdderResult, FullSubtracterResult

(* Sum and carry, or difference and borrow, of three plain bits.           *)
Computes(circuit, b1, b2, b3, output, carry) ==
  IF circuit = "FullAdder"
  THEN Number(output) + 2 * Number(carry) = Number(b1) + Number(b2) + Number(b3)
  ELSE Number(output) - 2 * Number(carry) = Number(b1) - Number(b2) - Number(b3)

(* Each of the 8 combinations of inputs.                                   *)
LEMMA TruthTables ==
  ASSUME NEW a \in BOOLEAN, NEW b \in BOOLEAN, NEW c \in BOOLEAN
  PROVE  /\ Computes("FullAdder", Fake(a), Fake(b), Fake(c),
                     Fake((a # b) # c), Fake((a /\ b) \/ ((a # b) /\ c)))
         /\ Computes("FullSubtracter", Fake(a), Fake(b), Fake(c),
                     Fake((a # b) # c), Fake((~a /\ (b \/ c)) \/ (b /\ c)))
<1>1. \A value \in BOOLEAN : Number(Fake(value)) = IF value THEN 1 ELSE 0
  BY Kinds DEF Number
<1> DEFINE digit == (a # b) # c
           carry == (a /\ b) \/ ((a # b) /\ c)
           borrow == (~a /\ (b \/ c)) \/ (b /\ c)
<1>2. digit \in BOOLEAN /\ carry \in BOOLEAN /\ borrow \in BOOLEAN
  OBVIOUS
<1>3. LET N(value) == IF value THEN 1 ELSE 0
      IN  /\ N(digit) + 2 * N(carry) = N(a) + N(b) + N(c)
          /\ N(digit) - 2 * N(borrow) = N(a) - N(b) - N(c)
  OBVIOUS
<1> HIDE DEF digit, carry, borrow
<1>4. /\ Computes("FullAdder", Fake(a), Fake(b), Fake(c), Fake(digit), Fake(carry))
      /\ Computes("FullSubtracter", Fake(a), Fake(b), Fake(c), Fake(digit), Fake(borrow))
  BY <1>1, <1>2, <1>3 DEF Computes
<1> QED BY <1>4 DEF digit, carry, borrow

LEMMA CircuitsAreArithmetic ==
  ASSUME NEW context, Honest(context),
         NEW b1 \in BitValue, NEW b2 \in BitValue, NEW b3 \in BitValue
  PROVE  LET sum == FullAdder(context, b1, b2, b3)
             difference == FullSubtracter(context, b1, b2, b3)
         IN  /\ sum.sum.backend = "kFake"
                  => Computes("FullAdder", b1, b2, b3, sum.sum, sum.carry_out)
             /\ difference.difference.backend = "kFake"
                  => Computes("FullSubtracter", b1, b2, b3,
                              difference.difference, difference.borrow_out)
<1> DEFINE sum == FullAdder(context, b1, b2, b3)
           difference == FullSubtracter(context, b1, b2, b3)
<1>1. CASE context.kind # "kFake"
  <2>1. /\ Produced(context, sum.sum) /\ Produced(context, difference.difference)
    BY CircuitsProduce
  <2>2. \A bit : Produced(context, bit) => bit.backend # "kFake"
    BY <1>1, Kinds DEF Produced
  <2> HIDE DEF sum, difference
  <2>3. sum.sum.backend # "kFake" /\ difference.difference.backend # "kFake"
    BY <2>1, <2>2
  <2> QED BY <2>3 DEF sum, difference
<1>2. CASE /\ context.kind = "kFake"
           /\ b1.backend # "kFake" \/ b2.backend # "kFake" \/ b3.backend # "kFake"
  BY <1>2, ForeignCircuits, Kinds
<1>3. CASE /\ context.kind = "kFake"
           /\ b1.backend = "kFake" /\ b2.backend = "kFake" /\ b3.backend = "kFake"
  <2>1. PICK a \in BOOLEAN : b1 = Fake(a)
    BY <1>3, PlainBits
  <2>2. PICK b \in BOOLEAN : b2 = Fake(b)
    BY <1>3, PlainBits
  <2>3. PICK c \in BOOLEAN : b3 = Fake(c)
    BY <1>3, PlainBits
  <2>4. FullAdder(context, b1, b2, b3)
          = FullAdderResult(Fake((a # b) # c), Fake((a /\ b) \/ ((a # b) /\ c)))
    BY <1>3, <2>1, <2>2, <2>3, PlainCircuits
  <2>5. FullSubtracter(context, b1, b2, b3)
          = FullSubtracterResult(Fake((a # b) # c), Fake((~a /\ (b \/ c)) \/ (b /\ c)))
    BY <1>3, <2>1, <2>2, <2>3, PlainCircuits
  <2>6. /\ FullAdder(context, b1, b2, b3).sum = Fake((a # b) # c)
        /\ FullAdder(context, b1, b2, b3).carry_out = Fake((a /\ b) \/ ((a # b) /\ c))
    BY <2>4 DEF FullAdderResult
  <2>7. /\ FullSubtracter(context, b1, b2, b3).difference = Fake((a # b) # c)
        /\ FullSubtracter(context, b1, b2, b3).borrow_out
             = Fake((~a /\ (b \/ c)) \/ (b /\ c))
    BY <2>5 DEF FullSubtracterResult
  <2>8. /\ Computes("FullAdder", b1, b2, b3,
                    Fake((a # b) # c), Fake((a /\ b) \/ ((a # b) /\ c)))
        /\ Computes("FullSubtracter", b1, b2, b3,
                    Fake((a # b) # c), Fake((~a /\ (b \/ c)) \/ (b /\ c)))
    BY <2>1, <2>2, <2>3, TruthTables
  <2> QED BY <2>6, <2>7, <2>8, Zenon
<1> QED BY <1>1, <1>2, <1>3
-----------------------------------------------------------------------------
(* The session. *)

(* BinFHE bits that gates returned hold a handle, and there are none       *)
(* before the context is able to make them.                                *)
ResultsInv ==
  \A bit \in results :
    bit.backend = "kBinFHE" => openfhe /\ enabled /\ bit = BinFHEPlaceholder(Handle)

BitInv ==
  /\ TypeOK
  /\ enabled => openfhe
  /\ ResultsInv
  /\ CircuitsCompute

LEMMA HonestContext ==
  ASSUME BitInv, NEW kind \in Backends
  PROVE  Honest(Context(kind)) /\ Context(kind).kind = kind
BY DEF BitInv, TypeOK, Honest, Context, Backends

LEMMA BitTypes ==
  ASSUME BitInv
  PROVE  Bits \subseteq BitValue
BY DEF BitInv, TypeOK, Bits, CallerBits, BitValue, OpaquePayloads

(* What gates and circuits return is kept, unless the program ends there.  *)
LEMMA ReturnStep ==
  ASSUME BitInv, NEW kind \in Backends, NEW outputs,
         \A bit \in outputs : Produced(Context(kind), bit),
         Return(outputs)
  PROVE  TypeOK' /\ (enabled => openfhe)' /\ ResultsInv'
<1>1. UNCHANGED <<openfhe, enabled>>
  BY DEF Return
<1>2. CASE Failed(outputs)
  <2>1. UNCHANGED results /\ aborted' = TRUE
    BY <1>2 DEF Return
  <2> QED BY <1>1, <2>1 DEF BitInv, TypeOK, ResultsInv
<1>3. CASE ~Failed(outputs)
  <2>1. results' = results \cup outputs /\ UNCHANGED aborted
    BY <1>3 DEF Return
  <2>2. \A bit \in outputs : bit \in BitValue
    BY <1>3, ProducedBits DEF Failed
  <2>3. \A bit \in outputs :
          bit.backend = "kBinFHE" => openfhe /\ enabled /\ bit = BinFHEPlaceholder(Handle)
    <3>1. \A bit \in Plain \cup {Aborted} : bit.backend # "kBinFHE"
      BY Kinds DEF Plain
    <3>2. Able(Context(kind)) => openfhe /\ enabled
      BY DEF Able, Context
    <3> QED BY <3>1, <3>2 DEF Produced
  <2> QED BY <1>1, <2>1, <2>2, <2>3 DEF BitInv, TypeOK, ResultsInv
<1> QED BY <1>2, <1>3

LEMMA GateStep ==
  ASSUME BitInv, NEW kind \in Backends, Gate(kind)
  PROVE  BitInv'
<1>1. ~aborted /\ UNCHANGED last
  BY DEF Gate
<1>2. Honest(Context(kind)) /\ Bits \subseteq BitValue
  BY HonestContext, BitTypes
<1>3. \A value \in BOOLEAN, lhs, rhs \in Bits :
        \A bit \in {Constant(Context(kind), value), Not(Context(kind), lhs),
                    Xor(Context(kind), lhs, rhs), And(Context(kind), lhs, rhs),
                    Or(Context(kind), lhs, rhs)} : Produced(Context(kind), bit)
  BY <1>2, GatesProduce
<1>4. Fake(TRUE) \in Bits
  BY DEF Bits, CallerBits
<1>5. PICK outputs : /\ Return(outputs)
                     /\ \A bit \in outputs : Produced(Context(kind), bit)
  <2>1. PICK bit : Return({bit}) /\ Produced(Context(kind), bit)
    <3>1. CASE \E value \in BOOLEAN : Return({Constant(Context(kind), value)})
      BY <1>3, <1>4, <3>1
    <3>2. CASE \E lhs \in Bits : Return({Not(Context(kind), lhs)})
      BY <1>3, <3>2
    <3>3. CASE \E lhs, rhs \in Bits : \/ Return({Xor(Context(kind), lhs, rhs)})
                                     \/ Return({And(Context(kind), lhs, rhs)})
                                     \/ Return({Or(Context(kind), lhs, rhs)})
      BY <1>3, <3>3
    <3> QED BY <3>1, <3>2, <3>3 DEF Gate
  <2> QED BY <2>1
<1>6. TypeOK' /\ (enabled => openfhe)' /\ ResultsInv'
  BY <1>5, ReturnStep
<1>7. CircuitsCompute'
  BY <1>1 DEF BitInv, CircuitsCompute
<1> QED BY <1>6, <1>7 DEF BitInv

LEMMA AddStep ==
  ASSUME BitInv, NEW kind \in Backends, NEW lhs \in Bits, NEW rhs \in Bits,
         NEW carry_in \in Bits, Add(kind, lhs, rhs, carry_in)
  PROVE  BitInv'
<1>1. PICK out : out = FullAdder(Context(kind), lhs, rhs, carry_in)
  OBVIOUS
<1>2. /\ Return({out.sum, out.carry_out})
      /\ last' = [circuit |-> "FullAdder", inputs |-> <<lhs, rhs, carry_in>>,
                  output |-> out.sum, carry |-> out.carry_out]
  BY <1>1 DEF Add
<1>3. /\ Honest(Context(kind))
      /\ lhs \in BitValue /\ rhs \in BitValue /\ carry_in \in BitValue
  BY HonestContext, BitTypes
<1>4. Produced(Context(kind), out.sum) /\ Produced(Context(kind), out.carry_out)
  BY <1>1, <1>3, CircuitsProduce
<1>5. TypeOK' /\ (enabled => openfhe)' /\ ResultsInv'
  BY <1>2, <1>4, ReturnStep
<1>6. out.sum.backend = "kFake"
        => Computes("FullAdder", lhs, rhs, carry_in, out.sum, out.carry_out)
  BY <1>1, <1>3, CircuitsAreArithmetic
<1>7. CircuitsCompute'
  BY <1>2, <1>6 DEF CircuitsCompute, Computes
<1> QED BY <1>5, <1>7 DEF BitInv

LEMMA SubtractStep ==
  ASSUME BitInv, NEW kind \in Backends, NEW lhs \in Bits, NEW rhs \in Bits,
         NEW borrow_in \in Bits, Subtract(kind, lhs, rhs, borrow_in)
  PROVE  BitInv'
<1>1. PICK out : out = FullSubtracter(Context(kind), lhs, rhs, borrow_in)
  OBVIOUS
<1>2. /\ Return({out.difference, out.borrow_out})
      /\ last' = [circuit |-> "FullSubtracter", inputs |-> <<lhs, rhs, borrow_in>>,
                  output |-> out.difference, carry |-> out.borrow_out]
  BY <1>1 DEF Subtract
<1>3. /\ Honest(Context(kind))
      /\ lhs \in BitValue /\ rhs \in BitValue /\ borrow_in \in BitValue
  BY HonestContext, BitTypes
<1>4. Produced(Context(kind), out.difference) /\ Produced(Context(kind), out.borrow_out)
  BY <1>1, <1>3, CircuitsProduce
<1>5. TypeOK' /\ (enabled => openfhe)' /\ ResultsInv'
  BY <1>2, <1>4, ReturnStep
<1>6. out.difference.backend = "kFake"
        => Computes("FullSubtracter", lhs, rhs, borrow_in, out.difference, out.borrow_out)
  BY <1>1, <1>3, CircuitsAreArithmetic
<1>7. CircuitsCompute'
  BY <1>2, <1>6 DEF CircuitsCompute, Computes
<1> QED BY <1>5, <1>7 DEF BitInv

LEMMA BitAlways == Spec => []BitInv
<1>1. Init => BitInv
  BY DEF Init, BitInv, TypeOK, ResultsInv, CircuitsCompute
<1>2. BitInv /\ [Next]_vars => BitInv'
  <2> SUFFICES ASSUME BitInv, [Next]_vars
               PROVE  BitInv'
    OBVIOUS
  <2>1. CASE Initialize
    BY <2>1 DEF Initialize, BitInv, TypeOK, ResultsInv, CircuitsCompute
  <2>2. CASE UNCHANGED vars
    BY <2>2 DEF vars, BitInv, TypeOK, ResultsInv, CircuitsCompute
  <2> QED BY <2>1, <2>2, GateStep, AddStep, SubtractStep DEF Next
<1> QED BY <1>1, <1>2, PTL DEF Spec

(* No gate or circuit makes a bit of another shape, and the build stays    *)
(* what it was.                                                            *)
THEOREM BitsStayTyped == Spec => []TypeOK
<1>1. BitInv => TypeOK
  BY DEF BitInv
<1> QED BY <1>1, BitAlways, PTL

(* Full adder and subtracter do arithmetic on plain bits, at any depth of  *)
(* a chain of circuits.                                                    *)
THEOREM CircuitsAlwaysCompute == Spec => []CircuitsCompute
<1>1. BitInv => CircuitsCompute
  BY DEF BitInv
<1> QED BY <1>1, BitAlways, PTL

(* No BinFHE bit comes out of a gate of a build without OpenFHE, or before *)
(* Initialize has succeeded.                                               *)
THEOREM BinFHEBitsAreReal == Spec => []BinFHEBitsNeedOpenFHE
<1>1. BitInv => BinFHEBitsNeedOpenFHE
  BY DEF BitInv, ResultsInv, BinFHEBitsNeedOpenFHE
<1> QED BY <1>1, BitAlways, PTL

(* A backend accepts whatever it returned: no chain over its own results   *)
(* fails an assertion.                                                     *)
THEOREM ResultsAlwaysCompose == Spec => []ResultsCompose
<1>1. BitInv => ResultsCompose
  <2> SUFFICES ASSUME BitInv, NEW kind \in Backends,
                      NEW b1 \in results, NEW b2 \in results, NEW b3 \in results,
                      b1.backend = kind, b2.backend = kind, b3.backend = kind
               PROVE  LET sum == FullAdder(Context(kind), b1, b2, b3)
                          difference == FullSubtracter(Context(kind), b1, b2, b3)
                      IN  Aborted \notin {sum.sum, sum.carry_out,
                                         difference.difference, difference.borrow_out}
    BY Zenon DEF ResultsCompose
  <2>1. /\ Honest(Context(kind)) /\ Context(kind).kind = kind
        /\ b1 \in BitValue /\ b2 \in BitValue /\ b3 \in BitValue
    BY HonestContext DEF BitInv, TypeOK
  <2>2. CASE kind = "kFake"
    <3>1. PICK a \in BOOLEAN : b1 = Fake(a)
      BY <2>1, <2>2, PlainBits
    <3>2. PICK b \in BOOLEAN : b2 = Fake(b)
      BY <2>1, <2>2, PlainBits
    <3>3. PICK c \in BOOLEAN : b3 = Fake(c)
      BY <2>1, <2>2, PlainBits
    <3>4. \A value : Fake(value) # Aborted
      BY Kinds
    <3> QED BY <2>1, <2>2, <3>1, <3>2, <3>3, <3>4, PlainCircuits
            DEF FullAdderResult, FullSubtracterResult
  <2>3. CASE kind = "kBinFHE"
    <3> DEFINE Real == {BinFHEPlaceholder(Handle)}
    <3>1. Able(Context(kind)) /\ b1 \in Real /\ b2 \in Real /\ b3 \in Real
      BY <2>3 DEF BitInv, ResultsInv, Able, Context
    <3>2. \A lhs, rhs \in Real : /\ Not(Context(kind), lhs) \in Real
                                 /\ Xor(Context(kind), lhs, rhs) \in Real
                                 /\ And(Context(kind), lhs, rhs) \in Real
                                 /\ Or(Context(kind), lhs, rhs) \in Real
      <4>1. \A inputs \in SUBSET Real : BinFHEGate(Context(kind), inputs) \in Real
        BY <2>1, <3>1, BinFHEGates, HandleAccepted
      <4> QED BY <2>1, <2>3, <4>1 DEF Not, Xor, And, Or
    <3>3. Aborted \notin Real
      BY Kinds
    <3> HIDE DEF Real
    <3>4. /\ FullAdder(Context(kind), b1, b2, b3).sum \in Real
          /\ FullAdder(Context(kind), b1, b2, b3).carry_out \in Real
      BY <3>1, <3>2 DEF FullAdder, FullAdderResult, CarryFromInputs
    <3>5. /\ FullSubtracter(Context(kind), b1, b2, b3).difference \in Real
          /\ FullSubtracter(Context(kind), b1, b2, b3).borrow_out \in Real
      BY <3>1, <3>2 DEF FullSubtracter, FullSubtracterResult
    <3> QED BY <3>3, <3>4, <3>5
  <2> QED BY <2>2, <2>3 DEF Backends
<1> QED BY <1>1, BitAlways, PTL
=============================================================================
