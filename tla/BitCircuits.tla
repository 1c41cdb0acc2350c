---------------------------- MODULE BitCircuits -----------------------------
(***************************************************************************)
(* Bit values, the two bit backends and the circuits built from their      *)
(* gates: src/src/fhe/{bit_value.h,binfhe_context.cpp,circuits.cpp}, in a  *)
(* build with assertions, as the project builds and tests it.              *)
(*                                                                         *)
(* A gate or circuit whose assertion fails aborts the program.  Here it    *)
(* returns Aborted, a bit of no backend, so that every gate it reaches     *)
(* aborts too.                                                             *)
(***************************************************************************)
EXTENDS Integers

Backends == {"kFake", "kBinFHE"}

(* The opaque payload of a bit is null or a handle.  The label a gate      *)
(* writes into its handle is never read.                                   *)
NoPayload == "null"
Handle == "handle"
OpaquePayloads == {NoPayload, Handle}

Aborted == [backend |-> "abort", fake_value |-> FALSE, opaque_payload |-> NoPayload]

(* BitValue() is Fake(FALSE). *)
Fake(value) == [backend |-> "kFake", fake_value |-> value, opaque_payload |-> NoPayload]

BinFHEPlaceholder(payload) ==
  [backend |-> "kBinFHE", fake_value |-> FALSE, opaque_payload |-> payload]

(* The constructor is private: there are no other bits. *)
BitValue ==
  {Fake(value) : value \in BOOLEAN} \cup {BinFHEPlaceholder(payload) : payload \in OpaquePayloads}

(* A backend object: FakeBitContext, or a BinFHEContext.  openfhe is       *)
(* PRIFHETE_ENABLE_OPENFHE; enabled is enabled_, and impl_ is set with it. *)
Contexts == [kind : Backends, openfhe : BOOLEAN, enabled : BOOLEAN]

FakeGate(inputs, value) ==
  IF \A bit \in inputs : bit.backend = "kFake" THEN Fake(value) ELSE Aborted

SlipNoEnabledAssertion(context) == TRUE

AssertEnabled(context) == context.enabled

SlipNoHandle == NoPayload

MakePlaceholderHandle == Handle

AssertBinFHEBit(bit) == bit.backend = "kBinFHE" /\ bit.opaque_payload # NoPayload

BinFHEGate(context, inputs) ==
  IF ~AssertEnabled(context) THEN Aborted
  ELSE IF ~context.openfhe THEN BinFHEPlaceholder(NoPayload)
  ELSE IF \A bit \in inputs : AssertBinFHEBit(bit) THEN BinFHEPlaceholder(MakePlaceholderHandle)
  ELSE Aborted

Constant(context, value) ==
  IF context.kind = "kFake" THEN Fake(value)
  ELSE BinFHEGate(context, {})

Xor(context, lhs, rhs) ==
  IF context.kind = "kFake" THEN FakeGate({lhs, rhs}, lhs.fake_value # rhs.fake_value)
  ELSE BinFHEGate(context, {lhs, rhs})

And(context, lhs, rhs) ==
  IF context.kind = "kFake" THEN FakeGate({lhs, rhs}, lhs.fake_value /\ rhs.fake_value)
  ELSE BinFHEGate(context, {lhs, rhs})

Or(context, lhs, rhs) ==
  IF context.kind = "kFake" THEN FakeGate({lhs, rhs}, lhs.fake_value \/ rhs.fake_value)
  ELSE BinFHEGate(context, {lhs, rhs})

Not(context, input) ==
  IF context.kind = "kFake" THEN FakeGate({input}, ~input.fake_value)
  ELSE BinFHEGate(context, {input})

(* The circuits also assert the backend of every input before the first    *)
(* gate; their gates would abort for the same inputs.                      *)
SlipCarryFromEither(context, lhs, rhs) == Or(context, lhs, rhs)

CarryFromInputs(context, lhs, rhs) == And(context, lhs, rhs)

FullAdderResult(sum, carry_out) == [sum |-> sum, carry_out |-> carry_out]

FullSubtracterResult(difference, borrow_out) ==
  [difference |-> difference, borrow_out |-> borrow_out]

FullAdder(context, lhs, rhs, carry_in) ==
  LET lhs_xor_rhs == Xor(context, lhs, rhs)
      carry_from_carry_in == And(context, lhs_xor_rhs, carry_in)
  IN  FullAdderResult(Xor(context, lhs_xor_rhs, carry_in),
                      Or(context, CarryFromInputs(context, lhs, rhs), carry_from_carry_in))

FullSubtracter(context, lhs, rhs, borrow_in) ==
  LET not_lhs == Not(context, lhs)
      borrow_from_lhs == And(context, not_lhs, Or(context, rhs, borrow_in))
      borrow_from_chain == And(context, rhs, borrow_in)
  IN  FullSubtracterResult(Xor(context, Xor(context, lhs, rhs), borrow_in),
                           Or(context, borrow_from_lhs, borrow_from_chain))
=============================================================================
