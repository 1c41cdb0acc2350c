------------------------ MODULE VectorCircuitsProofs ------------------------
(***************************************************************************)
(* Proofs that the vector circuits compute equality and conjunction, and   *)
(* abort only on misuse, for vectors of every length.  The invariant says  *)
(* of each loop what the bits it has gone through amount to.               *)
(***************************************************************************)
EXTENDS VectorCircuits, SequenceTheorems, TLAPS

(* The backend can compute: plain bits always, BinFHE once initialised.    *)
Ready == context.kind = "kBinFHE" => context.enabled

(* Bits 1 to n of the result of the comparison are right. *)
Compared(n) ==
  \A k \in 1 .. n :
    /\ bits[k] \in BitValue /\ Usable(bits[k])
    /\ context.kind = "kFake" => (bits[k].fake_value <=> lhs[k].fake_value = rhs[k].fake_value)

(* The conjunction of bits 1 to n is accumulated. *)
Conjoined(n) ==
  /\ Ready
  /\ Usable(accumulated)
  /\ context.kind = "kFake"
       => (accumulated.fake_value <=> \A k \in 1 .. n : bits[k].fake_value)

OperandsCompared ==
  /\ AllOfBackend(lhs) /\ AllOfBackend(rhs)
  /\ Len(lhs) = Len(rhs)
  /\ Len(bits) = Len(lhs)
  /\ Compared(Len(bits))

LoopInv ==
  /\ pc = "enter" => call = "EqualBitVectors" /\ i = 0 /\ Len(bits) = 0
  /\ pc = "compare" =>
       /\ call = "EqualBitVectors"
       /\ AllOfBackend(lhs) /\ AllOfBackend(rhs)
       /\ Len(lhs) = Len(rhs)
       /\ Len(bits) = i /\ i <= Len(lhs)
       /\ Compared(i)
  /\ pc \in {"enter reduce", "reduce"} /\ call = "EqualBitVectors" => OperandsCompared
  /\ pc = "reduce" => i <= Len(bits) /\ AllOfBackend(bits) /\ Conjoined(i)

Inv ==
  /\ TypeOK
  /\ context.enabled => context.openfhe
  /\ LoopInv
  /\ LoopsCompute
  /\ OnlyMisuseAborts
  /\ ResultUsable
-----------------------------------------------------------------------------
(* Gates. *)

(* The two kinds of bit, and what tells them apart from Aborted. *)
LEMMA BitFacts ==
  /\ \A value \in BOOLEAN : /\ Fake(value) \in BitValue
                            /\ Fake(value).backend = "kFake"
                            /\ Fake(value).fake_value = value
  /\ \A payload \in OpaquePayloads : /\ BinFHEPlaceholder(payload) \in BitValue
                                     /\ BinFHEPlaceholder(payload).backend = "kBinFHE"
                                     /\ BinFHEPlaceholder(payload).opaque_payload = payload
  /\ \A bit \in BitValue : /\ bit.fake_value \in BOOLEAN
                           /\ bit.backend \in Backends
                           /\ bit.backend = "kFake" => bit = Fake(bit.fake_value)
                           /\ bit # Aborted
  /\ Handle \in OpaquePayloads /\ Handle # NoPayload
  /\ "kFake" # "kBinFHE"
<1>1. \A value \in BOOLEAN : /\ Fake(value) \in BitValue
                             /\ Fake(value).backend = "kFake"
                             /\ Fake(value).fake_value = value
  BY DEF BitValue, Fake
<1>2. \A payload : /\ BinFHEPlaceholder(payload).backend = "kBinFHE"
                  /\ BinFHEPlaceholder(payload).opaque_payload = payload
                  /\ BinFHEPlaceholder(payload).fake_value = FALSE
  BY DEF BinFHEPlaceholder
<1>3. \A payload \in OpaquePayloads : BinFHEPlaceholder(payload) \in BitValue
  BY DEF BitValue
<1>4. ASSUME NEW bit \in BitValue
      PROVE  \/ \E value \in BOOLEAN : bit = Fake(value)
             \/ \E payload \in OpaquePayloads : bit = BinFHEPlaceholder(payload)
  BY DEF BitValue
<1>5. Aborted.backend = "abort" /\ "abort" # "kFake" /\ "abort" # "kBinFHE" /\ "kFake" # "kBinFHE"
  BY DEF Aborted
<1>6. ASSUME NEW bit \in BitValue
      PROVE  /\ bit.fake_value \in BOOLEAN
             /\ bit.backend \in Backends
             /\ bit.backend = "kFake" => bit = Fake(bit.fake_value)
             /\ bit # Aborted
  <2>1. CASE \E value \in BOOLEAN : bit = Fake(value)
    BY <2>1, <1>1, <1>5 DEF Backends
  <2>2. CASE \E payload \in OpaquePayloads : bit = BinFHEPlaceholder(payload)
    BY <2>2, <1>2, <1>5 DEF Backends
  <2> QED BY <1>4, <2>1, <2>2
<1>7. Handle \in OpaquePayloads /\ Handle # NoPayload
  BY DEF OpaquePayloads, Handle, NoPayload
<1> QED BY <1>1, <1>2, <1>3, <1>5, <1>6, <1>7

LEMMA ConstantFacts ==
  ASSUME NEW value \in BOOLEAN, context \in Contexts, context.enabled => context.openfhe
  PROVE  /\ Ready => /\ Constant(context, value) \in BitValue
                     /\ Usable(Constant(context, value))
                     /\ context.kind = "kFake" => Constant(context, value).fake_value = value
         /\ ~Ready => Constant(context, value) = Aborted
BY BitFacts DEF Contexts, Backends, Constant, BinFHEGate, AssertEnabled, AssertBinFHEBit,
                                  MakePlaceholderHandle, Ready, Usable

LEMMA AndFacts ==
  ASSUME NEW x \in BitValue, NEW y \in BitValue,
         context \in Contexts, context.enabled => context.openfhe
  PROVE  /\ Ready /\ Usable(x) /\ Usable(y)
              => /\ And(context, x, y) \in BitValue
                 /\ Usable(And(context, x, y))
                 /\ context.kind = "kFake"
                      => (And(context, x, y).fake_value <=> x.fake_value /\ y.fake_value)
         /\ ~(Ready /\ Usable(x) /\ Usable(y)) => And(context, x, y) = Aborted
BY BitFacts DEF Contexts, Backends, And, FakeGate, BinFHEGate, AssertEnabled, AssertBinFHEBit,
                                  MakePlaceholderHandle, Ready, Usable

LEMMA EqualFacts ==
  ASSUME NEW x \in BitValue, NEW y \in BitValue,
         context \in Contexts, context.enabled => context.openfhe
  PROVE  LET equal == Not(context, Xor(context, x, y))
         IN  /\ Ready /\ Usable(x) /\ Usable(y)
                  => /\ equal \in BitValue
                     /\ Usable(equal)
                     /\ context.kind = "kFake"
                          => (equal.fake_value <=> x.fake_value = y.fake_value)
             /\ ~(Ready /\ Usable(x) /\ Usable(y)) => equal = Aborted
<1> DEFINE xor == Xor(context, x, y)
<1>1. /\ Ready /\ Usable(x) /\ Usable(y)
            => /\ xor \in BitValue
               /\ Usable(xor)
               /\ context.kind = "kFake" => xor.fake_value = (x.fake_value # y.fake_value)
      /\ ~(Ready /\ Usable(x) /\ Usable(y)) => xor = Aborted
  BY BitFacts DEF Contexts, Backends, Xor, FakeGate, BinFHEGate, AssertEnabled, AssertBinFHEBit,
                                  MakePlaceholderHandle, Ready, Usable
<1> HIDE DEF xor
<1>2. ASSUME xor \in BitValue, Usable(xor), Ready
      PROVE  /\ Not(context, xor) \in BitValue
             /\ Usable(Not(context, xor))
             /\ context.kind = "kFake" => Not(context, xor).fake_value = ~xor.fake_value
  BY <1>2, BitFacts DEF Contexts, Backends, Not, FakeGate, BinFHEGate, AssertEnabled, AssertBinFHEBit,
                                  MakePlaceholderHandle, Ready, Usable
<1>3. Not(context, Aborted) = Aborted
  BY DEF Not, FakeGate, BinFHEGate, AssertEnabled, AssertBinFHEBit, Aborted
<1>4. x.fake_value \in BOOLEAN /\ y.fake_value \in BOOLEAN
  BY BitFacts
<1>5. CASE Ready /\ Usable(x) /\ Usable(y)
  BY <1>1, <1>2, <1>4, <1>5 DEF xor
<1>6. CASE ~(Ready /\ Usable(x) /\ Usable(y))
  BY <1>1, <1>3, <1>6 DEF xor
<1> QED BY <1>5, <1>6
-----------------------------------------------------------------------------
(* The steps. *)

LEMMA InitInv == Init => Inv
<1> SUFFICES ASSUME Init PROVE Inv
  OBVIOUS
<1>1. TypeOK
  <2>1. \A vector \in Vectors : vector \in Seq(BitValue)
    BY VectorsAssumption DEF VectorsAssumption
  <2>2. << >> \in Seq(BitValue)
    OBVIOUS
  <2>4. lhs \in Seq(BitValue) /\ rhs \in Seq(BitValue) /\ bits \in Seq(BitValue)
    BY <2>1, <2>2, Zenon DEF Init
  <2>3. Fake(FALSE) \in BitValue
    BY BitFacts
  <2> QED BY <2>3, <2>4 DEF Init, TypeOK
<1>2. LoopInv /\ LoopsCompute /\ OnlyMisuseAborts /\ ResultUsable
  BY DEF Init, LoopInv, LoopsCompute, OnlyMisuseAborts, ResultUsable
<1> QED BY <1>1, <1>2 DEF Init, Inv

(* An abort is justified by what the step saw. *)
LEMMA AbortStep ==
  ASSUME Inv, Abort,
         \/ ~Ready
         \/ \E vector \in Operands : \E n \in DOMAIN vector : ~Usable(vector[n])
  PROVE  Inv'
<1>1. /\ pc' = "aborted"
      /\ UNCHANGED <<call, context, lhs, rhs, bits, i, accumulated>>
  BY DEF Abort, operands
<1>2. TypeOK' /\ (context.enabled => context.openfhe)'
  BY <1>1 DEF Inv, TypeOK
<1>3. LoopInv' /\ LoopsCompute' /\ ResultUsable'
  BY <1>1 DEF LoopInv, LoopsCompute, ResultUsable
<1>4. OnlyMisuseAborts'
  BY <1>1 DEF OnlyMisuseAborts, Ready, Operands, Usable
<1> QED BY <1>2, <1>3, <1>4 DEF Inv

LEMMA EnterEqualStep ==
  ASSUME Inv, EnterEqual
  PROVE  Inv'
<1>1. /\ pc = "enter" /\ call = "EqualBitVectors" /\ i = 0 /\ Len(bits) = 0
      /\ TypeOK /\ context \in Contexts /\ (context.enabled => context.openfhe)
  BY DEF Inv, LoopInv, EnterEqual, TypeOK
<1>2. CASE ~(AllOfBackend(lhs) /\ AllOfBackend(rhs)) /\ Abort
  BY <1>1, <1>2, AbortStep DEF AllOfBackend, Operands, Usable
<1>3. CASE Len(lhs) # Len(rhs) /\ Failed(Constant(context, FALSE)) /\ Abort
  <2>1. ~Ready
    BY <1>1, <1>3, ConstantFacts, BitFacts DEF Failed
  <2> QED BY <1>3, <2>1, AbortStep
<1>4. CASE /\ Len(lhs) # Len(rhs) /\ ~Failed(Constant(context, FALSE))
           /\ Result(Constant(context, FALSE))
  <2>1. /\ Constant(context, FALSE) # Aborted
        /\ accumulated' = Constant(context, FALSE)
        /\ pc' = "done"
        /\ UNCHANGED <<call, context, lhs, rhs, bits, i>>
    BY <1>4 DEF Result, Failed, operands
  <2>2. /\ accumulated' \in BitValue
        /\ Usable(accumulated')
        /\ context.kind = "kFake" => accumulated'.fake_value = FALSE
    BY <1>1, <2>1, ConstantFacts
  <2>3. lhs # rhs
    BY <1>4
  <2>4. LoopsCompute'
    BY <1>1, <2>1, <2>2, <2>3, BitFacts DEF LoopsCompute, Usable
  <2>5. ResultUsable' /\ OnlyMisuseAborts' /\ LoopInv'
    BY <2>1, <2>2 DEF ResultUsable, Usable, OnlyMisuseAborts, LoopInv
  <2> QED BY <1>1, <2>1, <2>2, <2>4, <2>5 DEF Inv, TypeOK
<1>5. CASE /\ AllOfBackend(lhs) /\ AllOfBackend(rhs)
           /\ Len(lhs) = Len(rhs)
           /\ pc' = "compare"
           /\ UNCHANGED <<call, context, lhs, rhs, bits, i, accumulated>>
  <2>1. LoopInv'
    BY <1>1, <1>5 DEF LoopInv, TypeOK, AllOfBackend, Compared
  <2>2. TypeOK' /\ LoopsCompute' /\ ResultUsable' /\ OnlyMisuseAborts'
    BY <1>1, <1>5 DEF TypeOK, LoopsCompute, ResultUsable, OnlyMisuseAborts
  <2> QED BY <1>1, <1>5, <2>1, <2>2 DEF Inv
<1> QED BY <1>2, <1>3, <1>4, <1>5 DEF EnterEqual, OperandsAsserted, operands

LEMMA CompareBitStep ==
  ASSUME Inv, CompareBit
  PROVE  Inv'
<1> DEFINE x == lhs[i + 1]
           y == rhs[i + 1]
           equal == Not(context, Xor(context, x, y))
<1>1. /\ pc = "compare" /\ call = "EqualBitVectors"
      /\ TypeOK /\ context \in Contexts /\ (context.enabled => context.openfhe)
      /\ AllOfBackend(lhs) /\ AllOfBackend(rhs)
      /\ Len(lhs) = Len(rhs) /\ Len(bits) = i /\ i < Len(lhs)
      /\ Compared(i)
      /\ i \in Nat /\ Len(lhs) \in Nat
  BY DEF Inv, LoopInv, CompareBit, TypeOK
<1>2. /\ i + 1 \in DOMAIN lhs /\ i + 1 \in DOMAIN rhs
      /\ x \in BitValue /\ y \in BitValue
      /\ bits \in Seq(BitValue)
  BY <1>1 DEF TypeOK
<1> HIDE DEF x, y
<1>3. /\ Ready /\ Usable(x) /\ Usable(y)
            => /\ equal \in BitValue
               /\ Usable(equal)
               /\ context.kind = "kFake" => (equal.fake_value <=> x.fake_value = y.fake_value)
      /\ ~(Ready /\ Usable(x) /\ Usable(y)) => equal = Aborted
  BY <1>1, <1>2, EqualFacts
<1> HIDE DEF equal
<1>4. CASE equal = Aborted /\ Abort
  <2>1. ~(Ready /\ Usable(x) /\ Usable(y))
    BY <1>3, <1>4, BitFacts
  <2>2. Ready => \E vector \in Operands : \E n \in DOMAIN vector : ~Usable(vector[n])
    BY <1>1, <1>2, <2>1 DEF Operands, x, y
  <2> QED BY <1>4, <2>2, AbortStep
<1>5. CASE /\ equal # Aborted
           /\ bits' = Append(bits, equal)
           /\ i' = i + 1
           /\ UNCHANGED <<call, context, lhs, rhs, accumulated, pc>>
  <2>1. /\ equal \in BitValue /\ Usable(equal)
        /\ context.kind = "kFake" => (equal.fake_value <=> x.fake_value = y.fake_value)
    BY <1>3, <1>5
  <2>2. /\ bits' \in Seq(BitValue)
        /\ Len(bits') = i + 1
        /\ bits'[i + 1] = equal
        /\ \A k \in 1 .. i : bits'[k] = bits[k]
    BY <1>1, <1>2, <1>5, <2>1
  <2>3. Compared(i)'
    <3> SUFFICES ASSUME NEW k \in 1 .. i + 1
                 PROVE  /\ bits'[k] \in BitValue /\ Usable(bits'[k])
                        /\ context.kind = "kFake"
                             => (bits'[k].fake_value <=> lhs[k].fake_value = rhs[k].fake_value)
      BY <1>1, <1>5 DEF Compared, Usable
    <3>1. CASE k = i + 1
      BY <3>1, <2>1, <2>2 DEF x, y
    <3>2. CASE k \in 1 .. i
      BY <3>2, <1>1, <2>2 DEF Compared
    <3> QED BY <3>1, <3>2, <1>1
  <2>4. LoopInv'
    BY <1>1, <1>5, <2>2, <2>3 DEF LoopInv, AllOfBackend
  <2>5. TypeOK' /\ LoopsCompute' /\ ResultUsable' /\ OnlyMisuseAborts'
    BY <1>1, <1>5, <2>2 DEF TypeOK, LoopsCompute, ResultUsable, OnlyMisuseAborts
  <2> QED BY <1>1, <1>5, <2>4, <2>5 DEF Inv
<1> QED BY <1>4, <1>5 DEF CompareBit, Failed, operands, equal, x, y

LEMMA CallReduceAndStep ==
  ASSUME Inv, CallReduceAnd
  PROVE  Inv'
<1>1. /\ pc = "compare" /\ pc' = "enter reduce" /\ i = Len(lhs)
      /\ UNCHANGED <<call, context, lhs, rhs, bits, i, accumulated>>
      /\ call = "EqualBitVectors"
      /\ OperandsCompared
  BY DEF Inv, LoopInv, CallReduceAnd, OperandsCompared, operands
<1>2. LoopInv'
  BY <1>1 DEF LoopInv, OperandsCompared, AllOfBackend, Compared, Usable
<1>3. TypeOK' /\ LoopsCompute' /\ ResultUsable' /\ OnlyMisuseAborts'
  BY <1>1 DEF Inv, TypeOK, LoopsCompute, ResultUsable, OnlyMisuseAborts
<1> QED BY <1>1, <1>2, <1>3 DEF Inv

(* In a reduction that EqualBitVectors started, every bit is usable. *)
LEMMA ReduceOperands ==
  ASSUME Inv, pc \in {"enter reduce", "reduce"}, NEW n \in DOMAIN bits, ~Usable(bits[n])
  PROVE  \E vector \in Operands : \E k \in DOMAIN vector : ~Usable(vector[k])
<1>1. CASE call = "EqualBitVectors"
  <2>1. DOMAIN bits = 1 .. Len(bits)
    BY LenProperties DEF Inv, TypeOK
  <2>2. OperandsCompared
    BY <1>1 DEF Inv, LoopInv
  <2>3. Usable(bits[n])
    BY <2>1, <2>2 DEF OperandsCompared, Compared
  <2> QED BY <2>3
<1>2. CASE call # "EqualBitVectors"
  BY <1>2 DEF Operands
<1> QED BY <1>1, <1>2

LEMMA EnterReduceStep ==
  ASSUME Inv, EnterReduce
  PROVE  Inv'
<1>1. /\ pc = "enter reduce"
      /\ TypeOK /\ context \in Contexts /\ (context.enabled => context.openfhe)
  BY DEF Inv, EnterReduce, TypeOK
<1>2. CASE ~AllOfBackend(bits) /\ Abort
  <2>1. PICK n \in DOMAIN bits : ~Usable(bits[n])
    BY <1>2 DEF AllOfBackend, Usable
  <2> QED BY <1>1, <1>2, <2>1, ReduceOperands, AbortStep
<1>3. CASE Failed(Constant(context, TRUE)) /\ Abort
  <2>1. ~Ready
    BY <1>1, <1>3, ConstantFacts, BitFacts DEF Failed
  <2> QED BY <1>3, <2>1, AbortStep
<1>4. CASE /\ AllOfBackend(bits)
           /\ Constant(context, TRUE) # Aborted
           /\ accumulated' = Constant(context, TRUE)
           /\ i' = 0
           /\ pc' = "reduce"
           /\ UNCHANGED <<call, context, lhs, rhs, bits>>
  <2>1. /\ Ready
        /\ accumulated' \in BitValue /\ Usable(accumulated')
        /\ context.kind = "kFake" => accumulated'.fake_value = TRUE
    BY <1>1, <1>4, ConstantFacts
  <2>2. Conjoined(i)'
    <3>1. \A k \in 1 .. i' : bits'[k].fake_value
      BY <1>4
    <3> QED BY <1>4, <2>1, <3>1 DEF Conjoined, Ready, Usable
  <2>3. Len(bits) \in Nat
    BY <1>1, LenProperties DEF TypeOK
  <2>4. LoopInv'
    <3>1. call = "EqualBitVectors" => OperandsCompared
      BY <1>1 DEF Inv, LoopInv
    <3>2. call' = "EqualBitVectors" => OperandsCompared'
      BY <3>1, <1>4 DEF OperandsCompared, AllOfBackend, Compared, Usable
    <3>3. AllOfBackend(bits)'
      BY <1>4 DEF AllOfBackend
    <3>4. i' <= Len(bits')
      BY <1>4, <2>3
    <3> QED BY <1>4, <2>2, <3>2, <3>3, <3>4 DEF LoopInv
  <2>5. TypeOK' /\ LoopsCompute' /\ ResultUsable' /\ OnlyMisuseAborts'
    BY <1>1, <1>4, <2>1 DEF TypeOK, LoopsCompute, ResultUsable, OnlyMisuseAborts
  <2> QED BY <1>1, <1>4, <2>4, <2>5 DEF Inv
<1> QED BY <1>2, <1>3, <1>4 DEF EnterReduce, Seed, Failed, operands

LEMMA ReduceBitStep ==
  ASSUME Inv, ReduceBit
  PROVE  Inv'
<1> DEFINE y == bits[i + 1]
           next == And(context, accumulated, y)
<1>1. /\ pc = "reduce" /\ i < Len(bits) /\ i \in Nat /\ Len(bits) \in Nat
      /\ TypeOK /\ context \in Contexts /\ (context.enabled => context.openfhe)
      /\ AllOfBackend(bits) /\ Conjoined(i)
      /\ Ready /\ Usable(accumulated) /\ accumulated \in BitValue
  BY DEF Inv, LoopInv, ReduceBit, TypeOK, Conjoined
<1>2. i + 1 \in DOMAIN bits /\ y \in BitValue
  BY <1>1 DEF TypeOK
<1> HIDE DEF y
<1>3. /\ Usable(y)
            => /\ next \in BitValue /\ Usable(next)
               /\ context.kind = "kFake"
                    => (next.fake_value <=> accumulated.fake_value /\ y.fake_value)
      /\ ~Usable(y) => next = Aborted
  BY <1>1, <1>2, AndFacts
<1> HIDE DEF next
<1>4. CASE next = Aborted /\ Abort
  <2>1. ~Usable(y)
    BY <1>3, <1>4, BitFacts
  <2> QED BY <1>1, <1>2, <1>4, <2>1, ReduceOperands, AbortStep DEF y
<1>5. CASE /\ next # Aborted
           /\ accumulated' = next
           /\ i' = i + 1
           /\ UNCHANGED <<call, context, lhs, rhs, bits, pc>>
  <2>1. /\ next \in BitValue /\ Usable(next)
        /\ context.kind = "kFake"
             => (next.fake_value <=> accumulated.fake_value /\ y.fake_value)
    BY <1>3, <1>5
  <2>2. (\A k \in 1 .. i + 1 : bits[k].fake_value)
          <=> (\A k \in 1 .. i : bits[k].fake_value) /\ y.fake_value
    <3>1. 1 .. i + 1 = 1 .. i \cup {i + 1}
      BY <1>1
    <3> QED BY <3>1 DEF y
  <2>3. context.kind = "kFake"
          => (next.fake_value <=> \A k \in 1 .. i + 1 : bits[k].fake_value)
    <3>1. context.kind = "kFake"
            => (accumulated.fake_value <=> \A k \in 1 .. i : bits[k].fake_value)
      BY <1>1 DEF Conjoined
    <3> QED BY <3>1, <2>1, <2>2, Zenon
  <2>4. Conjoined(i)'
    BY <1>1, <1>5, <2>1, <2>3, Zenon DEF Conjoined, Ready, Usable
  <2>5. LoopInv'
    BY <1>1, <1>5, <2>4 DEF Inv, LoopInv, OperandsCompared, AllOfBackend, Compared, Usable
  <2>6. TypeOK' /\ LoopsCompute' /\ ResultUsable' /\ OnlyMisuseAborts'
    BY <1>1, <1>5, <2>1 DEF TypeOK, LoopsCompute, ResultUsable, OnlyMisuseAborts
  <2> QED BY <1>1, <1>5, <2>5, <2>6 DEF Inv
<1> QED BY <1>4, <1>5 DEF ReduceBit, NextBit, Failed, operands, next, y

(* Two vectors of one length are equal when all comparisons say so. *)
LEMMA ComparedMeansEqual ==
  ASSUME TypeOK, context.kind = "kFake", OperandsCompared
  PROVE  (lhs = rhs) <=> AllTrue(bits)
<1>1. /\ DOMAIN lhs = 1 .. Len(bits) /\ DOMAIN rhs = 1 .. Len(bits)
      /\ DOMAIN bits = 1 .. Len(bits)
      /\ lhs \in Seq(BitValue) /\ rhs \in Seq(BitValue)
  BY LenProperties DEF TypeOK, OperandsCompared
<1>2. \A k \in 1 .. Len(bits) :
        /\ lhs[k] \in BitValue /\ rhs[k] \in BitValue
        /\ lhs[k] = Fake(lhs[k].fake_value) /\ rhs[k] = Fake(rhs[k].fake_value)
        /\ bits[k].fake_value <=> lhs[k].fake_value = rhs[k].fake_value
  BY <1>1, BitFacts DEF OperandsCompared, AllOfBackend, Compared
<1>3. ASSUME AllTrue(bits) PROVE lhs = rhs
  <2>1. \A k \in 1 .. Len(bits) : lhs[k].fake_value = rhs[k].fake_value
    BY <1>1, <1>2, <1>3 DEF AllTrue
  <2>2. \A k \in 1 .. Len(bits) : lhs[k] = rhs[k]
    BY <1>2, <2>1
  <2> QED BY <1>1, <2>2
<1>4. ASSUME lhs = rhs PROVE AllTrue(bits)
  BY <1>1, <1>2, <1>4 DEF AllTrue
<1> QED BY <1>3, <1>4

LEMMA ReturnReducedStep ==
  ASSUME Inv, ReturnReduced
  PROVE  Inv'
<1>1. /\ pc = "reduce" /\ i = Len(bits) /\ DOMAIN bits = 1 .. Len(bits)
      /\ TypeOK /\ (context.enabled => context.openfhe)
      /\ Conjoined(i)
      /\ accumulated \in BitValue
      /\ call = "EqualBitVectors" => OperandsCompared
  BY DEF Inv, LoopInv, ReturnReduced, TypeOK
<1>2. /\ pc' = "done"
      /\ UNCHANGED <<call, context, lhs, rhs, bits, i, accumulated>>
  BY DEF ReturnReduced, Result, operands
<1>3. context.kind = "kFake" => accumulated = Fake(AllTrue(bits))
  <2>1. context.kind = "kFake" => (accumulated.fake_value <=> AllTrue(bits))
    BY <1>1 DEF Conjoined, AllTrue
  <2>3. accumulated.fake_value \in BOOLEAN /\ AllTrue(bits) \in BOOLEAN
    BY <1>1, BitFacts DEF AllTrue
  <2>2. context.kind = "kFake" => accumulated = Fake(accumulated.fake_value)
    BY <1>1, BitFacts DEF Conjoined, Usable
  <2> QED BY <2>1, <2>2, <2>3, Zenon
<1>4. LoopsCompute'
  <2>1. context.kind = "kFake" /\ call = "EqualBitVectors" => (AllTrue(bits) <=> lhs = rhs)
    BY <1>1, ComparedMeansEqual
  <2>2. AllTrue(bits) \in BOOLEAN /\ (lhs = rhs) \in BOOLEAN
    BY DEF AllTrue
  <2>3. context.kind = "kFake" /\ call = "EqualBitVectors" => accumulated = Fake(lhs = rhs)
    BY <1>3, <2>1, <2>2
  <2> QED BY <1>2, <1>3, <2>3 DEF LoopsCompute, AllTrue
<1>5. ResultUsable' /\ OnlyMisuseAborts' /\ LoopInv'
  BY <1>1, <1>2 DEF ResultUsable, Usable, OnlyMisuseAborts, LoopInv, Conjoined
<1> QED BY <1>1, <1>2, <1>4, <1>5 DEF Inv, TypeOK

LEMMA StutterStep ==
  ASSUME Inv, UNCHANGED vars
  PROVE  Inv'
BY DEF Inv, vars, operands, TypeOK, LoopInv, OperandsCompared, AllOfBackend, Compared, Conjoined, Ready,
       Usable, LoopsCompute, AllTrue, OnlyMisuseAborts, Operands, ResultUsable

LEMMA Invariance == Spec => []Inv
<1>1. Inv /\ [Next]_vars => Inv'
  BY EnterEqualStep, CompareBitStep, CallReduceAndStep, EnterReduceStep, ReduceBitStep,
     ReturnReducedStep, StutterStep DEF Next
<1> QED BY InitInv, <1>1, PTL DEF Spec
-----------------------------------------------------------------------------
(* The theorems. *)

(* The state of a running circuit keeps its types. *)
THEOREM TypeCorrect == Spec => []TypeOK
<1>1. Inv => TypeOK
  BY DEF Inv
<1> QED BY <1>1, Invariance, PTL

(* EqualBitVectors is equality and ReduceAnd conjunction, at every length. *)
THEOREM LoopsAreCorrect == Spec => []LoopsCompute
<1>1. Inv => LoopsCompute
  BY DEF Inv
<1> QED BY <1>1, Invariance, PTL

(* Vectors of bits that one initialised backend made never abort a call. *)
THEOREM AbortsAreMisuse == Spec => []OnlyMisuseAborts
<1>1. Inv => OnlyMisuseAborts
  BY DEF Inv
<1> QED BY <1>1, Invariance, PTL

(* The result of a circuit can be the input of the next one. *)
THEOREM ResultsAreUsable == Spec => []ResultUsable
<1>1. Inv => ResultUsable
  BY DEF Inv
<1> QED BY <1>1, Invariance, PTL
=============================================================================
