-------------------------- MODULE MCVectorCircuits --------------------------
(***************************************************************************)
(* Vectors of up to two bits of either backend, or three plain ones.       *)
(***************************************************************************)
EXTENDS VectorCircuits, SequencesExt

ShortVectors ==
  BoundedSeq(BitValue, 2) \cup BoundedSeq({Fake(FALSE), Fake(TRUE)}, 3)
=============================================================================
