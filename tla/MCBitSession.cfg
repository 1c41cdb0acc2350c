\* Both builds; the bits are finite, so no bound is needed.
SPECIFICATION Spec
INVARIANTS
  TypeOK
  CircuitsCompute
  ResultsCompose
  BinFHEBitsNeedOpenFHE
CHECK_DEADLOCK FALSE
