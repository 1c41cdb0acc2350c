\* Every call on vectors of at most two bits, or three plain ones.
CONSTANT Vectors <- ShortVectors
SPECIFICATION FairSpec
INVARIANTS
  TypeOK
  LoopsCompute
  OnlyMisuseAborts
  ResultUsable
PROPERTIES
  CallsEnd
CHECK_DEADLOCK FALSE
