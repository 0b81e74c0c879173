SPECIFICATION Spec
CONSTANTS
  Mod = 5
  Half = 8
  MaxByte = 3
  Length = 6
  Sections <- AllSections
  Sum1 <- AllSum1
  Sum2 <- AllSum2
INVARIANTS
  TypeOK
  WindowHoldsSection
  SumOfWindow
PROPERTIES
  RollsOn
CHECK_DEADLOCK FALSE
