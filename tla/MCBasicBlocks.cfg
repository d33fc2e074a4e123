SPECIFICATION Spec
CONSTANTS
  Variables = {"a", "b"}
  Labels = {"l"}
  Expressions <- SimpleParts
  Height <- TreeHeight
  Conditions <- Simple
  Values = {TRUE}
  Returned <- OfVariable
  MaxItems = 7
  Absent = Absent
INVARIANTS
  TypeOK
  WellLabelledCompiles
  ExecutedBlocksKept
PROPERTIES
  ImplementsControlFlow
  ForwardReturns
