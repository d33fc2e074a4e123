SPECIFICATION Spec
CONSTANTS
  Variables = {"a", "b"}
  Labels = {"l"}
  Expressions <- NestedParts
  Height <- TreeHeight
  Conditions <- OfVariable
  Values = {TRUE}
  Returned <- NestedRight
  MaxItems = 3
  Absent = Absent
PROPERTY ReturnsAsWritten
