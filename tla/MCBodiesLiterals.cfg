SPECIFICATION Spec
CONSTANTS
  Types = {"int8", "int32", "bool"}
  Names = {"x", "y", "b"}
  Expressions <- ComparedParts
  Height <- TreeHeight
  Signed = {"int8", "int32"}
  Width <- Bits
  Statements <- Compared
  Signatures <- TwoParameters
  MaxItems = 3
INVARIANT LiteralsHaveWidth
