SPECIFICATION Spec
CONSTANTS
  Types = {"int8", "int32", "bool"}
  Names = {"x", "y", "b"}
  Expressions <- ShadowsParts
  Height <- TreeHeight
  Signed = {"int8", "int32"}
  Width <- Bits
  Statements <- Shadows
  Signatures <- Wide
  MaxItems = 4
INVARIANT SameDeclaration
