SPECIFICATION Spec
CONSTANTS
  Types = {"int8", "int32", "bool"}
  Names = {"x", "y", "b"}
  Expressions <- FewParts
  Height <- TreeHeight
  Signed = {"int8", "int32"}
  Width <- Bits
  Statements <- Few
  Signatures <- TwoParameters
  MaxItems = 5
INVARIANTS
  TypeOK
  GeneratorScopesLexically
  AcceptedHasType
  HasTypeAccepted
  WidthsAgree
  NullNeedsXor
