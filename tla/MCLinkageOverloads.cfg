SPECIFICATION Spec
CONSTANTS
  Names = {"f"}
  Types = {"int8", "int32"}
  Symbols = {}
  Suffixed <- Numbered
  Signatures <- Pairs
  Arguments <- Casts
  Uses = {"return"}
  MaxItems = 5
INVARIANT CorrespondingOverloadFound
