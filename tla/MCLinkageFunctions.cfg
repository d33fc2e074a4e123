SPECIFICATION Spec
CONSTANTS
  Names = {"f", "g"}
  Types = {"int8", "int32"}
  Symbols = {"g"}
  Suffixed <- Numbered
  Signatures <- Mixed
  Arguments <- Cast
  Uses = {"return", "int32"}
  MaxItems = 5
INVARIANTS TypeOK OverloadsDiffer RegisteredBeforeCalled SymbolsDistinct CallsLinked EmittedInCaller PragmaTargetsFound OneParameterOverloadFound
