SPECIFICATION Spec
CONSTANTS
  Alphabet <- PrototypeTexts
  Types = {"uint8"}
  Numerals = {"1", "99"}
  BigNumerals = {"99"}
  MaxTokens = 11
INVARIANT ParameterNamesAccepted
