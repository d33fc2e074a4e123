SPECIFICATION Spec
CONSTANTS
  Alphabet <- DeclarationTexts
  Types = {"uint8"}
  Numerals = {"1", "99"}
  BigNumerals = {"99"}
  MaxTokens = 8
INVARIANTS TypeOK ScopesNeverUnderflow ScopesBalanced AcceptedMeansAllRead
PROPERTY Termination
