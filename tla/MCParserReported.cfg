SPECIFICATION Spec
CONSTANTS
  Alphabet <- BlockTexts
  Types = {"uint8"}
  Numerals = {"1", "99"}
  BigNumerals = {"99"}
  MaxTokens = 7
INVARIANT ReportedIsRejected
