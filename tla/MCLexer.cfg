SPECIFICATION Spec
CONSTANTS
  Characters <- Classes
  MaxLength = 5
INVARIANTS
  TypeOK
  OnlyBlanksLost
  TokensInPlace
  HighlightFits
PROPERTY
  ReadsToEnd
