SPECIFICATION AllSpec
CONSTANTS
  Texts <- MCTexts
  Bases = {0, 1, 8, 9, 10, 16, 18, 36, 37}
  IntMax = 63
INVARIANTS
  NoOverflow
  RangesReadBack
  PathsFitTogether
  TextsLikeStrings
  EncodingsComeBack
PROPERTIES
  NumbersReadExactly
CHECK_DEADLOCK FALSE
