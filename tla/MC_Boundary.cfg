SPECIFICATION Spec
CONSTANTS
  Pieces <- MCPieces
  Texts <- MCTexts
  MaxString = 5
  PieceBuffer = 2
  MetaBuffer = 2
  MaxStream = 3
  MaxNumber = 1
  MaxSettings = 2
  Vocab <- MCVocab
  Language <- MCLanguage
  Samplers = {1, 2}
  MaxCandidates = 3
  MaxApplied = 3
INVARIANTS
  OkIsWhole
  WholeCharactersDelivered
  GettersReport
  GrammarKept
  ArrayAsLeft
PROPERTY
  EveryCallReturns
CHECK_DEADLOCK FALSE
