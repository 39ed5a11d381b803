SPECIFICATION Spec
CONSTANTS
  Pieces <- MCPieces
  Texts <- MCTexts
  MaxString = 0
  PieceBuffer = 2
  MetaBuffer = 2
  MaxStream = 3
  MaxNumber = 1
  MaxSettings = 0
  Vocab <- MCVocab
  Language <- MCLanguage
  Samplers = {}
  MaxCandidates = 0
  MaxApplied = 0
INVARIANT
  SplitCharactersDelivered
CHECK_DEADLOCK FALSE
