SPECIFICATION Spec
CONSTANTS
  Width = 4
  Height = 4
  Glyphs <- MCGlyphs
  NewLine = "newline"
  Blank = "blank"
  Space = "space"
  Prompt <- MCPrompt
  Banner <- MCBanner
  InputBufferSize = 7
  TokenBufferSize = 3
  Behind <- MCBehind
  ExtraTokens <- MCExtraTokens
  ClearWord <- MCClearWord
  Outputs <- MCOutputs
INVARIANTS
  TypeOK
  EchoMatchesLine
  TokensAreWords
