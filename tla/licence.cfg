\* The tokenizer under its three callers, with any short text, JSON values cut into chunks of
\* several sizes, and licences around the limit of tokens.
SPECIFICATION Spec
CONSTANTS
  Char <- Alphabet
  Documents <- AllDocuments
  BufSizes = {1, 3, 64}
  MaxTokens = 13
  Licences <- AllLicences
  OldKeys <- SomeOldKeys
  Elsewhere <- OtherTexts
CHECK_DEADLOCK FALSE
INVARIANTS
  JsmnTypeOK JwkTypeOK TokensNest SuperOfOpen
  UncutAgrees JsonAccepted CountAgrees DumpWalksAll
  PairExtracted OneKeyOrNone
PROPERTIES Parser ProgramsEnd
