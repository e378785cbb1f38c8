\* Licences with another member before the keys, or with an id spelled like a tag.
SPECIFICATION Spec
CONSTANTS
  Char <- Alphabet
  Documents = {}
  BufSizes = {1}
  MaxTokens = 13
  Licences <- AllLicences
  OldKeys <- SomeOldKeys
  Elsewhere <- OtherTexts
CHECK_DEADLOCK FALSE
INVARIANT ValidSetAccepted
