\* A search with all the filters of README.md, and every reply to it.
CONSTANTS
  Wrap = 6
  MaxFields = 1
  Word = 1000
  Byte = 256
  Requests <- OneSearch
  StoredDates <- Days
  PackYear = 2023
  MaxYears = 0
  ShortTexts <- TextsToFifteen
  RawIds <- IdsToSeventeen
  breakfast = breakfast
  refundable = refundable
  member = member
  flexible = flexible
  Feature <- MCFeature
  FeatureLists <- MCLists
  WordBits = 6
  MaskBits = 4
SPECIFICATION MCSpec
INVARIANTS ErrorsCounted
CHECK_DEADLOCK FALSE
