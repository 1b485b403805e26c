\* Every command with all the fields that README.md gives it.
CONSTANTS
  Wrap = 6
  MaxFields = 1
  Word = 1000
  Byte = 256
  Requests <- DocumentedRequests
  StoredDates <- Days
  PackYear = 2023
  MaxYears = 0
  ShortTexts <- TextsToFifteen
  RawIds <- IdsToSeventeen
  breakfast = breakfast
  refundable = refundable
  member = member
  flexible = flexible
  Feature <- MCFeature
  FeatureLists <- MCLists
  WordBits = 6
  MaskBits = 4
SPECIFICATION MCSpec
INVARIANTS FiltersKept
CHECK_DEADLOCK FALSE
