\* A request from its arrival to its response: every command with its fields
\* varied, and every reply of at most eight fields, more than the six ids there
\* are.  Masks of six bits, four of them looked at.
CONSTANTS
  Wrap = 6
  MaxFields = 8
  Word = 1000
  Byte = 256
  Requests <- AllRequests
  StoredDates <- Days
  PackYear = 2023
  MaxYears = 2
  ShortTexts <- TextsToFifteen
  RawIds <- IdsToSeventeen
  breakfast = breakfast
  refundable = refundable
  member = member
  flexible = flexible
  Feature <- MCFeature
  FeatureLists <- MCLists
  WordBits = 6
  MaskBits = 4
SPECIFICATION MCSpec
INVARIANTS TypeOK ShownIsWhole ListsWhatIsNamed WellFormedIsTaken
INVARIANTS RequestKept GoodTaken RouterUnderstands AnswerTellsFate DatesShown IdsKept
INVARIANTS FeaturesTyped FeaturesAgree
CHECK_DEADLOCK FALSE
