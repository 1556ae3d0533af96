SPECIFICATION Spec
CONSTANTS
  NoFile = NoFile
  Sections <- ConfigSections
  NumberOf <- NumbersOf
  Truths = {"yes", "no", "0", "1"}
  Matching <- Patterns
  ListsOf <- ListTypes
  EmptyLists = {}
  XKeys <- Exts
  NonText <- NoStrings
  Entries <- MenuEntries
  Locales <- LocaleLists
  Files <- AllFiles
  Texts <- AllTexts
  Parsed <- Contents
  Scenes <- EveryScene
  Edits <- SomeEdits
  Plain <- PlainValues
  Numerals = {"0", "1", "23"}
  Decimals = {"0.5"}
  Folded <- LowerCaseAll
INVARIANTS TypeOK LastWins NoOverrideIsLost SameTextSameVerdict StatusIsTheVerdict NeverGuess
