SPECIFICATION FilterSpec
CONSTANTS
  Letters <- TwoLetters
  Lower <- CapitalS
  LeetLookup <- OneIsI
  Marks <- Dot
  Space = " "
  ZeroWidth = "zero width"
  Lists <- FewLists
  MaxInput = 6
  NoMatch = NoMatch
CHECK_DEADLOCK FALSE
INVARIANT FoundIffSpelt
