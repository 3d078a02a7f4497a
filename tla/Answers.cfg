\* What the service works out from what it read, against what it should be.
SPECIFICATION AnswersSpec
CONSTANTS
  MaxCells = 9
  Dates <- MCDates
  Numerals <- MCNumerals
  Large <- MCLarge
  Fractions <- MCFractions
  DefaultListLimit = 2
  MaxListLimit = 3
  Texts_ <- MCTexts
  Revisions <- MCRevisions
  Trees <- MCTrees
  Documents_ <- MCDocuments_
  Filters <- MCFilters
  Paths_ <- MCPaths
  Templates <- MCTemplates
  Pages_ <- MCPages
  Channels <- MCChannels
  Instant = 1
  Addresses_ = {"here", "proxy", "a", "b"}
  Trusted = {"here", "proxy"}
  Loopback = {"here"}
  Unreadable = "?"
  Travels <- MCTravels
  Asks <- MCAsks
INVARIANTS DiffIsRight ContentIsKept ReferencesAreReadable ListIsWhole NoDoubledSlash
  AddressIsWitnessed OnlyOurPagesAreObeyed AnswersAreTrue
CHECK_DEADLOCK FALSE
