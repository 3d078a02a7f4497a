\* Every graph of three documents, and a change by others while it is read.
SPECIFICATION CascadeSpec
CONSTANTS
  Docs = {"r", "a", "b"}
  Root = "r"
  NoDocument = "x"
  Site <- MCSite
  Contents <- MCContents
  Situations <- MCSituations
  MaxVersion = 2
  MaxChanges = 1
INVARIANTS GatheredIsRight PolicyIsKept
CHECK_DEADLOCK FALSE
