\* Two workers of one process and two documents.  In the print channel they take
\* and leave two addresses, one of which has had two files; in the other they
\* compete for one.  Three publishes in print alone, or one there and one in both
\* channels, and one step that fails, process that dies or runner that is
\* overtaken.
SPECIFICATION Spec
CONSTANTS
  Document = {d1, d2}
  Channel = {"web", "print"}
  Selection = {{"print"}, {"web", "print"}}
  Address = {"a", "b"}
  AddressIn <- MCAddressIn
  PathsOf <- MCPathsOf
  Worker = {w1, w2}
  NoOne = NoOne
  NoPage = NoPage
  NoPath = NoPath
  MaxVersions = 1
  MaxPages = 3
  MaxTroubles = 1
SYMMETRY Symmetry
INVARIANTS OneAddressPerChannel OrphansAreExpiring PagesMatchRows LiveIsRecorded
CHECK_DEADLOCK FALSE
