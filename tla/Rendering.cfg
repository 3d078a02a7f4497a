\* Templates are edited, documents saved and servers restarted under two renders.
SPECIFICATION Spec
CONSTANTS
  Requests = {r1, r2}
  Categories = {"film"}
  Candidates <- MCCandidates
  Sources = {"old", "new", "broken"}
  Unparsable = {"broken"}
  Fails <- MCFails
  Channels = {"web"}
  BadExtension = {}
  Settings <- MCSettings
  None = None
  MaxEdits = 2
  MaxStarts = 2
  MaxAsks = 2
SYMMETRY Interchangeable
CHECK_DEADLOCK FALSE
INVARIANTS PreviewIsWhole RendersAreCurrent
