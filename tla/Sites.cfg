SPECIFICATION SitesSpec
CONSTANTS
  d1 = d1
  r1 = r1
  r2 = r2
  a = a
  b = b
  Directory <- MCDirectory
  Domain <- MCDomain
  Formats <- MCFormats
  Document <- MCDocument
  Slug <- MCSlug
  SiteRequest <- MCRequest
  MaxCategories = 4
  MaxDepth = 3
  MaxFilings = 2
  MaxEvents = 4
CHECK_DEADLOCK FALSE
SYMMETRY Symmetry
INVARIANTS PathsAreTheTree
PROPERTIES AddressChangesAreTold TreeSpec
