\* Two editors, two requests in flight, one row id that a second document may
\* come to have after the first is deleted.
SPECIFICATION Spec
CONSTANTS
  User = {alice, bob}
  NoUser = NoUser
  Request = {r1, r2}
  Field <- MCField
  Value = {"good", "bad"}
  Blank = "good"
  Valid <- MCValid
  LockLease = 1
  MaxRows = 1
  MaxUids = 2
  MaxVersions = 2
  MaxNow = 2
SYMMETRY Symmetry
PROPERTIES CheckedInIsForever LiveLeaseProtects
CHECK_DEADLOCK FALSE
