CONSTANTS
  NoCategory = NoCategory
  Email = {"ann", "ed", "new"}
  InvitationTTL = 1
  MaxInvitations = 2
  Role = {"admin", "editor"}
  AdminRole = "admin"
  StartUsers = {"ann", "ed"}
  StartRoles <- MCStartRoles
  StartGrants <- MCStartGrants
  Offered <- MCOffered
  OfferedPrivileges = {5, 255}
  Subject <- MCSubject
  Request = {r1, r2}
  SessionTTL = 1
  MaxSessions = 2
  MaxRequests = 4
  MaxGrants = 4
  MaxNow = 1
SPECIFICATION Spec
CHECK_DEADLOCK FALSE
INVARIANTS GrantsWithinReach AccountsMatchInvitations HistoryExplainsInvitations
