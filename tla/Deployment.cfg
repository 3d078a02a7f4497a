\* A server with a request and a worker, and two command lines.
SPECIFICATION Spec
CONSTANTS
  Requests = {r1}
  Workers = {w1}
  Timed = TRUE
  Procs = {p1, p2}
  Roles <- MCRoles
  Things <- MCThings
  Unique <- MCUnique
  Embeds = 2
  Situations <- MCSituations
  MaxKills = 1
INVARIANTS NobodyIsCutOff PromisesAreKept
PROPERTIES BackupIsWhole ShutdownEnds
CHECK_DEADLOCK FALSE
