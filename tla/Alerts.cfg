CONSTANTS
  NumberOf <- MCNumberOf
  Compiles <- MCCompiles
  PatternMatches <- MCPatternMatches
  User = {"ann"}
  MembersOf <- MCMembersOf
  Dispatcher = {d1, d2}
  Request = {r1}
  Batch = 2
  State <- MCState
  StartEvents <- MCStartEvents
  StartState <- Draft
  Registered <- MCRegistered
  Conditions <- MCConditions
  Target <- MCTarget
  StartRules <- MCStartRules
  MaxEvents = 2
  MaxRules = 2
  MaxCrashes = 1
SPECIFICATION Spec
CHECK_DEADLOCK FALSE
INVARIANTS EveryWatchedEventIsTold MailIsSentOnce
PROPERTIES FeedSpec EveryEventIsEvaluated
