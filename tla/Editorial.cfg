CONSTANTS
  User = {"pia", "wil"}
  NoUser = NoUser
  PrivilegeOf <- MCPrivilegeOf
  State <- MCState
  InitialState = "draft"
  Publishable <- MCPublishable
  RequiredApprovals <- MCRequiredApprovals
  Workflow <- StoryWorkflow
  Filled <- MCFilled
  Request = {r1}
  MaxVersions = 2
  MaxThreads = 1
  MaxPins = 1
  MaxInterrupts = 1
SPECIFICATION Spec
CONSTRAINT Uncut
CHECK_DEADLOCK FALSE
INVARIANTS EventsAccountForRows NothingScheduledUnapproved
PROPERTIES SignedContentIsFixed SignOffCounts
