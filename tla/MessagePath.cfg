SPECIFICATION PathSpec
CONSTANTS
  PageLimit = 1
  PollLimit = 1
  MaxArrivals = 3
  MaxSlots = 2
  MaxLoads = 1
  MaxClears = 1
  Port = {1, 2}
  Sim = {"sim"}
  Other = {"app"}
  MaxFlows = 0
  MaxOpens = 3
  FieldValue = {"a"}
  FillFrom = "own"
  MaxFields = 2
  Sender = {"ATC"}
  Bodies <- WrittenBodies
  MaxMessages = 2
  Advance = {15, 35}
  Scale = {1, 8}
  Override = {0, 40}
  Gap = {0, 2}
  WordLength <- WordLengths
  MaxWords = 3
INVARIANTS
  InboxHasNoGap
  InboxInOrder
  FlowsAreSound
  FormIsKept
  ReadAsWritten
  LayoutFits
CHECK_DEADLOCK FALSE
