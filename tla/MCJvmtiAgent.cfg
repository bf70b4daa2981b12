SPECIFICATION FairSpec
CONSTANTS
  Codes <- MCCodes
  NewCodes <- MCNewCodes
  Events = {"RESOURCE_EXHAUSTED", "VIRTUAL_THREAD_END"}
  CallbackCounts = {35, 39}
  MaxRedefinitions = 2
CHECK_DEADLOCK FALSE
INVARIANTS TypeOK BreakpointsOnInstructions NeverTooEarly EventsReachTheirFunctions
PROPERTIES EventuallyCovered
