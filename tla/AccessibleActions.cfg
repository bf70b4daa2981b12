SPECIFICATION FairSpec
CONSTANTS
  a = a
  b = b
  Actions = {a, b}
  MAX_ACTION_INFO = 2
  MAX_ACTIONS_TO_DO = 2
  MaxPlan = 5
INVARIANTS TypeOK PerformedAsPlanned
PROPERTIES EveryPlanIsAnswered
