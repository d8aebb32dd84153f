SPECIFICATION Spec
CONSTANTS
  HouseholdLimit = 5
  DemoDevices = {1, 2, 4}
  Cohort = {2, 3, 7}
  History <- MCHistory
  Requests <- MCRequests
  Passes = {101}
  ModelAnswers <- MCModelAnswers
  RefreshMinutes = 60
  Loads <- MCLoads
INVARIANTS
  TypeOK
  InsightsAreGrounded
  
  
CHECK_DEADLOCK FALSE
