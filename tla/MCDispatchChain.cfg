SPECIFICATION Spec
CONSTANTS
  Bodies <- MCBodies
  GridBacklog <- MCGridBacklog
  ReadyBacklog <- MCReadyBacklog
  Enriched <- MCEnriched
  MaxDisturbances = 1
INVARIANTS
  TypeOK
  EvidenceIsOrdered
  AmplificationIsBounded
  AllocationMeetsRequest
  StagesAgree
  CommittedIsSettled
CHECK_DEADLOCK FALSE
