SPECIFICATION Spec
CONSTANTS
  Config <- MCConfig
  Tables <- MCTables
  Devices = {1, 2}
  DeviceRequests <- MCDeviceRequests
  OtherRequests <- MCOtherRequests
  MqttPayloads <- MCMqttPayloads
  MaxRecords = 2
  ReportingDelays = {1, 2}
  RetryDelay = 1
  InFlight = 99
  Loads <- MCLoads
  MaxLanes = 2
  MaxOverdue = 1
INVARIANTS
  TypeOK
  ReadingsAreAccountedFor
  RefusedOncePerWindow
  NothingLeavesUntraced
  ExportsAreAudited
CHECK_DEADLOCK FALSE
