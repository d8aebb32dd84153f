SPECIFICATION FairSpec
CONSTANTS
  Workers = {w1, w2}
  NoWorker = NoWorker
  MaxDisturbances = 2
  d1 = d1
  Devices = {d1}
  NoMessageId = NoMessageId
  NoReadingId = NoReadingId
  Log <- MCLog
INVARIANTS
  TypeOK
  ConsumedIsAccounted
  RegistryIsBacked
PROPERTIES
  PublishesStoredOnce
  PartitionIsConsumed
CHECK_DEADLOCK FALSE
