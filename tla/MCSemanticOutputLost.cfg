SPECIFICATION Spec
CONSTANTS
  Workers = {w1, w2}
  NoWorker = NoWorker
  MaxDisturbances = 2
  a = a
  b = b
  Readings = {a, b}
  Invalid = Invalid
  Log <- MCLog
  MaxReadings = 2
INVARIANT
  OffsetsAfterOutput
CHECK_DEADLOCK FALSE
