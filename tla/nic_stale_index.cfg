SPECIFICATION Spec
CONSTANTS
  Qp = {1, 2, 3}
  Priority = {3, 4}
  AckQ = 3
  Rate = {"full", "half"}
  LineRate = "full"
  Gap <- MCGap
  Flows <- MCStopping
  MaxTcp = 1
  MaxAck = 1
  MaxPause = 1
  MaxChange = 2
PROPERTIES
  SendsOnlyReady
CHECK_DEADLOCK FALSE
