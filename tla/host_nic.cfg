SPECIFICATION FairSpec
CONSTANTS
  Qp = {1, 2, 3}
  Priority = {3, 4}
  AckQ = 3
  Rate = {"full", "half"}
  LineRate = "full"
  Gap <- MCGap
  Flows <- MCFlows
  MaxTcp = 1
  MaxAck = 1
  MaxPause = 1
  MaxChange = 2
INVARIANTS
  WakeupScheduled
PROPERTIES
  SendsOnlyReady
  AllComplete
