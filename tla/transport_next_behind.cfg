SPECIFICATION Spec
CONSTANTS
  Flows <- MCFlows
  m_mtu = 2
  m_ack_interval = 3
  m_chunk = 4
  Uint64 = 64
  MaxInFlight = 4
  MaxLoss = 2
INVARIANTS
  NextNotBehind
CHECK_DEADLOCK FALSE
