SPECIFICATION Spec
CONSTANTS
  PacketSize = {4, 8}
  m_weight = 10
  Device = {1, 2}
  qAlpha = 1
  port_num = 2
  Duration <- MCDuration
  MaxDebt = 4
  Config <- MCConfig
INVARIANTS
  MemoryBalanced
  BufferNeverOverrun
  PushoutAlwaysFits
  HeadDropTurns
PROPERTIES
  ImplementsTokenBudget
CHECK_DEADLOCK FALSE
