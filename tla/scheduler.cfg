SPECIFICATION Spec
CONSTANTS
  PacketSize = {1, 3}
  m_weight = 4
  qCnt = 4
  Config <- MCConfig
  MaxLength <- MCMaxLength
INVARIANTS
  CreditBounded
  WorkConserving
  Fair
PROPERTIES
  NoStarvation
