SPECIFICATION FairSpec
CONSTANTS
  Ids = {1, 2}
  MaxCtrl = 2
  NoFrame = NoFrame
  Unreliable = {2}
  Ports <- MCPorts
  Queues <- MCQueues
  Packets <- MCPackets
  bufferModel = "sonic"
  ingressAlg <- MCdt
  egressAlg <- MCdt
  bufferPool = 8
  ingressPool = 4
  sharedPool = 4
  egressPool <- MCegressPool
  reserveIngress <- MCreserve
  xoff <- MCxoff
  xon <- MCxon
  xon_offset <- MCxonOffset
  alphaIngress <- MCalpha
  alphaEgress <- MCalphaHigh
  alphaHigh = 4
  AlphaUnit = 1
  Reveriegamma = 1
  GammaUnit = 2
  congestionIndicator = 2
  Uint64 = 4096
INVARIANTS
  TypeOK
  WorkConserving
  PfcStreamFaithful
PROPERTIES
  ImplementsBuffer
  PauseRespected
  PauseEnds
CHECK_DEADLOCK FALSE
