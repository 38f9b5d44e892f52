SPECIFICATION Spec
CONSTANTS
  Ids = {1, 2}
  Ports <- MCPorts
  Queues <- MCQueues
  Packets <- MCPackets
  bufferModel = "reverie"
  ingressAlg <- MCdt
  egressAlg <- MCdt
  bufferPool = 9
  ingressPool = 3
  sharedPool = 3
  egressPool <- MCegressPool
  reserveIngress <- MCnoReserve
  xoff <- MCxoff
  xon <- MCxon
  xon_offset <- MCxonOffset
  alphaIngress <- MCalpha
  alphaEgress <- MCalphaHigh
  alphaHigh = 4
  AlphaUnit = 2
  Reveriegamma = 1
  GammaUnit = 2
  congestionIndicator = 2
  Uint64 = 4096
INVARIANTS
  LosslessDropsOnlyPaused
