SPECIFICATION Spec
CONSTANTS
  Ids = {1, 2}
  Ports <- MCPorts
  Queues <- MCQueues
  Packets <- MCPackets
  bufferModel = "sonic"
  ingressAlg <- MCdt
  egressAlg <- MCfab
  bufferPool = 10
  ingressPool = 5
  sharedPool = 6
  egressPool <- MCegressPool
  reserveIngress <- MCreserve
  xoff <- MCxoff
  xon <- MCxon
  xon_offset <- MCxonOffset
  alphaIngress <- MCalpha
  alphaEgress <- MCalphaHigh
  alphaHigh = 4
  AlphaUnit = 2
  Reveriegamma = 1
  GammaUnit = 2
  congestionIndicator = 2
  Uint64 = 4096
INVARIANTS
  SharedUseIsUsed
