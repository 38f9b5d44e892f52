SPECIFICATION LinkSpec
CONSTANTS
  Ids = {1, 2, 3, 4, 5}
  OtherIds = {1}
  Link = 1
  Delay = 1
  PfcSize = 1
  MaxSize = 3
  MaxAhead = 3
  Ports <- MCPorts
  Queues <- MCQueues
  Packets <- MCPackets
  bufferModel = "sonic"
  ingressAlg <- MCdt
  egressAlg <- MCdt
  bufferPool = 60
  ingressPool = 5
  sharedPool = 6
  egressPool <- MCegressPool
  reserveIngress <- MCzero
  xoff <- MCxoff
  xon <- MCone
  xon_offset <- MCone
  alphaIngress <- MCone
  alphaEgress <- MCalphaEgress
  alphaHigh = 4
  AlphaUnit = 1
  Reveriegamma = 1
  GammaUnit = 2
  congestionIndicator = 2
  Uint64 = 4096
ACTION_CONSTRAINT MCInOrder
INVARIANTS
  HeadroomSuffices
  NeverDropped
  ResumeFindsPause
