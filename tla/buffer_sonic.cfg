SPECIFICATION Spec
CONSTANTS
  Ids = {1, 2}
  Ports <- MCPorts
  Queues <- MCQueues
  Packets <- MCMixedPackets
  bufferModel = "sonic"
  ingressAlg <- MCdt
  egressAlg <- MCfab
  bufferPool = 8
  ingressPool = 5
  sharedPool = 6
  egressPool <- MCtightEgressPool
  reserveIngress <- MCreserve
  xoff <- MCunequalXoff
  xon <- MCxon
  xon_offset <- MCxonOffset
  alphaIngress <- MCalpha
  alphaEgress <- MCunequalAlpha
  alphaHigh = 4
  AlphaUnit = 2
  Reveriegamma = 1
  GammaUnit = 2
  congestionIndicator = 2
  Uint64 = 4096
INVARIANTS
  TypeOK
  CountersMatchBuffer
  PoolsPartitionBuffer
  HeadroomIsLossless
  HeadroomBounded
  BufferNeverOverrun
  HeadroomMeansPaused
  PausedMeansOccupied
  LosslessDropsOnlyPaused
