----------------------------- MODULE SwitchBuffer -----------------------------
(***************************************************************************)
(* The packet buffer of one switch as its MMU sees it: packets arrive and  *)
(* are admitted or dropped, and leave in whatever order the egress queues  *)
(* decide.  held is what the buffer physically holds; the MMU never sees   *)
(* it, it only keeps counters.  The properties below say that the counters *)
(* nevertheless describe held, and what admission and PFC make of them.    *)
(* SwitchNode, which has the queues, implements this specification.        *)
(***************************************************************************)
EXTENDS SwitchMmu

VARIABLES
  mmu,   \* the counters of SwitchMmu
  held   \* the admitted packets that have not been dequeued

vars == <<mmu, held>>

\* Queue 0 bypasses the MMU.
DataPackets == {p \in Packets : p.qIndex # 0}

Init == mmu = NewMmu /\ held = {}

\* SwitchNode::SendToDev admits p, which then waits in its egress queue.
Admit(p) ==
  /\ p \notin held
  /\ Admits(mmu, p)
  /\ mmu' = Admitted(mmu, p)
  /\ held' = held \cup {p}

\* SendToDev drops p.
Drop(p) ==
  /\ p \notin held
  /\ ~Admits(mmu, p)
  /\ mmu' = AfterChecks(mmu, p)
  /\ UNCHANGED held

\* SwitchNode::SwitchNotifyDequeue.
Release(p) ==
  /\ p \in held
  /\ mmu' = Released(mmu, p)
  /\ held' = held \ {p}

\* SendToDev finds the egress port idle: p is dequeued before the call returns.
CutThrough(p) ==
  /\ p \notin held
  /\ Admits(mmu, p)
  /\ mmu' = Released(Admitted(mmu, p), p)
  /\ UNCHANGED held

Next ==
  \E p \in DataPackets : Admit(p) \/ Drop(p) \/ Release(p) \/ CutThrough(p)

Spec == Init /\ [][Next]_vars

-------------------------------------------------------------------------------
(* Properties *)

Size == [p \in Packets |-> p.size]
Bytes(S) == Total(S, Size)

\* The packets of S from an ingress queue, to an egress queue, and of a class.
From(S, i) == {p \in S : In(p) = i}
To(S, o) == {p \in S : Out(p) = o}
OfClass(S, c) == {p \in S : p.type = c}

\* What each ingress queue uses of its reservation, and of the shared pool.
ReservedOf(m) == [i \in PortQueue |-> GetIngressReservedUsed(m, i)]
SharedOf(m) == [i \in PortQueue |-> m.ingress_bytes[i] - m.xoffUsed[i]]

\* Every counter of the MMU is a natural number: no subtraction from an unsigned
\* counter wraps around, the unguarded ones from sharedPoolUsed included.  (The
\* difference GetIngressSharedUsed computes from three of them does wrap, see
\* SharedUseIsUsed.)
TypeOK ==
  /\ held \subseteq Packets
  /\ mmu \in MmuType

\* The byte counters say exactly what the buffer holds.  In particular the
\* saturating branches of the guarded subtractions, which the source calls
\* unnecessary, are never taken: a departing packet is always fully counted.
CountersMatchBuffer ==
  /\ mmu.totalUsed = Bytes(held)
  /\ \A i \in PortQueue : /\ mmu.ingress_bytes[i] = Bytes(From(held, i))
                          /\ mmu.egress_bytes[i] = Bytes(To(held, i))
  /\ \A c \in Classes : mmu.egressPoolUsed[c] = Bytes(OfClass(held, c))

\* The pools partition the buffer: headroom and shared pool add up to the total,
\* each is the sum of its queues' parts, and so is the reserved use.
PoolsPartitionBuffer ==
  /\ mmu.xoffTotalUsed + mmu.sharedPoolUsed = mmu.totalUsed
  /\ mmu.xoffTotalUsed = Total(PortQueue, mmu.xoffUsed)
  /\ mmu.sharedPoolUsed = Total(PortQueue, SharedOf(mmu))
  /\ mmu.totalIngressReservedUsed = Total(PortQueue, ReservedOf(mmu))

\* A queue's headroom holds no more than the queue's lossless packets: headroom
\* is given back no later than the packets it was charged for.
HeadroomIsLossless ==
  \A i \in PortQueue :
    mmu.xoffUsed[i] <= Bytes(OfClass(From(held, i), LOSSLESS))

\* How far a queue can go into its headroom.  The admission check exempts the
\* first packet, and a queue within its reservation, from the limit xoff.
HeadroomBounded ==
  \A i \in PortQueue :
    \/ mmu.xoffUsed[i] <= xoff[i]
    \/ mmu.xoffUsed[i] <= reserveIngress[i]
    \/ \E p \in OfClass(From(held, i), LOSSLESS) : mmu.xoffUsed[i] <= p.size

\* No admission overruns the chip's buffer, nor the egress pool where it is
\* enforced.
BufferNeverOverrun ==
  /\ mmu.totalUsed <= bufferPool
  /\ bufferModel = "sonic" =>
       \A c \in Classes : mmu.egressPoolUsed[c] <= egressPool[c]

\* A queue that uses headroom has paused its upstream peer.
HeadroomMeansPaused == \A i \in PortQueue : mmu.xoffUsed[i] > 0 => mmu.paused[i]

\* The configuration of the Reverie simulations: a priority is lossless or lossy.
OneClassPerPriority ==
  \A p1, p2 \in DataPackets : p1.qIndex = p2.qIndex => p1.type = p2.type

\* A paused peer is never forgotten.  Resume is only considered when a packet of
\* the queue departs, so a queue that drained while its peer was paused would
\* keep it paused forever.  (Under "reverie" the occupancy compared with xon is
\* the filtered one, which only lossless departures update: there a priority
\* must not carry both classes.)
PausedMeansOccupied ==
  (bufferModel = "sonic" \/ OneClassPerPriority) =>
    \A i \in PortQueue :
      mmu.paused[i] /\ xon[i] > 0 => \E p \in held : In(p) = i

\* The filters of Reverie never exceed what they filter, so that a queue's
\* threshold is never compared with bytes it no longer holds.
FilteredIsHeld ==
  OneClassPerPriority =>
    \A i \in PortQueue : /\ mmu.ingressLpf_bytes[i] <= Bytes(From(held, i))
                         /\ mmu.egressLpf_bytes[i] <= Bytes(To(held, i))

\* The number of congested queues of a priority is the sum of what its queues
\* last reported, in whatever order thresholds were computed.
CongestionCounted ==
  \A q \in Queues :
    /\ mmu.NofPIngress[q] = Total(Ports \X {q}, mmu.congestedIngress)
    /\ mmu.NofPEgress[q] = Total(Ports \X {q}, mmu.congestedEgress)

\* The configurations for which lossless traffic is lossless: as in the example
\* programs, the shared pool is what the headroom leaves of the buffer; and a
\* packet fits the headroom of its queue, which covers the reservation.
LosslessConfiguration ==
  /\ bufferModel = "sonic"
  /\ totalIngressReserved <= ingressPool
  /\ ingressPool + xoffTotal <= bufferPool
  /\ bufferPool < Uint64
  /\ \A p \in DataPackets : p.type = LOSSLESS =>
       p.size <= xoff[In(p)] /\ reserveIngress[In(p)] <= xoff[In(p)]

\* Lossless packets are dropped at the ingress only after their sender has been
\* paused, that is, only if the headroom was too small for what was in flight.
\* (LosslessConfiguration is enough for that, though not necessary.)
LosslessDropsOnlyPaused ==
  \A p \in DataPackets \ held :
    p.type = LOSSLESS /\ ~CheckIngressAdmission(mmu, p) => mmu.paused[In(p)]

-------------------------------------------------------------------------------
(* What switch-mmu.cc says and the code does not keep to *)

\* GetIngressSharedUsed counts bytes used from the ingress shared pool.
SharedUseIsUsed == GetIngressSharedUsed(mmu) <= mmu.totalUsed
===============================================================================
